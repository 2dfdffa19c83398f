----------------------------- MODULE FollowProofs -----------------------------
(***************************************************************************)
(* Follow mode without the disk buffer skips nothing and stops exactly,    *)
(* for files of any length and any number of truncations, replacements,    *)
(* stops and crashes.                                                      *)
(*                                                                         *)
(* Two layers. TailInv is about offsets alone: the rows of the present     *)
(* generation, the batcher's and those the worker still has, wait in       *)
(* order, without a gap between the checkpoint and the last event emitted. *)
(* FreshInv is about what the offsets mean: of content that is gone the    *)
(* file under the path is too short to pass for the continuation, and what *)
(* a checkpoint passes over is delivered. The second needs that no         *)
(* truncated file outgrows an offset unseen.                               *)
(***************************************************************************)
EXTENDS Follow, DataFacts, SequenceTheorems

RowType == [gen : Nat, epoch : Ids, end : 1 .. MaxLen]

\* The rows on their way: in the channel or with the batcher, then the worker's own.
Line == queue \o slab

\* A row of the generation the tailer is in.
Present(r) == r.gen = gen

\* The event with offset i has been emitted and waits for its acknowledgement.
Waits(i) == \E j \in DOMAIN Line : Present(Line[j]) /\ Line[j].end = i

\* Where the tailer stands.
Tailed ==
  /\ rewrites <= MaxRewrites /\ path.id <= rewrites + 1 /\ path.epoch <= rewrites + 1
  /\ handle \in {0, ident}
  /\ pc = "read" => handle # 0
  /\ pc \in {"last", "gone"} => pend = NoEvent
  /\ pc \in {"send", "last"} \/ slab = << >>
  /\ ident = 0 => base = 0 /\ pend = NoEvent /\ committed = 0 /\ Line = << >>
  /\ pend # NoEvent => pend = [epoch |-> seen, end |-> base + 1] /\ seen # 0
  /\ committed <= base

\* The rows of this generation: in order, and all of them between checkpoint and base.
Queued ==
  /\ \A j \in DOMAIN Line :
       Line[j].gen <= gen /\ (Present(Line[j]) => Line[j].end <= base)
  /\ \A j, k \in DOMAIN Line :
       j < k /\ Present(Line[j]) /\ Present(Line[k]) => Line[j].end < Line[k].end
  /\ ~failed => \A i \in committed + 1 .. base : Waits(i)
  /\ failed => queue = << >>
  /\ sent => batch > 0 /\ \A j \in 1 .. batch : Event(Line[j]) \in delivered

TailInv == TypeOK /\ Tailed /\ Queued

\* An offset into content that is gone from under the path.
Harmless(off) == off = 0 \/ path.len < off

\* Content is numbered upwards; an old file is about older content.
Ranked ==
  /\ seen <= path.epoch /\ ident <= path.id
  /\ handle \notin {0, path.id} => orphan.epoch < path.epoch
  /\ ident \notin {0, path.id} => seen < path.epoch

\* The tailer's offsets are about the file under the path, or harmless to it.
Placed ==
  up /\ ident = path.id =>
    IF seen = path.epoch
      THEN /\ Off <= path.len
           /\ \A j \in DOMAIN Line : Present(Line[j]) => Line[j].epoch = seen
           /\ \A i \in 1 .. committed : [epoch |-> seen, end |-> i] \in delivered
      ELSE /\ Harmless(Off) /\ Harmless(committed)
           /\ \A j \in DOMAIN Line : Present(Line[j]) => Harmless(Line[j].end)

\* So is a record of the file that is under the path.
Sound(rec) ==
  /\ rec.epoch <= path.epoch
  /\ IF rec.epoch = path.epoch
       THEN /\ rec.off <= path.len
            /\ \A i \in 1 .. rec.off : [epoch |-> rec.epoch, end |-> i] \in delivered
       ELSE Harmless(rec.off)

Recorded ==
  /\ \A i \in Ids : i > path.id => disk[i] = NoRecord /\ loaded[i] = NoRecord
  /\ Sound(disk[path.id]) /\ Sound(loaded[path.id])

FreshInv == Ranked /\ Placed /\ Recorded

-----------------------------------------------------------------------------
(* Facts the steps have in common *)

\* Two sequences, one after the other.
LEMMA Concat ==
  ASSUME NEW S, NEW s \in Seq(S), NEW t \in Seq(S), NEW m, NEW n, m = Len(s), n = Len(t)
  PROVE  /\ s \o t \in Seq(S) /\ Len(s \o t) = m + n /\ DOMAIN (s \o t) = 1 .. m + n
         /\ \A i \in 1 .. m : (s \o t)[i] = s[i]
         /\ \A i \in 1 .. n : (s \o t)[m + i] = t[i]
OBVIOUS

\* The rows on their way, one by one.
LEMMA Lined ==
  ASSUME TypeOK
  PROVE  /\ queue \in Seq(RowType) /\ slab \in Seq(RowType) /\ Line \in Seq(RowType)
         /\ Len(queue) \in Nat /\ Len(slab) \in Nat /\ Len(Line) = Len(queue) + Len(slab)
         /\ DOMAIN Line = 1 .. Len(Line) /\ DOMAIN queue = 1 .. Len(queue)
         /\ DOMAIN slab = 1 .. Len(slab)
         /\ \A j \in DOMAIN queue : j \in DOMAIN Line /\ Line[j] = queue[j]
         /\ \A j \in DOMAIN slab : Line[Len(queue) + j] = slab[j]
         /\ {Line[j] : j \in DOMAIN Line} = Rows
<1>1. queue \in Seq(RowType) /\ slab \in Seq(RowType)
  BY DEF TypeOK, RowType
<1>2. PICK m \in Nat, n \in Nat : m = Len(queue) /\ n = Len(slab)
  BY <1>1
<1>3. /\ Line \in Seq(RowType) /\ Len(Line) = m + n /\ DOMAIN Line = 1 .. m + n
      /\ \A j \in 1 .. m : Line[j] = queue[j]
      /\ \A j \in 1 .. n : Line[m + j] = slab[j]
  <2>1. /\ queue \o slab \in Seq(RowType) /\ Len(queue \o slab) = m + n
        /\ DOMAIN (queue \o slab) = 1 .. m + n
        /\ \A j \in 1 .. m : (queue \o slab)[j] = queue[j]
        /\ \A j \in 1 .. n : (queue \o slab)[m + j] = slab[j]
    BY ONLY <1>1, <1>2, Concat
  <2> QED BY <2>1 DEF Line
<1>4. DOMAIN queue = 1 .. m /\ DOMAIN slab = 1 .. n
  BY <1>1, <1>2
<1>5. \A j \in 1 .. m : j \in 1 .. m + n
  OBVIOUS
<1>6. \A j \in 1 .. n : m + j \in 1 .. m + n
  OBVIOUS
<1>7. ASSUME NEW j \in 1 .. m + n
      PROVE  j \in 1 .. m \/ \E i \in 1 .. n : j = m + i
  <2>1. j <= m => j \in 1 .. m
    OBVIOUS
  <2>2. ~(j <= m) => j - m \in 1 .. n /\ j = m + (j - m)
    OBVIOUS
  <2> QED BY <2>1, <2>2
<1>8. {Line[j] : j \in DOMAIN Line} = Rows
  <2>1. ASSUME NEW j \in 1 .. m + n PROVE Line[j] \in Rows
    BY <1>3, <1>4, <1>7 DEF Rows
  <2>2. ASSUME NEW r \in Rows PROVE \E j \in 1 .. m + n : Line[j] = r
    <3>1. CASE \E j \in 1 .. m : queue[j] = r
      BY <1>3, <1>5, <3>1
    <3>2. CASE \E j \in 1 .. n : slab[j] = r
      BY <1>3, <1>6, <3>2
    <3> QED BY <1>4, <3>1, <3>2 DEF Rows
  <2> QED BY <1>3, <2>1, <2>2
<1> QED BY <1>1, <1>2, <1>3, <1>4, <1>5, <1>8

\* The types by name.
LEMMA Typed ==
  ASSUME TypeOK
  PROVE  /\ gen \in Nat /\ base \in Nat /\ committed \in Nat /\ seen \in Nat
         /\ pend \in Events /\ handle \in Nat /\ ident \in Nat /\ rewrites \in Nat
         /\ queue \in Seq(RowType) /\ Len(queue) \in Nat /\ batch \in 0 .. Len(queue)
         /\ Line \in Seq(RowType) /\ Len(Line) \in Nat /\ Len(queue) <= Len(Line)
         /\ DOMAIN Line = 1 .. Len(Line)
         /\ \A j \in DOMAIN Line : Line[j] \in RowType /\ Line[j].gen \in Nat
                                   /\ Line[j].end \in Nat /\ Line[j].end >= 1
         /\ path.id \in Nat /\ path.epoch \in Nat /\ path.len \in Nat
         /\ path.id >= 1 /\ path.epoch >= 1
<1>1. MaxLen \in Nat /\ MaxRewrites \in Nat
  BY FollowBounds
<1>2. /\ gen \in Nat /\ base \in Nat /\ committed \in Nat /\ seen \in Nat
      /\ pend \in Events /\ handle \in Nat /\ ident \in Nat /\ rewrites \in Nat
  BY <1>1 DEF TypeOK, Ids
<1>3. /\ queue \in Seq(RowType) /\ Len(queue) \in Nat /\ batch \in 0 .. Len(queue)
      /\ Line \in Seq(RowType) /\ Len(Line) \in Nat /\ Len(queue) <= Len(Line)
      /\ DOMAIN Line = 1 .. Len(Line)
  <2>1. batch \in 0 .. Len(queue)
    BY DEF TypeOK
  <2>2. PICK m \in Nat, n \in Nat : m = Len(queue) /\ n = Len(slab)
    BY Lined
  <2> QED BY <2>1, <2>2, Lined
<1>4. \A j \in DOMAIN Line : Line[j] \in RowType
  BY <1>3
<1>5. \A r \in RowType : r.gen \in Nat /\ r.end \in Nat /\ r.end >= 1
  BY <1>1 DEF RowType
<1>6. /\ path.id \in Nat /\ path.epoch \in Nat /\ path.len \in Nat
      /\ path.id >= 1 /\ path.epoch >= 1
  <2>1. path \in [id : Ids, epoch : Ids, len : 0 .. MaxLen]
    BY DEF TypeOK
  <2> QED BY <1>1, <2>1 DEF Ids
<1> QED BY <1>2, <1>3, <1>4, <1>5, <1>6

\* The records by which the file under the path may be read on.
LEMMA RecordTyped ==
  ASSUME TypeOK
  PROVE  /\ path.id \in Ids
         /\ \A rec \in {disk[path.id], loaded[path.id]} :
              rec \in Record /\ rec.off \in Nat /\ rec.epoch \in Nat
<1>1. path \in [id : Ids, epoch : Ids, len : 0 .. MaxLen]
  BY DEF TypeOK
<1>2. disk[path.id] \in Record /\ loaded[path.id] \in Record
  BY <1>1 DEF TypeOK
<1>3. \A rec \in Record : rec.off \in Nat /\ rec.epoch \in Nat
  BY FollowBounds DEF Record
<1> QED BY <1>1, <1>2, <1>3

\* Where reading stands.
LEMMA OffIs ==
  ASSUME TypeOK, Tailed
  PROVE  /\ Off \in Nat /\ base <= Off /\ Off <= base + 1
         /\ pend = NoEvent => Off = base
         /\ pend # NoEvent => Off = base + 1 /\ pend = [epoch |-> seen, end |-> Off]
BY Typed DEF Off, Tailed

\* Steps that leave the rows on their way as they are.
LEMMA QueuedStays ==
  ASSUME Queued, Line' = Line, failed => queue' = queue,
         UNCHANGED <<gen, base, committed, failed, sent, batch, delivered>>
  PROVE  Queued'
BY DEF Queued, Present, Waits

\* Events are emitted: their rows follow on those on their way.
LEMMA EmitKeeps ==
  ASSUME TypeOK, Tailed, Queued, NEW rows \in Seq(RowType), slab = << >>, slab' = rows,
         NEW b \in Nat, b = base + Len(rows), base' = b,
         \A i \in 1 .. Len(rows) : rows[i].gen = gen /\ rows[i].end = base + i,
         UNCHANGED <<queue, gen, committed, batch, sent, failed, delivered>>
  PROVE  /\ Queued'
         /\ \A j \in DOMAIN Line' : \/ j \in DOMAIN Line /\ Line'[j] = Line[j]
                                    \/ \E i \in 1 .. Len(rows) : Line'[j] = rows[i]
<1> DEFINE m == Len(queue)
           n == Len(rows)
<1>1. /\ gen \in Nat /\ base \in Nat /\ committed \in Nat /\ m \in Nat /\ n \in Nat
      /\ queue \in Seq(RowType) /\ batch \in 0 .. m /\ Line = queue /\ DOMAIN Line = 1 .. m
      /\ committed <= base
      /\ \A j \in 1 .. m : queue[j].end \in Nat /\ queue[j].gen \in Nat
  <2>1. Line = queue
    BY Typed, ConcatEmptySeq DEF Line
  <2> QED BY <2>1, Typed DEF Tailed
<1>2. /\ Line' = queue \o rows /\ DOMAIN Line' = 1 .. m + n
      /\ \A j \in 1 .. m : Line'[j] = queue[j]
      /\ \A i \in 1 .. n : Line'[m + i] = rows[i]
  <2>1. Line' = queue \o rows
    BY DEF Line
  <2>2. /\ DOMAIN (queue \o rows) = 1 .. m + n
        /\ \A j \in 1 .. m : (queue \o rows)[j] = queue[j]
        /\ \A i \in 1 .. n : (queue \o rows)[m + i] = rows[i]
    BY <1>1, Concat
  <2> QED BY <2>1, <2>2
<1> HIDE DEF m, n
<1>3. ASSUME NEW j \in 1 .. m + n
      PROVE  j \in 1 .. m \/ \E i \in 1 .. n : j = m + i
  <2>1. CASE j <= m
    BY <1>1, <2>1
  <2>2. CASE ~(j <= m)
    <3>1. j - m \in 1 .. n /\ j = m + (j - m)
      BY <1>1, <2>2
    <3> QED BY <3>1
  <2> QED BY <2>1, <2>2
<1>4. /\ \A j \in 1 .. m : queue[j].gen <= gen /\ (queue[j].gen = gen => queue[j].end <= base)
      /\ \A j, k \in 1 .. m : j < k /\ queue[j].gen = gen /\ queue[k].gen = gen
                                => queue[j].end < queue[k].end
      /\ ~failed => \A i \in committed + 1 .. base :
                      \E j \in 1 .. m : queue[j].gen = gen /\ queue[j].end = i
      /\ failed => queue = << >>
      /\ sent => batch > 0 /\ \A j \in 1 .. batch : Event(queue[j]) \in delivered
  BY <1>1 DEF Queued, Present, Waits
<1>5. ASSUME NEW j \in 1 .. m + n
      PROVE  Line'[j].gen <= gen /\ (Line'[j].gen = gen => Line'[j].end <= b)
  <2>1. CASE j \in 1 .. m
    BY <1>1, <1>2, <1>4, <2>1 DEF n
  <2>2. ASSUME NEW i \in 1 .. n, j = m + i PROVE Line'[j].gen = gen /\ Line'[j].end <= b
    <3>1. Line'[j] = rows[i] /\ rows[i].gen = gen /\ rows[i].end = base + i
      BY <1>2, <2>2 DEF n
    <3>2. base + i <= b
      BY <1>1 DEF n
    <3> QED BY <3>1, <3>2
  <2> QED BY <1>1, <1>3, <2>1, <2>2
<1>6. ASSUME NEW j \in 1 .. m + n, NEW k \in 1 .. m + n, j < k,
             Line'[j].gen = gen, Line'[k].gen = gen
      PROVE  Line'[j].end < Line'[k].end
  <2>1. CASE k \in 1 .. m
    <3>1. j \in 1 .. m
      BY <1>1, <1>6, <2>1
    <3> QED BY <1>2, <1>4, <1>6, <2>1, <3>1
  <2>2. ASSUME NEW i \in 1 .. n, k = m + i PROVE Line'[j].end < Line'[k].end
    <3>1. Line'[k].end = base + i
      BY <1>2, <2>2 DEF n
    <3>2. CASE j \in 1 .. m
      <4>1. queue[j].end <= base /\ queue[j].end \in Nat
        BY <1>1, <1>2, <1>4, <1>6, <3>2
      <4> QED BY <1>1, <1>2, <3>1, <3>2, <4>1
    <3>3. ASSUME NEW h \in 1 .. n, j = m + h PROVE Line'[j].end < Line'[k].end
      <4>1. Line'[j].end = base + h
        BY <1>2, <3>3 DEF n
      <4>2. h < i
        BY <1>1, <1>6, <2>2, <3>3
      <4> QED BY <1>1, <3>1, <4>1, <4>2
    <3> QED BY <1>3, <3>2, <3>3
  <2> QED BY <1>3, <2>1, <2>2
<1>7. ASSUME ~failed, NEW i \in committed + 1 .. b
      PROVE  \E j \in 1 .. m + n : Line'[j].gen = gen /\ Line'[j].end = i
  <2>1. CASE i <= base
    <3>1. PICK j \in 1 .. m : queue[j].gen = gen /\ queue[j].end = i
      BY <1>1, <1>4, <1>7, <2>1
    <3>2. j \in 1 .. m + n
      BY <1>1
    <3> QED BY <1>2, <3>1, <3>2
  <2>2. CASE ~(i <= base)
    <3>1. i - base \in 1 .. n /\ m + (i - base) \in 1 .. m + n /\ base + (i - base) = i
      BY <1>1, <2>2 DEF n
    <3>2. Line'[m + (i - base)].gen = gen /\ Line'[m + (i - base)].end = i
      BY <1>2, <3>1 DEF n
    <3> QED BY <3>1, <3>2
  <2> QED BY <2>1, <2>2
<1>8. sent => batch > 0 /\ \A j \in 1 .. batch : Event(Line'[j]) \in delivered
  <2>1. 1 .. batch \subseteq 1 .. m
    BY <1>1
  <2> QED BY <1>2, <1>4, <2>1
<1>9. Queued'
  BY <1>2, <1>4, <1>5, <1>6, <1>7, <1>8 DEF Queued, Present, Waits, Event
<1>10. \A j \in 1 .. m + n : \/ j \in 1 .. m /\ Line'[j] = queue[j]
                             \/ \E i \in 1 .. n : Line'[j] = rows[i]
  BY <1>2, <1>3
<1> QED BY <1>1, <1>2, <1>9, <1>10 DEF n

-----------------------------------------------------------------------------
(* The rows that reading emits *)

\* A function on 1 .. n is a sequence.
LEMMA FunIsSeq ==
  ASSUME NEW n \in Nat, NEW S, NEW f \in [1 .. n -> S]
  PROVE  f \in Seq(S) /\ Len(f) = n /\ DOMAIN f = 1 .. n
OBVIOUS

\* The events that a read of the file closes, and their rows (Read).
Closed(file) ==
  (IF pend = NoEvent THEN << >> ELSE <<pend>>)
    \o [i \in 1 .. file.len - Off - 1 |-> [epoch |-> file.epoch, end |-> Off + i]]

NewRows(file) == [i \in DOMAIN Closed(file) |-> Row(Closed(file)[i])]

\* They come one after the other, from base on.
LEMMA ReadRows ==
  ASSUME TypeOK, Tailed, NEW file \in [id : Ids, epoch : Ids, len : 0 .. MaxLen],
         Off < file.len
  PROVE  /\ NewRows(file) \in Seq(RowType) /\ Len(NewRows(file)) \in Nat
         /\ base + Len(NewRows(file)) = file.len - 1
         /\ \A i \in 1 .. Len(NewRows(file)) :
              /\ NewRows(file)[i].gen = gen /\ NewRows(file)[i].end = base + i
              /\ \/ NewRows(file)[i].epoch = file.epoch
                 \/ pend # NoEvent /\ NewRows(file)[i].epoch = seen
<1> DEFINE old == IF pend = NoEvent THEN << >> ELSE <<pend>>
           new == [i \in 1 .. file.len - Off - 1 |->
                     [epoch |-> file.epoch, end |-> Off + i]]
           E == [epoch : Ids, end : 1 .. MaxLen]
<1>1. /\ base \in Nat /\ Off \in Nat /\ file.len \in Nat /\ file.len <= MaxLen /\ MaxLen \in Nat
      /\ file.epoch \in Ids /\ gen \in Nat /\ seen \in Nat
      /\ pend = NoEvent => Off = base
      /\ pend # NoEvent => Off = base + 1 /\ pend = [epoch |-> seen, end |-> Off] /\ seen \in Ids
  <2>1. MaxLen \in Nat /\ MaxRewrites \in Nat
    BY FollowBounds
  <2>2. pend # NoEvent => seen \in Ids
    BY <2>1 DEF TypeOK, Tailed, Ids
  <2> QED BY <2>1, <2>2, Typed, OffIs DEF Ids
<1>2. PICK n \in Nat : n = file.len - Off - 1
  BY <1>1
<1>3. /\ new \in Seq(E) /\ Len(new) = n
      /\ \A i \in 1 .. n : new[i] = [epoch |-> file.epoch, end |-> Off + i]
  <2>1. \A i \in 1 .. n : [epoch |-> file.epoch, end |-> Off + i] \in E
    BY <1>1, <1>2
  <2>2. new \in [1 .. n -> E] /\ \A i \in 1 .. n : new[i] = [epoch |-> file.epoch, end |-> Off + i]
    BY <1>2, <2>1
  <2> HIDE DEF new, E
  <2> QED BY <2>2, FunIsSeq
<1>4. PICK m \in {0, 1} : /\ old \in Seq(E) /\ Len(old) = m /\ Off = base + m
                          /\ m = 1 => pend # NoEvent /\ old[1] = [epoch |-> seen, end |-> base + 1]
  <2>1. CASE pend = NoEvent
    <3>1. old = << >> /\ Off = base + 0 /\ << >> \in Seq(E) /\ Len(<< >>) = 0
      BY <1>1, <2>1
    <3> HIDE DEF old, E
    <3> QED BY <3>1
  <2>2. CASE pend # NoEvent
    <3>1. old = <<pend>> /\ Off = base + 1 /\ pend = [epoch |-> seen, end |-> base + 1]
      BY <1>1, <2>2
    <3>2. pend \in E
      BY <1>1, <2>2, <3>1
    <3> HIDE DEF old, E
    <3>3. <<pend>> \in Seq(E) /\ Len(<<pend>>) = 1 /\ <<pend>>[1] = pend
      BY <3>2
    <3> QED BY <2>2, <3>1, <3>3
  <2> QED BY <2>1, <2>2
<1>5. Closed(file) = old \o new
  BY DEF Closed
<1> HIDE DEF old, new, E
<1>6. /\ Closed(file) \in Seq(E) /\ Len(Closed(file)) = m + n /\ DOMAIN Closed(file) = 1 .. m + n
      /\ \A i \in 1 .. m : Closed(file)[i] = old[i]
      /\ \A i \in 1 .. n : Closed(file)[m + i] = new[i]
  <2>1. /\ old \in Seq(E) /\ new \in Seq(E) /\ m = Len(old) /\ n = Len(new)
    BY <1>3, <1>4
  <2>2. /\ old \o new \in Seq(E) /\ Len(old \o new) = m + n
        /\ DOMAIN (old \o new) = 1 .. m + n
        /\ \A i \in 1 .. m : (old \o new)[i] = old[i]
        /\ \A i \in 1 .. n : (old \o new)[m + i] = new[i]
    BY ONLY <2>1, Concat
  <2> QED BY <1>5, <2>2
<1>7. ASSUME NEW i \in 1 .. m + n
      PROVE  /\ Closed(file)[i].end = base + i /\ Closed(file)[i] \in E
             /\ \/ Closed(file)[i].epoch = file.epoch
                \/ pend # NoEvent /\ Closed(file)[i].epoch = seen
  <2>1. Closed(file)[i] \in E
    BY <1>6
  <2>2. CASE i <= m
    <3>1. m = 1 /\ i = 1
      BY <1>4, <2>2
    <3> QED BY <1>4, <1>6, <2>1, <3>1
  <2>3. CASE ~(i <= m)
    <3>1. i - m \in 1 .. n /\ i = m + (i - m)
      BY <1>2, <1>4, <2>3
    <3>2. Closed(file)[m + (i - m)] = [epoch |-> file.epoch, end |-> Off + (i - m)]
      BY <1>3, <1>6, <3>1
    <3>3. Closed(file)[i] = [epoch |-> file.epoch, end |-> Off + (i - m)]
      BY <3>1, <3>2
    <3>4. Off + (i - m) = base + i
      BY <1>1, <1>4
    <3> QED BY <2>1, <3>3, <3>4
  <2> QED BY <2>2, <2>3
<1>8. /\ NewRows(file) \in Seq(RowType) /\ Len(NewRows(file)) = m + n
      /\ \A i \in 1 .. m + n : NewRows(file)[i] = Row(Closed(file)[i])
  <2>1. \A i \in 1 .. m + n : Row(Closed(file)[i]) \in RowType
    <3>1. ASSUME NEW i \in 1 .. m + n PROVE Row(Closed(file)[i]) \in RowType
      <4>1. Closed(file)[i] \in E /\ gen \in Nat
        BY <1>1, <1>7
      <4> QED BY <4>1 DEF Row, RowType, E
    <3> QED BY <3>1
  <2>2. /\ NewRows(file) \in [1 .. m + n -> RowType]
        /\ \A i \in 1 .. m + n : NewRows(file)[i] = Row(Closed(file)[i])
    BY <1>6, <2>1 DEF NewRows
  <2>3. m + n \in Nat
    BY <1>2, <1>4
  <2> QED BY <2>2, <2>3, FunIsSeq
<1>9. base + (m + n) = file.len - 1
  BY <1>1, <1>2, <1>4
<1>10. ASSUME NEW i \in 1 .. m + n
       PROVE  /\ NewRows(file)[i].gen = gen /\ NewRows(file)[i].end = base + i
              /\ \/ NewRows(file)[i].epoch = file.epoch
                 \/ pend # NoEvent /\ NewRows(file)[i].epoch = seen
  BY <1>7, <1>8 DEF Row
<1>11. m + n \in Nat
  BY <1>2, <1>4
<1> QED BY <1>8, <1>9, <1>10, <1>11

\* The row of the event that waits to be closed.
LEMMA PendRow ==
  ASSUME TypeOK, Tailed, pend # NoEvent
  PROVE  /\ <<Row(pend)>> \in Seq(RowType) /\ Len(<<Row(pend)>>) = 1 /\ Off = base + 1
         /\ \A i \in 1 .. 1 : /\ <<Row(pend)>>[i].gen = gen
                              /\ <<Row(pend)>>[i].end = base + i
                              /\ <<Row(pend)>>[i].epoch = seen
<1>1. pend = [epoch |-> seen, end |-> Off] /\ Off = base + 1 /\ base \in Nat /\ gen \in Nat
  BY Typed, OffIs
<1>2. seen \in Ids /\ Off \in 1 .. MaxLen
  <2>1. seen \in 0 .. MaxRewrites + 1 /\ seen # 0 /\ pend \in Events /\ MaxRewrites \in Nat
    BY FollowBounds DEF TypeOK, Tailed
  <2>2. pend.end = Off /\ pend.end \in 0 .. MaxLen
    BY <1>1, <2>1 DEF Events
  <2> QED BY <1>1, <2>1, <2>2 DEF Ids
<1>3. Row(pend) = [gen |-> gen, epoch |-> seen, end |-> Off]
  BY <1>1 DEF Row
<1>4. Row(pend) \in RowType
  BY <1>1, <1>2, <1>3 DEF RowType
<1> QED BY <1>1, <1>3, <1>4

\* Steps that leave the tailer's offsets, the file and the rows alone.
LEMMA FreshStays ==
  ASSUME FreshInv,
         UNCHANGED <<path, orphan, handle, up, ident, seen, base, pend, gen, committed, loaded,
                     disk>>,
         Line' = Line,
         delivered \subseteq delivered'
  PROVE  FreshInv'
<1>1. Ranked'
  BY DEF FreshInv, Ranked
<1>2. Placed'
  BY DEF FreshInv, Placed, Present, Harmless, Off
<1>3. Recorded'
  BY DEF FreshInv, Recorded, Sound, Harmless
<1> QED BY <1>1, <1>2, <1>3 DEF FreshInv

-----------------------------------------------------------------------------
(* 1C and the network *)

\* The file gets another event.
LEMMA GrowTail ==
  ASSUME TailInv, Grow
  PROVE  TailInv'
<1> USE DEF world, run, tailer, state, sink
<1>1. TypeOK'
  <2>1. path' \in [id : Ids, epoch : Ids, len : 0 .. MaxLen]
    <3>1. path \in [id : Ids, epoch : Ids, len : 0 .. MaxLen] /\ MaxLen \in Nat
      BY FollowBounds DEF TailInv, TypeOK
    <3>2. path.len + 1 \in 0 .. MaxLen
      BY <3>1 DEF Grow
    <3> QED BY <3>1, <3>2 DEF Grow
  <2> QED BY <2>1 DEF TailInv, TypeOK, Grow
<1>2. Tailed'
  BY DEF TailInv, TypeOK, Tailed, Grow, Line
<1>3. Queued'
  BY QueuedStays DEF TailInv, Grow, Line
<1> QED BY <1>1, <1>2, <1>3 DEF TailInv

\* It grows within what is left of it, and stays short of what it has lost.
LEMMA GrowFresh ==
  ASSUME ~Overtakes, TailInv, FreshInv, Grow
  PROVE  FreshInv'
<1> USE DEF world, run, tailer, state, sink
<1>1. /\ path.len \in Nat /\ path'.len = path.len + 1
      /\ path'.epoch = path.epoch /\ path'.id = path.id
  <2>1. path \in [id : Ids, epoch : Ids, len : 0 .. MaxLen]
    BY DEF TailInv, TypeOK
  <2> QED BY <2>1, FollowBounds DEF Grow
<1>2. \A off \in Outdated : off \notin 1 .. path.len + 1
  BY DEF Grow, Overtaken
<1>3. \A off \in Nat : off \in Outdated => (off = 0 \/ path'.len < off)
  BY <1>1, <1>2
<1>4. Ranked'
  BY <1>1 DEF FreshInv, Ranked, Grow
<1>5. Placed'
  <2>1. CASE ~(up /\ ident = path.id)
    BY <1>1, <2>1 DEF Placed, Grow
  <2>2. CASE up /\ ident = path.id /\ seen = path.epoch
    <3>1. Off \in Nat /\ Off <= path.len
      BY <2>2, OffIs DEF TailInv, FreshInv, Placed
    <3>2. Off <= path'.len
      BY <1>1, <3>1
    <3> QED BY <1>1, <2>2, <3>2 DEF FreshInv, Placed, Grow, Present, Off, Line
  <2>3. CASE up /\ ident = path.id /\ seen # path.epoch
    <3>1. Off \in Nat /\ committed \in Nat
      BY OffIs, Typed DEF TailInv
    <3>2. Off \in Outdated /\ committed \in Outdated
      BY <2>3 DEF Outdated
    <3>3. ASSUME NEW j \in DOMAIN Line, Present(Line[j])
          PROVE  Line[j].end \in Nat /\ Line[j].end \in Outdated
      <4>1. Line[j] \in {q \in Rows : q.gen = gen}
        BY <3>3, Lined DEF TailInv, Present
      <4>2. Line[j].end \in Nat
        BY Typed DEF TailInv
      <4> QED BY <2>3, <4>1, <4>2 DEF Outdated
    <3> QED BY <1>1, <1>3, <2>3, <3>1, <3>2, <3>3 DEF Placed, Grow, Present, Harmless, Off, Line
  <2> QED BY <2>1, <2>2, <2>3
<1>6. Recorded'
  <2>1. ASSUME NEW rec \in {disk[path.id], loaded[path.id]}
        PROVE  Sound(rec)'
    <3>1. rec.off \in Nat
      BY RecordTyped DEF TailInv
    <3>2. Sound(rec)
      BY DEF FreshInv, Recorded
    <3>3. CASE rec.epoch = path.epoch
      BY <1>1, <3>1, <3>2, <3>3 DEF Sound, Grow
    <3>4. CASE rec.epoch # path.epoch
      <4>1. rec.off \in Outdated
        BY <3>4 DEF Outdated
      <4> QED BY <1>1, <1>3, <3>1, <3>2, <3>4, <4>1 DEF Sound, Harmless, Grow
    <3> QED BY <3>3, <3>4
  <2> QED BY <1>1, <2>1 DEF FreshInv, Recorded, Grow
<1> QED BY <1>4, <1>5, <1>6 DEF FreshInv

\* The file is truncated.
LEMMA TruncateTail ==
  ASSUME TailInv, Truncate
  PROVE  TailInv'
<1> USE DEF world, run, tailer, state, sink
<1>1. /\ rewrites \in Nat /\ MaxRewrites \in Nat /\ MaxLen \in Nat /\ rewrites < MaxRewrites
      /\ path \in [id : Ids, epoch : Ids, len : 0 .. MaxLen] /\ path.epoch <= rewrites + 1
      /\ path.id <= rewrites + 1 /\ path.epoch \in Nat /\ path.id \in Nat /\ path.epoch >= 1
  BY Typed, FollowBounds DEF TailInv, TypeOK, Tailed, Truncate, Line
<1>2. path' \in [id : Ids, epoch : Ids, len : 0 .. MaxLen]
  <2>1. path.epoch + 1 \in Ids /\ 0 \in 0 .. MaxLen
    BY <1>1 DEF Ids
  <2> QED BY <1>1, <2>1 DEF Truncate
<1>3. TypeOK'
  BY <1>1, <1>2 DEF TailInv, TypeOK, Truncate
<1>4. Tailed'
  <2>1. rewrites' <= MaxRewrites /\ path'.id <= rewrites' + 1 /\ path'.epoch <= rewrites' + 1
    <3>1. path'.id = path.id /\ path'.epoch = path.epoch + 1 /\ rewrites' = rewrites + 1
      BY <1>1 DEF Truncate
    <3>2. rewrites + 1 <= MaxRewrites /\ path.id <= (rewrites + 1) + 1
          /\ path.epoch + 1 <= (rewrites + 1) + 1
      BY <1>1
    <3> QED BY <3>1, <3>2
  <2> QED BY <2>1 DEF TailInv, Tailed, Truncate, Line
<1>5. Queued'
  BY QueuedStays DEF TailInv, Truncate, Line
<1> QED BY <1>3, <1>4, <1>5 DEF TailInv

\* The content is new and empty: all that was known of it is older, and harmless.
LEMMA TruncateFresh ==
  ASSUME TailInv, FreshInv, Truncate
  PROVE  FreshInv'
<1> USE DEF world, run, tailer, state, sink
<1>1. /\ path.epoch \in Nat /\ path'.len = 0 /\ path'.epoch = path.epoch + 1 /\ path'.id = path.id
  <2>1. path \in [id : Ids, epoch : Ids, len : 0 .. MaxLen] /\ path.epoch \in Nat
    BY Typed DEF TailInv, TypeOK
  <2> QED BY <2>1 DEF Truncate
<1>2. \A off \in Nat : Harmless(off)'
  BY <1>1 DEF Harmless
<1>3. Ranked'
  <2>1. seen \in Nat /\ ident \in Nat /\ orphan.epoch \in Nat
    BY Typed, FollowBounds DEF TailInv, TypeOK, Ids
  <2> QED BY <1>1, <2>1 DEF FreshInv, Ranked, Truncate
<1>4. Placed'
  <2>1. seen # path.epoch + 1
    BY <1>1, Typed DEF TailInv, FreshInv, Ranked
  <2>2. Off \in Nat /\ committed \in Nat /\ \A j \in DOMAIN Line : Line[j].end \in Nat
    BY OffIs, Typed DEF TailInv
  <2>3. Off' = Off
    BY DEF Off, Truncate
  <2> QED BY <1>1, <1>2, <2>1, <2>2, <2>3 DEF Placed, Truncate, Present, Line
<1>5. Recorded'
  <2>1. ASSUME NEW rec \in {disk[path.id], loaded[path.id]}
        PROVE  Sound(rec)'
    <3>1. rec.off \in Nat /\ rec.epoch \in Nat
      BY RecordTyped DEF TailInv
    <3>2. rec.epoch <= path.epoch
      BY DEF FreshInv, Recorded, Sound
    <3>3. rec.epoch <= path.epoch + 1 /\ rec.epoch # path.epoch + 1
      BY <1>1, <3>1, <3>2
    <3> QED BY <1>1, <1>2, <3>1, <3>3 DEF Sound
  <2> QED BY <1>1, <2>1 DEF FreshInv, Recorded, Truncate
<1> QED BY <1>3, <1>4, <1>5 DEF FreshInv

\* The file is replaced.
LEMMA ReplaceTail ==
  ASSUME TailInv, Replace
  PROVE  TailInv'
<1> USE DEF world, run, tailer, state, sink
<1>1. /\ rewrites \in Nat /\ MaxRewrites \in Nat /\ MaxLen \in Nat /\ rewrites < MaxRewrites
      /\ path \in [id : Ids, epoch : Ids, len : 0 .. MaxLen] /\ path.epoch <= rewrites + 1
      /\ path.id <= rewrites + 1 /\ path.epoch \in Nat /\ path.id \in Nat /\ path.epoch >= 1
      /\ orphan \in [id : Ids, epoch : Ids, len : 0 .. MaxLen]
  BY Typed, FollowBounds DEF TailInv, TypeOK, Tailed, Replace, Line
<1>2. /\ path' \in [id : Ids, epoch : Ids, len : 0 .. MaxLen]
      /\ orphan' \in [id : Ids, epoch : Ids, len : 0 .. MaxLen]
  <2>1. path.epoch + 1 \in Ids /\ path.id + 1 \in Ids /\ 0 \in 0 .. MaxLen
    BY <1>1 DEF Ids
  <2> QED BY <1>1, <2>1 DEF Replace
<1>3. TypeOK'
  BY <1>1, <1>2 DEF TailInv, TypeOK, Replace
<1>4. Tailed'
  <2>1. rewrites' <= MaxRewrites /\ path'.id <= rewrites' + 1 /\ path'.epoch <= rewrites' + 1
    <3>1. path'.id = path.id + 1 /\ path'.epoch = path.epoch + 1 /\ rewrites' = rewrites + 1
      BY <1>1 DEF Replace
    <3>2. rewrites + 1 <= MaxRewrites /\ path.id + 1 <= (rewrites + 1) + 1
          /\ path.epoch + 1 <= (rewrites + 1) + 1
      BY <1>1
    <3> QED BY <3>1, <3>2
  <2> QED BY <2>1 DEF TailInv, Tailed, Replace, Line
<1>5. Queued'
  BY QueuedStays DEF TailInv, Replace, Line
<1> QED BY <1>3, <1>4, <1>5 DEF TailInv

\* The new file has no record, and nobody follows it yet.
LEMMA ReplaceFresh ==
  ASSUME TailInv, FreshInv, Replace
  PROVE  FreshInv'
<1> USE DEF world, run, tailer, state, sink
<1>1. /\ path.epoch \in Nat /\ path.id \in Nat /\ seen \in Nat /\ ident \in Nat /\ handle \in Nat
      /\ path'.epoch = path.epoch + 1 /\ path'.id = path.id + 1 /\ path'.len = 0
      /\ path.id + 1 \in Ids
  <2>1. path.id \in Nat /\ path.id <= rewrites + 1 /\ rewrites < MaxRewrites /\ rewrites \in Nat
        /\ MaxRewrites \in Nat
    BY Typed, FollowBounds DEF TailInv, Tailed, Replace, Line
  <2> QED BY <2>1, Typed DEF TailInv, Replace, Ids
<1>2. seen < path'.epoch /\ ident < path'.id
  BY <1>1 DEF FreshInv, Ranked
<1>3. Ranked'
  <2>1. ASSUME handle \notin {0, path'.id} PROVE orphan'.epoch < path'.epoch
    <3>1. CASE handle = path.id
      BY <1>1, <3>1 DEF Replace
    <3>2. CASE handle # path.id
      <4>1. orphan.epoch \in Nat
        BY FollowBounds DEF TailInv, TypeOK, Ids
      <4> QED BY <1>1, <2>1, <3>2, <4>1 DEF FreshInv, Ranked, Replace
    <3> QED BY <3>1, <3>2
  <2> QED BY <1>1, <1>2, <2>1 DEF Ranked, Replace
<1>4. Placed'
  BY <1>1, <1>2 DEF Placed, Replace
<1>5. Recorded'
  <2>1. path.id + 1 > path.id
    BY <1>1
  <2>2. disk[path.id + 1] = NoRecord /\ loaded[path.id + 1] = NoRecord
    BY <1>1, <2>1 DEF FreshInv, Recorded
  <2>3. Sound(NoRecord)'
    BY <1>1 DEF Sound, NoRecord, Harmless
  <2>4. \A i \in Ids : i > path'.id => i > path.id
    BY <1>1 DEF Ids
  <2> QED BY <1>1, <2>2, <2>3, <2>4 DEF FreshInv, Recorded, Replace
<1> QED BY <1>3, <1>4, <1>5 DEF FreshInv

\* ClickHouse comes and goes.
LEMMA NetworkTail ==
  ASSUME TailInv, Network
  PROVE  TailInv'
<1> USE DEF world, run, tailer, state, sink
<1>1. TypeOK'
  BY DEF TailInv, TypeOK, Network
<1>2. Tailed'
  BY DEF TailInv, Tailed, Network, Line
<1>3. Queued'
  BY QueuedStays DEF TailInv, Network, Line
<1> QED BY <1>1, <1>2, <1>3 DEF TailInv

-----------------------------------------------------------------------------
(* The worker *)

\* The worker is told to look.
LEMMA KickTail ==
  ASSUME TailInv, Kick
  PROVE  TailInv'
<1> USE DEF world, run, tailer, state, sink
<1>1. TypeOK'
  BY DEF TailInv, TypeOK, Kick
<1>2. Tailed'
  BY DEF TailInv, Tailed, Kick, Line
<1>3. Queued'
  BY QueuedStays DEF TailInv, Kick, Line
<1> QED BY <1>1, <1>2, <1>3 DEF TailInv

\* The handle is closed.
LEMMA DormantTail ==
  ASSUME TailInv, Dormant
  PROVE  TailInv'
<1> USE DEF world, run, tailer, state, sink
<1>1. TypeOK'
  BY DEF TailInv, TypeOK, Dormant
<1>2. Tailed'
  BY DEF TailInv, Tailed, Dormant, Line
<1>3. Queued'
  BY QueuedStays DEF TailInv, Dormant, Line
<1> QED BY <1>1, <1>2, <1>3 DEF TailInv

\* Nothing that matters changes with the network, a kick, or the handle closed.
LEMMA QuietFresh ==
  ASSUME FreshInv, Network \/ Kick \/ Dormant
  PROVE  FreshInv'
<1> USE DEF world, run, tailer, state, sink
<1>1. CASE Network \/ Kick
  BY <1>1, FreshStays DEF Network, Kick, Line
<1>2. CASE Dormant
  <2>1. Ranked'
    BY <1>2 DEF FreshInv, Ranked, Dormant
  <2>2. Placed' /\ Recorded'
    BY <1>2 DEF FreshInv, Placed, Recorded, Sound, Harmless, Present, Off, Line, Dormant
  <2> QED BY <2>1, <2>2 DEF FreshInv
<1> QED BY <1>1, <1>2

\* A file that is followed has one size, whichever way the worker asks.
LEMMA SizeIs ==
  ASSUME TailInv, ident = path.id
  PROVE  Size = path.len
BY Typed DEF TailInv, Tailed, Size, Replaced, Behind

\* After a new generation has begun at 0 no row is of it.
LEMMA NewGeneration ==
  ASSUME TailInv, gen' = gen + 1, committed' = 0, base' = 0,
         Line' = Line, UNCHANGED <<queue, failed, sent, batch, delivered>>
  PROVE  Queued' /\ \A j \in DOMAIN Line : ~Present(Line[j])'
<1>1. gen \in Nat /\ \A j \in DOMAIN Line : Line[j].gen \in Nat /\ Line[j].gen <= gen
  BY Typed DEF TailInv, Queued
<1>2. ASSUME NEW j \in DOMAIN Line PROVE Line[j].gen <= gen + 1 /\ Line[j].gen # gen + 1
  BY <1>1
<1>3. \A j \in DOMAIN Line : Line[j].gen <= gen' /\ Line[j].gen # gen'
  BY <1>2
<1>4. 0 + 1 .. 0 = {}
  OBVIOUS
<1> QED BY <1>3, <1>4 DEF TailInv, Queued, Present

\* The size is looked up; a file that is shorter than it was begins a new generation.
LEMMA LookTail ==
  ASSUME TailInv, Look
  PROVE  TailInv'
<1> USE DEF world, run, tailer, state, sink
<1>1. CASE ~dead /\ Size < Off
  <2>1. /\ base' = 0 /\ pend' = NoEvent /\ handle' = 0 /\ gen' = gen + 1 /\ committed' = 0
        /\ dirty' = TRUE /\ pc' \in {"open", "idle"}
    BY <1>1 DEF Look
  <2>2. /\ 0 \in 0 .. MaxLen /\ NoEvent \in Events /\ gen + 1 \in Nat
    <3>1. gen + 1 \in Nat
      BY Typed DEF TailInv
    <3> QED BY <3>1, FollowBounds DEF NoEvent, Events
  <2>3. TypeOK'
    BY <2>1, <2>2 DEF TailInv, TypeOK, Look
  <2>4. Tailed'
    BY <2>1 DEF TailInv, Tailed, Look, Line
  <2>5. Queued'
    BY <2>1, NewGeneration DEF Look, Line
  <2> QED BY <2>3, <2>4, <2>5 DEF TailInv
<1>2. CASE dead \/ ~(Size < Off)
  <2>1. handle' \in {0, handle} /\ pc' \in {"open", "idle"}
        /\ UNCHANGED <<base, pend, gen, committed, dirty>>
    BY <1>2 DEF Look
  <2>2. TypeOK'
    BY <2>1 DEF TailInv, TypeOK, Look
  <2>3. Tailed'
    BY <2>1 DEF TailInv, Tailed, Look, Line
  <2>4. Queued'
    BY <2>1, QueuedStays DEF TailInv, Look, Line
  <2> QED BY <2>2, <2>3, <2>4 DEF TailInv
<1> QED BY <1>1, <1>2

\* The content that was read is not reset, only content that is gone.
LEMMA LookFresh ==
  ASSUME TailInv, FreshInv, Look
  PROVE  FreshInv'
<1> USE DEF world, run, tailer, state, sink
<1>1. UNCHANGED <<path, orphan, up, ident, seen, Line, loaded, disk, delivered>>
  BY DEF Look, Line
<1>2. handle' \in {0, handle}
  BY DEF Look
<1>3. Ranked' /\ Recorded'
  BY <1>1, <1>2 DEF FreshInv, Ranked, Recorded, Sound, Harmless
<1>4. CASE ~dead /\ Size < Off
  <2>1. base' = 0 /\ pend' = NoEvent /\ gen' = gen + 1 /\ committed' = 0
    BY <1>4 DEF Look
  <2>2. \A j \in DOMAIN Line : ~Present(Line[j])'
    BY <1>1, <2>1, NewGeneration DEF Look, Line
  <2>3. ident = path.id /\ up => seen # path.epoch
    <3>1. SUFFICES ASSUME ident = path.id, up, seen = path.epoch PROVE FALSE
      OBVIOUS
    <3>2. Off <= path.len /\ path.len < Off
      BY <1>4, <3>1, SizeIs DEF FreshInv, Placed
    <3> QED BY <3>2, OffIs, Typed DEF TailInv
  <2>4. Off' = 0
    BY <2>1 DEF Off
  <2>5. Placed'
    BY <1>1, <2>1, <2>2, <2>3, <2>4 DEF Placed, Harmless, Present
  <2> QED BY <1>3, <2>5 DEF FreshInv
<1>5. CASE dead \/ ~(Size < Off)
  <2>1. UNCHANGED <<base, pend, gen, committed>>
    BY <1>5 DEF Look
  <2>2. Placed'
    BY <1>1, <2>1 DEF FreshInv, Placed, Present, Harmless, Off
  <2> QED BY <1>3, <2>2 DEF FreshInv
<1> QED BY <1>4, <1>5

\* The file is claimed with its record, or rebound, or it is the one followed.
LEMMA OpenTail ==
  ASSUME TailInv, Open
  PROVE  TailInv'
<1> USE DEF world, run, tailer, state, sink
<1>1. CASE handle # 0
  <2>1. UNCHANGED <<handle, base, pend, seen, ident, gen, committed, dirty, loaded>>
    BY <1>1 DEF Open
  <2>2. TypeOK'
    BY <2>1 DEF TailInv, TypeOK, Open
  <2>3. Tailed'
    BY <1>1, <2>1 DEF TailInv, Tailed, Open, Line
  <2>4. Queued'
    BY <2>1, QueuedStays DEF TailInv, Open, Line
  <2> QED BY <2>2, <2>3, <2>4 DEF TailInv
<1>2. CASE handle = 0 /\ Claim
  <2>1. PICK c \in 0 .. MaxLen : c = committed' /\ base' = c
    <3>1. loaded[path.id].off \in 0 .. MaxLen /\ 0 \in 0 .. MaxLen
      BY RecordTyped, FollowBounds DEF TailInv, Record
    <3> QED BY <1>2, <3>1 DEF Claim
  <2>2. gen' \in Nat /\ path.id \in Ids /\ path.id # 0 /\ path.epoch \in 0 .. MaxRewrites + 1
    <3>1. path.epoch \in Ids
      BY DEF TailInv, TypeOK
    <3>2. path.id \in Ids /\ path.id # 0 /\ path.epoch \in 0 .. MaxRewrites + 1
      <4>1. path.id \in Ids /\ path.epoch \in 1 .. MaxRewrites + 1
        BY <3>1, RecordTyped DEF TailInv, Ids
      <4>2. MaxRewrites \in Nat
        BY FollowBounds
      <4> QED BY <4>1, <4>2 DEF Ids
    <3>3. gen' \in Nat
      BY <1>2, Typed, RecordTyped DEF TailInv, Claim
    <3> QED BY <3>2, <3>3
  <2>3. /\ handle' = path.id /\ ident' = path.id /\ pend' = pend /\ seen' = path.epoch
        /\ dirty' = TRUE /\ loaded' = [loaded EXCEPT ![path.id] = NoRecord] /\ pc' = "read"
        /\ ident = 0
    BY <1>2 DEF Claim, Open
  <2>4. base = 0 /\ pend = NoEvent /\ committed = 0 /\ Line = << >> /\ Line' = Line
        /\ slab' = slab
    BY <2>3 DEF TailInv, Tailed, Line, Open
  <2>5. NoRecord \in Record
    BY FollowBounds DEF NoRecord, Record
  <2>6. TypeOK'
    BY <2>1, <2>2, <2>3, <2>5 DEF TailInv, TypeOK, Open
  <2>7. Tailed'
    BY <2>1, <2>2, <2>3, <2>4 DEF TailInv, Tailed, Open, Line
  <2>8. Queued'
    <3>1. c + 1 .. c = {} /\ DOMAIN Line = {}
      <4>1. c \in Int
        BY <2>1, FollowBounds
      <4> QED BY <2>4, <4>1
    <3>2. DOMAIN Line' = {} /\ UNCHANGED <<queue, failed, sent, batch, delivered>>
      BY <2>4, <3>1 DEF Open
    <3> QED BY <2>1, <2>4, <3>1, <3>2 DEF TailInv, Queued
  <2> QED BY <2>6, <2>7, <2>8 DEF TailInv
<1>3. CASE handle = 0 /\ Rebind
  <2>1. /\ handle' = path.id /\ ident' = path.id /\ gen' = gen + 1 /\ committed' = 0
        /\ dirty' = TRUE /\ base' = 0 /\ pend' = NoEvent /\ UNCHANGED <<loaded, seen>>
        /\ pc' = "read"
    BY <1>3 DEF Rebind, Open
  <2>2. /\ 0 \in 0 .. MaxLen /\ NoEvent \in Events /\ gen + 1 \in Nat /\ path.id \in Ids
        /\ path.id # 0
    <3>1. gen + 1 \in Nat /\ path.id \in Ids /\ path.id # 0
      BY Typed, RecordTyped DEF TailInv
    <3>2. 0 \in 0 .. MaxLen /\ NoEvent \in Events
      BY FollowBounds DEF NoEvent, Events
    <3> QED BY <3>1, <3>2
  <2>3. TypeOK'
    BY <2>1, <2>2 DEF TailInv, TypeOK, Open
  <2>4. Tailed'
    BY <2>1, <2>2 DEF TailInv, Tailed, Open, Line
  <2>5. Queued'
    BY <2>1, NewGeneration DEF Open, Line
  <2> QED BY <2>3, <2>4, <2>5 DEF TailInv
<1>4. CASE handle = 0 /\ ident = path.id /\ UNCHANGED <<base, pend, seen, state>>
  <2>1. handle' = path.id /\ pc' = "read" /\ path.id \in Ids /\ path.id # 0
    BY <1>4, Typed, RecordTyped DEF TailInv, Open
  <2>2. TypeOK'
    BY <1>4, <2>1 DEF TailInv, TypeOK, Open
  <2>3. Tailed'
    BY <1>4, <2>1 DEF TailInv, Tailed, Open, Line
  <2>4. Queued'
    BY <1>4, QueuedStays DEF TailInv, Open, Line
  <2> QED BY <2>2, <2>3, <2>4 DEF TailInv
<1> QED BY <1>1, <1>2, <1>3, <1>4 DEF Open

\* A record is taken up where it is about this content, and not otherwise.
LEMMA OpenFresh ==
  ASSUME TailInv, FreshInv, Open
  PROVE  FreshInv'
<1> USE DEF world, run, tailer, state, sink
<1>1. CASE handle # 0
  BY <1>1, FreshStays DEF Open, Line
<1>2. CASE handle = 0 /\ Claim
  <2> DEFINE rec == loaded[path.id]
  <2>1. /\ handle' = path.id /\ ident' = path.id /\ pend' = pend /\ seen' = path.epoch
        /\ loaded' = [loaded EXCEPT ![path.id] = NoRecord]
        /\ ident = 0 /\ base' = committed'
        /\ committed' = IF path.len < rec.off THEN 0 ELSE rec.off
        /\ UNCHANGED <<path, orphan, up, Line, disk, delivered>>
    BY <1>2 DEF Claim, Open, Line
  <2>2. pend = NoEvent /\ Line = << >> /\ DOMAIN Line = {}
    BY <2>1 DEF TailInv, Tailed
  <2>3. path.id \in Ids /\ rec.off \in Nat /\ rec.epoch \in Nat /\ Sound(rec)
        /\ path.len \in Nat /\ path.epoch \in Nat /\ path.id \in Nat
    BY RecordTyped, Typed DEF TailInv, FreshInv, Recorded
  <2>4. PICK c \in Nat : c = committed' /\ c \in {0, rec.off} /\ c <= path.len
    BY <2>1, <2>3
  <2>5. \A i \in 1 .. c : [epoch |-> path.epoch, end |-> i] \in delivered
    <3>1. CASE rec.epoch = path.epoch
      BY <2>3, <2>4, <3>1 DEF Sound
    <3>2. CASE rec.epoch # path.epoch
      BY <2>3, <2>4, <3>2 DEF Sound, Harmless
    <3> QED BY <3>1, <3>2
  <2>6. Ranked'
    BY <2>1, <2>3 DEF FreshInv, Ranked
  <2>7. Off' = c
    BY <2>1, <2>2, <2>4 DEF Off
  <2>8. Placed'
    BY <2>1, <2>2, <2>4, <2>5, <2>7 DEF Placed
  <2>9. Recorded'
    <3>1. Sound(NoRecord)' /\ Sound(disk[path.id])'
      BY <2>1, <2>3 DEF FreshInv, Recorded, Sound, NoRecord, Harmless
    <3>2. loaded'[path.id] = NoRecord /\ \A i \in Ids : i > path.id => loaded'[i] = loaded[i]
      BY <2>1, <2>3 DEF TailInv, TypeOK, Ids
    <3> QED BY <2>1, <3>1, <3>2 DEF FreshInv, Recorded
  <2> QED BY <2>6, <2>8, <2>9 DEF FreshInv
<1>3. CASE handle = 0 /\ Rebind
  <2>1. /\ handle' = path.id /\ ident' = path.id /\ gen' = gen + 1 /\ committed' = 0
        /\ base' = 0 /\ pend' = NoEvent /\ ident \notin {0, path.id}
        /\ UNCHANGED <<path, orphan, up, seen, Line, loaded, disk, delivered>>
    BY <1>3 DEF Rebind, Open, Line
  <2>2. seen < path.epoch /\ seen \in Nat /\ path.epoch \in Nat /\ path.id \in Nat
    BY <2>1, Typed DEF TailInv, FreshInv, Ranked
  <2>3. \A j \in DOMAIN Line : ~Present(Line[j])'
    BY <2>1, NewGeneration DEF Open, Line
  <2>4. Ranked' /\ Recorded'
    BY <2>1, <2>2 DEF FreshInv, Ranked, Recorded, Sound, Harmless
  <2>5. Off' = 0
    BY <2>1 DEF Off
  <2>6. Placed'
    BY <2>1, <2>2, <2>3, <2>5 DEF Placed, Harmless, Present
  <2> QED BY <2>4, <2>6 DEF FreshInv
<1>4. CASE handle = 0 /\ ident = path.id /\ UNCHANGED <<base, pend, seen, state>>
  <2>1. handle' = path.id
    BY <1>4 DEF Open
  <2>2. Ranked'
    BY <1>4, <2>1 DEF FreshInv, Ranked, Open
  <2>3. Placed' /\ Recorded'
    BY <1>4 DEF FreshInv, Placed, Recorded, Sound, Harmless, Present, Off, Line, Open
  <2> QED BY <2>2, <2>3 DEF FreshInv
<1> QED BY <1>1, <1>2, <1>3, <1>4 DEF Open

\* The file is read to its end: its closed events follow on those emitted before.
LEMMA ReadTail ==
  ASSUME TailInv, Read
  PROVE  /\ TailInv'
         /\ Off < Behind.len =>
              /\ base' = Behind.len - 1 /\ seen' = Behind.epoch /\ Off' = Behind.len
              /\ \A j \in DOMAIN Line' :
                   \/ j \in DOMAIN Line /\ Line'[j] = Line[j]
                   \/ Line'[j].epoch = Behind.epoch
                   \/ pend # NoEvent /\ Line'[j].epoch = seen
<1> USE DEF world, run, tailer, state, sink
<1> DEFINE file == Behind
<1>1. file \in [id : Ids, epoch : Ids, len : 0 .. MaxLen] /\ MaxLen \in Nat /\ MaxRewrites \in Nat
  BY FollowBounds DEF TailInv, TypeOK, Behind
<1>2. file.len \in Nat /\ file.len <= MaxLen /\ file.epoch \in Ids /\ file.epoch \in Nat
      /\ file.epoch # 0 /\ file.epoch \in 0 .. MaxRewrites + 1
  BY <1>1 DEF Ids
<1>3. Off \in Nat /\ base \in Nat /\ committed \in Nat /\ base <= Off
  BY OffIs, Typed DEF TailInv
<1> HIDE DEF file
<1>4. CASE file.len <= Off
  <2>1. UNCHANGED <<base, pend, seen, queue, slab>> /\ pc' = "idle"
    BY <1>4 DEF Read, file
  <2>2. TypeOK'
    BY <2>1 DEF TailInv, TypeOK, Read
  <2>3. Tailed'
    BY <2>1 DEF TailInv, Tailed, Read, Line
  <2>4. Queued'
    BY <2>1, QueuedStays DEF TailInv, Read, Line
  <2>5. ~(Off < Behind.len)
    BY <1>2, <1>3, <1>4 DEF file
  <2> QED BY <2>2, <2>3, <2>4, <2>5 DEF TailInv
<1>5. CASE ~(file.len <= Off)
  <2>1. Off < file.len
    BY <1>2, <1>3, <1>5
  <2>2. /\ slab' = NewRows(file) /\ base' = file.len - 1
        /\ pend' = [epoch |-> file.epoch, end |-> file.len] /\ seen' = file.epoch
        /\ pc' = IF NewRows(file) = << >> THEN "idle" ELSE "send"
        /\ UNCHANGED <<path, orphan, news, server, rewrites, up, draining, stopping, queued,
                       handle, dead, ident, gen, committed, dirty, loaded, disk, queue, batch,
                       sent, tries, failed, delivered, downs>>
    BY <1>5 DEF Read, Emit, NewRows, Closed, file
  <2>3. /\ NewRows(file) \in Seq(RowType) /\ Len(NewRows(file)) \in Nat
        /\ base + Len(NewRows(file)) = file.len - 1
        /\ \A i \in 1 .. Len(NewRows(file)) :
             /\ NewRows(file)[i].gen = gen /\ NewRows(file)[i].end = base + i
             /\ NewRows(file)[i].epoch = file.epoch
                \/ (pend # NoEvent /\ NewRows(file)[i].epoch = seen)
    BY <1>1, <2>1, ReadRows DEF TailInv
  <2>4. PICK b \in Nat : b = base + Len(NewRows(file)) /\ base' = b /\ b = file.len - 1
    BY <1>3, <2>2, <2>3
  <2>5. /\ Queued'
        /\ \A j \in DOMAIN Line' :
             \/ j \in DOMAIN Line /\ Line'[j] = Line[j]
             \/ \E i \in 1 .. Len(NewRows(file)) : Line'[j] = NewRows(file)[i]
    <3>1. slab = << >>
      BY DEF TailInv, Tailed, Read
    <3>2. PICK rows \in Seq(RowType) : rows = NewRows(file)
      BY <2>3
    <3> QED BY <2>2, <2>3, <2>4, <3>1, <3>2, EmitKeeps DEF TailInv
  <2>6. b \in 0 .. MaxLen /\ b + 1 = file.len /\ committed <= b
    BY <1>1, <1>2, <1>3, <2>1, <2>4, OffIs DEF TailInv, Tailed
  <2>7. [epoch |-> file.epoch, end |-> file.len] \in Events
    BY <1>1, <1>2 DEF Events
  <2>8. TypeOK'
    <3>1. slab' \in Seq([gen : Nat, epoch : Ids, end : 1 .. MaxLen])
      BY <2>2, <2>3 DEF RowType
    <3>2. base' \in 0 .. MaxLen /\ seen' \in 0 .. MaxRewrites + 1 /\ pend' \in Events
      BY <1>2, <2>2, <2>4, <2>6, <2>7
    <3>3. pc' \in {"idle", "send"}
      BY <2>2
    <3> QED BY <2>2, <3>1, <3>2, <3>3 DEF TailInv, TypeOK
  <2>9. ident # 0
    BY DEF TailInv, Tailed, Read
  <2>10. Tailed'
    BY <1>2, <2>2, <2>4, <2>6, <2>9 DEF TailInv, Tailed
  <2>11. Off' = file.len
    <3>1. pend' # NoEvent
      BY <1>2, <2>2 DEF NoEvent
    <3> QED BY <2>4, <2>6, <3>1 DEF Off
  <2>12. \A j \in DOMAIN Line' : \/ j \in DOMAIN Line /\ Line'[j] = Line[j]
                                 \/ Line'[j].epoch = file.epoch
                                 \/ pend # NoEvent /\ Line'[j].epoch = seen
    BY <2>3, <2>5
  <2> QED BY <2>2, <2>5, <2>8, <2>10, <2>11, <2>12 DEF TailInv, file
<1> QED BY <1>4, <1>5

\* What is read first of new content is read from 0, with no row of the old.
LEMMA ReadFresh ==
  ASSUME TailInv, FreshInv, Read
  PROVE  FreshInv'
<1> USE DEF world, run, tailer, state, sink
<1>1. UNCHANGED <<path, orphan, handle, up, ident, gen, committed, loaded, disk, delivered>>
  BY DEF Read
<1>2. /\ Off \in Nat /\ base \in Nat /\ committed \in Nat /\ Behind.len \in Nat /\ path.len \in Nat
      /\ base <= Off /\ committed <= base /\ (pend # NoEvent => Off = base + 1)
      /\ \A j \in DOMAIN Line : Line[j].end \in Nat /\ Line[j].end >= 1
  <2>1. Behind \in [id : Ids, epoch : Ids, len : 0 .. MaxLen]
    BY DEF TailInv, TypeOK, Behind
  <2> QED BY <2>1, OffIs, Typed, FollowBounds DEF TailInv, Tailed
<1>3. CASE ~(Off < Behind.len)
  <2>1. UNCHANGED <<base, pend, seen, queue, slab>>
    BY <1>2, <1>3 DEF Read
  <2> QED BY <1>1, <2>1, FreshStays DEF Line
<1>4. CASE Off < Behind.len
  <2>1. /\ base' = Behind.len - 1 /\ seen' = Behind.epoch /\ Off' = Behind.len
        /\ \A j \in DOMAIN Line' : \/ j \in DOMAIN Line /\ Line'[j] = Line[j]
                                   \/ Line'[j].epoch = Behind.epoch
                                   \/ pend # NoEvent /\ Line'[j].epoch = seen
    BY <1>4, ReadTail
  <2>2. handle = ident /\ handle # 0
    BY DEF TailInv, Tailed, Read
  <2>3. Recorded'
    BY <1>1 DEF FreshInv, Recorded, Sound, Harmless
  <2>4. CASE ident # path.id
    <3>1. Behind = orphan /\ orphan.epoch < path.epoch
      BY <2>2, <2>4 DEF Behind, FreshInv, Ranked
    <3>2. orphan.epoch \in Nat /\ path.epoch \in Nat
      BY Typed, FollowBounds DEF TailInv, TypeOK, Ids
    <3>3. Ranked'
      BY <1>1, <2>1, <3>1, <3>2 DEF FreshInv, Ranked
    <3>4. Placed'
      BY <1>1, <2>4 DEF Placed
    <3> QED BY <2>3, <3>3, <3>4 DEF FreshInv
  <2>5. CASE ident = path.id
    <3>1. Behind = path
      BY <2>2, <2>5 DEF Behind
    <3>2. path.epoch \in Nat
      BY Typed DEF TailInv
    <3>3. Ranked'
      BY <1>1, <2>1, <2>5, <3>1, <3>2 DEF FreshInv, Ranked
    <3>4. seen = path.epoch \/ (Off = 0 /\ base = 0 /\ committed = 0 /\ pend = NoEvent)
      <4>1. CASE seen # path.epoch
        <5>1. Off = 0
          BY <1>2, <1>4, <2>5, <3>1, <4>1 DEF FreshInv, Placed, Read, Harmless
        <5> QED BY <1>2, <5>1
      <4> QED BY <4>1
    <3>5. ASSUME NEW j \in DOMAIN Line', Present(Line[j])', up
          PROVE  Line'[j].epoch = path.epoch
      <4>1. CASE seen = path.epoch
        <5>1. \A k \in DOMAIN Line : Present(Line[k]) => Line[k].epoch = path.epoch
          BY <2>5, <3>5, <4>1 DEF FreshInv, Placed
        <5> QED BY <1>1, <2>1, <3>1, <3>5, <4>1, <5>1 DEF Present
      <4>2. CASE seen # path.epoch
        <5>1. \A k \in DOMAIN Line : ~Present(Line[k])
          BY <1>2, <3>4, <4>2 DEF TailInv, Queued
        <5> QED BY <1>1, <2>1, <3>1, <3>4, <3>5, <4>2, <5>1 DEF Present
      <4> QED BY <4>1, <4>2
    <3>6. up => \A i \in 1 .. committed : [epoch |-> path.epoch, end |-> i] \in delivered
      <4>1. CASE seen = path.epoch
        BY <2>5, <4>1 DEF FreshInv, Placed
      <4>2. CASE seen # path.epoch
        BY <3>4, <4>2
      <4> QED BY <4>1, <4>2
    <3>7. Placed'
      BY <1>1, <1>2, <2>1, <2>5, <3>1, <3>5, <3>6 DEF Placed
    <3> QED BY <2>3, <3>3, <3>7 DEF FreshInv
  <2> QED BY <2>4, <2>5
<1> QED BY <1>3, <1>4

\* The last event read is emitted.
LEMMA PendClosed ==
  ASSUME TailInv, pend # NoEvent, slab = << >>, slab' = <<Row(pend)>>, base' = Off,
         pend' = NoEvent,
         UNCHANGED <<queue, gen, committed, batch, sent, failed, delivered>>
  PROVE  /\ Queued' /\ slab' \in Seq(RowType)
         /\ base' \in 0 .. MaxLen /\ committed <= base' /\ Off' = Off
         /\ \A j \in DOMAIN Line' : \/ j \in DOMAIN Line /\ Line'[j] = Line[j]
                                    \/ Line'[j].epoch = seen /\ Line'[j].end = Off
<1>1. /\ <<Row(pend)>> \in Seq(RowType) /\ Len(<<Row(pend)>>) = 1 /\ Off = base + 1
      /\ \A i \in 1 .. 1 : /\ <<Row(pend)>>[i].gen = gen
                           /\ <<Row(pend)>>[i].end = base + i
                           /\ <<Row(pend)>>[i].epoch = seen
  BY PendRow DEF TailInv
<1>2. PICK b \in Nat : b = base + 1 /\ base' = b
  BY <1>1, Typed DEF TailInv
<1>3. PICK rows \in Seq(RowType) : rows = <<Row(pend)>>
  BY <1>1
<1>4. /\ Len(rows) = 1 /\ slab' = rows
      /\ \A i \in 1 .. Len(rows) :
           rows[i].gen = gen /\ rows[i].end = base + i /\ rows[i].epoch = seen
  BY <1>1, <1>3
<1>5. /\ Queued'
      /\ \A j \in DOMAIN Line' : \/ j \in DOMAIN Line /\ Line'[j] = Line[j]
                                 \/ \E i \in 1 .. Len(rows) : Line'[j] = rows[i]
  BY <1>2, <1>4, EmitKeeps DEF TailInv
<1>6. base' \in 0 .. MaxLen /\ committed <= base'
  <2>1. pend = [epoch |-> seen, end |-> Off] /\ pend \in Events
    BY OffIs, Typed DEF TailInv
  <2>2. Off \in 0 .. MaxLen
    BY <2>1 DEF Events
  <2>3. committed <= Off
    BY <1>1, Typed DEF TailInv, Tailed
  <2> QED BY <2>2, <2>3
<1>7. Off' = Off
  BY DEF Off
<1>8. \A i \in 1 .. Len(rows) : rows[i].epoch = seen /\ rows[i].end = Off
  <2>1. \A i \in 1 .. Len(rows) : i = 1
    BY <1>4
  <2> QED BY <1>1, <1>4, <2>1
<1> QED BY <1>4, <1>5, <1>6, <1>7, <1>8

\* What it is about does not change by that.
LEMMA PendFresh ==
  ASSUME TailInv, FreshInv, pend # NoEvent, slab = << >>, slab' = <<Row(pend)>>, base' = Off,
         pend' = NoEvent,
         UNCHANGED <<up, path, ident, seen, queue, gen, committed, batch, sent, failed, delivered>>
  PROVE  Placed'
<1>1. /\ Off' = Off
      /\ \A j \in DOMAIN Line' : \/ j \in DOMAIN Line /\ Line'[j] = Line[j]
                                 \/ Line'[j].epoch = seen /\ Line'[j].end = Off
  BY PendClosed
<1> QED BY <1>1 DEF FreshInv, Placed, Present, Harmless

\* The idle timer closes the last event.
LEMMA IdleCloseTail ==
  ASSUME TailInv, IdleClose
  PROVE  TailInv'
<1> USE DEF world, run, tailer, state, sink
<1>1. pend # NoEvent /\ slab = << >> /\ ident # 0
  BY DEF TailInv, Tailed, IdleClose
<1>2. slab' = <<Row(pend)>> /\ pc' = "send"
  BY DEF IdleClose, Emit
<1>3. /\ Queued' /\ slab' \in Seq(RowType)
      /\ base' \in 0 .. MaxLen /\ committed <= base'
  BY <1>1, <1>2, PendClosed DEF IdleClose
<1>4. NoEvent \in Events
  BY FollowBounds DEF NoEvent, Events
<1>5. TypeOK'
  BY <1>2, <1>3, <1>4 DEF TailInv, TypeOK, RowType, IdleClose
<1>6. Tailed'
  BY <1>1, <1>2, <1>3 DEF TailInv, Tailed, IdleClose
<1> QED BY <1>3, <1>5, <1>6 DEF TailInv

\* The worker ends: the last event is emitted.
LEMMA DrainTail ==
  ASSUME TailInv, Drain
  PROVE  TailInv'
<1> USE DEF world, run, tailer, state, sink
<1>1. NoEvent \in Events
  BY FollowBounds DEF NoEvent, Events
<1>2. slab = << >>
  BY DEF TailInv, Tailed, Drain, Leaves
<1>3. CASE pend = NoEvent
  <2>1. UNCHANGED <<queue, slab, base, pend>> /\ pc' = "gone"
    <3>1. Off = base
      BY <1>3, OffIs DEF TailInv
    <3> QED BY <1>2, <1>3, <3>1 DEF Drain, Emit
  <2>2. base' = base
    BY <2>1
  <2>3. TypeOK'
    BY <2>1, <2>2 DEF TailInv, TypeOK, Drain
  <2>4. Tailed'
    BY <1>2, <1>3, <2>1, <2>2 DEF TailInv, Tailed, Drain, Line
  <2>5. Queued'
    BY <2>1, QueuedStays DEF TailInv, Drain, Line
  <2> QED BY <2>3, <2>4, <2>5 DEF TailInv
<1>4. CASE pend # NoEvent
  <2>1. slab' = <<Row(pend)>> /\ pc' = "last"
    BY <1>4 DEF Drain, Emit
  <2>2. /\ Queued' /\ slab' \in Seq(RowType)
        /\ base' \in 0 .. MaxLen /\ committed <= base'
    BY <1>2, <1>4, <2>1, PendClosed DEF Drain
  <2>3. TypeOK'
    BY <1>1, <2>1, <2>2 DEF TailInv, TypeOK, RowType, Drain
  <2>4. ident # 0
    BY <1>4 DEF TailInv, Tailed
  <2>5. Tailed'
    BY <2>1, <2>2, <2>4 DEF TailInv, Tailed, Drain
  <2> QED BY <2>2, <2>3, <2>5 DEF TailInv
<1> QED BY <1>3, <1>4

\* Neither changes what the offsets are about.
LEMMA CloseFresh ==
  ASSUME TailInv, FreshInv, IdleClose \/ Drain
  PROVE  FreshInv'
<1> USE DEF world, run, tailer, state, sink
<1>1. UNCHANGED <<up, path, orphan, ident, seen, queue, gen, committed, batch, sent, failed,
                  delivered, loaded, disk>> /\ handle' \in {0, handle} /\ pend' = NoEvent
  BY DEF IdleClose, Drain
<1>2. Ranked' /\ Recorded'
  BY <1>1 DEF FreshInv, Ranked, Recorded, Sound, Harmless
<1>3. slab = << >>
  BY DEF TailInv, Tailed, IdleClose, Drain, Leaves
<1>4. CASE pend = NoEvent
  <2>1. slab' = slab /\ pend' = pend /\ base' = base
    <3>1. Off = base
      BY <1>4, OffIs DEF TailInv
    <3> QED BY <1>3, <1>4, <3>1 DEF IdleClose, Drain, Emit
  <2> QED BY <1>1, <1>2, <2>1 DEF FreshInv, Placed, Present, Harmless, Off, Line
<1>5. CASE pend # NoEvent
  <2>1. slab' = <<Row(pend)>> /\ base' = Off
    BY <1>5 DEF IdleClose, Drain, Emit
  <2> QED BY <1>1, <1>2, <1>3, <1>5, <2>1, PendFresh DEF FreshInv
<1> QED BY <1>4, <1>5

\* A slab goes to the batcher, or is dropped with what the batcher has dropped: the
\* line stays as it is, or ends.
LEMMA FlushMoves ==
  ASSUME TailInv, Flush
  PROVE  /\ queue' \in Seq(RowType) /\ slab' \in Seq(RowType) /\ batch \in 0 .. Len(queue')
         /\ (~failed /\ Line' = Line) \/ (failed /\ queue' = queue /\ Line' = << >>)
         /\ (slab' # << >> => pc' \in {"send", "last"})
         /\ pc' \in {"idle", "gone", pc} /\ pc' # "read" /\ (pc' = "gone" => pc = "last")
         /\ dead' \in BOOLEAN
<1>1. PICK m \in Nat, n \in Nat :
        /\ m = Len(queue) /\ n = Len(slab) /\ batch \in 0 .. m
        /\ queue \in Seq(RowType) /\ slab \in Seq(RowType)
  BY Typed, Lined DEF TailInv
<1>2. /\ slab' # << >> => pc' \in {"send", "last"}
      /\ pc' \in {"idle", "gone", pc} /\ pc' # "read" /\ (pc' = "gone" => pc = "last")
      /\ dead' \in BOOLEAN
  BY DEF Flush, TailInv, TypeOK
<1>3. CASE failed
  <2>1. queue' = queue /\ slab' = << >> /\ queue = << >>
    BY <1>3 DEF Flush, TailInv, Queued
  <2>2. Line' = << >>
    BY <2>1 DEF Line
  <2> QED BY <1>1, <1>2, <1>3, <2>1, <2>2
<1>4. CASE ~failed
  <2>1. PICK k \in 0 .. n : k = IF n < SlabRows THEN n ELSE SlabRows
    BY <1>1, FollowBounds
  <2> DEFINE first == SubSeq(slab, 1, k)
             rest == SubSeq(slab, k + 1, n)
  <2>2. Slab = first
    BY <1>1, <2>1 DEF Slab
  <2>3. first \in Seq(RowType) /\ Len(first) = k /\ rest \in Seq(RowType)
    BY <1>1, <2>1
  <2>4. queue' = queue \o first /\ slab' = rest
    BY <1>1, <1>4, <2>2, <2>3 DEF Flush
  <2>5. first \o rest = slab
    <3>1. slab \in Seq(RowType) /\ n = Len(slab) /\ k \in 0 .. n /\ n \in Nat
      BY <1>1, <2>1
    <3>2. 1 \in 1 .. Len(slab) + 1 /\ k \in 1 - 1 .. Len(slab) /\ n \in k .. Len(slab)
      BY ONLY <3>1
    <3>3. SubSeq(slab, 1, k) \o SubSeq(slab, k + 1, n) = SubSeq(slab, 1, n)
      BY ONLY <3>1, <3>2, ConcatAdjacentSubSeq
    <3>4. SubSeq(slab, 1, n) = slab
      BY ONLY <3>1, SubSeqFull
    <3> QED BY <3>3, <3>4
  <2>6. (queue \o first) \o rest = queue \o (first \o rest)
    <3> HIDE DEF first, rest
    <3> QED BY <1>1, <2>3, ConcatAssociative
  <2>7. Line' = Line
    BY <2>4, <2>5, <2>6 DEF Line
  <2>8. queue' \in Seq(RowType) /\ Len(queue') = m + k
    BY <1>1, <2>3, <2>4, ConcatProperties
  <2>9. batch \in 0 .. m + k
    BY <1>1, <2>1
  <2>10. slab' \in Seq(RowType) /\ batch \in 0 .. Len(queue')
    BY <2>3, <2>4, <2>8, <2>9
  <2> HIDE DEF first, rest
  <2> QED BY <1>2, <1>4, <2>7, <2>8, <2>10
<1> QED BY <1>3, <1>4

\* The worker hands over a slab.
LEMMA FlushTail ==
  ASSUME TailInv, Flush
  PROVE  TailInv'
<1> USE DEF world, run, tailer, state, sink
<1>1. /\ queue' \in Seq(RowType) /\ slab' \in Seq(RowType) /\ batch \in 0 .. Len(queue')
      /\ (~failed /\ Line' = Line) \/ (failed /\ queue' = queue /\ Line' = << >>)
      /\ (slab' # << >> => pc' \in {"send", "last"})
      /\ pc' \in {"idle", "gone", pc} /\ pc' # "read" /\ (pc' = "gone" => pc = "last")
      /\ dead' \in BOOLEAN
  BY FlushMoves
<1>2. TypeOK'
  BY <1>1 DEF TailInv, TypeOK, RowType, Flush
<1>3. Tailed'
  <2>1. pc' \in {"last", "gone"} => pc \in {"last", "gone"}
    BY <1>1
  <2>2. ident = 0 => Line' = << >>
    BY <1>1 DEF TailInv, Tailed
  <2> QED BY <1>1, <2>1, <2>2 DEF TailInv, Tailed, Flush
<1>4. Queued'
  <2>1. CASE ~failed
    BY <1>1, <2>1, QueuedStays DEF TailInv, Flush
  <2>2. CASE failed
    <3>1. DOMAIN Line' = {} /\ queue = << >> /\ queue' = queue /\ ~sent
      <4>1. queue = << >>
        BY <2>2 DEF TailInv, Queued
      <4>2. Len(queue) = 0
        BY <4>1
      <4>3. ~sent
        BY <4>2, Typed DEF TailInv, Queued
      <4> QED BY <1>1, <2>2, <4>1, <4>3
    <3> QED BY <2>2, <3>1 DEF Queued, Flush
  <2> QED BY <2>1, <2>2
<1> QED BY <1>2, <1>3, <1>4 DEF TailInv

\* The offsets are about what they were.
LEMMA FlushFresh ==
  ASSUME TailInv, FreshInv, Flush
  PROVE  FreshInv'
<1> USE DEF world, run, tailer, state, sink
<1>1. UNCHANGED <<path, orphan, handle, up, ident, seen, base, pend, gen, committed, loaded, disk,
                  delivered>>
  BY DEF Flush
<1>2. CASE Line' = Line
  BY <1>1, <1>2, FreshStays
<1>3. CASE Line' = << >>
  <2>1. DOMAIN Line' = {} /\ Off' = Off
    BY <1>1, <1>3 DEF Off
  <2>2. Ranked' /\ Recorded'
    BY <1>1 DEF FreshInv, Ranked, Recorded, Sound, Harmless
  <2>3. Placed'
    BY <1>1, <2>1 DEF FreshInv, Placed, Harmless
  <2> QED BY <2>2, <2>3 DEF FreshInv
<1> QED BY <1>2, <1>3, FlushMoves

-----------------------------------------------------------------------------
(* The batcher *)

\* A batch is taken.
LEMMA CollectTail ==
  ASSUME TailInv, Collect
  PROVE  TailInv'
<1> USE DEF world, run, tailer, state, sink
<1>1. Len(queue) \in Nat /\ DrainTries \in Nat \ {0}
  BY Typed, FollowBounds DEF TailInv
<1>2. batch' \in 0 .. Len(queue) /\ tries' \in 0 .. DrainTries - 1
  BY <1>1 DEF Collect
<1>3. TypeOK'
  BY <1>2 DEF TailInv, TypeOK, Collect
<1>4. Tailed'
  BY DEF TailInv, Tailed, Collect, Line
<1>5. ~sent
  BY DEF TailInv, Queued, Collect
<1>6. Queued'
  BY <1>5 DEF TailInv, Queued, Present, Waits, Collect, Line
<1> QED BY <1>3, <1>4, <1>6 DEF TailInv

\* What is left of a sequence without its first b elements.
LEMMA Rest ==
  ASSUME NEW S, NEW s \in Seq(S), NEW n \in Nat, n = Len(s), NEW b \in 0 .. n
  PROVE  /\ SubSeq(s, b + 1, n) \in Seq(S) /\ Len(SubSeq(s, b + 1, n)) = n - b
         /\ \A j \in 1 .. n - b : SubSeq(s, b + 1, n)[j] = s[b + j]
<1>1. \A i \in 1 .. n : s[i] \in S
  OBVIOUS
<1>2. b + 1 \in Int /\ n \in Int /\ \A i \in b + 1 .. n : s[i] \in S
  BY <1>1
<1>3. /\ SubSeq(s, b + 1, n) \in Seq(S)
      /\ Len(SubSeq(s, b + 1, n)) = IF b + 1 <= n THEN n - (b + 1) + 1 ELSE 0
      /\ \A i \in 1 .. n - (b + 1) + 1 : SubSeq(s, b + 1, n)[i] = s[b + 1 + i - 1]
  BY <1>2, SubSeqProperties
<1>4. (IF b + 1 <= n THEN n - (b + 1) + 1 ELSE 0) = n - b
  OBVIOUS
<1>5. ASSUME NEW j \in 1 .. n - b PROVE SubSeq(s, b + 1, n)[j] = s[b + j]
  <2>1. j \in 1 .. n - (b + 1) + 1 /\ b + 1 + j - 1 = b + j
    OBVIOUS
  <2> QED BY <1>3, <2>1
<1> QED BY <1>3, <1>4, <1>5

\* The batcher's first d rows are gone: the line goes on without them.
LEMMA Taken ==
  ASSUME TypeOK, NEW d \in 0 .. Len(queue),
         queue' = SubSeq(queue, d + 1, Len(queue)), slab' = slab, NEW n \in Nat, n = Len(Line)
  PROVE  /\ queue' \in Seq(RowType) /\ Len(queue') = Len(queue) - d /\ Len(queue) - d \in Nat
         /\ d \in 0 .. n /\ DOMAIN Line' = 1 .. n - d
         /\ \A j \in 1 .. n - d : Line'[j] = Line[d + j] /\ d + j \in 1 .. n
         /\ \A k \in 1 .. n : k > d => k - d \in 1 .. n - d /\ Line'[k - d] = Line[k]
<1>1. PICK m \in Nat, t \in Nat :
        /\ m = Len(queue) /\ t = Len(slab) /\ n = m + t
        /\ queue \in Seq(RowType) /\ slab \in Seq(RowType)
        /\ \A j \in 1 .. m : Line[j] = queue[j]
        /\ \A j \in 1 .. t : Line[m + j] = slab[j]
  BY Lined
<1>2. d \in 0 .. m
  BY <1>1
<1>3. /\ queue' \in Seq(RowType) /\ Len(queue') = m - d
      /\ \A j \in 1 .. m - d : queue'[j] = queue[d + j]
  BY <1>1, <1>2, Rest
<1>4. m - d \in Nat
  BY <1>2
<1>5. /\ DOMAIN Line' = 1 .. (m - d) + t
      /\ \A j \in 1 .. m - d : Line'[j] = queue'[j]
      /\ \A j \in 1 .. t : Line'[(m - d) + j] = slab[j]
  <2>1. PICK q \in Seq(RowType) : q = queue' /\ m - d = Len(q) /\ t = Len(slab)
    BY <1>1, <1>3
  <2>2. PICK e \in Nat : e = m - d /\ e = Len(q)
    BY <1>4, <2>1
  <2>3. slab \in Seq(RowType) /\ q \in Seq(RowType) /\ e = Len(q) /\ t = Len(slab)
    BY <1>1, <2>1, <2>2
  <2>4. /\ DOMAIN (q \o slab) = 1 .. e + t
        /\ \A j \in 1 .. e : (q \o slab)[j] = q[j]
        /\ \A j \in 1 .. t : (q \o slab)[e + j] = slab[j]
    BY ONLY <2>3, Concat
  <2>5. Line' = q \o slab
    BY <2>1 DEF Line
  <2> QED BY <2>1, <2>2, <2>4, <2>5
<1>6. ASSUME NEW j \in 1 .. n - d
      PROVE  Line'[j] = Line[d + j] /\ d + j \in 1 .. n
  <2>1. d + j \in 1 .. n
    BY <1>1, <1>2
  <2>2. CASE j <= m - d
    <3>1. j \in 1 .. m - d /\ d + j \in 1 .. m
      BY <1>1, <1>2, <2>2
    <3> QED BY <1>1, <1>3, <1>5, <2>1, <3>1
  <2>3. CASE ~(j <= m - d)
    <3>1. PICK i \in 1 .. t : j = (m - d) + i /\ d + j = m + i
      <4>1. j - (m - d) \in 1 .. t /\ j = (m - d) + (j - (m - d)) /\ d + j = m + (j - (m - d))
        BY <1>1, <1>2, <2>3
      <4> QED BY <4>1
    <3>2. Line'[j] = slab[i]
      BY <1>5, <3>1
    <3>3. Line[d + j] = slab[i]
      BY <1>1, <3>1
    <3> QED BY <2>1, <3>2, <3>3
  <2> QED BY <2>2, <2>3
<1>7. ASSUME NEW k \in 1 .. n, k > d
      PROVE  k - d \in 1 .. n - d /\ Line'[k - d] = Line[k]
  <2>1. k - d \in 1 .. n - d /\ d + (k - d) = k
    BY <1>1, <1>2, <1>7
  <2> QED BY <1>6, <2>1
<1>8. d \in 0 .. n /\ (m - d) + t = n - d
  BY <1>1, <1>2
<1> QED BY <1>1, <1>3, <1>4, <1>5, <1>6, <1>7, <1>8

\* What a batch adds to ClickHouse.
LEMMA AppliedIs ==
  ASSUME TypeOK
  PROVE  /\ delivered \subseteq Applied /\ Applied \subseteq Events
         /\ \A j \in 1 .. batch : j \in DOMAIN Line /\ Event(Line[j]) \in Applied
<1>1. ASSUME NEW j \in 1 .. batch
      PROVE  j \in DOMAIN Line /\ Line[j] = queue[j] /\ Event(Line[j]) \in Events
  <2>1. j \in DOMAIN Line /\ Line[j] = queue[j] /\ Line[j] \in RowType
    BY Typed, Lined
  <2>2. Ids \subseteq 0 .. MaxRewrites + 1 /\ 1 .. MaxLen \subseteq 0 .. MaxLen
    BY FollowBounds DEF Ids
  <2> QED BY <2>1, <2>2 DEF Event, Events, RowType
<1> QED BY <1>1 DEF Applied, TypeOK

\* A batch is in ClickHouse.
LEMMA SendOkTail ==
  ASSUME TailInv, SendOk
  PROVE  TailInv'
<1> USE DEF world, run, tailer, state, sink
<1>1. /\ delivered \subseteq delivered' /\ delivered' \subseteq Events
      /\ \A j \in 1 .. batch : Event(Line[j]) \in delivered'
  BY AppliedIs DEF TailInv, SendOk
<1>2. TypeOK'
  BY <1>1 DEF TailInv, TypeOK, SendOk
<1>3. Tailed'
  BY DEF TailInv, Tailed, SendOk, Line
<1>4. Queued'
  BY <1>1 DEF TailInv, Queued, Present, Waits, SendOk, Event, Line
<1> QED BY <1>2, <1>3, <1>4 DEF TailInv

\* A batch fails, and is tried again or given up with all that the batcher has.
LEMMA SendFailsTail ==
  ASSUME TailInv, SendFails
  PROVE  /\ TailInv' /\ delivered \subseteq delivered'
         /\ \A j \in DOMAIN Line' : \E k \in DOMAIN Line : Line'[j] = Line[k]
<1> USE DEF world, run, tailer, state, sink
<1>1. delivered \subseteq delivered' /\ delivered' \subseteq Events
  BY AppliedIs DEF TailInv, TypeOK, SendFails
<1>2. ~sent /\ server' = FALSE
  BY DEF SendFails
<1>3. CASE Retries
  <2>1. UNCHANGED <<queue, slab, batch, failed>> /\ Line' = Line
    BY <1>3 DEF SendFails, Line
  <2>2. tries' \in 0 .. DrainTries - 1
    <3>1. tries \in 0 .. DrainTries - 1 /\ DrainTries \in Nat
      BY FollowBounds DEF TailInv, TypeOK
    <3>2. CASE isDraining
      <4>1. tries + 1 \in 0 .. DrainTries - 1
        BY <1>3, <3>1, <3>2 DEF Retries
      <4> QED BY <1>3, <3>2, <4>1 DEF SendFails
    <3>3. CASE ~isDraining
      BY <1>3, <3>1, <3>3 DEF SendFails
    <3> QED BY <3>2, <3>3
  <2>3. TypeOK'
    BY <1>1, <1>2, <2>1, <2>2 DEF TailInv, TypeOK, SendFails
  <2>4. Tailed'
    BY <2>1 DEF TailInv, Tailed, SendFails
  <2>5. Queued'
    BY <1>2, <2>1 DEF TailInv, Queued, Present, Waits, SendFails
  <2> QED BY <1>1, <2>1, <2>3, <2>4, <2>5 DEF TailInv
<1>4. CASE ~Retries
  <2>1. /\ failed' = TRUE /\ queue' = << >> /\ batch' = 0 /\ tries' = 0 /\ sent' = FALSE
        /\ UNCHANGED <<slab, gen, base>>
    BY <1>2, <1>4 DEF SendFails, Abort, TailInv, TypeOK
  <2>2. PICK d \in Nat, n \in Nat : d = Len(queue) /\ n = Len(Line)
    BY Typed DEF TailInv
  <2>3. queue' = SubSeq(queue, d + 1, Len(queue))
    BY <2>1, <2>2, SubSeqEmpty
  <2>4. /\ queue' \in Seq(RowType) /\ d \in 0 .. n /\ DOMAIN Line' = 1 .. n - d
        /\ \A j \in 1 .. n - d : Line'[j] = Line[d + j] /\ d + j \in 1 .. n
    <3>1. d \in 0 .. Len(queue)
      BY <2>2
    <3> QED BY <2>1, <2>2, <2>3, <3>1, Taken DEF TailInv
  <2>5. TypeOK'
    <3>1. Len(queue') = 0 /\ 0 \in 0 .. 0 /\ 0 \in 0 .. DrainTries - 1
      BY <2>1, FollowBounds
    <3> QED BY <1>1, <1>2, <2>1, <2>4, <3>1 DEF TailInv, TypeOK, RowType, SendFails
  <2>6. ident = 0 => Line' = << >>
    <3>1. SUFFICES ASSUME ident = 0 PROVE slab = << >>
      BY <2>1 DEF Line
    <3>2. Line = << >> /\ queue \in Seq(RowType) /\ slab \in Seq(RowType)
      BY <3>1, Lined DEF TailInv, Tailed
    <3> QED BY <3>2, ConcatEqualIffEmpty DEF Line
  <2>7. Tailed'
    BY <2>1, <2>6 DEF TailInv, Tailed, SendFails
  <2>8. DOMAIN Line = 1 .. n /\ \A j \in DOMAIN Line : Line[j].end \in Nat
    BY <2>2, Typed DEF TailInv
  <2>9. ASSUME NEW j \in DOMAIN Line'
        PROVE  Line'[j].gen <= gen /\ (Line'[j].gen = gen => Line'[j].end <= base)
    <3>1. PICK k \in DOMAIN Line : Line'[j] = Line[k]
      BY <2>4, <2>8
    <3> QED BY <3>1 DEF TailInv, Queued, Present
  <2>10. ASSUME NEW j \in DOMAIN Line', NEW k \in DOMAIN Line', j < k,
                Line'[j].gen = gen, Line'[k].gen = gen
         PROVE  Line'[j].end < Line'[k].end
    <3>1. d + j < d + k /\ d + j \in DOMAIN Line /\ d + k \in DOMAIN Line
      BY <2>4, <2>8, <2>10
    <3>2. PICK x \in DOMAIN Line, y \in DOMAIN Line :
            x < y /\ Line'[j] = Line[x] /\ Line'[k] = Line[y]
      BY <2>4, <3>1
    <3> QED BY <2>10, <3>2 DEF TailInv, Queued, Present
  <2>11. Queued'
    BY <2>1, <2>9, <2>10 DEF Queued, Present
  <2>12. \A j \in DOMAIN Line' : \E k \in DOMAIN Line : Line'[j] = Line[k]
    BY <2>4, <2>8
  <2> QED BY <1>1, <2>5, <2>7, <2>11, <2>12 DEF TailInv
<1> QED BY <1>3, <1>4

\* The batcher's steps leave what the offsets are about as it was.
LEMMA SendFresh ==
  ASSUME TailInv, FreshInv, Collect \/ SendOk \/ SendFails
  PROVE  FreshInv'
<1> USE DEF world, run, tailer, state, sink
<1>1. UNCHANGED <<path, orphan, handle, up, ident, seen, base, pend, gen, committed, loaded, disk>>
  BY DEF Collect, SendOk, SendFails
<1>2. /\ delivered \subseteq delivered'
      /\ Line' = Line \/ \A j \in DOMAIN Line' : \E k \in DOMAIN Line : Line'[j] = Line[k]
  <2>1. CASE Collect
    BY <2>1 DEF Collect, Line
  <2>2. CASE SendOk
    BY <2>2, AppliedIs DEF SendOk, TailInv, Line
  <2>3. CASE SendFails
    BY <2>3, SendFailsTail
  <2> QED BY <2>1, <2>2, <2>3
<1>3. CASE Line' = Line
  BY <1>1, <1>2, <1>3, FreshStays
<1>4. CASE \A j \in DOMAIN Line' : \E k \in DOMAIN Line : Line'[j] = Line[k]
  <2>1. Ranked'
    BY <1>1 DEF FreshInv, Ranked
  <2>2. Recorded'
    BY <1>1, <1>2 DEF FreshInv, Recorded, Sound, Harmless
  <2>3. Off' = Off
    BY <1>1 DEF Off
  <2>4. Placed'
    BY <1>1, <1>2, <1>4, <2>3 DEF FreshInv, Placed, Present, Harmless
  <2> QED BY <2>1, <2>2, <2>4 DEF FreshInv
<1> QED BY <1>2, <1>3, <1>4

\* The offsets that an acknowledgement brings the checkpoint to: it goes to the
\* last row of this generation in the batch, if there is one.
LEMMA AckMoves ==
  ASSUME TailInv, Ack
  PROVE  \E c \in Nat :
           /\ committed' = c /\ committed <= c /\ c <= base
           /\ \A j \in 1 .. batch : Present(Line[j]) => Line[j].end <= c
           /\ c = committed \/ \E j \in 1 .. batch : Present(Line[j]) /\ Line[j].end = c
<1> DEFINE fit == {queue[i].end : i \in {j \in 1 .. batch : Fits(queue[j])}}
           S == fit \cup {committed}
<1>1. /\ base \in Nat /\ committed \in Nat /\ committed <= base
      /\ \A j \in DOMAIN Line : Line[j].end \in Nat
  BY Typed DEF TailInv, Tailed
<1>2. \A j \in 1 .. batch : j \in DOMAIN Line /\ Line[j] = queue[j]
  <2>1. batch \in 0 .. Len(queue) /\ Len(queue) \in Nat /\ DOMAIN queue = 1 .. Len(queue)
    BY Typed, Lined DEF TailInv
  <2>2. \A j \in 1 .. batch : j \in DOMAIN queue
    BY <2>1
  <2> QED BY <2>2, Lined DEF TailInv
<1>3. \A j \in 1 .. batch : Line[j].end \in Nat /\ (Present(Line[j]) => Line[j].end <= base)
  BY <1>1, <1>2 DEF TailInv, Queued
<1>4. S \in SUBSET Nat /\ S # {} /\ \A x \in S : x <= base
  BY <1>1, <1>2, <1>3 DEF Fits, Present
<1>5. Max(S) \in S /\ \A x \in S : x <= Max(S)
  <2> HIDE DEF S
  <2> QED BY <1>1, <1>4, MaxNat
<1>6. committed' = Max(S)
  BY DEF Ack
<1>7. PICK c \in S : c = Max(S)
  BY <1>5
<1>8. ASSUME NEW j \in 1 .. batch, Present(Line[j])
      PROVE  Line[j].end <= c
  <2>1. CASE Line[j].end > committed
    <3>1. Line[j].end \in S
      BY <1>2, <1>8, <2>1 DEF Fits, Present
    <3> QED BY <1>5, <1>7, <3>1
  <2>2. CASE ~(Line[j].end > committed)
    <3>1. committed <= c /\ committed \in Nat /\ c \in Nat /\ Line[j].end \in Nat
      BY <1>1, <1>3, <1>4, <1>5, <1>7
    <3> QED BY <2>2, <3>1
  <2> QED BY <2>1, <2>2
<1>9. c \in Nat /\ committed <= c /\ c <= base
  BY <1>4, <1>5, <1>7
<1>10. c = committed \/ \E j \in 1 .. batch : Present(Line[j]) /\ Line[j].end = c
  BY <1>2, <1>7 DEF Fits, Present
<1> QED BY <1>6, <1>7, <1>8, <1>9, <1>10

\* The rows that an acknowledgement leaves.
LEMMA AckLeaves ==
  ASSUME TailInv, Ack, NEW n \in Nat, n = Len(Line)
  PROVE  /\ queue' \in Seq(RowType) /\ Len(queue') \in Nat
         /\ batch \in 0 .. n /\ DOMAIN Line' = 1 .. n - batch
         /\ \A j \in 1 .. n - batch : Line'[j] = Line[batch + j] /\ batch + j \in 1 .. n
         /\ \A k \in 1 .. n :
              k > batch => k - batch \in 1 .. n - batch /\ Line'[k - batch] = Line[k]
<1>1. batch \in 0 .. Len(queue)
  BY Typed DEF TailInv
<1>2. queue' = SubSeq(queue, batch + 1, Len(queue)) /\ slab' = slab
  BY DEF Ack, tailer
<1> QED BY <1>1, <1>2, Taken DEF TailInv

\* The rows of a batch are acknowledged.
LEMMA AckTail ==
  ASSUME TailInv, Ack
  PROVE  TailInv'
<1> USE DEF world, run, tailer, state, sink
<1>1. PICK c \in Nat :
        /\ committed' = c /\ committed <= c /\ c <= base
        /\ \A j \in 1 .. batch : Present(Line[j]) => Line[j].end <= c
        /\ c = committed \/ \E j \in 1 .. batch : Present(Line[j]) /\ Line[j].end = c
  BY AckMoves
<1>2. PICK n \in Nat : n = Len(Line)
  BY Typed DEF TailInv
<1>3. PICK b \in 0 .. n : b = batch
  BY <1>2, AckLeaves
<1>4. /\ queue' \in Seq(RowType) /\ Len(queue') \in Nat /\ DOMAIN Line' = 1 .. n - b
      /\ \A j \in 1 .. n - b : Line'[j] = Line[b + j] /\ b + j \in 1 .. n
      /\ \A k \in 1 .. n : k > b => k - b \in 1 .. n - b /\ Line'[k - b] = Line[k]
  BY <1>2, <1>3, AckLeaves
<1>5. /\ sent /\ b > 0 /\ n # 0 /\ ~failed /\ ident # 0
  <2>1. sent /\ b > 0 /\ n # 0
    BY <1>3 DEF Ack, TailInv, Queued
  <2>2. queue # << >>
    <3>1. Len(queue) # 0
      BY <1>3, <2>1, Typed DEF TailInv
    <3> QED BY <3>1
  <2>3. Line # << >>
    BY <1>2, <2>1
  <2> QED BY <2>1, <2>2, <2>3 DEF TailInv, Queued, Tailed
<1>6. /\ DOMAIN Line = 1 .. n /\ base \in Nat /\ base \in 0 .. MaxLen /\ MaxLen \in Nat
      /\ committed \in Nat /\ \A j \in 1 .. n : Line[j].gen \in Nat /\ Line[j].end \in Nat
  BY <1>2, Typed, FollowBounds DEF TailInv, TypeOK
<1>7. TypeOK'
  <2>1. c \in 0 .. MaxLen
    BY <1>1, <1>6
  <2>2. batch' = 0 /\ sent' = FALSE /\ dirty' = TRUE
    BY DEF Ack
  <2>3. 0 \in 0 .. Len(queue')
    BY <1>4
  <2> QED BY <1>1, <1>4, <2>1, <2>2, <2>3 DEF TailInv, TypeOK, RowType, Ack
<1>8. Tailed'
  <2>1. committed' <= base
    BY <1>1
  <2>2. slab' = slab
    BY DEF Ack
  <2> QED BY <1>5, <2>1, <2>2 DEF TailInv, Tailed, Ack
<1>9. UNCHANGED <<gen, base, failed, delivered>> /\ batch' = 0 /\ sent' = FALSE
  BY DEF Ack
<1>10. ASSUME NEW j \in 1 .. n - b
       PROVE  Line'[j].gen <= gen /\ (Line'[j].gen = gen => Line'[j].end <= base)
  <2>1. PICK k \in 1 .. n : Line'[j] = Line[k]
    BY <1>4
  <2>2. Line[k].gen <= gen /\ (Line[k].gen = gen => Line[k].end <= base)
    BY <1>6 DEF TailInv, Queued, Present
  <2> QED BY <2>1, <2>2
<1>11. ASSUME NEW j \in 1 .. n - b, NEW k \in 1 .. n - b, j < k,
              Line'[j].gen = gen, Line'[k].gen = gen
       PROVE  Line'[j].end < Line'[k].end
  <2>1. b + j < b + k /\ b + j \in 1 .. n /\ b + k \in 1 .. n
    BY <1>4, <1>11
  <2>2. PICK x \in 1 .. n, y \in 1 .. n : x < y /\ Line'[j] = Line[x] /\ Line'[k] = Line[y]
    BY <1>4, <2>1
  <2>3. Present(Line[x]) /\ Present(Line[y])
    BY <1>11, <2>2 DEF Present
  <2>4. Line[x].end < Line[y].end
    BY <1>6, <2>2, <2>3 DEF TailInv, Queued
  <2> QED BY <2>2, <2>4
<1>12. ASSUME NEW i \in c + 1 .. base
       PROVE  \E j \in 1 .. n - b : Line'[j].gen = gen /\ Line'[j].end = i
  <2>1. i \in committed + 1 .. base /\ i \in Nat /\ ~(i <= c)
    BY <1>1, <1>6
  <2>2. PICK k \in 1 .. n : Line[k].gen = gen /\ Line[k].end = i
    BY <1>5, <1>6, <2>1 DEF TailInv, Queued, Waits, Present
  <2>3. k > b
    <3>1. CASE k \in 1 .. b
      <4>1. Line[k].end <= c
        BY <1>1, <1>3, <2>2, <3>1 DEF Present
      <4> QED BY <2>1, <2>2, <4>1
    <3>2. CASE ~(k \in 1 .. b)
      BY <3>2
    <3> QED BY <3>1, <3>2
  <2>4. k - b \in 1 .. n - b /\ Line'[k - b] = Line[k]
    BY <1>4, <2>3
  <2> QED BY <2>2, <2>4
<1>13. Queued'
  BY <1>1, <1>4, <1>5, <1>9, <1>10, <1>11, <1>12 DEF Queued, Present, Waits
<1> QED BY <1>7, <1>8, <1>13 DEF TailInv

\* What the checkpoint passes over is in ClickHouse.
LEMMA AckFresh ==
  ASSUME TailInv, FreshInv, Ack
  PROVE  FreshInv'
<1> USE DEF world, run, tailer, state, sink
<1>1. PICK c \in Nat :
        /\ committed' = c /\ committed <= c /\ c <= base
        /\ \A j \in 1 .. batch : Present(Line[j]) => Line[j].end <= c
        /\ c = committed \/ \E j \in 1 .. batch : Present(Line[j]) /\ Line[j].end = c
  BY AckMoves
<1>2. PICK n \in Nat : n = Len(Line)
  BY Typed DEF TailInv
<1>3. PICK b \in 0 .. n : b = batch
  BY <1>2, AckLeaves
<1>4. /\ DOMAIN Line' = 1 .. n - b
      /\ \A j \in 1 .. n - b : Line'[j] = Line[b + j] /\ b + j \in 1 .. n
  BY <1>2, <1>3, AckLeaves
<1>5. UNCHANGED <<path, orphan, handle, up, ident, seen, base, pend, gen, loaded, disk, delivered>>
  BY DEF Ack
<1>6. Ranked' /\ Recorded'
  BY <1>5 DEF FreshInv, Ranked, Recorded, Sound, Harmless
<1>7. /\ DOMAIN Line = 1 .. n /\ base \in Nat /\ committed \in Nat /\ sent
      /\ \A j \in 1 .. n : Line[j].end \in Nat
      /\ \A j \in 1 .. b : j \in 1 .. n /\ Event(Line[j]) \in delivered
  <2>1. /\ DOMAIN Line = 1 .. n /\ base \in Nat /\ committed \in Nat
        /\ \A j \in 1 .. n : Line[j].end \in Nat
    BY <1>2, Typed DEF TailInv
  <2>2. sent /\ \A j \in 1 .. b : Event(Line[j]) \in delivered
    BY <1>3 DEF TailInv, Queued, Ack
  <2>3. \A j \in 1 .. b : j \in 1 .. n
    OBVIOUS
  <2> QED BY <2>1, <2>2, <2>3
<1>8. Off' = Off
  BY <1>5 DEF Off
<1>9. CASE ~(up /\ ident = path.id)
  <2>1. Placed'
    BY <1>5, <1>9 DEF Placed
  <2> QED BY <1>6, <2>1 DEF FreshInv
<1>10. CASE up /\ ident = path.id /\ seen = path.epoch
  <2>1. /\ Off <= path.len
        /\ \A j \in 1 .. n : Present(Line[j]) => Line[j].epoch = seen
        /\ \A i \in 1 .. committed : [epoch |-> seen, end |-> i] \in delivered
    BY <1>7, <1>10 DEF FreshInv, Placed
  <2>2. \A j \in 1 .. n - b : Line'[j].gen = gen => Line'[j].epoch = seen
    BY <1>4, <2>1 DEF Present
  <2>3. ASSUME NEW i \in 1 .. c PROVE [epoch |-> seen, end |-> i] \in delivered
    <3>1. CASE i <= committed
      BY <1>7, <2>1, <3>1
    <3>2. CASE ~(i <= committed)
      <4>1. PICK k \in 1 .. b : Present(Line[k]) /\ Line[k].end = c
        BY <1>1, <1>3, <1>7, <3>2
      <4>2. i \in committed + 1 .. base /\ i \in Nat /\ i <= c /\ ~failed
        <5>1. queue # << >>
          <6>1. Len(queue) # 0
            BY <1>3, <4>1, Typed DEF TailInv
          <6> QED BY <6>1
        <5> QED BY <1>1, <1>7, <3>2, <5>1 DEF TailInv, Queued
      <4>3. PICK j \in 1 .. n : Present(Line[j]) /\ Line[j].end = i
        BY <1>7, <4>2 DEF TailInv, Queued, Waits
      <4>4. j \in 1 .. b
        <5>1. CASE k < j
          <6>1. Line[k].end < Line[j].end
            BY <1>7, <4>1, <4>3, <5>1 DEF TailInv, Queued
          <6> QED BY <4>1, <4>2, <4>3, <6>1
        <5>2. CASE ~(k < j)
          BY <4>1, <5>2
        <5> QED BY <5>1, <5>2
      <4>5. Line[j].epoch = seen /\ Event(Line[j]) \in delivered
        BY <1>7, <2>1, <4>3, <4>4
      <4> QED BY <4>3, <4>5 DEF Event
    <3> QED BY <3>1, <3>2
  <2>4. Placed'
    BY <1>1, <1>4, <1>5, <1>8, <1>10, <2>1, <2>2, <2>3 DEF Placed, Present
  <2> QED BY <1>6, <2>4 DEF FreshInv
<1>11. CASE up /\ ident = path.id /\ seen # path.epoch
  <2>1. /\ Harmless(Off) /\ Harmless(committed)
        /\ \A j \in 1 .. n : Present(Line[j]) => Harmless(Line[j].end)
    BY <1>7, <1>11 DEF FreshInv, Placed
  <2>2. \A j \in 1 .. n - b : Line'[j].gen = gen => Harmless(Line'[j].end)
    BY <1>4, <2>1 DEF Present
  <2>3. Harmless(c)
    BY <1>1, <1>3, <1>7, <2>1
  <2>4. Placed'
    BY <1>1, <1>4, <1>5, <1>8, <1>11, <2>1, <2>2, <2>3 DEF Placed, Present, Harmless
  <2> QED BY <1>6, <2>4 DEF FreshInv
<1> QED BY <1>9, <1>10, <1>11

-----------------------------------------------------------------------------
(* Checkpoints, and the owner *)

\* What is saved: typed, and as sound as the offsets and the records it is made of.
LEMMA RecordsSound ==
  ASSUME TailInv
  PROVE  /\ Records \in [Ids -> Record]
         /\ FreshInv /\ up => /\ Sound(Records[path.id])
                              /\ \A i \in Ids : i > path.id => Records[i] = NoRecord
<1>1. Records \in [Ids -> Record]
  <2>1. [off |-> committed, epoch |-> seen] \in Record
    BY DEF TailInv, TypeOK, Record
  <2> QED BY <2>1 DEF Records, TailInv, TypeOK
<1>2. ASSUME FreshInv, up
      PROVE  Sound(Records[path.id])
  <2>1. path.id \in Ids
    BY RecordTyped DEF TailInv
  <2>2. CASE ident # path.id
    <3>1. Records[path.id] = loaded[path.id]
      BY <2>1, <2>2 DEF Records
    <3> QED BY <1>2, <3>1 DEF FreshInv, Recorded
  <2>3. CASE ident = path.id
    <3>1. Records[path.id] = [off |-> committed, epoch |-> seen]
      BY <2>1, <2>3 DEF Records
    <3>2. /\ committed \in Nat /\ base \in Nat /\ Off \in Nat /\ path.len \in Nat
          /\ committed <= base /\ base <= Off /\ seen <= path.epoch
      BY <1>2, Typed, OffIs DEF TailInv, Tailed, FreshInv, Ranked
    <3>3. CASE seen = path.epoch
      <4>1. Off <= path.len /\ \A i \in 1 .. committed : [epoch |-> seen, end |-> i] \in delivered
        BY <1>2, <2>3, <3>3 DEF FreshInv, Placed
      <4>2. committed <= path.len
        BY <3>2, <4>1
      <4> QED BY <3>1, <3>2, <3>3, <4>1, <4>2 DEF Sound
    <3>4. CASE seen # path.epoch
      <4>1. Harmless(committed)
        BY <1>2, <2>3, <3>4 DEF FreshInv, Placed
      <4> QED BY <3>1, <3>2, <3>4, <4>1 DEF Sound
    <3> QED BY <3>3, <3>4
  <2> QED BY <2>2, <2>3
<1>3. ASSUME FreshInv, NEW i \in Ids, i > path.id
      PROVE  Records[i] = NoRecord
  <2>1. ident <= path.id /\ ident \in Nat /\ path.id \in Nat /\ i \in Nat
    BY <1>3, Typed DEF TailInv, FreshInv, Ranked, Ids
  <2>2. ident # i
    BY <1>3, <2>1
  <2>3. loaded[i] = NoRecord
    BY <1>3 DEF FreshInv, Recorded
  <2> QED BY <2>2, <2>3 DEF Records
<1> QED BY <1>1, <1>2, <1>3

\* The checkpoints are saved: by the saver, or by the owner at the end.
LEMMA SaveTail ==
  ASSUME TailInv, Save \/ Exit
  PROVE  TailInv'
<1> USE DEF world, run, tailer, state, sink
<1>1. disk' \in [Ids -> Record]
  BY RecordsSound DEF Save, Exit
<1>2. /\ dirty' \in BOOLEAN /\ up' \in BOOLEAN /\ draining' \in BOOLEAN /\ stopping' \in BOOLEAN
      /\ downs' \in Nat
      /\ UNCHANGED <<path, orphan, news, server, rewrites, pc, queued, handle, base, pend, seen,
                     dead, ident, gen, committed, loaded, queue, slab, batch, sent, tries,
                     failed, delivered>>
  <2>1. /\ dirty \in BOOLEAN /\ up \in BOOLEAN /\ draining \in BOOLEAN /\ stopping \in BOOLEAN
        /\ downs \in Nat
    BY DEF TailInv, TypeOK
  <2>2. dirty' \in BOOLEAN
    BY <2>1 DEF Save, Exit, Dies
  <2>3. up' \in BOOLEAN /\ draining' \in BOOLEAN /\ stopping' \in BOOLEAN
    BY <2>1 DEF Save, Exit, Dies
  <2>4. downs' \in Nat
    BY <2>1 DEF Save, Exit, Dies
  <2> QED BY <2>2, <2>3, <2>4 DEF Save, Exit, Dies
<1>3. TypeOK'
  BY <1>1, <1>2 DEF TailInv, TypeOK
<1>4. Tailed'
  BY <1>2 DEF TailInv, Tailed, Line
<1>5. Queued'
  BY <1>2, QueuedStays DEF TailInv, Line
<1> QED BY <1>3, <1>4, <1>5 DEF TailInv

\* Every record saved is about the content under the path, or harmless.
LEMMA SaveFresh ==
  ASSUME TailInv, FreshInv, Save \/ Exit
  PROVE  FreshInv'
<1> USE DEF world, run, tailer, state, sink
<1>1. /\ UNCHANGED <<path, orphan, handle, base, pend, seen, ident, gen, committed, loaded,
                     queue, slab, delivered>>
      /\ up' => up
      /\ disk' = Records /\ up
  BY DEF Save, Exit, Dies
<1>2. Ranked'
  BY <1>1 DEF FreshInv, Ranked
<1>3. Placed'
  BY <1>1 DEF FreshInv, Placed, Present, Harmless, Off, Line
<1>4. /\ Sound(disk'[path.id]) /\ Sound(loaded[path.id])
      /\ \A i \in Ids : i > path.id => disk'[i] = NoRecord /\ loaded[i] = NoRecord
  BY <1>1, RecordsSound DEF FreshInv, Recorded
<1>5. Recorded'
  BY <1>1, <1>4 DEF Recorded, Sound, Harmless
<1> QED BY <1>2, <1>3, <1>5 DEF FreshInv

\* The agent is told to stop, or dies.
LEMMA StopTail ==
  ASSUME TailInv, SetDraining \/ CloseStop \/ Crash
  PROVE  TailInv'
<1> USE DEF world, run, tailer, state, sink
<1>1. /\ up' \in BOOLEAN /\ draining' \in BOOLEAN /\ stopping' \in BOOLEAN
      /\ downs' \in Nat
      /\ UNCHANGED <<path, orphan, news, server, rewrites, pc, queued, handle, base, pend, seen,
                     dead, ident, gen, committed, dirty, loaded, disk, queue, slab, batch, sent,
                     tries, failed, delivered>>
  <2>1. up \in BOOLEAN /\ draining \in BOOLEAN /\ stopping \in BOOLEAN /\ downs \in Nat
    BY DEF TailInv, TypeOK
  <2>2. up' \in BOOLEAN /\ draining' \in BOOLEAN /\ stopping' \in BOOLEAN
    BY <2>1 DEF SetDraining, CloseStop, Crash, Dies
  <2>3. downs' \in Nat
    BY <2>1 DEF SetDraining, CloseStop, Crash, Dies
  <2> QED BY <2>2, <2>3 DEF SetDraining, CloseStop, Crash, Dies
<1>2. TypeOK'
  BY <1>1 DEF TailInv, TypeOK
<1>3. Tailed'
  BY <1>1 DEF TailInv, Tailed, Line
<1>4. Queued'
  BY <1>1, QueuedStays DEF TailInv, Line
<1> QED BY <1>2, <1>3, <1>4 DEF TailInv

\* Neither touches a file, an offset or a record.
LEMMA StopFresh ==
  ASSUME FreshInv, SetDraining \/ CloseStop \/ Crash
  PROVE  FreshInv'
<1> USE DEF world, run, tailer, state, sink
<1>1. /\ UNCHANGED <<path, orphan, handle, base, pend, seen, ident, gen, committed, loaded, disk,
                     queue, slab, delivered>>
      /\ up' => up
  BY DEF SetDraining, CloseStop, Crash, Dies
<1>2. Ranked' /\ Recorded'
  BY <1>1 DEF FreshInv, Ranked, Recorded, Sound, Harmless
<1>3. Placed'
  BY <1>1 DEF FreshInv, Placed, Present, Harmless, Off, Line
<1> QED BY <1>2, <1>3 DEF FreshInv

\* An agent that starts has read and emitted nothing.
LEMMA FreshTailer ==
  /\ << >> \in Seq([gen : Nat, epoch : Ids, end : 1 .. MaxLen])
  /\ Len(<< >>) = 0 /\ DOMAIN << >> = {} /\ << >> \o << >> = << >>
  /\ NoEvent \in Events /\ 0 \in 0 .. MaxLen /\ 0 \in 0 .. DrainTries - 1
  /\ 0 \in 0 .. MaxRewrites + 1 /\ 0 \in 0 .. 0
<1>1. MaxLen \in Nat /\ MaxRewrites \in Nat /\ DrainTries \in Nat \ {0}
  BY FollowBounds
<1>2. NoEvent \in Events
  BY <1>1 DEF NoEvent, Events
<1> QED BY <1>1, <1>2

\* A start with the records on the disk.
LEMMA StartTail ==
  ASSUME TailInv, Start
  PROVE  TailInv'
<1> USE DEF world, run, tailer, state, sink
<1>1. /\ up' = TRUE /\ pc' = "idle" /\ queued' = FALSE /\ handle' = 0 /\ base' = 0
      /\ pend' = NoEvent /\ seen' = 0 /\ ident' = 0 /\ gen' = 0 /\ committed' = 0
      /\ dirty' = FALSE /\ loaded' = disk /\ queue' = << >> /\ batch' = 0 /\ sent' = FALSE
      /\ tries' = 0 /\ failed' = FALSE /\ slab' = << >> /\ dead' = FALSE
      /\ UNCHANGED <<path, orphan, news, server, rewrites, draining, stopping, disk, delivered,
                     downs>>
  BY DEF Start
<1>2. /\ queue' \in Seq([gen : Nat, epoch : Ids, end : 1 .. MaxLen])
      /\ slab' \in Seq([gen : Nat, epoch : Ids, end : 1 .. MaxLen])
  BY <1>1, FreshTailer
<1>3. batch' \in 0 .. Len(queue')
  <2>1. Len(queue') = 0
    BY <1>1, FreshTailer
  <2> QED BY <1>1, <2>1, FreshTailer
<1>4. TypeOK'
  BY <1>1, <1>2, <1>3, FreshTailer DEF TailInv, TypeOK
<1>5. Line' = << >> /\ DOMAIN Line' = {}
  BY <1>1, FreshTailer DEF Line
<1>6. Tailed'
  BY <1>1, <1>5 DEF TailInv, Tailed
<1>7. committed' + 1 .. base' = {}
  BY <1>1
<1>8. Queued'
  BY <1>1, <1>5, <1>7 DEF Queued
<1> QED BY <1>4, <1>6, <1>8 DEF TailInv

\* They are all that the new agent knows of the file.
LEMMA StartFresh ==
  ASSUME TailInv, FreshInv, Start
  PROVE  FreshInv'
<1> USE DEF world, run, tailer, state, sink
<1>1. /\ handle' = 0 /\ ident' = 0 /\ seen' = 0 /\ loaded' = disk
      /\ UNCHANGED <<path, orphan, disk, delivered>>
  BY DEF Start
<1>2. path.id \in Nat /\ path.epoch \in Nat /\ path.id >= 1
  BY Typed DEF TailInv
<1>3. Ranked' /\ Placed'
  BY <1>1, <1>2 DEF Ranked, Placed
<1>4. Recorded'
  BY <1>1 DEF FreshInv, Recorded, Sound, Harmless
<1> QED BY <1>3, <1>4 DEF FreshInv

-----------------------------------------------------------------------------
(* All steps, and the theorems *)

\* A new agent, a new file.
LEMMA InitTail ==
  ASSUME Init
  PROVE  TailInv /\ FreshInv
<1>1. /\ path = [id |-> 1, epoch |-> 1, len |-> 0] /\ orphan = path /\ rewrites = 0
      /\ news = FALSE /\ server = TRUE /\ up = TRUE /\ draining = FALSE /\ stopping = FALSE
      /\ slab = << >> /\ dead = FALSE /\ pc = "idle"
      /\ queued = FALSE /\ handle = 0 /\ base = 0 /\ pend = NoEvent /\ seen = 0 /\ ident = 0
      /\ gen = 0 /\ committed = 0 /\ dirty = FALSE /\ loaded = NoRecords /\ disk = NoRecords
      /\ queue = << >> /\ batch = 0 /\ sent = FALSE /\ tries = 0 /\ failed = FALSE
      /\ delivered = {} /\ downs = 0
  BY DEF Init
<1>2. MaxLen \in Nat /\ MaxRewrites \in Nat
  BY FollowBounds
<1>3. 1 \in Ids /\ path \in [id : Ids, epoch : Ids, len : 0 .. MaxLen]
  BY <1>1, <1>2 DEF Ids
<1>4. NoRecord \in Record
  BY <1>2 DEF NoRecord, Record
<1>5. NoRecords \in [Ids -> Record]
  BY <1>4 DEF NoRecords
<1>6. /\ queue \in Seq([gen : Nat, epoch : Ids, end : 1 .. MaxLen])
      /\ slab \in Seq([gen : Nat, epoch : Ids, end : 1 .. MaxLen])
      /\ Line = << >> /\ DOMAIN Line = {}
  BY <1>1, FreshTailer DEF Line
<1>7. batch \in 0 .. Len(queue)
  <2>1. Len(queue) = 0
    BY <1>1, FreshTailer
  <2> QED BY <1>1, <2>1, FreshTailer
<1>8. TypeOK
  <2>1. {path, orphan} \subseteq [id : Ids, epoch : Ids, len : 0 .. MaxLen]
    BY <1>1, <1>3
  <2>2. {news, server, up, draining, stopping, queued, dead, dirty, sent, failed} \subseteq BOOLEAN
    BY <1>1
  <2>3. /\ handle \in Ids \cup {0} /\ ident \in Ids \cup {0} /\ gen \in Nat
        /\ {rewrites, downs} \subseteq Nat /\ delivered \subseteq Events
        /\ pc \in {"idle", "open", "read", "send", "last", "gone"}
    BY <1>1
  <2>4. /\ base \in 0 .. MaxLen /\ committed \in 0 .. MaxLen /\ seen \in 0 .. MaxRewrites + 1
        /\ tries \in 0 .. DrainTries - 1 /\ pend \in Events
    BY <1>1, FreshTailer
  <2>5. loaded \in [Ids -> Record] /\ disk \in [Ids -> Record]
    BY <1>1, <1>5
  <2> QED BY <1>6, <1>7, <2>1, <2>2, <2>3, <2>4, <2>5 DEF TypeOK
<1>9. Tailed
  BY <1>1, <1>2, <1>6 DEF Tailed
<1>10. committed + 1 .. base = {}
  BY <1>1
<1>11. Queued
  BY <1>1, <1>6, <1>10 DEF Queued
<1>12. Ranked /\ Placed
  BY <1>1 DEF Ranked, Placed
<1>13. \A i \in Ids : loaded[i] = NoRecord /\ disk[i] = NoRecord
  BY <1>1 DEF NoRecords
<1>14. Sound(NoRecord)
  BY <1>1 DEF Sound, NoRecord, Harmless
<1>15. Recorded
  BY <1>1, <1>3, <1>13, <1>14 DEF Recorded
<1> QED BY <1>8, <1>9, <1>11, <1>12, <1>15 DEF TailInv, FreshInv

\* No step of anyone disturbs the offsets.
LEMMA NextTail ==
  ASSUME TailInv, [Next]_vars
  PROVE  TailInv'
<1>1. CASE World
  BY <1>1, GrowTail, TruncateTail, ReplaceTail, NetworkTail DEF World
<1>2. CASE Worker
  BY <1>2, KickTail, LookTail, OpenTail, ReadTail, FlushTail, IdleCloseTail, DormantTail, DrainTail
     DEF Worker
<1>3. CASE Batcher
  BY <1>3, CollectTail, SendOkTail, SendFailsTail, AckTail, SaveTail DEF Batcher
<1>4. CASE Owner
  BY <1>4, StopTail, SaveTail, StartTail DEF Owner
<1>5. CASE UNCHANGED vars
  <2> USE DEF vars, world, run, tailer, state, sink
  <2>1. TypeOK'
    BY <1>5 DEF TailInv, TypeOK
  <2>2. Tailed'
    BY <1>5 DEF TailInv, Tailed, Line
  <2>3. Queued'
    BY <1>5, QueuedStays DEF TailInv, Line
  <2> QED BY <2>1, <2>2, <2>3 DEF TailInv
<1> QED BY <1>1, <1>2, <1>3, <1>4, <1>5 DEF Next

\* Nor what they are about, while no truncated file outgrows one unseen.
LEMMA NextFresh ==
  ASSUME ~Overtakes, TailInv, FreshInv, [Next]_vars
  PROVE  FreshInv'
<1>1. CASE World
  BY <1>1, GrowFresh, TruncateFresh, ReplaceFresh, QuietFresh DEF World
<1>2. CASE Worker
  BY <1>2, QuietFresh, LookFresh, OpenFresh, ReadFresh, FlushFresh, CloseFresh DEF Worker
<1>3. CASE Batcher
  BY <1>3, SendFresh, AckFresh, SaveFresh DEF Batcher
<1>4. CASE Owner
  BY <1>4, StopFresh, SaveFresh, StartFresh DEF Owner
<1>5. CASE UNCHANGED vars
  BY <1>5, FreshStays DEF vars, world, run, tailer, state, sink, Line
<1> QED BY <1>1, <1>2, <1>3, <1>4, <1>5 DEF Next

\* The tailer's offsets are in order: the checkpoint, the last event emitted, the
\* last one read; and between the first two nothing is missing from the rows on
\* their way, whatever is truncated, replaced, retried, stopped or killed.
THEOREM TailInvariance == Spec => []TailInv
<1>1. Init => TailInv
  BY InitTail
<1>2. TailInv /\ [Next]_vars => TailInv'
  BY NextTail
<1> QED BY <1>1, <1>2, PTL DEF Spec

\* The variables of follow mode have their types.
THEOREM FollowTypes == Spec => []TypeOK
<1>1. TailInv => TypeOK
  BY DEF TailInv
<1> QED BY <1>1, TailInvariance, PTL

\* Of the content under the path nothing is passed over.
LEMMA NoneSkipped ==
  ASSUME TailInv, FreshInv
  PROVE  NothingSkipped
<1>1. SUFFICES ASSUME up, ident = path.id, seen = path.epoch, NEW i \in 1 .. Off
               PROVE  LET ev == [epoch |-> seen, end |-> i] IN
                        \/ ev \in delivered
                        \/ i > committed
                           /\ (ev = pend \/ failed
                               \/ \E j \in DOMAIN Line : Event(Line[j]) = ev)
  BY Lined DEF NothingSkipped, TailInv
<1>2. /\ committed \in Nat /\ base \in Nat /\ Off \in Nat /\ i \in Nat /\ i >= 1 /\ i <= Off
      /\ pend = NoEvent => Off = base
      /\ pend # NoEvent => Off = base + 1 /\ pend = [epoch |-> seen, end |-> Off]
  BY Typed, OffIs DEF TailInv
<1>3. CASE i <= committed
  <2>1. [epoch |-> seen, end |-> i] \in delivered
    BY <1>1, <1>2, <1>3 DEF FreshInv, Placed
  <2> QED BY <2>1
<1>4. CASE i > committed /\ failed
  BY <1>4
<1>5. CASE i > committed /\ ~failed /\ i <= base
  <2>1. i \in committed + 1 .. base
    BY <1>2, <1>5
  <2>2. PICK j \in DOMAIN Line : Present(Line[j]) /\ Line[j].end = i
    BY <1>5, <2>1 DEF TailInv, Queued, Waits
  <2>3. Line[j].epoch = seen
    BY <1>1, <2>2 DEF FreshInv, Placed
  <2>4. Event(Line[j]) = [epoch |-> seen, end |-> i]
    BY <2>2, <2>3 DEF Event
  <2> QED BY <1>5, <2>4
<1>6. CASE i > committed /\ ~(i <= base)
  <2>1. pend # NoEvent /\ i = Off
    BY <1>2, <1>6
  <2> QED BY <1>2, <1>6, <2>1
<1> QED BY <1>2, <1>3, <1>4, <1>5, <1>6

\* Of the content the tailer reads, what it has passed is in ClickHouse, or beyond
\* the checkpoint and on its way: through truncations, replacements, retries, stops
\* and crashes, as long as no truncated file outgrows an offset of its old content
\* before the tailer looks (without that the code cannot tell the two apart).
THEOREM FollowSkipsNothing ==
  ASSUME ~Overtakes
  PROVE  Spec => []NothingSkipped
<1>1. Init => FreshInv
  BY InitTail
<1>2. TailInv /\ FreshInv /\ [Next]_vars => FreshInv'
  BY NextFresh
<1>3. TailInv /\ FreshInv => NothingSkipped
  BY NoneSkipped
<1> QED BY <1>1, <1>2, <1>3, TailInvariance, PTL DEF Spec

\* The final save writes the offset where reading ended, when nothing was dropped.
LEMMA ExitSaves ==
  ASSUME TailInv, Exit, ~failed, ident # 0
  PROVE  disk'[ident].off = Off
<1>1. disk' = Records /\ queue = << >> /\ pc = "gone"
  BY DEF Exit
<1>2. ident \in Ids
  BY DEF TailInv, TypeOK
<1>3. disk'[ident].off = committed
  BY <1>1, <1>2 DEF Records
<1>4. DOMAIN Line = {} /\ Off = base
  <2>1. pend = NoEvent
    BY <1>1 DEF TailInv, Tailed
  <2>2. Off = base
    BY <2>1, OffIs DEF TailInv
  <2>3. slab = << >>
    BY <1>1 DEF TailInv, Tailed
  <2>4. DOMAIN Line = {}
    BY <1>1, <2>3, FreshTailer DEF Line
  <2> QED BY <2>2, <2>4
<1>5. committed \in Nat /\ base \in Nat /\ committed <= base
  BY Typed DEF TailInv, Tailed
<1>6. ~(committed < base)
  <2>1. SUFFICES ASSUME committed < base PROVE FALSE
    OBVIOUS
  <2>2. base \in committed + 1 .. base
    BY <1>5, <2>1
  <2> QED BY <1>4, <2>2 DEF TailInv, Queued, Waits
<1> QED BY <1>3, <1>4, <1>5, <1>6

\* A graceful stop that has delivered everything leaves the offset where reading
\* ended: the next run repeats nothing.
THEOREM StopsExactly == Spec => ExitIsExact
<1>1. TailInv /\ [Next]_vars => [Exit /\ ~failed /\ ident # 0 => disk'[ident].off = Off]_vars
  BY ExitSaves
<1> QED BY <1>1, TailInvariance, PTL DEF Spec, ExitIsExact
==============================================================================
