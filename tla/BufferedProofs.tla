---------------------------- MODULE BufferedProofs ----------------------------
(***************************************************************************)
(* Follow mode with the disk buffer loses nothing, for files of any        *)
(* length, any number of truncations, stops, crashes and faults, and any   *)
(* sizes of the buffer, the slab and the queue.                            *)
(*                                                                         *)
(* A checkpoint moves with the metadata of frames when they are fsynced.   *)
(* What has to be known for it: the frames of a run that are not yet noted *)
(* follow on the checkpoint without a gap, as long as they are of this     *)
(* generation; and a generation has frames of one content of the file.     *)
(*                                                                         *)
(* All this is so only if an emptied buffer is not opened with its cursor: *)
(* the step Start, and with it the theorems, assume ~ReopenDrained.  With  *)
(* ReopenDrained frames behind the cursor are never read, and NothingLost  *)
(* is false.                                                               *)
(***************************************************************************)
EXTENDS Buffered, DataFacts

Frame == [epoch : Nat, end : Nat, gen : Nat]
Owners == {"down", "running", "draining", "refusing", "stopped", "closed", "finished"}

Numbers ==
  /\ read \in Nat /\ upto \in Nat /\ base \in Nat /\ seen \in Nat
  /\ gen \in Nat /\ committed \in Nat
  /\ kept \in Nat /\ acked \in Nat /\ safe \in Nat /\ noted \in Nat /\ old \in Nat
  /\ handed \in Nat /\ pushed \in Nat /\ done \in Nat /\ batch \in Nat
  /\ tries \in Nat /\ rewrites \in Nat /\ downs \in Nat

Switches ==
  /\ server \in BOOLEAN /\ walDead \in BOOLEAN /\ claimed \in BOOLEAN /\ dirty \in BOOLEAN
  /\ refusing \in BOOLEAN /\ fatal \in BOOLEAN /\ sent \in BOOLEAN /\ failed \in BOOLEAN

BTypes ==
  /\ Numbers
  /\ Switches
  /\ path \in [epoch : Nat, len : Nat] /\ disk \in [off : Nat, epoch : Nat]
  /\ owner \in Owners /\ exit \in {-1, 0, 3}
  /\ pc \in {"tails", "drains", "gone"} /\ drainer \in {"reads", "gone"}
  /\ log \in Seq(Frame) /\ delivered \subseteq [epoch : Nat, end : Nat]

\* The marks on the log are in order; the cursor stands at done.
Ordered ==
  /\ kept <= done /\ done <= acked /\ acked <= safe /\ safe <= Len(log)
  /\ old <= noted /\ noted = safe
  /\ done + batch <= pushed /\ pushed <= handed /\ handed <= safe
  /\ sent => batch > 0

\* The worker's offsets are in order, and about content of the file that it has seen;
\* of content that is gone the file is too short to pass for the continuation.
Placed ==
  /\ committed <= base /\ base <= upto /\ upto <= read
  /\ ~claimed => read = 0 /\ Len(log) = old
  /\ seen <= path.epoch /\ disk.epoch <= path.epoch
  /\ up /\ claimed =>
       IF seen = path.epoch THEN read <= path.len
       ELSE \A off \in committed .. read : off = 0 \/ path.len < off
  /\ disk.epoch # path.epoch => disk.off = 0 \/ path.len < disk.off

\* Frame k is of the tailer's present generation.
Present(k) == log[k].gen = gen

\* The event with offset i is in a frame that waits for its fsync.
Waits(i) == \E j \in noted + 1 .. Len(log) : Present(j) /\ log[j].end = i

\* The frames of this run: a generation is about one content, and what waits for its
\* fsync follows on the checkpoint without a gap.
Framed ==
  /\ \A k \in old + 1 .. Len(log) :
       /\ log[k].gen <= gen /\ log[k].epoch <= seen
       /\ Present(k) <=> log[k].epoch = seen
       /\ Present(k) => log[k].end \in 1 .. base
  /\ \A k \in old + 1 .. noted : Present(k) => log[k].end <= committed
  /\ \A k \in noted + 1 .. Len(log) :
       Present(k) => \A i \in committed + 1 .. log[k].end : Waits(i)
  /\ ~walDead => \A i \in committed + 1 .. base : Waits(i)

\* What checkpoints, the cursor and the batcher pass over.
Kept ==
  /\ \A i \in 1 .. committed : Secured([epoch |-> seen, end |-> i])
  /\ \A i \in 1 .. disk.off : Secured([epoch |-> disk.epoch, end |-> i])
  /\ \A k \in 1 .. acked : Event(log[k]) \in delivered
  /\ sent => \A k \in done + 1 .. done + batch : Event(log[k]) \in delivered

\* The order of the shutdown, and what the exit code was given for.
Shut ==
  /\ owner \in {"refusing", "stopped", "closed", "finished"} => refusing
  /\ closed /\ ~fatal => safe = Len(log)
  /\ exit # -1 => ~up
  /\ exit = 3 => fatal
  /\ exit = 0 => ~fatal /\ safe = Len(log) /\ (claimed => disk = Record)

\* The inductive invariant of Buffered.
BInv == BTypes /\ Ordered /\ Placed /\ Framed /\ Kept /\ Shut

-----------------------------------------------------------------------------
(* Facts the steps have in common *)

\* Numbers, and the frames of the log.
LEMMA Typed ==
  ASSUME BTypes
  PROVE  /\ Numbers /\ Len(log) \in Nat
         /\ \A k \in 1 .. Len(log) : /\ log[k] \in Frame /\ log[k].end \in Nat
                                    /\ log[k].epoch \in Nat /\ log[k].gen \in Nat
<1>1. Len(log) \in Nat /\ \A k \in 1 .. Len(log) : log[k] \in Frame
  BY DEF BTypes
<1> QED BY <1>1 DEF BTypes, Frame

\* A number between two others (with primed ones the solvers do not see it).
LEMMA Above ==
  ASSUME NEW a \in Nat, NEW b \in Nat, NEW k \in Nat, a < k, k <= b
  PROVE  k \in a + 1 .. b
OBVIOUS

\* What is secured stays so: frames leave the log's safe part only by being confirmed.
LEMMA SecuredStays ==
  ASSUME BTypes, Ordered, BTypes', delivered \subseteq delivered',
         acked <= acked', safe <= safe',
         \A k \in 1 .. safe : log'[k] = log[k],
         \A k \in acked + 1 .. acked' : Event(log[k]) \in delivered',
         NEW ev, Secured(ev)
  PROVE  Secured(ev)'
<1>0. Numbers /\ Numbers'
  BY DEF BTypes
<1>1. CASE ev \in delivered
  BY <1>1 DEF Secured
<1>2. CASE \E k \in acked + 1 .. safe : Event(log[k]) = ev
  <2>1. PICK k \in acked + 1 .. safe : Event(log[k]) = ev
    BY <1>2
  <2>2. k \in 1 .. safe /\ log'[k] = log[k]
    BY <2>1, <1>0 DEF Numbers
  <2>3. CASE k <= acked'
    <3>1. k \in acked + 1 .. acked'
      BY <2>1, <2>3, <1>0 DEF Numbers
    <3>2. Event(log[k]) \in delivered'
      BY <3>1
    <3> QED BY <2>1, <3>2 DEF Secured
  <2>4. CASE acked' < k
    <3>1. k \in acked' + 1 .. safe'
      <4>1. k \in Nat /\ acked' \in Nat /\ safe' \in Nat /\ safe \in Nat /\ k <= safe
        BY <1>0, <2>1 DEF Numbers
      <4>2. k <= safe'
        BY <4>1
      <4> QED BY ONLY <4>1, <4>2, <2>4, Above
    <3>2. Event(log[k])' = ev
      BY <2>1, <2>2 DEF Event
    <3> QED BY <3>1, <3>2 DEF Secured, Event
  <2>5. k \in Nat /\ acked' \in Nat
    BY <1>0, <2>1 DEF Numbers
  <2> QED BY <2>3, <2>4, <2>5
<1> QED BY <1>1, <1>2 DEF Secured

\* Steps that touch neither the log nor what is safe to pass over.
LEMMA KeptStays ==
  ASSUME BTypes, Ordered, Kept, UNCHANGED <<log, acked, safe, committed, seen, disk>>,
         delivered \subseteq delivered',
         sent' => \A k \in done' + 1 .. done' + batch' : Event(log[k]) \in delivered'
  PROVE  Kept'
<1>1. \A ev : Secured(ev) => Secured(ev)'
  BY DEF Secured
<1> QED BY <1>1 DEF Kept, Event

\* fsync: the checkpoint moves to the last event of this generation that waited.
LEMMA Moves ==
  ASSUME BTypes, Ordered, Placed, Framed, Durable
  PROVE  /\ committed' \in Nat /\ committed <= committed' /\ committed' <= base
         /\ \A k \in noted + 1 .. Len(log) : Present(k) => log[k].end <= committed'
         /\ \A i \in committed + 1 .. committed' : Waits(i)
<1> DEFINE K == {k \in noted + 1 .. Len(log) : Fits(log[k])}
           S == {committed} \cup {log[k].end : k \in K}
<1>0. Numbers /\ Len(log) \in Nat /\ \A k \in 1 .. Len(log) : log[k].end \in Nat
  BY Typed
<1>1. committed' = Max(S)
  BY DEF Durable
<1>2. \A k \in noted + 1 .. Len(log) : k \in old + 1 .. Len(log) /\ log[k].end \in Nat
  BY <1>0 DEF Ordered, Numbers
<1>3. \A k \in K : log[k].end \in Nat /\ log[k].end <= base /\ Present(k)
  BY <1>2, <1>0 DEF Framed, Fits, Present, Numbers
<1>4. S \in SUBSET Nat /\ S # {} /\ \A x \in S : x <= base
  BY <1>3, <1>0 DEF Numbers, Placed
<1>5. base \in Nat
  BY <1>0 DEF Numbers
<1> HIDE DEF S
<1>6. Max(S) \in S /\ \A x \in S : x <= Max(S)
  BY <1>4, <1>5, MaxNat
<1> USE DEF S
<1>7. committed' \in Nat /\ committed <= committed' /\ committed' <= base
  BY <1>1, <1>4, <1>6
<1>8. ASSUME NEW k \in noted + 1 .. Len(log), Present(k)
      PROVE  log[k].end <= committed'
  <2>1. log[k].end \in Nat
    BY <1>2
  <2>2. CASE log[k].end > committed
    BY <1>1, <1>6, <1>8, <2>2 DEF Fits, Present
  <2>3. CASE ~(log[k].end > committed)
    BY <1>7, <2>1, <2>3, <1>0 DEF Numbers
  <2> QED BY <2>2, <2>3
<1>9. ASSUME NEW i \in committed + 1 .. committed'
      PROVE  Waits(i)
  <2>1. committed' # committed
    BY <1>7, <1>9, <1>0 DEF Numbers
  <2>2. PICK k \in K : committed' = log[k].end
    BY <1>1, <1>6, <2>1
  <2> QED BY <1>3, <1>9, <2>2 DEF Framed
<1> QED BY <1>7, <1>8, <1>9

\* What an fsync moves the checkpoint over is in the buffer.
LEMMA DurableKeeps ==
  ASSUME BTypes, Ordered, Placed, Framed, Kept, Durable, BTypes', kept' <= done,
         UNCHANGED <<log, old, acked, gen, claimed, read, upto, base, seen, walDead, disk,
                     drain, sink, delivered>>
  PROVE  Ordered' /\ Framed' /\ Kept'
<1>0. /\ kept \in Nat /\ acked \in Nat /\ safe \in Nat /\ noted \in Nat /\ old \in Nat
      /\ committed \in Nat /\ base \in Nat /\ Len(log) \in Nat
      /\ \A k \in 1 .. Len(log) : log[k].end \in Nat
      /\ done \in Nat /\ batch \in Nat /\ pushed \in Nat /\ handed \in Nat
  <2>1. Numbers /\ Len(log) \in Nat /\ \A k \in 1 .. Len(log) : log[k].end \in Nat
    BY Typed
  <2> QED BY <2>1 DEF Numbers
<1>1. PICK c \in Nat :
      /\ c = committed' /\ committed <= c /\ c <= base
      /\ \A k \in noted + 1 .. Len(log) : Present(k) => log[k].end <= c
      /\ \A i \in committed + 1 .. c : Waits(i)
  BY Moves
<1>6. committed <= c /\ c <= base
  BY <1>1
<1>2. safe' = Len(log) /\ noted' = Len(log) /\ safe <= Len(log)
  BY <1>0 DEF Durable, Ordered
<1>3. Ordered'
  <2>1. done' = done
    BY DEF sink
  <2> QED BY <1>0, <1>2, <2>1 DEF Ordered, drain, sink
<1>4. Framed'
  <2>1. \A k \in old + 1 .. Len(log) : Present(k) => log[k].end <= c
    <3>1. ASSUME NEW k \in old + 1 .. Len(log), Present(k) PROVE log[k].end <= c
      <4>1. CASE k \in old + 1 .. noted
        <5>1. log[k].end <= committed
          BY <3>1, <4>1 DEF Framed
        <5>2. k \in 1 .. Len(log)
          BY <3>1, <1>0
        <5>3. log[k].end \in Nat
          BY <5>2, <1>0
        <5> QED BY <1>0, <1>1, <5>1, <5>3
      <4>2. CASE k \in noted + 1 .. Len(log)
        BY <1>1, <3>1, <4>2
      <4> QED BY <1>0, <4>1, <4>2
    <3> QED BY <3>1
  <2>2. Len(log) + 1 .. Len(log) = {}
    BY <1>0
  <2>3. \A k : Present(k)' <=> Present(k)
    BY DEF Present
  <2>4. ~walDead => c + 1 .. base = {}
    <3>1. SUFFICES ASSUME ~walDead, NEW i \in c + 1 .. base PROVE FALSE
      OBVIOUS
    <3>2. i \in committed + 1 .. base /\ ~(i <= c)
      BY <1>0, <1>6, <3>1
    <3>3. Waits(i)
      BY <3>1, <3>2 DEF Framed
    <3>4. PICK j \in noted + 1 .. Len(log) : Present(j) /\ log[j].end = i
      BY <3>3 DEF Waits
    <3> QED BY <1>1, <3>2, <3>4
  <2> QED BY <1>1, <1>2, <2>1, <2>2, <2>3, <2>4 DEF Framed
<1>5. Kept'
  <2>1. \A ev : Secured(ev) => Secured(ev)'
    BY <1>0, <1>2, SecuredStays
  <2>2. ASSUME NEW i \in 1 .. c PROVE Secured([epoch |-> seen, end |-> i])'
    <3>1. CASE i <= committed
      BY <1>0, <2>1, <3>1 DEF Kept
    <3>2. CASE ~(i <= committed)
      <4>1. PICK j \in noted + 1 .. Len(log) : Present(j) /\ log[j].end = i
        BY <1>0, <1>1, <3>2 DEF Waits
      <4>2. j \in old + 1 .. Len(log) /\ j \in acked + 1 .. Len(log)
        BY <1>0, <1>2, <4>1 DEF Ordered
      <4>3. Event(log[j]) = [epoch |-> seen, end |-> i]
        BY <4>1, <4>2 DEF Framed, Event
      <4> QED BY <1>2, <4>2, <4>3 DEF Secured, Event
    <3> QED BY <3>1, <3>2
  <2> QED BY <1>1, <1>2, <2>1, <2>2 DEF Kept, Event, sink, Secured
<1> QED BY <1>3, <1>4, <1>5

-----------------------------------------------------------------------------
(* Parts that a step leaves alone *)

\* Steps that touch neither the marks nor the batch.
LEMMA OrderedStays ==
  ASSUME Ordered, UNCHANGED <<log, kept, acked, safe, noted, old, drain, sink>>
  PROVE  Ordered'
BY DEF Ordered, drain, sink

\* Steps that touch neither the worker's offsets nor the log.
LEMMA FramedStays ==
  ASSUME Framed, UNCHANGED <<log, noted, old, gen, committed, seen, base, walDead>>
  PROVE  Framed'
BY DEF Framed, Present, Waits

\* Steps that touch neither the file, nor the offsets, nor checkpoints.json.
LEMMA PlacedStays ==
  ASSUME Placed, UNCHANGED <<path, log, old, read, upto, base, seen, claimed, committed, disk>>,
         up' => up
  PROVE  Placed'
BY DEF Placed

\* Steps of a process that runs and keeps the order of the shutdown.
LEMMA ShutStays ==
  ASSUME Shut, up, owner' = owner, exit' = exit, refusing' = refusing,
         closed /\ ~fatal' => safe' = Len(log')
  PROVE  Shut'
BY DEF Shut, up, closed

-----------------------------------------------------------------------------
(* 1C and the network *)

\* The file gets another event: content that is gone stays out of its reach.
LEMMA GrowStep ==
  ASSUME BInv, Grow
  PROVE  BInv'
<1> USE DEF world, tailer, registry, marks, buffer, drain, sink, run
<1>1. BTypes'
  <2>1. path' \in [epoch : Nat, len : Nat]
    BY DEF BInv, BTypes, Grow
  <2> QED BY <2>1 DEF BInv, Grow, BTypes, Numbers, Switches
<1>2. Ordered' /\ Framed' /\ Kept'
  BY OrderedStays, FramedStays, KeptStays DEF BInv, Grow, Kept
<1>3. Placed'
  <2>1. path.len \in Nat /\ path'.len = path.len + 1 /\ path'.epoch = path.epoch
    BY DEF BInv, BTypes, Grow
  <2>2. ASSUME up, claimed, seen # path.epoch
        PROVE  \A off \in committed .. read : off = 0 \/ path'.len < off
    <3> TAKE off \in committed .. read
    <3>1. off \notin 1 .. path.len + 1
      BY <2>2 DEF Grow, Outdated
    <3>2. off \in Nat
      BY DEF BInv, BTypes, Numbers
    <3> QED BY <2>1, <3>1, <3>2
  <2>3. ASSUME disk.epoch # path.epoch
        PROVE  disk.off = 0 \/ path'.len < disk.off
    <3>1. disk.off \notin 1 .. path.len + 1
      BY <2>3 DEF Grow, Outdated
    <3>2. disk.off \in Nat
      BY DEF BInv, BTypes
    <3> QED BY <2>1, <3>1, <3>2
  <2>4. seen = path.epoch /\ up /\ claimed => read <= path'.len
    BY <2>1 DEF BInv, Placed, BTypes, Numbers
  <2> QED BY <2>1, <2>2, <2>3, <2>4 DEF BInv, Placed, Grow, up
<1>4. Shut'
  BY DEF BInv, Grow, Shut, Record, up, closed
<1> QED BY <1>1, <1>2, <1>3, <1>4 DEF BInv

\* The file is truncated: all offsets but 0 are beyond its end.
LEMMA TruncateStep ==
  ASSUME BInv, Truncate
  PROVE  BInv'
<1> USE DEF world, tailer, registry, marks, buffer, drain, sink, run
<1>1. BTypes'
  BY DEF BInv, Truncate, BTypes, Numbers, Switches
<1>2. Ordered' /\ Framed' /\ Kept'
  BY OrderedStays, FramedStays, KeptStays DEF BInv, Truncate, Kept
<1>3. Placed'
  <2>1. path.epoch \in Nat /\ path'.len = 0 /\ path'.epoch = path.epoch + 1
    BY DEF BInv, BTypes, Truncate
  <2>2. seen # path'.epoch /\ seen <= path'.epoch /\ disk.epoch <= path'.epoch
    BY <2>1 DEF BInv, BTypes, Numbers, Placed
  <2>3. \A off \in committed .. read : off = 0 \/ path'.len < off
    BY <2>1 DEF BInv, BTypes, Numbers
  <2>4. disk.off = 0 \/ path'.len < disk.off
    BY <2>1 DEF BInv, BTypes
  <2> QED BY <2>2, <2>3, <2>4 DEF BInv, Placed, Truncate, up
<1>4. Shut'
  BY DEF BInv, Truncate, Shut, Record, up, closed
<1> QED BY <1>1, <1>2, <1>3, <1>4 DEF BInv

\* ClickHouse comes and goes.
LEMMA NetworkStep ==
  ASSUME BInv, Network
  PROVE  BInv'
<1> USE DEF world, tailer, registry, marks, buffer, drain, sink, run
<1>1. BTypes'
  BY DEF BInv, Network, BTypes, Numbers, Switches
<1>2. Ordered' /\ Framed' /\ Kept'
  BY OrderedStays, FramedStays, KeptStays DEF BInv, Network, Kept
<1>3. Placed' /\ Shut'
  BY DEF BInv, Network, Placed, Shut, Record, up, closed
<1> QED BY <1>1, <1>2, <1>3 DEF BInv

-----------------------------------------------------------------------------
(* The worker *)

\* A new generation: its number and its content are newer than those of all frames.
LEMMA ResetStep ==
  ASSUME BInv, Reset
  PROVE  BInv'
<1> USE DEF world, tailer, registry, marks, buffer, drain, sink, run
<1>1. /\ seen \in Nat /\ gen \in Nat /\ read \in Nat /\ path.epoch \in Nat /\ path.len \in Nat
      /\ Len(log) \in Nat /\ old \in Nat
      /\ \A k \in 1 .. Len(log) : log[k].gen \in Nat /\ log[k].epoch \in Nat
  BY Typed DEF BInv, BTypes, Numbers
<1>2. BTypes'
  BY <1>1 DEF BInv, Reset, BTypes, Numbers, Switches
<1>3. Ordered'
  BY OrderedStays DEF BInv, Reset
<1>4. seen < path.epoch
  BY <1>1 DEF BInv, Placed, Reset, Between
<1>5. Placed'
  BY <1>1 DEF BInv, Placed, Reset, Between
<1>6. Framed'
  <2>1. ASSUME NEW k \in old + 1 .. Len(log)
        PROVE  log[k].gen < gen' /\ log[k].epoch < seen'
    <3>1. log[k].gen <= gen /\ log[k].epoch <= seen
      BY DEF BInv, Framed
    <3> QED BY <1>1, <1>4, <3>1 DEF Reset
  <2>2. ASSUME NEW k \in old + 1 .. Len(log)
        PROVE  log[k].gen <= gen' /\ log[k].epoch <= seen' /\ ~Present(k)' /\ log[k].epoch # seen'
    <3>1. log[k].gen \in Nat /\ log[k].epoch \in Nat
      BY <1>1
    <3>2. gen' \in Nat /\ seen' \in Nat
      BY <1>1 DEF Reset
    <3> QED BY <2>1, <3>1, <3>2 DEF Present, Reset
  <2>3. noted + 1 .. Len(log) \subseteq old + 1 .. Len(log)
    BY <1>1 DEF BInv, Ordered, BTypes, Numbers
  <2>4. old + 1 .. noted \subseteq old + 1 .. Len(log)
    BY <1>1 DEF BInv, Ordered, BTypes, Numbers
  <2> QED BY <2>2, <2>3, <2>4 DEF Framed, Reset
<1>7. Kept'
  BY <1>1 DEF BInv, Kept, Reset, Secured
<1>8. Shut'
  BY ShutStays DEF BInv, Reset, Between, Shut
<1> QED BY <1>2, <1>3, <1>5, <1>6, <1>7, <1>8 DEF BInv

\* The first open: this run has no frame yet, and the record is about this content or
\* about none.
LEMMA ClaimStep ==
  ASSUME BInv, Claim
  PROVE  BInv'
<1> USE DEF world, tailer, registry, marks, buffer, drain, sink, run
<1>1. /\ gen \in Nat /\ path.epoch \in Nat /\ path.len \in Nat /\ Len(log) \in Nat
      /\ disk.off \in Nat /\ disk.epoch \in Nat /\ old \in Nat /\ noted \in Nat
  BY Typed DEF BInv, BTypes, Numbers
<1>2. PICK c \in Nat : c = committed'
  BY <1>1 DEF Claim
<1>3. c \in {0, disk.off} /\ c <= path.len /\ (c = 0 \/ disk.epoch = path.epoch)
  BY <1>1, <1>2 DEF BInv, Placed, Claim
<1>4. BTypes'
  BY <1>1, <1>2 DEF BInv, Claim, BTypes, Numbers, Switches
<1>5. Ordered'
  BY OrderedStays DEF BInv, Claim
<1>6. Placed'
  BY <1>1, <1>2, <1>3 DEF BInv, Placed, Claim
<1>7. Len(log) = old /\ old = noted
  BY <1>1 DEF BInv, Placed, Claim, Ordered
<1>8. Framed'
  <2>1. old + 1 .. Len(log) = {} /\ noted + 1 .. Len(log) = {} /\ old + 1 .. noted = {}
    BY <1>1, <1>7
  <2>2. c + 1 .. c = {}
    OBVIOUS
  <2> QED BY <1>2, <2>1, <2>2 DEF Framed, Claim
<1>9. Kept'
  <2>1. \A i \in 1 .. c : Secured([epoch |-> seen', end |-> i])
    BY <1>1, <1>3 DEF BInv, Kept, Claim
  <2>2. \A ev : Secured(ev)' <=> Secured(ev)
    BY DEF Secured, Event, Claim
  <2> QED BY <1>2, <2>1, <2>2 DEF BInv, Kept, Claim, Event
<1>10. Shut'
  BY ShutStays DEF BInv, Claim, Between, Shut
<1> QED BY <1>4, <1>5, <1>6, <1>8, <1>9, <1>10 DEF BInv

\* The file is read: content that was not seen before starts at 0, with no frame of it.
LEMMA ReadStep ==
  ASSUME BInv, Read
  PROVE  BInv'
<1> USE DEF world, tailer, registry, marks, buffer, drain, sink, run
<1>1. /\ read \in Nat /\ base \in Nat /\ upto \in Nat /\ committed \in Nat /\ seen \in Nat
      /\ path.epoch \in Nat /\ path.len \in Nat /\ old \in Nat /\ noted \in Nat
      /\ Len(log) \in Nat
      /\ \A k \in 1 .. Len(log) : log[k].end \in Nat /\ log[k].epoch \in Nat
  BY Typed DEF BInv, BTypes, Numbers
<1>2. BTypes'
  BY <1>1 DEF BInv, Read, BTypes, Numbers, Switches
<1>3. Ordered'
  BY OrderedStays DEF BInv, Read
<1>4. committed <= base /\ base <= upto /\ upto <= read /\ read < path.len /\ seen <= path.epoch
  BY <1>1 DEF BInv, Placed, Read, Between
<1>5. Placed'
  BY <1>1, <1>4 DEF BInv, Placed, Read, Between
<1>6. CASE seen = path.epoch
  <2>1. Framed' /\ Kept'
    BY <1>6, FramedStays, KeptStays DEF BInv, Read, Kept
  <2> QED BY <1>2, <1>3, <1>5, <2>1, ShutStays DEF BInv, Read, Between, Shut
<1>7. CASE seen # path.epoch
  <2>1. read = 0
    <3>1. read \in committed .. read
      BY <1>1, <1>4
    <3>2. read = 0 \/ path.len < read
      BY <1>7, <3>1 DEF BInv, Placed, Read, Between
    <3> QED BY <1>1, <1>4, <3>2
  <2>2. base = 0 /\ committed = 0
    BY <1>1, <1>4, <2>1
  <2>3. ASSUME NEW k \in old + 1 .. Len(log)
        PROVE  /\ log[k].gen <= gen /\ log[k].epoch <= path.epoch
               /\ ~Present(k) /\ log[k].epoch # path.epoch
    <3>1. k \in 1 .. Len(log)
      BY <1>1
    <3>2. log[k].gen <= gen /\ log[k].epoch <= seen
      BY DEF BInv, Framed
    <3>3. ~Present(k)
      BY <2>2 DEF BInv, Framed
    <3> QED BY <1>1, <1>4, <1>7, <3>1, <3>2, <3>3
  <2>4. /\ old + 1 .. noted \subseteq old + 1 .. Len(log)
        /\ noted + 1 .. Len(log) \subseteq old + 1 .. Len(log)
    BY <1>1 DEF BInv, Ordered, BTypes, Numbers
  <2>5. Framed'
    BY <2>2, <2>3, <2>4 DEF Framed, Present, Read
  <2>6. Kept'
    BY <2>2 DEF BInv, Kept, Read, Secured
  <2> QED BY <1>2, <1>3, <1>5, <2>5, <2>6, ShutStays DEF BInv, Read, Between, Shut
<1> QED BY <1>6, <1>7

\* The idle timer closes the last event.
LEMMA IdleCloseStep ==
  ASSUME BInv, IdleClose
  PROVE  BInv'
<1> USE DEF world, tailer, registry, marks, buffer, drain, sink, run
<1>1. BTypes'
  BY DEF BInv, IdleClose, BTypes, Numbers, Switches
<1>2. Ordered' /\ Framed' /\ Kept'
  BY OrderedStays, FramedStays, KeptStays DEF BInv, IdleClose, Kept
<1>3. Placed'
  BY DEF BInv, IdleClose, Between, Placed, BTypes, Numbers
<1>4. Shut'
  BY ShutStays DEF BInv, IdleClose, Between, Shut
<1> QED BY <1>1, <1>2, <1>3, <1>4 DEF BInv

\* A frame is appended: it waits for its fsync, as do those before it back to the
\* checkpoint.
LEMMA AppendFrameStep ==
  ASSUME BInv, AppendFrame
  PROVE  BInv'
<1> USE DEF world, tailer, registry, marks, buffer, drain, sink, run
<1> DEFINE frame == [epoch |-> seen, end |-> base + 1, gen |-> gen]
           n == Len(log)
<1>1. /\ read \in Nat /\ base \in Nat /\ upto \in Nat /\ committed \in Nat /\ seen \in Nat
      /\ gen \in Nat /\ old \in Nat /\ noted \in Nat /\ acked \in Nat /\ safe \in Nat
      /\ n \in Nat /\ log \in Seq(Frame) /\ frame \in Frame
      /\ \A k \in 1 .. n : log[k].end \in Nat
  BY Typed DEF BInv, BTypes, Numbers, Frame
<1>2. /\ log' = Append(log, frame) /\ log' \in Seq(Frame) /\ Len(log') = n + 1
      /\ \A k \in 1 .. n : log'[k] = log[k]
      /\ log'[n + 1] = frame
  BY <1>1 DEF AppendFrame
<1> HIDE DEF n
<1>3. old <= noted /\ noted = safe /\ acked <= safe /\ safe <= n
  BY DEF BInv, Ordered, n
<1>4. BTypes'
  BY <1>1, <1>2 DEF BInv, AppendFrame, BTypes, Numbers, Switches
<1>5. Ordered'
  BY <1>1, <1>2, <1>3 DEF BInv, Ordered, AppendFrame
<1>6. claimed /\ committed <= base /\ base < upto /\ upto <= read
  BY <1>1 DEF BInv, Placed, AppendFrame
<1>7. Placed'
  BY <1>1, <1>6 DEF BInv, Placed, AppendFrame
<1>8. \A k \in 1 .. n : Present(k)' <=> Present(k)
  BY <1>2 DEF Present, AppendFrame
<1>9. \A i : Waits(i) => Waits(i)'
  <2>1. SUFFICES ASSUME NEW i, Waits(i) PROVE Waits(i)'
    OBVIOUS
  <2>2. PICK j \in noted + 1 .. n : Present(j) /\ log[j].end = i
    BY <2>1 DEF Waits, n
  <2>3. j \in 1 .. n /\ j \in noted + 1 .. n + 1
    BY <1>1, <2>2
  <2> QED BY <1>2, <1>8, <2>2, <2>3 DEF Waits, AppendFrame
<1>10. \A i : i = base + 1 => Waits(i)'
  <2>1. n + 1 \in noted + 1 .. n + 1
    BY <1>1, <1>3
  <2> QED BY <1>2, <2>1 DEF Waits, Present, AppendFrame
<1>11. \A i \in committed + 1 .. base + 1 : Waits(i)'
  <2>1. ~walDead => \A i \in committed + 1 .. base : Waits(i)
    BY DEF BInv, Framed
  <2> TAKE i \in committed + 1 .. base + 1
  <2>2. i = base + 1 \/ i \in committed + 1 .. base
    BY <1>1
  <2> QED BY <1>9, <1>10, <2>1, <2>2 DEF AppendFrame
<1>12. ASSUME NEW k \in old + 1 .. n + 1
       PROVE  /\ log'[k].gen <= gen /\ log'[k].epoch <= seen
              /\ Present(k)' <=> log'[k].epoch = seen
              /\ Present(k)' => log'[k].end \in 1 .. base + 1
  <2>1. CASE k = n + 1
    BY <1>1, <1>2, <2>1 DEF Present, AppendFrame
  <2>2. CASE k # n + 1
    <3>1. k \in old + 1 .. n /\ k \in 1 .. n
      BY <1>1, <2>2
    <3>2. /\ log[k].gen <= gen /\ log[k].epoch <= seen
          /\ Present(k) <=> log[k].epoch = seen
          /\ Present(k) => log[k].end \in 1 .. base
      BY <3>1 DEF BInv, Framed, n
    <3> QED BY <1>1, <1>2, <1>8, <3>1, <3>2
  <2> QED BY <2>1, <2>2
<1>13. ASSUME NEW k \in old + 1 .. noted, Present(k)'
       PROVE  log'[k].end <= committed
  <2>1. k \in 1 .. n
    BY <1>1, <1>3
  <2> QED BY <1>2, <1>8, <1>13, <2>1 DEF BInv, Framed
<1>14. ASSUME NEW k \in noted + 1 .. n + 1, Present(k)',
              NEW i \in committed + 1 .. log'[k].end
       PROVE  Waits(i)'
  <2>1. CASE k = n + 1
    BY <1>2, <1>11, <1>14, <2>1
  <2>2. CASE k # n + 1
    <3>1. k \in noted + 1 .. n /\ k \in 1 .. n
      BY <1>1, <2>2
    <3> QED BY <1>2, <1>8, <1>9, <1>14, <3>1 DEF BInv, Framed, n
  <2> QED BY <2>1, <2>2
<1>15. Framed'
  BY <1>2, <1>11, <1>12, <1>13, <1>14 DEF Framed, AppendFrame
<1>16. Kept'
  <2>1. \A k \in 1 .. safe : log'[k] = log[k] /\ Event(log[k])' = Event(log[k])
    BY <1>1, <1>2, <1>3 DEF Event
  <2>2. ASSUME NEW ev, Secured(ev) PROVE Secured(ev)'
    <3>1. acked + 1 .. safe \subseteq 1 .. safe
      BY <1>1
    <3> QED BY <2>1, <2>2, <3>1 DEF Secured, Event, AppendFrame
  <2>3. \A k \in 1 .. acked : k \in 1 .. safe
    BY <1>1, <1>3
  <2>4. \A k \in done + 1 .. done + batch : k \in 1 .. safe
    BY <1>1, <1>3 DEF BInv, BTypes, Numbers, Ordered
  <2> QED BY <2>1, <2>2, <2>3, <2>4 DEF BInv, Kept, AppendFrame, Event
<1>17. Shut'
  BY ShutStays DEF BInv, AppendFrame, closed, Shut
<1> QED BY <1>4, <1>5, <1>7, <1>15, <1>16, <1>17 DEF BInv

\* Nothing is appended any more: the frames that are there are about what was read.
LEMMA AppendFailsStep ==
  ASSUME BInv, AppendFails
  PROVE  BInv'
<1> USE DEF world, tailer, registry, marks, buffer, drain, sink, run
<1>1. BTypes'
  BY DEF BInv, AppendFails, BTypes, Numbers, Switches
<1>2. Ordered' /\ Kept'
  BY OrderedStays, KeptStays DEF BInv, AppendFails, Kept
<1>3. Placed'
  BY DEF BInv, AppendFails, Placed, BTypes, Numbers
<1>4. Framed'
  <2>1. 1 .. base \subseteq 1 .. base'
    BY DEF BInv, AppendFails, BTypes, Numbers
  <2> QED BY <2>1 DEF BInv, AppendFails, Framed, Present, Waits
<1>5. Shut'
  BY ShutStays DEF BInv, AppendFails, Shut
<1> QED BY <1>1, <1>2, <1>3, <1>4, <1>5 DEF BInv

\* The last event is emitted, or dropped when nothing is appended any more.
LEMMA DrainAllStep ==
  ASSUME BInv, DrainAll
  PROVE  BInv'
<1> USE DEF world, tailer, registry, marks, buffer, drain, sink, run
<1>1. BTypes'
  BY DEF BInv, DrainAll, BTypes, Numbers, Switches
<1>2. Ordered' /\ Kept'
  BY OrderedStays, KeptStays DEF BInv, DrainAll, Kept
<1>3. Placed'
  BY DEF BInv, DrainAll, Placed, BTypes, Numbers
<1>4. Framed'
  <2>1. 1 .. base \subseteq 1 .. base' /\ (~walDead => base' = base)
    BY DEF BInv, DrainAll, Placed, BTypes, Numbers
  <2> QED BY <2>1 DEF BInv, DrainAll, Framed, Present, Waits
<1>5. Shut'
  BY ShutStays DEF BInv, DrainAll, Shut
<1> QED BY <1>1, <1>2, <1>3, <1>4, <1>5 DEF BInv

\* The worker ends.
LEMMA WorkerGoneStep ==
  ASSUME BInv, WorkerGone
  PROVE  BInv'
<1> USE DEF world, tailer, registry, marks, buffer, drain, sink, run
<1>1. BTypes'
  BY DEF BInv, WorkerGone, BTypes, Numbers, Switches
<1>2. Ordered' /\ Framed' /\ Kept'
  BY OrderedStays, FramedStays, KeptStays DEF BInv, WorkerGone, Kept
<1>3. Placed' /\ Shut'
  BY PlacedStays, ShutStays DEF BInv, WorkerGone, Shut
<1> QED BY <1>1, <1>2, <1>3 DEF BInv

-----------------------------------------------------------------------------
(* fsync, faults, checkpoints.json *)

\* The checkpoint moves over what waited, and not past the worker's offsets.
LEMMA SyncStep ==
  ASSUME BInv, Sync
  PROVE  BInv'
<1> USE DEF world, tailer, registry, marks, buffer, drain, sink, run
<1>1. /\ committed' \in Nat /\ committed <= committed' /\ committed' <= base
      /\ committed \in Nat /\ read \in Nat /\ Len(log) \in Nat
  BY Moves, Typed DEF BInv, Sync, Numbers
<1>2. BTypes'
  BY <1>1 DEF BInv, Sync, Durable, BTypes, Numbers, Switches
<1>3. Ordered' /\ Framed' /\ Kept'
  <2>1. kept' <= done
    BY DEF BInv, Sync, Ordered
  <2> QED BY <1>2, <2>1, DurableKeeps DEF BInv, Sync
<1>4. committed' .. read \subseteq committed .. read
  <2>1. PICK c \in Nat : c = committed' /\ committed <= c
    BY <1>1
  <2>2. c .. read \subseteq committed .. read
    BY <1>1, <2>1
  <2> QED BY <2>1, <2>2
<1>5. Placed'
  BY <1>1, <1>4 DEF BInv, Sync, Placed, up
<1>6. Shut'
  BY ShutStays DEF BInv, Sync, closed, Shut
<1> QED BY <1>2, <1>3, <1>5, <1>6 DEF BInv

\* The buffer fails.
LEMMA FaultStep ==
  ASSUME BInv, Fault
  PROVE  BInv'
<1> USE DEF world, tailer, registry, marks, buffer, drain, sink, run
<1>1. BTypes'
  BY DEF BInv, Fault, BTypes, Numbers, Switches
<1>2. Ordered' /\ Framed' /\ Kept'
  BY OrderedStays, FramedStays, KeptStays DEF BInv, Fault, Kept
<1>3. Placed' /\ Shut'
  BY PlacedStays, ShutStays DEF BInv, Fault, Shut
<1> QED BY <1>1, <1>2, <1>3 DEF BInv

\* A record that is written anew: what it passes over is what the checkpoint did.
LEMMA RecordKept ==
  ASSUME BTypes, Placed, Kept, up, claimed
  PROVE  /\ Record.epoch <= path.epoch
         /\ Record.epoch # path.epoch => Record.off = 0 \/ path.len < Record.off
         /\ \A i \in 1 .. Record.off : Secured([epoch |-> Record.epoch, end |-> i])
<1>1. Record.off = committed /\ Record.epoch = seen
  BY DEF Record
<1>2. committed \in committed .. read
  BY DEF BTypes, Numbers, Placed
<1> QED BY <1>1, <1>2 DEF Placed, Kept

\* The registry is saved.
LEMMA SaveStep ==
  ASSUME BInv, Save
  PROVE  BInv'
<1> USE DEF world, tailer, registry, marks, buffer, drain, sink, run
<1>1. Record \in [off : Nat, epoch : Nat]
  BY DEF BInv, BTypes, Numbers, Record
<1>2. BTypes'
  BY <1>1 DEF BInv, Save, BTypes, Numbers, Switches
<1>3. Ordered' /\ Framed'
  BY OrderedStays, FramedStays DEF BInv, Save
<1>4. Placed'
  BY RecordKept DEF BInv, Save, Placed, up
<1>5. Kept'
  BY RecordKept DEF BInv, Save, Kept, Secured, Event
<1>6. Shut'
  BY ShutStays DEF BInv, Save, Shut, closed
<1> QED BY <1>2, <1>3, <1>4, <1>5, <1>6 DEF BInv

-----------------------------------------------------------------------------
(* The drainer and the batcher *)

\* The next safe frame goes to the slab.
LEMMA TakeStep ==
  ASSUME BInv, Take
  PROVE  BInv'
<1> USE DEF world, tailer, registry, marks, buffer, drain, sink, run
<1>1. BTypes'
  BY DEF BInv, Take, BTypes, Numbers, Switches
<1>2. Ordered'
  BY DEF BInv, Take, Ordered, BTypes, Numbers
<1>3. Framed' /\ Kept'
  BY <1>2, FramedStays, KeptStays DEF BInv, Take, Kept, Ordered
<1>4. Placed' /\ Shut'
  BY PlacedStays, ShutStays DEF BInv, Take, Shut
<1> QED BY <1>1, <1>2, <1>3, <1>4 DEF BInv

\* The slab goes to the batcher.
LEMMA PushStep ==
  ASSUME BInv, Push
  PROVE  BInv'
<1> USE DEF world, tailer, registry, marks, buffer, drain, sink, run
<1>1. BTypes'
  BY DEF BInv, Push, BTypes, Numbers, Switches
<1>2. Ordered'
  BY DEF BInv, Push, Ordered, BTypes, Numbers
<1>3. Framed' /\ Kept'
  BY <1>2, FramedStays, KeptStays DEF BInv, Push, Kept, Ordered
<1>4. Placed' /\ Shut'
  BY PlacedStays, ShutStays DEF BInv, Push, Shut
<1> QED BY <1>1, <1>2, <1>3, <1>4 DEF BInv

\* A batch of what was pushed.
LEMMA CollectStep ==
  ASSUME BInv, Collect
  PROVE  BInv'
<1> USE DEF world, tailer, registry, marks, buffer, drain, sink, run
<1>1. BTypes'
  BY DEF BInv, Collect, BTypes, Numbers, Switches
<1>2. Ordered'
  <2>1. done \in Nat /\ pushed \in Nat
    BY DEF BInv, BTypes, Numbers
  <2>2. PICK b \in 1 .. pushed - done : batch' = b
    BY DEF Collect
  <2>3. done + b <= pushed /\ b > 0
    BY <2>1, <2>2
  <2> QED BY <2>2, <2>3 DEF BInv, Collect, Ordered
<1>3. Framed' /\ Kept'
  BY <1>2, FramedStays, KeptStays DEF BInv, Collect, Kept, Ordered
<1>4. Placed' /\ Shut'
  BY PlacedStays, ShutStays DEF BInv, Collect, Shut
<1> QED BY <1>1, <1>2, <1>3, <1>4 DEF BInv

\* The drainer ends.
LEMMA LeaveStep ==
  ASSUME BInv, Leave
  PROVE  BInv'
<1> USE DEF world, tailer, registry, marks, buffer, drain, sink, run
<1>1. BTypes'
  BY DEF BInv, Leave, BTypes, Numbers, Switches
<1>2. Ordered' /\ Framed' /\ Kept'
  BY FramedStays, KeptStays DEF BInv, Leave, Kept, Ordered
<1>3. Placed' /\ Shut'
  BY PlacedStays, ShutStays DEF BInv, Leave, Shut
<1> QED BY <1>1, <1>2, <1>3 DEF BInv

\* What a batch that is being sent adds to ClickHouse.
LEMMA AppliedIs ==
  ASSUME BTypes, Ordered
  PROVE  /\ delivered \subseteq Applied /\ Applied \subseteq [epoch : Nat, end : Nat]
         /\ \A k \in done + 1 .. done + batch : Event(log[k]) \in Applied
<1>1. \A k \in 1 .. Len(log) : log[k].epoch \in Nat /\ log[k].end \in Nat
  BY Typed
<1>2. done + 1 .. done + batch \subseteq 1 .. Len(log)
  BY Typed DEF BTypes, Numbers, Ordered
<1>3. \A k \in done + 1 .. done + batch : Event(log[k]) \in [epoch : Nat, end : Nat]
  BY <1>1, <1>2 DEF Event
<1> QED BY <1>3 DEF Applied, BTypes

\* A batch is in ClickHouse.
LEMMA SendOkStep ==
  ASSUME BInv, SendOk
  PROVE  BInv'
<1> USE DEF world, tailer, registry, marks, buffer, drain, sink, run
<1>1. /\ delivered \subseteq delivered' /\ delivered' \subseteq [epoch : Nat, end : Nat]
      /\ \A k \in done + 1 .. done + batch : Event(log[k]) \in delivered'
  BY AppliedIs DEF BInv, SendOk
<1>2. BTypes'
  BY <1>1 DEF BInv, SendOk, BTypes, Numbers, Switches
<1>3. Ordered'
  BY DEF BInv, SendOk, Ordered
<1>4. Framed' /\ Kept'
  BY <1>1, FramedStays, KeptStays DEF BInv, SendOk
<1>5. Placed' /\ Shut'
  BY PlacedStays, ShutStays DEF BInv, SendOk, Shut
<1> QED BY <1>2, <1>3, <1>4, <1>5 DEF BInv

\* A batch failed, but may be there; or it is given up.
LEMMA SendFailsStep ==
  ASSUME BInv, SendFails
  PROVE  BInv'
<1> USE DEF world, tailer, registry, marks, buffer, drain, sink, run
<1>1. delivered \subseteq delivered' /\ delivered' \subseteq [epoch : Nat, end : Nat]
  BY AppliedIs DEF BInv, SendFails, BTypes
<1>2. /\ failed' \in BOOLEAN /\ server' \in BOOLEAN
      /\ tries' \in Nat /\ batch' \in {0, batch}
  <2>1. failed' = TRUE \/ failed' = FALSE
    BY Zenon DEF SendFails
  <2>2. tries' \in Nat /\ server' = FALSE /\ batch' \in {0, batch}
    BY DEF BInv, SendFails, BTypes, Numbers
  <2> QED BY <2>1, <2>2
<1>3. BTypes'
  BY <1>1, <1>2 DEF BInv, SendFails, BTypes, Numbers, Switches
<1>4. Ordered'
  BY <1>2 DEF BInv, SendFails, Ordered, BTypes, Numbers
<1>5. Framed' /\ Kept'
  BY <1>1, FramedStays, KeptStays DEF BInv, SendFails
<1>6. Placed' /\ Shut'
  BY PlacedStays, ShutStays DEF BInv, SendFails, Shut
<1> QED BY <1>3, <1>4, <1>5, <1>6 DEF BInv

\* A reap stays between the frames it finds and the cursor.
LEMMA Reaps ==
  ASSUME BTypes, NEW d \in Nat, kept <= d, d <= Len(log), NEW all, Reap(d, all)
  PROVE  kept' \in Nat /\ kept <= kept' /\ kept' <= d
<1>1. kept \in Nat /\ Len(log) \in Nat
  BY Typed DEF Numbers
<1>2. CASE all /\ d >= Len(log)
  <2>1. kept' = Len(log) /\ d = Len(log)
    BY <1>1, <1>2 DEF Reap
  <2> QED BY <1>1, <2>1
<1>3. CASE ~(all /\ d >= Len(log))
  <2>1. kept' \in {k \in kept .. d : d - k <= Slack}
    BY <1>3 DEF Reap
  <2> QED BY <1>1, <2>1
<1> QED BY <1>2, <1>3

\* How the marks move when a batch is confirmed.
LEMMA AckMoves ==
  ASSUME BTypes, Ordered, Ack
  PROVE  \E d \in Nat, a \in Nat :
           /\ d = done' /\ d = done + batch /\ a = acked' /\ acked <= a /\ d <= a
           /\ (a = acked \/ a = d) /\ kept' \in Nat /\ kept <= kept' /\ kept' <= d
<1>1. /\ done \in Nat /\ batch \in Nat /\ acked \in Nat /\ kept \in Nat /\ pushed \in Nat
      /\ handed \in Nat /\ safe \in Nat /\ Len(log) \in Nat
  BY Typed DEF BTypes, Numbers
<1>2. PICK d \in Nat : d = done' /\ d = done + batch
  BY <1>1 DEF Ack
<1>3. PICK a \in Nat : a = acked' /\ acked <= a /\ d <= a /\ (a = acked \/ a = d)
  <2> DEFINE S == {acked, d}
  <2>1. S \in SUBSET Nat /\ S # {} /\ acked + d \in Nat /\ \A x \in S : x <= acked + d
    BY <1>1
  <2>2. acked' = Max(S)
    BY <1>2 DEF Ack
  <2> HIDE DEF S
  <2>3. Max(S) \in S /\ \A x \in S : x <= Max(S)
    BY <2>1, MaxNat
  <2>4. Max(S) \in {acked, d} /\ acked <= Max(S) /\ d <= Max(S)
    BY <2>3 DEF S
  <2> QED BY <1>1, <2>2, <2>4
<1>4. kept' \in Nat /\ kept <= kept' /\ kept' <= d
  <2>1. kept <= d /\ d <= Len(log)
    BY <1>1, <1>2 DEF Ordered
  <2>2. Reap(d, closed)
    BY <1>2 DEF Ack
  <2> QED BY <2>1, <2>2, Reaps
<1> QED BY <1>2, <1>3, <1>4

\* The cursor moves over the batch that is in ClickHouse.
LEMMA AckStep ==
  ASSUME BInv, Ack
  PROVE  BInv'
<1> USE DEF world, tailer, registry, marks, buffer, drain, sink, run
<1>1. /\ done \in Nat /\ batch \in Nat /\ acked \in Nat /\ kept \in Nat /\ pushed \in Nat
      /\ handed \in Nat /\ safe \in Nat /\ Len(log) \in Nat
  BY Typed DEF BInv, BTypes, Numbers
<1>2. PICK d \in Nat, a \in Nat :
        /\ d = done' /\ d = done + batch /\ a = acked' /\ acked <= a /\ d <= a
        /\ (a = acked \/ a = d) /\ kept' \in Nat /\ kept <= kept' /\ kept' <= d
  BY AckMoves DEF BInv
<1>5. BTypes'
  BY <1>2 DEF BInv, Ack, BTypes, Numbers, Switches
<1>6. d <= pushed /\ pushed <= handed /\ handed <= safe /\ done <= acked /\ acked <= safe
  BY <1>1, <1>2 DEF BInv, Ordered
<1>7. Ordered'
  BY <1>1, <1>2, <1>6 DEF BInv, Ordered, Ack
<1>8. \A k \in done + 1 .. d : Event(log[k]) \in delivered
  BY <1>2 DEF BInv, Kept, Ack
<1>9. ASSUME NEW k \in acked + 1 .. a PROVE Event(log[k]) \in delivered
  <2>1. k \in done + 1 .. d
    BY <1>1, <1>2, <1>6
  <2> QED BY <1>8, <2>1
<1>10. Framed'
  BY FramedStays DEF BInv, Ack
<1>11. Kept'
  <2>1. \A ev : Secured(ev) => Secured(ev)'
    <3>1. /\ delivered' = delivered /\ log' = log /\ safe' = safe /\ acked <= acked'
          /\ BTypes /\ Ordered /\ safe \in Nat
      BY <1>1, <1>2 DEF BInv, Ack
    <3>2. \A k \in acked + 1 .. acked' : Event(log[k]) \in delivered'
      BY <1>2, <1>9, <3>1
    <3> QED BY <1>5, <3>1, <3>2, SecuredStays
  <2>2. ASSUME NEW k \in 1 .. a PROVE Event(log[k]) \in delivered
    <3>1. k \in 1 .. acked \/ k \in acked + 1 .. a
      BY <1>1
    <3> QED BY <1>9, <3>1 DEF BInv, Kept
  <2> QED BY <1>2, <2>1, <2>2 DEF BInv, Kept, Ack, Event
<1>12. Placed' /\ Shut'
  BY PlacedStays, ShutStays DEF BInv, Ack, Shut
<1> QED BY <1>5, <1>7, <1>10, <1>11, <1>12 DEF BInv

-----------------------------------------------------------------------------
(* The owner *)

\* A stop is asked for.
LEMMA StopAskedStep ==
  ASSUME BInv, StopAsked
  PROVE  BInv'
<1> USE DEF world, tailer, registry, marks, buffer, drain, sink, run
<1>1. BTypes'
  BY DEF BInv, StopAsked, OwnerMoves, BTypes, Numbers, Switches, Owners
<1>2. Ordered' /\ Framed' /\ Kept'
  BY OrderedStays, FramedStays, KeptStays DEF BInv, StopAsked, Kept
<1>3. Placed'
  BY PlacedStays DEF BInv, StopAsked, OwnerMoves, up
<1>4. Shut'
  BY DEF BInv, StopAsked, OwnerMoves, Shut, up, closed
<1> QED BY <1>1, <1>2, <1>3, <1>4 DEF BInv

\* The buffer refuses from now on.
LEMMA BeginShutdownStep ==
  ASSUME BInv, BeginShutdown
  PROVE  BInv'
<1> USE DEF world, tailer, registry, marks, buffer, drain, sink, run
<1>1. BTypes'
  BY DEF BInv, BeginShutdown, OwnerMoves, BTypes, Numbers, Switches, Owners
<1>2. Ordered' /\ Framed' /\ Kept'
  BY OrderedStays, FramedStays, KeptStays DEF BInv, BeginShutdown, Kept
<1>3. Placed'
  BY PlacedStays DEF BInv, BeginShutdown, OwnerMoves, up
<1>4. Shut'
  BY DEF BInv, BeginShutdown, OwnerMoves, Shut, up, closed
<1> QED BY <1>1, <1>2, <1>3, <1>4 DEF BInv

\* The workers are told.
LEMMA CloseStopStep ==
  ASSUME BInv, CloseStop
  PROVE  BInv'
<1> USE DEF world, tailer, registry, marks, buffer, drain, sink, run
<1>1. BTypes'
  BY DEF BInv, CloseStop, OwnerMoves, BTypes, Numbers, Switches, Owners
<1>2. Ordered' /\ Framed' /\ Kept'
  BY OrderedStays, FramedStays, KeptStays DEF BInv, CloseStop, Kept
<1>3. Placed'
  BY PlacedStays DEF BInv, CloseStop, OwnerMoves, up
<1>4. Shut'
  BY DEF BInv, CloseStop, OwnerMoves, Shut, up, closed
<1> QED BY <1>1, <1>2, <1>3, <1>4 DEF BInv

\* The drainer has ended, and the batcher is done.
LEMMA FinishStep ==
  ASSUME BInv, Finish
  PROVE  BInv'
<1> USE DEF world, tailer, registry, marks, buffer, drain, sink, run
<1>1. BTypes'
  BY DEF BInv, Finish, OwnerMoves, BTypes, Numbers, Switches, Owners
<1>2. Ordered' /\ Framed' /\ Kept'
  BY OrderedStays, FramedStays, KeptStays DEF BInv, Finish, Kept
<1>3. Placed'
  BY PlacedStays DEF BInv, Finish, OwnerMoves, up
<1>4. Shut'
  BY DEF BInv, Finish, OwnerMoves, Shut, up, closed
<1> QED BY <1>1, <1>2, <1>3, <1>4 DEF BInv

\* The buffer is closed: all that is in it is safe, or it has failed.
LEMMA CloseWriterStep ==
  ASSUME BInv, CloseWriter
  PROVE  BInv'
<1> USE DEF world, tailer, registry, marks, buffer, drain, sink, run
<1>1. owner = "stopped" /\ owner' = "closed" /\ up /\ exit' = exit
  BY DEF CloseWriter, OwnerMoves, up
<1>2. CASE Durable /\ UNCHANGED fatal /\ IF fatal THEN UNCHANGED kept ELSE Reap(done, TRUE)
  <2>1. /\ committed' \in Nat /\ committed <= committed' /\ committed' <= base
        /\ committed \in Nat /\ read \in Nat /\ Len(log) \in Nat
    BY <1>2, Moves, Typed DEF BInv, Numbers
  <2>7. kept' \in Nat /\ kept' <= done
    <3>1. /\ done \in Nat /\ kept \in Nat /\ kept <= done /\ done <= Len(log)
      BY <2>1 DEF BInv, BTypes, Numbers, Ordered
    <3> QED BY <1>2, <3>1, Reaps DEF BInv
  <2>2. BTypes'
    BY <1>1, <1>2, <2>1, <2>7
       DEF BInv, CloseWriter, Durable, BTypes, Numbers, Switches, Owners
  <2>3. Ordered' /\ Framed' /\ Kept'
    BY <1>2, <2>2, <2>7, DurableKeeps DEF BInv, CloseWriter
  <2>4. committed' .. read \subseteq committed .. read
    <3>1. PICK c \in Nat : c = committed' /\ committed <= c
      BY <2>1
    <3>2. c .. read \subseteq committed .. read
      BY <2>1, <3>1
    <3> QED BY <3>1, <3>2
  <2>5. Placed'
    BY <1>1, <2>1, <2>4 DEF BInv, CloseWriter, Placed
  <2>6. Shut'
    BY <1>1, <1>2 DEF BInv, CloseWriter, Durable, Shut, up, closed
  <2> QED BY <2>2, <2>3, <2>5, <2>6 DEF BInv
<1>3. CASE fatal' = TRUE /\ UNCHANGED <<safe, noted, committed, dirty, kept>>
  <2>1. BTypes'
    BY <1>1, <1>3 DEF BInv, CloseWriter, BTypes, Numbers, Switches, Owners
  <2>2. Ordered' /\ Framed' /\ Kept'
    BY <1>3, OrderedStays, FramedStays, KeptStays DEF BInv, CloseWriter, Kept
  <2>3. Placed'
    BY <1>1, <1>3, PlacedStays DEF BInv, CloseWriter
  <2>4. Shut'
    BY <1>1, <1>3 DEF BInv, CloseWriter, Shut, up, closed
  <2> QED BY <2>1, <2>2, <2>3, <2>4 DEF BInv
<1> QED BY <1>2, <1>3 DEF CloseWriter

\* The last save, and the exit code: the buffer is closed.
LEMMA ExitStep ==
  ASSUME BInv, Exit
  PROVE  BInv'
<1> USE DEF world, tailer, registry, marks, buffer, drain, sink, run
<1>1. Record \in [off : Nat, epoch : Nat]
  BY DEF BInv, BTypes, Numbers, Record
<1>2. up /\ closed /\ ~up'
  BY DEF Exit, Goes, up, closed
<1>3. BTypes'
  <2>1. disk' \in [off : Nat, epoch : Nat]
    BY <1>1 DEF BInv, Exit, BTypes
  <2>2. exit' \in {-1, 0, 3} /\ owner' \in Owners /\ downs' \in Nat
    BY DEF BInv, Exit, Goes, BTypes, Numbers, Owners
  <2> QED BY <2>1, <2>2 DEF BInv, Exit, BTypes, Numbers, Switches
<1>4. Ordered' /\ Framed'
  BY OrderedStays, FramedStays DEF BInv, Exit
<1>5. Placed'
  BY <1>2, RecordKept DEF BInv, Exit, Placed
<1>6. Kept'
  BY <1>2, RecordKept DEF BInv, Exit, Kept, Secured, Event
<1>7. Shut'
  BY <1>2 DEF BInv, Exit, Goes, Shut, up, closed, Record
<1> QED BY <1>3, <1>4, <1>5, <1>6, <1>7 DEF BInv

\* The end after a fault.
LEMMA HardStopStep ==
  ASSUME BInv, HardStop
  PROVE  BInv'
<1> USE DEF world, tailer, registry, marks, buffer, drain, sink, run
<1>1. BTypes'
  BY DEF BInv, HardStop, Goes, BTypes, Numbers, Switches, Owners
<1>2. Ordered' /\ Framed' /\ Kept'
  BY OrderedStays, FramedStays, KeptStays DEF BInv, HardStop, Kept
<1>3. Placed'
  BY PlacedStays DEF BInv, HardStop, Goes, up
<1>4. Shut'
  BY DEF BInv, HardStop, Goes, Shut, up, closed
<1> QED BY <1>1, <1>2, <1>3, <1>4 DEF BInv

\* A crash.
LEMMA CrashStep ==
  ASSUME BInv, Crash
  PROVE  BInv'
<1> USE DEF world, tailer, registry, marks, buffer, drain, sink, run
<1>1. BTypes'
  BY DEF BInv, Crash, Goes, BTypes, Numbers, Switches, Owners
<1>2. Ordered' /\ Framed' /\ Kept'
  BY OrderedStays, FramedStays, KeptStays DEF BInv, Crash, Kept
<1>3. Placed'
  BY PlacedStays DEF BInv, Crash, Goes, up
<1>4. Shut'
  BY DEF BInv, Crash, Goes, Shut, up, closed
<1> QED BY <1>1, <1>2, <1>3, <1>4 DEF BInv

\* The next run finds the safe frames and maybe some more; it has read nothing.
LEMMA StartStep ==
  ASSUME BInv, Start, ~ReopenDrained
  PROVE  BInv'
<1> USE DEF world, tailer, registry, marks, buffer, drain, sink, run
<1>1. /\ kept \in Nat /\ acked \in Nat /\ safe \in Nat /\ Len(log) \in Nat
      /\ log \in Seq(Frame) /\ path.epoch \in Nat
  BY Typed DEF BInv, BTypes, Numbers
<1>0. PICK end \in safe .. Len(log), pos \in kept .. acked :
        /\ log' = SubSeq(log, 1, end) /\ safe' = end /\ noted' = end /\ old' = end
        /\ handed' = pos /\ pushed' = pos /\ done' = pos
        /\ acked' = Max({acked, pos})
        /\ kept' = IF pos >= end THEN end ELSE kept
  BY DEF Start, Resumes
<1>2. log' = SubSeq(log, 1, end) /\ safe' = end /\ noted' = end /\ old' = end
  BY <1>0
<1>3. handed' = pos /\ pushed' = pos /\ done' = pos
  BY <1>0
<1>4. end \in Nat /\ pos \in Nat /\ safe <= end /\ kept <= pos /\ pos <= acked /\ acked <= safe
  BY <1>1 DEF BInv, Ordered
<1>12. acked' = acked
  <2> DEFINE S == {acked, pos}
  <2>1. S \in SUBSET Nat /\ S # {} /\ \A x \in S : x <= acked
    BY <1>1, <1>4
  <2> HIDE DEF S
  <2>2. Max(S) \in S /\ \A x \in S : x <= Max(S)
    BY <1>1, <2>1, MaxNat
  <2>3. Max(S) \in {acked, pos} /\ acked <= Max(S)
    BY <2>2 DEF S
  <2>4. Max(S) = acked
    BY <1>1, <1>4, <2>3
  <2> QED BY <1>0, <2>4 DEF S
<1>13. kept' \in Nat /\ kept' <= pos
  BY <1>0, <1>1, <1>4
<1>5. log' \in Seq(Frame) /\ Len(log') = end /\ \A k \in 1 .. end : log'[k] = log[k]
  BY <1>1, <1>2, <1>4
<1>6. BTypes'
  BY <1>2, <1>3, <1>4, <1>5, <1>12, <1>13 DEF BInv, Start, BTypes, Numbers, Switches, Owners
<1>7. Ordered'
  BY <1>1, <1>2, <1>3, <1>4, <1>5, <1>12, <1>13 DEF Start, Ordered
<1>8. Placed'
  BY <1>1, <1>2, <1>5 DEF BInv, Placed, Start
<1>9. Framed'
  <2>1. end + 1 .. end = {} /\ 0 + 1 .. 0 = {}
    BY <1>4
  <2> QED BY <1>2, <1>5, <2>1 DEF Framed, Start
<1>10. Kept'
  <2>1. \A k \in 1 .. safe : log'[k] = log[k]
    BY <1>1, <1>4, <1>5
  <2>2. acked + 1 .. acked = {} /\ 1 .. 0 = {} /\ 1 .. acked \subseteq 1 .. safe
    BY <1>1, <1>4
  <2>3. \A ev : Secured(ev) => Secured(ev)'
    <3>1. /\ delivered' = delivered /\ acked' = acked /\ safe <= safe' /\ acked <= acked'
          /\ BTypes /\ Ordered
      BY <1>1, <1>2, <1>4, <1>12 DEF BInv, Start
    <3>2. \A k \in acked + 1 .. acked' : Event(log[k]) \in delivered'
      BY <2>2, <3>1
    <3> QED BY <1>6, <2>1, <3>1, <3>2, SecuredStays
  <2> QED BY <1>12, <2>1, <2>2, <2>3 DEF BInv, Kept, Start, Event
<1>11. Shut'
  BY DEF Start, Shut, up, closed
<1> QED BY <1>6, <1>7, <1>8, <1>9, <1>10, <1>11 DEF BInv

-----------------------------------------------------------------------------
(* The results *)

\* At first nothing is read, written or recorded.
LEMMA InitHolds ==
  ASSUME Init
  PROVE  BInv
<1>1. log = <<>> /\ Len(log) = 0 /\ log \in Seq(Frame)
  BY DEF Init
<1>2. BTypes
  BY <1>1 DEF Init, BTypes, Numbers, Switches, Owners
<1>3. Ordered /\ Placed
  BY <1>1 DEF Init, Ordered, Placed
<1>4. Framed /\ Kept
  <2>1. 0 + 1 .. 0 = {} /\ 1 .. 0 = {}
    OBVIOUS
  <2> QED BY <1>1, <2>1 DEF Init, Framed, Kept
<1>5. Shut
  BY DEF Init, Shut, closed, up
<1> QED BY <1>2, <1>3, <1>4, <1>5 DEF BInv

\* Every step keeps the invariant.
LEMMA NextKeeps ==
  ASSUME BInv, [Next]_vars, ~ReopenDrained
  PROVE  BInv'
<1>1. CASE World
  BY <1>1, GrowStep, TruncateStep, NetworkStep DEF World
<1>2. CASE Worker
  BY <1>2, ResetStep, ClaimStep, ReadStep, IdleCloseStep, AppendFrameStep, AppendFailsStep,
     DrainAllStep, WorkerGoneStep DEF Worker
<1>3. CASE Sync \/ Fault \/ Save
  BY <1>3, SyncStep, FaultStep, SaveStep
<1>4. CASE Drainer
  BY <1>4, TakeStep, PushStep, LeaveStep DEF Drainer
<1>5. CASE Batcher
  BY <1>5, CollectStep, SendOkStep, SendFailsStep, AckStep DEF Batcher
<1>6. CASE Owner
  BY <1>6, StopAskedStep, BeginShutdownStep, CloseStopStep, CloseWriterStep, FinishStep,
     ExitStep, HardStopStep, CrashStep, StartStep DEF Owner
<1>7. CASE UNCHANGED vars
  <2> USE <1>7 DEF vars, world, tailer, registry, marks, buffer, drain, sink, run
  <2>1. BTypes' /\ Ordered' /\ Placed'
    BY DEF BInv, BTypes, Numbers, Switches, Ordered, Placed, up
  <2>2. Framed' /\ Kept'
    BY FramedStays, KeptStays DEF BInv, Kept
  <2>3. Shut'
    BY DEF BInv, Shut, Record, up, closed
  <2> QED BY <2>1, <2>2, <2>3 DEF BInv
<1> QED BY <1>1, <1>2, <1>3, <1>4, <1>5, <1>6, <1>7 DEF Next

\* The inductive invariant holds: types, the order of the marks, the worker's offsets
\* against the file, the frames that wait against the checkpoint, what is secured; as
\* long as an emptied buffer is not opened with its cursor.
THEOREM BufferedCorrect ==
  ASSUME ~ReopenDrained
  PROVE  Spec => []BInv
<1>1. Init => BInv
  BY InitHolds
<1>2. BInv /\ [Next]_vars => BInv'
  BY NextKeeps
<1> QED BY <1>1, <1>2, PTL DEF Spec

\* No event that a checkpoint passes over is lost, and none that the cursor passes over
\* (walglue.go), for every file, buffer and number of stops, crashes and faults, as
\* long as an emptied buffer is not opened with its cursor.
THEOREM EndToEnd ==
  ASSUME ~ReopenDrained
  PROVE  Spec => []NothingLost
<1>1. ASSUME BInv PROVE NothingLost
  <2>1. Len(log) \in Nat /\ DOMAIN log = 1 .. Len(log) /\ acked \in Nat
    BY <1>1 DEF BInv, BTypes, Numbers
  <2>2. \A k \in DOMAIN log : k <= acked => k \in 1 .. acked
    BY <2>1
  <2> QED BY <1>1, <2>2 DEF BInv, Kept, NothingLost
<1> QED BY <1>1, BufferedCorrect, PTL

\* The exit code tells whether the buffer is sound and the checkpoint is written
\* (follow.go), as long as an emptied buffer is not opened with its cursor.
THEOREM ExitCodeTells ==
  ASSUME ~ReopenDrained
  PROVE  Spec => []ExitTells
<1>1. ASSUME BInv PROVE ExitTells
  <2>1. /\ Len(log) \in Nat /\ DOMAIN log = 1 .. Len(log) /\ acked \in Nat /\ old \in Nat
        /\ noted = safe
    BY <1>1, Typed DEF BInv, BTypes, Numbers, Ordered
  <2>2. SUFFICES ASSUME exit = 0, NEW k \in DOMAIN log
                 PROVE  /\ ~fatal /\ safe = Len(log) /\ Secured(Event(log[k]))
                        /\ k > old /\ log[k].epoch = disk.epoch => log[k].end <= disk.off
    <3>1. exit = 3 => fatal
      BY <1>1 DEF BInv, Shut
    <3>2. exit = 0 => ~fatal /\ safe = Len(log)
      BY <1>1 DEF BInv, Shut
    <3> QED BY <2>2, <3>1, <3>2 DEF ExitTells
  <2>3. ~fatal /\ safe = Len(log) /\ (claimed => disk = Record)
    BY <1>1, <2>2 DEF BInv, Shut
  <2>4. Secured(Event(log[k]))
    <3>1. k \in 1 .. acked \/ k \in acked + 1 .. safe
      BY <2>1, <2>2, <2>3
    <3> QED BY <1>1, <3>1 DEF BInv, Kept, Secured
  <2>5. ASSUME k > old, log[k].epoch = disk.epoch PROVE log[k].end <= disk.off
    <3>1. k \in old + 1 .. noted /\ k \in old + 1 .. Len(log)
      BY <2>1, <2>2, <2>3, <2>5
    <3>2. claimed
      <4>1. ~claimed => Len(log) = old
        BY <1>1 DEF BInv, Placed
      <4>2. Len(log) # old
        <5>1. Len(log) \in Nat /\ old \in Nat
          BY <2>1
        <5>2. ~ (Len(log) <= old)
          BY <5>1, <3>1
        <5> QED BY <5>1, <5>2
      <4> QED BY <4>1, <4>2
    <3>3. disk.epoch = seen /\ disk.off = committed
      BY <2>3, <3>2 DEF Record
    <3> QED BY <1>1, <2>5, <3>1, <3>3 DEF BInv, Framed
  <2> QED BY <2>3, <2>4, <2>5
<1> QED BY <1>1, BufferedCorrect, PTL
==============================================================================
