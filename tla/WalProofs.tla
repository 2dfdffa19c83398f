------------------------------ MODULE WalProofs ------------------------------
(***************************************************************************)
(* What is proved of Wal, for every value of its constants, in three       *)
(* parts.                                                                  *)
(*                                                                         *)
(* 1. It loses no checkpointed event: IInv holds initially, each action    *)
(*    preserves each of its parts, and it implies NoLoss.                  *)
(* 2. Its reader gets every frame once, whole and in order, a restart      *)
(*    resumes where ClickHouse stopped confirming, and a drained stop      *)
(*    leaves nothing behind: WInv, in the same way.                        *)
(* 3. It implements DurableLog: each step of writers, syncer, reader,      *)
(*    batcher and owner, each crash and restart, is a step of the abstract *)
(*    log or leaves its marks alone; so it keeps DurableLog's promise.     *)
(***************************************************************************)
EXTENDS WalInv, DataFacts

-----------------------------------------------------------------------------
(***************************************************************************)
(* 1. The safety of what is checkpointed                                   *)
(***************************************************************************)

-----------------------------------------------------------------------------
(* The operators that build segments, point by point *)

\* rotateLocked: segment s is fsynced to its end and closed, the others stay.
LEMMA ShutPoint ==
  ASSUME NEW D \in SUBSET Nat, NEW sg \in [D -> Segment], NEW s \in D
  PROVE  /\ Shut(sg, s) \in [D -> Segment] /\ DOMAIN Shut(sg, s) = D
         /\ \A t \in D : /\ Shut(sg, s)[t].lo = sg[t].lo
                         /\ Shut(sg, s)[t].size = sg[t].size
                         /\ t # s => Shut(sg, s)[t] = sg[t]
         /\ Shut(sg, s)[s].durable = sg[s].size
         /\ Shut(sg, s)[s].closed
  BY DEF Shut, Synced, Segment

\* syncLocked: segment s is fsynced to its end, nothing else changes.
LEMMA SyncedPoint ==
  ASSUME NEW D \in SUBSET Nat, NEW sg \in [D -> Segment], NEW s \in D
  PROVE  /\ Synced(sg, s) \in [D -> Segment] /\ DOMAIN Synced(sg, s) = D
         /\ \A t \in D : /\ Synced(sg, s)[t].lo = sg[t].lo
                         /\ Synced(sg, s)[t].size = sg[t].size
                         /\ Synced(sg, s)[t].closed = sg[t].closed
                         /\ t # s => Synced(sg, s)[t] = sg[t]
         /\ Synced(sg, s)[s].durable = sg[s].size
  BY DEF Synced, Segment

\* A write of n bytes: segment s is n bytes longer, nothing else changes.
LEMMA GrownPoint ==
  ASSUME NEW D \in SUBSET Nat, NEW sg \in [D -> Segment], NEW s \in D, NEW n \in Nat
  PROVE  /\ Grown(sg, s, n) \in [D -> Segment] /\ DOMAIN Grown(sg, s, n) = D
         /\ \A t \in D : /\ Grown(sg, s, n)[t].lo = sg[t].lo
                         /\ Grown(sg, s, n)[t].durable = sg[t].durable
                         /\ Grown(sg, s, n)[t].closed = sg[t].closed
                         /\ t # s => Grown(sg, s, n)[t] = sg[t]
         /\ Grown(sg, s, n)[s].size = sg[s].size + n
  BY DEF Grown, Segment

\* openSegLocked: s is a new open segment at the end of the log.
LEMMA OpenedPoint ==
  ASSUME NEW D \in SUBSET Nat, NEW sg \in [D -> Segment], NEW s \in Nat, s \notin D,
         NEW n \in Nat, tail \in Nat
  PROVE  /\ Opened(sg, s, n) \in [D \cup {s} -> Segment]
         /\ DOMAIN Opened(sg, s, n) = D \cup {s}
         /\ \A t \in D : Opened(sg, s, n)[t] = sg[t]
         /\ Opened(sg, s, n)[s] = [lo |-> tail, size |-> n, durable |-> 0, closed |-> FALSE]
  BY DEF Opened, Segment

-----------------------------------------------------------------------------
\* Abbreviations that every step below needs expanded.
USE DEF Seqs, HiOf, memory, actors, history, Idle, NotReading

-----------------------------------------------------------------------------
(* The initial state *)

\* An empty directory satisfies the invariant.
LEMMA InitIInv == Init => IInv
<1> SUFFICES ASSUME Init PROVE IInv
  OBVIOUS
<1> USE SizesAssumption DEF Init
<1>1. Seqs = {}
  OBVIOUS
<1>2. TypeOK
  BY <1>1 DEF TypeOK, Pos, NoCursor
<1>3. Layout /\ Numbered /\ Marks /\ Sized
  BY <1>1 DEF Layout, Numbered, Marks, Passed, NotAhead, Sized, NoCursor
<1>4. InMemory /\ Framed /\ Kept
  BY <1>1 DEF InMemory, Framed, Kept
<1> QED BY <1>2, <1>3, <1>4 DEF IInv

-----------------------------------------------------------------------------
(* Steps that leave the files and the cursors alone *)

\* A step that touches neither files nor cursors keeps what is said of them.
LEMMA QuietStep ==
  ASSUME IInv,
         UNCHANGED <<up, segs, diskCursor, nextSeq, cursor, total, frames, tail,
                     released, acked>>
  PROVE  Layout' /\ Numbered' /\ Marks' /\ Framed' /\ Kept' /\ Sized'
<1>1. Layout' /\ Numbered'
  BY DEF IInv, Layout, Numbered
<1>2. Marks' /\ Sized'
  BY DEF IInv, Marks, Passed, NotAhead, Sized
<1>3. Framed' /\ Kept'
  BY DEF IInv, Framed, Boundary, Kept
<1> QED BY <1>1, <1>2, <1>3

\* A step of that kind that also keeps what the goroutines hold.
LEMMA IdleStep ==
  ASSUME IInv,
         UNCHANGED <<up, segs, diskCursor, nextSeq, cursor, total, frames, tail,
                     released, acked, pending, inflight>>,
         reader' = reader \/ reader' = NotReading, reaping' => reaping, TypeOK'
  PROVE  IInv'
<1>1. InMemory'
  <2>1. reader.busy' => reader' = reader
    OBVIOUS
  <2> QED BY <2>1 DEF IInv, InMemory, Doomed, Before
<1> QED BY <1>1, QuietStep DEF IInv

\* space.Broadcast leaves every writer in a state a writer can be in.
LEMMA WokenType ==
  TypeOK => /\ Woken \in [Writer -> [st : {"idle", "call", "wait"}, need : Nat]]
            /\ \A w \in Writer : Woken[w].st # "idle" => Woken[w].need \in FrameSizes
  BY DEF TypeOK, Woken

\* A worker's call keeps the invariant.
LEMMA CallInv ==
  ASSUME IInv, NEW w \in Writer, NEW n \in FrameSizes, Call(w, n)
  PROVE  IInv'
<1>1. TypeOK'
  BY SizesAssumption DEF IInv, TypeOK, Call
<1> QED BY <1>1, IdleStep DEF Call

\* Refusing a frame that is too long keeps the invariant.
LEMMA OversizeInv ==
  ASSUME IInv, NEW w \in Writer, AppendOversize(w)
  PROVE  IInv'
<1>1. TypeOK'
  BY WokenType DEF IInv, TypeOK, AppendOversize
<1> QED BY <1>1, IdleStep DEF AppendOversize

\* An Append refused after a stop or an error keeps the invariant.
LEMMA RefusedInv ==
  ASSUME IInv, NEW w \in Writer, AppendRefused(w)
  PROVE  IInv'
<1>1. TypeOK'
  BY DEF IInv, TypeOK, AppendRefused
<1> QED BY <1>1, IdleStep DEF AppendRefused

\* The reader's move to the next segment keeps the invariant.
LEMMA ReadSkipsInv ==
  ASSUME IInv, ReadSkips
  PROVE  IInv'
<1> DEFINE later == {s \in Seqs : s > readPos.seg}
<1>1. Min(later) \in Nat
  <2>1. later \in SUBSET Nat /\ later # {}
    BY DEF IInv, TypeOK, ReadSkips
  <2> QED BY <2>1, MinNat
<1>2. TypeOK'
  BY <1>1 DEF IInv, TypeOK, ReadSkips, Pos
<1> QED BY <1>2, IdleStep DEF ReadSkips

\* BeginShutdown keeps the invariant.
LEMMA BeginShutdownInv ==
  ASSUME IInv, BeginShutdown
  PROVE  IInv'
<1>1. TypeOK'
  BY WokenType DEF IInv, TypeOK, BeginShutdown
<1> QED BY <1>1, IdleStep DEF BeginShutdown

\* A failed last sync keeps the invariant: nothing is reaped after it.
LEMMA CloseWriterFailsInv ==
  ASSUME IInv, CloseWriterFails
  PROVE  IInv'
<1>1. TypeOK'
  BY DEF IInv, TypeOK, CloseWriterFails
<1> QED BY <1>1, IdleStep DEF CloseWriterFails

\* An I/O error keeps the invariant, also in the middle of a reap.
LEMMA FaultInv ==
  ASSUME IInv, Fault
  PROVE  IInv'
<1>1. reader' = reader \/ reader' = NotReading
  BY DEF Fault
<1>2. reader' \in [busy : BOOLEAN, seg : Nat, off : Nat, limit : Nat]
  <2>1. CASE reader' = reader
    BY <2>1 DEF IInv, TypeOK
  <2>2. CASE reader' = NotReading
    BY <2>2
  <2> QED BY <1>1, <2>1, <2>2
<1>3. TypeOK'
  BY <1>2, WokenType DEF IInv, TypeOK, Fault
<1> QED BY <1>1, <1>3, IdleStep DEF Fault

-----------------------------------------------------------------------------
(* The reader *)

\* The limit the reader takes under mu is fsynced: the invariant is kept.
LEMMA ReadStartsInv ==
  ASSUME IInv, ReadStarts
  PROVE  IInv'
<1>1. TypeOK'
  BY DEF IInv, TypeOK, ReadStarts, Limit, Pos, Segment
<1>2. InMemory'
  <2>1. reader'.seg < nextSeq
    BY DEF IInv, Numbered, ReadStarts, MuFree
  <2>2. reader'.limit <= segs[reader'.seg].durable
    BY DEF IInv, TypeOK, Layout, ReadStarts, Limit, Pos, Segment
  <2> QED BY <2>1, <2>2 DEF IInv, InMemory, ReadStarts, MuFree, Doomed, Before
<1> QED BY <1>1, <1>2, QuietStep DEF IInv, ReadStarts

\* The frame handed to the batcher lies on fsynced bytes of a live file.
LEMMA ReadFinishesInv ==
  ASSUME IInv, ReadFinishes
  PROVE  IInv'
<1>1. PICK f \in FramesAtReader :
        LET p == [seg |-> reader.seg, off |-> reader.off + (f.hi - f.lo)] IN
        /\ readPos' = p
        /\ inflight' = inflight \cup {[pos |-> p, end |-> f.hi]}
        /\ handed' = f.hi
  BY DEF ReadFinishes
<1> DEFINE x == [pos |-> readPos', end |-> f.hi]
<1>2. /\ reader.seg \in Seqs /\ f \in frames
      /\ f.lo = segs[reader.seg].lo + reader.off
      /\ f.hi <= segs[reader.seg].lo + reader.limit
  BY DEF FramesAtReader
<1>3. reader.limit <= segs[reader.seg].durable
  BY <1>2 DEF IInv, InMemory, ReadFinishes
<1>4. /\ reader.seg \in Nat /\ reader.off \in Nat /\ reader.limit \in Nat
      /\ f.lo \in Nat /\ f.hi \in Nat /\ f.lo < f.hi
      /\ segs[reader.seg].lo \in Nat /\ segs[reader.seg].durable \in Nat
  BY <1>2 DEF IInv, TypeOK, Framed, Segment
<1>5. /\ readPos' \in Pos /\ inflight' = inflight \cup {x}
      /\ readPos'.seg = reader.seg /\ readPos'.off = reader.off + (f.hi - f.lo)
  BY <1>1, <1>4 DEF Pos
<1>6. TypeOK'
  BY <1>1, <1>4, <1>5 DEF IInv, TypeOK, ReadFinishes
<1>7. InMemory'
  <2>1. /\ x.pos.seg \in Seqs
        /\ x.end = segs[x.pos.seg].lo + x.pos.off
        /\ x.pos.off <= segs[x.pos.seg].durable
    BY <1>2, <1>3, <1>4, <1>5
  <2> HIDE DEF x
  <2> QED BY <2>1, <1>5 DEF IInv, InMemory, ReadFinishes, MuFree, Before, Doomed
<1> QED BY <1>6, <1>7, QuietStep DEF IInv, ReadFinishes

-----------------------------------------------------------------------------
(* The segments as a whole *)

\* The open segment is the last one and ends where the log does.
LEMMA OpenIsLast ==
  ASSUME IInv, up, NEW s \in Cur
  PROVE  /\ s \in Seqs /\ ~segs[s].closed /\ s + 1 \notin Seqs
         /\ HiOf(segs[s]) = tail /\ nextSeq = s + 1
         /\ \A t \in Seqs : t <= s /\ (t # s => segs[t].closed)
<1>1. s \in Seqs /\ ~segs[s].closed /\ s \in Nat /\ Seqs \subseteq Nat
  BY DEF IInv, TypeOK, Cur
<1>2. \A t \in Seqs : t <= s
  BY DEF Cur
<1>3. s + 1 \notin Seqs
  BY <1>1, <1>2
<1>4. nextSeq = s + 1
  BY <1>1, <1>2 DEF IInv, TypeOK, Numbered
<1>5. ASSUME NEW t \in Seqs, t # s PROVE segs[t].closed
  <2>1. t + 1 \in t .. s
    BY <1>1, <1>2, <1>5
  <2>2. t + 1 \in Seqs
    BY <1>1, <2>1 DEF IInv, Layout
  <2> QED BY <2>2 DEF IInv, Layout
<1> QED BY <1>1, <1>2, <1>3, <1>4, <1>5 DEF IInv, Layout

\* The bytes counted are those from the first segment on.
LEMMA TotalCovers ==
  ASSUME IInv, up, NEW s \in Seqs
  PROVE  tail - segs[s].lo <= total
<1>1. Seqs \in SUBSET Nat /\ s \in Nat
  BY DEF IInv, TypeOK
<1>2. PICK m \in Seqs : \A t \in Seqs : m <= t
  BY <1>1, MinNat
<1>3. m - 1 \notin Seqs
  BY <1>1, <1>2
<1>4. total = tail - segs[m].lo
  BY <1>3 DEF IInv, Sized
<1>5. segs[m].lo <= segs[s].lo
  <2>1. CASE m = s
    BY <2>1 DEF IInv, TypeOK, Segment
  <2>2. CASE m # s
    <3>1. HiOf(segs[m]) <= segs[s].lo
      BY <1>1, <1>2, <2>2 DEF IInv, Layout
    <3> QED BY <3>1 DEF IInv, TypeOK, Segment
  <2> QED BY <2>1, <2>2
<1> QED BY <1>4, <1>5 DEF IInv, TypeOK, Segment

\* No segment ends behind the end of the log.
LEMMA WithinLog ==
  ASSUME IInv, up, NEW t \in Seqs
  PROVE  HiOf(segs[t]) <= tail
<1>1. /\ nextSeq \in Nat /\ t \in Nat /\ t < nextSeq
      /\ nextSeq - 1 \in Seqs /\ (nextSeq - 1) + 1 \notin Seqs
  BY DEF IInv, TypeOK, Numbered
<1>2. HiOf(segs[nextSeq - 1]) = tail
  BY <1>1 DEF IInv, Layout
<1>3. CASE t = nextSeq - 1
  BY <1>2, <1>3 DEF IInv, TypeOK
<1>4. CASE t # nextSeq - 1
  <2>1. HiOf(segs[t]) <= segs[nextSeq - 1].lo
    BY <1>1, <1>4 DEF IInv, Layout
  <2> QED BY <1>1, <1>2, <2>1 DEF IInv, TypeOK, Segment
<1> QED BY <1>3, <1>4

-----------------------------------------------------------------------------
(* Syncing the open segment, with or without closing it *)

\* What a sync does to each segment.
LEMMA SealPoint ==
  ASSUME IInv, up, NEW s \in Cur, segs' = Shut(segs, s) \/ segs' = Synced(segs, s)
  PROVE  /\ DOMAIN segs' = Seqs /\ segs' \in [Seqs -> Segment]
         /\ \A t \in Seqs : /\ segs'[t].lo = segs[t].lo /\ segs'[t].size = segs[t].size
                            /\ segs[t].closed => segs'[t].closed
                            /\ t # s => segs'[t] = segs[t]
         /\ segs'[s].durable = segs[s].size
<1>1. Seqs \in SUBSET Nat /\ segs \in [Seqs -> Segment] /\ s \in Seqs
  BY OpenIsLast DEF IInv, TypeOK
<1>2. CASE segs' = Shut(segs, s)
  <2>1. \A t \in Seqs : segs[t].closed => t # s
    BY OpenIsLast
  <2>2. \A t \in Seqs : t # s => segs'[t] = segs[t]
    BY <1>1, <1>2, ShutPoint
  <2>3. \A t \in Seqs : segs[t].closed => segs'[t].closed
    BY <2>1, <2>2
  <2>4. DOMAIN segs' = Seqs /\ segs' \in [Seqs -> Segment]
    BY <1>1, <1>2, ShutPoint
  <2>5. /\ \A t \in Seqs : segs'[t].lo = segs[t].lo /\ segs'[t].size = segs[t].size
        /\ segs'[s].durable = segs[s].size
    BY <1>1, <1>2, ShutPoint
  <2> QED BY <2>2, <2>3, <2>4, <2>5
<1>3. CASE segs' = Synced(segs, s)
  BY <1>1, <1>3, SyncedPoint, OpenIsLast
<1> QED BY <1>2, <1>3

\* The metadata handed over is durable, and no metadata of the segment is left.
LEMMA SealStep ==
  ASSUME IInv, up, NEW s \in Cur, segs' = Shut(segs, s) \/ segs' = Synced(segs, s),
         released' = released \cup Covered(s), pending' = pending \ Covered(s),
         UNCHANGED <<up, nextSeq, total, frames, tail, acked>>
  PROVE  /\ Layout' /\ Numbered' /\ Framed' /\ Kept' /\ Sized'
         /\ segs' \in [Seqs' -> Segment] /\ Seqs' \subseteq Nat
         /\ pending' = {} /\ released' \subseteq Nat
<1> DEFINE P == /\ DOMAIN segs' = Seqs /\ segs' \in [Seqs -> Segment]
         /\ \A t \in Seqs : /\ segs'[t].lo = segs[t].lo /\ segs'[t].size = segs[t].size
                            /\ segs[t].closed => segs'[t].closed
                            /\ t # s => segs'[t] = segs[t]
         /\ segs'[s].durable = segs[s].size
<1>1. P
  BY SealPoint
<1>2. /\ s \in Seqs /\ ~segs[s].closed /\ s + 1 \notin Seqs
      /\ HiOf(segs[s]) = tail /\ nextSeq = s + 1
      /\ \A t \in Seqs : t <= s /\ (t # s => segs[t].closed)
  BY OpenIsLast
<1>3. Layout'
  BY <1>1, <1>2 DEF IInv, TypeOK, Layout, Segment
<1>4. Numbered' /\ Sized'
  BY <1>1, <1>2 DEF IInv, Numbered, Sized
<1>5. Framed'
  BY <1>1, <1>2 DEF IInv, Framed, Boundary
<1>6. \A e \in pending : segs[s].lo + segs[s].durable < e /\ e <= HiOf(segs[s])
  BY <1>2 DEF IInv, InMemory
<1>7. Kept'
  <2>1. \A t \in Seqs : segs[t].durable <= segs'[t].durable
    BY <1>1 DEF IInv, TypeOK, Layout, Segment
  <2>2. ASSUME NEW e \in released
        PROVE  e <= acked \/ \E t \in Seqs : segs'[t].lo < e /\ e <= segs'[t].lo + segs'[t].durable
    <3>1. CASE e <= acked
      BY <3>1
    <3>2. ASSUME NEW t \in Seqs, segs[t].lo < e, e <= segs[t].lo + segs[t].durable
          PROVE  segs'[t].lo < e /\ e <= segs'[t].lo + segs'[t].durable
      BY <1>1, <2>1, <3>2 DEF IInv, TypeOK, Segment
    <3> QED BY <3>1, <3>2 DEF IInv, Kept
  <2>3. ASSUME NEW e \in Covered(s)
        PROVE  segs'[s].lo < e /\ e <= segs'[s].lo + segs'[s].durable
    <3>1. e \in pending
      BY DEF Covered
    <3> QED BY <3>1, <1>1, <1>2, <1>6 DEF IInv, TypeOK, Segment
  <2> QED BY <1>1, <1>2, <2>2, <2>3 DEF Kept
<1>8. pending' = {}
  <2>1. CASE segs[s].durable = segs[s].size
    BY <2>1, <1>2, <1>6 DEF IInv, TypeOK, Segment
  <2>2. CASE segs[s].durable # segs[s].size
    BY <2>2 DEF Covered
  <2> QED BY <2>1, <2>2
<1>9. released' \subseteq Nat
  BY DEF Covered, IInv, TypeOK
<1> QED BY <1>1, <1>3, <1>4, <1>5, <1>7, <1>8, <1>9 DEF IInv, TypeOK

\* The marks and what the goroutines hold, when the cursors stay.
LEMMA SealMarks ==
  ASSUME IInv, up, ~reaping, NEW s \in Cur,
         segs' = Shut(segs, s) \/ segs' = Synced(segs, s), pending' = {},
         UNCHANGED <<up, diskCursor, cursor, nextSeq, tail, acked, reaping, reader, inflight>>
  PROVE  Marks' /\ InMemory'
<1>1. /\ DOMAIN segs' = Seqs /\ segs' \in [Seqs -> Segment]
      /\ \A t \in Seqs : /\ segs'[t].lo = segs[t].lo /\ segs'[t].size = segs[t].size
                         /\ segs[t].closed => segs'[t].closed
                         /\ t # s => segs'[t] = segs[t]
      /\ segs'[s].durable = segs[s].size
  BY SealPoint
<1>2. \A t \in Seqs : segs[t].durable <= segs'[t].durable
  BY <1>1, OpenIsLast DEF IInv, TypeOK, Layout, Segment
<1>3. Marks'
  BY <1>1 DEF IInv, Marks, Passed, NotAhead
<1>4. InMemory'
  <2>1. \A x \in inflight : Before(cursor, x.pos) => x.pos.off <= segs'[x.pos.seg].durable
    BY <1>1, <1>2 DEF IInv, TypeOK, InMemory, Pos, Segment
  <2>2. reader.busy /\ reader.seg \in Seqs => reader.limit <= segs'[reader.seg].durable
    BY <1>1, <1>2 DEF IInv, TypeOK, InMemory, Segment
  <2> QED BY <1>1, <2>1, <2>2 DEF IInv, InMemory, Before
<1> QED BY <1>3, <1>4

\* The syncer's tick keeps the invariant.
LEMMA SyncTickInv ==
  ASSUME IInv, SyncTick
  PROVE  IInv'
<1>1. PICK s \in Cur : /\ segs' = Synced(segs, s)
                       /\ released' = released \cup Covered(s)
                       /\ pending' = pending \ Covered(s)
  BY DEF SyncTick
<1>2. /\ Layout' /\ Numbered' /\ Framed' /\ Kept' /\ Sized'
      /\ segs' \in [Seqs' -> Segment] /\ Seqs' \subseteq Nat
      /\ pending' = {} /\ released' \subseteq Nat
  BY <1>1, SealStep DEF SyncTick, MuFree
<1>3. Marks' /\ InMemory'
  BY <1>1, <1>2, SealMarks DEF SyncTick, MuFree
<1>4. TypeOK'
  BY <1>2 DEF IInv, TypeOK, SyncTick
<1> QED BY <1>2, <1>3, <1>4 DEF IInv

\* An Append that finds the buffer full keeps the invariant (it may rotate).
LEMMA AppendBlocksInv ==
  ASSUME IInv, NEW w \in Writer, AppendBlocks(w)
  PROVE  IInv'
<1>1. /\ writer' \in [Writer -> [st : {"idle", "call", "wait"}, need : Nat]]
      /\ \A v \in Writer : writer'[v].st # "idle" => writer'[v].need \in FrameSizes
  <2>1. /\ writer' = [writer EXCEPT ![w].st = "wait"] /\ writer[w].st = "call"
    BY DEF AppendBlocks, Admitted
  <2> QED BY <2>1 DEF IInv, TypeOK
<1>2. CASE \E s \in Cur : segs[s].size > 0
  <2>1. PICK s \in Cur : /\ segs' = Shut(segs, s)
                         /\ released' = released \cup Covered(s)
                         /\ pending' = pending \ Covered(s)
    BY <1>2 DEF AppendBlocks
  <2>2. /\ Layout' /\ Numbered' /\ Framed' /\ Kept' /\ Sized'
        /\ segs' \in [Seqs' -> Segment] /\ Seqs' \subseteq Nat
        /\ pending' = {} /\ released' \subseteq Nat
    BY <2>1, SealStep DEF AppendBlocks, Admitted, MuFree
  <2>3. Marks' /\ InMemory'
    BY <2>1, <2>2, SealMarks DEF AppendBlocks, Admitted, MuFree
  <2>4. TypeOK'
    BY <1>1, <2>2 DEF IInv, TypeOK, AppendBlocks
  <2> QED BY <2>2, <2>3, <2>4 DEF IInv
<1>3. CASE ~\E s \in Cur : segs[s].size > 0
  <2>1. UNCHANGED <<segs, released, pending>>
    BY <1>3 DEF AppendBlocks
  <2>2. TypeOK'
    BY <1>1, <2>1 DEF IInv, TypeOK, AppendBlocks
  <2> QED BY <2>1, <2>2, IdleStep DEF AppendBlocks
<1> QED BY <1>2, <1>3

-----------------------------------------------------------------------------
(* Writing *)

\* The frame goes to the open segment.
LEMMA AppendHereInv ==
  ASSUME IInv, NEW w \in Writer, AppendHere(w)
  PROVE  IInv'
<1> DEFINE n == writer[w].need
<1>1. PICK s \in Cur : segs[s].size + n <= SegmentBytes /\ WriteFrame(w, Grown(segs, s, n))
  BY DEF AppendHere
<1>2. /\ up /\ ~reaping /\ n \in Nat /\ n > 0 /\ total + n <= MaxBytes
      /\ writer[w].st = "call"
  BY SizesAssumption DEF IInv, TypeOK, AppendHere, Admitted, MuFree
<1>3. /\ s \in Seqs /\ ~segs[s].closed /\ s + 1 \notin Seqs
      /\ HiOf(segs[s]) = tail /\ nextSeq = s + 1
      /\ \A t \in Seqs : t <= s /\ (t # s => segs[t].closed)
  BY <1>2, OpenIsLast
<1>4. /\ segs' = Grown(segs, s, n) /\ total' = total + n /\ tail' = tail + n
      /\ frames' = frames \cup {[lo |-> tail, hi |-> tail + n]}
      /\ writer' = [writer EXCEPT ![w] = Idle]
      /\ UNCHANGED <<up, diskCursor, cursor, readPos, stopping, closed, fatal,
                     reaping, reader, inflight, acked, handed, written, downs>>
      /\ pending' = pending \cup {tail + n} /\ UNCHANGED <<nextSeq, released>>
  BY <1>1 DEF WriteFrame, AppendHere
<1> HIDE DEF n
<1>5. /\ DOMAIN segs' = Seqs /\ segs' \in [Seqs -> Segment]
      /\ \A t \in Seqs : /\ segs'[t].lo = segs[t].lo /\ segs'[t].durable = segs[t].durable
                         /\ segs'[t].closed = segs[t].closed
                         /\ t # s => segs'[t] = segs[t]
      /\ segs'[s].size = segs[s].size + n
  <2>1. Seqs \in SUBSET Nat /\ segs \in [Seqs -> Segment]
    BY DEF IInv, TypeOK
  <2>2. /\ Grown(segs, s, n) \in [Seqs -> Segment] /\ DOMAIN Grown(segs, s, n) = Seqs
        /\ \A t \in Seqs : /\ Grown(segs, s, n)[t].lo = segs[t].lo
                           /\ Grown(segs, s, n)[t].durable = segs[t].durable
                           /\ Grown(segs, s, n)[t].closed = segs[t].closed
                           /\ t # s => Grown(segs, s, n)[t] = segs[t]
        /\ Grown(segs, s, n)[s].size = segs[s].size + n
    <3> HIDE DEF Seqs
    <3>1. s \in Seqs /\ n \in Nat
      BY <1>2, <1>3
    <3> QED BY ONLY <2>1, <3>1, GrownPoint
  <2>3. segs' = Grown(segs, s, n)
    BY <1>4
  <2> QED BY ONLY <2>2, <2>3
<1>6. TypeOK'
  <2>1. \A v \in Writer : writer'[v].st # "idle" => writer'[v].need \in FrameSizes
    BY <1>4 DEF IInv, TypeOK
  <2> QED BY <1>2, <1>4, <1>5, <2>1 DEF IInv, TypeOK
<1>7. Layout'
  <2>1. \A t \in Seqs : t # s => t + 1 \in Seqs
    BY <1>2, <1>3 DEF IInv, TypeOK, Numbered, Layout
  <2>2. /\ segs'[s].durable <= segs'[s].size /\ HiOf(segs'[s]) = tail'
        /\ ~segs'[s].closed
    BY <1>2, <1>3, <1>4, <1>5 DEF IInv, TypeOK, Layout, Segment
  <2>3. \A t \in Seqs : t # s => HiOf(segs'[t]) = segs'[t + 1].lo
    BY <1>5, <2>1 DEF IInv, Layout
  <2>4. \A t, u \in Seqs : t < u => t # s /\ HiOf(segs'[t]) <= segs'[u].lo
    <3>1. \A t, u \in Seqs : t < u => t # s
      BY <1>3 DEF IInv, TypeOK
    <3> QED BY <3>1, <1>5 DEF IInv, Layout
  <2> QED BY <1>3, <1>4, <1>5, <2>1, <2>2, <2>3, <2>4 DEF IInv, Layout
<1>8. Numbered' /\ Marks'
  <2>1. Numbered'
    BY <1>4, <1>5 DEF IInv, Numbered
  <2>2. ASSUME NEW c \in Pos, Passed(c) PROVE Passed(c)'
    <3>1. \A t \in Seqs : t < c.seg => t # s
      BY <1>3, <2>2 DEF Passed
    <3> QED BY <1>4, <1>5, <2>2, <3>1 DEF Passed
  <2>3. Passed(cursor)' /\ Passed(diskCursor)'
    BY <1>2, <1>4, <2>2 DEF IInv, TypeOK, Marks
  <2> QED BY <1>2, <1>3, <1>4, <1>5, <2>1, <2>3 DEF IInv, Marks, NotAhead
<1>9. InMemory'
  <2>1. ASSUME NEW e \in pending'
        PROVE  /\ ~segs'[s].closed
               /\ segs'[s].lo + segs'[s].durable < e /\ e <= HiOf(segs'[s])
    <3>1. CASE e \in pending
      <4>1. segs[s].lo + segs[s].durable < e /\ e <= HiOf(segs[s])
        BY <1>3, <3>1 DEF IInv, InMemory
      <4> QED BY <4>1, <1>2, <1>3, <1>5, <3>1 DEF IInv, TypeOK, Segment
    <3>2. CASE e = tail + n
      BY <3>2, <1>2, <1>3, <1>5 DEF IInv, TypeOK, Layout, Segment
    <3> QED BY <3>1, <3>2, <1>4
  <2> QED BY <1>2, <1>3, <1>4, <1>5, <2>1 DEF IInv, InMemory, Before
<1>10. Framed'
  <2>1. \A f \in frames' : f.lo < f.hi
    BY <1>2, <1>4 DEF IInv, TypeOK, Framed
  <2>2. \A t \in Seqs : Boundary(t, segs[t].durable)' /\ (t # s => Boundary(t, segs[t].size)')
    BY <1>2, <1>4, <1>5 DEF IInv, Framed, Boundary
  <2>3. Boundary(s, segs[s].size)'
    <3>1. [lo |-> tail, hi |-> tail + n] \in frames'
      BY <1>4
    <3>2. segs'[s].lo <= tail /\ tail + n = segs'[s].lo + segs'[s].size
      BY <1>2, <1>3, <1>5 DEF IInv, TypeOK, Segment
    <3> QED BY <3>1, <3>2 DEF Boundary
  <2> QED BY <1>5, <2>1, <2>2, <2>3 DEF Framed
<1>11. Kept'
  BY <1>4, <1>5 DEF IInv, Kept
<1>12. Sized'
  <2>1. ASSUME NEW t \in Seqs PROVE tail' - segs'[t].lo <= MaxBytes
    <3>1. tail - segs[t].lo <= total
      BY <1>2, TotalCovers
    <3> QED BY <1>2, <1>4, <1>5, <3>1, SizesAssumption DEF IInv, TypeOK, Segment
  <2>2. ASSUME NEW t \in Seqs, t - 1 \notin Seqs PROVE total' = tail' - segs'[t].lo
    <3>1. total = tail - segs[t].lo
      BY <1>2, <2>2 DEF IInv, Sized
    <3> QED BY <1>2, <1>4, <1>5, <3>1 DEF IInv, TypeOK, Segment
  <2> QED BY <1>3, <1>5, <2>1, <2>2 DEF Sized
<1> QED BY <1>6, <1>7, <1>8, <1>9, <1>10, <1>11, <1>12 DEF IInv

\* A new segment is created behind closed ones, and n bytes are written to it.
LEMMA NewSegment ==
  ASSUME IInv, up, ~reaping, NEW n \in Nat, total + n <= MaxBytes,
         DOMAIN segs' = Seqs \cup {nextSeq}, segs' \in [Seqs \cup {nextSeq} -> Segment],
         \A t \in Seqs : /\ segs'[t].lo = segs[t].lo /\ segs'[t].size = segs[t].size
                         /\ segs'[t].durable = segs[t].size /\ segs'[t].closed,
         segs'[nextSeq].lo = tail, segs'[nextSeq].size = n, segs'[nextSeq].durable = 0,
         ~segs'[nextSeq].closed,
         nextSeq' = nextSeq + 1, total' = total + n, tail' = tail + n,
         frames \subseteq frames', \A f \in frames' : f.lo < f.hi,
         n = 0 \/ [lo |-> tail, hi |-> tail + n] \in frames',
         \A e \in released' : e \in released \/ e \in pending,
         \A e \in pending' : e = tail + n /\ n > 0,
         UNCHANGED <<up, diskCursor, cursor, reaping, reader, inflight, acked>>
  PROVE  Layout' /\ Numbered' /\ Marks' /\ InMemory' /\ Framed' /\ Kept' /\ Sized'
<1> DEFINE q == nextSeq
<1>1. /\ q \in Nat /\ q >= 1 /\ q \notin Seqs /\ Seqs \subseteq Nat
      /\ \A t \in Seqs : t < q
      /\ Seqs # {} => q - 1 \in Seqs
      /\ tail \in Nat /\ total \in Nat /\ acked \in Nat
  BY DEF IInv, TypeOK, Numbered
<1>2. \A t \in Seqs : /\ segs[t].lo \in Nat /\ segs[t].size \in Nat /\ segs[t].durable \in Nat
                      /\ segs[t].durable <= segs[t].size
                      /\ segs[t].lo + segs[t].size <= tail
  <2>1. \A t \in Seqs : HiOf(segs[t]) <= tail
    BY WithinLog
  <2> QED BY <2>1 DEF IInv, TypeOK, Layout, Segment
<1>3. \A t \in Seqs : t # q - 1 => t + 1 \in Seqs
  <2>1. ASSUME NEW t \in Seqs, t # q - 1 PROVE t + 1 \in Seqs
    <3>1. q - 1 \in Seqs /\ t + 1 \in t .. (q - 1)
      BY <1>1, <2>1
    <3> QED BY <3>1 DEF IInv, Layout
  <2> QED BY <2>1
<1>4. Layout'
  <2>1. \A s, t \in Seqs \cup {q} : \A m \in s .. t : m \in Seqs \cup {q}
    <3>1. ASSUME NEW s \in Seqs, NEW m \in s .. q, m # q PROVE m \in Seqs
      <4>1. q - 1 \in Seqs /\ m \in s .. (q - 1)
        BY <1>1, <3>1
      <4> QED BY <4>1 DEF IInv, Layout
    <3>2. ASSUME NEW t \in Seqs, NEW m \in q .. t PROVE m \in Seqs
      BY <1>1
    <3>3. \A s, t \in Seqs : \A m \in s .. t : m \in Seqs
      BY DEF IInv, Layout
    <3>4. \A m \in q .. q : m = q
      BY <1>1
    <3> QED BY <3>1, <3>2, <3>3, <3>4
  <2>2. \A s \in Seqs \cup {q} :
          /\ segs'[s].durable <= segs'[s].size
          /\ segs'[s].closed => segs'[s].durable = segs'[s].size
    BY <1>1, <1>2
  <2>3. \A s \in Seqs : s + 1 \in Seqs \cup {q} /\ HiOf(segs'[s]) = segs'[s + 1].lo
    <3>1. ASSUME NEW s \in Seqs, s # q - 1
          PROVE  s + 1 \in Seqs /\ HiOf(segs'[s]) = segs'[s + 1].lo
      BY <1>3, <3>1 DEF IInv, Layout
    <3>2. ASSUME q - 1 \in Seqs PROVE HiOf(segs'[q - 1]) = segs'[q].lo
      <4>1. q \notin Seqs /\ (q - 1) + 1 = q
        BY <1>1
      <4>2. HiOf(segs[q - 1]) = tail
        BY <4>1, <3>2 DEF IInv, Layout
      <4> QED BY <4>2, <3>2
    <3>3. ASSUME NEW s \in Seqs, s = q - 1 PROVE s + 1 = q
      BY <1>1, <3>3
    <3> QED BY <3>1, <3>2, <3>3
  <2>4. q + 1 \notin Seqs \cup {q} /\ HiOf(segs'[q]) = tail'
    BY <1>1
  <2>5. \A s, t \in Seqs \cup {q} : s < t => HiOf(segs'[s]) <= segs'[t].lo
    <3>1. \A s, t \in Seqs : s < t => HiOf(segs'[s]) <= segs'[t].lo
      BY DEF IInv, Layout
    <3>2. \A s \in Seqs : HiOf(segs'[s]) <= segs'[q].lo
      BY <1>2
    <3>3. \A t \in Seqs \cup {q} : ~(q < t)
      BY <1>1
    <3> QED BY <3>1, <3>2, <3>3
  <2> QED BY <1>1, <2>1, <2>2, <2>3, <2>4, <2>5 DEF Layout, IInv
<1>5. Numbered'
  BY <1>1 DEF Numbered
<1>6. Marks'
  <2>1. ASSUME NEW c \in Pos, Passed(c), NotAhead(c) PROVE Passed(c)' /\ NotAhead(c)'
    <3>1. c.seg = q => c.off = 0 /\ tail <= acked
      <4>1. c.seg = q /\ q - 1 \in Seqs => HiOf(segs[q - 1]) <= acked
        BY <1>1, <2>1 DEF Passed
      <4>2. q - 1 \in Seqs => HiOf(segs[q - 1]) = tail
        BY <1>1 DEF IInv, Layout
      <4>3. Seqs = {} => tail <= acked
        BY DEF IInv, Marks
      <4> QED BY <1>1, <2>1, <4>1, <4>2, <4>3 DEF NotAhead
    <3>2. Passed(c)'
      BY <1>1, <1>2, <2>1, <3>1 DEF Passed, NotAhead, Pos
    <3> QED BY <1>1, <2>1, <3>2 DEF NotAhead, Pos
  <2>2. /\ Passed(cursor) /\ NotAhead(cursor) /\ cursor \in Pos
        /\ Passed(diskCursor) /\ NotAhead(diskCursor) /\ diskCursor \in Pos
    BY DEF IInv, TypeOK, Marks
  <2>3. /\ Passed(cursor)' /\ NotAhead(cursor)'
        /\ Passed(diskCursor)' /\ NotAhead(diskCursor)'
    BY <2>1, <2>2
  <2>4. \A s \in Seqs \cup {q} : s - 1 \notin Seqs \cup {q} => segs'[s].lo <= acked
    BY <1>1 DEF IInv, Marks
  <2> QED BY <2>3, <2>4 DEF Marks
<1>7. InMemory'
  <2>1. ASSUME NEW e \in pending'
        PROVE  segs'[q].lo + segs'[q].durable < e /\ e <= HiOf(segs'[q])
    BY <1>1
  <2>2. \A x \in inflight : Before(cursor, x.pos) =>
          /\ x.pos.seg \in Seqs
          /\ x.end = segs[x.pos.seg].lo + x.pos.off
          /\ x.pos.off <= segs[x.pos.seg].durable
    BY DEF IInv, InMemory
  <2>3. \A x \in inflight : Before(cursor, x.pos) => x.pos.off <= segs'[x.pos.seg].durable
    BY <1>2, <2>2 DEF IInv, TypeOK, Pos
  <2>4. reader.busy => /\ reader.seg < q /\ reader.seg \in Nat
                       /\ reader.seg \in Seqs => reader.limit <= segs'[reader.seg].durable
    BY <1>2 DEF IInv, TypeOK, InMemory
  <2> QED BY <1>1, <2>1, <2>2, <2>3, <2>4 DEF InMemory, Before
<1>8. Framed'
  <2>1. \A t \in Seqs : Boundary(t, segs[t].size)'
    BY DEF IInv, Framed, Boundary
  <2>2. segs'[q].size = 0 \/ \E f \in frames' :
                               segs'[q].lo <= f.lo /\ f.hi = segs'[q].lo + segs'[q].size
    <3>1. CASE n # 0
      <4>1. [lo |-> tail, hi |-> tail + n] \in frames'
        BY <3>1
      <4> QED BY <1>1, <4>1
    <3> QED BY <3>1
  <2>3. \A t \in Seqs : t # q
    BY <1>1
  <2> QED BY <2>1, <2>2, <2>3 DEF Framed, Boundary
<1>9. Kept'
  <2>1. ASSUME NEW e \in released, ~(e <= acked)
        PROVE  \E s \in Seqs : segs'[s].lo < e /\ e <= segs'[s].lo + segs'[s].durable
    <3>1. PICK s \in Seqs : segs[s].lo < e /\ e <= segs[s].lo + segs[s].durable
      BY <2>1 DEF IInv, Kept
    <3>2. e \in Nat
      BY DEF IInv, TypeOK
    <3> QED BY <3>1, <3>2, <1>2
  <2>2. ASSUME NEW e \in pending
        PROVE  \E s \in Seqs : segs'[s].lo < e /\ e <= segs'[s].lo + segs'[s].durable
    <3>1. PICK s \in Seqs : segs[s].lo + segs[s].durable < e /\ e <= HiOf(segs[s])
      BY DEF IInv, InMemory
    <3>2. e \in Nat
      BY DEF IInv, TypeOK
    <3> QED BY <3>1, <3>2, <1>2
  <2> QED BY <2>1, <2>2 DEF Kept
<1>10. Sized'
  <2>1. \A t \in Seqs : tail - segs[t].lo <= total
    BY TotalCovers
  <2>2. \A t \in Seqs \cup {q} : tail' - segs'[t].lo <= MaxBytes
    BY <1>1, <1>2, <2>1, SizesAssumption
  <2>3. ASSUME NEW t \in Seqs, t - 1 \notin Seqs PROVE total' = tail' - segs'[t].lo
    <3>1. total = tail - segs[t].lo
      BY <2>3 DEF IInv, Sized
    <3> QED BY <1>1, <1>2, <3>1
  <2>4. ASSUME q - 1 \notin Seqs PROVE total' = tail' - segs'[q].lo
    <3>1. total = 0
      BY <1>1, <2>4 DEF IInv, Sized
    <3> QED BY <1>1, <3>1
  <2> QED BY <1>1, <2>2, <2>3, <2>4 DEF Sized
<1> QED BY <1>4, <1>5, <1>6, <1>7, <1>8, <1>9, <1>10

\* The segments after one was created behind those of sg.
LEMMA CreatedPoint ==
  ASSUME IInv, NEW sg \in [Seqs -> Segment], nextSeq \notin Seqs, NEW n \in Nat,
         segs' = Opened(sg, nextSeq, n)
  PROVE  /\ DOMAIN segs' = Seqs \cup {nextSeq} /\ segs' \in [Seqs \cup {nextSeq} -> Segment]
         /\ \A t \in Seqs : segs'[t] = sg[t]
         /\ segs'[nextSeq].lo = tail /\ segs'[nextSeq].size = n
         /\ segs'[nextSeq].durable = 0 /\ ~segs'[nextSeq].closed
<1> DEFINE q == nextSeq
           op == Opened(sg, q, n)
<1>1. Seqs \in SUBSET Nat /\ q \in Nat /\ tail \in Nat
  BY DEF IInv, TypeOK
<1>2. /\ op \in [Seqs \cup {q} -> Segment] /\ DOMAIN op = Seqs \cup {q}
      /\ \A t \in Seqs : op[t] = sg[t]
      /\ op[q] = [lo |-> tail, size |-> n, durable |-> 0, closed |-> FALSE]
  BY <1>1 DEF Opened, Segment
<1> HIDE DEF op
<1>3. /\ segs' \in [Seqs \cup {q} -> Segment] /\ DOMAIN segs' = Seqs \cup {q}
      /\ \A t \in Seqs : segs'[t] = sg[t]
      /\ segs'[q] = [lo |-> tail, size |-> n, durable |-> 0, closed |-> FALSE]
  <2>1. segs' = op
    BY DEF op
  <2> QED BY <1>2, <2>1, Zenon
<1>4. /\ segs'[q].lo = tail /\ segs'[q].size = n
      /\ segs'[q].durable = 0 /\ ~segs'[q].closed
  BY <1>3
<1> QED BY <1>3, <1>4

\* An Append that rotates and opens a segment keeps the invariant.
LEMMA AppendRotatesInv ==
  ASSUME IInv, NEW w \in Writer, AppendRotates(w)
  PROVE  IInv'
<1> DEFINE n == writer[w].need
<1>1. PICK s \in Cur : /\ WriteFrame(w, Opened(Shut(segs, s), nextSeq, n))
                       /\ released' = released \cup Covered(s)
                       /\ pending' = (pending \ Covered(s)) \cup {tail + n}
  BY DEF AppendRotates
<1>2. /\ up /\ ~reaping /\ n \in Nat /\ n > 0 /\ total + n <= MaxBytes
  BY SizesAssumption DEF IInv, TypeOK, AppendRotates, Admitted, MuFree
<1>3. /\ s \in Seqs /\ ~segs[s].closed /\ s + 1 \notin Seqs
      /\ HiOf(segs[s]) = tail /\ nextSeq = s + 1
      /\ \A t \in Seqs : t <= s /\ (t # s => segs[t].closed)
  BY <1>2, OpenIsLast
<1>4. /\ Shut(segs, s) \in [Seqs -> Segment]
      /\ \A t \in Seqs : /\ Shut(segs, s)[t].lo = segs[t].lo
                         /\ Shut(segs, s)[t].size = segs[t].size
                         /\ t # s => Shut(segs, s)[t] = segs[t]
      /\ Shut(segs, s)[s].durable = segs[s].size
      /\ Shut(segs, s)[s].closed
  <2>1. Seqs \in SUBSET Nat /\ segs \in [Seqs -> Segment]
    BY DEF IInv, TypeOK
  <2> QED BY <2>1, <1>3, ShutPoint
<1>5. /\ nextSeq' = nextSeq + 1 /\ total' = total + n /\ tail' = tail + n
      /\ frames' = frames \cup {[lo |-> tail, hi |-> tail + n]}
      /\ writer' = [writer EXCEPT ![w] = Idle]
      /\ UNCHANGED <<up, diskCursor, cursor, readPos, stopping, closed, fatal,
                     reaping, reader, inflight, acked, handed, written, downs>>
  BY <1>1 DEF WriteFrame, AppendRotates
<1>6. /\ DOMAIN segs' = Seqs \cup {nextSeq} /\ segs' \in [Seqs \cup {nextSeq} -> Segment]
      /\ \A t \in Seqs : segs'[t] = Shut(segs, s)[t]
      /\ segs'[nextSeq].lo = tail /\ segs'[nextSeq].size = n
      /\ segs'[nextSeq].durable = 0 /\ ~segs'[nextSeq].closed
  <2>1. segs' = Opened(Shut(segs, s), nextSeq, n)
    BY <1>1 DEF WriteFrame
  <2>2. nextSeq \notin Seqs
    BY <1>3
  <2> QED BY <1>2, <1>4, <2>1, <2>2, CreatedPoint
<1>7. \A t \in Seqs : /\ segs'[t].lo = segs[t].lo /\ segs'[t].size = segs[t].size
                      /\ segs'[t].durable = segs[t].size /\ segs'[t].closed
  <2>1. \A t \in Seqs : t # s => segs'[t] = segs[t]
    BY <1>4, <1>6
  <2>2. \A t \in Seqs : t # s => segs[t].closed /\ segs[t].durable = segs[t].size
    BY <1>3 DEF IInv, Layout
  <2>3. segs'[s] = Shut(segs, s)[s]
    BY <1>3, <1>6
  <2>4. /\ segs'[s].lo = segs[s].lo /\ segs'[s].size = segs[s].size
        /\ segs'[s].durable = segs[s].size /\ segs'[s].closed
    BY <1>3, <1>4, <2>3
  <2> QED BY <2>1, <2>2, <2>4
<1>8. /\ \A f \in frames' : f.lo < f.hi
      /\ \A e \in released' : e \in released \/ e \in pending
      /\ \A e \in pending' : e = tail + n /\ n > 0
  <2>1. \A f \in frames' : f.lo < f.hi
    BY <1>2, <1>5 DEF IInv, TypeOK, Framed
  <2>2. \A e \in released' : e \in released \/ e \in pending
    BY <1>1 DEF Covered
  <2>3. pending \ Covered(s) = {}
    <3>1. CASE segs[s].durable = segs[s].size
      <4>1. \A e \in pending : segs[s].lo + segs[s].durable < e /\ e <= HiOf(segs[s])
        BY <1>3 DEF IInv, InMemory
      <4> QED BY <3>1, <4>1, <1>3 DEF IInv, TypeOK, Segment
    <3>2. CASE segs[s].durable # segs[s].size
      BY <3>2 DEF Covered
    <3> QED BY <3>1, <3>2
  <2> QED BY <1>1, <1>2, <2>1, <2>2, <2>3
<1>9. TypeOK'
  <2>1. \A v \in Writer : writer'[v].st # "idle" => writer'[v].need \in FrameSizes
    BY <1>5 DEF IInv, TypeOK
  <2>2. Seqs' \subseteq Nat /\ segs' \in [Seqs' -> Segment]
    BY <1>6 DEF IInv, TypeOK
  <2>3. pending' \subseteq Nat /\ released' \subseteq Nat
    BY <1>2, <1>8 DEF IInv, TypeOK
  <2> QED BY <1>2, <1>5, <2>1, <2>2, <2>3 DEF IInv, TypeOK
<1> HIDE DEF n
<1>10. Layout' /\ Numbered' /\ Marks' /\ InMemory' /\ Framed' /\ Kept' /\ Sized'
  BY <1>2, <1>5, <1>6, <1>7, <1>8, NewSegment
<1> QED BY <1>9, <1>10 DEF IInv

\* Without an open segment there is nothing to fsync.
LEMMA NothingOpen ==
  ASSUME IInv, up, Cur = {}
  PROVE  /\ \A t \in Seqs : segs[t].closed /\ segs[t].durable = segs[t].size
         /\ pending = {}
<1>1. \A t \in Seqs : t \in Nat /\ t < nextSeq /\ nextSeq - 1 \in Seqs /\ nextSeq \in Nat
  BY DEF IInv, TypeOK, Numbered
<1>2. ASSUME NEW t \in Seqs PROVE segs[t].closed
  <2>1. CASE t = nextSeq - 1
    <3>1. \A u \in Seqs : u <= t
      BY <1>1, <2>1
    <3> QED BY <3>1 DEF Cur
  <2>2. CASE t # nextSeq - 1
    <3>1. t + 1 \in t .. (nextSeq - 1)
      BY <1>1, <2>2
    <3>2. t + 1 \in Seqs
      BY <1>1, <3>1 DEF IInv, Layout
    <3> QED BY <3>2 DEF IInv, Layout
  <2> QED BY <2>1, <2>2
<1>3. \A t \in Seqs : segs[t].durable = segs[t].size
  BY <1>2 DEF IInv, Layout
<1>4. pending = {}
  BY <1>2 DEF IInv, InMemory
<1> QED BY <1>2, <1>3, <1>4

\* An Append that opens the first segment keeps the invariant.
LEMMA AppendOpensInv ==
  ASSUME IInv, NEW w \in Writer, AppendOpens(w)
  PROVE  IInv'
<1> DEFINE n == writer[w].need
<1>1. /\ up /\ ~reaping /\ n \in Nat /\ n > 0 /\ total + n <= MaxBytes /\ Cur = {}
  BY SizesAssumption DEF IInv, TypeOK, AppendOpens, Admitted, MuFree
<1>2. /\ WriteFrame(w, Opened(segs, nextSeq, n))
      /\ pending' = pending \cup {tail + n} /\ nextSeq' = nextSeq + 1 /\ UNCHANGED released
  BY DEF AppendOpens
<1>3. /\ total' = total + n /\ tail' = tail + n
      /\ frames' = frames \cup {[lo |-> tail, hi |-> tail + n]}
      /\ writer' = [writer EXCEPT ![w] = Idle]
      /\ UNCHANGED <<up, diskCursor, cursor, readPos, stopping, closed, fatal,
                     reaping, reader, inflight, acked, handed, written, downs>>
  BY <1>2 DEF WriteFrame
<1>4. /\ \A t \in Seqs : segs[t].closed /\ segs[t].durable = segs[t].size
      /\ pending = {}
  BY <1>1, NothingOpen
<1>5. /\ DOMAIN segs' = Seqs \cup {nextSeq} /\ segs' \in [Seqs \cup {nextSeq} -> Segment]
      /\ \A t \in Seqs : segs'[t] = segs[t]
      /\ segs'[nextSeq].lo = tail /\ segs'[nextSeq].size = n
      /\ segs'[nextSeq].durable = 0 /\ ~segs'[nextSeq].closed
  <2>1. segs \in [Seqs -> Segment] /\ nextSeq \notin Seqs
    BY <1>1 DEF IInv, TypeOK, Numbered
  <2>2. segs' = Opened(segs, nextSeq, n)
    BY <1>2 DEF WriteFrame
  <2> QED BY <1>1, <2>1, <2>2, CreatedPoint
<1>6. TypeOK'
  <2>1. \A v \in Writer : writer'[v].st # "idle" => writer'[v].need \in FrameSizes
    BY <1>3 DEF IInv, TypeOK
  <2>2. Seqs' \subseteq Nat /\ segs' \in [Seqs' -> Segment]
    BY <1>5 DEF IInv, TypeOK
  <2> QED BY <1>1, <1>2, <1>3, <2>1, <2>2 DEF IInv, TypeOK
<1>7. \A f \in frames' : f.lo < f.hi
  BY <1>1, <1>3 DEF IInv, TypeOK, Framed
<1>8. \A t \in Seqs : /\ segs'[t].lo = segs[t].lo /\ segs'[t].size = segs[t].size
                      /\ segs'[t].durable = segs[t].size /\ segs'[t].closed
  BY <1>4, <1>5
<1> HIDE DEF n
<1>9. Layout' /\ Numbered' /\ Marks' /\ InMemory' /\ Framed' /\ Kept' /\ Sized'
  BY <1>1, <1>2, <1>3, <1>4, <1>5, <1>7, <1>8, NewSegment
<1> QED BY <1>6, <1>9 DEF IInv

\* Shutting whatever is open leaves every segment closed and fsynced.
LEMMA ShutAll ==
  ASSUME IInv, up, NEW sh,
         sh = [t \in Seqs |-> IF t \in Cur THEN Shut(segs, t)[t] ELSE segs[t]]
  PROVE  /\ DOMAIN sh = Seqs /\ sh \in [Seqs -> Segment]
         /\ \A t \in Seqs : /\ sh[t].lo = segs[t].lo /\ sh[t].size = segs[t].size
                            /\ sh[t].durable = segs[t].size /\ sh[t].closed
<1>1. Seqs \in SUBSET Nat /\ segs \in [Seqs -> Segment]
  BY DEF IInv, TypeOK
<1>2. ASSUME NEW t \in Seqs, t \in Cur
      PROVE  /\ sh[t] \in Segment
             /\ sh[t].lo = segs[t].lo /\ sh[t].size = segs[t].size
             /\ sh[t].durable = segs[t].size /\ sh[t].closed
  <2> DEFINE g == Shut(segs, t)
  <2>1. /\ g \in [Seqs -> Segment]
        /\ g[t].lo = segs[t].lo /\ g[t].size = segs[t].size
        /\ g[t].durable = segs[t].size /\ g[t].closed
    BY <1>1, ShutPoint
  <2>2. sh[t] = g[t]
    BY <1>2
  <2> HIDE DEF g
  <2>3. g[t] \in Segment
    BY <2>1
  <2> QED BY <2>1, <2>2, <2>3
<1>3. ASSUME NEW t \in Seqs, t \notin Cur
      PROVE  sh[t] = segs[t] /\ segs[t].closed /\ segs[t].durable = segs[t].size
  <2>1. sh[t] = segs[t]
    BY <1>3
  <2>2. segs[t].closed
    <3>1. CASE \E s \in Cur : TRUE
      <4>1. PICK s \in Cur : TRUE
        BY <3>1
      <4> QED BY <1>3, <4>1, OpenIsLast
    <3>2. CASE Cur = {}
      BY <3>2, NothingOpen
    <3> QED BY <3>1, <3>2
  <2> QED BY <2>1, <2>2 DEF IInv, Layout
<1>4. \A t \in Seqs : sh[t] \in Segment
  BY <1>1, <1>2, <1>3
<1>5. sh \in [Seqs -> Segment]
  BY <1>4
<1> QED BY <1>2, <1>3, <1>5

\* An Append whose rotation or new file fails half-way keeps the invariant.
LEMMA AppendFailsInv ==
  ASSUME IInv, NEW w \in Writer, AppendFails(w)
  PROVE  IInv'
<1> DEFINE sh == [t \in Seqs |-> IF t \in Cur THEN Shut(segs, t)[t] ELSE segs[t]]
<1>1. up /\ ~reaping /\ total <= MaxBytes /\ total \in Nat /\ tail \in Nat
  <2>1. total + writer[w].need <= MaxBytes /\ writer[w].need \in Nat
    BY DEF IInv, TypeOK, AppendFails, Admitted
  <2> QED BY <2>1, SizesAssumption DEF IInv, TypeOK, AppendFails, Admitted, MuFree
<1>2. /\ DOMAIN sh = Seqs /\ sh \in [Seqs -> Segment]
      /\ \A t \in Seqs : /\ sh[t].lo = segs[t].lo /\ sh[t].size = segs[t].size
                         /\ sh[t].durable = segs[t].size /\ sh[t].closed
  BY <1>1, ShutAll
<1>3. \/ segs' = sh /\ UNCHANGED nextSeq
      \/ segs' = Opened(sh, nextSeq, 0) /\ nextSeq' = nextSeq + 1
  BY DEF AppendFails
<1>4. /\ released' = released \cup pending /\ pending' = {}
      /\ writer' = [Woken EXCEPT ![w] = Idle] /\ fatal' = TRUE
      /\ UNCHANGED <<up, diskCursor, total, cursor, readPos, stopping, closed, reaping, reader,
                     inflight, frames, tail, acked, handed, written, downs>>
  BY DEF AppendFails
<1> HIDE DEF sh
<1>5. /\ writer' \in [Writer -> [st : {"idle", "call", "wait"}, need : Nat]]
      /\ \A v \in Writer : writer'[v].st # "idle" => writer'[v].need \in FrameSizes
  BY <1>4, WokenType DEF IInv
<1>6. CASE segs' = sh /\ UNCHANGED nextSeq
  <2>1. /\ DOMAIN segs' = Seqs /\ segs' \in [Seqs -> Segment]
        /\ \A t \in Seqs : /\ segs'[t].lo = segs[t].lo /\ segs'[t].size = segs[t].size
                           /\ segs'[t].durable = segs[t].size /\ segs'[t].closed
    BY <1>2, <1>6, Zenon
  <2>2. Layout' /\ Numbered' /\ Marks' /\ Sized'
    <3>1. Layout'
      BY <1>4, <2>1 DEF IInv, TypeOK, Layout, Segment
    <3>2. Numbered' /\ Sized'
      BY <1>4, <1>6, <2>1 DEF IInv, Numbered, Sized
    <3>3. Marks'
      BY <1>4, <1>6, <2>1 DEF IInv, Marks, Passed, NotAhead
    <3> QED BY <3>1, <3>2, <3>3
  <2>3. \A t \in Seqs : segs[t].durable <= segs'[t].durable
    BY <2>1 DEF IInv, Layout
  <2>4. InMemory'
    <3>1. \A x \in inflight : Before(cursor, x.pos) =>
            /\ x.pos.seg \in Seqs
            /\ x.end = segs[x.pos.seg].lo + x.pos.off
            /\ x.pos.off <= segs[x.pos.seg].durable
      BY DEF IInv, InMemory
    <3>2. \A x \in inflight : Before(cursor, x.pos) => x.pos.off <= segs'[x.pos.seg].durable
      BY <2>1, <2>3, <3>1 DEF IInv, TypeOK, Pos, Segment
    <3>3. reader.busy => /\ reader.seg < nextSeq
                         /\ reader.seg \in Seqs => reader.limit <= segs'[reader.seg].durable
      BY <2>1, <2>3 DEF IInv, TypeOK, InMemory, Segment
    <3> QED BY <1>1, <1>4, <1>6, <2>1, <3>1, <3>2, <3>3 DEF InMemory, Before
  <2>5. Framed'
    BY <1>1, <1>4, <2>1 DEF IInv, Framed, Boundary
  <2>6. Kept'
    <3>1. ASSUME NEW e \in released, ~(e <= acked)
          PROVE  \E s \in Seqs : segs'[s].lo < e /\ e <= segs'[s].lo + segs'[s].durable
      <4>1. PICK s \in Seqs : segs[s].lo < e /\ e <= segs[s].lo + segs[s].durable
        BY <3>1 DEF IInv, Kept
      <4> QED BY <4>1, <2>1, <2>3 DEF IInv, TypeOK, Segment
    <3>2. ASSUME NEW e \in pending
          PROVE  \E s \in Seqs : segs'[s].lo < e /\ e <= segs'[s].lo + segs'[s].durable
      <4>1. PICK s \in Seqs : segs[s].lo + segs[s].durable < e /\ e <= HiOf(segs[s])
        BY DEF IInv, InMemory
      <4> QED BY <4>1, <2>1 DEF IInv, TypeOK, Segment
    <3> QED BY <1>4, <2>1, <3>1, <3>2 DEF Kept
  <2>7. TypeOK'
    BY <1>4, <1>5, <1>6, <2>1 DEF IInv, TypeOK
  <2> QED BY <2>2, <2>4, <2>5, <2>6, <2>7 DEF IInv
<1>7. CASE segs' = Opened(sh, nextSeq, 0) /\ nextSeq' = nextSeq + 1
  <2>1. nextSeq \notin Seqs
    BY <1>1 DEF IInv, TypeOK, Numbered
  <2>2. /\ DOMAIN segs' = Seqs \cup {nextSeq} /\ segs' \in [Seqs \cup {nextSeq} -> Segment]
        /\ \A t \in Seqs : segs'[t] = sh[t]
        /\ segs'[nextSeq].lo = tail /\ segs'[nextSeq].size = 0
        /\ segs'[nextSeq].durable = 0 /\ ~segs'[nextSeq].closed
    BY <1>2, <1>7, <2>1, CreatedPoint
  <2>3. \A t \in Seqs : /\ segs'[t].lo = segs[t].lo /\ segs'[t].size = segs[t].size
                        /\ segs'[t].durable = segs[t].size /\ segs'[t].closed
    BY <1>2, <2>2
  <2>4. TypeOK'
    <3>1. Seqs' \subseteq Nat /\ segs' \in [Seqs' -> Segment]
      BY <2>2 DEF IInv, TypeOK
    <3> QED BY <1>4, <1>5, <1>7, <3>1 DEF IInv, TypeOK
  <2>5. /\ total' = total + 0 /\ tail' = tail + 0 /\ total + 0 <= MaxBytes
        /\ \A f \in frames' : f.lo < f.hi
    BY <1>1, <1>4 DEF IInv, Framed
  <2>6. Layout' /\ Numbered' /\ Marks' /\ InMemory' /\ Framed' /\ Kept' /\ Sized'
    BY <1>1, <1>4, <1>7, <2>2, <2>3, <2>5, NewSegment
  <2> QED BY <2>4, <2>6 DEF IInv
<1> QED BY <1>3, <1>6, <1>7

-----------------------------------------------------------------------------
(* Acknowledging and reaping *)

\* Moving on to the next segment passes nothing that is not confirmed.
LEMMA NormalKeeps ==
  ASSUME NEW c \in Pos, NEW d, d = Normal(segs', c),
         TypeOK', Layout', Numbered', up', Passed(c)', NotAhead(c)'
  PROVE  d \in Pos /\ Passed(d)' /\ NotAhead(d)'
<1>1. CASE c.seg \in DOMAIN segs' /\ segs'[c.seg].closed /\ c.off >= segs'[c.seg].size
  <2>1. d = [seg |-> c.seg + 1, off |-> 0]
    BY <1>1 DEF Normal
  <2>2. /\ d \in Pos /\ d.seg = c.seg + 1 /\ d.off = 0 /\ c.seg \in Nat
        /\ segs'[c.seg].lo \in Nat /\ segs'[c.seg].size \in Nat /\ acked' \in Nat
    BY <1>1, <2>1 DEF Pos, TypeOK, Segment
  <2>3. HiOf(segs'[c.seg]) <= acked'
    BY <1>1, <2>2 DEF Passed, TypeOK, Pos
  <2>4. \A s \in DOMAIN segs' : s < d.seg => segs'[s].closed /\ HiOf(segs'[s]) <= acked'
    BY <1>1, <2>2, <2>3 DEF Passed, TypeOK
  <2>5. d.seg \in DOMAIN segs' => segs'[d.seg].lo + d.off <= acked'
    BY <1>1, <2>2, <2>3 DEF Layout, TypeOK, Segment
  <2>6. d.seg <= nextSeq'
    BY <1>1, <2>2 DEF Numbered, TypeOK
  <2> QED BY <2>2, <2>4, <2>5, <2>6 DEF Passed, NotAhead
<1>2. CASE d = c
  BY <1>2
<1> QED BY <1>1, <1>2 DEF Normal

\* A confirmed batch keeps the invariant: the cursor passes only confirmed bytes.
LEMMA AckInv ==
  ASSUME IInv, NEW x \in inflight, Ack(x)
  PROVE  IInv'
<1>1. /\ up /\ ~reaping
      /\ inflight' = {y \in inflight : Before(x.pos, y.pos)}
      /\ acked' = IF x.end > acked THEN x.end ELSE acked
      /\ IF Before(cursor, x.pos) THEN Reap(segs, x.pos)
                                  ELSE UNCHANGED <<cursor, diskCursor, reaping>>
      /\ UNCHANGED <<up, segs, nextSeq, total, pending, readPos, stopping, closed, fatal,
                     writer, reader, frames, tail, released, handed, written, downs>>
  BY DEF Ack, MuFree
<1>2. /\ x.pos \in Pos /\ x.end \in Nat /\ acked \in Nat /\ acked' \in Nat
      /\ acked <= acked' /\ x.end <= acked' /\ tail \in Nat
  BY <1>1 DEF IInv, TypeOK
<1>3. Layout' /\ Numbered' /\ Framed' /\ Sized'
  <2>1. Layout' /\ Numbered'
    BY <1>1 DEF IInv, Layout, Numbered
  <2>2. Framed' /\ Sized'
    BY <1>1 DEF IInv, Framed, Boundary, Sized
  <2> QED BY <2>1, <2>2
<1>4. Kept'
  BY <1>1, <1>2 DEF IInv, TypeOK, Kept
<1>5. \A s \in Seqs : /\ s \in Nat /\ segs[s].lo \in Nat /\ segs[s].size \in Nat
                      /\ tail \in Nat
  BY DEF IInv, TypeOK, Segment
<1>6. /\ Seqs = {} => tail <= acked'
      /\ \A s \in Seqs : s - 1 \notin Seqs => segs[s].lo <= acked'
  BY <1>2, <1>5 DEF IInv, Marks
<1>7. ASSUME NEW c \in Pos, Passed(c) PROVE Passed(c)'
  <2>1. c.seg \in Seqs => segs[c.seg].lo + c.off \in Nat
    BY <1>5 DEF Pos
  <2>2. \A s \in Seqs : HiOf(segs[s]) \in Nat
    BY <1>5
  <2> QED BY <1>1, <1>2, <1>7, <2>1, <2>2 DEF Passed
<1>8. CASE ~Before(cursor, x.pos)
  <2>1. UNCHANGED <<cursor, diskCursor, reaping>>
    BY <1>1, <1>8
  <2>2. TypeOK'
    BY <1>1, <1>2, <2>1 DEF IInv, TypeOK
  <2>3. Passed(cursor)' /\ Passed(diskCursor)'
    BY <1>1, <1>7, <2>1 DEF IInv, TypeOK, Marks
  <2>4. Marks'
    BY <1>1, <1>6, <2>1, <2>3 DEF IInv, Marks, NotAhead
  <2>5. InMemory'
    BY <1>1, <2>1 DEF IInv, InMemory, Before
  <2> QED BY <1>3, <1>4, <2>2, <2>4, <2>5 DEF IInv
<1>9. CASE Before(cursor, x.pos)
  <2>1. /\ cursor' = Normal(segs, x.pos) /\ diskCursor' = cursor'
        /\ reaping' = (Doomed(segs, cursor') # {})
    BY <1>1, <1>9 DEF Reap
  <2>2. /\ x.pos.seg \in Seqs /\ x.end = segs[x.pos.seg].lo + x.pos.off
        /\ x.pos.seg < nextSeq /\ nextSeq \in Nat
    BY <1>1, <1>9 DEF IInv, TypeOK, InMemory, Numbered
  <2>3. Passed(x.pos)'
    <3>1. ASSUME NEW s \in Seqs, s < x.pos.seg
          PROVE  segs[s].closed /\ HiOf(segs[s]) <= acked'
      <4>1. s + 1 \in s .. x.pos.seg
        BY <1>2, <1>5, <3>1 DEF Pos
      <4>2. s + 1 \in Seqs
        BY <2>2, <4>1 DEF IInv, Layout
      <4>3. HiOf(segs[s]) <= segs[x.pos.seg].lo
        BY <2>2, <3>1 DEF IInv, Layout
      <4> QED BY <1>2, <1>5, <2>2, <4>2, <4>3 DEF IInv, Layout, Pos
    <3>2. segs[x.pos.seg].lo + x.pos.off <= acked'
      BY <1>2, <2>2
    <3> QED BY <1>1, <3>1, <3>2 DEF Passed
  <2>4. NotAhead(x.pos)'
    BY <1>1, <1>2, <2>2 DEF NotAhead, Pos
  <2>5. TypeOK'
    <3>1. cursor' \in Pos
      BY <1>2, <2>1 DEF Normal, Pos
    <3>2. reaping' \in BOOLEAN
      BY <2>1
    <3> QED BY <1>1, <1>2, <2>1, <3>1, <3>2 DEF IInv, TypeOK
  <2>6. Passed(cursor)' /\ NotAhead(cursor)'
    <3>1. cursor' = Normal(segs', x.pos)
      BY <1>1, <2>1
    <3> QED BY <1>1, <1>2, <1>3, <2>3, <2>4, <2>5, <3>1, NormalKeeps DEF Passed, NotAhead
  <2>7. Marks'
    BY <1>1, <1>6, <2>1, <2>6 DEF IInv, Marks, Passed, NotAhead
  <2>8. InMemory'
    <3>1. \A y \in inflight' : Before(cursor, y.pos)
      BY <1>1, <1>2, <1>9 DEF IInv, TypeOK, Before, Pos
    <3>2. \A y \in inflight' : /\ y.pos.seg \in Seqs
                               /\ y.end = segs[y.pos.seg].lo + y.pos.off
                               /\ y.pos.off <= segs[y.pos.seg].durable
      BY <1>1, <3>1 DEF IInv, InMemory
    <3> QED BY <1>1, <2>1, <3>2 DEF IInv, InMemory, Doomed
  <2> QED BY <1>3, <1>4, <2>5, <2>7, <2>8 DEF IInv
<1> QED BY <1>8, <1>9

\* The smallest segment behind the cursor is the first one.
LEMMA FirstDoomed ==
  ASSUME IInv, up, NEW s, s = Min(Doomed(segs, cursor)), Doomed(segs, cursor) # {}
  PROVE  /\ s \in Seqs /\ s \in Nat /\ s < cursor.seg /\ segs[s].closed
         /\ \A t \in Seqs : t # s => s < t
<1> DEFINE D == Doomed(segs, cursor)
<1>1. Seqs \subseteq Nat /\ cursor.seg \in Nat
  BY DEF IInv, TypeOK, Pos
<1>2. D \in SUBSET Nat
  BY <1>1 DEF Doomed
<1>3. s \in D /\ \A t \in D : s <= t
  <2> HIDE DEF D
  <2> QED BY <1>2, MinNat DEF D
<1>4. /\ s \in Seqs /\ s \in Nat /\ s < cursor.seg /\ segs[s].closed
  BY <1>1, <1>3 DEF Doomed
<1>5. ASSUME NEW t \in Seqs, t < s PROVE FALSE
  <2>1. t + 1 \in t .. s
    BY <1>1, <1>4, <1>5
  <2>2. t + 1 \in Seqs
    BY <1>4, <2>1 DEF IInv, Layout
  <2>3. segs[t].closed /\ t < cursor.seg
    BY <1>1, <1>4, <1>5, <2>2 DEF IInv, Layout
  <2>4. t \in D
    BY <2>3 DEF Doomed
  <2> QED BY <1>1, <1>3, <1>4, <1>5, <2>4
<1> QED BY <1>1, <1>4, <1>5

\* Each os.Remove of a reap keeps the invariant.
LEMMA ReapRemovesInv ==
  ASSUME IInv, ReapRemoves
  PROVE  IInv'
<1>1. PICK s : s = Min(Doomed(segs, cursor))
  OBVIOUS
<1>2. up /\ reaping /\ Doomed(segs, cursor) # {}
  BY DEF ReapRemoves, IInv, InMemory
<1>3. /\ s \in Seqs /\ s \in Nat /\ s < cursor.seg /\ segs[s].closed
      /\ \A t \in Seqs : t # s => s < t
  BY <1>1, <1>2, FirstDoomed
<1>4. /\ segs' = Restrict(segs, Seqs \ {s}) /\ total' = total - segs[s].size
      /\ IF Doomed(segs, cursor) = {s} THEN reaping' = FALSE /\ writer' = Woken
                                       ELSE UNCHANGED <<reaping, writer>>
      /\ UNCHANGED <<up, diskCursor, nextSeq, pending, cursor, readPos, stopping, closed, fatal,
                     reader, inflight, frames, tail, released, acked, handed, written, downs>>
  BY <1>1 DEF ReapRemoves
<1>5. /\ DOMAIN segs' = Seqs \ {s} /\ segs' \in [Seqs \ {s} -> Segment]
      /\ \A t \in Seqs \ {s} : segs'[t] = segs[t]
  BY <1>4 DEF IInv, TypeOK, Restrict
<1>6. /\ Seqs \subseteq Nat /\ tail \in Nat /\ acked \in Nat /\ total \in Nat
      /\ \A t \in Seqs : segs[t].lo \in Nat /\ segs[t].size \in Nat
  BY DEF IInv, TypeOK, Segment
<1>7. HiOf(segs[s]) <= acked
  BY <1>2, <1>3 DEF IInv, Marks, Passed
<1>8. total = tail - segs[s].lo /\ segs[s].lo + segs[s].size <= tail
  <2>1. s - 1 \notin Seqs
    BY <1>3, <1>6
  <2>2. total = tail - segs[s].lo
    BY <1>2, <1>3, <2>1 DEF IInv, Sized
  <2>3. HiOf(segs[s]) <= tail
    BY <1>2, <1>3, WithinLog
  <2> QED BY <2>2, <2>3
<1>9. /\ writer' \in [Writer -> [st : {"idle", "call", "wait"}, need : Nat]]
      /\ \A v \in Writer : writer'[v].st # "idle" => writer'[v].need \in FrameSizes
  BY <1>4, WokenType DEF IInv, TypeOK
<1>10. TypeOK'
  <2>1. reaping' \in BOOLEAN
    BY <1>4 DEF IInv, TypeOK
  <2>2. total' \in Nat
    BY <1>3, <1>4, <1>6, <1>8
  <2>3. Seqs' \subseteq Nat /\ segs' \in [Seqs' -> Segment]
    BY <1>5, <1>6
  <2> QED BY <1>4, <1>9, <2>1, <2>2, <2>3 DEF IInv, TypeOK
<1>11. Layout'
  <2>1. \A t \in Seqs \ {s} : t + 1 # s
    BY <1>3, <1>6
  <2>2. \A t, u \in Seqs \ {s} : \A n \in t .. u : n \in Seqs \ {s}
    BY <1>3, <1>6 DEF IInv, Layout
  <2>3. 0 \notin Seqs \ {s}
    BY DEF IInv, Layout
  <2>4. \A t \in Seqs \ {s} :
          /\ segs[t].durable <= segs[t].size
          /\ segs[t].closed => segs[t].durable = segs[t].size
          /\ t + 1 \in Seqs \ {s} => segs[t].closed /\ HiOf(segs[t]) = segs[t + 1].lo
          /\ t + 1 \notin Seqs \ {s} => HiOf(segs[t]) = tail
    BY <2>1 DEF IInv, Layout
  <2>5. \A t, u \in Seqs \ {s} : t < u => HiOf(segs[t]) <= segs[u].lo
    BY DEF IInv, Layout
  <2> QED BY <1>4, <1>5, <2>2, <2>3, <2>4, <2>5 DEF Layout
<1>12. Numbered'
  <2>1. ASSUME NEW t \in Seqs \ {s} PROVE nextSeq - 1 # s
    BY <1>2, <1>3, <1>6, <2>1 DEF IInv, TypeOK, Numbered
  <2> QED BY <1>4, <1>5, <2>1 DEF IInv, Numbered
<1>13. Marks'
  <2>1. Seqs = {s} => tail <= acked
    BY <1>3, <1>6, <1>7 DEF IInv, Layout
  <2>2. ASSUME NEW t \in Seqs \ {s}, t - 1 \notin Seqs \ {s} PROVE segs[t].lo <= acked
    <3>1. t - 1 = s \/ t - 1 \notin Seqs
      BY <2>2
    <3>2. t - 1 = s => segs[t].lo = HiOf(segs[s])
      BY <1>3, <1>6 DEF IInv, Layout
    <3> QED BY <1>7, <3>1, <3>2 DEF IInv, Marks
  <2>3. Passed(cursor)' /\ Passed(diskCursor)'
    BY <1>2, <1>4, <1>5 DEF IInv, Marks, Passed
  <2> QED BY <1>2, <1>4, <1>5, <2>1, <2>2, <2>3 DEF IInv, Marks, NotAhead
<1>14. InMemory'
  <2>1. \A t \in Seqs : ~segs[t].closed => t \in Seqs \ {s}
    BY <1>3
  <2>2. \A x \in inflight : Before(cursor, x.pos) => x.pos.seg # s
    BY <1>3 DEF IInv, TypeOK, Before, Pos
  <2>3. reaping' => Doomed(segs', cursor') # {}
    <3>1. CASE Doomed(segs, cursor) = {s}
      BY <1>4, <3>1
    <3>2. CASE Doomed(segs, cursor) # {s}
      <4>1. s \in Doomed(segs, cursor)
        BY <1>3 DEF Doomed
      <4>2. PICK t \in Doomed(segs, cursor) : t # s
        BY <3>2, <4>1
      <4>3. t \in Doomed(segs', cursor')
        BY <1>4, <1>5, <4>2 DEF Doomed
      <4> QED BY <4>3
    <3> QED BY <3>1, <3>2
  <2> QED BY <1>2, <1>4, <1>5, <2>1, <2>2, <2>3 DEF IInv, InMemory, Before
<1>15. Framed'
  BY <1>2, <1>4, <1>5 DEF IInv, Framed, Boundary
<1>16. Kept'
  <2>1. ASSUME NEW e \in released, ~(e <= acked)
        PROVE  \E t \in Seqs \ {s} : segs[t].lo < e /\ e <= segs[t].lo + segs[t].durable
    <3>1. PICK t \in Seqs : segs[t].lo < e /\ e <= segs[t].lo + segs[t].durable
      BY <2>1 DEF IInv, Kept
    <3>2. t # s
      BY <1>3, <1>6, <1>7, <2>1, <3>1 DEF IInv, TypeOK, Layout, Segment
    <3> QED BY <3>1, <3>2
  <2> QED BY <1>4, <1>5, <2>1 DEF Kept
<1>17. Sized'
  <2>1. Seqs = {s} => total' = 0
    BY <1>3, <1>4, <1>6, <1>8 DEF IInv, Layout
  <2>2. ASSUME NEW t \in Seqs \ {s}, t - 1 \notin Seqs \ {s} PROVE total' = tail - segs[t].lo
    <3>1. t - 1 = s
      <4>1. t - 1 \in s .. t
        BY <1>3, <1>6
      <4>2. t - 1 \in Seqs
        BY <1>3, <4>1 DEF IInv, Layout
      <4> QED BY <2>2, <4>2
    <3>2. segs[t].lo = HiOf(segs[s])
      BY <1>3, <1>6, <3>1 DEF IInv, Layout
    <3> QED BY <1>3, <1>4, <1>6, <1>8, <3>2
  <2>3. \A t \in Seqs \ {s} : tail - segs[t].lo <= MaxBytes
    BY DEF IInv, Sized
  <2>4. Seqs \ {s} = {} => Seqs = {s}
    BY <1>3
  <2> QED BY <1>4, <1>5, <2>1, <2>2, <2>3, <2>4 DEF Sized
<1> QED BY <1>10, <1>11, <1>12, <1>13, <1>14, <1>15, <1>16, <1>17 DEF IInv

-----------------------------------------------------------------------------
(* Stopping and crashing *)

\* The last sync and the last reap keep the invariant.
LEMMA CloseWriterInv ==
  ASSUME IInv, CloseWriter
  PROVE  IInv'
<1>1. /\ up /\ ~reaping /\ closed' = TRUE
      /\ IF fatal THEN UNCHANGED <<cursor, diskCursor, reaping>> ELSE Reap(segs', cursor)
      /\ UNCHANGED <<up, nextSeq, total, readPos, stopping, fatal, writer, reader, inflight,
                     frames, tail, acked, handed, written, downs>>
  BY DEF CloseWriter, MuFree
<1>2. /\ Layout' /\ Numbered' /\ Framed' /\ Kept' /\ Sized'
      /\ segs' \in [Seqs' -> Segment] /\ Seqs' \subseteq Nat
      /\ pending' = {} /\ released' \subseteq Nat
      /\ DOMAIN segs' = Seqs
      /\ \A t \in Seqs : /\ segs'[t].lo = segs[t].lo /\ segs'[t].size = segs[t].size
                         /\ segs[t].closed => segs'[t].closed
                         /\ segs[t].durable <= segs'[t].durable
  <2>1. CASE Cur = {}
    <3>1. UNCHANGED <<segs, released, pending>>
      BY <2>1 DEF CloseWriter
    <3>2. pending = {}
      BY <1>1, <2>1, NothingOpen
    <3>3. Layout' /\ Numbered' /\ Framed' /\ Kept' /\ Sized'
      <4>1. Layout' /\ Numbered' /\ Sized'
        BY <1>1, <3>1 DEF IInv, Layout, Numbered, Sized
      <4>2. Framed' /\ Kept'
        BY <1>1, <3>1 DEF IInv, Framed, Boundary, Kept
      <4> QED BY <4>1, <4>2
    <3> QED BY <3>1, <3>2, <3>3 DEF IInv, TypeOK, Segment
  <2>2. CASE Cur # {}
    <3>1. PICK s \in Cur : /\ segs' = Shut(segs, s)
                           /\ released' = released \cup Covered(s)
                           /\ pending' = pending \ Covered(s)
      BY <2>2 DEF CloseWriter
    <3>2. /\ Layout' /\ Numbered' /\ Framed' /\ Kept' /\ Sized'
          /\ segs' \in [Seqs' -> Segment] /\ Seqs' \subseteq Nat
          /\ pending' = {} /\ released' \subseteq Nat
      BY <1>1, <3>1, SealStep
    <3>3. /\ DOMAIN segs' = Seqs /\ segs' \in [Seqs -> Segment]
          /\ \A t \in Seqs : /\ segs'[t].lo = segs[t].lo /\ segs'[t].size = segs[t].size
                             /\ segs[t].closed => segs'[t].closed
                             /\ t # s => segs'[t] = segs[t]
          /\ segs'[s].durable = segs[s].size
      BY <1>1, <3>1, SealPoint
    <3>4. \A t \in Seqs : segs[t].durable <= segs'[t].durable
      BY <1>1, <3>3, OpenIsLast DEF IInv, TypeOK, Layout, Segment
    <3> QED BY <3>2, <3>3, <3>4
  <2> QED BY <2>1, <2>2
<1>3. ASSUME NEW c \in Pos, Passed(c), NotAhead(c) PROVE Passed(c)' /\ NotAhead(c)'
  BY <1>1, <1>2, <1>3 DEF Passed, NotAhead
<1>4. /\ cursor \in Pos /\ Passed(cursor) /\ NotAhead(cursor)
      /\ diskCursor \in Pos /\ Passed(diskCursor) /\ NotAhead(diskCursor)
  BY <1>1 DEF IInv, TypeOK, Marks
<1>5. ~fatal => /\ cursor' = Normal(segs', cursor) /\ diskCursor' = cursor'
                /\ reaping' = (Doomed(segs', cursor') # {})
  BY <1>1 DEF Reap
<1>6. TypeOK'
  <2>1. cursor' \in Pos /\ diskCursor' \in Pos /\ reaping' \in BOOLEAN
    <3>1. CASE fatal
      BY <1>1, <3>1 DEF IInv, TypeOK
    <3>2. CASE ~fatal
      BY <1>4, <1>5, <3>2 DEF Normal, Pos
    <3> QED BY <3>1, <3>2
  <2> QED BY <1>1, <1>2, <2>1 DEF IInv, TypeOK
<1>7. /\ Passed(cursor)' /\ NotAhead(cursor)'
      /\ Passed(diskCursor)' /\ NotAhead(diskCursor)'
  <2>1. CASE fatal
    <3>1. UNCHANGED <<cursor, diskCursor>>
      BY <1>1, <2>1
    <3> QED BY <1>3, <1>4, <3>1 DEF Passed, NotAhead
  <2>2. CASE ~fatal
    <3>1. cursor' = Normal(segs', cursor) /\ diskCursor' = cursor'
      BY <1>5, <2>2
    <3>2. /\ \A c \in Pos : Passed(c) /\ NotAhead(c) => Passed(c)' /\ NotAhead(c)'
          /\ \A c \in Pos : \A d : d = Normal(segs', c) /\ Passed(c)' /\ NotAhead(c)'
                                     => Passed(d)' /\ NotAhead(d)'
      <4>1. up'
        BY <1>1
      <4> QED BY <1>2, <1>3, <1>6, <4>1, NormalKeeps
    <3>3. Passed(cursor)' /\ NotAhead(cursor)'
      BY <1>4, <3>1, <3>2 DEF Passed, NotAhead
    <3> QED BY <3>1, <3>3 DEF Passed, NotAhead
  <2> QED BY <2>1, <2>2
<1>8. Marks'
  BY <1>1, <1>2, <1>7 DEF IInv, Marks
<1>9. InMemory'
  <2>1. \A x \in inflight : Before(cursor', x.pos) => Before(cursor, x.pos)
    <3>1. CASE fatal
      BY <1>1, <3>1 DEF Before
    <3>2. CASE ~fatal
      BY <1>4, <1>5, <3>2 DEF IInv, TypeOK, Before, Normal, Pos
    <3> QED BY <3>1, <3>2
  <2>2. \A x \in inflight : Before(cursor, x.pos) =>
          /\ x.pos.seg \in Seqs
          /\ x.end = segs[x.pos.seg].lo + x.pos.off
          /\ x.pos.off <= segs[x.pos.seg].durable
    BY DEF IInv, InMemory
  <2>3. \A x \in inflight : Before(cursor, x.pos) => x.pos.off <= segs'[x.pos.seg].durable
    BY <1>2, <2>2 DEF IInv, TypeOK, Pos, Segment
  <2>4. reader.busy => /\ reader.seg < nextSeq
                       /\ reader.seg \in Seqs => reader.limit <= segs'[reader.seg].durable
    BY <1>2 DEF IInv, TypeOK, InMemory, Segment
  <2>5. reaping' => Doomed(segs', cursor') # {}
    BY <1>1, <1>5
  <2> QED BY <1>1, <1>2, <2>1, <2>2, <2>3, <2>4, <2>5 DEF InMemory
<1> QED BY <1>2, <1>6, <1>8, <1>9 DEF IInv

\* A dead process has the memory of no process.
LEMMA DeadType ==
  ASSUME IInv, Dies, DOMAIN segs' \subseteq Nat, segs' \in [DOMAIN segs' -> Segment],
         diskCursor' \in Pos, frames' \subseteq frames, tail' \in Nat,
         UNCHANGED <<released, acked, handed, written>>
  PROVE  TypeOK'
<1>1. /\ writer' \in [Writer -> [st : {"idle", "call", "wait"}, need : Nat]]
      /\ \A w \in Writer : writer'[w].st = "idle"
  BY DEF Dies
<1>2. reader' \in [busy : BOOLEAN, seg : Nat, off : Nat, limit : Nat]
  BY DEF Dies
<1>3. cursor' \in Pos /\ readPos' \in Pos
  BY DEF Dies, Origin, Pos
<1>4. /\ nextSeq' \in Nat /\ total' \in Nat /\ downs' \in Nat
      /\ pending' \subseteq Nat /\ inflight' \subseteq [pos : Pos, end : Nat]
  BY DEF Dies, IInv, TypeOK
<1>5. /\ up' \in BOOLEAN /\ stopping' \in BOOLEAN /\ closed' \in BOOLEAN
      /\ fatal' \in BOOLEAN /\ reaping' \in BOOLEAN
  BY DEF Dies
<1>6. /\ acked' \in Nat /\ handed' \in Nat /\ written' \in Nat /\ released' \subseteq Nat
      /\ frames' \subseteq [lo : Nat, hi : Nat]
  BY DEF IInv, TypeOK
<1> QED BY <1>1, <1>2, <1>3, <1>4, <1>5, <1>6 DEF TypeOK

\* Close keeps the invariant: what stays on disk agrees with its cursor.
LEMMA ExitInv ==
  ASSUME IInv, Exit
  PROVE  IInv'
<1>1. /\ up /\ ~up' /\ UNCHANGED <<segs, frames, tail, released, acked, handed, written>>
      /\ diskCursor' = cursor \/ diskCursor' = diskCursor
      /\ pending' = {} /\ inflight' = {} /\ ~reader'.busy /\ ~reaping'
  BY DEF Exit, Dies, MuFree
<1>2. TypeOK'
  <2>1. diskCursor' \in Pos
    BY <1>1 DEF IInv, TypeOK
  <2>2. Dies
    BY DEF Exit
  <2> QED BY <1>1, <2>1, <2>2, DeadType DEF IInv, TypeOK
<1>3. Layout' /\ Numbered'
  BY <1>1 DEF IInv, Layout, Numbered
<1>4. Marks'
  <2>1. \E c \in Pos : diskCursor' = c /\ Passed(c) /\ NotAhead(c)
    BY <1>1 DEF IInv, TypeOK, Marks
  <2>2. PICK c \in Pos : diskCursor' = c /\ Passed(c) /\ NotAhead(c)
    BY <2>1
  <2>3. Passed(diskCursor)'
    BY <1>1, <2>2 DEF Passed
  <2>4. Seqs # {} => /\ nextSeq - 1 \in Seqs /\ (nextSeq - 1) + 1 = nextSeq
                     /\ nextSeq \notin Seqs
    BY <1>1 DEF IInv, TypeOK, Numbered
  <2> QED BY <1>1, <2>2, <2>3, <2>4 DEF IInv, Marks, NotAhead
<1>5. InMemory'
  BY <1>1 DEF InMemory
<1>6. Framed' /\ Kept' /\ Sized'
  BY <1>1 DEF IInv, Framed, Boundary, Kept, Sized
<1> QED BY <1>2, <1>3, <1>4, <1>5, <1>6 DEF IInv

\* A crash at any byte and between any two steps keeps the invariant.
LEMMA CrashInv ==
  ASSUME IInv, Crash
  PROVE  IInv'
<1>1. /\ up /\ ~up' /\ Dies /\ UNCHANGED <<released, acked, handed, written>>
      /\ pending' = {} /\ inflight' = {} /\ ~reader'.busy /\ ~reaping'
      /\ diskCursor' = diskCursor \/ diskCursor' = NoCursor
  BY DEF Crash, Dies
<1>2. /\ diskCursor' \in Pos
      /\ \E c \in Pos : diskCursor' = c /\ Passed(c) /\ NotAhead(c)
  <2>1. diskCursor \in Pos /\ Passed(diskCursor) /\ NotAhead(diskCursor)
    BY <1>1 DEF IInv, TypeOK, Marks
  <2>2. NoCursor \in Pos /\ Passed(NoCursor) /\ NotAhead(NoCursor)
    BY <1>1 DEF IInv, TypeOK, Layout, Numbered, Passed, NotAhead, NoCursor, Pos
  <2> QED BY <1>1, <2>1, <2>2
<1>3. PICK c \in Pos : diskCursor' = c /\ Passed(c) /\ NotAhead(c)
  BY <1>2
<1>4. CASE Cur = {}
  <2>1. UNCHANGED <<segs, frames, tail>>
    BY <1>4 DEF Crash
  <2>2. TypeOK'
    BY <1>1, <1>2, <2>1, DeadType DEF IInv, TypeOK
  <2>3. Layout' /\ Numbered' /\ InMemory'
    BY <1>1, <2>1 DEF IInv, Layout, Numbered, InMemory
  <2>4. Marks'
    <3>1. Passed(diskCursor)'
      BY <1>1, <1>3, <2>1 DEF Passed
    <3>2. Seqs # {} => /\ nextSeq - 1 \in Seqs /\ (nextSeq - 1) + 1 = nextSeq
                       /\ nextSeq \notin Seqs
      BY <1>1 DEF IInv, TypeOK, Numbered
    <3> QED BY <1>1, <1>3, <2>1, <3>1, <3>2 DEF IInv, Marks, NotAhead
  <2>5. Framed' /\ Kept' /\ Sized'
    BY <1>1, <2>1 DEF IInv, Framed, Boundary, Kept, Sized
  <2> QED BY <2>2, <2>3, <2>4, <2>5 DEF IInv
<1>5. CASE Cur # {}
  <2>1. PICK s \in Cur, torn \in {0, 1} :
          \E k \in segs[s].durable .. segs[s].size + torn :
            /\ torn = 1 => total < MaxBytes /\ (fatal \/ \E w \in Writer : writer[w].st = "call")
            /\ segs' = [segs EXCEPT ![s].size = k]
            /\ frames' = {f \in frames : f.hi <= segs[s].lo + k}
            /\ tail' = segs[s].lo + k
    BY <1>5 DEF Crash
  <2>2. PICK k \in segs[s].durable .. segs[s].size + torn :
            /\ torn = 1 => total < MaxBytes
            /\ segs' = [segs EXCEPT ![s].size = k]
            /\ frames' = {f \in frames : f.hi <= segs[s].lo + k}
            /\ tail' = segs[s].lo + k
    BY <2>1
  <2>3. /\ s \in Seqs /\ ~segs[s].closed /\ s + 1 \notin Seqs
        /\ HiOf(segs[s]) = tail /\ nextSeq = s + 1
        /\ \A t \in Seqs : t <= s /\ (t # s => segs[t].closed)
    BY <1>1, OpenIsLast
  <2>4. /\ Seqs \subseteq Nat /\ segs \in [Seqs -> Segment] /\ tail \in Nat /\ total \in Nat
        /\ \A t \in Seqs : segs[t].lo \in Nat /\ segs[t].size \in Nat /\ segs[t].durable \in Nat
        /\ k \in Nat /\ segs[s].durable <= k /\ k <= segs[s].size + torn
    BY <2>3 DEF IInv, TypeOK, Segment
  <2>5. /\ DOMAIN segs' = Seqs /\ segs' \in [Seqs -> Segment]
        /\ \A t \in Seqs : /\ segs'[t].lo = segs[t].lo /\ segs'[t].durable = segs[t].durable
                           /\ segs'[t].closed = segs[t].closed
                           /\ t # s => segs'[t] = segs[t]
        /\ segs'[s].size = k
    BY <2>2, <2>3, <2>4 DEF Segment
  <2>6. TypeOK'
    BY <1>1, <1>2, <2>2, <2>3, <2>4, <2>5, DeadType
  <2>7. Layout'
    <3>1. \A t \in Seqs : t # s => t + 1 \in Seqs
      <4>1. ASSUME NEW t \in Seqs, t # s PROVE t + 1 \in t .. s
        BY <2>3, <2>4, <4>1
      <4> QED BY <2>3, <4>1 DEF IInv, Layout
    <3>2. /\ segs'[s].durable <= segs'[s].size /\ HiOf(segs'[s]) = tail'
          /\ ~segs'[s].closed
      BY <2>2, <2>3, <2>4, <2>5
    <3>3. \A t \in Seqs : t # s => HiOf(segs'[t]) = segs'[t + 1].lo
      BY <2>5, <3>1 DEF IInv, Layout
    <3>4. \A t, u \in Seqs : t < u => HiOf(segs'[t]) <= segs'[u].lo
      <4>1. \A t, u \in Seqs : t < u => t # s
        BY <2>3, <2>4
      <4> QED BY <2>5, <4>1 DEF IInv, Layout
    <3> QED BY <2>3, <2>5, <3>1, <3>2, <3>3, <3>4 DEF IInv, Layout
  <2>8. Numbered' /\ InMemory'
    BY <1>1 DEF Numbered, InMemory
  <2>9. Marks'
    <3>1. \A t \in Seqs : t < c.seg => t # s
      BY <1>3, <2>3 DEF Passed
    <3>2. Passed(diskCursor)'
      BY <1>1, <1>3, <2>5, <3>1 DEF Passed
    <3> QED BY <1>1, <1>3, <2>3, <2>5, <3>2 DEF IInv, Marks, NotAhead
  <2>10. Framed'
    <3>1. \A f \in frames' : f.lo < f.hi
      BY <2>2 DEF IInv, Framed
    <3>2. ASSUME NEW t \in Seqs PROVE Boundary(t, segs[t].durable)'
      <4>1. segs[t].lo + segs[t].durable <= segs[s].lo + k
        <5>1. CASE t = s
          BY <2>4, <5>1
        <5>2. CASE t # s
          <6>1. HiOf(segs[t]) <= segs[s].lo
            BY <2>3, <2>4, <5>2 DEF IInv, Layout
          <6>2. segs[t].durable <= segs[t].size
            BY DEF IInv, Layout
          <6> QED BY <2>3, <2>4, <6>1, <6>2
        <5> QED BY <5>1, <5>2
      <4>2. Boundary(t, segs[t].durable)
        BY DEF IInv, Framed
      <4> QED BY <2>2, <2>5, <4>1, <4>2 DEF Boundary
    <3> QED BY <1>1, <2>5, <3>1, <3>2 DEF Framed
  <2>11. Kept'
    BY <1>1, <2>5 DEF IInv, Kept
  <2>12. Sized'
    <3>1. ASSUME NEW t \in Seqs PROVE tail' - segs'[t].lo <= MaxBytes
      <4>1. tail - segs[t].lo <= total /\ tail - segs[t].lo <= MaxBytes
        BY <1>1, TotalCovers DEF IInv, Sized
      <4>2. MaxBytes \in Nat
        BY SizesAssumption
      <4> QED BY <2>2, <2>3, <2>4, <2>5, <4>1, <4>2
    <3> QED BY <1>1, <2>5, <3>1 DEF Sized
  <2> QED BY <2>6, <2>7, <2>8, <2>9, <2>10, <2>11, <2>12 DEF IInv
<1> QED BY <1>4, <1>5

-----------------------------------------------------------------------------
(* Opening again *)

\* What recover leaves: the files from c on, the last of them, L, cut to v bytes,
\* and a cursor o bytes into the first.
LEMMA Reopening ==
  ASSUME IInv, ~up, up',
         NEW L \in Seqs, \A t \in Seqs : t <= L,
         NEW v \in Nat, segs[L].durable <= v, v <= segs[L].size,
         v = 0 \/ \E f \in frames : segs[L].lo <= f.lo /\ f.hi = segs[L].lo + v,
         NEW c \in Nat, c <= L + 1, NEW o \in Nat, c = L + 1 => o = 0,
         diskCursor.seg <= c,
         c \in Seqs => segs[c].lo + o <= acked,
         \A s \in Seqs : s < c => segs[s].lo + (IF s = L THEN v ELSE segs[s].size) <= acked,
         NEW F, F = {t \in Seqs : t >= c}, c <= L => c \in F,
         DOMAIN segs' = F, segs' \in [F -> Segment],
         \A t \in F : /\ segs'[t].lo = segs[t].lo
                      /\ segs'[t].size = IF t = L THEN v ELSE segs[t].size
                      /\ segs'[t].durable = segs'[t].size
                      /\ t # L => segs'[t].closed,
         nextSeq' = L + 1, cursor' = [seg |-> c, off |-> o],
         tail' = segs[L].lo + v,
         total' = IF c = L + 1 THEN 0 ELSE tail' - segs[c].lo,
         UNCHANGED <<diskCursor, pending, frames, released, acked, reaping, reader, inflight>>
  PROVE  Layout' /\ Numbered' /\ Marks' /\ InMemory' /\ Framed' /\ Kept' /\ Sized'
<1>1. /\ Seqs \subseteq Nat /\ L \in Nat /\ acked \in Nat /\ tail \in Nat
      /\ \A t \in Seqs : /\ segs[t].lo \in Nat /\ segs[t].size \in Nat
                         /\ segs[t].durable \in Nat /\ segs[t].durable <= segs[t].size
      /\ diskCursor \in Pos /\ diskCursor.seg \in Nat /\ diskCursor.off \in Nat
  BY DEF IInv, TypeOK, Layout, Segment, Pos
<1>2. L + 1 \notin Seqs /\ HiOf(segs[L]) = tail
  <2>1. L + 1 \notin Seqs
    BY <1>1
  <2> QED BY <2>1 DEF IInv, Layout
<1>3. \A t \in Seqs : t # L => t + 1 \in Seqs
  <2>1. ASSUME NEW t \in Seqs, t # L PROVE t + 1 \in t .. L
    BY <1>1, <2>1
  <2> QED BY <2>1 DEF IInv, Layout
<1>4. \A t \in Seqs : t # L => /\ segs[t].closed /\ segs[t].durable = segs[t].size
                               /\ HiOf(segs[t]) = segs[t + 1].lo
  BY <1>3 DEF IInv, Layout
<1>5. \A t \in F : t \in Seqs /\ t >= c /\ t <= L /\ t \in Nat
  BY <1>1
<1>6. \A t \in F : t # L => t + 1 \in F
  BY <1>1, <1>3
<1>7. Layout'
  <2>1. 0 \notin F
    BY DEF IInv, Layout
  <2>2. \A s, t \in F : \A n \in s .. t : n \in F
    BY <1>1, <1>5 DEF IInv, Layout
  <2>3. \A s \in F : s # L => /\ segs'[s].closed /\ s + 1 \in F
                              /\ HiOf(segs'[s]) = segs'[s + 1].lo
    BY <1>4, <1>5, <1>6
  <2>4. L \in F => L + 1 \notin F /\ HiOf(segs'[L]) = tail'
    BY <1>2
  <2>5. \A s, t \in F : s < t => HiOf(segs'[s]) <= segs'[t].lo
    <3>1. \A s, t \in F : s < t => s # L
      BY <1>1, <1>5
    <3> QED BY <1>5, <3>1 DEF IInv, Layout
  <2>6. \A s \in F : segs'[s].durable = segs'[s].size /\ segs'[s].size \in Nat
    BY <1>1, <1>5
  <2> QED BY <2>1, <2>2, <2>3, <2>4, <2>5, <2>6 DEF Layout
<1>8. Numbered'
  <2>1. F # {} => L \in F
    BY <1>1
  <2>2. /\ L + 1 >= 1 /\ (L + 1) - 1 = L
        /\ \A t \in F : t < L + 1
    BY <1>1, <1>5
  <2> QED BY <2>1, <2>2 DEF Numbered
<1>9. Marks'
  <2>1. F = {} => tail' <= acked
    BY <1>1
  <2>2. ASSUME NEW s \in F, s - 1 \notin F PROVE segs[s].lo <= acked
    <3>1. CASE s = c
      BY <1>1, <1>5, <3>1
    <3>2. CASE s # c
      <4>1. s - 1 \notin Seqs
        BY <1>1, <1>5, <2>2, <3>2
      <4> QED BY <1>5, <4>1 DEF IInv, Marks
    <3> QED BY <3>1, <3>2
  <2>3. Passed(cursor)'
    BY <1>1, <1>5 DEF Passed
  <2>4. Passed(diskCursor)'
    BY <1>1, <1>5 DEF IInv, Marks, Passed
  <2>5. NotAhead(cursor)'
    BY <1>1 DEF NotAhead
  <2>6. NotAhead(diskCursor)'
    <3>1. PICK s \in Seqs : /\ s + 1 \notin Seqs
                            /\ diskCursor.seg <= s + 1
                            /\ diskCursor.seg = s + 1 => diskCursor.off = 0
      BY DEF IInv, Marks
    <3>2. s = L
      BY <1>3, <3>1
    <3> QED BY <3>1, <3>2 DEF NotAhead
  <2> QED BY <1>5, <2>1, <2>2, <2>3, <2>4, <2>5, <2>6 DEF Marks
<1>10. InMemory'
  BY DEF IInv, InMemory
<1>11. Framed'
  <2>1. \A f \in frames' : f.lo < f.hi
    BY DEF IInv, Framed
  <2>2. \A t \in F : t # L => Boundary(t, segs[t].size)'
    BY <1>4, <1>5 DEF IInv, Framed, Boundary
  <2>3. L \in F => Boundary(L, segs[L].size)'
    BY DEF Boundary
  <2> QED BY <2>1, <2>2, <2>3 DEF Framed, Boundary
<1>12. Kept'
  <2>1. ASSUME NEW e \in released, ~(e <= acked)
        PROVE  \E s \in F : segs'[s].lo < e /\ e <= segs'[s].lo + segs'[s].durable
    <3>1. PICK s \in Seqs : segs[s].lo < e /\ e <= segs[s].lo + segs[s].durable
      BY <2>1 DEF IInv, Kept
    <3>2. e \in Nat
      BY DEF IInv, TypeOK
    <3>3. s \in F
      BY <1>1, <2>1, <3>1, <3>2
    <3>4. e <= segs'[s].lo + segs'[s].durable
      BY <1>1, <3>1, <3>2, <3>3
    <3> QED BY <3>1, <3>3, <3>4
  <2> QED BY <2>1 DEF Kept
<1>13. Sized'
  <2>1. tail' <= tail /\ tail' \in Nat
    BY <1>1, <1>2
  <2>2. \A t \in F : tail' - segs'[t].lo <= MaxBytes
    <3>1. \A t \in Seqs : tail - segs[t].lo <= MaxBytes
      BY DEF IInv, Sized
    <3>2. MaxBytes \in Nat
      BY SizesAssumption
    <3> QED BY <1>1, <1>5, <2>1, <3>1, <3>2
  <2>3. ASSUME NEW t \in F, t - 1 \notin F PROVE t = c
    <3>1. CASE t # c
      <4>1. t - 1 \in c .. t /\ c \in Seqs
        BY <1>1, <1>5, <3>1
      <4>2. t - 1 \in Seqs
        BY <1>5, <4>1 DEF IInv, Layout
      <4> QED BY <1>1, <1>5, <2>3, <3>1, <4>2
    <3> QED BY <3>1
  <2>4. F = {} => c = L + 1
    BY <1>1
  <2>5. \A t \in F : t = c => c # L + 1
    BY <1>1, <1>5
  <2> QED BY <1>5, <2>2, <2>3, <2>4, <2>5 DEF Sized
<1> QED BY <1>7, <1>8, <1>9, <1>10, <1>11, <1>12, <1>13

\* scanValid keeps whole frames, and at least the fsynced ones.
LEMMA ValidPrefix ==
  ASSUME IInv, NEW s \in Seqs
  PROVE  LET v == ValidSize(segs[s]) IN
         /\ v \in Nat /\ segs[s].durable <= v /\ v <= segs[s].size
         /\ v = 0 \/ \E f \in frames : segs[s].lo <= f.lo /\ f.hi = segs[s].lo + v
         /\ \A f \in frames : segs[s].lo <= f.lo /\ f.hi <= HiOf(segs[s]) => f.hi <= segs[s].lo + v
<1> DEFINE G == {g \in frames : segs[s].lo <= g.lo /\ g.hi <= HiOf(segs[s])}
           S == {0} \cup {f.hi - segs[s].lo : f \in G}
           v == ValidSize(segs[s])
<1>1. /\ segs[s].lo \in Nat /\ segs[s].size \in Nat /\ segs[s].durable \in Nat
      /\ segs[s].durable <= segs[s].size
      /\ \A f \in frames : f.lo \in Nat /\ f.hi \in Nat /\ f.lo < f.hi
  BY DEF IInv, TypeOK, Layout, Framed, Segment
<1>2. S \in SUBSET Nat /\ S # {} /\ \A k \in S : k <= segs[s].size
  BY <1>1
<1>3. v = Max(S)
  BY DEF ValidSize
<1>4. v \in S /\ \A k \in S : k <= v
  <2> HIDE DEF S, v
  <2> QED BY <1>1, <1>2, <1>3, MaxNat
<1>5. segs[s].durable \in S
  <2>1. Boundary(s, segs[s].durable)
    BY DEF IInv, Framed
  <2>2. CASE segs[s].durable = 0
    BY <2>2
  <2>3. ASSUME NEW f \in frames, segs[s].lo <= f.lo, f.hi = segs[s].lo + segs[s].durable
        PROVE  segs[s].durable \in S
    <3>1. f \in G /\ f.hi - segs[s].lo = segs[s].durable
      BY <1>1, <2>3
    <3> QED BY <3>1
  <2> QED BY <2>1, <2>2, <2>3 DEF Boundary
<1>6. v = 0 \/ \E f \in frames : segs[s].lo <= f.lo /\ f.hi = segs[s].lo + v
  <2> HIDE DEF v
  <2> QED BY <1>1, <1>4
<1>7. v \in Nat /\ segs[s].durable <= v /\ v <= segs[s].size
  <2> HIDE DEF S, v
  <2> QED BY <1>2, <1>4, <1>5
<1>8. ASSUME NEW f \in G PROVE f.hi <= segs[s].lo + v
  <2>1. f.hi - segs[s].lo \in S
    OBVIOUS
  <2>2. f.hi - segs[s].lo <= v /\ f.hi \in Nat
    BY <1>1, <1>4, <2>1
  <2> HIDE DEF v
  <2> QED BY <1>1, <1>7, <2>2
<1> QED BY <1>6, <1>7, <1>8

\* The files are numbered up to the last of them.
LEMMA LastFile ==
  ASSUME IInv, ~up, Seqs # {}
  PROVE  /\ Max(Seqs) \in Seqs /\ \A t \in Seqs : t <= Max(Seqs)
         /\ diskCursor.seg <= Max(Seqs) + 1
         /\ diskCursor.seg = Max(Seqs) + 1 => diskCursor.off = 0
<1>1. PICK s \in Seqs : /\ s + 1 \notin Seqs /\ diskCursor.seg <= s + 1
                        /\ diskCursor.seg = s + 1 => diskCursor.off = 0
  BY DEF IInv, Marks
<1>2. Seqs \in SUBSET Nat /\ s \in Nat
  BY DEF IInv, TypeOK
<1>3. ASSUME NEW t \in Seqs PROVE t <= s
  <2>1. CASE t > s
    <3>1. s + 1 \in s .. t
      BY <1>2, <2>1
    <3> QED BY <1>1, <3>1 DEF IInv, Layout
  <2> QED BY <1>2, <2>1
<1>4. Max(Seqs) \in Seqs /\ \A t \in Seqs : t <= Max(Seqs)
  <2> HIDE DEF Seqs
  <2> QED BY <1>2, <1>3, MaxNat
<1>5. Max(Seqs) = s
  <2>1. Max(Seqs) \in Nat /\ s <= Max(Seqs) /\ Max(Seqs) <= s
    BY <1>2, <1>3, <1>4
  <2> QED BY <1>2, <2>1
<1> QED BY <1>1, <1>4, <1>5

\* The cursor recover starts from passes only confirmed bytes.
LEMMA StoredKeeps ==
  ASSUME IInv, ~up, Seqs # {}
  PROVE  /\ StoredCursor \in Pos /\ Passed(StoredCursor)
         /\ diskCursor.seg <= StoredCursor.seg
         /\ StoredCursor.seg <= Max(Seqs) + 1
         /\ StoredCursor.seg = Max(Seqs) + 1 => StoredCursor.off = 0
<1>1. /\ Max(Seqs) \in Seqs /\ \A t \in Seqs : t <= Max(Seqs)
      /\ diskCursor.seg <= Max(Seqs) + 1
      /\ diskCursor.seg = Max(Seqs) + 1 => diskCursor.off = 0
  BY LastFile
<1>2. CASE diskCursor # NoCursor
  <2>1. StoredCursor = diskCursor
    BY <1>2 DEF StoredCursor
  <2> QED BY <1>1, <2>1 DEF IInv, TypeOK, Marks, Passed, Pos
<1>3. CASE diskCursor = NoCursor
  <2> DEFINE m == Min(Seqs)
  <2>1. m \in Seqs /\ \A t \in Seqs : m <= t
    <3>1. Seqs \in SUBSET Nat
      BY DEF IInv, TypeOK
    <3> HIDE DEF Seqs
    <3> QED BY <3>1, MinNat
  <2>2. StoredCursor = [seg |-> m, off |-> 0]
    BY <1>3 DEF StoredCursor
  <2> HIDE DEF m
  <2>3. m \in Nat /\ m - 1 \notin Seqs /\ segs[m].lo \in Nat
    BY <2>1 DEF IInv, TypeOK, Segment
  <2>4. StoredCursor \in Pos /\ StoredCursor.seg = m /\ StoredCursor.off = 0
    BY <2>2, <2>3 DEF Pos
  <2>5. Passed(StoredCursor)
    <3>1. segs[m].lo <= acked
      BY <2>1, <2>3 DEF IInv, Marks
    <3>2. \A t \in Seqs : ~(t < m)
      BY <2>1, <2>3 DEF IInv, TypeOK
    <3> QED BY <2>3, <2>4, <3>1, <3>2 DEF Passed
  <2> QED BY <1>1, <1>3, <2>1, <2>3, <2>4, <2>5 DEF NoCursor, IInv, TypeOK
<1> QED BY <1>2, <1>3

\* The files that are left after the removals and the cut.
LEMMA ScannedPoint ==
  ASSUME IInv, ~up, NEW L \in Seqs, L = Max(Seqs),
         NEW K, K = {t \in Seqs : t >= StoredCursor.seg}
  PROVE  /\ DOMAIN Scanned = K
         /\ K # {} => L \in K /\ Max(K) = L
         /\ \A t \in K :
              /\ Scanned[t].lo = segs[t].lo
              /\ Scanned[t].size = IF t = L THEN ValidSize(segs[L]) ELSE segs[t].size
              /\ Scanned[t] \in Segment
<1>1. Seqs \subseteq Nat /\ L \in Nat /\ \A t \in Seqs : t <= L
  BY LastFile DEF IInv, TypeOK
<1>2. StoredCursor.seg \in Nat
  BY StoredKeeps DEF Pos
<1>3. DOMAIN Unread = K /\ \A t \in K : Unread[t] = segs[t]
  BY DEF Unread, Restrict
<1>4. K # {} => L \in K /\ Max(K) = L
  <2>1. ASSUME NEW t \in K PROVE L \in K
    BY <1>1, <1>2
  <2>2. K \in SUBSET Nat /\ \A t \in K : t <= L
    BY <1>1
  <2>3. L \in K => Max(K) \in K /\ \A t \in K : t <= Max(K)
    BY <1>1, <2>2, MaxNat
  <2>4. L \in K => Max(K) = L
    BY <1>1, <2>2, <2>3
  <2> QED BY <2>1, <2>4
<1>5. ValidSize(segs[L]) \in Nat
  BY ValidPrefix
<1>6. DOMAIN Scanned = K
  BY <1>3 DEF Scanned
<1>7. ASSUME NEW t \in K
      PROVE  /\ Scanned[t].lo = segs[t].lo
             /\ Scanned[t].size = IF t = L THEN ValidSize(segs[L]) ELSE segs[t].size
             /\ Scanned[t] \in Segment
  <2>1. Max(DOMAIN Unread) = L
    BY <1>3, <1>4, <1>7
  <2>2. Scanned[t] = IF t = L THEN [segs[t] EXCEPT !.size = ValidSize(segs[t])] ELSE segs[t]
    BY <1>3, <1>7, <2>1 DEF Scanned
  <2>3. segs[t] \in Segment
    BY DEF IInv, TypeOK
  <2>4. CASE t = L
    <3>1. Scanned[t] = [segs[L] EXCEPT !.size = ValidSize(segs[L])]
      BY <2>2, <2>4
    <3> HIDE DEF Seqs
    <3> QED BY <1>5, <2>3, <2>4, <3>1 DEF Segment
  <2>5. CASE t # L
    BY <2>2, <2>3, <2>5
  <2> QED BY <2>4, <2>5
<1> QED BY <1>4, <1>6, <1>7

\* The cursor after clampCursorLocked: on the first file left, nothing of which
\* before it is unconfirmed.
LEMMA ResumedPoint ==
  ASSUME IInv, ~up, NEW L \in Seqs, L = Max(Seqs),
         NEW K, K = {t \in Seqs : t >= StoredCursor.seg}, K # {}
  PROVE  /\ Resumed \in Pos /\ Resumed.seg \in K
         /\ \A t \in K : Resumed.seg <= t
         /\ Resumed.off <= Scanned[Resumed.seg].size
         /\ segs[Resumed.seg].lo + Resumed.off <= acked
         /\ StoredCursor.seg <= Resumed.seg
<1> DEFINE r == StoredCursor
<1>1. /\ DOMAIN Scanned = K /\ L \in K
      /\ \A t \in K : Scanned[t].lo = segs[t].lo /\ Scanned[t] \in Segment
  BY ScannedPoint
<1>2. r \in Pos /\ Passed(r)
  BY StoredKeeps
<1>3. Seqs \subseteq Nat /\ L \in Nat /\ \A t \in Seqs : t <= L
  BY LastFile DEF IInv, TypeOK
<1>4. NextFree = L + 1
  BY DEF NextFree
<1>5. CASE r.seg \in K
  <2>1. Resumed = [r EXCEPT !.off = IF @ > Scanned[r.seg].size THEN Scanned[r.seg].size ELSE @]
    BY <1>1, <1>5 DEF Resumed, Clamp
  <2>2. Scanned[r.seg].size \in Nat /\ r.off \in Nat /\ r.seg \in Nat /\ segs[r.seg].lo \in Nat
    BY <1>1, <1>2, <1>5 DEF Segment, Pos, IInv, TypeOK
  <2>3. /\ Resumed \in Pos /\ Resumed.seg = r.seg
        /\ Resumed.off <= Scanned[r.seg].size /\ Resumed.off <= r.off /\ Resumed.off \in Nat
    BY <1>2, <2>1, <2>2 DEF Pos
  <2>4. segs[r.seg].lo + r.off <= acked /\ acked \in Nat
    BY <1>2, <1>5 DEF Passed, IInv, TypeOK
  <2>5. segs[r.seg].lo + Resumed.off <= acked
    BY <2>2, <2>3, <2>4
  <2> QED BY <1>5, <2>2, <2>3, <2>5
<1>6. CASE r.seg \notin K
  <2> DEFINE S == {t \in K : t > r.seg} \cup {L + 1}
             m == Min(S)
  <2>1. K # {} /\ DOMAIN Scanned # {} /\ r.seg \in Nat
    BY <1>1, <1>2 DEF Pos
  <2>2. Resumed = [seg |-> m, off |-> 0]
    BY <1>1, <1>4, <1>6, <2>1 DEF Resumed, Clamp
  <2>3. \A t \in K : t \in S
    BY <1>3, <1>6, <2>1
  <2>4. S \in SUBSET Nat /\ S # {}
    BY <1>3
  <2>5. m \in S /\ \A t \in S : m <= t
    <3> HIDE DEF S
    <3> QED BY <2>4, MinNat
  <2> HIDE DEF m
  <2>6. m \in K
    <3>1. m <= L
      BY <1>1, <2>3, <2>5
    <3> QED BY <1>3, <2>5, <3>1
  <2>7. m - 1 \notin Seqs \/ m - 1 < r.seg
    BY <1>3, <2>1, <2>3, <2>4, <2>5, <2>6
  <2>8. segs[m].lo <= acked
    <3>1. CASE m - 1 \notin Seqs
      BY <2>6, <3>1 DEF IInv, Marks
    <3>2. CASE m - 1 \in Seqs
      <4>1. HiOf(segs[m - 1]) <= acked
        BY <1>2, <2>7, <3>2 DEF Passed
      <4>2. m \in Nat /\ (m - 1) + 1 = m
        BY <1>3, <2>6
      <4>3. HiOf(segs[m - 1]) = segs[m].lo
        BY <2>6, <3>2, <4>2 DEF IInv, Layout
      <4> QED BY <4>1, <4>3
    <3> QED BY <3>1, <3>2
  <2>9. Resumed \in Pos /\ Resumed.seg = m /\ Resumed.off = 0
    BY <1>3, <2>2, <2>6 DEF Pos
  <2>10. segs[m].lo \in Nat /\ Scanned[m].size \in Nat
    BY <1>1, <2>6 DEF IInv, TypeOK, Segment
  <2>11. r.seg <= m
    BY <1>3, <2>1, <2>6
  <2> QED BY <2>3, <2>5, <2>6, <2>8, <2>9, <2>10, <2>11
<1> QED BY <1>5, <1>6

\* A directory emptied by a drained stop is opened as a new one.
LEMMA EmptyPoint ==
  ASSUME Recover, ~ReopenDrained, Seqs = {}
  PROVE  /\ ~up /\ up' /\ segs' \in [{} -> Segment] /\ DOMAIN segs' = {}
         /\ nextSeq' = 1 /\ total' = 0 /\ tail' = tail /\ handed' = tail
         /\ cursor' = [seg |-> 1, off |-> 0] /\ readPos' = [seg |-> 1, off |-> 0]
         /\ diskCursor = NoCursor \/ diskCursor = [seg |-> 1, off |-> 0]
<1>1. StoredCursor = [seg |-> 1, off |-> 0] /\ ~up /\ up'
  BY DEF Recover
<1>2. NextFree = 1 /\ DOMAIN Scanned = {}
  BY DEF NextFree, Scanned, Unread, Restrict
<1>3. ~Exhausted /\ Resumed = [seg |-> 1, off |-> 0]
  BY <1>1, <1>2 DEF Exhausted, Resumed, Clamp
<1>4. DOMAIN Live = {}
  BY <1>2, <1>3 DEF Live, Restrict
<1>5. segs' \in [{} -> Segment] /\ DOMAIN segs' = {}
  BY <1>4 DEF Recover, Reopened
<1>6. /\ nextSeq' = 1 /\ total' = 0 /\ tail' = tail /\ handed' = tail
      /\ cursor' = [seg |-> 1, off |-> 0] /\ readPos' = [seg |-> 1, off |-> 0]
  BY <1>2, <1>3, <1>4 DEF Recover, Bytes
<1>7. diskCursor = NoCursor \/ diskCursor = [seg |-> 1, off |-> 0]
  BY <1>1 DEF StoredCursor
<1> QED BY <1>1, <1>5, <1>6, <1>7

\* It keeps the invariant.
LEMMA RecoverEmpty ==
  ASSUME IInv, Recover, ~ReopenDrained, Seqs = {}
  PROVE  Layout' /\ Numbered' /\ Marks' /\ InMemory' /\ Framed' /\ Kept' /\ Sized'
<1>1. /\ ~up /\ up' /\ Seqs' = {} /\ nextSeq' = 1 /\ total' = 0 /\ tail' = tail
      /\ cursor'.seg = 1 /\ cursor'.off = 0
      /\ diskCursor.seg <= 1 /\ (diskCursor.seg = 1 => diskCursor.off = 0)
      /\ UNCHANGED <<diskCursor, pending, actors, frames, released, acked>>
  BY EmptyPoint DEF Recover, NoCursor
<1>2. Layout' /\ Numbered' /\ Sized'
  BY <1>1 DEF Layout, Numbered, Sized
<1>3. Marks'
  BY <1>1 DEF IInv, Marks, Passed, NotAhead
<1>4. InMemory' /\ Framed' /\ Kept'
  <2>1. InMemory'
    BY <1>1 DEF IInv, InMemory
  <2>2. Framed' /\ Kept'
    BY <1>1 DEF IInv, Framed, Kept
  <2> QED BY <2>1, <2>2
<1> QED BY <1>2, <1>3, <1>4

\* The size of a file once recover has scanned the last one.
ScannedSize(s) ==
  IF s = Max(Seqs) /\ s >= StoredCursor.seg THEN ValidSize(segs[s]) ELSE segs[s].size

\* What the cut and the removals leave of a directory that is not empty.
LEMMA LivePoint ==
  ASSUME IInv, ~up, NEW L \in Seqs, L = Max(Seqs),
         NEW p, p = IF Exhausted THEN [seg |-> Resumed.seg + 1, off |-> 0] ELSE Resumed
  PROVE  /\ p \in Pos /\ p.seg <= L + 1 /\ (p.seg = L + 1 => p.off = 0)
         /\ StoredCursor.seg <= p.seg
         /\ DOMAIN Live \subseteq Seqs
         /\ \A t \in Seqs : t \in DOMAIN Live <=> t >= p.seg
         /\ p.seg <= L => p.seg \in Seqs
         /\ \A t \in DOMAIN Live : t >= StoredCursor.seg /\ Live[t] = Scanned[t]
         /\ p.seg \in Seqs => segs[p.seg].lo + p.off <= acked
         /\ \A s \in Seqs : s < p.seg => segs[s].lo + ScannedSize(s) <= acked
<1> DEFINE r == StoredCursor
           K == {t \in Seqs : t >= StoredCursor.seg}
           c == p.seg
           o == p.off
<1>1. Seqs \subseteq Nat /\ L \in Nat /\ \A t \in Seqs : t <= L
  BY LastFile DEF IInv, TypeOK
<1>2. /\ r \in Pos /\ r.seg \in Nat /\ Passed(r) /\ r.seg <= L + 1
  BY StoredKeeps DEF Pos
<1>3. /\ DOMAIN Scanned = K
      /\ \A t \in K :
           /\ Scanned[t].lo = segs[t].lo
           /\ Scanned[t].size = ScannedSize(t)
           /\ Scanned[t] \in Segment
  <2>1. /\ DOMAIN Scanned = K
        /\ \A t \in K :
             /\ Scanned[t].lo = segs[t].lo
             /\ Scanned[t].size = IF t = L THEN ValidSize(segs[L]) ELSE segs[t].size
             /\ Scanned[t] \in Segment
    BY ScannedPoint
  <2>2. \A t \in K : ScannedSize(t) = IF t = L THEN ValidSize(segs[L]) ELSE segs[t].size
    BY DEF ScannedSize
  <2> QED BY <2>1, <2>2
<1>4. CASE K = {}
  <2>1. L < r.seg
    BY <1>1, <1>2, <1>4
  <2>2. NextFree = L + 1 /\ r.seg = L + 1
    BY <1>1, <1>2, <2>1 DEF NextFree
  <2>3. Resumed = [seg |-> L + 1, off |-> 0]
    BY <1>1, <1>3, <1>4, <2>2 DEF Resumed, Clamp
  <2>4. ~Exhausted
    BY <1>3, <1>4 DEF Exhausted
  <2>5. c = L + 1 /\ o = 0 /\ p \in Pos
    BY <1>1, <2>3, <2>4 DEF Pos
  <2>6. DOMAIN Live = {}
    BY <1>3, <1>4, <2>4 DEF Live, Restrict
  <2>7. \A s \in Seqs : segs[s].lo + ScannedSize(s) <= acked
    <3>1. \A s \in Seqs : ~(s >= r.seg) /\ HiOf(segs[s]) <= acked
      BY <1>1, <1>2, <2>2 DEF Passed
    <3> QED BY <3>1 DEF ScannedSize
  <2> QED BY <1>1, <1>4, <2>2, <2>5, <2>6, <2>7
<1>5. CASE K # {}
  <2> DEFINE m == Resumed.seg
  <2>1. /\ Resumed \in Pos /\ m \in K /\ \A t \in K : m <= t
        /\ Resumed.off <= Scanned[m].size
        /\ segs[m].lo + Resumed.off <= acked
        /\ r.seg <= m /\ L \in K
    BY <1>5, ResumedPoint, ScannedPoint
  <2>2. /\ m \in Nat /\ Resumed.off \in Nat /\ m <= L /\ m \in Seqs
        /\ segs[m].lo \in Nat /\ Scanned[m].size \in Nat /\ acked \in Nat
    BY <1>1, <1>3, <2>1 DEF Pos, IInv, TypeOK, Segment
  <2>3. \A s \in Seqs : s < m => segs[s].lo + ScannedSize(s) <= acked
    <3>1. \A s \in Seqs : s < m => s # L /\ HiOf(segs[s]) <= acked
      BY <1>1, <1>2, <2>1, <2>2 DEF Passed
    <3> QED BY <3>1 DEF ScannedSize
  <2>4. K = {t \in Seqs : t >= m}
    BY <1>1, <1>2, <2>1, <2>2
  <2>5. CASE ~Exhausted
    <3>1. c = m /\ o = Resumed.off /\ p \in Pos
      BY <2>1, <2>5 DEF Pos
    <3>2. DOMAIN Live = K /\ \A t \in K : Live[t] = Scanned[t]
      BY <1>3, <2>5 DEF Live, Restrict
    <3> QED BY <1>1, <2>1, <2>2, <2>3, <2>4, <3>1, <3>2
  <2>6. CASE Exhausted
    <3>1. c = m + 1 /\ o = 0 /\ p \in Pos
      BY <2>2, <2>6 DEF Pos
    <3>2. Resumed.off >= Scanned[m].size
      BY <2>6 DEF Exhausted
    <3>3. DOMAIN Live = K \ {m} /\ \A t \in K \ {m} : Live[t] = Scanned[t]
      BY <1>3, <2>6 DEF Live, Restrict
    <3>4. K \ {m} = {t \in Seqs : t >= c}
      BY <1>1, <2>2, <2>4, <3>1
    <3>5. segs[m].lo + Scanned[m].size <= acked
      BY <2>1, <2>2, <3>2
    <3>6. c <= L => c \in Seqs
      <4>1. c <= L => c \in m .. L
        BY <1>1, <2>2, <3>1
      <4> QED BY <2>2, <4>1 DEF IInv, Layout
    <3>7. c \in Seqs => segs[c].lo + o <= acked
      <4>1. ASSUME c \in Seqs PROVE segs[c].lo + o <= acked
        <5>1. m # L
          BY <1>1, <2>2, <3>1, <4>1
        <5>2. HiOf(segs[m]) = segs[c].lo
          BY <2>2, <3>1, <4>1 DEF IInv, Layout
        <5>3. Scanned[m].size = segs[m].size /\ segs[c].lo \in Nat
          BY <1>3, <2>1, <4>1, <5>1 DEF ScannedSize, IInv, TypeOK, Segment
        <5> QED BY <3>1, <3>5, <5>2, <5>3
      <4> QED BY <4>1
    <3>8. \A s \in Seqs : s < c => segs[s].lo + ScannedSize(s) <= acked
      <4>1. \A s \in Seqs : s < c => s < m \/ s = m
        BY <1>1, <2>2, <3>1
      <4> QED BY <1>3, <1>5, <2>1, <2>3, <3>5, <4>1
    <3> QED BY <1>1, <1>2, <2>1, <2>2, <3>1, <3>3, <3>4, <3>6, <3>7, <3>8
  <2> QED BY <2>5, <2>6
<1> QED BY <1>4, <1>5

\* The running process recover makes of files up to L, the last one cut to v bytes:
\* files F are left, and it resumes at byte o of file c.
Recovered(L, v, c, o, F) ==
  /\ cursor' \in Pos /\ c <= L + 1 /\ (c = L + 1 => o = 0)
  /\ StoredCursor.seg <= c
  /\ c <= L => c \in Seqs
  /\ c \in Seqs => segs[c].lo + o <= acked
  /\ \A s \in Seqs : s < c =>
       segs[s].lo + (IF s = L THEN v ELSE segs[s].size) <= acked
  /\ v \in Nat /\ segs[L].durable <= v /\ v <= segs[L].size
  /\ v = 0 \/ \E f \in frames : segs[L].lo <= f.lo /\ f.hi = segs[L].lo + v
  /\ \A f \in frames : segs[L].lo <= f.lo /\ f.hi <= HiOf(segs[L]) => f.hi <= segs[L].lo + v
  /\ DOMAIN segs' = F
  /\ segs' \in [F -> Segment]
  /\ \A t \in F : /\ segs'[t].lo = segs[t].lo
                  /\ segs'[t].size = IF t = L THEN v ELSE segs[t].size
                  /\ segs'[t].durable = segs'[t].size
                  /\ t # L => segs'[t].closed
  /\ tail' = segs[L].lo + v /\ nextSeq' = L + 1
  /\ total' = IF c = L + 1 THEN 0 ELSE tail' - segs[c].lo
  /\ handed' = IF c <= L THEN segs[c].lo + o ELSE tail'

\* What recover does to a directory that is not empty.
LEMMA RecoveredPoint ==
  ASSUME IInv, Recover, NEW L \in Seqs, L = Max(Seqs), NEW v, v = ScannedSize(L),
         NEW c, c = cursor'.seg, NEW o, o = cursor'.off,
         NEW F, F = {t \in Seqs : t >= c}
  PROVE  Recovered(L, v, c, o, F)
<1> DEFINE K == {t \in Seqs : t >= StoredCursor.seg}
<1>1. /\ ~up /\ Seqs # {} /\ \A t \in Seqs : t <= L
      /\ segs' = Reopened /\ nextSeq' = NextFree /\ total' = Bytes(Live)
      /\ cursor' = IF Exhausted THEN [seg |-> Resumed.seg + 1, off |-> 0] ELSE Resumed
      /\ tail' = IF DOMAIN Scanned = {} THEN tail ELSE HiOf(Scanned[Max(DOMAIN Scanned)])
      /\ handed' = IF cursor'.seg \in DOMAIN Live THEN Live[cursor'.seg].lo + cursor'.off
                                                  ELSE tail'
  BY LastFile DEF Recover
<1>2. PICK p : p = IF Exhausted THEN [seg |-> Resumed.seg + 1, off |-> 0] ELSE Resumed
  OBVIOUS
<1>3. /\ cursor' \in Pos /\ c <= L + 1 /\ (c = L + 1 => o = 0)
      /\ StoredCursor.seg <= c
      /\ DOMAIN Live = F
      /\ c <= L => c \in Seqs
      /\ \A t \in F : t >= StoredCursor.seg /\ Live[t] = Scanned[t]
      /\ c \in Seqs => segs[c].lo + o <= acked
      /\ \A s \in Seqs : s < c => segs[s].lo + ScannedSize(s) <= acked
  <2>1. cursor' = p
    BY <1>1, <1>2
  <2>2. /\ \A t \in Seqs : t \in DOMAIN Live <=> t >= c
        /\ DOMAIN Live \subseteq Seqs
    BY <1>1, <1>2, <2>1, LivePoint
  <2>3. DOMAIN Live = F
    BY <2>2
  <2> QED BY <1>1, <1>2, <2>1, <2>3, LivePoint
<1>4. c \in Nat /\ o \in Nat /\ cursor' = [seg |-> c, off |-> o]
  BY <1>3 DEF Pos
<1>5. /\ Seqs \subseteq Nat /\ L \in Nat /\ acked \in Nat
      /\ \A t \in Seqs : segs[t].lo \in Nat /\ segs[t].size \in Nat
      /\ HiOf(segs[L]) = tail
  <2>1. L + 1 \notin Seqs
    BY <1>1 DEF IInv, TypeOK
  <2> QED BY <2>1 DEF IInv, TypeOK, Layout, Segment
<1>6. /\ DOMAIN Scanned = K /\ (K # {} => L \in K /\ Max(K) = L)
      /\ \A t \in K : /\ Scanned[t].lo = segs[t].lo
                      /\ Scanned[t].size = IF t = L THEN ValidSize(segs[L]) ELSE segs[t].size
                      /\ Scanned[t] \in Segment
  BY <1>1, <1>2, ScannedPoint
<1>7. /\ v \in Nat /\ segs[L].durable <= v /\ v <= segs[L].size
      /\ v = 0 \/ \E f \in frames : segs[L].lo <= f.lo /\ f.hi = segs[L].lo + v
      /\ \A f \in frames : segs[L].lo <= f.lo /\ f.hi <= HiOf(segs[L]) => f.hi <= segs[L].lo + v
  <2>1. CASE K # {}
    <3>1. L \in K
      BY <1>6, <2>1
    <3>2. v = ValidSize(segs[L])
      BY <1>1, <3>1 DEF ScannedSize
    <3> QED BY <1>1, <1>5, <3>2, ValidPrefix
  <2>2. CASE K = {}
    <3>1. segs[L].closed /\ segs[L].durable = segs[L].size
      <4>1. L < StoredCursor.seg /\ Passed(StoredCursor)
        <5>1. StoredCursor.seg \in Nat /\ Passed(StoredCursor)
          BY <1>1, StoredKeeps DEF Pos
        <5> QED BY <1>2, <1>5, <2>2, <5>1
      <4> QED BY <4>1 DEF IInv, Layout, Passed
    <3>2. Boundary(L, segs[L].size)
      BY <3>1 DEF IInv, Framed
    <3>3. v = segs[L].size
      BY <2>2 DEF ScannedSize
    <3> QED BY <1>5, <3>1, <3>2, <3>3 DEF Boundary
  <2> QED BY <2>1, <2>2
<1>8. \A t \in F : /\ Live[t] \in Segment
                   /\ Live[t].lo = segs[t].lo
                   /\ Live[t].size = IF t = L THEN v ELSE segs[t].size
  <2>1. \A t \in F : t \in K /\ Live[t] = Scanned[t]
    BY <1>3
  <2>2. L \in K => v = ValidSize(segs[L])
    BY <1>1 DEF ScannedSize
  <2> QED BY <1>6, <2>1, <2>2
<1>9. tail' = segs[L].lo + v
  <2>1. CASE K # {}
    <3>1. L \in K /\ Max(K) = L
      BY <1>6, <2>1
    <3>2. v = ValidSize(segs[L])
      BY <1>1, <3>1 DEF ScannedSize
    <3>3. tail' = HiOf(Scanned[L])
      BY <1>1, <1>6, <2>1, <3>1
    <3> QED BY <1>6, <3>1, <3>2, <3>3
  <2>2. CASE K = {}
    <3>1. v = segs[L].size
      BY <2>2 DEF ScannedSize
    <3>2. tail' = tail
      BY <1>1, <1>6, <2>2
    <3> QED BY <1>5, <3>1, <3>2
  <2> QED BY <2>1, <2>2
<1>10. nextSeq' = L + 1
  BY <1>1 DEF NextFree
<1>11. /\ DOMAIN segs' = F /\ segs' \in [F -> Segment]
       /\ \A t \in F : /\ segs'[t].lo = segs[t].lo
                       /\ segs'[t].size = IF t = L THEN v ELSE segs[t].size
                       /\ segs'[t].durable = segs'[t].size
                       /\ t # L => segs'[t].closed
  <2>1. DOMAIN segs' = F
    BY <1>1, <1>3 DEF Reopened
  <2>2. \A t \in F : segs'[t] = [Live[t] EXCEPT !.durable = Live[t].size,
                                                !.closed = t # Max(F)
                                                           \/ Live[t].size >= SegmentBytes]
    BY <1>1, <1>3 DEF Reopened
  <2>3. ASSUME NEW t \in F
        PROVE  /\ segs'[t] \in Segment
               /\ segs'[t].lo = Live[t].lo /\ segs'[t].size = Live[t].size
               /\ segs'[t].durable = Live[t].size
               /\ t # Max(F) => segs'[t].closed
    <3>1. Live[t] \in Segment
      BY <1>8
    <3> QED BY <2>2, <2>3, <3>1 DEF Segment
  <2>4. segs' \in [F -> Segment]
    BY <1>1, <2>1, <2>3 DEF Reopened
  <2>5. ASSUME NEW t \in F PROVE Max(F) = L
    <3>1. F \in SUBSET Nat /\ F # {} /\ L \in F /\ \A u \in F : u <= L
      BY <1>1, <1>3, <1>4, <1>5, <2>5
    <3>2. Max(F) \in F /\ \A u \in F : u <= Max(F)
      BY <1>5, <3>1, MaxNat
    <3>3. Max(F) \in Nat /\ L <= Max(F) /\ Max(F) <= L
      BY <3>1, <3>2
    <3> QED BY <1>5, <3>3
  <2> QED BY <1>8, <2>1, <2>3, <2>4, <2>5
<1>12. total' = IF c = L + 1 THEN 0 ELSE tail' - segs[c].lo
  <2>1. CASE F = {}
    <3>1. c = L + 1
      BY <1>3, <1>4, <1>5, <2>1
    <3> QED BY <1>1, <1>3, <2>1, <3>1 DEF Bytes
  <2>2. CASE F # {}
    <3>1. F \in SUBSET Nat /\ L \in F /\ c \in F /\ c # L + 1 /\ \A u \in F : u <= L /\ c <= u
      BY <1>1, <1>3, <1>4, <1>5, <2>2
    <3>2. Max(F) \in F /\ \A u \in F : u <= Max(F)
      BY <1>5, <2>2, <3>1, MaxNat
    <3>3. Min(F) \in F /\ \A u \in F : Min(F) <= u
      BY <2>2, <3>1, MinNat
    <3>4. Max(F) = L /\ Min(F) = c
      <4>1. Max(F) <= L /\ L <= Max(F) /\ Max(F) \in Nat
        BY <3>1, <3>2
      <4>2. Min(F) <= c /\ c <= Min(F) /\ Min(F) \in Nat
        BY <3>1, <3>3
      <4> QED BY <1>4, <1>5, <4>1, <4>2
    <3>5. total' = HiOf(Live[L]) - Live[c].lo
      BY <1>1, <1>3, <2>2, <3>4 DEF Bytes
    <3> QED BY <1>8, <1>9, <3>1, <3>5
  <2> QED BY <2>1, <2>2
<1>13. handed' = IF c <= L THEN segs[c].lo + o ELSE tail'
  <2>1. c \in F <=> c <= L
    BY <1>1, <1>3, <1>4, <1>5
  <2>2. handed' = IF c \in F THEN Live[c].lo + o ELSE tail'
    BY <1>1, <1>3
  <2> QED BY <1>8, <2>1, <2>2
<1>14. \A s \in Seqs : s < c => segs[s].lo + (IF s = L THEN v ELSE segs[s].size) <= acked
  <2>1. \A s \in Seqs : s # L => ScannedSize(s) = segs[s].size
    BY <1>1 DEF ScannedSize
  <2> QED BY <1>3, <2>1
<1> QED BY <1>3, <1>7, <1>9, <1>10, <1>11, <1>12, <1>13, <1>14 DEF Recovered

\* Opening an existing directory establishes the invariant of a running process.
LEMMA RecoverInv ==
  ASSUME IInv, Recover, ~ReopenDrained
  PROVE  IInv'
<1>1. /\ ~up /\ up' /\ segs' = Reopened /\ nextSeq' = NextFree /\ total' = Bytes(Live)
      /\ cursor' = IF Exhausted THEN [seg |-> Resumed.seg + 1, off |-> 0] ELSE Resumed
      /\ readPos' = cursor'
      /\ tail' = IF DOMAIN Scanned = {} THEN tail ELSE HiOf(Scanned[Max(DOMAIN Scanned)])
      /\ handed' = IF cursor'.seg \in DOMAIN Live THEN Live[cursor'.seg].lo + cursor'.off
                                                  ELSE tail'
      /\ UNCHANGED <<diskCursor, pending, stopping, closed, fatal, actors,
                     frames, released, acked, written, downs>>
  BY DEF Recover
<1>2. up' \in BOOLEAN
  BY DEF Recover
<1>3. ASSUME Seqs' \subseteq Nat, segs' \in [Seqs' -> Segment], nextSeq' \in Nat,
             total' \in Nat, cursor' \in Pos, tail' \in Nat, handed' \in Nat
      PROVE  TypeOK'
  BY <1>1, <1>2, <1>3 DEF IInv, TypeOK
<1>4. CASE Seqs = {}
  <2>1. /\ segs' \in [{} -> Segment] /\ DOMAIN segs' = {}
        /\ nextSeq' = 1 /\ total' = 0 /\ tail' = tail /\ handed' = tail
        /\ cursor' = [seg |-> 1, off |-> 0]
    BY <1>4, EmptyPoint
  <2>2. TypeOK'
    BY <1>3, <2>1 DEF IInv, TypeOK, Pos
  <2> QED BY <1>4, <2>2, RecoverEmpty DEF IInv
<1>5. CASE Seqs # {}
  <2>1. PICK L \in Seqs : L = Max(Seqs) /\ \A t \in Seqs : t <= L
    BY <1>1, <1>5, LastFile
  <2>2. PICK c, o, v, F : /\ c = cursor'.seg /\ o = cursor'.off /\ v = ScannedSize(L)
                          /\ F = {t \in Seqs : t >= c}
    OBVIOUS
  <2>3. Recovered(L, v, c, o, F)
    BY <2>1, <2>2, RecoveredPoint
  <2> USE DEF Recovered
  <2>4. c \in Nat /\ o \in Nat /\ cursor' = [seg |-> c, off |-> o]
    BY <2>2, <2>3 DEF Pos
  <2>5. /\ Seqs \subseteq Nat /\ L \in Nat /\ acked \in Nat
        /\ \A t \in Seqs : segs[t].lo \in Nat /\ segs[t].size \in Nat
    BY <2>1 DEF IInv, TypeOK, Segment
  <2>6. TypeOK'
    <3>1. tail' \in Nat
      BY <2>1, <2>3, <2>5
    <3>2. total' \in Nat
      <4>1. CASE c = L + 1
        BY <2>3, <4>1
      <4>2. CASE c # L + 1
        <5>1. c \in Seqs /\ c <= L
          BY <2>3, <2>4, <2>5, <4>2
        <5>2. segs[c].lo <= segs[L].lo
          <6>1. CASE c = L
            BY <2>5, <5>1, <6>1
          <6>2. CASE c # L
            <7>1. HiOf(segs[c]) <= segs[L].lo
              BY <2>4, <2>5, <5>1, <6>2 DEF IInv, Layout
            <7> QED BY <2>1, <2>5, <5>1, <7>1
          <6> QED BY <6>1, <6>2
        <5> QED BY <2>1, <2>3, <2>5, <4>2, <5>1, <5>2
      <4> QED BY <4>1, <4>2
    <3>3. handed' \in Nat
      BY <2>3, <2>4, <2>5, <3>1
    <3>4. F \subseteq Nat
      BY <2>2, <2>5
    <3> QED BY <1>3, <2>3, <2>5, <3>1, <3>2, <3>3, <3>4
  <2>7. diskCursor.seg <= c
    <3>1. StoredCursor.seg \in Nat /\ diskCursor.seg <= StoredCursor.seg
      BY <1>1, <1>5, StoredKeeps DEF Pos
    <3>2. diskCursor.seg \in Nat
      BY DEF IInv, TypeOK, Pos
    <3> QED BY <2>3, <2>4, <3>1, <3>2
  <2>8. c <= L => c \in F
    BY <2>2, <2>3, <2>4
  <2>9. Layout' /\ Numbered' /\ Marks' /\ InMemory' /\ Framed' /\ Kept' /\ Sized'
    BY <1>1, <2>1, <2>2, <2>3, <2>4, <2>7, <2>8, Reopening
  <2> QED BY <2>6, <2>9 DEF IInv
<1> QED BY <1>4, <1>5

-----------------------------------------------------------------------------
(* The theorems *)

\* Every step keeps the invariant.
LEMMA NextInv ==
  ASSUME IInv, [Next]_vars, ~ReopenDrained
  PROVE  IInv'
<1>1. ASSUME NEW w \in Writer, AppendFrame(w) PROVE IInv'
  BY <1>1, OversizeInv, RefusedInv, AppendBlocksInv, AppendHereInv, AppendRotatesInv,
     AppendOpensInv, AppendFailsInv DEF AppendFrame
<1>2. ASSUME NEW w \in Writer, NEW n \in FrameSizes, Call(w, n) PROVE IInv'
  BY <1>2, CallInv
<1>3. CASE SyncTick
  BY <1>3, SyncTickInv
<1>4. CASE Reader
  BY <1>4, ReadSkipsInv, ReadStartsInv, ReadFinishesInv DEF Reader
<1>5. CASE Batcher
  BY <1>5, ReapRemovesInv, AckInv DEF Batcher
<1>6. CASE Owner
  BY <1>6, BeginShutdownInv, CloseWriterInv, CloseWriterFailsInv, ExitInv DEF Owner
<1>7. CASE Crash
  BY <1>7, CrashInv
<1>8. CASE Fault
  BY <1>8, FaultInv
<1>9. CASE Recover
  BY <1>9, RecoverInv
<1>10. CASE UNCHANGED vars
  <2>1. TypeOK'
    BY <1>10 DEF IInv, TypeOK, vars
  <2> QED BY <1>10, <2>1, IdleStep DEF vars
<1> QED BY <1>1, <1>2, <1>3, <1>4, <1>5, <1>6, <1>7, <1>8, <1>9, <1>10 DEF Next

\* Files, counters, cursors and goroutines agree in every reachable state, if a
\* directory emptied by a drained stop is not opened with its cursor.
THEOREM Invariance ==
  ASSUME ~ReopenDrained
  PROVE  Spec => []IInv
<1>1. Init => IInv
  BY InitIInv
<1>2. IInv /\ [Next]_vars => IInv'
  BY NextInv
<1> QED BY <1>1, <1>2, PTL DEF Spec

\* Every variable of the buffer has its type: no counter underflows, no cursor
\* leaves its domain.
THEOREM TypeCorrect ==
  ASSUME ~ReopenDrained
  PROVE  Spec => []TypeOK
<1>1. IInv => TypeOK
  BY DEF IInv
<1> QED BY <1>1, Invariance, PTL

\* No crash, stop, failed append or reap loses an event whose checkpoint has moved.
THEOREM NothingLost ==
  ASSUME ~ReopenDrained
  PROVE  Spec => []NoLoss
<1>1. IInv => NoLoss
  <2> SUFFICES ASSUME IInv, NEW e \in released, ~(e <= acked)
               PROVE  \E s \in Seqs : /\ s >= (IF up THEN cursor ELSE diskCursor).seg
                                      /\ segs[s].lo < e
                                      /\ e <= segs[s].lo + segs[s].durable
    BY DEF NoLoss
  <2>1. PICK s \in Seqs : segs[s].lo < e /\ e <= segs[s].lo + segs[s].durable
    BY DEF IInv, Kept
  <2>2. /\ s \in Nat /\ e \in Nat /\ acked \in Nat /\ cursor.seg \in Nat /\ diskCursor.seg \in Nat
        /\ segs[s].lo \in Nat /\ segs[s].size \in Nat /\ segs[s].durable \in Nat
        /\ segs[s].durable <= segs[s].size
    BY DEF IInv, TypeOK, Layout, Segment, Pos
  <2>3. ~(HiOf(segs[s]) <= acked)
    BY <2>1, <2>2
  <2>4. Passed(diskCursor) /\ (up => Passed(cursor))
    BY DEF IInv, Marks
  <2>5. ~(s < diskCursor.seg) /\ (up => ~(s < cursor.seg))
    BY <2>3, <2>4 DEF Passed
  <2> QED BY <2>1, <2>2, <2>5
<1> QED BY <1>1, Invariance, PTL

-----------------------------------------------------------------------------
(***************************************************************************)
(* 2. The reader, the restart, the stop                                    *)
(***************************************************************************)

USE DEF Seqs, HiOf, memory, actors, history, Idle, NotReading

-----------------------------------------------------------------------------
(* The log grows *)

\* What a running process may do to the segments other than delete one: fsync,
\* close or lengthen the open one, and create the next.
Grows ==
  /\ up /\ up' /\ tail <= tail'
  /\ Seqs \subseteq Seqs' /\ Seqs' \subseteq Seqs \cup {nextSeq}
  /\ \A t \in Seqs : /\ segs'[t].lo = segs[t].lo
                     /\ segs[t].durable <= segs'[t].durable
                     /\ segs'[t].durable \in {segs[t].durable, segs[t].size}
                     /\ segs[t].closed => segs'[t] = segs[t]
  /\ IF nextSeq \in Seqs'
     THEN segs'[nextSeq].lo = tail /\ segs'[nextSeq].durable = 0 /\ nextSeq' = nextSeq + 1
     ELSE nextSeq' = nextSeq /\ ((\A t \in Seqs : segs[t].closed) => tail' = tail)

\* The numbers of the segments of a running process.
LEMMA Numbers ==
  ASSUME IInv, up
  PROVE  /\ nextSeq \in Nat /\ Seqs \in SUBSET Nat /\ nextSeq \notin Seqs /\ tail \in Nat
         /\ \A t \in Seqs : /\ t < nextSeq /\ segs[t].lo \in Nat /\ segs[t].size \in Nat
                            /\ segs[t].durable \in Nat /\ segs[t].durable <= segs[t].size
                            /\ HiOf(segs[t]) <= tail
         /\ Seqs # {} => nextSeq - 1 \in Seqs /\ HiOf(segs[nextSeq - 1]) = tail
         /\ \A t, u \in Seqs : t < u => segs[t].closed /\ HiOf(segs[t]) <= segs[u].lo
<1>1. /\ nextSeq \in Nat /\ Seqs \in SUBSET Nat /\ nextSeq \notin Seqs /\ tail \in Nat
      /\ \A t \in Seqs : t < nextSeq
      /\ Seqs # {} => nextSeq - 1 \in Seqs
  BY DEF IInv, TypeOK, Numbered
<1>2. \A t \in Seqs : HiOf(segs[t]) <= tail
  BY WithinLog
<1>3. \A t \in Seqs : /\ segs[t].lo \in Nat /\ segs[t].size \in Nat
                      /\ segs[t].durable \in Nat /\ segs[t].durable <= segs[t].size
  BY DEF IInv, TypeOK, Layout, Segment
<1>4. Seqs # {} => HiOf(segs[nextSeq - 1]) = tail
  <2>1. (nextSeq - 1) + 1 = nextSeq
    BY <1>1
  <2> QED BY <1>1, <2>1 DEF IInv, Layout
<1>5. \A t, u \in Seqs : t < u => segs[t].closed /\ HiOf(segs[t]) <= segs[u].lo
  <2>1. ASSUME NEW t \in Seqs, NEW u \in Seqs, t < u PROVE segs[t].closed
    <3>1. t + 1 \in t .. u
      BY <1>1, <2>1
    <3>2. t + 1 \in Seqs
      BY <3>1 DEF IInv, Layout
    <3> QED BY <3>2 DEF IInv, Layout
  <2> QED BY <2>1 DEF IInv, Layout
<1> QED BY <1>1, <1>2, <1>3, <1>4, <1>5

\* A position keeps standing for its byte.
LEMMA GrowsAt ==
  ASSUME IInv, Grows, NEW c \in Pos, NotAhead(c), NEW x \in Nat, At(c, x)
  PROVE  At(c, x)' /\ NotAhead(c)'
<1> DEFINE q == nextSeq
<1>1. /\ q \in Nat /\ Seqs \in SUBSET Nat /\ q \notin Seqs /\ tail \in Nat
      /\ \A t \in Seqs : t < q
      /\ Seqs # {} => q - 1 \in Seqs
      /\ c.seg \in Nat /\ c.off \in Nat /\ c.seg <= q /\ (c.seg = q => c.off = 0)
  BY Numbers DEF Grows, NotAhead, Pos
<1>2. \A s \in Seqs' : s < c.seg => s \in Seqs /\ segs'[s].closed
  <2>1. \A s \in Seqs' : s < c.seg => s \in Seqs
    BY <1>1 DEF Grows
  <2> QED BY <2>1 DEF Grows, At
<1>3. c.seg \in Seqs' => segs'[c.seg].lo + c.off = x
  <2>1. CASE c.seg \in Seqs
    BY <2>1 DEF Grows, At
  <2>2. CASE c.seg = q /\ q \in Seqs'
    <3>1. x = tail /\ segs'[q].lo = tail
      BY <1>1, <2>2 DEF Grows, At
    <3> QED BY <1>1, <2>2, <3>1
  <2> QED BY <2>1, <2>2 DEF Grows
<1>4. (\A s \in Seqs' : s < c.seg) => x = tail'
  <2> SUFFICES ASSUME \A s \in Seqs' : s < c.seg PROVE x = tail'
    OBVIOUS
  <2>1. q \notin Seqs' /\ \A s \in Seqs : s < c.seg
    BY <1>1 DEF Grows
  <2>2. x = tail /\ \A s \in Seqs : segs[s].closed
    BY <2>1 DEF At
  <2> QED BY <2>1, <2>2 DEF Grows
<1>5. \A s \in Seqs' : c.seg < s /\ s - 1 \notin Seqs' => segs'[s].lo = x
  <2> SUFFICES ASSUME NEW s \in Seqs', c.seg < s, s - 1 \notin Seqs' PROVE segs'[s].lo = x
    OBVIOUS
  <2>1. CASE s \in Seqs
    BY <2>1 DEF Grows, At
  <2>2. CASE s = q
    <3>1. Seqs = {}
      BY <1>1, <2>2 DEF Grows
    <3>2. x = tail
      BY <3>1 DEF At
    <3> QED BY <2>2, <3>2 DEF Grows
  <2> QED BY <2>1, <2>2 DEF Grows
<1>6. NotAhead(c)'
  BY <1>1 DEF Grows, NotAhead
<1> QED BY <1>2, <1>3, <1>4, <1>5, <1>6 DEF At

\* A step that writes at most one frame, at the end of the log.
Writes ==
  \/ frames' = frames /\ tail' = tail
  \/ frames' = frames \cup {[lo |-> tail, hi |-> tail']} /\ tail < tail'

\* Frames stay end to end, between them the segments.
LEMMA GrowsTiled ==
  ASSUME IInv, Tiled, Grows, Writes, tail' \in Nat
  PROVE  Tiled' /\ Ends \subseteq Ends'
<1>1. /\ tail \in Nat /\ tail \in Ends
      /\ \A f \in frames : f.lo \in Nat /\ f.hi \in Nat /\ f.hi <= tail
      /\ \A f \in frames : \A x \in Ends : x < f.hi => x <= f.lo /\ \E g \in frames : g.lo = x
      /\ \A s \in Seqs : segs[s].lo \in Ends
  BY DEF IInv, TypeOK, Tiled, Grows
<1>2. Ends \subseteq Ends' /\ tail' \in Ends' /\ Ends' \subseteq Ends \cup {tail'}
  <2>1. CASE frames' = frames /\ tail' = tail
    <3>1. Ends' = Ends
      BY <2>1 DEF Ends
    <3> QED BY <1>1, <2>1, <3>1
  <2>2. CASE frames' = frames \cup {[lo |-> tail, hi |-> tail']}
    <3>1. Ends' = {0} \cup {f.hi : f \in frames'}
      BY DEF Ends
    <3>2. \A e \in Ends : e \in Ends'
      BY <2>2, <3>1 DEF Ends
    <3>3. \E f \in frames' : f.hi = tail'
      <4>1. [lo |-> tail, hi |-> tail'] \in frames'
        BY <2>2
      <4>2. [lo |-> tail, hi |-> tail'].hi = tail'
        OBVIOUS
      <4> QED BY <4>1, <4>2
    <3>4. \A f \in frames' : f \in frames \/ f.hi = tail'
      BY <2>2
    <3>5. \A e \in Ends' : e \in Ends \/ e = tail'
      BY <3>1, <3>4 DEF Ends
    <3> QED BY <3>1, <3>2, <3>3, <3>5
  <2> QED BY <2>1, <2>2 DEF Writes
<1>3. \A s \in Seqs' : segs'[s].lo \in Ends'
  BY <1>1, <1>2 DEF Grows
<1>4. CASE frames' = frames /\ tail' = tail
  <2>1. Ends' = Ends
    BY <1>4 DEF Ends
  <2> QED BY <1>1, <1>2, <1>3, <1>4, <2>1 DEF Tiled
<1>5. CASE frames' = frames \cup {[lo |-> tail, hi |-> tail']} /\ tail < tail'
  <2> DEFINE n == [lo |-> tail, hi |-> tail']
  <2>1. n \in frames' /\ n.lo = tail /\ n.hi = tail'
    BY <1>5
  <2>2. \A f \in frames' : f.hi <= tail'
    BY <1>1, <1>5
  <2>3. \A x \in Ends : x \in Nat /\ x <= tail
    BY <1>1 DEF Ends
  <2>4. ASSUME NEW x \in Ends PROVE \E g \in frames' : g.lo = x
    <3>1. CASE x = tail
      BY <2>1, <3>1
    <3>2. CASE x # tail
      <4>1. x < tail /\ tail # 0
        BY <1>1, <2>3, <3>2
      <4>2. PICK f \in frames : f.hi = tail
        BY <1>1, <4>1 DEF Ends
      <4>3. \E g \in frames : g.lo = x
        BY <1>1, <4>1, <4>2
      <4> QED BY <4>3, <1>5
    <3> QED BY <3>1, <3>2
  <2>5. ASSUME NEW f \in frames', NEW x \in Ends', x < f.hi
        PROVE  x <= f.lo /\ \E g \in frames' : g.lo = x
    <3>1. x \in Ends
      BY <1>1, <1>2, <1>5, <2>2, <2>5
    <3>2. CASE f \in frames
      BY <1>1, <2>4, <2>5, <3>1, <3>2
    <3>3. CASE f = n
      BY <2>1, <2>3, <2>4, <3>1, <3>3
    <3> QED BY <1>5, <3>2, <3>3
  <2> QED BY <1>2, <1>3, <2>2, <2>5 DEF Tiled
<1> QED BY <1>2, <1>4, <1>5 DEF Writes

\* A position between two frames stays one.
LEMMA GrowsOnFrame ==
  ASSUME IInv, Tiled, Grows, Ends \subseteq Ends', segs' \in [Seqs' -> Segment],
         NEW c \in Pos, NotAhead(c), OnFrame(c)
  PROVE  OnFrame(c)'
<1>1. CASE c.seg \in Seqs
  <2>1. /\ segs'[c.seg].lo = segs[c.seg].lo /\ segs[c.seg].durable <= segs'[c.seg].durable
        /\ segs[c.seg].durable \in Nat /\ segs'[c.seg].durable \in Nat /\ c.off \in Nat
    BY <1>1, Numbers DEF Grows, Segment, Pos
  <2> QED BY <1>1, <2>1 DEF OnFrame
<1>2. CASE c.seg = nextSeq /\ nextSeq \in Seqs'
  <2>1. c.off = 0 /\ segs'[c.seg].lo = tail /\ tail \in Nat /\ tail \in Ends'
    BY <1>2, Numbers DEF Grows, NotAhead, Tiled
  <2>2. segs'[c.seg].durable \in Nat
    BY <1>2 DEF Segment
  <2> QED BY <2>1, <2>2 DEF OnFrame
<1>3. c.seg \in Seqs' => c.seg \in Seqs \/ (c.seg = nextSeq /\ nextSeq \in Seqs')
  BY DEF Grows
<1> QED BY <1>1, <1>2, <1>3 DEF OnFrame

\* What is fsynced grows with the log.
LEMMA GrowsSafe ==
  ASSUME IInv, AckedIsSafe, Grows, tail' \in Nat, segs' \in [Seqs' -> Segment], acked' = acked
  PROVE  AckedIsSafe'
<1>1. /\ nextSeq \in Nat /\ Seqs \in SUBSET Nat /\ nextSeq \notin Seqs /\ tail \in Nat
      /\ acked \in Nat
      /\ \A t \in Seqs : t < nextSeq
      /\ Seqs # {} => nextSeq - 1 \in Seqs /\ HiOf(segs[nextSeq - 1]) = tail
  BY Numbers DEF Grows, IInv, TypeOK
<1>2. Seqs' = {} => acked <= tail'
  BY <1>1 DEF Grows, AckedIsSafe
<1>3. nextSeq \in Seqs' => acked <= tail
  <2>1. CASE Seqs = {}
    BY <2>1 DEF AckedIsSafe
  <2>2. CASE Seqs # {}
    <3>1. acked <= segs[nextSeq - 1].lo + segs[nextSeq - 1].durable
      BY <1>1, <2>2 DEF AckedIsSafe
    <3> QED BY <1>1, <2>2, <3>1, Numbers DEF Grows
  <2> QED BY <2>1, <2>2
<1>4. ASSUME NEW s \in Seqs', s + 1 \notin Seqs'
      PROVE  acked <= segs'[s].lo + segs'[s].durable
  <2>1. CASE s \in Seqs
    <3>1. acked <= segs[s].lo + segs[s].durable
      BY <1>4, <2>1 DEF Grows, AckedIsSafe
    <3>2. /\ segs[s].lo \in Nat /\ segs[s].durable \in Nat /\ segs'[s].durable \in Nat
      BY <2>1, <1>4, Numbers DEF Grows, Segment
    <3> QED BY <1>1, <2>1, <3>1, <3>2 DEF Grows
  <2>2. CASE s = nextSeq
    BY <1>1, <1>3, <1>4, <2>2 DEF Grows, Segment
  <2> QED BY <1>4, <2>1, <2>2 DEF Grows
<1> QED BY <1>2, <1>4 DEF AckedIsSafe

\* What the reader has passed stays behind it.
LEMMA GrowsBehind ==
  ASSUME IInv, Grows, At(readPos, handed), handed' = handed,
         NEW c \in Pos, NotAhead(c), Passed(c), Behind(c)
  PROVE  Behind(c)'
<1>1. /\ nextSeq \in Nat /\ Seqs \in SUBSET Nat /\ nextSeq \notin Seqs /\ tail \in Nat
      /\ handed \in Nat /\ \A t \in Seqs : t < nextSeq
      /\ Seqs # {} => nextSeq - 1 \in Seqs /\ HiOf(segs[nextSeq - 1]) = tail
      /\ c.seg \in Nat /\ c.off \in Nat /\ c.seg <= nextSeq /\ (c.seg = nextSeq => c.off = 0)
  BY Numbers DEF Grows, IInv, TypeOK, NotAhead, Pos
<1>2. ASSUME NEW s \in Seqs', s < c.seg PROVE HiOf(segs'[s]) <= handed
  <2>1. s \in Seqs
    BY <1>1, <1>2 DEF Grows
  <2> QED BY <1>2, <2>1 DEF Grows, Passed, Behind
<1>3. ASSUME c.seg \in Seqs' PROVE segs'[c.seg].lo + c.off <= handed
  <2>1. CASE c.seg \in Seqs
    BY <2>1 DEF Grows, Behind
  <2>2. CASE c.seg = nextSeq
    <3>1. tail <= handed
      <4>1. CASE Seqs = {}
        BY <1>1, <4>1 DEF At
      <4>2. CASE Seqs # {}
        <5>1. HiOf(segs[nextSeq - 1]) <= handed
          BY <1>1, <2>2, <4>2 DEF Behind
        <5> QED BY <1>1, <4>2, <5>1
      <4> QED BY <4>1, <4>2
    <3> QED BY <1>1, <1>3, <2>2, <3>1 DEF Grows
  <2> QED BY <1>3, <2>1, <2>2 DEF Grows
<1> QED BY <1>2, <1>3 DEF Behind

\* A step of writers and syncer leaves the reader and the cursors where they are.
LEMMA GrowsRead ==
  ASSUME WInv, IInv', Grows, Writes,
         UNCHANGED <<diskCursor, cursor, readPos, inflight, acked, handed>>,
         reader' = reader \/ reader' = NotReading
  PROVE  Tiled' /\ Aligned' /\ Standing' /\ Exact' /\ AckedIsSafe'
<1>1. /\ IInv /\ up /\ up' /\ Tiled /\ handed \in Nat /\ acked \in Nat /\ tail' \in Nat
      /\ diskCursor \in Pos /\ cursor \in Pos /\ readPos \in Pos
      /\ segs' \in [Seqs' -> Segment]
      /\ \A x \in inflight : x.pos \in Pos /\ x.end \in Nat /\ x.pos.seg < nextSeq
  BY DEF WInv, Grows, IInv, TypeOK, Standing
<1>2. /\ NotAhead(diskCursor) /\ NotAhead(cursor) /\ NotAhead(readPos)
      /\ \A x \in inflight : NotAhead(x.pos)
  <2>1. \A x \in inflight : x.pos.seg \in Nat /\ nextSeq \in Nat
    BY <1>1, Numbers DEF Pos
  <2>2. \A x \in inflight : NotAhead(x.pos)
    BY <1>1, <2>1 DEF NotAhead
  <2> QED BY <1>1, <2>2 DEF WInv, IInv, Marks, Standing
<1>3. Tiled' /\ Ends \subseteq Ends'
  BY <1>1, GrowsTiled
<1>4. Aligned'
  <2>1. \A c \in Pos : NotAhead(c) /\ OnFrame(c) => OnFrame(c)'
    BY <1>1, <1>3, GrowsOnFrame
  <2>2. OnFrame(diskCursor)' /\ OnFrame(cursor)' /\ OnFrame(readPos)'
    BY <1>1, <1>2, <2>1 DEF WInv, Aligned
  <2>3. \A x \in inflight : OnFrame(x.pos)'
    BY <1>1, <1>2, <2>1 DEF WInv, Aligned
  <2> QED BY <2>2, <2>3 DEF Aligned
<1>5. Standing'
  <2>1. At(readPos, handed)' /\ NotAhead(readPos)'
    <3>1. \A c \in Pos, x \in Nat : NotAhead(c) /\ At(c, x) => At(c, x)' /\ NotAhead(c)'
      BY <1>1, GrowsAt
    <3> QED BY <1>1, <1>2, <3>1 DEF WInv, Standing
  <2>2. Behind(cursor)'
    <3>1. \A c \in Pos : NotAhead(c) /\ Passed(c) /\ Behind(c) => Behind(c)'
      BY <1>1, GrowsBehind DEF WInv, Standing
    <3>2. Passed(cursor) /\ Behind(cursor)
      BY <1>1 DEF WInv, Standing, IInv, Marks
    <3> QED BY <1>1, <1>2, <3>1, <3>2
  <2>3. reader'.busy => /\ reader'.seg = readPos'.seg /\ reader'.off = readPos'.off
                        /\ reader'.seg \in Seqs' /\ reader'.off < reader'.limit
                        /\ segs'[reader'.seg].lo + reader'.limit \in Ends'
    <3>1. reader'.busy => reader' = reader
      OBVIOUS
    <3> QED BY <1>1, <1>3, <3>1 DEF WInv, Standing, Grows
  <2>4. \A x \in inflight' : x.end <= handed' /\ x.pos.seg < nextSeq'
    <3>1. nextSeq' = nextSeq \/ nextSeq' = nextSeq + 1
      BY DEF Grows
    <3> QED BY <1>1, <3>1, Numbers DEF WInv, Standing, Pos
  <2>5. diskCursor'.seg <= cursor'.seg
    BY <1>1 DEF WInv, Standing
  <2> QED BY <2>1, <2>2, <2>3, <2>4, <2>5 DEF Standing
<1>6. Exact'
  <2>1. \A c \in Pos, x \in Nat : NotAhead(c) /\ At(c, x) => At(c, x)'
    BY <1>1, GrowsAt
  <2>2. ASSUME ~CursorMayBreak PROVE At(diskCursor, acked)' /\ At(cursor, acked)'
    BY <1>1, <1>2, <2>1, <2>2 DEF WInv, Exact
  <2> QED BY <1>1, <2>2 DEF WInv, Exact, Before
<1>7. AckedIsSafe'
  BY <1>1, GrowsSafe DEF WInv
<1> QED BY <1>3, <1>4, <1>5, <1>6, <1>7

\* Before a stop, a reap leaves nothing the log's growth could turn into a
\* segment to remove.
LEMMA GrowsSwept ==
  ASSUME WInv, Grows, ~closed', fatal => fatal', reaping' = reaping, cursor' = cursor
  PROVE  Swept'
<1> SUFFICES ASSUME ~fatal', ~reaping', NEW s \in Doomed(segs, cursor)' PROVE FALSE
  BY DEF Swept
<1>1. /\ IInv /\ up /\ cursor \in Pos /\ NotAhead(cursor) /\ Passed(cursor)
      /\ Doomed(segs, cursor) = {}
  BY DEF WInv, Swept, Grows, IInv, TypeOK, Marks
<1>2. s \in Seqs' /\ s < cursor.seg
  BY DEF Doomed
<1>3. s \in Seqs
  BY <1>1, <1>2, Numbers DEF Grows, NotAhead, Pos
<1>4. segs[s].closed
  BY <1>1, <1>2, <1>3 DEF Passed
<1> QED BY <1>1, <1>2, <1>3, <1>4 DEF Doomed

\* A step that touches neither files, frames, cursors nor the reader's place.
LEMMA IdleRead ==
  ASSUME WInv, IInv',
         UNCHANGED <<up, segs, diskCursor, nextSeq, cursor, readPos, frames, tail, acked,
                     handed, inflight>>,
         reader' = reader \/ reader' = NotReading,
         (up /\ fatal') \/ UNCHANGED <<fatal, closed, reaping>>
  PROVE  WInv'
<1>1. Tiled' /\ AckedIsSafe'
  BY DEF WInv, Tiled, Ends, AckedIsSafe
<1>2. Aligned'
  BY DEF WInv, Aligned, OnFrame, Ends
<1>3. Standing'
  <2>1. reader'.busy => reader' = reader
    OBVIOUS
  <2>2. up' => At(readPos, handed)' /\ NotAhead(readPos)' /\ Behind(cursor)'
    BY DEF WInv, Standing, At, NotAhead, Behind
  <2>3. up' /\ reader'.busy => /\ reader'.seg = readPos'.seg /\ reader'.off = readPos'.off
                               /\ reader'.seg \in Seqs' /\ reader'.off < reader'.limit
                               /\ segs'[reader'.seg].lo + reader'.limit \in Ends'
    BY <2>1 DEF WInv, Standing, Ends
  <2> QED BY <2>2, <2>3 DEF WInv, Standing
<1>4. Exact'
  BY DEF WInv, Exact, At, Before
<1>5. Swept'
  BY DEF WInv, Swept, Doomed
<1> QED BY <1>1, <1>2, <1>3, <1>4, <1>5 DEF WInv

-----------------------------------------------------------------------------
(* Writers and syncer *)

\* A sync, with or without closing the segment, lets the log grow.
LEMMA SealGrows ==
  ASSUME IInv, up, up', NEW s \in Cur, segs' = Shut(segs, s) \/ segs' = Synced(segs, s),
         nextSeq' = nextSeq, tail' = tail
  PROVE  Grows
<1>1. /\ DOMAIN segs' = Seqs /\ segs' \in [Seqs -> Segment]
      /\ \A t \in Seqs : /\ segs'[t].lo = segs[t].lo /\ segs'[t].size = segs[t].size
                         /\ t # s => segs'[t] = segs[t]
      /\ segs'[s].durable = segs[s].size
  BY SealPoint
<1>2. s \in Seqs /\ ~segs[s].closed
  BY OpenIsLast
<1>3. nextSeq \notin Seqs /\ tail \in Nat
      /\ \A t \in Seqs : segs[t].durable \in Nat /\ segs[t].size \in Nat
                         /\ segs[t].durable <= segs[t].size
  BY Numbers
<1>4. \A t \in Seqs : segs[t].durable <= segs'[t].durable
  <2>1. \A t \in Seqs : t # s => segs'[t].durable = segs[t].durable
    BY <1>1
  <2> QED BY <1>1, <1>2, <1>3, <2>1
<1>5. \A t \in Seqs : segs[t].closed => segs'[t] = segs[t]
  BY <1>1, <1>2
<1> QED BY <1>1, <1>3, <1>4, <1>5 DEF Grows

\* The syncer's tick keeps the reader's invariant.
LEMMA SyncTickRead ==
  ASSUME WInv, IInv', SyncTick
  PROVE  WInv'
<1>1. PICK s \in Cur : segs' = Synced(segs, s)
  BY DEF SyncTick
<1>2. Grows
  BY <1>1, SealGrows DEF SyncTick, MuFree, WInv
<1>3. Writes
  BY DEF Writes, SyncTick
<1>4. Tiled' /\ Aligned' /\ Standing' /\ Exact' /\ AckedIsSafe'
  BY <1>2, <1>3, GrowsRead DEF SyncTick
<1>5. Swept'
  BY <1>2, GrowsSwept DEF SyncTick
<1> QED BY <1>4, <1>5 DEF WInv

\* A writer that finds the buffer full keeps it.
LEMMA AppendBlocksRead ==
  ASSUME WInv, IInv', NEW w \in Writer, AppendBlocks(w)
  PROVE  WInv'
<1>1. CASE \E s \in Cur : segs[s].size > 0
  <2>1. PICK s \in Cur : segs' = Shut(segs, s)
    BY <1>1 DEF AppendBlocks
  <2>2. Grows
    BY <2>1, SealGrows DEF AppendBlocks, Admitted, MuFree, WInv
  <2>3. Writes
    BY DEF Writes, AppendBlocks
  <2>4. Tiled' /\ Aligned' /\ Standing' /\ Exact' /\ AckedIsSafe'
    BY <2>2, <2>3, GrowsRead DEF AppendBlocks
  <2>5. Swept'
    BY <2>2, GrowsSwept DEF AppendBlocks, Admitted
  <2> QED BY <2>4, <2>5 DEF WInv
<1>2. CASE ~\E s \in Cur : segs[s].size > 0
  BY <1>2, IdleRead DEF AppendBlocks
<1> QED BY <1>1, <1>2

\* A frame written to the open segment lets the log grow by that frame.
LEMMA AppendHereGrows ==
  ASSUME IInv, NEW w \in Writer, AppendHere(w)
  PROVE  Grows /\ Writes
<1> DEFINE n == writer[w].need
<1>1. PICK s \in Cur : WriteFrame(w, Grown(segs, s, n))
  BY DEF AppendHere
<1>2. up /\ n \in Nat /\ n > 0
  BY SizesAssumption DEF IInv, TypeOK, AppendHere, Admitted, MuFree
<1>3. /\ segs' = Grown(segs, s, n) /\ tail' = tail + n /\ up' = up /\ nextSeq' = nextSeq
      /\ frames' = frames \cup {[lo |-> tail, hi |-> tail + n]}
  BY <1>1 DEF WriteFrame, AppendHere
<1> HIDE DEF n
<1>4. s \in Seqs /\ ~segs[s].closed
  BY <1>2, OpenIsLast
<1>5. /\ DOMAIN segs' = Seqs
      /\ \A t \in Seqs : /\ segs'[t].lo = segs[t].lo /\ segs'[t].durable = segs[t].durable
                         /\ t # s => segs'[t] = segs[t]
  <2>1. Seqs \in SUBSET Nat /\ segs \in [Seqs -> Segment]
    BY DEF IInv, TypeOK
  <2>2. /\ DOMAIN Grown(segs, s, n) = Seqs
        /\ \A t \in Seqs : /\ Grown(segs, s, n)[t].lo = segs[t].lo
                           /\ Grown(segs, s, n)[t].durable = segs[t].durable
                           /\ t # s => Grown(segs, s, n)[t] = segs[t]
    <3> HIDE DEF Seqs
    <3> QED BY ONLY <1>2, <1>4, <2>1, GrownPoint
  <2> QED BY ONLY <1>3, <2>2
<1>6. tail \in Nat /\ nextSeq \notin Seqs /\ \A t \in Seqs : segs[t].durable \in Nat
  BY <1>2, Numbers
<1>7. Grows
  BY <1>2, <1>3, <1>4, <1>5, <1>6 DEF Grows
<1>8. Writes
  BY <1>2, <1>3, <1>6 DEF Writes
<1> QED BY <1>7, <1>8

\* So does the creation of the next segment, with or without a frame in it.
LEMMA CreatedGrows ==
  ASSUME IInv, up, up', NEW n \in Nat,
         NEW sg \in [Seqs -> Segment],
         \A t \in Seqs : /\ sg[t].lo = segs[t].lo /\ segs[t].durable <= sg[t].durable
                         /\ sg[t].durable \in {segs[t].durable, segs[t].size}
                         /\ segs[t].closed => sg[t] = segs[t],
         segs' = Opened(sg, nextSeq, n), nextSeq' = nextSeq + 1, tail' = tail + n,
         \/ n = 0 /\ frames' = frames
         \/ n > 0 /\ frames' = frames \cup {[lo |-> tail, hi |-> tail + n]}
  PROVE  Grows /\ Writes
<1>1. nextSeq \notin Seqs /\ tail \in Nat
  BY Numbers
<1>2. /\ DOMAIN segs' = Seqs \cup {nextSeq}
      /\ \A t \in Seqs : segs'[t] = sg[t]
      /\ segs'[nextSeq].lo = tail /\ segs'[nextSeq].durable = 0
  BY <1>1, CreatedPoint
<1>3. Grows
  BY <1>1, <1>2 DEF Grows
<1>4. Writes
  BY <1>1 DEF Writes
<1> QED BY <1>3, <1>4

\* Rotating before a write, likewise.
LEMMA AppendRotatesGrows ==
  ASSUME IInv, NEW w \in Writer, AppendRotates(w)
  PROVE  Grows /\ Writes
<1> DEFINE n == writer[w].need
<1>1. PICK s \in Cur : WriteFrame(w, Opened(Shut(segs, s), nextSeq, n))
  BY DEF AppendRotates
<1>2. up /\ n \in Nat /\ n > 0
  BY SizesAssumption DEF IInv, TypeOK, AppendRotates, Admitted, MuFree
<1>3. /\ segs' = Opened(Shut(segs, s), nextSeq, n) /\ tail' = tail + n /\ up' = up
      /\ frames' = frames \cup {[lo |-> tail, hi |-> tail + n]} /\ nextSeq' = nextSeq + 1
  BY <1>1 DEF WriteFrame, AppendRotates
<1> HIDE DEF n
<1>4. s \in Seqs /\ ~segs[s].closed
  BY <1>2, OpenIsLast
<1>5. /\ Shut(segs, s) \in [Seqs -> Segment]
      /\ \A t \in Seqs : /\ Shut(segs, s)[t].lo = segs[t].lo
                         /\ t # s => Shut(segs, s)[t] = segs[t]
      /\ Shut(segs, s)[s].durable = segs[s].size
  <2>1. Seqs \in SUBSET Nat /\ segs \in [Seqs -> Segment]
    BY DEF IInv, TypeOK
  <2> QED BY <1>4, <2>1, ShutPoint
<1>6. \A t \in Seqs : segs[t].durable <= Shut(segs, s)[t].durable
  <2>1. \A t \in Seqs : /\ segs[t].durable \in Nat /\ segs[t].size \in Nat
                        /\ segs[t].durable <= segs[t].size
    BY <1>2, Numbers
  <2>2. \A t \in Seqs : t # s => Shut(segs, s)[t].durable = segs[t].durable
    BY <1>5
  <2> QED BY <1>5, <2>1, <2>2
<1>7. \A t \in Seqs : segs[t].closed => Shut(segs, s)[t] = segs[t]
  BY <1>4, <1>5
<1> QED BY <1>2, <1>3, <1>5, <1>6, <1>7, CreatedGrows

\* Opening the first segment, likewise.
LEMMA AppendOpensGrows ==
  ASSUME IInv, NEW w \in Writer, AppendOpens(w)
  PROVE  Grows /\ Writes
<1> DEFINE n == writer[w].need
<1>1. up /\ n \in Nat /\ n > 0
  BY SizesAssumption DEF IInv, TypeOK, AppendOpens, Admitted, MuFree
<1>2. /\ segs' = Opened(segs, nextSeq, n) /\ tail' = tail + n /\ up' = up
      /\ frames' = frames \cup {[lo |-> tail, hi |-> tail + n]} /\ nextSeq' = nextSeq + 1
  BY DEF WriteFrame, AppendOpens
<1> HIDE DEF n
<1>3. segs \in [Seqs -> Segment] /\ \A t \in Seqs : segs[t].durable <= segs[t].durable
  BY <1>1, Numbers DEF IInv, TypeOK
<1> QED BY <1>1, <1>2, <1>3, CreatedGrows

\* An Append that fails after rotating, or after creating a segment, likewise.
LEMMA AppendFailsGrows ==
  ASSUME IInv, NEW w \in Writer, AppendFails(w)
  PROVE  Grows /\ Writes
<1>1. up /\ up' /\ tail' = tail /\ frames' = frames
  BY DEF AppendFails, Admitted, MuFree
<1>2. PICK sh : sh = [t \in Seqs |-> IF t \in Cur THEN Shut(segs, t)[t] ELSE segs[t]]
  OBVIOUS
<1>3. /\ DOMAIN sh = Seqs /\ sh \in [Seqs -> Segment]
      /\ \A t \in Seqs : /\ sh[t].lo = segs[t].lo /\ sh[t].size = segs[t].size
                         /\ sh[t].durable = segs[t].size /\ sh[t].closed
  BY <1>1, <1>2, ShutAll
<1>4. \/ segs' = sh /\ nextSeq' = nextSeq
      \/ segs' = Opened(sh, nextSeq, 0) /\ nextSeq' = nextSeq + 1
  BY <1>2 DEF AppendFails
<1>5. nextSeq \notin Seqs /\ tail \in Nat
      /\ \A t \in Seqs : segs[t].durable <= sh[t].durable
  BY <1>1, <1>3, Numbers
<1>6. \A t \in Seqs : segs[t].closed => sh[t] = segs[t]
  <2>1. \A t \in Cur : ~segs[t].closed
    BY <1>1, OpenIsLast
  <2> QED BY <1>2, <2>1
<1>7. CASE segs' = sh /\ nextSeq' = nextSeq
  <2>1. Grows
    BY <1>1, <1>3, <1>5, <1>6, <1>7 DEF Grows
  <2> QED BY <1>1, <2>1 DEF Writes
<1>8. CASE segs' = Opened(sh, nextSeq, 0) /\ nextSeq' = nextSeq + 1
  <2>1. tail' = tail + 0
    BY <1>1, <1>5
  <2> QED BY <1>1, <1>3, <1>5, <1>6, <1>8, <2>1, CreatedGrows
<1> QED BY <1>4, <1>7, <1>8

\* Every step of a writer keeps the reader's invariant.
LEMMA AppendRead ==
  ASSUME WInv, IInv', NEW w \in Writer, AppendFrame(w)
  PROVE  WInv'
<1>1. CASE AppendOversize(w)
  BY <1>1, IdleRead DEF AppendOversize
<1>2. CASE AppendRefused(w)
  BY <1>2, IdleRead DEF AppendRefused
<1>3. CASE AppendBlocks(w)
  BY <1>3, AppendBlocksRead
<1>4. ASSUME AppendHere(w) \/ AppendRotates(w) \/ AppendOpens(w) \/ AppendFails(w) PROVE WInv'
  <2>1. Grows /\ Writes
    BY <1>4, AppendHereGrows, AppendRotatesGrows, AppendOpensGrows, AppendFailsGrows DEF WInv
  <2>2. /\ UNCHANGED <<diskCursor, cursor, readPos, inflight, acked, handed, reader>>
        /\ ~closed' /\ reaping' = reaping /\ (fatal => fatal')
    BY <1>4 DEF AppendHere, AppendRotates, AppendOpens, AppendFails, WriteFrame, Admitted
  <2>3. Tiled' /\ Aligned' /\ Standing' /\ Exact' /\ AckedIsSafe'
    BY <2>1, <2>2, GrowsRead
  <2>4. Swept'
    BY <2>1, <2>2, GrowsSwept
  <2> QED BY <2>3, <2>4 DEF WInv
<1> QED BY <1>1, <1>2, <1>3, <1>4 DEF AppendFrame

-----------------------------------------------------------------------------
(* Stops and failures *)

\* An I/O error keeps the reader's invariant.
LEMMA FaultRead ==
  ASSUME WInv, IInv', Fault
  PROVE  WInv'
BY IdleRead DEF Fault

\* So do BeginShutdown, and a last sync that fails.
LEMMA StopRead ==
  ASSUME WInv, IInv', BeginShutdown \/ CloseWriterFails
  PROVE  WInv'
BY IdleRead DEF BeginShutdown, CloseWriterFails, MuFree

\* So does a worker's call.
LEMMA CallRead ==
  ASSUME WInv, IInv', NEW w \in Writer, NEW n \in FrameSizes, Call(w, n)
  PROVE  WInv'
BY IdleRead DEF Call

-----------------------------------------------------------------------------
(* The reader *)

\* What the reader's own steps leave alone.
LEMMA ReaderKeeps ==
  ASSUME WInv, UNCHANGED <<up, segs, diskCursor, nextSeq, cursor, frames, tail, acked,
                           fatal, closed, reaping>>
  PROVE  /\ Tiled' /\ AckedIsSafe' /\ Swept' /\ Ends' = Ends
         /\ \A c \in Pos : OnFrame(c) => OnFrame(c)'
         /\ \A c \in Pos, x \in Nat : At(c, x) => At(c, x)'
<1>1. Tiled' /\ AckedIsSafe' /\ Ends' = Ends
  BY DEF WInv, Tiled, Ends, AckedIsSafe
<1>2. Swept'
  BY DEF WInv, Swept, Doomed
<1>3. \A c \in Pos : OnFrame(c) => OnFrame(c)'
  BY <1>1 DEF OnFrame
<1>4. \A c \in Pos, x \in Nat : At(c, x) => At(c, x)'
  BY DEF At
<1> QED BY <1>1, <1>2, <1>3, <1>4

\* The next segment begins where the reader stands, also when segments before it
\* were deleted.
LEMMA ReadSkipsRead ==
  ASSUME WInv, IInv', ReadSkips
  PROVE  WInv'
<1> DEFINE later == {s \in Seqs : s > readPos.seg}
           m == Min(later)
<1>1. /\ IInv /\ up /\ ~reader.busy /\ later # {} /\ readPos' = [seg |-> m, off |-> 0]
      /\ readPos.seg \in Seqs => segs[readPos.seg].closed
                                 /\ readPos.off >= segs[readPos.seg].size
      /\ UNCHANGED <<up, segs, diskCursor, nextSeq, cursor, frames, tail, acked, fatal, closed,
                     reaping, reader, inflight, handed>>
  BY DEF ReadSkips, MuFree, WInv
<1>2. /\ At(readPos, handed) /\ OnFrame(readPos) /\ readPos.seg \in Nat /\ readPos.off \in Nat
      /\ handed \in Nat /\ readPos' \in Pos
  BY <1>1 DEF WInv, Standing, Aligned, IInv, TypeOK, Pos
<1>3. /\ nextSeq \in Nat /\ Seqs \in SUBSET Nat
      /\ \A t \in Seqs : t < nextSeq
      /\ \A t \in Seqs : /\ segs[t].lo \in Nat /\ segs[t].size \in Nat
                         /\ segs[t].durable \in Nat /\ segs[t].durable <= segs[t].size
      /\ \A t, u \in Seqs : t < u => segs[t].closed
  BY <1>1, Numbers
<1>4. /\ m \in Seqs /\ m > readPos.seg /\ \A s \in Seqs : s > readPos.seg => m <= s
  <2>1. later \in SUBSET Nat
    BY <1>3
  <2>2. m \in later /\ \A s \in later : m <= s
    BY <1>1, <2>1, MinNat
  <2> QED BY <2>2
<1>5. segs[m].lo = handed
  <2>1. CASE readPos.seg \in Seqs
    <3>1. readPos.seg + 1 \in readPos.seg .. m
      BY <1>2, <1>3, <1>4
    <3>2. readPos.seg + 1 \in Seqs
      BY <1>1, <1>4, <2>1, <3>1 DEF IInv, Layout
    <3>3. m = readPos.seg + 1
      BY <1>2, <1>3, <1>4, <3>2
    <3>4. HiOf(segs[readPos.seg]) = segs[m].lo
      BY <1>1, <2>1, <3>2, <3>3 DEF IInv, Layout
    <3>5. handed = segs[readPos.seg].lo + readPos.off
      BY <1>2, <2>1 DEF At
    <3>6. readPos.off <= segs[readPos.seg].durable
      BY <1>2, <2>1 DEF OnFrame
    <3> QED BY <1>1, <1>2, <1>3, <2>1, <3>4, <3>5, <3>6
  <2>2. CASE readPos.seg \notin Seqs
    <3>1. m - 1 \notin Seqs
      BY <1>2, <1>3, <1>4, <2>2
    <3> QED BY <1>2, <1>4, <3>1 DEF At
  <2> QED BY <2>1, <2>2
<1> HIDE DEF m, later
<1>6. /\ Tiled' /\ AckedIsSafe' /\ Swept' /\ Ends' = Ends
      /\ \A c \in Pos : OnFrame(c) => OnFrame(c)'
      /\ \A c \in Pos, x \in Nat : At(c, x) => At(c, x)'
  BY <1>1, ReaderKeeps
<1>7. Aligned'
  <2>1. OnFrame(readPos)'
    BY <1>1, <1>3, <1>4, <1>6 DEF OnFrame, WInv, Tiled
  <2> QED BY <1>1, <1>6, <2>1 DEF WInv, Aligned, OnFrame
<1>8. Standing'
  <2>1. At(readPos, handed)'
    <3>1. \A s \in Seqs : s < m => segs[s].closed
      BY <1>3, <1>4
    <3>2. \A s \in Seqs : m < s => s - 1 \in Seqs
      <4>1. ASSUME NEW s \in Seqs, m < s PROVE s - 1 \in Seqs
        <5>1. s - 1 \in m .. s
          BY <1>3, <1>4, <4>1
        <5> QED BY <1>1, <1>4, <5>1 DEF IInv, Layout
      <4> QED BY <4>1
    <3>3. readPos'.seg = m /\ readPos'.off = 0 /\ ~(m < m) /\ segs[m].lo + 0 = handed
      BY <1>1, <1>2, <1>3, <1>4, <1>5
    <3> QED BY <1>1, <1>4, <1>5, <3>1, <3>2, <3>3 DEF At
  <2>2. NotAhead(readPos)'
    BY <1>1, <1>3, <1>4 DEF NotAhead
  <2>3. Behind(cursor)'
    BY <1>1 DEF WInv, Standing, Behind
  <2> QED BY <1>1, <2>1, <2>2, <2>3 DEF WInv, Standing
<1>9. Exact'
  BY <1>1, <1>6 DEF WInv, Exact, At, Before
<1> QED BY <1>6, <1>7, <1>8, <1>9 DEF WInv

\* The read without mu begins between two frames and its limit is between two.
LEMMA ReadStartsRead ==
  ASSUME WInv, IInv', ReadStarts
  PROVE  WInv'
<1>1. /\ IInv /\ up /\ readPos.seg \in Seqs /\ readPos.off < Limit(readPos.seg)
      /\ reader' = [busy |-> TRUE, seg |-> readPos.seg, off |-> readPos.off,
                    limit |-> Limit(readPos.seg)]
      /\ UNCHANGED <<up, segs, diskCursor, nextSeq, cursor, readPos, frames, tail, acked, fatal,
                     closed, reaping, inflight, handed>>
  BY DEF ReadStarts, MuFree, WInv
<1>2. /\ Tiled' /\ AckedIsSafe' /\ Swept' /\ Ends' = Ends
      /\ \A c \in Pos : OnFrame(c) => OnFrame(c)'
      /\ \A c \in Pos, x \in Nat : At(c, x) => At(c, x)'
  BY <1>1, ReaderKeeps
<1>3. segs[readPos.seg].lo + Limit(readPos.seg) \in Ends
  <2> DEFINE s == readPos.seg
             d == segs[s].durable
  <2>1. Limit(s) = d /\ d \in Nat /\ segs[s].lo \in Nat
    BY <1>1 DEF Limit, IInv, TypeOK, Layout, Segment
  <2>2. d = 0 \/ \E f \in frames : f.hi = segs[s].lo + d
    BY <1>1 DEF IInv, Framed, Boundary
  <2>3. segs[s].lo \in Ends
    BY <1>1 DEF WInv, Tiled
  <2> QED BY <2>1, <2>2, <2>3 DEF Ends
<1>4. Aligned'
  BY <1>1, <1>2 DEF WInv, Aligned, OnFrame
<1>5. Standing'
  <2>1. At(readPos, handed)' /\ NotAhead(readPos)' /\ Behind(cursor)'
    BY <1>1 DEF WInv, Standing, At, NotAhead, Behind
  <2> QED BY <1>1, <1>2, <1>3, <2>1 DEF WInv, Standing
<1>6. Exact'
  BY <1>1 DEF WInv, Exact, At, Before
<1> QED BY <1>2, <1>4, <1>5, <1>6 DEF WInv

\* readFrame finds the frame whole: between two ends of frames there is one.
LEMMA FrameIsThere ==
  ASSUME WInv, up, reader.busy
  PROVE  FramesAtReader # {}
<1> DEFINE s == reader.seg
           x == segs[s].lo + reader.off
           y == segs[s].lo + reader.limit
<1>1. /\ s \in Seqs /\ reader.off < reader.limit /\ y \in Ends
      /\ s = readPos.seg /\ reader.off = readPos.off /\ OnFrame(readPos)
  BY DEF WInv, Standing, Aligned
<1>2. /\ x \in Ends /\ segs[s].lo \in Nat /\ reader.off \in Nat /\ reader.limit \in Nat
  BY <1>1 DEF OnFrame, WInv, IInv, TypeOK, Segment
<1>3. x \in Nat /\ y \in Nat /\ x < y
  BY <1>1, <1>2
<1> HIDE DEF x, y
<1>4. PICK f \in frames : f.hi = y
  BY <1>1, <1>3 DEF Ends
<1>5. PICK g \in frames : g.lo = x
  BY <1>2, <1>3, <1>4 DEF WInv, Tiled
<1>6. g.hi <= y
  <2>1. g.lo \in Nat /\ g.hi \in Nat
    BY DEF WInv, IInv, TypeOK
  <2>2. y < g.hi => y <= g.lo
    BY <1>1 DEF WInv, Tiled
  <2> QED BY <1>3, <1>5, <2>1, <2>2
<1>7. g \in FramesAtReader
  BY <1>1, <1>5, <1>6 DEF FramesAtReader, x, y
<1> QED BY <1>7

\* The reader moves past the frame: it stands at its end, with the batch.
LEMMA ReadFinishesRead ==
  ASSUME WInv, IInv', ReadFinishes
  PROVE  WInv'
<1>1. PICK f \in FramesAtReader :
        LET p == [seg |-> reader.seg, off |-> reader.off + (f.hi - f.lo)] IN
        /\ readPos' = p
        /\ inflight' = inflight \cup {[pos |-> p, end |-> f.hi]}
        /\ handed' = f.hi
  BY DEF ReadFinishes
<1> DEFINE s == reader.seg
<1>2. PICK p : p = readPos'
  OBVIOUS
<1> DEFINE x == [pos |-> p, end |-> f.hi]
<1>3. /\ IInv /\ up /\ up' /\ reader.busy /\ reader' = NotReading
      /\ inflight' = inflight \cup {x} /\ handed' = f.hi
      /\ UNCHANGED <<up, segs, diskCursor, nextSeq, cursor, frames, tail, acked, fatal,
                     closed, reaping>>
  BY <1>1, <1>2 DEF ReadFinishes, MuFree, WInv
<1>4. /\ s \in Seqs /\ s \in Nat /\ s < nextSeq /\ f \in frames
      /\ f.lo = segs[s].lo + reader.off /\ f.hi <= segs[s].lo + reader.limit
      /\ s = readPos.seg /\ reader.off = readPos.off
      /\ At(readPos, handed) /\ Behind(cursor) /\ diskCursor.seg <= cursor.seg
  BY <1>3 DEF FramesAtReader, WInv, Standing, IInv, InMemory, TypeOK
<1>5. /\ segs[s].lo \in Nat /\ segs[s].durable \in Nat /\ reader.off \in Nat
      /\ reader.limit \in Nat /\ reader.limit <= segs[s].durable
      /\ f.lo \in Nat /\ f.hi \in Nat /\ f.lo < f.hi /\ handed \in Nat /\ acked \in Nat
      /\ nextSeq \in Nat
  BY <1>3, <1>4 DEF IInv, TypeOK, InMemory, Framed, Segment
<1>6. handed = f.lo
  BY <1>4 DEF At
<1>7. /\ p \in Pos /\ p.seg = s /\ p.off \in Nat
      /\ segs[s].lo + p.off = f.hi /\ p.off <= segs[s].durable
  <2>1. p = [seg |-> s, off |-> reader.off + (f.hi - f.lo)]
    BY <1>1, <1>2
  <2> QED BY <1>4, <1>5, <2>1 DEF Pos
<1>8. /\ Tiled' /\ AckedIsSafe' /\ Swept' /\ Ends' = Ends
      /\ \A c \in Pos : OnFrame(c) => OnFrame(c)'
      /\ \A c \in Pos, b \in Nat : At(c, b) => At(c, b)'
  BY <1>3, ReaderKeeps
<1> HIDE DEF s, x
<1>9. f.hi \in Ends
  BY <1>4 DEF Ends
<1>10. OnFrame(p)'
  <2>1. OnFrame(p)
    BY <1>7, <1>9 DEF OnFrame
  <2> QED BY <1>7, <1>8, <2>1
<1>11. x.pos = p /\ x.end = f.hi
  BY DEF x
<1>12. Aligned'
  <2>1. OnFrame(diskCursor)' /\ OnFrame(cursor)'
    BY <1>3, <1>8 DEF WInv, Aligned, OnFrame
  <2>2. \A z \in inflight : OnFrame(z.pos)'
    BY <1>3, <1>8 DEF WInv, Aligned, OnFrame
  <2>3. OnFrame(readPos)'
    BY <1>2, <1>10 DEF OnFrame
  <2>4. OnFrame(x.pos)'
    BY <1>10, <1>11
  <2> QED BY <1>3, <2>1, <2>2, <2>3, <2>4 DEF Aligned
<1>13. Standing'
  <2>1. At(readPos, handed)'
    <3>1. \A t \in Seqs : s < t => t - 1 \in Seqs
      <4>1. ASSUME NEW t \in Seqs, s < t PROVE t - 1 \in Seqs
        <5>1. t \in Nat /\ t - 1 \in s .. t
          BY <1>3, <1>4, <4>1, Numbers
        <5> QED BY <1>3, <1>4, <4>1, <5>1 DEF IInv, Layout
      <4> QED BY <4>1
    <3>2. ~(s < s)
      BY <1>4
    <3>3. \A t \in Seqs : t < s => segs[t].closed
      BY <1>3, <1>4, Numbers
    <3> QED BY <1>3, <1>4, <1>2, <1>7, <3>1, <3>2, <3>3 DEF At
  <2>2. NotAhead(readPos)'
    BY <1>3, <1>4, <1>5, <1>2, <1>7 DEF NotAhead
  <2>3. Behind(cursor)'
    <3>1. \A t \in Seqs : HiOf(segs[t]) <= handed => HiOf(segs[t]) <= handed'
      BY <1>3, <1>5, <1>6 DEF IInv, TypeOK, Segment
    <3>2. \A b \in Nat : b <= handed => b <= handed'
      BY <1>3, <1>5, <1>6
    <3>3. cursor.seg \in Seqs => segs[cursor.seg].lo + cursor.off \in Nat
      BY <1>3 DEF IInv, TypeOK, Segment, Pos
    <3> QED BY <1>3, <1>4, <3>1, <3>2, <3>3 DEF Behind
  <2>4. \A z \in inflight' : z.end <= handed' /\ z.pos.seg < nextSeq'
    <3>1. \A z \in inflight : z.end <= handed /\ z.end \in Nat /\ z.pos.seg < nextSeq
      BY <1>3 DEF WInv, Standing, IInv, TypeOK
    <3> QED BY <1>3, <1>4, <1>5, <1>6, <1>7, <1>11, <3>1
  <2> QED BY <1>3, <1>4, <2>1, <2>2, <2>3, <2>4 DEF Standing
<1>14. Exact'
  <2>1. ASSUME ~CursorMayBreak
        PROVE  /\ At(diskCursor, acked)' /\ At(cursor, acked)'
               /\ \A z \in inflight : Before(cursor, z.pos) \/ z.end <= acked
    BY <1>3, <2>1 DEF WInv, Exact, At
  <2>2. ASSUME ~CursorMayBreak PROVE Before(cursor, x.pos) \/ x.end <= acked
    <3>1. At(cursor, acked) /\ cursor.seg \in Nat /\ cursor.off \in Nat
      BY <1>3, <2>2 DEF WInv, Exact, IInv, TypeOK, Pos
    <3>2. CASE cursor.seg < s
      BY <1>7, <1>11, <3>2 DEF Before
    <3>3. CASE cursor.seg = s
      <4>1. acked = segs[s].lo + cursor.off
        BY <1>4, <3>1, <3>3 DEF At
      <4> QED BY <1>5, <1>7, <1>11, <3>1, <3>3, <4>1 DEF Before, Pos
    <3>4. CASE cursor.seg > s
      <4>1. HiOf(segs[s]) <= handed
        BY <1>4, <3>4 DEF Behind
      <4>2. segs[s].size \in Nat /\ segs[s].durable <= segs[s].size
        BY <1>3, <1>4, Numbers
      <4> QED BY <1>4, <1>5, <1>6, <4>1, <4>2
    <3> QED BY <1>4, <3>1, <3>2, <3>3, <3>4
  <2> QED BY <1>3, <2>1, <2>2 DEF Exact, Before
<1> QED BY <1>8, <1>12, <1>13, <1>14 DEF WInv

-----------------------------------------------------------------------------
(* The batcher *)

\* What was handed to the batcher was fsynced.
LEMMA HandedIsSafe ==
  ASSUME WInv, up
  PROVE  /\ Seqs = {} => handed <= tail
         /\ \A s \in Seqs : s + 1 \notin Seqs => handed <= segs[s].lo + segs[s].durable
<1> DEFINE r == readPos.seg
<1>1. /\ IInv /\ At(readPos, handed) /\ OnFrame(readPos) /\ handed \in Nat
      /\ r \in Nat /\ readPos.off \in Nat
  BY DEF WInv, Standing, Aligned, IInv, TypeOK, Pos
<1>2. /\ nextSeq \in Nat /\ Seqs \in SUBSET Nat /\ tail \in Nat
      /\ \A t \in Seqs : /\ t < nextSeq /\ segs[t].lo \in Nat /\ segs[t].size \in Nat
                         /\ segs[t].durable \in Nat /\ segs[t].durable <= segs[t].size
      /\ \A t, u \in Seqs : t < u => segs[t].closed /\ HiOf(segs[t]) <= segs[u].lo
  BY <1>1, Numbers
<1>3. Seqs = {} => handed = tail
  BY <1>1 DEF At
<1>4. ASSUME NEW s \in Seqs, s + 1 \notin Seqs
      PROVE  handed <= segs[s].lo + segs[s].durable
  <2>1. \A t \in Seqs : t <= s
    <3>1. ASSUME NEW t \in Seqs, t > s PROVE FALSE
      <4>1. s + 1 \in s .. t
        BY <1>2, <3>1
      <4> QED BY <1>1, <1>4, <4>1 DEF IInv, Layout
    <3> QED BY <1>2, <3>1
  <2>2. HiOf(segs[s]) = tail
    BY <1>1, <1>4 DEF IInv, Layout
  <2>3. CASE r \in Seqs
    <3>1. handed = segs[r].lo + readPos.off /\ readPos.off <= segs[r].durable
      BY <1>1, <2>3 DEF At, OnFrame
    <3>2. r = s \/ HiOf(segs[r]) <= segs[s].lo
      BY <1>1, <1>2, <2>1, <2>3
    <3>3. /\ segs[r].lo \in Nat /\ segs[r].size \in Nat /\ segs[r].durable \in Nat
          /\ segs[r].durable <= segs[r].size
          /\ segs[s].lo \in Nat /\ segs[s].durable \in Nat
      BY <1>2, <2>3
    <3>4. CASE r = s
      BY <1>1, <3>1, <3>3, <3>4
    <3>5. CASE HiOf(segs[r]) <= segs[s].lo
      BY <1>1, <3>1, <3>3, <3>5
    <3> QED BY <3>2, <3>4, <3>5
  <2>4. CASE r > s
    <3>1. handed = tail /\ segs[s].closed
      BY <1>1, <1>2, <2>1, <2>4 DEF At
    <3>2. segs[s].durable = segs[s].size
      BY <1>1, <3>1 DEF IInv, Layout
    <3> QED BY <1>1, <1>2, <2>2, <3>1, <3>2
  <2>5. CASE r \notin Seqs /\ ~(r > s)
    <3>1. PICK m \in Seqs : \A t \in Seqs : m <= t
      BY <1>2, <1>4, MinNat
    <3>2. m - 1 \notin Seqs
      BY <1>2, <3>1
    <3>3. r < m
      <4>1. ASSUME m < r PROVE FALSE
        <5>1. r \in m .. s
          BY <1>1, <1>2, <2>5, <4>1
        <5> QED BY <1>1, <2>5, <5>1 DEF IInv, Layout
      <4> QED BY <1>1, <1>2, <2>5, <4>1
    <3>4. handed = segs[m].lo
      BY <1>1, <3>2, <3>3 DEF At
    <3>5. m = s \/ HiOf(segs[m]) <= segs[s].lo
      BY <1>2, <2>1, <3>1
    <3> QED BY <1>2, <3>4, <3>5
  <2> QED BY <1>1, <1>2, <2>3, <2>4, <2>5
<1> QED BY <1>1, <1>2, <1>3, <1>4

\* Going from the end of a closed segment to the next one is staying in place.
LEMMA NormalStays ==
  ASSUME TypeOK', Layout', Tiled', up', NEW c \in Pos, NEW d, d = Normal(segs', c),
         OnFrame(c)'
  PROVE  /\ d \in Pos /\ OnFrame(d)' /\ c.seg <= d.seg
         /\ \A x \in Nat : At(c, x)' => At(d, x)'
         /\ Passed(c)' /\ Behind(c)' => Behind(d)'
         /\ d.seg \in Seqs' /\ segs'[d.seg].closed =>
              d.off < segs'[d.seg].size \/ segs'[d.seg].size = 0
<1> DEFINE s == c.seg
<1>1. /\ s \in Nat /\ c.off \in Nat /\ Seqs' \in SUBSET Nat
      /\ \A t \in Seqs' : /\ segs'[t].lo \in Nat /\ segs'[t].size \in Nat
                          /\ segs'[t].durable \in Nat /\ segs'[t].durable <= segs'[t].size
  BY DEF TypeOK, Layout, Segment, Pos
<1>2. CASE ~(s \in Seqs' /\ segs'[s].closed /\ c.off >= segs'[s].size)
  <2>1. d = c
    BY <1>2 DEF Normal
  <2> QED BY <1>1, <1>2, <2>1
<1>3. CASE s \in Seqs' /\ segs'[s].closed /\ c.off >= segs'[s].size
  <2>1. d = [seg |-> s + 1, off |-> 0]
    BY <1>3 DEF Normal
  <2>2. d \in Pos /\ d.seg = s + 1 /\ d.off = 0 /\ s <= s + 1
    BY <1>1, <2>1 DEF Pos
  <2>3. c.off = segs'[s].size
    BY <1>1, <1>3 DEF OnFrame
  <2>4. s + 1 \in Seqs' => segs'[s + 1].lo = segs'[s].lo + c.off
    BY <1>3, <2>3 DEF Layout
  <2>5. s + 1 \notin Seqs' => tail' = segs'[s].lo + c.off
    BY <1>3, <2>3 DEF Layout
  <2>6. \A t \in Seqs' : t < s + 1 => t = s \/ t < s
    BY <1>1
  <2>7. OnFrame(d)'
    BY <1>1, <2>2 DEF OnFrame, Tiled
  <2>8. ASSUME NEW x \in Nat, At(c, x)' PROVE At(d, x)'
    <3>1. x = segs'[s].lo + c.off
      BY <1>3, <2>8 DEF At
    <3>2. \A t \in Seqs' : t < s + 1 => segs'[t].closed
      BY <1>3, <2>6, <2>8 DEF At
    <3>3. s + 1 \in Seqs' => segs'[s + 1].lo + 0 = x
      BY <1>1, <2>4, <3>1
    <3>4. (\A t \in Seqs' : t < s + 1) => x = tail'
      <4>1. (\A t \in Seqs' : t < s + 1) => s + 1 \notin Seqs'
        BY <1>1
      <4> QED BY <2>5, <3>1, <4>1
    <3>5. \A t \in Seqs' : s + 1 < t => t - 1 \in Seqs'
      <4>1. ASSUME NEW t \in Seqs', s + 1 < t PROVE t - 1 \in Seqs'
        <5>1. t - 1 \in s .. t
          BY <1>1, <4>1
        <5> QED BY <1>3, <5>1 DEF Layout
      <4> QED BY <4>1
    <3> QED BY <2>2, <3>2, <3>3, <3>4, <3>5 DEF At
  <2>9. ASSUME Passed(c)', Behind(c)' PROVE Behind(d)'
    <3>1. segs'[s].lo + c.off <= handed'
      BY <1>3, <2>9 DEF Behind
    <3>2. \A t \in Seqs' : t < s + 1 => HiOf(segs'[t]) <= handed'
      BY <2>3, <2>6, <2>9, <3>1 DEF Behind
    <3>3. s + 1 \in Seqs' => segs'[s + 1].lo + 0 <= handed'
      BY <1>1, <2>4, <3>1
    <3> QED BY <2>2, <3>2, <3>3 DEF Behind
  <2>10. d.seg \in Seqs' /\ segs'[d.seg].closed =>
              d.off < segs'[d.seg].size \/ segs'[d.seg].size = 0
    BY <1>1, <2>2
  <2> QED BY <2>2, <2>7, <2>8, <2>9, <2>10
<1> QED BY <1>2, <1>3

\* A batch ahead of a position is ahead of the same place in the next segment, or
\* ends there.
LEMMA BatchStays ==
  ASSUME TypeOK', Layout', NEW c \in Pos, NEW d, d = Normal(segs', c), OnFrame(c)',
         NEW b \in Nat, At(c, b)',
         NEW p \in Pos, p.seg \in Seqs', OnFrame(p)', Before(c, p),
         NEW e \in Nat, e = segs'[p.seg].lo + p.off
  PROVE  Before(d, p) \/ e <= b
<1> DEFINE s == c.seg
<1>1. /\ p.seg \in Nat /\ p.off \in Nat /\ s \in Nat /\ c.off \in Nat
      /\ \A t \in Seqs' : /\ segs'[t].lo \in Nat /\ segs'[t].size \in Nat
                          /\ segs'[t].durable \in Nat /\ segs'[t].durable <= segs'[t].size
  BY DEF TypeOK, Layout, Segment, Pos
<1>2. CASE d = c
  BY <1>2
<1>3. CASE d # c
  <2>1. /\ s \in Seqs' /\ d = [seg |-> s + 1, off |-> 0] /\ c.off >= segs'[s].size
    BY <1>3 DEF Normal
  <2>2. c.off = segs'[s].size /\ b = segs'[s].lo + segs'[s].size
    BY <1>1, <2>1 DEF OnFrame, At
  <2>3. p.seg # s
    BY <1>1, <2>1, <2>2 DEF Before, OnFrame
  <2>4. p.seg > s
    BY <1>1, <2>3 DEF Before
  <2>5. CASE p.seg = s + 1 /\ p.off = 0
    <3>1. segs'[p.seg].lo = HiOf(segs'[s])
      BY <2>1, <2>5 DEF Layout
    <3> QED BY <1>1, <2>1, <2>2, <2>5, <3>1
  <2>6. CASE p.seg = s + 1 /\ p.off # 0
    <3>1. d.seg = p.seg /\ d.off < p.off
      BY <1>1, <2>1, <2>6
    <3> QED BY <3>1 DEF Before
  <2>7. CASE p.seg > s + 1
    BY <2>1, <2>7 DEF Before
  <2> QED BY <1>1, <2>4, <2>5, <2>6, <2>7
<1> QED BY <1>2, <1>3

\* Where a batch ahead of the cursor ends in the log.
LEMMA BatchAt ==
  ASSUME WInv, up, NEW x \in inflight, Before(cursor, x.pos)
  PROVE  /\ x.pos.seg \in Seqs /\ x.end = segs[x.pos.seg].lo + x.pos.off
         /\ At(x.pos, x.end) /\ Behind(x.pos)
         /\ ~CursorMayBreak => acked <= x.end
<1> DEFINE s == x.pos.seg
<1>1. /\ IInv /\ x.pos \in Pos /\ x.end \in Nat /\ x.end <= handed /\ handed \in Nat
      /\ acked \in Nat
      /\ s \in Seqs /\ x.end = segs[s].lo + x.pos.off /\ x.pos.off <= segs[s].durable
  BY DEF WInv, Standing, IInv, TypeOK, InMemory
<1>2. s \in Nat /\ x.pos.off \in Nat /\ cursor.seg \in Nat /\ cursor.off \in Nat
  BY <1>1 DEF IInv, TypeOK, Pos
<1>3. /\ Seqs \in SUBSET Nat
      /\ \A t \in Seqs : /\ segs[t].lo \in Nat /\ segs[t].size \in Nat
                         /\ segs[t].durable \in Nat /\ segs[t].durable <= segs[t].size
      /\ \A t, u \in Seqs : t < u => segs[t].closed /\ HiOf(segs[t]) <= segs[u].lo
  BY <1>1, Numbers
<1>4. At(x.pos, x.end)
  <2>1. \A t \in Seqs : s < t => t - 1 \in Seqs
    <3>1. ASSUME NEW t \in Seqs, s < t PROVE t - 1 \in Seqs
      <4>1. t - 1 \in s .. t
        BY <1>2, <1>3, <3>1
      <4> QED BY <1>1, <4>1 DEF IInv, Layout
    <3> QED BY <3>1
  <2>2. ~(s < s) /\ \A t \in Seqs : t < s => segs[t].closed
    BY <1>1, <1>2, <1>3
  <2> QED BY <1>1, <2>1, <2>2 DEF At
<1>5. Behind(x.pos)
  <2>1. ASSUME NEW t \in Seqs, t < s PROVE HiOf(segs[t]) <= handed
    BY <1>1, <1>2, <1>3, <2>1
  <2> QED BY <1>1, <2>1 DEF Behind
<1>6. ASSUME ~CursorMayBreak PROVE acked <= x.end
  <2>1. At(cursor, acked) /\ OnFrame(cursor)
    BY <1>6 DEF WInv, Exact, Aligned
  <2>2. CASE cursor.seg = s
    <3>1. acked = segs[s].lo + cursor.off /\ cursor.off < x.pos.off
      BY <1>1, <1>2, <2>1, <2>2 DEF At, Before
    <3> QED BY <1>1, <1>2, <1>3, <3>1
  <2>3. CASE cursor.seg \in Seqs /\ cursor.seg < s
    <3>1. acked = segs[cursor.seg].lo + cursor.off /\ cursor.off <= segs[cursor.seg].durable
      BY <2>1, <2>3 DEF At, OnFrame
    <3>2. HiOf(segs[cursor.seg]) <= segs[s].lo
      BY <1>1, <1>3, <2>3
    <3> QED BY <1>1, <1>2, <1>3, <2>3, <3>1, <3>2
  <2>4. CASE cursor.seg \notin Seqs /\ cursor.seg < s
    <3>1. PICK m \in Seqs : \A t \in Seqs : m <= t
      BY <1>1, <1>3, MinNat
    <3>2. m - 1 \notin Seqs
      BY <1>3, <3>1
    <3>3. cursor.seg < m
      <4>1. ASSUME m < cursor.seg PROVE FALSE
        <5>1. cursor.seg \in m .. s
          BY <1>2, <1>3, <2>4, <4>1
        <5> QED BY <1>1, <2>4, <5>1 DEF IInv, Layout
      <4> QED BY <1>2, <1>3, <2>4, <4>1
    <3>4. acked = segs[m].lo
      BY <2>1, <3>2, <3>3 DEF At
    <3>5. CASE m = s
      BY <1>1, <1>2, <1>3, <3>4, <3>5
    <3>6. CASE m # s
      <4>1. m < s
        BY <1>1, <1>2, <1>3, <3>1, <3>6
      <4>2. HiOf(segs[m]) <= segs[s].lo
        BY <1>1, <1>3, <4>1
      <4> QED BY <1>1, <1>2, <1>3, <3>4, <4>2
    <3> QED BY <3>5, <3>6
  <2>5. cursor.seg = s \/ cursor.seg < s
    BY DEF Before
  <2> QED BY <2>2, <2>3, <2>4, <2>5
<1> QED BY <1>1, <1>4, <1>5, <1>6

\* An acknowledgement moves both cursors to where the batch ends, and leaves no
\* confirmed segment that will not be removed.
LEMMA AckRead ==
  ASSUME WInv, IInv', NEW x \in inflight, Ack(x)
  PROVE  WInv'
<1>1. /\ IInv /\ up /\ ~reaping
      /\ inflight' = {y \in inflight : Before(x.pos, y.pos)}
      /\ acked' = IF x.end > acked THEN x.end ELSE acked
      /\ UNCHANGED <<up, segs, nextSeq, readPos, closed, fatal, reader, frames, tail, handed>>
  BY DEF Ack, MuFree, WInv
<1>2. /\ x.pos \in Pos /\ x.end \in Nat /\ x.end <= handed /\ handed \in Nat /\ acked \in Nat
      /\ cursor \in Pos /\ diskCursor \in Pos /\ readPos \in Pos /\ OnFrame(x.pos)
      /\ tail \in Nat /\ nextSeq \in Nat
  BY <1>1 DEF WInv, Standing, Aligned, IInv, TypeOK
<1>3. /\ Ends' = Ends /\ Tiled'
      /\ \A c \in Pos : OnFrame(c) => OnFrame(c)'
      /\ \A c \in Pos, b \in Nat : At(c, b) => At(c, b)'
      /\ \A c \in Pos : Behind(c) => Behind(c)'
  <2>1. Ends' = Ends /\ Tiled'
    BY <1>1 DEF WInv, Tiled, Ends
  <2> QED BY <1>1, <2>1 DEF OnFrame, At, Behind
<1>4. AckedIsSafe'
  <2>1. x.end <= handed
    BY <1>2
  <2>2. /\ Seqs = {} => handed <= tail
        /\ \A s \in Seqs : s + 1 \notin Seqs => handed <= segs[s].lo + segs[s].durable
    BY <1>1, HandedIsSafe
  <2>3. \A s \in Seqs : segs[s].lo + segs[s].durable \in Nat
    BY <1>1 DEF IInv, TypeOK, Segment
  <2> QED BY <1>1, <1>2, <2>2, <2>3 DEF WInv, AckedIsSafe
<1>5. /\ At(readPos, handed)' /\ NotAhead(readPos)' /\ OnFrame(readPos)'
      /\ \A y \in inflight' : /\ y \in inflight /\ y.end <= handed' /\ y.pos.seg < nextSeq'
                              /\ OnFrame(y.pos)'
  <2>1. \A y \in inflight : OnFrame(y.pos)'
    BY <1>1, <1>3 DEF WInv, Aligned, IInv, TypeOK
  <2>2. OnFrame(readPos) /\ At(readPos, handed) /\ NotAhead(readPos)
    BY <1>1 DEF WInv, Aligned, Standing
  <2>3. OnFrame(readPos)' /\ At(readPos, handed)' /\ NotAhead(readPos)'
    BY <1>1, <2>2, <1>3 DEF OnFrame, At, NotAhead
  <2> QED BY <1>1, <2>1, <2>3 DEF WInv, Standing
<1>6. reader'.busy => /\ reader'.seg = readPos'.seg /\ reader'.off = readPos'.off
                      /\ reader'.seg \in Seqs' /\ reader'.off < reader'.limit
                      /\ segs'[reader'.seg].lo + reader'.limit \in Ends'
  BY <1>1, <1>3 DEF WInv, Standing
<1>7. CASE ~Before(cursor, x.pos)
  <2>1. UNCHANGED <<cursor, diskCursor, reaping>>
    BY <1>7 DEF Ack
  <2>2. Aligned'
    <3>1. OnFrame(cursor)' /\ OnFrame(diskCursor)'
      BY <1>1, <1>2, <1>3, <2>1 DEF WInv, Aligned, OnFrame
    <3> QED BY <1>5, <3>1 DEF Aligned
  <2>3. Standing'
    <3>1. Behind(cursor)' /\ diskCursor'.seg <= cursor'.seg
      BY <1>1, <2>1 DEF WInv, Standing, Behind
    <3> QED BY <1>5, <1>6, <3>1 DEF Standing
  <2>4. Exact'
    <3>1. ~CursorMayBreak => acked' = acked
      BY <1>1, <1>2, <1>7 DEF WInv, Exact
    <3> QED BY <1>1, <1>5, <2>1, <3>1 DEF WInv, Exact, At, Before
  <2>5. Swept'
    BY <1>1, <2>1 DEF WInv, Swept, Doomed
  <2> QED BY <1>3, <1>4, <2>2, <2>3, <2>4, <2>5 DEF WInv
<1>8. CASE Before(cursor, x.pos)
  <2>1. PICK d : d = Normal(segs, x.pos)
    OBVIOUS
  <2>2. cursor' = d /\ diskCursor' = d /\ reaping' = (Doomed(segs, d) # {})
    BY <1>8, <2>1 DEF Ack, Reap
  <2>3. /\ x.pos.seg \in Seqs /\ x.end = segs[x.pos.seg].lo + x.pos.off
        /\ At(x.pos, x.end) /\ Behind(x.pos) /\ (~CursorMayBreak => acked <= x.end)
    BY <1>1, <1>8, BatchAt
  <2>4. /\ At(x.pos, x.end)' /\ Behind(x.pos)' /\ OnFrame(x.pos)'
    BY <1>2, <1>3, <2>3
  <2>5. Passed(x.pos)'
    <3>1. x.end <= acked' /\ acked' \in Nat
      BY <1>1, <1>2
    <3>2. \A t \in Seqs : t < x.pos.seg => /\ segs[t].closed /\ HiOf(segs[t]) <= segs[x.pos.seg].lo
                                           /\ HiOf(segs[t]) \in Nat /\ segs[x.pos.seg].lo \in Nat
      BY <1>1, <2>3, Numbers
    <3>3. x.pos.off \in Nat /\ segs[x.pos.seg].lo \in Nat
      BY <1>1, <1>2, <2>3 DEF IInv, TypeOK, Segment, Pos
    <3>4. \A t \in Seqs : t < x.pos.seg => segs[t].closed /\ HiOf(segs[t]) <= acked'
      BY <2>3, <3>1, <3>2, <3>3
    <3> QED BY <1>1, <2>3, <3>1, <3>4 DEF Passed
  <2>6. /\ d \in Pos /\ OnFrame(d)' /\ x.pos.seg <= d.seg
        /\ \A b \in Nat : At(x.pos, b)' => At(d, b)'
        /\ Behind(d)'
        /\ d.seg \in Seqs' /\ segs'[d.seg].closed =>
             d.off < segs'[d.seg].size \/ segs'[d.seg].size = 0
    <3>1. TypeOK' /\ Layout' /\ up' /\ d = Normal(segs', x.pos)
      BY <1>1, <2>1 DEF IInv
    <3> QED BY <1>2, <1>3, <2>4, <2>5, <3>1, NormalStays
  <2>7. At(d, x.end)'
    BY <1>2, <2>4, <2>6
  <2>8. Aligned'
    <3>1. OnFrame(cursor)' /\ OnFrame(diskCursor)'
      BY <2>2, <2>6 DEF OnFrame
    <3> QED BY <1>5, <3>1 DEF Aligned
  <2>9. Standing'
    <3>1. Behind(cursor)'
      BY <2>2, <2>6 DEF Behind
    <3>2. diskCursor'.seg <= cursor'.seg
      BY <2>2, <2>6 DEF Pos
    <3> QED BY <1>5, <1>6, <3>1, <3>2 DEF Standing
  <2>10. Exact'
    <3> SUFFICES ASSUME ~CursorMayBreak
                 PROVE  /\ At(diskCursor, acked)' /\ At(cursor, acked)'
                        /\ \A y \in inflight' : Before(cursor', y.pos) \/ y.end <= acked'
      BY DEF Exact, Before
    <3>1. acked' = x.end
      BY <1>1, <1>2, <2>3
    <3>2. At(diskCursor, acked)' /\ At(cursor, acked)'
      BY <2>2, <2>7, <3>1 DEF At
    <3>3. ASSUME NEW y \in inflight' PROVE Before(d, y.pos) \/ y.end <= x.end
      <4>1. /\ y \in inflight /\ Before(x.pos, y.pos) /\ y.pos \in Pos /\ y.end \in Nat
            /\ OnFrame(y.pos)
        BY <1>1 DEF IInv, TypeOK, WInv, Aligned
      <4>2. /\ y.pos.seg \in Nat /\ y.pos.off \in Nat /\ x.pos.seg \in Nat /\ x.pos.off \in Nat
            /\ cursor.seg \in Nat /\ cursor.off \in Nat
        BY <1>2, <4>1 DEF Pos
      <4>3. Before(cursor, y.pos)
        BY <1>8, <4>1, <4>2 DEF Before
      <4>4. y.pos.seg \in Seqs /\ y.end = segs[y.pos.seg].lo + y.pos.off
        BY <1>1, <4>1, <4>3, BatchAt
      <4>5. /\ TypeOK' /\ Layout' /\ y.pos.seg \in Seqs' /\ OnFrame(y.pos)' /\ OnFrame(x.pos)'
            /\ y.end = segs'[y.pos.seg].lo + y.pos.off /\ At(x.pos, x.end)'
            /\ d = Normal(segs', x.pos)
        BY <1>1, <1>3, <1>2, <2>1, <2>4, <4>1, <4>4 DEF IInv
      <4> QED BY <1>2, <4>1, <4>5, BatchStays
    <3> QED BY <2>2, <3>1, <3>2, <3>3
  <2>11. Swept'
    <3>1. fatal \/ ~closed \/ \A s \in Seqs : segs[s].closed
      BY <1>1 DEF WInv, Swept
    <3> QED BY <1>1, <2>2, <2>6, <3>1 DEF Swept, Doomed
  <2> QED BY <1>3, <1>4, <2>8, <2>9, <2>10, <2>11 DEF WInv
<1> QED BY <1>7, <1>8

\* Removing the first segment leaves no position astray: one that stood in it, or
\* before it, stood at its end.
LEMMA RemovedAt ==
  ASSUME IInv, up, tail' = tail,
         NEW s \in Seqs, \A t \in Seqs : t # s => s < t,
         DOMAIN segs' = Seqs \ {s}, \A t \in Seqs \ {s} : segs'[t] = segs[t],
         NEW c \in Pos, OnFrame(c), NEW x \in Nat, At(c, x), HiOf(segs[s]) <= x
  PROVE  At(c, x)'
<1>1. /\ c.seg \in Nat /\ c.off \in Nat /\ Seqs \in SUBSET Nat /\ tail \in Nat
      /\ \A t \in Seqs : /\ segs[t].lo \in Nat /\ segs[t].size \in Nat
                         /\ segs[t].durable \in Nat /\ segs[t].durable <= segs[t].size
  BY Numbers DEF Pos
<1>2. c.seg <= s => x = HiOf(segs[s])
  <2>1. CASE c.seg = s
    <3>1. x = segs[s].lo + c.off /\ c.off <= segs[s].durable
      BY <2>1 DEF At, OnFrame
    <3> QED BY <1>1, <3>1
  <2>2. CASE c.seg < s
    <3>1. s - 1 \notin Seqs
      BY <1>1
    <3>2. x = segs[s].lo
      BY <2>2, <3>1 DEF At
    <3> QED BY <1>1, <3>2
  <2> QED BY <1>1, <2>1, <2>2
<1>3. (\A t \in Seqs \ {s} : t < c.seg) => x = tail
  <2> SUFFICES ASSUME \A t \in Seqs \ {s} : t < c.seg PROVE x = tail
    OBVIOUS
  <2>1. CASE s < c.seg
    BY <2>1 DEF At
  <2>2. CASE ~(s < c.seg)
    <3>1. s + 1 \notin Seqs
      BY <1>1, <2>2
    <3>2. HiOf(segs[s]) = tail
      BY <3>1 DEF IInv, Layout
    <3> QED BY <1>1, <1>2, <2>2, <3>2
  <2> QED BY <2>1, <2>2
<1>4. ASSUME NEW t \in Seqs \ {s}, c.seg < t, t - 1 \notin Seqs \ {s}
      PROVE  segs[t].lo = x
  <2>1. t - 1 \in s .. t
    BY <1>1
  <2>2. t = s + 1
    <3>1. t - 1 \in Seqs
      BY <2>1 DEF IInv, Layout
    <3> QED BY <1>1, <1>4, <3>1
  <2>3. segs[t].lo = HiOf(segs[s])
    BY <2>2 DEF IInv, Layout
  <2> QED BY <1>1, <1>2, <1>4, <2>2, <2>3
<1> QED BY <1>3, <1>4 DEF At

\* Each os.Remove of a reap keeps the reader's invariant: it takes nothing the
\* reader still needs.
LEMMA ReapRemovesRead ==
  ASSUME WInv, IInv', ReapRemoves
  PROVE  WInv'
<1>1. PICK s : s = Min(Doomed(segs, cursor))
  OBVIOUS
<1>2. IInv /\ up /\ reaping /\ Doomed(segs, cursor) # {}
  BY DEF ReapRemoves, WInv, IInv, InMemory
<1>3. /\ s \in Seqs /\ s \in Nat /\ s < cursor.seg /\ segs[s].closed
      /\ \A t \in Seqs : t # s => s < t
  BY <1>1, <1>2, FirstDoomed
<1>4. /\ segs' = Restrict(segs, Seqs \ {s})
      /\ reaping' = FALSE => Doomed(segs, cursor) = {s}
      /\ UNCHANGED <<up, diskCursor, nextSeq, cursor, readPos, closed, fatal, reader,
                     inflight, frames, tail, acked, handed>>
  BY <1>1, <1>2 DEF ReapRemoves
<1>5. DOMAIN segs' = Seqs \ {s} /\ \A t \in Seqs \ {s} : segs'[t] = segs[t]
  BY <1>4 DEF Restrict
<1>6. HiOf(segs[s]) <= acked /\ HiOf(segs[s]) <= handed
  BY <1>2, <1>3 DEF WInv, IInv, Marks, Passed, Standing, Behind
<1>7. /\ readPos \in Pos /\ cursor \in Pos /\ diskCursor \in Pos
      /\ acked \in Nat /\ handed \in Nat /\ tail \in Nat
      /\ Seqs \in SUBSET Nat
      /\ \A t \in Seqs : /\ segs[t].lo \in Nat /\ segs[t].size \in Nat
                         /\ segs[t].durable \in Nat /\ segs[t].durable <= segs[t].size
  BY <1>2, Numbers DEF IInv, TypeOK
<1>8. \A c \in Pos, x \in Nat : OnFrame(c) /\ At(c, x) /\ HiOf(segs[s]) <= x => At(c, x)'
  BY <1>2, <1>3, <1>4, <1>5, RemovedAt
<1>9. Ends' = Ends
  BY <1>4 DEF Ends
<1>10. Tiled'
  BY <1>2, <1>4, <1>5, <1>9 DEF WInv, Tiled
<1>11. Aligned'
  BY <1>2, <1>4, <1>5, <1>9 DEF WInv, Aligned, OnFrame
<1>12. Standing'
  <2>1. At(readPos, handed)'
    BY <1>2, <1>4, <1>6, <1>7, <1>8 DEF WInv, Standing, Aligned
  <2>2. NotAhead(readPos)' /\ Behind(cursor)'
    BY <1>2, <1>4, <1>5 DEF WInv, Standing, NotAhead, Behind
  <2>3. reader.busy => reader.seg # s
    <3> SUFFICES ASSUME reader.busy, reader.seg = s PROVE FALSE
      OBVIOUS
    <3>1. /\ handed = segs[s].lo + reader.off /\ reader.off < reader.limit
          /\ reader.limit <= segs[s].durable /\ reader.off \in Nat /\ reader.limit \in Nat
      BY <1>2, <1>3 DEF WInv, Standing, At, IInv, InMemory, TypeOK
    <3> QED BY <1>3, <1>6, <1>7, <3>1
  <2> QED BY <1>2, <1>4, <1>5, <1>9, <2>1, <2>2, <2>3 DEF WInv, Standing
<1>13. Exact'
  <2>1. ASSUME ~CursorMayBreak PROVE At(diskCursor, acked)' /\ At(cursor, acked)'
    BY <1>2, <1>4, <1>6, <1>7, <1>8, <2>1 DEF WInv, Exact, Aligned
  <2> QED BY <1>2, <1>4, <2>1 DEF WInv, Exact, Before
<1>14. AckedIsSafe'
  <2>1. s + 1 \notin Seqs => acked <= tail
    <3>1. s + 1 \notin Seqs => HiOf(segs[s]) = tail /\ acked <= segs[s].lo + segs[s].durable
      BY <1>2, <1>3 DEF WInv, AckedIsSafe, IInv, Layout
    <3> QED BY <1>3, <1>7, <3>1
  <2>2. Seqs \ {s} = {} => s + 1 \notin Seqs
    BY <1>3
  <2>3. \A t \in Seqs \ {s} : t + 1 \notin Seqs \ {s} => t + 1 \notin Seqs
    BY <1>3, <1>7
  <2> QED BY <1>4, <1>5, <2>1, <2>2, <2>3 DEF WInv, AckedIsSafe
<1>15. Swept'
  <2>1. ~reaping' => Doomed(segs, cursor)' = {}
    BY <1>2, <1>4, <1>5 DEF Doomed, IInv, TypeOK
  <2> QED BY <1>2, <1>4, <1>5, <2>1 DEF WInv, Swept
<1> QED BY <1>10, <1>11, <1>12, <1>13, <1>14, <1>15 DEF WInv

\* The last sync and the reap after it keep the reader's invariant.
LEMMA CloseWriterRead ==
  ASSUME WInv, IInv', CloseWriter
  PROVE  WInv'
<1>1. /\ IInv /\ up /\ ~reaping /\ closed'
      /\ IF fatal THEN UNCHANGED <<cursor, diskCursor, reaping>> ELSE Reap(segs', cursor)
      /\ UNCHANGED <<up, nextSeq, readPos, fatal, reader, inflight, frames, tail, acked, handed>>
  BY DEF CloseWriter, MuFree, WInv
<1>2. Grows /\ \A t \in Seqs' : segs'[t].closed
  <2>1. CASE Cur = {}
    <3>1. segs' = segs
      BY <2>1 DEF CloseWriter
    <3>2. \A t \in Seqs : segs[t].closed /\ segs[t].durable \in Nat
      BY <1>1, <2>1, NothingOpen, Numbers
    <3> QED BY <1>1, <3>1, <3>2, Numbers DEF Grows
  <2>2. CASE Cur # {}
    <3>1. PICK s \in Cur : segs' = Shut(segs, s)
      BY <2>2 DEF CloseWriter
    <3>2. Grows
      BY <1>1, <3>1, SealGrows
    <3>3. s \in Seqs /\ \A t \in Seqs : t # s => segs[t].closed
      BY <1>1, <3>1, OpenIsLast
    <3>4. /\ DOMAIN segs' = Seqs /\ segs'[s].closed
          /\ \A t \in Seqs : t # s => segs'[t] = segs[t]
      BY <1>1, <3>1, <3>3, ShutPoint DEF IInv, TypeOK
    <3> QED BY <3>2, <3>3, <3>4
  <2> QED BY <2>1, <2>2
<1>3. Writes
  BY <1>1 DEF Writes
<1>4. /\ cursor \in Pos /\ diskCursor \in Pos /\ readPos \in Pos /\ acked \in Nat
      /\ handed \in Nat /\ tail' \in Nat /\ segs' \in [Seqs' -> Segment]
      /\ \A x \in inflight : x.pos \in Pos /\ x.end \in Nat
  BY DEF IInv, TypeOK, WInv
<1>5. Tiled' /\ Ends \subseteq Ends'
  BY <1>1, <1>2, <1>3, <1>4, GrowsTiled DEF WInv
<1>6. AckedIsSafe'
  BY <1>1, <1>2, <1>4, GrowsSafe DEF WInv
<1>7. /\ \A c \in Pos : NotAhead(c) /\ OnFrame(c) => OnFrame(c)'
      /\ \A c \in Pos, x \in Nat : NotAhead(c) /\ At(c, x) => At(c, x)' /\ NotAhead(c)'
      /\ \A c \in Pos : NotAhead(c) /\ Passed(c) /\ Behind(c) => Behind(c)'
  BY <1>1, <1>2, <1>4, <1>5, GrowsOnFrame, GrowsAt, GrowsBehind DEF WInv, Standing
<1>8. /\ NotAhead(cursor) /\ NotAhead(diskCursor) /\ NotAhead(readPos)
      /\ \A x \in inflight : NotAhead(x.pos)
      /\ Passed(cursor) /\ Behind(cursor) /\ At(readPos, handed)
  <2>1. nextSeq \in Nat /\ \A x \in inflight : x.pos.seg \in Nat /\ x.pos.seg < nextSeq
    BY <1>1, <1>4, Numbers DEF WInv, Standing, Pos
  <2>2. \A x \in inflight : NotAhead(x.pos)
    BY <2>1 DEF NotAhead
  <2> QED BY <1>1, <2>2 DEF WInv, Standing, IInv, Marks
<1>9. PICK c \in Pos : c = cursor
  BY <1>4
<1>10. PICK d : d = IF fatal THEN c ELSE Normal(segs', c)
  OBVIOUS
<1>11. /\ cursor' = d /\ diskCursor' = IF fatal THEN diskCursor ELSE d
       /\ ~fatal => reaping' = (Doomed(segs', d) # {})
  BY <1>1, <1>9, <1>10 DEF Reap
<1>12. OnFrame(c)' /\ Behind(c)' /\ Passed(c)' /\ (~CursorMayBreak => At(c, acked)')
  <2>1. OnFrame(c)' /\ Behind(c)'
    BY <1>1, <1>7, <1>8, <1>9 DEF WInv, Aligned
  <2>2. ~CursorMayBreak => At(c, acked)'
    BY <1>1, <1>4, <1>7, <1>8, <1>9 DEF WInv, Exact
  <2>3. Passed(c)'
    <3>1. \A t \in Seqs' : /\ t \in Seqs /\ segs'[t].lo = segs[t].lo
                           /\ segs[t].closed => segs'[t] = segs[t]
      <4>1. nextSeq \notin Seqs'
        <5>1. nextSeq \in Nat /\ nextSeq' = nextSeq
          BY <1>1, Numbers
        <5> QED BY <1>2, <5>1 DEF Grows
      <4> QED BY <1>2, <4>1 DEF Grows
    <3> QED BY <1>1, <1>8, <1>9, <3>1 DEF Passed
  <2> QED BY <2>1, <2>2, <2>3
<1>13. /\ d \in Pos /\ OnFrame(d)' /\ Behind(d)' /\ (~CursorMayBreak => At(d, acked)')
       /\ c.seg <= d.seg
       /\ ~fatal /\ d.seg \in Seqs' =>
            d.off < segs'[d.seg].size \/ segs'[d.seg].size = 0
  <2>1. CASE fatal
    BY <1>10, <1>12, <2>1 DEF Pos
  <2>2. CASE ~fatal
    <3>1. TypeOK' /\ Layout' /\ up' /\ d = Normal(segs', c)
      BY <1>1, <1>10, <2>2 DEF IInv
    <3>2. /\ d \in Pos /\ OnFrame(d)' /\ c.seg <= d.seg
          /\ \A x \in Nat : At(c, x)' => At(d, x)'
          /\ Behind(d)'
          /\ d.seg \in Seqs' /\ segs'[d.seg].closed =>
               d.off < segs'[d.seg].size \/ segs'[d.seg].size = 0
      BY <1>5, <1>12, <3>1, NormalStays
    <3>3. ~CursorMayBreak => At(d, acked)'
      BY <1>1, <1>4, <1>12, <3>2
    <3> QED BY <1>2, <3>2, <3>3
  <2> QED BY <2>1, <2>2
<1>14. Aligned'
  <2>1. OnFrame(diskCursor)' /\ OnFrame(cursor)'
    <3>1. fatal => OnFrame(diskCursor)'
      BY <1>1, <1>4, <1>7, <1>8, <1>11 DEF WInv, Aligned
    <3> QED BY <1>11, <1>13, <3>1 DEF OnFrame
  <2>2. OnFrame(readPos)' /\ \A x \in inflight : OnFrame(x.pos)'
    BY <1>1, <1>4, <1>7, <1>8 DEF WInv, Aligned
  <2> QED BY <1>1, <2>1, <2>2 DEF Aligned
<1>15. Standing'
  <2>1. At(readPos, handed)' /\ NotAhead(readPos)'
    BY <1>1, <1>4, <1>7, <1>8
  <2>2. Behind(cursor)'
    BY <1>11, <1>13 DEF Behind
  <2>3. diskCursor'.seg <= cursor'.seg
    BY <1>1, <1>9, <1>10, <1>11, <1>13 DEF WInv, Standing, Pos
  <2>4. reader'.busy => /\ reader'.seg = readPos'.seg /\ reader'.off = readPos'.off
                        /\ reader'.seg \in Seqs' /\ reader'.off < reader'.limit
                        /\ segs'[reader'.seg].lo + reader'.limit \in Ends'
    BY <1>1, <1>2, <1>5 DEF WInv, Standing, Grows
  <2>5. \A x \in inflight' : x.end <= handed' /\ x.pos.seg < nextSeq'
    BY <1>1 DEF WInv, Standing
  <2> QED BY <2>1, <2>2, <2>3, <2>4, <2>5 DEF Standing
<1>16. Exact'
  <2> SUFFICES ASSUME ~CursorMayBreak
               PROVE  /\ At(diskCursor, acked)' /\ At(cursor, acked)'
                      /\ \A y \in inflight' : Before(d, y.pos) \/ y.end <= acked
    BY <1>1, <1>11 DEF Exact, Before
  <2>1. At(diskCursor, acked)' /\ At(cursor, acked)'
    <3>1. fatal => At(diskCursor, acked)'
      BY <1>1, <1>4, <1>7, <1>8, <1>11 DEF WInv, Exact
    <3> QED BY <1>1, <1>11, <1>13, <3>1 DEF At
  <2>2. ASSUME NEW y \in inflight PROVE Before(d, y.pos) \/ y.end <= acked
    <3>1. Before(c, y.pos) \/ y.end <= acked
      BY <1>1, <1>9 DEF WInv, Exact
    <3>2. CASE Before(c, y.pos) /\ ~fatal
      <4>1. /\ y.pos.seg \in Seqs /\ y.end = segs[y.pos.seg].lo + y.pos.off
            /\ y.pos \in Pos /\ y.end \in Nat
        BY <1>1, <1>4, <1>9, <3>2, BatchAt
      <4>2. /\ y.pos.seg \in Seqs' /\ y.end = segs'[y.pos.seg].lo + y.pos.off
            /\ OnFrame(y.pos)' /\ At(c, acked)' /\ OnFrame(c)' /\ TypeOK' /\ Layout'
            /\ d = Normal(segs', c)
        BY <1>1, <1>2, <1>7, <1>8, <1>10, <1>12, <3>2, <4>1 DEF Grows, WInv, Aligned, IInv
      <4>3. acked' = acked
        BY <1>1
      <4> QED BY <1>4, <3>2, <4>1, <4>2, <4>3, BatchStays
    <3>3. CASE Before(c, y.pos) /\ fatal
      BY <1>10, <3>3
    <3> QED BY <3>1, <3>2, <3>3
  <2> QED BY <1>1, <2>1, <2>2
<1>17. Swept'
  BY <1>1, <1>2, <1>11, <1>13 DEF Swept
<1> QED BY <1>5, <1>6, <1>14, <1>15, <1>16, <1>17 DEF WInv

-----------------------------------------------------------------------------
(* The end of a process *)

\* Close keeps the invariant: the cursor it writes is the one it has.
LEMMA ExitRead ==
  ASSUME WInv, IInv', Exit
  PROVE  WInv'
<1>1. /\ IInv /\ up /\ up' = FALSE /\ inflight' = {} /\ ~closed'
      /\ diskCursor' = IF fatal THEN diskCursor ELSE cursor
      /\ UNCHANGED <<segs, frames, tail, acked>>
  BY DEF Exit, Dies, MuFree, WInv
<1>2. Ends' = Ends
  BY <1>1 DEF Ends
<1>3. Tiled' /\ AckedIsSafe'
  BY <1>1, <1>2 DEF WInv, Tiled, AckedIsSafe
<1>4. OnFrame(diskCursor)'
  BY <1>1, <1>2 DEF WInv, Aligned, OnFrame
<1>5. Exact'
  BY <1>1 DEF WInv, Exact, At
<1> QED BY <1>1, <1>3, <1>4, <1>5 DEF WInv, Aligned, Standing, Swept

\* A crash takes whole frames or parts of them from the end of the log, never
\* what lies before a cursor.
LEMMA CrashRead ==
  ASSUME WInv, IInv', Crash
  PROVE  WInv'
<1>1. /\ IInv /\ up /\ up' = FALSE /\ inflight' = {} /\ acked' = acked /\ ~closed'
      /\ \/ diskCursor' = diskCursor
         \/ CursorMayBreak /\ diskCursor' = NoCursor
  BY DEF Crash, Dies, WInv
<1>2. /\ Seqs \in SUBSET Nat /\ tail \in Nat /\ acked \in Nat /\ 0 \notin Seqs
      /\ \A t \in Seqs : /\ segs[t].lo \in Nat /\ segs[t].size \in Nat
                         /\ segs[t].durable \in Nat /\ segs[t].durable <= segs[t].size
      /\ \A t, u \in Seqs : t < u => HiOf(segs[t]) <= segs[u].lo
      /\ diskCursor \in Pos /\ diskCursor.seg \in Nat /\ diskCursor.off \in Nat
  BY <1>1, Numbers DEF IInv, TypeOK, Layout, Pos
<1>3. CASE Cur = {}
  <2>1. UNCHANGED <<segs, frames, tail>>
    BY <1>3 DEF Crash
  <2>2. Ends' = Ends
    BY <2>1 DEF Ends
  <2>3. Tiled' /\ AckedIsSafe'
    BY <1>1, <2>1, <2>2 DEF WInv, Tiled, AckedIsSafe
  <2>4. OnFrame(diskCursor)'
    <3>1. CASE diskCursor' = diskCursor
      BY <2>1, <2>2, <3>1 DEF WInv, Aligned, OnFrame
    <3>2. CASE diskCursor' = NoCursor
      BY <1>2, <2>1, <3>2 DEF OnFrame, NoCursor
    <3> QED BY <1>1, <3>1, <3>2
  <2>5. Exact'
    BY <1>1, <2>1 DEF WInv, Exact, At
  <2> QED BY <1>1, <2>3, <2>4, <2>5 DEF WInv, Aligned, Standing, Swept
<1>4. CASE Cur # {}
  <2>1. PICK s \in Cur, torn \in {0, 1} : \E k \in segs[s].durable .. segs[s].size + torn :
          /\ segs' = [segs EXCEPT ![s].size = k]
          /\ frames' = {f \in frames : f.hi <= segs[s].lo + k}
          /\ tail' = segs[s].lo + k
    BY <1>4 DEF Crash
  <2>2. PICK k \in segs[s].durable .. segs[s].size + torn :
          /\ segs' = [segs EXCEPT ![s].size = k]
          /\ frames' = {f \in frames : f.hi <= segs[s].lo + k}
          /\ tail' = segs[s].lo + k
    BY <2>1
  <2>3. s \in Seqs /\ ~segs[s].closed /\ \A t \in Seqs : t <= s
    BY <1>1, <2>1, OpenIsLast
  <2>4. k \in Nat /\ segs[s].durable <= k
    BY <1>2, <2>3
  <2>5. /\ DOMAIN segs' = Seqs
        /\ \A t \in Seqs : /\ segs'[t].lo = segs[t].lo /\ segs'[t].durable = segs[t].durable
                           /\ segs'[t].closed = segs[t].closed
    BY <2>2, <2>3 DEF IInv, TypeOK
  <2>6. /\ \A e \in Ends : e \in Nat /\ (e <= tail' => e \in Ends')
        /\ Ends' \subseteq Ends
    <3>1. \A f \in frames : f.hi \in Nat
      BY <1>1 DEF IInv, TypeOK
    <3> QED BY <2>2, <3>1 DEF Ends
  <2>7. \A t \in Seqs : segs[t].lo <= tail' /\ segs[t].lo + segs[t].durable <= tail'
    <3>1. segs[s].lo + segs[s].durable <= tail' /\ segs[s].lo <= tail'
      BY <1>2, <2>2, <2>3, <2>4
    <3>2. \A t \in Seqs : t # s => HiOf(segs[t]) <= segs[s].lo
      BY <1>2, <2>3
    <3> QED BY <1>2, <2>2, <2>3, <2>4, <3>1, <3>2
  <2>8. Tiled'
    <3>1. \A f \in frames' : f \in frames /\ f.hi <= tail' /\ f.lo \in Nat /\ f.hi \in Nat
      BY <1>1, <2>2 DEF IInv, TypeOK
    <3>2. ASSUME NEW f \in frames', NEW x \in Ends', x < f.hi
          PROVE  x <= f.lo /\ \E g \in frames' : g.lo = x
      <4>1. x \in Ends /\ f \in frames /\ f.hi \in Ends
        BY <2>6, <3>1 DEF Ends
      <4>2. PICK g \in frames : g.lo = x
        BY <3>2, <4>1 DEF WInv, Tiled
      <4>3. g.lo \in Nat /\ g.hi \in Nat /\ x \in Nat
        BY <1>1, <2>6, <4>1 DEF IInv, TypeOK
      <4>4. f.hi < g.hi => f.hi <= g.lo
        BY <4>1 DEF WInv, Tiled
      <4>5. g.hi <= segs[s].lo + k
        BY <1>2, <2>2, <2>3, <2>4, <3>1, <3>2, <4>2, <4>3, <4>4
      <4>6. g \in frames'
        BY <2>2, <4>5
      <4> QED BY <3>2, <4>1, <4>2, <4>6 DEF WInv, Tiled
    <3>3. \A t \in Seqs : segs'[t].lo \in Ends'
      BY <2>5, <2>6, <2>7 DEF WInv, Tiled
    <3> QED BY <1>1, <2>3, <2>5, <3>1, <3>2, <3>3 DEF Tiled
  <2>9. OnFrame(diskCursor)'
    <3>1. CASE diskCursor' = NoCursor
      BY <1>2, <2>5, <3>1 DEF OnFrame, NoCursor
    <3>2. CASE diskCursor' = diskCursor
      <4> SUFFICES ASSUME diskCursor.seg \in Seqs
                   PROVE  /\ diskCursor.off <= segs[diskCursor.seg].durable
                          /\ segs[diskCursor.seg].lo + diskCursor.off \in Ends'
        BY <2>5, <3>2 DEF OnFrame
      <4>1. /\ diskCursor.off <= segs[diskCursor.seg].durable
            /\ segs[diskCursor.seg].lo + diskCursor.off \in Ends
        BY DEF WInv, Aligned, OnFrame
      <4>2. segs[diskCursor.seg].lo + diskCursor.off <= tail'
        <5>1. segs[diskCursor.seg].lo + segs[diskCursor.seg].durable <= tail' /\ tail' \in Nat
          BY <1>2, <2>2, <2>3, <2>4, <2>7
        <5> QED BY <1>2, <4>1, <5>1
      <4> QED BY <2>6, <4>1, <4>2
    <3> QED BY <1>1, <3>1, <3>2
  <2>10. Exact'
    <3>1. ASSUME ~CursorMayBreak PROVE At(diskCursor, acked)'
      <4>1. At(diskCursor, acked) /\ diskCursor' = diskCursor
        BY <1>1, <3>1 DEF WInv, Exact
      <4>2. ~(s < diskCursor.seg)
        BY <2>3, <4>1 DEF At
      <4> QED BY <1>1, <2>3, <2>5, <4>1, <4>2 DEF At
    <3> QED BY <1>1, <3>1 DEF Exact
  <2>11. AckedIsSafe'
    BY <1>1, <2>3, <2>5 DEF WInv, AckedIsSafe
  <2> QED BY <1>1, <2>8, <2>9, <2>10, <2>11 DEF WInv, Aligned, Standing, Swept
<1> QED BY <1>3, <1>4

\* An empty directory satisfies the invariant.
LEMMA InitWInv == Init => WInv
<1> SUFFICES ASSUME Init PROVE WInv
  OBVIOUS
<1>1. IInv
  BY InitIInv
<1>2. Seqs = {} /\ up
  BY DEF Init
<1>3. Tiled /\ Aligned
  BY <1>2 DEF Init, Tiled, Aligned, Ends, OnFrame
<1>4. Standing /\ Exact
  BY <1>2 DEF Init, Standing, Exact, At, NotAhead, Behind, NoCursor
<1>5. AckedIsSafe /\ Swept
  BY <1>2 DEF Init, AckedIsSafe, Swept, Doomed
<1> QED BY <1>1, <1>3, <1>4, <1>5 DEF WInv

-----------------------------------------------------------------------------
(* Open on an existing directory *)

\* recover resumes at the cursor on disk or at the beginning of a later file.
LEMMA CursorResumes ==
  ASSUME IInv, OnFrame(diskCursor), Recover, Seqs # {}
  PROVE  cursor' = diskCursor \/ (diskCursor.seg < cursor'.seg /\ cursor'.off = 0)
<1> DEFINE r == StoredCursor
           K == {t \in Seqs : t >= r.seg}
<1>1. /\ ~up
      /\ cursor' = IF Exhausted THEN [seg |-> Resumed.seg + 1, off |-> 0] ELSE Resumed
  BY DEF Recover
<1>2. PICK L \in Seqs : L = Max(Seqs) /\ \A t \in Seqs : t <= L
  BY <1>1, LastFile
<1>3. /\ Seqs \subseteq Nat /\ 0 \notin Seqs /\ L \in Nat
      /\ r \in Pos /\ r.seg \in Nat /\ diskCursor \in Pos /\ diskCursor.seg \in Nat
      /\ diskCursor.seg <= r.seg /\ r.seg <= L + 1 /\ (r.seg = L + 1 => r.off = 0)
  BY <1>1, <1>2, StoredKeeps DEF IInv, TypeOK, Layout, Pos
<1>4. /\ DOMAIN Scanned = K
      /\ \A t \in K : /\ Scanned[t].size = IF t = L THEN ValidSize(segs[L]) ELSE segs[t].size
                      /\ Scanned[t].size \in Nat
  BY <1>1, <1>2, ScannedPoint DEF Segment
<1>5. NextFree = L + 1
  BY <1>2 DEF NextFree
<1>6. diskCursor # NoCursor => r = diskCursor
  BY DEF StoredCursor
<1>7. diskCursor = NoCursor => diskCursor.seg = 0 /\ r.off = 0 /\ r.seg \in Seqs
  <2>1. ASSUME diskCursor = NoCursor PROVE r.off = 0 /\ r.seg = Min(Seqs)
    BY <2>1 DEF StoredCursor
  <2>2. Min(Seqs) \in Seqs
    <3>1. Seqs \in SUBSET Nat /\ Seqs # {}
      BY <1>3
    <3> HIDE DEF Seqs
    <3> QED BY <3>1, MinNat
  <2> QED BY <2>1, <2>2 DEF NoCursor
<1>8. CASE K = {}
  <2>1. r.seg = L + 1 /\ r.off = 0
    BY <1>2, <1>3, <1>8
  <2>2. r = diskCursor
    BY <1>2, <1>3, <1>6, <1>7, <2>1
  <2>3. Resumed = [seg |-> L + 1, off |-> 0] /\ ~Exhausted
    BY <1>3, <1>4, <1>5, <1>8, <2>1 DEF Resumed, Clamp, Exhausted
  <2>4. r = [seg |-> L + 1, off |-> 0]
    BY <1>3, <2>1 DEF Pos
  <2> QED BY <1>1, <2>2, <2>3, <2>4
<1>9. CASE K # {} /\ r.seg \notin K
  <2>1. Resumed.off = 0
    BY <1>4, <1>9 DEF Resumed, Clamp
  <2>2. Resumed.seg \in K /\ Resumed \in Pos
    BY <1>1, <1>2, <1>9, ResumedPoint
  <2>3. diskCursor.seg < Resumed.seg /\ Resumed.seg \in Nat
    BY <1>3, <1>9, <2>2
  <2>4. cursor'.off = 0 /\ diskCursor.seg < cursor'.seg
    BY <1>1, <1>3, <2>1, <2>3
  <2> QED BY <2>4
<1>10. CASE r.seg \in K
  <2>1. Resumed = [r EXCEPT !.off = IF @ > Scanned[r.seg].size THEN Scanned[r.seg].size ELSE @]
    BY <1>4, <1>10 DEF Resumed, Clamp
  <2>2. r.off \in Nat /\ Scanned[r.seg].size \in Nat /\ r.seg \in Seqs
    BY <1>3, <1>4, <1>10 DEF Pos
  <2>3. Resumed.seg = r.seg /\ (r.off <= Scanned[r.seg].size => Resumed = r)
    BY <1>3, <2>1, <2>2 DEF Pos
  <2>4. CASE diskCursor = NoCursor
    <3>1. Resumed.off = 0 /\ 0 < Resumed.seg
      BY <1>3, <1>7, <2>2, <2>3, <2>4
    <3>2. cursor'.off = 0 /\ diskCursor.seg < cursor'.seg
      BY <1>1, <1>3, <1>7, <2>2, <2>3, <2>4, <3>1
    <3> QED BY <3>2
  <2>5. CASE diskCursor # NoCursor
    <3>1. r = diskCursor
      BY <1>6, <2>5
    <3>2. r.off <= segs[r.seg].durable
      BY <2>2, <3>1 DEF OnFrame
    <3>3. segs[r.seg].durable <= Scanned[r.seg].size
      <4>1. CASE r.seg = L
        BY <1>2, <1>4, <1>10, <4>1, ValidPrefix
      <4>2. CASE r.seg # L
        BY <1>4, <1>10, <2>2, <4>2 DEF IInv, Layout
      <4> QED BY <4>1, <4>2
    <3>4. Resumed = diskCursor
      <4>1. segs[r.seg].durable \in Nat
        BY <2>2 DEF IInv, TypeOK, Segment
      <4> QED BY <2>2, <2>3, <3>1, <3>2, <3>3, <4>1
    <3>5. CASE Exhausted
      <4>1. cursor'.off = 0 /\ cursor'.seg = diskCursor.seg + 1
        BY <1>1, <3>4, <3>5
      <4> QED BY <1>3, <4>1
    <3>6. CASE ~Exhausted
      BY <1>1, <3>4, <3>6
    <3> QED BY <3>5, <3>6
  <2> QED BY <2>4, <2>5
<1> QED BY <1>8, <1>9, <1>10

\* The files up to L that are left after recover, and how the position o in file c,
\* where it resumes, lies to them and to the cursor on disk.
Resumes(L, c, o, F) ==
  /\ ~up /\ up' /\ L \in Nat /\ c \in Nat /\ o \in Nat /\ acked \in Nat /\ tail' \in Nat
  /\ Seqs \subseteq Nat /\ \A t \in Seqs : t <= L
  /\ \A t \in Seqs : /\ segs[t].lo \in Nat /\ segs[t].durable \in Nat
                     /\ segs[t].size \in Nat /\ segs[t].durable <= segs[t].size
  /\ \A t, u \in Seqs : t < u => segs[t].closed /\ HiOf(segs[t]) <= segs[u].lo
  /\ HiOf(segs[L]) = tail /\ acked <= segs[L].lo + segs[L].durable
  /\ diskCursor \in Pos /\ diskCursor.seg \in Nat /\ diskCursor.off \in Nat
  /\ diskCursor.seg <= c
  /\ cursor' = diskCursor \/ (diskCursor.seg < c /\ o = 0)
  /\ \A t \in F : c < t => t - 1 \in F
  /\ F = {} => c = L + 1
  /\ readPos' = cursor' /\ ~reader'.busy /\ ~reaping' /\ inflight' = {} /\ ~closed'
  /\ UNCHANGED <<diskCursor, frames, acked>>

\* What recover leaves, as the reader finds it.
LEMMA Reopens ==
  ASSUME WInv, Recover, NEW L \in Seqs, L = Max(Seqs), NEW v,
         NEW c, c = cursor'.seg, NEW o, o = cursor'.off,
         NEW F, F = {t \in Seqs : t >= c}, Recovered(L, v, c, o, F)
  PROVE  Resumes(L, c, o, F)
<1> USE DEF Recovered
<1>1. /\ ~up /\ up' /\ readPos' = cursor'
      /\ UNCHANGED <<diskCursor, closed, actors, frames, acked>>
  BY DEF Recover
<1>2. ~reader'.busy /\ ~reaping' /\ inflight' = {} /\ ~closed'
  BY <1>1 DEF WInv, IInv, InMemory, Swept
<1>3. /\ IInv /\ L \in Nat /\ Seqs \subseteq Nat /\ \A t \in Seqs : t <= L
      /\ acked \in Nat /\ diskCursor \in Pos /\ diskCursor.seg \in Nat /\ diskCursor.off \in Nat
      /\ c \in Nat /\ o \in Nat
  BY <1>1, LastFile DEF WInv, IInv, TypeOK, Pos
<1>4. \A t \in Seqs : /\ segs[t].lo \in Nat /\ segs[t].durable \in Nat
                      /\ segs[t].size \in Nat /\ segs[t].durable <= segs[t].size
  BY <1>3 DEF IInv, TypeOK, Layout, Segment
<1>5. ASSUME NEW t \in Seqs, NEW u \in Seqs, t < u
      PROVE  segs[t].closed /\ HiOf(segs[t]) <= segs[u].lo
  <2>1. t + 1 \in t .. u
    BY <1>3, <1>5
  <2>2. t + 1 \in Seqs
    BY <1>3, <2>1 DEF IInv, Layout
  <2> QED BY <1>3, <1>5, <2>2 DEF IInv, Layout
<1>6. HiOf(segs[L]) = tail /\ acked <= segs[L].lo + segs[L].durable
  <2>1. L + 1 \notin Seqs
    BY <1>3
  <2> QED BY <1>3, <2>1 DEF WInv, IInv, Layout, AckedIsSafe
<1>7. cursor' = diskCursor \/ (diskCursor.seg < c /\ o = 0)
  BY <1>3, CursorResumes DEF WInv, Aligned
<1>8. ASSUME NEW t \in F, c < t PROVE t - 1 \in F
  <2>1. c \in Seqs /\ t \in Seqs /\ t - 1 \in c .. t
    BY <1>3, <1>8
  <2>2. t - 1 \in Seqs
    BY <1>3, <2>1 DEF IInv, Layout
  <2> QED BY <1>3, <1>8, <2>2
<1>9. F = {} => c = L + 1
  BY <1>3
<1>10. tail' \in Nat /\ diskCursor.seg <= c
  BY <1>3, <1>4, <1>7
<1> QED BY <1>1, <1>2, <1>3, <1>4, <1>5, <1>6, <1>7, <1>8, <1>9, <1>10 DEF Resumes

\* What is confirmed is exactly what is before the position recover resumes at.
LEMMA ResumedIsAcked ==
  ASSUME WInv, Recover, ~CursorMayBreak, NEW L \in Seqs, L = Max(Seqs), NEW v,
         NEW c, c = cursor'.seg, NEW o, o = cursor'.off,
         NEW F, F = {t \in Seqs : t >= c}, Recovered(L, v, c, o, F)
  PROVE  handed' = acked
<1> DEFINE d == diskCursor.seg
<1>1. Resumes(L, c, o, F) /\ At(diskCursor, acked) /\ OnFrame(diskCursor) /\ IInv
  BY Reopens DEF WInv, Exact, Aligned
<1> USE DEF Recovered, Resumes
<1>2. CASE c = L + 1
  <2>1. handed' = tail' /\ tail' = segs[L].lo + v /\ segs[L].lo + v <= acked
    BY <1>1, <1>2
  <2>2. segs[L].lo + segs[L].durable <= segs[L].lo + v
    BY <1>1
  <2>3. /\ acked \in Nat /\ segs[L].lo \in Nat /\ segs[L].durable \in Nat /\ v \in Nat
        /\ acked <= segs[L].lo + segs[L].durable
    BY <1>1
  <2> QED BY <2>1, <2>2, <2>3
<1>3. CASE c # L + 1
  <2>1. c \in Seqs /\ c <= L /\ handed' = segs[c].lo + o /\ handed' <= acked
    BY <1>1, <1>3
  <2>2. CASE cursor' = diskCursor
    BY <1>1, <2>1, <2>2 DEF At
  <2>3. CASE d < c /\ o = 0
    <3>1. acked <= segs[c].lo
      <4>1. CASE d \in Seqs
        <5>1. acked = segs[d].lo + diskCursor.off /\ diskCursor.off <= segs[d].durable
          BY <1>1, <4>1 DEF At, OnFrame
        <5>2. HiOf(segs[d]) <= segs[c].lo
          BY <1>1, <2>1, <2>3, <4>1
        <5> QED BY <1>1, <2>1, <4>1, <5>1, <5>2
      <4>2. CASE d \notin Seqs
        <5>1. PICK m \in Seqs : \A t \in Seqs : m <= t
          <6>1. Seqs \in SUBSET Nat /\ Seqs # {}
            BY <1>1
          <6> QED BY <6>1, MinNat
        <5>2. d < m
          <6>1. m <= d => d \in m .. L
            BY <1>1, <2>1, <2>3
          <6> QED BY <1>1, <4>2, <5>1, <6>1 DEF IInv, Layout
        <5>3. segs[m].lo = acked
          <6>1. m - 1 \notin Seqs
            BY <1>1, <5>1
          <6> QED BY <1>1, <5>2, <6>1 DEF At
        <5>4. m = c \/ HiOf(segs[m]) <= segs[c].lo
          BY <1>1, <2>1, <5>1
        <5> QED BY <1>1, <2>1, <5>3, <5>4
      <4> QED BY <4>1, <4>2
    <3> QED BY <1>1, <2>1, <2>3, <3>1
  <2> QED BY <1>1, <2>2, <2>3
<1> QED BY <1>2, <1>3

\* Opening an existing directory keeps the reader's invariant.
LEMMA RecoverRead ==
  ASSUME WInv, IInv', Recover, ~ReopenDrained
  PROVE  WInv'
<1>1. CASE Seqs = {}
  <2>1. /\ ~up /\ up' /\ Seqs' = {} /\ nextSeq' = 1 /\ tail' = tail /\ handed' = tail
        /\ cursor'.seg = 1 /\ cursor'.off = 0 /\ readPos' = cursor'
        /\ diskCursor.seg <= 1
        /\ UNCHANGED <<diskCursor, closed, actors, frames, acked>>
    BY <1>1, EmptyPoint DEF Recover, NoCursor
  <2>2. Ends' = Ends /\ ~reader'.busy /\ inflight' = {} /\ ~closed'
    BY <2>1 DEF Ends, WInv, IInv, InMemory, Swept
  <2>3. Tiled' /\ Aligned' /\ AckedIsSafe'
    BY <1>1, <2>1, <2>2 DEF WInv, Tiled, Aligned, OnFrame, AckedIsSafe
  <2>4. Standing' /\ Swept'
    BY <1>1, <2>1, <2>2 DEF Standing, At, NotAhead, Behind, Swept, Doomed
  <2>5. Exact'
    BY <1>1, <2>1, <2>2 DEF WInv, Exact, At
  <2> QED BY <2>3, <2>4, <2>5 DEF WInv
<1>2. CASE Seqs # {}
  <2>1. PICK L \in Seqs : L = Max(Seqs)
    <3>1. ~up /\ IInv
      BY DEF Recover, WInv
    <3> QED BY <1>2, <3>1, LastFile
  <2>2. PICK v, c, o, F : /\ v = ScannedSize(L) /\ c = cursor'.seg /\ o = cursor'.off
                          /\ F = {t \in Seqs : t >= c}
    OBVIOUS
  <2>3. Recovered(L, v, c, o, F)
    BY <2>1, <2>2, RecoveredPoint DEF WInv
  <2>4. Resumes(L, c, o, F)
    BY <2>1, <2>2, <2>3, Reopens
  <2>5. ~CursorMayBreak => handed' = acked
    BY <2>1, <2>2, <2>3, ResumedIsAcked
  <2> USE DEF Recovered, Resumes
  <2>6. /\ Ends' = Ends /\ \A t \in Seqs : segs[t].lo \in Ends
        /\ \A t \in F : t >= c /\ t \in Seqs
        /\ L \in F \/ F = {}
    <3>1. L \in F \/ F = {}
      BY <2>2, <2>4
    <3> QED BY <2>2, <2>4, <3>1 DEF Ends, WInv, Tiled
  <2>7. Tiled'
    <3>1. ASSUME NEW f \in frames PROVE f.hi <= tail'
      <4>1. f.hi <= tail /\ f.lo \in Nat /\ f.hi \in Nat
        BY DEF WInv, Tiled, IInv, TypeOK
      <4>2. CASE segs[L].lo <= f.lo
        BY <2>3, <2>4, <4>1, <4>2
      <4>3. CASE ~(segs[L].lo <= f.lo)
        <5>1. ~(segs[L].lo < f.hi)
          BY <2>6, <4>3 DEF WInv, Tiled
        <5> QED BY <2>3, <2>4, <4>1, <5>1
      <4> QED BY <4>2, <4>3
    <3>2. tail' \in Ends
      <4>1. CASE v = 0
        BY <2>3, <2>4, <2>6, <4>1
      <4>2. CASE v # 0
        BY <2>3, <4>2 DEF Ends
      <4> QED BY <4>1, <4>2
    <3>3. \A t \in F : segs'[t].lo \in Ends
      BY <2>3, <2>6
    <3> QED BY <2>3, <2>4, <2>6, <3>1, <3>2, <3>3 DEF WInv, Tiled
  <2>8. Aligned'
    <3>1. OnFrame(diskCursor)'
      <4>1. ASSUME diskCursor.seg \in F
            PROVE  /\ diskCursor.off <= segs'[diskCursor.seg].durable
                   /\ segs'[diskCursor.seg].lo + diskCursor.off \in Ends
        <5>1. /\ diskCursor.off <= segs[diskCursor.seg].durable
              /\ segs[diskCursor.seg].lo + diskCursor.off \in Ends
          BY <2>6, <4>1 DEF WInv, Aligned, OnFrame
        <5> QED BY <2>3, <2>4, <2>6, <4>1, <5>1
      <4> QED BY <2>3, <2>4, <2>6, <4>1 DEF OnFrame
    <3>2. OnFrame(cursor)'
      <4>1. CASE cursor' = diskCursor
        BY <2>4, <3>1, <4>1 DEF OnFrame
      <4>2. CASE o = 0
        <5>1. ASSUME c \in F PROVE 0 <= segs'[c].durable /\ segs'[c].lo + 0 \in Ends
          BY <2>3, <2>4, <2>6, <5>1
        <5> QED BY <2>2, <2>3, <2>6, <4>2, <5>1 DEF OnFrame
      <4> QED BY <2>4, <4>1, <4>2
    <3> QED BY <2>4, <3>1, <3>2 DEF Aligned, OnFrame
  <2>9. At(cursor, handed)'
    <3>1. \A s \in F : ~(s < c)
      BY <2>4, <2>6
    <3>2. c \in F => segs'[c].lo + o = handed'
      BY <2>3, <2>4, <2>6
    <3>3. (\A s \in F : s < c) => handed' = tail'
      BY <2>3, <2>4, <2>6, <3>1
    <3>4. \A s \in F : c < s /\ s - 1 \notin F => segs'[s].lo = handed'
      BY <2>4
    <3> QED BY <2>2, <2>3, <3>1, <3>2, <3>3, <3>4 DEF At
  <2>10. Standing'
    <3>1. At(readPos, handed)'
      BY <2>4, <2>9 DEF At
    <3>2. NotAhead(readPos)'
      BY <2>2, <2>3, <2>4 DEF NotAhead
    <3>3. Behind(cursor)'
      <4>1. handed' \in Nat
        BY <2>3, <2>4
      <4> QED BY <2>2, <2>3, <2>4, <2>6, <2>9, <4>1 DEF Behind, At
    <3> QED BY <2>2, <2>4, <3>1, <3>2, <3>3 DEF Standing
  <2>11. Exact'
    <3> SUFFICES ASSUME ~CursorMayBreak PROVE At(diskCursor, acked)' /\ At(cursor, acked)'
      BY <2>4 DEF Exact
    <3>1. handed' = acked
      BY <2>5
    <3>2. At(cursor, acked)'
      BY <2>4, <2>9, <3>1 DEF At
    <3>3. At(diskCursor, acked)'
      <4>1. CASE cursor' = diskCursor
        BY <2>4, <3>2, <4>1 DEF At
      <4>2. CASE diskCursor.seg < c /\ o = 0
        <5>1. \A s \in F : ~(s < diskCursor.seg) /\ s # diskCursor.seg
          BY <2>4, <2>6, <4>2
        <5>2. F = {} => acked = tail'
          BY <2>3, <2>4, <3>1
        <5>3. ASSUME NEW s \in F, s - 1 \notin F PROVE segs'[s].lo = acked
          <6>1. s = c
            BY <2>4, <2>6, <5>3
          <6> QED BY <2>2, <2>3, <3>2, <4>2, <5>3, <6>1, <2>4, <2>6 DEF At
        <5> QED BY <2>3, <2>4, <5>1, <5>2, <5>3 DEF At
      <4> QED BY <2>4, <4>1, <4>2
    <3> QED BY <3>2, <3>3
  <2>12. AckedIsSafe'
    <3>1. acked <= tail'
      BY <2>1, <2>3, <2>4
    <3>2. ASSUME NEW s \in F, s + 1 \notin F PROVE acked <= segs'[s].lo + segs'[s].durable
      <4>1. s = L
        <5>1. s < L => s + 1 \in s .. L
          BY <2>4, <2>6, <3>2
        <5>2. s < L => s + 1 \in Seqs
          BY <2>6, <5>1 DEF WInv, IInv, Layout
        <5> QED BY <2>2, <2>4, <2>6, <3>2, <5>2
      <4> QED BY <2>3, <2>4, <3>2, <4>1
    <3> QED BY <2>3, <2>4, <3>1, <3>2 DEF AckedIsSafe
  <2>13. Swept'
    <3>1. \A s \in F : ~(s < c)
      BY <2>4, <2>6
    <3> QED BY <2>2, <2>3, <2>4, <3>1 DEF Swept, Doomed
  <2> QED BY <2>7, <2>8, <2>10, <2>11, <2>12, <2>13 DEF WInv
<1> QED BY <1>1, <1>2

-----------------------------------------------------------------------------
(* The theorems *)

\* Every step keeps the invariant with the reader's part.
LEMMA NextWInv ==
  ASSUME WInv, [Next]_vars, ~ReopenDrained
  PROVE  WInv'
<1> USE DEF WInv
<1>1. IInv'
  BY NextInv
<1> HIDE DEF WInv
<1>2. ASSUME NEW w \in Writer, AppendFrame(w) PROVE WInv'
  BY <1>1, <1>2, AppendRead
<1>3. ASSUME NEW w \in Writer, NEW n \in FrameSizes, Call(w, n) PROVE WInv'
  BY <1>1, <1>3, CallRead
<1>4. CASE SyncTick
  BY <1>1, <1>4, SyncTickRead
<1>5. CASE Reader
  BY <1>1, <1>5, ReadSkipsRead, ReadStartsRead, ReadFinishesRead DEF Reader
<1>6. CASE Batcher
  BY <1>1, <1>6, ReapRemovesRead, AckRead DEF Batcher
<1>7. CASE Owner
  BY <1>1, <1>7, StopRead, CloseWriterRead, ExitRead DEF Owner
<1>8. CASE Crash
  BY <1>1, <1>8, CrashRead
<1>9. CASE Fault
  BY <1>1, <1>9, FaultRead
<1>10. CASE Recover
  BY <1>1, <1>10, RecoverRead
<1>11. CASE UNCHANGED vars
  BY <1>1, <1>11, IdleRead DEF vars
<1> QED BY <1>2, <1>3, <1>4, <1>5, <1>6, <1>7, <1>8, <1>9, <1>10, <1>11 DEF Next

\* Only recover makes a process of a directory.
LEMMA RecoverIsFirst ==
  ASSUME Next, ~up, up'
  PROVE  Recover
<1>1. \A w \in Writer : ~AppendFrame(w) /\ \A n \in FrameSizes : ~Call(w, n)
  BY DEF AppendFrame, AppendOversize, AppendRefused, Admitted, MuFree, AppendBlocks, AppendHere,
         AppendRotates, AppendOpens, AppendFails, Call
<1>2. ~SyncTick /\ ~Reader
  BY DEF SyncTick, Reader, ReadSkips, ReadStarts, ReadFinishes, MuFree
<1>3. ~Batcher
  <2>1. ~ReapRemoves
    BY DEF ReapRemoves, MuFree
  <2>2. \A x \in inflight : ~Ack(x)
    BY DEF Ack, MuFree
  <2> QED BY <2>1, <2>2 DEF Batcher
<1>4. ~Owner /\ ~Crash /\ ~Fault
  BY DEF Owner, BeginShutdown, CloseWriter, CloseWriterFails, Exit, Crash, Fault, MuFree
<1> QED BY <1>1, <1>2, <1>3, <1>4 DEF Next

\* The reader, the frames and the cursors agree with the segments in every reachable
\* state, if a directory emptied by a drained stop is not opened with its cursor.
THEOREM ReaderInvariance ==
  ASSUME ~ReopenDrained
  PROVE  Spec => []WInv
<1>1. Init => WInv
  BY InitWInv
<1>2. WInv /\ [Next]_vars => WInv'
  BY NextWInv
<1> QED BY <1>1, <1>2, PTL DEF Spec

\* What TryNext reads without mu is a whole frame of a file that exists, whatever is
\* rotated, synced, acknowledged and removed meanwhile.
THEOREM WholeFrames ==
  ASSUME ~ReopenDrained
  PROVE  Spec => []ReadsWholeFrames
<1>1. WInv => ReadsWholeFrames
  <2>1. WInv /\ reader.busy => up
    BY DEF WInv, IInv, InMemory
  <2> QED BY <2>1, FrameIsThere DEF ReadsWholeFrames
<1> QED BY <1>1, ReaderInvariance, PTL

\* Within a run the batcher gets every frame once and in the order of the log.
THEOREM OrderKept ==
  ASSUME ~ReopenDrained
  PROVE  Spec => InOrder
<1> DEFINE Right == up /\ handed' # handed => \E f \in frames : f.lo = handed /\ f.hi = handed'
<1>1. WInv /\ [Next]_vars => [Right]_vars
  <2> SUFFICES ASSUME WInv, Next, up, handed' # handed
               PROVE  \E f \in frames : f.lo = handed /\ f.hi = handed'
    BY DEF Right
  <2>1. ReadFinishes
    <3>1. ~Recover
      BY DEF Recover
    <3>2. \A w \in Writer : ~AppendFrame(w) /\ \A n \in FrameSizes : ~Call(w, n)
      BY DEF AppendFrame, AppendOversize, AppendRefused, AppendBlocks, AppendHere, AppendRotates,
             AppendOpens, AppendFails, WriteFrame, Call
    <3>3. ~SyncTick /\ ~ReadSkips /\ ~ReadStarts
      BY DEF SyncTick, ReadSkips, ReadStarts
    <3>4. ~Batcher
      BY DEF Batcher, ReapRemoves, Ack
    <3>5. ~Owner /\ ~Crash /\ ~Fault
      BY DEF Owner, BeginShutdown, CloseWriter, CloseWriterFails, Exit, Crash, Fault
    <3> QED BY <3>1, <3>2, <3>3, <3>4, <3>5 DEF Next, Reader
  <2>2. PICK f \in FramesAtReader : handed' = f.hi
    BY <2>1 DEF ReadFinishes
  <2>3. f \in frames /\ f.lo = segs[reader.seg].lo + reader.off
    BY <2>2 DEF FramesAtReader
  <2>4. segs[reader.seg].lo + reader.off = handed
    BY <2>1 DEF ReadFinishes, WInv, Standing, At
  <2> QED BY <2>2, <2>3, <2>4
<1> QED BY <1>1, ReaderInvariance, PTL DEF Spec, InOrder

\* A restart resumes exactly where ClickHouse stopped confirming, if the cursor's file
\* survives the crashes.
THEOREM ResumesExactly ==
  ASSUME ~ReopenDrained, ~CursorMayBreak
  PROVE  Spec => ResumesAtAck
<1>1. WInv /\ [Next]_vars => [~up /\ up' => handed' = acked]_vars
  <2> SUFFICES ASSUME WInv, Next, ~up, up' PROVE handed' = acked
    OBVIOUS
  <2>1. Recover
    BY RecoverIsFirst
  <2>2. CASE Seqs = {}
    <3>1. handed' = tail
      BY <2>1, <2>2, EmptyPoint
    <3> QED BY <2>2, <3>1 DEF WInv, Exact, At
  <2>3. CASE Seqs # {}
    <3>1. PICK L \in Seqs : L = Max(Seqs)
      BY <2>3, LastFile DEF WInv
    <3>2. PICK v, c, o, F : /\ v = ScannedSize(L) /\ c = cursor'.seg /\ o = cursor'.off
                            /\ F = {t \in Seqs : t >= c}
      OBVIOUS
    <3>3. Recovered(L, v, c, o, F)
      BY <2>1, <3>1, <3>2, RecoveredPoint DEF WInv
    <3> QED BY <2>1, <3>1, <3>2, <3>3, ResumedIsAcked
  <2> QED BY <2>2, <2>3
<1> QED BY <1>1, ReaderInvariance, PTL DEF Spec, ResumesAtAck

\* With cursor.json lost the replay starts earlier, never later.
THEOREM NoSkipAhead ==
  ASSUME ~ReopenDrained
  PROVE  Spec => NeverSkipsAhead
<1>1. IInv /\ [Next]_vars => [~up /\ up' => handed' <= acked]_vars
  <2> SUFFICES ASSUME IInv, Next, ~up, up' PROVE handed' <= acked
    OBVIOUS
  <2>1. Recover
    BY RecoverIsFirst
  <2>2. CASE Seqs = {}
    <3>1. handed' = tail
      BY <2>1, <2>2, EmptyPoint
    <3> QED BY <2>2, <3>1 DEF IInv, Marks
  <2>3. CASE Seqs # {}
    <3>1. PICK L \in Seqs : L = Max(Seqs) /\ \A t \in Seqs : t <= L
      BY <2>3, LastFile
    <3>2. PICK v, c, o, F : /\ v = ScannedSize(L) /\ c = cursor'.seg /\ o = cursor'.off
                            /\ F = {t \in Seqs : t >= c}
      OBVIOUS
    <3>3. Recovered(L, v, c, o, F)
      BY <2>1, <3>1, <3>2, RecoveredPoint
    <3>4. c \in Nat /\ L \in Nat
      BY <3>1, <3>2, <3>3 DEF Recovered, Pos, IInv, TypeOK
    <3>5. CASE c <= L
      BY <3>3, <3>5 DEF Recovered
    <3>6. CASE ~(c <= L)
      BY <3>1, <3>3, <3>4, <3>6 DEF Recovered
    <3> QED BY <3>5, <3>6
  <2> QED BY <2>2, <2>3
<1> QED BY <1>1, Invariance, PTL DEF Spec, NeverSkipsAhead

\* A stop after a full drain leaves no event on the disk.
THEOREM DrainedLeavesNothing ==
  ASSUME ~ReopenDrained, ~CursorMayBreak
  PROVE  Spec => []DrainedStopIsEmpty
<1>1. WInv => DrainedStopIsEmpty
  <2> SUFFICES ASSUME WInv, up, closed, ~fatal, ~reaping, acked = tail, NEW s \in Seqs
               PROVE  segs[s].size = 0
    BY DEF DrainedStopIsEmpty
  <2> DEFINE c == cursor.seg
  <2>1. /\ Seqs \in SUBSET Nat /\ s \in Nat /\ tail \in Nat /\ c \in Nat /\ cursor.off \in Nat
        /\ \A t \in Seqs : /\ segs[t].lo \in Nat /\ segs[t].size \in Nat
                           /\ segs[t].durable \in Nat /\ segs[t].durable <= segs[t].size
                           /\ HiOf(segs[t]) <= tail
        /\ \A t, u \in Seqs : t < u => HiOf(segs[t]) <= segs[u].lo
    BY Numbers DEF WInv, IInv, TypeOK, Pos
  <2>2. At(cursor, tail) /\ OnFrame(cursor)
    BY DEF WInv, Exact, Aligned
  <2>3. \A t \in Seqs : ~(t < c)
    BY DEF WInv, Swept, Doomed
  <2>4. ASSUME NEW t \in Seqs, t <= s, segs[t].lo = tail PROVE segs[s].size = 0
    <3>1. segs[t].lo <= segs[s].lo
      BY <2>1, <2>4
    <3> QED BY <2>1, <2>4, <3>1
  <2>5. CASE c \in Seqs
    <3>1. segs[c].lo + cursor.off = tail /\ cursor.off <= segs[c].durable
      BY <2>2, <2>5 DEF At, OnFrame
    <3>2. cursor.off < segs[c].size \/ segs[c].size = 0
      BY <2>5 DEF WInv, Swept
    <3>3. segs[c].lo = tail
      BY <2>1, <2>5, <3>1, <3>2
    <3> QED BY <2>1, <2>3, <2>4, <2>5, <3>3
  <2>6. CASE c \notin Seqs
    <3>1. PICK m \in Seqs : \A t \in Seqs : m <= t
      BY <2>1, MinNat
    <3>2. c < m /\ m - 1 \notin Seqs
      BY <2>1, <2>3, <2>6, <3>1
    <3>3. segs[m].lo = tail
      BY <2>2, <3>2 DEF At
    <3> QED BY <2>4, <3>1, <3>3
  <2> QED BY <2>5, <2>6
<1> QED BY <1>1, ReaderInvariance, PTL

-----------------------------------------------------------------------------
(***************************************************************************)
(* 3. The refinement                                                       *)
(***************************************************************************)

-----------------------------------------------------------------------------
(* The marks of the log, as the segments have them *)

\* The substitutions of Log, by name.
Low == IF Reachable = {} THEN tail ELSE segs[Min(Reachable)].lo
Safe == IF Seqs = {} THEN tail ELSE segs[Max(Seqs)].lo + segs[Max(Seqs)].durable
Ck == Max({0} \cup released)

\* The segments, in a running process or in a directory.
LEMMA Files ==
  ASSUME WInv
  PROVE  /\ IInv /\ Seqs \in SUBSET Nat /\ tail \in Nat /\ acked \in Nat /\ handed \in Nat
         /\ cursor \in Pos /\ diskCursor \in Pos /\ cursor.seg \in Nat /\ diskCursor.seg \in Nat
         /\ \A t \in Seqs : /\ segs[t].lo \in Nat /\ segs[t].size \in Nat
                            /\ segs[t].durable \in Nat /\ segs[t].durable <= segs[t].size
         /\ \A t, u \in Seqs : t < u => segs[t].closed /\ HiOf(segs[t]) <= segs[u].lo
         /\ \A t \in Seqs : t - 1 \in Seqs => HiOf(segs[t - 1]) = segs[t].lo
         /\ Seqs # {} => /\ Max(Seqs) \in Seqs /\ Max(Seqs) \in Nat
                         /\ \A t \in Seqs : t <= Max(Seqs)
                         /\ Max(Seqs) + 1 \notin Seqs /\ HiOf(segs[Max(Seqs)]) = tail
<1>1. /\ IInv /\ Seqs \in SUBSET Nat /\ tail \in Nat /\ acked \in Nat /\ handed \in Nat
      /\ cursor \in Pos /\ diskCursor \in Pos /\ cursor.seg \in Nat /\ diskCursor.seg \in Nat
  BY DEF WInv, IInv, TypeOK, Pos
<1>2. \A t \in Seqs : /\ segs[t].lo \in Nat /\ segs[t].size \in Nat
                      /\ segs[t].durable \in Nat /\ segs[t].durable <= segs[t].size
  BY <1>1 DEF IInv, TypeOK, Layout, Segment
<1>3. ASSUME NEW t \in Seqs, NEW u \in Seqs, t < u
      PROVE  segs[t].closed /\ HiOf(segs[t]) <= segs[u].lo
  <2>1. t + 1 \in t .. u
    BY <1>1, <1>3
  <2>2. t + 1 \in Seqs
    BY <1>1, <2>1 DEF IInv, Layout
  <2> QED BY <1>1, <1>3, <2>2 DEF IInv, Layout
<1>4. ASSUME NEW t \in Seqs, t - 1 \in Seqs PROVE HiOf(segs[t - 1]) = segs[t].lo
  <2>1. (t - 1) + 1 = t
    BY <1>1
  <2> QED BY <1>1, <1>4, <2>1 DEF IInv, Layout
<1>5. ASSUME Seqs # {}
      PROVE  /\ Max(Seqs) \in Seqs /\ Max(Seqs) \in Nat /\ \A t \in Seqs : t <= Max(Seqs)
             /\ Max(Seqs) + 1 \notin Seqs /\ HiOf(segs[Max(Seqs)]) = tail
  <2>1. Max(Seqs) \in Seqs /\ \A t \in Seqs : t <= Max(Seqs)
    <3>1. CASE up
      <4>1. nextSeq \in Nat /\ \A t \in Seqs : t <= nextSeq
        BY <1>1, <3>1, Numbers
      <4> HIDE DEF Seqs
      <4> QED BY <1>1, <1>5, <4>1, MaxNat
    <3>2. CASE ~up
      BY <1>1, <1>5, <3>2, LastFile
    <3> QED BY <3>1, <3>2
  <2>2. Max(Seqs) + 1 \notin Seqs
    BY <1>1, <2>1
  <2> QED BY <1>1, <2>1, <2>2 DEF IInv, Layout
<1> QED BY <1>1, <1>2, <1>3, <1>4, <1>5

\* What survives a crash lies between what is confirmed and what is written.
LEMMA SafeMark ==
  ASSUME WInv
  PROVE  /\ Safe \in Nat /\ acked <= Safe /\ Safe <= tail
         /\ \A t \in Seqs : segs[t].lo + segs[t].durable <= Safe
<1>1. CASE Seqs = {}
  BY <1>1, Files DEF Safe, WInv, AckedIsSafe
<1>2. CASE Seqs # {}
  <2>1. PICK L \in Seqs : /\ L = Max(Seqs) /\ \A t \in Seqs : t <= L
                          /\ L + 1 \notin Seqs /\ HiOf(segs[L]) = tail
    BY <1>2, Files
  <2>2. Safe = segs[L].lo + segs[L].durable
    BY <1>2, <2>1 DEF Safe
  <2>3. acked <= Safe
    BY <2>1, <2>2 DEF WInv, AckedIsSafe
  <2>4. ASSUME NEW t \in Seqs PROVE segs[t].lo + segs[t].durable <= Safe
    <3>1. CASE t = L
      BY <2>2, <3>1, Files
    <3>2. CASE t # L
      <4>1. HiOf(segs[t]) <= segs[L].lo
        BY <2>1, <3>2, Files
      <4> QED BY <2>2, <4>1, Files
    <3> QED BY <3>1, <3>2
  <2> QED BY <2>1, <2>2, <2>3, <2>4, Files
<1> QED BY <1>1, <1>2

\* The checkpoints do not run ahead of what survives a crash.
LEMMA CkMark ==
  ASSUME WInv
  PROVE  /\ Ck \in {0} \cup released /\ Ck \in Nat /\ Ck <= Safe
         /\ \A e \in released : e <= Ck
<1> DEFINE S == {0} \cup released
<1>1. Safe \in Nat /\ S \in SUBSET Nat /\ S # {}
  BY SafeMark, Files DEF IInv, TypeOK
<1>2. ASSUME NEW e \in released PROVE e <= Safe
  <2>1. CASE e <= acked
    BY <1>1, <2>1, SafeMark, Files
  <2>2. ASSUME NEW s \in Seqs, e <= segs[s].lo + segs[s].durable PROVE e <= Safe
    BY <1>1, <2>2, SafeMark, Files
  <2> QED BY <2>1, <2>2, Files DEF IInv, Kept
<1>3. \A e \in S : e <= Safe
  BY <1>1, <1>2
<1>4. Max(S) \in S /\ \A e \in S : e <= Max(S)
  <2> HIDE DEF S
  <2> QED BY <1>1, <1>3, MaxNat
<1> QED BY <1>1, <1>3, <1>4 DEF Ck

\* Where the reachable segments begin.
LEMMA LowPoint ==
  ASSUME WInv
  PROVE  \/ Reachable = {} /\ Low = tail
         \/ \E m \in Reachable : /\ \A t \in Reachable : m <= t
                                 /\ m = Min(Reachable) /\ Low = segs[m].lo
<1>1. CASE Reachable = {}
  BY <1>1 DEF Low
<1>2. CASE Reachable # {}
  <2>1. Reachable \in SUBSET Nat
    BY Files DEF Reachable
  <2>2. Min(Reachable) \in Reachable /\ \A t \in Reachable : Min(Reachable) <= t
    BY <1>2, <2>1, MinNat
  <2> QED BY <1>2, <2>2 DEF Low
<1> QED BY <1>1, <1>2

\* Nothing is left behind that is not confirmed, and read in this run.
LEMMA LowMark ==
  ASSUME WInv
  PROVE  Low \in Nat /\ Low <= acked /\ Low <= tail /\ (up => Low <= handed)
<1>1. PICK c : c = IF up THEN cursor ELSE diskCursor
  OBVIOUS
<1>2. /\ c.seg \in Nat /\ Passed(c) /\ (up => Behind(c))
      /\ \A s \in Seqs : s \in Reachable <=> s >= c.seg
      /\ Reachable \subseteq Seqs
  BY <1>1, Files DEF WInv, Standing, IInv, Marks, Reachable
<1>3. CASE Reachable = {} /\ Seqs = {}
  <2>1. Low = tail /\ tail <= acked
    BY <1>3, Files DEF Low, IInv, Marks
  <2>2. up => handed = tail
    BY <1>3 DEF WInv, Standing, At
  <2> QED BY <2>1, <2>2, Files
<1>4. CASE Reachable = {} /\ Seqs # {}
  <2>1. PICK L \in Seqs : HiOf(segs[L]) = tail
    BY <1>4, Files
  <2>2. L < c.seg
    BY <1>2, <1>4, <2>1, Files
  <2> QED BY <1>2, <1>4, <2>1, <2>2, Files DEF Low, Passed, Behind
<1>5. CASE Reachable # {}
  <2>1. PICK m \in Reachable : (\A t \in Reachable : m <= t) /\ Low = segs[m].lo
    BY <1>5, LowPoint
  <2>2. m \in Seqs /\ m \in Nat /\ segs[m].lo \in Nat /\ segs[m].lo <= tail
    <3>1. m \in Seqs /\ segs[m].lo + segs[m].durable <= Safe
      BY <1>2, <2>1, SafeMark
    <3> QED BY <3>1, Files, SafeMark
  <2>3. CASE m - 1 \in Seqs
    <3>1. m - 1 < c.seg
      BY <1>2, <2>1, <2>2, <2>3, Files
    <3>2. HiOf(segs[m - 1]) = segs[m].lo
      BY <2>2, <2>3, Files
    <3>3. HiOf(segs[m - 1]) <= acked /\ (up => HiOf(segs[m - 1]) <= handed)
      BY <1>2, <2>3, <3>1 DEF Passed, Behind
    <3> QED BY <2>1, <2>2, <3>2, <3>3
  <2>4. CASE m - 1 \notin Seqs
    <3>1. segs[m].lo <= acked
      BY <2>2, <2>4, Files DEF IInv, Marks
    <3>2. ASSUME up PROVE segs[m].lo <= handed
      <4> DEFINE r == readPos.seg
      <4>1. At(readPos, handed) /\ r \in Nat /\ readPos.off \in Nat
        BY <3>2, Files DEF WInv, Standing, IInv, TypeOK, Pos
      <4>2. CASE r < m
        BY <2>2, <2>4, <4>1, <4>2 DEF At
      <4>3. CASE r \in Seqs /\ r >= m
        <5>1. segs[r].lo + readPos.off = handed
          BY <4>1, <4>3 DEF At
        <5>2. r = m \/ HiOf(segs[m]) <= segs[r].lo
          BY <2>2, <4>1, <4>3, Files
        <5> QED BY <2>2, <4>1, <4>3, <5>1, <5>2, Files
      <4>4. CASE r \notin Seqs /\ r >= m
        <5>1. ASSUME NEW s \in Seqs PROVE s < r
          <6>1. s >= r => r \in m .. s
            BY <2>2, <4>1, <4>4, Files
          <6>2. s >= r => r \in Seqs
            BY <2>2, <6>1, Files DEF IInv, Layout
          <6> QED BY <4>1, <4>4, <6>2, Files
        <5>2. handed = tail
          BY <4>1, <5>1 DEF At
        <5> QED BY <2>2, <5>2
      <4> QED BY <2>2, <4>1, <4>2, <4>3, <4>4
    <3> QED BY <2>1, <2>2, <3>1, <3>2
  <2> QED BY <2>3, <2>4
<1> QED BY <1>3, <1>4, <1>5

\* The order of the marks.
InPlace ==
  /\ Low \in Nat /\ Low <= acked /\ (up => Low <= handed)
  /\ Safe \in Nat /\ Safe <= tail
  /\ Ck \in Nat /\ Ck <= Safe
  /\ \A e \in released : e <= Ck
  /\ Ck \in {0} \cup released

\* It holds in every state of the invariant, also after a step.
LEMMA MarksInPlace ==
  /\ WInv => InPlace
  /\ WInv' => InPlace'
<1>1. WInv => InPlace
  BY LowMark, SafeMark, CkMark DEF InPlace
<1> QED BY <1>1, PTL

-----------------------------------------------------------------------------
(* Steps of a running process *)

\* A step that keeps segments, cursors and marks leaves the abstract log alone.
LEMMA QuietLog ==
  ASSUME UNCHANGED <<up, segs, cursor, diskCursor, released, tail, acked, handed>>
  PROVE  UNCHANGED Log!vars
<1>1. Reachable' = Reachable /\ Seqs' = Seqs
  BY DEF Reachable
<1>2. Low' = Low /\ Safe' = Safe /\ Ck' = Ck
  BY <1>1 DEF Low, Safe, Ck
<1> QED BY <1>2 DEF Log!vars, Low, Safe, Ck

\* The beginning of the reachable segments does not move back.
LEMMA LowGrows ==
  ASSUME WInv, WInv', Grows, cursor.seg <= cursor'.seg
  PROVE  Low <= Low'
<1>1. /\ Low \in Nat /\ Low <= tail /\ tail' \in Nat /\ tail <= tail' /\ up /\ up'
      /\ cursor.seg \in Nat /\ cursor'.seg \in Nat /\ Seqs' \in SUBSET Nat
  <2>1. IInv'
    BY DEF WInv
  <2> QED BY <2>1, LowMark, Files DEF Grows, IInv, TypeOK, Pos
<1>2. PICK R : R = Reachable'
  OBVIOUS
<1>3. \A t : t \in R <=> t \in Seqs' /\ t >= cursor'.seg
  BY <1>1, <1>2 DEF Reachable
<1>4. Low' = IF R = {} THEN tail' ELSE segs'[Min(R)].lo
  BY <1>2 DEF Low
<1>5. CASE R = {}
  BY <1>1, <1>4, <1>5, Files
<1>6. CASE R # {}
  <2>1. R \in SUBSET Nat
    BY <1>1, <1>3
  <2>2. PICK m \in R : m = Min(R)
    BY <1>6, <2>1, MinNat
  <2>3. CASE m \in Seqs
    <3>1. m \in Reachable
      BY <1>1, <1>3, <2>1, <2>2, <2>3 DEF Reachable
    <3>2. PICK k \in Reachable : k <= m /\ Low = segs[k].lo
      BY <3>1, LowPoint
    <3>3. k \in Seqs /\ (k = m \/ HiOf(segs[k]) <= segs[m].lo)
      BY <2>1, <2>3, <3>2, Files DEF Reachable
    <3>4. segs'[m].lo = segs[m].lo
      BY <2>3 DEF Grows
    <3> QED BY <1>4, <1>6, <2>2, <2>3, <3>2, <3>3, <3>4, Files
  <2>4. CASE m \notin Seqs
    <3>1. segs'[m].lo = tail
      BY <1>3, <2>2, <2>4 DEF Grows
    <3> QED BY <1>1, <1>4, <1>6, <2>2, <3>1
  <2> QED BY <2>3, <2>4
<1> QED BY <1>5, <1>6

\* What becomes safe is what was written before the step.
LEMMA SafeGrows ==
  ASSUME WInv, WInv', Grows
  PROVE  Safe' \in {Safe, tail}
<1>1. /\ nextSeq \in Nat /\ \A t \in Seqs : t < nextSeq
      /\ IInv /\ up /\ IInv' /\ Seqs' \in SUBSET Nat
  BY Numbers, Files DEF WInv, Grows, IInv, TypeOK
<1>2. PICK D : D = Seqs'
  OBVIOUS
<1>3. Safe' = IF D = {} THEN tail' ELSE segs'[Max(D)].lo + segs'[Max(D)].durable
  BY <1>2 DEF Safe
<1>4. CASE nextSeq \in D
  <2>1. D \in SUBSET Nat /\ \A t \in D : t <= nextSeq
    BY <1>1, <1>2 DEF Grows
  <2>2. Max(D) \in D /\ \A t \in D : t <= Max(D)
    BY <1>1, <1>4, <2>1, MaxNat
  <2>3. Max(D) = nextSeq
    <3>1. Max(D) \in Nat /\ Max(D) <= nextSeq /\ nextSeq <= Max(D)
      BY <1>4, <2>1, <2>2
    <3> QED BY <1>1, <3>1
  <2>4. segs'[nextSeq].lo = tail /\ segs'[nextSeq].durable = 0
    BY <1>2, <1>4 DEF Grows
  <2> QED BY <1>3, <1>4, <2>3, <2>4, Files
<1>5. CASE nextSeq \notin D
  <2>1. D = Seqs
    BY <1>2, <1>5 DEF Grows
  <2>2. CASE D = {}
    <3>1. tail' = tail
      BY <1>2, <2>1, <2>2 DEF Grows
    <3> QED BY <1>3, <2>2, <3>1
  <2>3. CASE D # {}
    <3>1. PICK L \in Seqs : L = Max(Seqs) /\ HiOf(segs[L]) = tail
      BY <2>1, <2>3, Files
    <3>2. Safe = segs[L].lo + segs[L].durable /\ Safe' = segs'[L].lo + segs'[L].durable
      BY <1>3, <2>1, <2>3, <3>1 DEF Safe
    <3>3. segs'[L].lo = segs[L].lo /\ segs'[L].durable \in {segs[L].durable, segs[L].size}
      BY <3>1 DEF Grows
    <3> QED BY <3>1, <3>2, <3>3
  <2> QED BY <2>2, <2>3
<1> QED BY <1>4, <1>5

\* Writing, fsyncing, closing and handing over metadata extends the abstract log.
LEMMA GrowsExtends ==
  ASSUME WInv, WInv', Grows, released \subseteq released', UNCHANGED <<acked, handed>>,
         cursor.seg <= cursor'.seg
  PROVE  Log!Extend
<1>1. InPlace /\ InPlace'
  BY MarksInPlace
<1>2. Low <= Low' /\ Safe' \in {Safe, tail}
  BY LowGrows, SafeGrows
<1>3. tail' \in Nat /\ tail <= tail' /\ up /\ up'
  BY DEF WInv, IInv, TypeOK, Grows
<1>4. Ck <= Ck'
  BY <1>1 DEF InPlace
<1>5. Low' <= acked' /\ Low' <= handed /\ Low' \in Nat /\ Ck' \in Ck .. Safe'
  BY <1>1, <1>3, <1>4 DEF InPlace
<1> QED BY <1>2, <1>3, <1>5 DEF Log!Extend, Log!Discards, Low, Safe, Ck

\* Every Append extends the abstract log or leaves it alone.
LEMMA AppendLog ==
  ASSUME WInv, WInv', NEW w \in Writer, AppendFrame(w)
  PROVE  Log!Extend \/ UNCHANGED Log!vars
<1>1. CASE AppendOversize(w)
  BY <1>1, QuietLog DEF AppendOversize
<1>2. CASE AppendRefused(w)
  BY <1>2, QuietLog DEF AppendRefused
<1>3. CASE AppendBlocks(w)
  <2>1. CASE \E s \in Cur : segs[s].size > 0
    <3>1. PICK s \in Cur : segs' = Shut(segs, s)
      BY <1>3, <2>1 DEF AppendBlocks
    <3>2. Grows
      BY <1>3, <3>1, SealGrows DEF AppendBlocks, Admitted, MuFree, WInv
    <3>3. released \subseteq released' /\ UNCHANGED <<acked, handed, cursor>>
      BY <1>3 DEF AppendBlocks
    <3> QED BY <3>2, <3>3, GrowsExtends, Files
  <2>2. CASE ~\E s \in Cur : segs[s].size > 0
    BY <1>3, <2>2, QuietLog DEF AppendBlocks
  <2> QED BY <2>1, <2>2
<1>4. ASSUME AppendHere(w) \/ AppendRotates(w) \/ AppendOpens(w) \/ AppendFails(w)
      PROVE  Log!Extend
  <2>1. Grows
    BY <1>4, AppendHereGrows, AppendRotatesGrows, AppendOpensGrows, AppendFailsGrows DEF WInv
  <2>2. released \subseteq released' /\ UNCHANGED <<acked, handed, cursor>>
    BY <1>4 DEF AppendHere, AppendRotates, AppendOpens, AppendFails, WriteFrame
  <2> QED BY <2>1, <2>2, GrowsExtends, Files
<1> QED BY <1>1, <1>2, <1>3, <1>4 DEF AppendFrame

\* So does the syncer's tick.
LEMMA SyncTickLog ==
  ASSUME WInv, WInv', SyncTick
  PROVE  Log!Extend
<1>1. PICK s \in Cur : segs' = Synced(segs, s)
  BY DEF SyncTick
<1>2. Grows
  BY <1>1, SealGrows DEF SyncTick, MuFree, WInv
<1>3. released \subseteq released' /\ UNCHANGED <<acked, handed, cursor>>
  BY DEF SyncTick
<1> QED BY <1>2, <1>3, GrowsExtends, Files

\* A reap's or a last sync's normalised cursor is not before the one it comes from.
LEMMA NormalForward ==
  ASSUME NEW sg, NEW c \in Pos
  PROVE  Normal(sg, c).seg \in Nat /\ c.seg <= Normal(sg, c).seg
BY DEF Normal, Pos

\* So does the last sync, with the reap after it.
LEMMA CloseWriterLog ==
  ASSUME WInv, WInv', CloseWriter
  PROVE  Log!Extend
<1>1. /\ up /\ UNCHANGED <<up, acked, handed, nextSeq, tail>>
      /\ cursor' = cursor \/ cursor' = Normal(segs', cursor)
      /\ released \subseteq released'
  BY DEF CloseWriter, MuFree, Reap
<1>2. cursor.seg <= cursor'.seg
  BY <1>1, NormalForward, Files
<1>3. Grows
  <2>1. CASE Cur = {}
    <3>1. segs' = segs
      BY <2>1 DEF CloseWriter
    <3>2. \A t \in Seqs : segs[t].closed /\ segs[t].durable \in Nat
      BY <1>1, <2>1, NothingOpen, Numbers DEF WInv
    <3> QED BY <1>1, <3>1, <3>2, Numbers DEF Grows, WInv
  <2>2. CASE Cur # {}
    <3>1. PICK s \in Cur : segs' = Shut(segs, s)
      BY <2>2 DEF CloseWriter
    <3> QED BY <1>1, <3>1, SealGrows DEF WInv
  <2> QED BY <2>1, <2>2
<1> QED BY <1>1, <1>2, <1>3, GrowsExtends

\* The reader's progress delivers safe bytes.
LEMMA ReadFinishesLog ==
  ASSUME WInv, ReadFinishes
  PROVE  Log!Deliver
<1>1. PICK f \in FramesAtReader : handed' = f.hi
  BY DEF ReadFinishes
<1>2. /\ up /\ up' = up /\ UNCHANGED <<segs, cursor, diskCursor, released, tail, acked>>
  BY DEF ReadFinishes, MuFree
<1>3. /\ f \in frames /\ f.lo = segs[reader.seg].lo + reader.off /\ reader.seg \in Seqs
      /\ f.hi <= segs[reader.seg].lo + reader.limit
  BY <1>1 DEF FramesAtReader
<1>4. /\ f.lo < f.hi /\ f.lo \in Nat /\ f.hi \in Nat /\ reader.limit \in Nat
      /\ reader.limit <= segs[reader.seg].durable
      /\ f.lo = handed
  BY <1>2, <1>3 DEF ReadFinishes, WInv, Standing, At, IInv, Framed, TypeOK, InMemory
<1>5. handed' \in handed .. Safe
  <2>1. segs[reader.seg].lo + segs[reader.seg].durable <= Safe /\ Safe \in Nat
    BY <1>3, SafeMark
  <2> QED BY <1>1, <1>3, <1>4, <2>1, Files
<1>6. Low' = Low /\ Safe' = Safe /\ Ck' = Ck
  BY <1>2 DEF Reachable, Low, Safe, Ck
<1> QED BY <1>2, <1>5, <1>6 DEF Log!Deliver, Low, Safe, Ck

\* A confirmed batch confirms bytes that were delivered, and may discard them.
LEMMA AckLog ==
  ASSUME WInv, WInv', NEW x \in inflight, Ack(x)
  PROVE  Log!Confirm
<1>1. /\ up /\ up' /\ UNCHANGED <<segs, nextSeq, tail, released, handed>>
      /\ acked' = IF x.end > acked THEN x.end ELSE acked
      /\ cursor' = cursor \/ (Before(cursor, x.pos) /\ cursor' = Normal(segs, x.pos))
  BY DEF Ack, MuFree, Reap
<1>2. /\ x.end \in Nat /\ x.end <= handed /\ x.pos \in Pos /\ acked \in Nat /\ handed \in Nat
      /\ x.pos.seg \in Nat /\ cursor.seg \in Nat
  BY <1>1 DEF WInv, Standing, IInv, TypeOK, Pos
<1>3. cursor.seg <= cursor'.seg
  <2>1. Before(cursor, x.pos) => cursor.seg <= x.pos.seg
    BY <1>2 DEF Before
  <2> QED BY <1>1, <1>2, <2>1, NormalForward
<1>4. Grows
  BY <1>1, Numbers DEF Grows, WInv
<1>5. Low <= Low' /\ InPlace'
  BY <1>3, <1>4, LowGrows, MarksInPlace
<1>6. acked' \in acked .. (IF handed < acked THEN acked ELSE handed)
  BY <1>1, <1>2
<1>7. Low' \in Nat /\ Low' <= acked' /\ Low' <= handed
  BY <1>1, <1>5 DEF InPlace
<1>8. Safe' = Safe /\ Ck' = Ck
  BY <1>1 DEF Safe, Ck
<1> QED BY <1>1, <1>5, <1>6, <1>7, <1>8 DEF Log!Confirm, Log!Discards, Low, Safe, Ck

\* Removing a file changes nothing for the abstract log: the cursor has left it.
LEMMA ReapRemovesLog ==
  ASSUME WInv, ReapRemoves
  PROVE  UNCHANGED Log!vars
<1>1. PICK s : s = Min(Doomed(segs, cursor))
  OBVIOUS
<1>2. /\ up /\ up' = up /\ UNCHANGED <<cursor, diskCursor, released, tail, acked, handed>>
      /\ segs' = [t \in Seqs \ {s} |-> segs[t]]
      /\ Doomed(segs, cursor) # {}
  BY <1>1 DEF ReapRemoves, Restrict, WInv, IInv, InMemory
<1>3. /\ s \in Seqs /\ s \in Nat /\ s < cursor.seg /\ segs[s].closed
      /\ \A t \in Seqs : t # s => s < t
  BY <1>1, <1>2, FirstDoomed DEF WInv
<1>4. Reachable' = Reachable /\ \A t \in Reachable : segs'[t] = segs[t]
  BY <1>2, <1>3, Files DEF Reachable
<1>5. Low' = Low
  <2>1. CASE Reachable = {}
    BY <1>2, <1>4, <2>1 DEF Low
  <2>2. CASE Reachable # {}
    <3>1. Min(Reachable) \in Reachable
      BY <2>2, LowPoint
    <3> QED BY <1>4, <2>2, <3>1 DEF Low
  <2> QED BY <2>1, <2>2
<1>6. Safe' = Safe
  <2>1. PICK L \in Seqs : L = Max(Seqs) /\ HiOf(segs[L]) = tail /\ \A t \in Seqs : t <= L
    BY <1>3, Files
  <2>2. Safe = segs[L].lo + segs[L].durable
    BY <1>3, <2>1 DEF Safe
  <2>3. PICK D : D = Seqs \ {s}
    OBVIOUS
  <2>4. Safe' = IF D = {} THEN tail ELSE segs'[Max(D)].lo + segs'[Max(D)].durable
    BY <1>2, <2>3 DEF Safe
  <2>5. CASE D = {}
    <3>1. L = s /\ segs[s].durable = segs[s].size
      BY <1>3, <2>1, <2>3, <2>5, Files DEF IInv, Layout
    <3> QED BY <2>1, <2>2, <2>4, <2>5, <3>1
  <2>6. CASE D # {}
    <3>1. L \in D /\ L \in Nat /\ D \in SUBSET Nat /\ \A t \in D : t <= L
      BY <1>3, <2>1, <2>3, <2>6, Files
    <3>2. Max(D) \in D /\ \A t \in D : t <= Max(D)
      BY <2>6, <3>1, MaxNat
    <3>3. Max(D) = L
      <4>1. Max(D) \in Nat /\ Max(D) <= L /\ L <= Max(D)
        BY <3>1, <3>2
      <4> QED BY <3>1, <4>1
    <3>4. segs'[L] = segs[L]
      BY <1>2, <2>3, <3>1
    <3> QED BY <2>2, <2>4, <2>6, <3>3, <3>4
  <2> QED BY <2>5, <2>6
<1>7. Ck' = Ck
  BY <1>2 DEF Ck
<1> QED BY <1>2, <1>5, <1>6, <1>7 DEF Log!vars, Low, Safe, Ck

-----------------------------------------------------------------------------
(* Stops, crashes and restarts *)

\* A process that ends leaves the segments, the last one longer or shorter behind its
\* fsynced part, and a cursor that is not ahead of the one it had.
LEMMA HaltLog ==
  ASSUME WInv, WInv', up, up' = FALSE, UNCHANGED <<released, acked, handed>>,
         Seqs' = Seqs,
         \A t \in Seqs : segs'[t].lo = segs[t].lo /\ segs'[t].durable = segs[t].durable,
         tail' = tail \/ (Cur # {} /\ tail' \in Safe .. tail + 1),
         diskCursor'.seg <= cursor.seg
  PROVE  Log!Halt
<1>1. InPlace /\ InPlace' /\ Safe <= tail
  BY MarksInPlace DEF InPlace
<1>2. /\ tail \in Nat /\ acked \in Nat /\ handed \in Nat /\ cursor.seg \in Nat
      /\ Seqs \in SUBSET Nat /\ diskCursor'.seg \in Nat
  BY Files DEF WInv, IInv, TypeOK, Pos
<1>3. ASSUME Cur # {} PROVE Seqs # {} /\ Reachable # {}
  <2>1. PICK s \in Seqs : ~segs[s].closed
    BY <1>3 DEF Cur
  <2>2. ~(s < cursor.seg)
    BY <2>1 DEF WInv, IInv, Marks, Passed
  <2> QED BY <1>2, <2>1, <2>2 DEF Reachable
<1>4. tail' \in Safe .. tail + 1
  BY <1>1, <1>2 DEF InPlace
<1>5. Safe' = Safe
  <2>1. CASE Seqs = {}
    BY <1>3, <2>1 DEF Safe
  <2>2. CASE Seqs # {}
    <3>1. Max(Seqs) \in Seqs
      BY <2>2, Files
    <3> QED BY <2>2, <3>1 DEF Safe
  <2> QED BY <2>1, <2>2
<1>6. Low' <= handed
  <2>1. PICK R : R = Reachable'
    OBVIOUS
  <2>2. \A t : t \in R <=> t \in Seqs /\ t >= diskCursor'.seg
    BY <2>1 DEF Reachable
  <2>3. Low' = IF R = {} THEN tail' ELSE segs'[Min(R)].lo
    BY <2>1 DEF Low
  <2>4. Reachable \subseteq R
    BY <1>2, <2>2 DEF Reachable
  <2>5. CASE R = {}
    BY <1>1, <1>3, <2>3, <2>4, <2>5 DEF Low, InPlace
  <2>6. CASE R # {}
    <3>1. R \in SUBSET Nat
      BY <1>2, <2>2
    <3>2. PICK m \in R : m = Min(R) /\ \A t \in R : m <= t
      BY <2>6, <3>1, MinNat
    <3>3. m \in Seqs /\ m \in Nat /\ segs[m].lo \in Nat
      BY <1>2, <2>2, <3>2, Files
    <3>4. segs[m].lo <= Low
      <4>1. CASE Reachable = {}
        <5>1. segs[m].lo + segs[m].durable <= Safe /\ Safe \in Nat /\ segs[m].durable \in Nat
          BY <3>3, SafeMark, Files
        <5> QED BY <1>1, <1>2, <3>3, <4>1, <5>1 DEF Low
      <4>2. CASE Reachable # {}
        <5>1. PICK k \in Reachable : Low = segs[k].lo
          BY <4>2, LowPoint
        <5>2. k \in Seqs /\ k \in Nat /\ m <= k
          BY <1>2, <2>4, <3>2, <5>1 DEF Reachable
        <5>3. k = m \/ HiOf(segs[m]) <= segs[k].lo
          BY <3>3, <5>2, Files
        <5> QED BY <3>3, <5>1, <5>2, <5>3, Files
      <4> QED BY <4>1, <4>2
    <3>5. Low' = segs[m].lo
      BY <2>3, <2>6, <3>2, <3>3
    <3> QED BY <1>1, <1>2, <3>3, <3>4, <3>5 DEF InPlace
  <2> QED BY <2>5, <2>6
<1>7. Low' \in 0 .. (IF handed < acked THEN handed ELSE acked)
  BY <1>1, <1>2, <1>6 DEF InPlace
<1>8. Ck' = Ck
  BY DEF Ck
<1> QED BY <1>4, <1>5, <1>7, <1>8 DEF Log!Halt, Low, Safe, Ck

\* Close is a halt.
LEMMA ExitLog ==
  ASSUME WInv, WInv', Exit
  PROVE  Log!Halt
<1>1. /\ up /\ up' = FALSE /\ UNCHANGED <<segs, released, acked, handed, tail>>
      /\ diskCursor' \in {diskCursor, cursor}
  BY DEF Exit, Dies, MuFree
<1>2. diskCursor'.seg <= cursor.seg
  BY <1>1, Files DEF WInv, Standing
<1> QED BY <1>1, <1>2, HaltLog

\* So is a crash.
LEMMA CrashLog ==
  ASSUME WInv, WInv', Crash
  PROVE  Log!Halt
<1>1. /\ up /\ up' = FALSE /\ UNCHANGED <<released, acked, handed>>
      /\ diskCursor' \in {diskCursor, NoCursor}
  BY DEF Crash, Dies
<1>2. diskCursor'.seg <= cursor.seg
  BY <1>1, Files DEF WInv, Standing, NoCursor
<1>3. CASE Cur = {}
  <2>1. UNCHANGED <<segs, tail>>
    BY <1>3 DEF Crash
  <2> QED BY <1>1, <1>2, <2>1, HaltLog
<1>4. CASE Cur # {}
  <2>1. PICK s \in Cur, torn \in {0, 1} : \E k \in segs[s].durable .. segs[s].size + torn :
          segs' = [segs EXCEPT ![s].size = k] /\ tail' = segs[s].lo + k
    BY <1>4 DEF Crash
  <2>2. PICK k \in segs[s].durable .. segs[s].size + torn :
          segs' = [segs EXCEPT ![s].size = k] /\ tail' = segs[s].lo + k
    BY <2>1
  <2>3. s \in Seqs /\ HiOf(segs[s]) = tail /\ \A t \in Seqs : t <= s
    BY <1>1, OpenIsLast DEF WInv
  <2>4. Seqs' = Seqs
    BY <2>2
  <2>5. segs \in [Seqs -> Segment]
    BY Files DEF IInv, TypeOK
  <2>6. \A t \in Seqs : segs'[t].lo = segs[t].lo /\ segs'[t].durable = segs[t].durable
    BY <2>2, <2>3, <2>5 DEF Segment
  <2>7. s = Max(Seqs)
    <3>1. Max(Seqs) \in Seqs /\ Max(Seqs) \in Nat /\ s \in Nat /\ s <= Max(Seqs)
      BY <2>3, Files
    <3>2. Max(Seqs) <= s
      BY <2>3, <3>1
    <3> QED BY <3>1, <3>2
  <2>8. Safe = segs[s].lo + segs[s].durable
    BY <2>3, <2>7 DEF Safe
  <2>9. tail' \in Safe .. tail + 1
    BY <2>1, <2>2, <2>3, <2>8, Files
  <2> QED BY <1>1, <1>2, <1>4, <2>4, <2>6, <2>9, HaltLog
<1> QED BY <1>3, <1>4

\* A restart resumes with everything that is safe, at or before what is confirmed.
LEMMA RecoverLog ==
  ASSUME WInv, WInv', Recover, ~ReopenDrained
  PROVE  Log!Resume
<1>1. InPlace /\ InPlace'
  BY MarksInPlace
<1>2. ~up /\ up' = TRUE /\ UNCHANGED <<acked, released>>
  BY DEF Recover
<1>3. Ck' = Ck
  BY <1>2 DEF Ck
<1>4. /\ handed' <= acked
      /\ tail' \in Safe .. tail /\ Safe' = tail'
  <2>1. CASE Seqs = {}
    <3>1. tail' = tail /\ handed' = tail /\ Seqs' = {}
      BY <2>1, EmptyPoint
    <3> QED BY <2>1, <3>1, Files DEF Safe, IInv, Marks
  <2>2. CASE Seqs # {}
    <3>1. PICK L \in Seqs : /\ L = Max(Seqs) /\ \A t \in Seqs : t <= L
                            /\ L \in Nat /\ HiOf(segs[L]) = tail
      BY <2>2, Files
    <3>2. PICK v, c, o, F : /\ v = ScannedSize(L) /\ c = cursor'.seg /\ o = cursor'.off
                            /\ F = {t \in Seqs : t >= c}
      OBVIOUS
    <3>3. Recovered(L, v, c, o, F)
      BY <3>1, <3>2, RecoveredPoint DEF WInv
    <3> USE DEF Recovered
    <3>4. c \in Nat /\ c <= L + 1 /\ v \in Nat /\ segs[L].durable <= v /\ v <= segs[L].size
      BY <3>2, <3>3 DEF Pos
    <3>5. handed' <= acked
      <4>1. CASE c <= L
        BY <3>3, <4>1
      <4>2. CASE ~(c <= L)
        BY <3>1, <3>3, <3>4, <4>2
      <4> QED BY <4>1, <4>2
    <3>6. tail' \in Safe .. tail
      <4>1. Safe = segs[L].lo + segs[L].durable
        BY <2>2, <3>1 DEF Safe
      <4> QED BY <3>1, <3>3, <3>4, <4>1, Files
    <3>7. Safe' = tail'
      <4>1. Seqs' = F
        BY <3>3
      <4>2. CASE F = {}
        BY <4>1, <4>2 DEF Safe
      <4>3. CASE F # {}
        <5>1. F \in SUBSET Nat /\ L \in F /\ \A t \in F : t <= L
          BY <3>1, <3>2, <3>4, <4>3, Files
        <5>2. Max(F) \in F /\ \A t \in F : t <= Max(F)
          BY <4>3, <5>1, MaxNat
        <5>3. Max(F) = L
          <6>1. Max(F) \in Nat /\ Max(F) <= L /\ L <= Max(F)
            BY <5>1, <5>2
          <6> QED BY <3>1, <6>1
        <5>4. /\ segs'[L].lo = segs[L].lo /\ segs'[L].durable = v /\ tail' = segs[L].lo + v
          BY <3>3, <5>1
        <5> QED BY <4>1, <4>3, <5>3, <5>4 DEF Safe
      <4> QED BY <4>2, <4>3
    <3> QED BY <3>5, <3>6, <3>7
  <2> QED BY <2>1, <2>2
<1>5. Low' \in 0 .. acked /\ handed' \in Low' .. acked
  <2>1. handed' \in Nat /\ acked \in Nat
    BY Files DEF WInv, IInv, TypeOK
  <2> QED BY <1>1, <1>2, <1>4, <2>1 DEF InPlace
<1> QED BY <1>2, <1>3, <1>4, <1>5 DEF Log!Resume, Low, Safe, Ck

-----------------------------------------------------------------------------
(* The implementation *)

\* An empty buffer is an empty log.
LEMMA InitLog == Init => Log!Init
<1> SUFFICES ASSUME Init PROVE Log!Init
  OBVIOUS
<1>1. Seqs = {} /\ Reachable = {} /\ tail = 0 /\ released = {}
  BY DEF Init, Reachable
<1>2. WInv
  BY InitWInv
<1>3. Ck = 0
  BY <1>1, <1>2, CkMark
<1>4. Low = 0 /\ Safe = 0
  BY <1>1 DEF Low, Safe
<1> QED BY <1>3, <1>4 DEF Init, Log!Init, Low, Safe, Ck

\* Every step of the buffer is a step of the log or leaves it alone.
LEMMA NextLog ==
  ASSUME WInv, WInv', [Next]_vars, ~ReopenDrained
  PROVE  [Log!Next]_(Log!vars)
<1> USE DEF Log!Next
<1>1. ASSUME NEW w \in Writer, AppendFrame(w) PROVE [Log!Next]_(Log!vars)
  BY <1>1, AppendLog
<1>2. ASSUME NEW w \in Writer, NEW n \in FrameSizes, Call(w, n) PROVE [Log!Next]_(Log!vars)
  BY <1>2, QuietLog DEF Call
<1>3. CASE SyncTick
  BY <1>3, SyncTickLog
<1>4. CASE Reader
  <2>1. ReadSkips => UNCHANGED Log!vars
    BY QuietLog DEF ReadSkips
  <2>2. ReadStarts => UNCHANGED Log!vars
    BY QuietLog DEF ReadStarts
  <2> QED BY <1>4, <2>1, <2>2, ReadFinishesLog DEF Reader
<1>5. CASE Batcher
  BY <1>5, ReapRemovesLog, AckLog DEF Batcher
<1>6. CASE Owner
  <2>1. BeginShutdown => UNCHANGED Log!vars
    BY QuietLog DEF BeginShutdown
  <2>2. CloseWriterFails => UNCHANGED Log!vars
    BY QuietLog DEF CloseWriterFails
  <2> QED BY <1>6, <2>1, <2>2, CloseWriterLog, ExitLog DEF Owner
<1>7. CASE Crash
  BY <1>7, CrashLog
<1>8. CASE Fault
  BY <1>8, QuietLog DEF Fault
<1>9. CASE Recover
  BY <1>9, RecoverLog
<1>10. CASE UNCHANGED vars
  BY <1>10, QuietLog DEF vars
<1> QED BY <1>1, <1>2, <1>3, <1>4, <1>5, <1>6, <1>7, <1>8, <1>9, <1>10 DEF Next

\* The buffer keeps the promise of DurableLog: files, rotation, fsync, cursor, reaps,
\* faults, stops, crashes and restarts only extend, deliver, confirm, halt or resume it.
THEOREM LogImplemented ==
  ASSUME ~ReopenDrained
  PROVE  Spec => ImplementsLog
<1>1. WInv /\ WInv' /\ [Next]_vars => [Log!Next]_(Log!vars)
  BY NextLog
<1> QED BY <1>1, InitLog, ReaderInvariance, PTL DEF Spec, ImplementsLog, Log!Spec

-----------------------------------------------------------------------------
(* What DurableLog promises, of Wal *)

\* The promise, of six numbers.
InTurn(k, a, h, s, t, c) ==
  /\ k \in Nat /\ a \in Nat /\ h \in Nat /\ s \in Nat /\ t \in Nat /\ c \in Nat
  /\ k <= a /\ a <= s /\ s <= t /\ k <= h /\ h <= s /\ c <= s

\* They are the marks of the log.
LEMMA PromiseIs ==
  /\ Log!Promise <=> up \in BOOLEAN /\ InTurn(Low, acked, handed, Safe, tail, Ck)
  /\ Log!Promise' <=> up' \in BOOLEAN /\ InTurn(Low', acked', handed', Safe', tail', Ck')
<1>1. Log!Promise <=> up \in BOOLEAN /\ InTurn(Low, acked, handed, Safe, tail, Ck)
  BY Zenon DEF Log!Promise, InTurn, Low, Safe, Ck
<1>2. Log!Promise' <=> up' \in BOOLEAN /\ InTurn(Low', acked', handed', Safe', tail', Ck')
  BY Zenon DEF Log!Promise, InTurn, Low, Safe, Ck
<1> QED BY <1>1, <1>2

\* Each step of the log keeps its marks in order.
LEMMA StepPromise ==
  ASSUME Log!Promise, [Log!Next]_(Log!vars)
  PROVE  Log!Promise'
<1>1. PICK k, k2, s, s2, c, c2, a, a2, h, h2, t, t2 :
        /\ k = Low /\ k2 = Low' /\ s = Safe /\ s2 = Safe' /\ c = Ck /\ c2 = Ck'
        /\ a = acked /\ a2 = acked' /\ h = handed /\ h2 = handed' /\ t = tail /\ t2 = tail'
  OBVIOUS
<1>2. up \in BOOLEAN /\ InTurn(k, a, h, s, t, c)
  BY <1>1, PromiseIs
<1>3. CASE Log!Extend
  <2>1. /\ up' /\ t2 \in Nat /\ t <= t2 /\ s2 \in {s, t} /\ c2 \in c .. s2
        /\ k2 \in Nat /\ k2 <= a2 /\ k2 <= h /\ a2 = a /\ h2 = h
    BY <1>1, <1>3 DEF Log!Extend, Log!Discards, Low, Safe, Ck
  <2>2. InTurn(k2, a2, h2, s2, t2, c2)
    BY <1>2, <2>1 DEF InTurn
  <2> QED BY <1>1, <2>1, <2>2, PromiseIs
<1>4. CASE Log!Deliver
  <2>1. /\ up' /\ h2 \in h .. s /\ k2 = k /\ a2 = a /\ s2 = s /\ t2 = t /\ c2 = c
    BY <1>1, <1>4 DEF Log!Deliver, Low, Safe, Ck
  <2>2. InTurn(k2, a2, h2, s2, t2, c2)
    BY <1>2, <2>1 DEF InTurn
  <2> QED BY <1>1, <2>1, <2>2, PromiseIs
<1>5. CASE Log!Confirm
  <2>1. /\ up' /\ a2 \in a .. (IF h < a THEN a ELSE h)
        /\ k2 \in Nat /\ k2 <= a2 /\ k2 <= h /\ h2 = h /\ s2 = s /\ t2 = t /\ c2 = c
    BY <1>1, <1>5 DEF Log!Confirm, Log!Discards, Low, Safe, Ck
  <2>2. InTurn(k2, a2, h2, s2, t2, c2)
    BY <1>2, <2>1 DEF InTurn
  <2> QED BY <1>1, <2>1, <2>2, PromiseIs
<1>6. CASE Log!Halt
  <2>1. /\ up' = FALSE /\ t2 \in s .. t + 1 /\ k2 \in 0 .. (IF h < a THEN h ELSE a)
        /\ a2 = a /\ h2 = h /\ s2 = s /\ c2 = c
    BY <1>1, <1>6 DEF Log!Halt, Low, Safe, Ck
  <2>2. InTurn(k2, a2, h2, s2, t2, c2)
    BY <1>2, <2>1 DEF InTurn
  <2> QED BY <1>1, <2>1, <2>2, PromiseIs
<1>7. CASE Log!Resume
  <2>1. /\ up' = TRUE /\ t2 \in s .. t /\ s2 = t2 /\ k2 \in 0 .. a /\ h2 \in k2 .. a
        /\ a2 = a /\ c2 = c
    BY <1>1, <1>7 DEF Log!Resume, Low, Safe, Ck
  <2>2. InTurn(k2, a2, h2, s2, t2, c2)
    BY <1>2, <2>1 DEF InTurn
  <2> QED BY <1>1, <2>1, <2>2, PromiseIs
<1>8. CASE UNCHANGED Log!vars
  <2>1. up' = up /\ k2 = k /\ a2 = a /\ h2 = h /\ s2 = s /\ t2 = t /\ c2 = c
    BY <1>1, <1>8 DEF Log!vars, Low, Safe, Ck
  <2> QED BY <1>1, <1>2, <2>1, PromiseIs
<1> QED BY <1>3, <1>4, <1>5, <1>6, <1>7, <1>8 DEF Log!Next

\* A checkpointed byte is confirmed or on the fsynced part of the segments, what
\* reaps and caps have discarded is confirmed, and the reader never stands beyond
\* what survives a crash: in every state of a buffer, running or not.
THEOREM PromiseKept ==
  ASSUME ~ReopenDrained
  PROVE  Spec => []Log!Promise
<1>1. Log!Init => Log!Promise
  BY DEF Log!Init, Log!Promise
<1>2. Log!Promise /\ [Log!Next]_(Log!vars) => Log!Promise'
  BY StepPromise
<1>3. WInv /\ WInv' /\ [Next]_vars => [Log!Next]_(Log!vars)
  BY NextLog
<1> QED BY <1>1, <1>2, <1>3, InitLog, ReaderInvariance, PTL DEF Spec

-----------------------------------------------------------------------------
(* The bytes on the disk *)

\* The segments of the directory are a chain: their bytes reach from the first to the
\* end of the log.
LEMMA BytesOnDisk ==
  ASSUME WInv
  PROVE  LET onDisk == SumFunction([s \in Seqs |-> segs[s].size]) IN
           /\ Seqs = {} => onDisk = 0
           /\ \A m \in Seqs : m - 1 \notin Seqs => onDisk = tail - segs[m].lo
<1> DEFINE f == [s \in Seqs |-> segs[s].size]
           lo == [s \in Seqs |-> segs[s].lo]
<1>1. SumFunction(f) = SumFunctionOnSet(f, Seqs)
  BY DEF SumFunction
<1>2. Seqs = {} => SumFunction(f) = 0
  <2>1. SUFFICES ASSUME Seqs = {} PROVE SumFunctionOnSet(f, Seqs) = 0
    BY <1>1
  <2> HIDE DEF f, Seqs
  <2> QED BY <2>1, SumEmpty
<1>3. ASSUME NEW m \in Seqs, m - 1 \notin Seqs
      PROVE  SumFunction(f) = tail - segs[m].lo
  <2>1. PICK n \in Seqs : n = Max(Seqs) /\ \A t \in Seqs : t <= n
    BY Files
  <2>2. m \in Nat /\ n \in Nat /\ m <= n /\ HiOf(segs[n]) = tail
    BY <2>1, Files
  <2>3. \A t \in Seqs : m <= t
    <3>1. ASSUME NEW t \in Seqs, t < m PROVE FALSE
      <4>1. m - 1 \in t .. m /\ t \in Nat
        BY <2>2, <3>1, Files
      <4> QED BY <1>3, <4>1, Files DEF IInv, Layout
    <3> QED BY <2>2, <3>1, Files
  <2>4. Seqs = m .. n
    <3>1. \A t \in m .. n : t \in Seqs
      BY <2>1, Files DEF IInv, Layout
    <3>2. \A t \in Seqs : t \in m .. n
      BY <2>1, <2>2, <2>3, Files
    <3> QED BY <3>1, <3>2
  <2>5. \A i \in m .. n : lo[i] \in Nat /\ f[i] \in Nat
    BY <2>4, Files
  <2>6. ASSUME NEW i \in m .. n, i + 1 \in m .. n PROVE lo[i] + f[i] = lo[i + 1]
    <3>1. i \in Seqs /\ i + 1 \in Seqs
      BY <2>4, <2>6
    <3>2. HiOf(segs[i]) = segs[i + 1].lo
      BY <3>1, Files DEF IInv, Layout
    <3> QED BY <3>1, <3>2
  <2>7. lo[n] + f[n] - lo[m] = tail - segs[m].lo
    <3>1. lo[n] = segs[n].lo /\ f[n] = segs[n].size /\ lo[m] = segs[m].lo
      OBVIOUS
    <3>2. segs[n].lo + segs[n].size = tail /\ lo[n] \in Nat /\ f[n] \in Nat /\ lo[m] \in Nat
      BY <2>1, <2>2, <3>1, Files
    <3> HIDE DEF lo, f
    <3> QED BY <3>1, <3>2
  <2> HIDE DEF lo, f, Seqs
  <2>8. SumFunctionOnSet(f, m .. n) = lo[n] + f[n] - lo[m]
    BY <2>2, <2>5, <2>6, SumOfChain
  <2> QED BY <1>1, <2>4, <2>7, <2>8
<1> QED BY <1>2, <1>3

\* A directory that has a segment has a first one.
LEMMA FirstFile ==
  ASSUME WInv, Seqs # {}
  PROVE  \E m \in Seqs : m - 1 \notin Seqs
<1>1. PICK m \in Seqs : \A t \in Seqs : ~(t < m)
  <2>1. Seqs \in SUBSET Nat
    BY Files
  <2> HIDE DEF Seqs
  <2> QED BY <2>1, LeastExists
<1>2. m \in Nat
  BY Files
<1>3. m - 1 < m
  BY <1>2
<1> QED BY <1>1, <1>3

\* The counter and the limit, of the sum.
LEMMA Capped ==
  ASSUME WInv
  PROVE  CapRespected
<1> DEFINE onDisk == SumFunction([s \in Seqs |-> segs[s].size])
<1>1. CASE Seqs = {}
  <2>1. onDisk = 0
    BY <1>1, BytesOnDisk
  <2>2. 0 <= MaxBytes /\ (up => total = 0)
    BY <1>1, Files, SizesAssumption DEF IInv, Sized
  <2> HIDE DEF onDisk
  <2> QED BY <2>1, <2>2 DEF CapRespected, onDisk
<1>2. CASE Seqs # {}
  <2>1. PICK m \in Seqs : m - 1 \notin Seqs
    BY <1>2, FirstFile
  <2>2. onDisk = tail - segs[m].lo
    BY <2>1, BytesOnDisk
  <2>3. tail - segs[m].lo <= MaxBytes /\ (up => total = tail - segs[m].lo)
    BY <2>1, Files DEF IInv, Sized
  <2> HIDE DEF onDisk
  <2> QED BY <2>2, <2>3 DEF CapRespected, onDisk
<1> QED BY <1>1, <1>2

\* The limit on the files' bytes is strict at every moment, across crashes and
\* restarts, and the counter it is enforced with is the sum of the files.
THEOREM CapKept ==
  ASSUME ~ReopenDrained
  PROVE  Spec => []CapRespected
<1>1. WInv => CapRespected
  BY Capped
<1> QED BY <1>1, ReaderInvariance, PTL

==============================================================================
