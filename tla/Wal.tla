--------------------------------- MODULE Wal ---------------------------------
(***************************************************************************)
(* The disk buffer of follow mode, src/agents/go/internal/wal/wal.go.      *)
(*                                                                         *)
(* Writers Append frames to the open segment; the syncer fsyncs it and     *)
(* hands the frames' metadata to OnDurable (the TJ checkpoints); the one   *)
(* reader takes durable frames; the batcher Acks what ClickHouse has       *)
(* confirmed, which persists the cursor and deletes whole segments.  The   *)
(* process may die between any two steps and be opened again.              *)
(*                                                                         *)
(* Bytes are counted along the whole life of the buffer: a segment covers  *)
(* the bytes lo .. lo + size of that log, and a frame is the range it      *)
(* occupies.  Only sequence numbers, sizes and offsets inside a segment    *)
(* exist in the code; lo, tail, frames, released, acked and handed are the *)
(* history the properties are stated with.                                 *)
(***************************************************************************)
EXTENDS Integers, FiniteSets, FiniteSetsExt, Functions

CONSTANTS
  Writer,         \* worker goroutines that call Append
  FrameSizes,     \* bytes (header included) a call may need
  MaxFrameBytes,  \* a longer frame is refused
  SegmentBytes,   \* target size of a segment
  MaxBytes,       \* hard limit on the bytes of all live segments
  Faults,         \* may an I/O operation of the buffer fail?
  CursorMayBreak, \* may a crash leave cursor.json unreadable?
  ReopenDrained,  \* may an emptied directory be opened with a cursor left in it?
  MaxFrames,      \* bound: frames written in a behaviour
  MaxDowns        \* bound: stops and crashes in a behaviour

ASSUME SizesAssumption ==
  /\ FrameSizes \subseteq Nat \ {0}
  /\ {MaxFrameBytes, SegmentBytes, MaxBytes} \subseteq Nat \ {0}
ASSUME BoundsAssumption == {MaxFrames, MaxDowns} \subseteq Nat
ASSUME SwitchesAssumption ==
  {Faults, CursorMayBreak, ReopenDrained} \subseteq BOOLEAN

VARIABLES
  up,         \* is the process running?
  segs,       \* live segments by sequence number; the files when down
  diskCursor, \* cursor.json
  nextSeq, total, pending, cursor, readPos,
  stopping, closed, fatal,
  reaping,    \* mu is held by reapLocked, files remain to be removed
  writer,     \* what each writer does
  reader,     \* the read TryNext makes without mu
  inflight,   \* handed to the batcher, not yet acknowledged
  frames, tail, released, acked, handed,   \* history
  written, downs                           \* counters of the bounds

memory == <<nextSeq, total, pending, cursor, readPos, stopping, closed, fatal>>
actors == <<reaping, writer, reader, inflight>>
history == <<frames, tail, released, acked, handed>>
vars == <<up, segs, diskCursor, memory, actors, history, written, downs>>

-----------------------------------------------------------------------------
Pos == [seg : Nat, off : Nat]
Segment == [lo : Nat, size : Nat, durable : Nat, closed : BOOLEAN]
NoCursor == [seg |-> 0, off |-> 0]   \* cursor.json absent or unreadable
Origin == [seg |-> 0, off |-> 0]     \* value of a position in a dead process
Idle == [st |-> "idle", need |-> 0]
NotReading == [busy |-> FALSE, seg |-> 0, off |-> 0, limit |-> 0]

Before(p, q) == p.seg < q.seg \/ (p.seg = q.seg /\ p.off < q.off)

Seqs == DOMAIN segs
HiOf(s) == s.lo + s.size

\* The open segment (curLocked) as a set with at most one member.
Cur == {s \in Seqs : ~segs[s].closed /\ \A t \in Seqs : t <= s}

\* Mutant of Doomed: the segment under the cursor goes too.
DoomedWithCursor(sg, c) == {s \in DOMAIN sg : sg[s].closed /\ s <= c.seg}

\* Segments a cursor leaves behind.
Doomed(sg, c) == {s \in DOMAIN sg : sg[s].closed /\ s < c.seg}

\* Mutant of Normal: the cursor stays at the end of a closed segment.
NormalForgotten(sg, c) == c

\* The end of a closed segment is the beginning of the next one.
Normal(sg, c) ==
  IF c.seg \in DOMAIN sg /\ sg[c.seg].closed /\ c.off >= sg[c.seg].size
  THEN [seg |-> c.seg + 1, off |-> 0] ELSE c

\* Mutants of Bytes: the files found are not counted, or only the last one is.
BytesForgotten(sg) == 0
BytesOfLast(sg) == IF DOMAIN sg = {} THEN 0 ELSE sg[Max(DOMAIN sg)].size

\* Bytes of all segments: they follow one another in the log.
Bytes(sg) ==
  IF DOMAIN sg = {} THEN 0
  ELSE HiOf(sg[Max(DOMAIN sg)]) - sg[Min(DOMAIN sg)].lo

Synced(sg, s) == [sg EXCEPT ![s].durable = sg[s].size]
Shut(sg, s) == [Synced(sg, s) EXCEPT ![s].closed = TRUE]
Grown(sg, s, n) == [sg EXCEPT ![s].size = @ + n]
Opened(sg, s, n) ==
  [t \in DOMAIN sg \cup {s} |->
     IF t = s THEN [lo |-> tail, size |-> n, durable |-> 0, closed |-> FALSE]
              ELSE sg[t]]

\* Metadata that a sync of segment s hands to OnDurable.
Covered(s) == IF segs[s].durable = segs[s].size THEN {} ELSE pending

\* Mutant of Woken: the broadcast is forgotten.
NobodyWoken == writer

\* space.Broadcast
Woken == [w \in Writer |-> IF writer[w].st = "wait"
                             THEN [st |-> "call", need |-> writer[w].need]
                             ELSE writer[w]]

MuFree == up /\ ~reaping

-----------------------------------------------------------------------------
(* Writers: Append *)

\* A worker calls Append with a frame of n bytes.
Call(w, n) ==
  /\ up /\ ~closed
  /\ writer[w] = Idle
  /\ written < MaxFrames
  /\ n > MaxFrameBytes => downs < MaxDowns   \* it will stop the agent
  /\ written' = written + 1
  /\ writer' = [writer EXCEPT ![w] = [st |-> "call", need |-> n]]
  /\ UNCHANGED <<up, segs, diskCursor, memory, reaping, reader, inflight, history, downs>>

\* A frame no reader would accept stops the agent.
AppendOversize(w) ==
  /\ up /\ writer[w].st = "call"
  /\ writer[w].need > MaxFrameBytes
  /\ fatal' = TRUE
  /\ writer' = [Woken EXCEPT ![w] = Idle]
  /\ UNCHANGED <<up, segs, diskCursor, nextSeq, total, pending, cursor, readPos, stopping,
                 closed, reaping, reader, inflight, history, written, downs>>

\* Append returns fatalErr or ErrStopped.
AppendRefused(w) ==
  /\ MuFree /\ writer[w].st = "call"
  /\ writer[w].need <= MaxFrameBytes
  /\ fatal \/ closed \/ stopping
  /\ writer' = [writer EXCEPT ![w] = Idle]
  /\ UNCHANGED <<up, segs, diskCursor, memory, reaping, reader, inflight, history, written, downs>>

Admitted(w) ==
  /\ MuFree /\ writer[w].st = "call"
  /\ writer[w].need <= MaxFrameBytes
  /\ ~fatal /\ ~closed /\ ~stopping

\* The buffer is full: rotate what is open, so that it can be deleted once
\* acknowledged, and wait for space.
AppendBlocks(w) ==
  /\ Admitted(w)
  /\ total + writer[w].need > MaxBytes
  /\ writer' = [writer EXCEPT ![w].st = "wait"]
  /\ IF \E s \in Cur : segs[s].size > 0
       THEN \E s \in Cur :
              /\ segs' = Shut(segs, s)
              /\ released' = released \cup Covered(s)
              /\ pending' = pending \ Covered(s)
       ELSE UNCHANGED <<segs, released, pending>>
  /\ UNCHANGED <<up, diskCursor, nextSeq, total, cursor, readPos, stopping, closed, fatal,
                 reaping, reader, inflight, frames, tail, acked, handed, written, downs>>

\* The frame of writer w goes to the end of the log; sg are the segments with it.
WriteFrame(w, sg) ==
  LET n == writer[w].need IN
  /\ segs' = sg
  /\ total' = total + n
  /\ tail' = tail + n
  /\ frames' = frames \cup {[lo |-> tail, hi |-> tail + n]}
  /\ writer' = [writer EXCEPT ![w] = Idle]
  /\ UNCHANGED <<up, diskCursor, cursor, readPos, stopping, closed, fatal,
                 reaping, reader, inflight, acked, handed, written, downs>>

\* The open segment has room for the frame.
AppendHere(w) ==
  /\ Admitted(w)
  /\ total + writer[w].need <= MaxBytes
  /\ \E s \in Cur :
       /\ segs[s].size + writer[w].need <= SegmentBytes
       /\ WriteFrame(w, Grown(segs, s, writer[w].need))
  /\ pending' = pending \cup {tail + writer[w].need}
  /\ UNCHANGED <<nextSeq, released>>

\* The open segment is rotated first, then the next one is created.
AppendRotates(w) ==
  /\ Admitted(w)
  /\ total + writer[w].need <= MaxBytes
  /\ \E s \in Cur :
       /\ segs[s].size + writer[w].need > SegmentBytes
       /\ WriteFrame(w, Opened(Shut(segs, s), nextSeq, writer[w].need))
       /\ released' = released \cup Covered(s)
       /\ pending' = (pending \ Covered(s)) \cup {tail + writer[w].need}
  /\ nextSeq' = nextSeq + 1

\* No segment is open.
AppendOpens(w) ==
  /\ Admitted(w)
  /\ total + writer[w].need <= MaxBytes
  /\ Cur = {}
  /\ WriteFrame(w, Opened(segs, nextSeq, writer[w].need))
  /\ pending' = pending \cup {tail + writer[w].need}
  /\ nextSeq' = nextSeq + 1
  /\ UNCHANGED released

\* Rotating, creating the next segment or writing into it fails; what was done
\* before stays done.
AppendFails(w) ==
  /\ Faults /\ downs < MaxDowns
  /\ Admitted(w)
  /\ total + writer[w].need <= MaxBytes
  /\ \A s \in Cur : segs[s].size + writer[w].need > SegmentBytes
  /\ LET shut == [s \in Seqs |-> IF s \in Cur THEN Shut(segs, s)[s] ELSE segs[s]] IN
       \/ segs' = shut /\ UNCHANGED nextSeq
       \/ segs' = Opened(shut, nextSeq, 0) /\ nextSeq' = nextSeq + 1
  /\ released' = released \cup pending
  /\ pending' = {}
  /\ fatal' = TRUE
  /\ writer' = [Woken EXCEPT ![w] = Idle]
  /\ UNCHANGED <<up, diskCursor, total, cursor, readPos, stopping, closed, reaping, reader,
                 inflight, frames, tail, acked, handed, written, downs>>

\* Append, whichever way it goes.
AppendFrame(w) ==
  \/ AppendOversize(w)
  \/ AppendRefused(w)
  \/ AppendBlocks(w)
  \/ AppendHere(w)
  \/ AppendRotates(w)
  \/ AppendOpens(w)
  \/ AppendFails(w)

-----------------------------------------------------------------------------
(* The syncer's tick *)
SyncTick ==
  /\ MuFree /\ ~closed
  /\ \E s \in Cur :
       /\ segs[s].durable # segs[s].size
       /\ segs' = Synced(segs, s)
       /\ released' = released \cup Covered(s)
       /\ pending' = pending \ Covered(s)
  /\ UNCHANGED <<up, diskCursor, nextSeq, total, cursor, readPos, stopping, closed, fatal,
                 actors, frames, tail, acked, handed, written, downs>>

-----------------------------------------------------------------------------
(* The reader: TryNext *)

\* Mutant of Limit: written bytes are read before the fsync.
LimitWritten(s) == segs[s].size

Limit(s) == IF segs[s].closed THEN segs[s].size ELSE segs[s].durable

\* Mutant of ReadSkips: on to the newest segment instead of the next one.
ReadSkipsToNewest ==
  /\ MuFree /\ ~fatal /\ ~reader.busy
  /\ readPos.seg \in Seqs => segs[readPos.seg].closed /\ readPos.off >= segs[readPos.seg].size
  /\ LET later == {s \in Seqs : s > readPos.seg} IN
       /\ later # {}
       /\ readPos' = [seg |-> Max(later), off |-> 0]
  /\ UNCHANGED <<up, segs, diskCursor, nextSeq, total, pending, cursor, stopping, closed, fatal,
                 actors, history, written, downs>>

\* Mutant of ReadSkips: a reader whose segment was deleted waits for it.
ReadSkipsOnlyFromLive == readPos.seg \in Seqs /\ ReadSkipsToNewest

\* The reader's segment is gone or read to its end: on to the next one.
ReadSkips ==
  /\ MuFree /\ ~fatal /\ ~reader.busy
  /\ readPos.seg \in Seqs => segs[readPos.seg].closed /\ readPos.off >= segs[readPos.seg].size
  /\ LET later == {s \in Seqs : s > readPos.seg} IN
       /\ later # {}
       /\ readPos' = [seg |-> Min(later), off |-> 0]
  /\ UNCHANGED <<up, segs, diskCursor, nextSeq, total, pending, cursor, stopping, closed, fatal,
                 actors, history, written, downs>>

\* Position and limit are taken under mu, then mu is released.
ReadStarts ==
  /\ MuFree /\ ~fatal /\ ~reader.busy
  /\ readPos.seg \in Seqs
  /\ readPos.off < Limit(readPos.seg)
  /\ reader' = [busy |-> TRUE, seg |-> readPos.seg, off |-> readPos.off,
                limit |-> Limit(readPos.seg)]
  /\ UNCHANGED <<up, segs, diskCursor, memory, reaping, writer, inflight, history, written, downs>>

\* The frames readFrame would find whole at the reader's offset.
FramesAtReader ==
  {f \in frames : /\ reader.seg \in Seqs
                  /\ f.lo = segs[reader.seg].lo + reader.off
                  /\ f.hi <= segs[reader.seg].lo + reader.limit}

\* readFrame has read the frame; mu is taken again to move readPos.
ReadFinishes ==
  /\ MuFree /\ reader.busy
  /\ \E f \in FramesAtReader :
       LET p == [seg |-> reader.seg, off |-> reader.off + (f.hi - f.lo)] IN
       /\ readPos' = p
       /\ inflight' = inflight \cup {[pos |-> p, end |-> f.hi]}
       /\ handed' = f.hi
  /\ reader' = NotReading
  /\ UNCHANGED <<up, segs, diskCursor, nextSeq, total, pending, cursor, stopping, closed, fatal,
                 reaping, writer, frames, tail, released, acked, written, downs>>

-----------------------------------------------------------------------------
(* The batcher: Ack, and reapLocked *)

\* What reapLocked does before it removes files; mu stays held while some are
\* left to remove.
Reap(sg, c) ==
  /\ cursor' = Normal(sg, c)
  /\ diskCursor' = Normal(sg, c)
  /\ reaping' = (Doomed(sg, Normal(sg, c)) # {})

\* A batch is confirmed up to the row that carries x.pos.
Ack(x) ==
  /\ MuFree /\ x \in inflight
  /\ inflight' = {y \in inflight : Before(x.pos, y.pos)}
  /\ acked' = IF x.end > acked THEN x.end ELSE acked
  /\ IF Before(cursor, x.pos) THEN Reap(segs, x.pos)
                              ELSE UNCHANGED <<cursor, diskCursor, reaping>>
  /\ UNCHANGED <<up, segs, nextSeq, total, pending, readPos, stopping, closed, fatal,
                 writer, reader, frames, tail, released, handed, written, downs>>

\* One os.Remove of reapLocked; after the last one the blocked writers are
\* woken and mu is released.
ReapRemoves ==
  /\ up /\ reaping
  /\ LET s == Min(Doomed(segs, cursor)) IN
       /\ segs' = Restrict(segs, Seqs \ {s})
       /\ total' = total - segs[s].size
       /\ IF Doomed(segs, cursor) = {s}
            THEN reaping' = FALSE /\ writer' = Woken
            ELSE UNCHANGED <<reaping, writer>>
  /\ UNCHANGED <<up, diskCursor, nextSeq, pending, cursor, readPos, stopping, closed, fatal,
                 reader, inflight, history, written, downs>>

-----------------------------------------------------------------------------
(* Shutdown, failure and restart *)

BeginShutdown ==
  /\ MuFree /\ ~stopping /\ downs < MaxDowns
  /\ stopping' = TRUE
  /\ writer' = Woken
  /\ UNCHANGED <<up, segs, diskCursor, nextSeq, total, pending, cursor, readPos, closed, fatal,
                 reaping, reader, inflight, history, written, downs>>

\* Called once the writers have returned: the last sync, then the reap that
\* empties a drained directory.
CloseWriter ==
  /\ MuFree /\ stopping /\ ~closed
  /\ \A w \in Writer : writer[w] = Idle
  /\ closed' = TRUE
  /\ IF Cur = {} THEN UNCHANGED <<segs, released, pending>>
     ELSE \E s \in Cur :
            /\ segs' = Shut(segs, s)
            /\ released' = released \cup Covered(s)
            /\ pending' = pending \ Covered(s)
  /\ IF fatal THEN UNCHANGED <<cursor, diskCursor, reaping>> ELSE Reap(segs', cursor)
  /\ UNCHANGED <<up, nextSeq, total, readPos, stopping, fatal, writer, reader, inflight,
                 frames, tail, acked, handed, written, downs>>

\* Its last sync fails: nothing is written any more, nothing is reaped.
CloseWriterFails ==
  /\ Faults /\ downs < MaxDowns
  /\ MuFree /\ stopping /\ ~closed
  /\ \A w \in Writer : writer[w] = Idle
  /\ \E s \in Cur : segs[s].durable # segs[s].size
  /\ closed' = TRUE /\ fatal' = TRUE
  /\ UNCHANGED <<up, segs, diskCursor, nextSeq, total, pending, cursor, readPos, stopping,
                 actors, history, written, downs>>

\* Everything the process had in memory is gone.
Dies ==
  /\ up' = FALSE
  /\ nextSeq' = 0 /\ total' = 0 /\ pending' = {} /\ cursor' = Origin /\ readPos' = Origin
  /\ stopping' = FALSE /\ closed' = FALSE /\ fatal' = FALSE /\ reaping' = FALSE
  /\ writer' = [w \in Writer |-> Idle]
  /\ reader' = NotReading /\ inflight' = {}
  /\ downs' = downs + 1

\* Close, after the reader has returned: the cursor is written once more.
Exit ==
  /\ MuFree /\ closed /\ ~reader.busy
  /\ diskCursor' = IF fatal THEN diskCursor ELSE cursor
  /\ Dies
  /\ UNCHANGED <<segs, history, written>>

\* A crash, or the hard stop after a fatal error.  What was not fsynced
\* survives up to any byte; the frame being written may leave a torn piece.
Crash ==
  /\ up /\ downs < MaxDowns
  /\ Dies
  /\ IF Cur = {} THEN UNCHANGED <<segs, frames, tail>>
     ELSE \E s \in Cur, torn \in {0, 1} : \E k \in segs[s].durable .. segs[s].size + torn :
            /\ torn = 1 => total < MaxBytes /\ (fatal \/ \E w \in Writer : writer[w].st = "call")
            /\ segs' = [segs EXCEPT ![s].size = k]
            /\ frames' = {f \in frames : f.hi <= segs[s].lo + k}
            /\ tail' = segs[s].lo + k
  /\ \/ UNCHANGED diskCursor
     \/ CursorMayBreak /\ diskCursor' = NoCursor
  /\ UNCHANGED <<released, acked, handed, written>>

\* An I/O error in the buffer (setFatalIO): an operation under mu gives up, the
\* files reapLocked has not removed stay; or the read without mu fails, and a reap
\* goes on.  Everyone blocked is woken.
Fault ==
  /\ Faults /\ up /\ ~fatal /\ downs < MaxDowns
  /\ fatal' = TRUE
  /\ writer' = Woken
  /\ \/ reaping' = FALSE /\ UNCHANGED reader
     \/ reader.busy /\ reader' = NotReading /\ UNCHANGED reaping
  /\ UNCHANGED <<up, segs, diskCursor, nextSeq, total, pending, cursor, readPos, stopping,
                 closed, inflight, history, written, downs>>

\* Mutant of ValidSize: a torn tail is kept.
ValidUnchecked(s) == s.size

\* Mutant of ValidSize: everything after the first frame is cut.
ValidFirst(s) ==
  Min({s.size} \cup {f.hi - s.lo : f \in {g \in frames : s.lo <= g.lo /\ g.hi <= HiOf(s)}})

\* scanValid: the bytes of a segment up to the end of its last whole frame.
ValidSize(s) ==
  Max({0} \cup {f.hi - s.lo : f \in {g \in frames : s.lo <= g.lo /\ g.hi <= HiOf(s)}})

\* Mutant of Clamp: back to the segment's start.
ClampToStart(sg, c, next) ==
  [seg |-> IF c.seg \in DOMAIN sg THEN c.seg
           ELSE Min({s \in DOMAIN sg : s > c.seg} \cup {next}), off |-> 0]

\* clampCursorLocked
Clamp(sg, c, next) ==
  IF DOMAIN sg = {}
    THEN [seg |-> IF c.seg < next THEN next ELSE c.seg, off |-> 0]
  ELSE IF c.seg \notin DOMAIN sg
    THEN [seg |-> Min({s \in DOMAIN sg : s > c.seg} \cup {next}), off |-> 0]
  ELSE [c EXCEPT !.off = IF @ > sg[c.seg].size THEN sg[c.seg].size ELSE @]

\* Mutant of StoredCursor: without cursor.json the newest segment is read.
StoredOrNewest ==
  IF diskCursor # NoCursor THEN diskCursor
  ELSE [seg |-> IF Seqs = {} THEN 1 ELSE Max(Seqs), off |-> 0]

\* The cursor on disk, or else the beginning of the buffer.
StoredCursor ==
  IF diskCursor # NoCursor THEN diskCursor
  ELSE [seg |-> IF Seqs = {} THEN 1 ELSE Min(Seqs), off |-> 0]

\* Mutant of NextFree: the files are counted instead.
NextFreeByCount == Cardinality(Seqs) + 1

\* recover, in the order of the code: the number after the last file,
NextFree == IF Seqs = {} THEN 1 ELSE Max(Seqs) + 1

\* the files before the cursor are removed,
Unread == Restrict(segs, {s \in Seqs : s >= StoredCursor.seg})

\* the last one is cut after its last whole frame,
Scanned ==
  [s \in DOMAIN Unread |->
     IF s = Max(DOMAIN Unread) THEN [Unread[s] EXCEPT !.size = ValidSize(Unread[s])]
                               ELSE Unread[s]]

\* the cursor is put on a file that exists,
Resumed == Clamp(Scanned, StoredCursor, NextFree)

\* and its file is removed when nothing is left to read in it.
Exhausted == Resumed.seg \in DOMAIN Scanned /\ Resumed.off >= Scanned[Resumed.seg].size
Live == Restrict(Scanned, IF Exhausted THEN DOMAIN Scanned \ {Resumed.seg} ELSE DOMAIN Scanned)
Reopened ==
  [s \in DOMAIN Live |-> [Live[s] EXCEPT !.durable = Live[s].size,
                                         !.closed = s # Max(DOMAIN Live)
                                                    \/ Live[s].size >= SegmentBytes]]

\* Open on an existing directory.
Recover ==
  /\ ~up
  /\ Seqs = {} /\ StoredCursor # [seg |-> 1, off |-> 0] => ReopenDrained
  /\ up' = TRUE
  /\ segs' = Reopened
  /\ nextSeq' = NextFree
  /\ total' = Bytes(Live)
  /\ cursor' = IF Exhausted THEN [seg |-> Resumed.seg + 1, off |-> 0] ELSE Resumed
  /\ readPos' = cursor'
  /\ tail' = IF DOMAIN Scanned = {} THEN tail ELSE HiOf(Scanned[Max(DOMAIN Scanned)])
  /\ handed' = IF cursor'.seg \in DOMAIN Live THEN Live[cursor'.seg].lo + cursor'.off ELSE tail'
  /\ UNCHANGED <<diskCursor, pending, stopping, closed, fatal, actors,
                 frames, released, acked, written, downs>>

-----------------------------------------------------------------------------
Init ==
  /\ up = TRUE
  /\ segs = [s \in {} |-> 0]
  /\ diskCursor = NoCursor
  /\ nextSeq = 1 /\ total = 0 /\ pending = {}
  /\ cursor = [seg |-> 1, off |-> 0] /\ readPos = [seg |-> 1, off |-> 0]
  /\ stopping = FALSE /\ closed = FALSE /\ fatal = FALSE /\ reaping = FALSE
  /\ writer = [w \in Writer |-> Idle]
  /\ reader = NotReading /\ inflight = {}
  /\ frames = {} /\ tail = 0 /\ released = {} /\ acked = 0 /\ handed = 0
  /\ written = 0 /\ downs = 0

Reader == ReadSkips \/ ReadStarts \/ ReadFinishes
Batcher == ReapRemoves \/ \E x \in inflight : Ack(x)
Owner == BeginShutdown \/ CloseWriter \/ CloseWriterFails \/ Exit

Next ==
  \/ \E w \in Writer : AppendFrame(w) \/ \E n \in FrameSizes : Call(w, n)
  \/ SyncTick
  \/ Reader
  \/ Batcher
  \/ Owner
  \/ Crash \/ Fault \/ Recover

Spec == Init /\ [][Next]_vars

\* Goroutines run, mu is handed over, the ticker ticks, ClickHouse answers in
\* the end, a stop once begun is carried through, a fatal error is noticed and
\* the service manager starts the agent again.  Nobody promises events, stops,
\* crashes or faults.
Fairness ==
  /\ \A w \in Writer : WF_vars(AppendFrame(w))
  /\ WF_vars(SyncTick)
  /\ WF_vars(Reader)
  /\ WF_vars(Batcher)
  /\ WF_vars((stopping /\ Owner) \/ (fatal /\ Crash) \/ Recover)

FairSpec == Spec /\ Fairness
-----------------------------------------------------------------------------
(* Properties *)

TypeOK ==
  /\ up \in BOOLEAN /\ stopping \in BOOLEAN /\ closed \in BOOLEAN
  /\ fatal \in BOOLEAN /\ reaping \in BOOLEAN
  /\ Seqs \subseteq Nat /\ segs \in [Seqs -> Segment]
  /\ cursor \in Pos /\ readPos \in Pos /\ diskCursor \in Pos
  /\ nextSeq \in Nat /\ total \in Nat /\ tail \in Nat
  /\ acked \in Nat /\ handed \in Nat /\ written \in Nat /\ downs \in Nat
  /\ writer \in [Writer -> [st : {"idle", "call", "wait"}, need : Nat]]
  /\ \A w \in Writer : writer[w].st # "idle" => writer[w].need \in FrameSizes
  /\ reader \in [busy : BOOLEAN, seg : Nat, off : Nat, limit : Nat]
  /\ inflight \subseteq [pos : Pos, end : Nat]
  /\ frames \subseteq [lo : Nat, hi : Nat]
  /\ pending \subseteq Nat /\ released \subseteq Nat

\* An event whose checkpoint has moved (its metadata went to OnDurable) is in
\* ClickHouse, or on the fsynced part of a segment that neither the reader nor a
\* restart leaves behind: whatever crashes, stops and reaps happen in between.
NoLoss ==
  \A e \in released :
    \/ e <= acked
    \/ \E s \in Seqs : /\ s >= (IF up THEN cursor ELSE diskCursor).seg
                       /\ segs[s].lo < e
                       /\ e <= segs[s].lo + segs[s].durable

\* The limit on the files' bytes is strict at every moment, across restarts, and
\* the counter it is enforced with is exact.
CapRespected ==
  LET onDisk == SumFunction([s \in Seqs |-> segs[s].size]) IN
  /\ onDisk <= MaxBytes
  /\ up => total = onDisk

\* What the reader reads without mu is a whole frame of a file that exists:
\* neither a reap, nor a rotation, nor a tail torn by a crash can make TryNext
\* report a corrupt segment.
ReadsWholeFrames == reader.busy => FramesAtReader # {}

\* Within a run, each frame handed to the batcher is the one right after the
\* frame handed before: none skipped, none twice, none out of order.
InOrder ==
  [][up /\ handed' # handed =>
       \E f \in frames : f.lo = handed /\ f.hi = handed']_vars

\* A restart resumes exactly where ClickHouse stopped confirming: whole segments
\* are not delivered again, though a crash may separate the cursor's write from
\* the removals, and no frame is passed over.
ResumesAtAck == [][~up /\ up' => handed' = acked]_vars

\* With cursor.json lost the replay starts earlier, never later.
NeverSkipsAhead == [][~up /\ up' => handed' <= acked]_vars

\* A stop after a full drain leaves no event on the disk (a segment created by a
\* failed append may stay, empty).
DrainedStopIsEmpty ==
  up /\ closed /\ ~fatal /\ ~reaping /\ acked = tail =>
    \A s \in Seqs : segs[s].size = 0

\* The position ranges of DurableLog.  A segment before the cursor is lost to the
\* reader and to the next Open, whatever is in it.
Reachable == {s \in Seqs : s >= (IF up THEN cursor ELSE diskCursor).seg}
Log == INSTANCE DurableLog WITH
  kept <- IF Reachable = {} THEN tail ELSE segs[Min(Reachable)].lo,
  safe <- IF Seqs = {} THEN tail ELSE segs[Max(Seqs)].lo + segs[Max(Seqs)].durable,
  ckpt <- Max({0} \cup released)

\* The buffer keeps the promise of DurableLog: it implements it step by step.
ImplementsLog == Log!Spec

\* Every checkpointed event reaches ClickHouse.
DurableIsDelivered ==
  \A e \in 1 .. MaxFrames * MaxFrameBytes : e \in released ~> acked >= e

\* Append returns: written, refused or failed, it does not block forever.
AppendReturns == \A w \in Writer : writer[w] # Idle ~> writer[w] = Idle

==============================================================================
