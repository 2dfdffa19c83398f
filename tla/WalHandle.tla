------------------------------ MODULE WalHandle ------------------------------
(***************************************************************************)
(* The reader's file handle in the disk buffer: rd, rdSeq and rbuf of      *)
(* src/agents/go/internal/wal/wal.go, which Wal.tla leaves out.            *)
(*                                                                         *)
(* readFrame opens and reads segment files without mu; reapLocked, on the  *)
(* batcher's goroutine and under mu, closes and clears the same fields.    *)
(* The steps are cut wherever the other side can come between two accesses *)
(* to these fields.  The segments are written beforehand, the last one is  *)
(* still open; no operation of the disk fails of itself.                   *)
(***************************************************************************)
EXTENDS Integers, FiniteSetsExt

CONSTANTS
  Segments,  \* number of segments, numbered from 1
  Frames     \* frames in each

ASSUME SizesAssumption == {Segments, Frames} \subseteq Nat \ {0}

VARIABLES
  segs,     \* segments on disk
  readPos,  \* next frame for the reader: segment, frames of it already read
  cursor,   \* next frame to be confirmed
  rd,       \* the handle, 0 for nil
  rdSeq,
  rbuf,     \* what the window holds: the segment it was read from, up to which frame
  open,     \* open handles with the segment of each
  opened,   \* handles opened so far
  reader,   \* where TryNext stands
  reaper,   \* where reapLocked stands; mu is held except at "idle"
  got,      \* the segment the last frame was read from, and the one it was read for
  fatal     \* why the buffer has stopped

handleVars == <<segs, readPos, cursor, rd, rdSeq, rbuf, open, opened, reader, reaper, got, fatal>>

-----------------------------------------------------------------------------
Nothing == [seg |-> 0, upto |-> 0]
Before(p, q) == p.seg < q.seg \/ (p.seg = q.seg /\ p.off < q.off)
Normal(p) == IF p.seg < Segments /\ p.off = Frames THEN [seg |-> p.seg + 1, off |-> 0] ELSE p
SegOf(h) == (CHOOSE x \in open : x.h = h).seg
IsOpen(h) == \E x \in open : x.h = h

-----------------------------------------------------------------------------
(* The reader: TryNext, readFrame *)

\* Under mu: the next frame is there, and mu is released.
ReadStarts ==
  /\ fatal = "no" /\ reader = "idle" /\ reaper = "idle"
  /\ readPos.off < Frames
  /\ reader' = "check"
  /\ UNCHANGED <<segs, readPos, cursor, rd, rdSeq, rbuf, open, opened, reaper, got, fatal>>

\* Mutant of MustOpen: any handle will do.
AnyHandle == rd = 0

\* Does readFrame open the file?
MustOpen == rd = 0 \/ rdSeq # readPos.seg

Check ==
  /\ reader = "check"
  /\ reader' = IF MustOpen THEN "close" ELSE "read"
  /\ UNCHANGED <<segs, readPos, cursor, rd, rdSeq, rbuf, open, opened, reaper, got, fatal>>

\* The handle of the segment before is closed, if there is one.
CloseOld ==
  /\ reader = "close"
  /\ open' = {x \in open : x.h # rd}
  /\ reader' = "open"
  /\ UNCHANGED <<segs, readPos, cursor, rd, rdSeq, rbuf, opened, reaper, got, fatal>>

\* rd = f
OpenNew ==
  /\ reader = "open"
  /\ opened' = opened + 1
  /\ rd' = opened'
  /\ open' = open \cup {[h |-> opened', seg |-> readPos.seg]}
  /\ reader' = "seq"
  /\ UNCHANGED <<segs, readPos, cursor, rdSeq, rbuf, reaper, got, fatal>>

\* Mutant of SetSeq: the window of the segment before is kept.
SetSeqOnly ==
  /\ reader = "seq"
  /\ rdSeq' = readPos.seg
  /\ reader' = "read"
  /\ UNCHANGED <<segs, readPos, cursor, rd, rbuf, open, opened, reaper, got, fatal>>

\* rdSeq = seq, and the window is emptied.
SetSeq ==
  /\ reader = "seq"
  /\ rdSeq' = readPos.seg
  /\ rbuf' = Nothing
  /\ reader' = "read"
  /\ UNCHANGED <<segs, readPos, cursor, rd, open, opened, reaper, got, fatal>>

Buffered == readPos.off < rbuf.upto

\* Mutant of Fill: the window is not cut at the limit.
FillBeyond ==
  /\ reader = "read" /\ ~Buffered /\ IsOpen(rd)
  /\ \E n \in (readPos.off + 1) .. Frames + 1 : rbuf' = [seg |-> SegOf(rd), upto |-> n]
  /\ UNCHANGED <<segs, readPos, cursor, rd, rdSeq, open, opened, reader, reaper, got, fatal>>

\* ReadAt fills the window with this frame and perhaps later ones.
Fill ==
  /\ reader = "read" /\ ~Buffered /\ IsOpen(rd)
  /\ \E n \in (readPos.off + 1) .. Frames : rbuf' = [seg |-> SegOf(rd), upto |-> n]
  /\ UNCHANGED <<segs, readPos, cursor, rd, rdSeq, open, opened, reader, reaper, got, fatal>>

\* ReadAt on a nil or closed handle: setFatalIO.
FillFails ==
  /\ reader = "read" /\ ~Buffered /\ ~IsOpen(rd)
  /\ fatal' = "read"
  /\ reader' = "idle"
  /\ UNCHANGED <<segs, readPos, cursor, rd, rdSeq, rbuf, open, opened, reaper, got>>

\* The frame is cut out of the window; under mu, readPos moves on, at the end of
\* a closed segment to the next one (on the next call of TryNext).
Deliver ==
  /\ reader = "read" /\ Buffered /\ reaper = "idle"
  /\ got' = [from |-> rbuf.seg, for |-> readPos.seg]
  /\ readPos' = Normal([readPos EXCEPT !.off = @ + 1])
  /\ reader' = "idle"
  /\ UNCHANGED <<segs, cursor, rd, rdSeq, rbuf, open, opened, reaper, fatal>>

-----------------------------------------------------------------------------
(* The batcher: Ack, reapLocked *)

Doomed == {s \in segs : s < cursor.seg}

\* Some frames the reader has delivered are confirmed; mu is taken if segments
\* are to be removed.
Ack ==
  /\ reaper = "idle"
  /\ \E s \in 1 .. readPos.seg, n \in 0 .. Frames :
       LET p == [seg |-> s, off |-> n] IN
       /\ Before(cursor, p) /\ ~Before(readPos, p)
       /\ cursor' = Normal(p)
  /\ reaper' = IF \E s \in segs : s < cursor'.seg THEN "check" ELSE "idle"
  /\ UNCHANGED <<segs, readPos, rd, rdSeq, rbuf, open, opened, reader, got, fatal>>

\* Is the reader's handle that of the segment to be removed?
ReapChecks ==
  /\ reaper = "check"
  /\ reaper' = IF rdSeq = Min(Doomed) /\ rd # 0 THEN "close" ELSE "remove"
  /\ UNCHANGED <<segs, readPos, cursor, rd, rdSeq, rbuf, open, opened, reader, got, fatal>>

ReapCloses ==
  /\ reaper = "close"
  /\ open' = {x \in open : x.h # rd}
  /\ reaper' = "clear"
  /\ UNCHANGED <<segs, readPos, cursor, rd, rdSeq, rbuf, opened, reader, got, fatal>>

\* rd = nil
ReapClears ==
  /\ reaper = "clear"
  /\ rd' = 0
  /\ reaper' = "remove"
  /\ UNCHANGED <<segs, readPos, cursor, rdSeq, rbuf, open, opened, reader, got, fatal>>

\* Windows does not remove a file that is open: setFatalIO.
ReapRemoves ==
  /\ reaper = "remove"
  /\ LET s == Min(Doomed) IN
       IF \E x \in open : x.seg = s
         THEN /\ fatal' = "remove"
              /\ reaper' = "idle"
              /\ UNCHANGED segs
         ELSE /\ segs' = segs \ {s}
              /\ reaper' = IF Doomed = {s} THEN "idle" ELSE "check"
              /\ UNCHANGED fatal
  /\ UNCHANGED <<readPos, cursor, rd, rdSeq, rbuf, open, opened, reader, got>>

\* The garbage collector closes a handle nothing refers to.
Collected ==
  /\ \E x \in open : x.h # rd /\ open' = open \ {x}
  /\ UNCHANGED <<segs, readPos, cursor, rd, rdSeq, rbuf, opened, reader, reaper, got, fatal>>

-----------------------------------------------------------------------------
HandleInit ==
  /\ segs = 1 .. Segments
  /\ readPos = [seg |-> 1, off |-> 0] /\ cursor = [seg |-> 1, off |-> 0]
  /\ rd = 0 /\ rdSeq = 0 /\ rbuf = Nothing
  /\ open = {} /\ opened = 0
  /\ reader = "idle" /\ reaper = "idle"
  /\ got = [from |-> 0, for |-> 0]
  /\ fatal = "no"

Reader == ReadStarts \/ Check \/ CloseOld \/ OpenNew \/ SetSeq \/ Fill \/ FillFails \/ Deliver
Batcher == Ack \/ ReapChecks \/ ReapCloses \/ ReapClears \/ ReapRemoves

HandleNext == Reader \/ Batcher \/ Collected

HandleSpec == HandleInit /\ [][HandleNext]_handleVars

-----------------------------------------------------------------------------
(* Properties *)

Position == [seg : 1 .. Segments, off : 0 .. Frames]

HandleTypes ==
  /\ segs \subseteq 1 .. Segments
  /\ readPos \in Position /\ cursor \in Position
  /\ opened \in Nat /\ rd \in 0 .. opened /\ rdSeq \in 0 .. Segments
  /\ rbuf \in [seg : 0 .. Segments, upto : 0 .. Frames]
  /\ open \subseteq [h : 1 .. opened, seg : 1 .. Segments]
  /\ reader \in {"idle", "check", "close", "open", "seq", "read"}
  /\ reaper \in {"idle", "check", "close", "clear", "remove"}
  /\ got \in [from : 0 .. Segments, for : 0 .. Segments]
  /\ fatal \in {"no", "read", "remove"}

\* Whatever the reaper does to the handle meanwhile, the reader never takes a
\* frame of one segment for a frame of another.
RightSegment == got.from = got.for

\* The disk is sound, so the buffer never stops: "all methods are safe for
\* concurrent use", and rd and rbuf belong to the reader (wal.go).
NoSpuriousFatal == fatal = "no"
==============================================================================
