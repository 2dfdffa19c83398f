-------------------------------- MODULE WalInv --------------------------------
(***************************************************************************)
(* The inductive invariant of Wal: what the segments, the two cursors, the *)
(* goroutines and the frames have in common in every reachable state.      *)
(***************************************************************************)
EXTENDS Wal

\* Segments are numbered without gaps and follow one another in the log; only
\* the last may be open, and a closed one is fsynced to its end.
Layout ==
  /\ 0 \notin Seqs
  /\ \A s, t \in Seqs : \A n \in s .. t : n \in Seqs
  /\ \A s \in Seqs :
       /\ segs[s].durable <= segs[s].size
       /\ segs[s].closed => segs[s].durable = segs[s].size
       /\ s + 1 \in Seqs => segs[s].closed /\ HiOf(segs[s]) = segs[s + 1].lo
       /\ s + 1 \notin Seqs => HiOf(segs[s]) = tail
  /\ \A s, t \in Seqs : s < t => HiOf(segs[s]) <= segs[t].lo

\* A running process gives the next segment the next number.
Numbered ==
  up => /\ nextSeq >= 1
        /\ \A s \in Seqs : s < nextSeq
        /\ Seqs # {} => nextSeq - 1 \in Seqs

\* Everything before position c is confirmed.
Passed(c) ==
  /\ \A s \in Seqs : s < c.seg => segs[s].closed /\ HiOf(segs[s]) <= acked
  /\ c.seg \in Seqs => segs[c.seg].lo + c.off <= acked

\* c is in a segment, or at the beginning of the next one, or behind them.
NotAhead(c) == c.seg <= nextSeq /\ (c.seg = nextSeq => c.off = 0)

\* Everything before the first segment and before both cursors is confirmed.
Marks ==
  /\ Seqs = {} => tail <= acked
  /\ \A s \in Seqs : s - 1 \notin Seqs => segs[s].lo <= acked
  /\ Passed(diskCursor)
  /\ up => /\ Passed(cursor)
           /\ NotAhead(cursor) /\ NotAhead(diskCursor)
  /\ ~up /\ Seqs # {} =>
       \E s \in Seqs : /\ s + 1 \notin Seqs
                       /\ diskCursor.seg <= s + 1
                       /\ diskCursor.seg = s + 1 => diskCursor.off = 0

\* What the goroutines hold agrees with the segments.
InMemory ==
  /\ ~up => pending = {} /\ inflight = {} /\ ~reader.busy /\ ~reaping
  /\ \A e \in pending :
       \E s \in Seqs : /\ ~segs[s].closed
                       /\ segs[s].lo + segs[s].durable < e /\ e <= HiOf(segs[s])
  /\ \A x \in inflight : Before(cursor, x.pos) =>
       /\ x.pos.seg \in Seqs
       /\ x.end = segs[x.pos.seg].lo + x.pos.off
       /\ x.pos.off <= segs[x.pos.seg].durable
  /\ reader.busy => /\ reader.seg < nextSeq
                    /\ reader.seg \in Seqs => reader.limit <= segs[reader.seg].durable
  /\ reaping => Doomed(segs, cursor) # {}

\* A frame ends after k bytes of segment s, or nothing is before them.
Boundary(s, k) ==
  k = 0 \/ \E f \in frames : segs[s].lo <= f.lo /\ f.hi = segs[s].lo + k

\* The fsynced part of a segment is made of whole frames, and in a running
\* process the whole segment is.
Framed ==
  /\ \A f \in frames : f.lo < f.hi
  /\ \A s \in Seqs : /\ Boundary(s, segs[s].durable)
                     /\ up => Boundary(s, segs[s].size)

\* NoLoss without the cursor, which Marks takes care of.
Kept ==
  \A e \in released :
    \/ e <= acked
    \/ \E s \in Seqs : segs[s].lo < e /\ e <= segs[s].lo + segs[s].durable

\* The counter is the bytes of the segments, and they are within the limit.
Sized ==
  /\ \A s \in Seqs : tail - segs[s].lo <= MaxBytes
  /\ up => /\ Seqs = {} => total = 0
           /\ \A s \in Seqs : s - 1 \notin Seqs => total = tail - segs[s].lo

\* The inductive invariant of Wal: no step of any goroutine, crash or restart
\* breaks the agreement of files, counters and cursors.
IInv ==
  /\ TypeOK /\ Layout /\ Numbered /\ Marks /\ InMemory /\ Framed /\ Kept /\ Sized

-----------------------------------------------------------------------------
(* The reader, the frames and the exact cursor *)

\* Where a frame may begin: at the beginning of the log, or where one ends.
Ends == {0} \cup {f.hi : f \in frames}

\* The frames lie end to end, and segments begin and end between two of them.
Tiled ==
  /\ \A f \in frames : f.hi <= tail
  /\ \A f \in frames : \A x \in Ends :
       x < f.hi => x <= f.lo /\ \E g \in frames : g.lo = x
  /\ \A s \in Seqs : segs[s].lo \in Ends
  /\ up \/ Seqs = {} => tail \in Ends

\* Position c is between two frames, on fsynced bytes.
OnFrame(c) ==
  c.seg \in Seqs => c.off <= segs[c.seg].durable /\ segs[c.seg].lo + c.off \in Ends

\* So are both cursors, the reader, and what the batcher may acknowledge.
Aligned ==
  /\ OnFrame(diskCursor)
  /\ up => OnFrame(cursor) /\ OnFrame(readPos)
  /\ \A x \in inflight : OnFrame(x.pos)

\* Position c stands for byte x of the log, also when its segment was deleted or
\* does not exist yet.
At(c, x) ==
  /\ \A s \in Seqs : s < c.seg => segs[s].closed
  /\ c.seg \in Seqs => segs[c.seg].lo + c.off = x
  /\ (\A s \in Seqs : s < c.seg) => x = tail
  /\ \A s \in Seqs : c.seg < s /\ s - 1 \notin Seqs => segs[s].lo = x

\* The reader has passed position c.
Behind(c) ==
  /\ \A s \in Seqs : s < c.seg => HiOf(segs[s]) <= handed
  /\ c.seg \in Seqs => segs[c.seg].lo + c.off <= handed

\* The reader stands where the last frame handed over ended; a read without mu
\* stays on a live segment; the cursors and the batches are behind it.
Standing ==
  up => /\ At(readPos, handed) /\ NotAhead(readPos)
        /\ reader.busy => /\ reader.seg = readPos.seg /\ reader.off = readPos.off
                          /\ reader.seg \in Seqs /\ reader.off < reader.limit
                          /\ segs[reader.seg].lo + reader.limit \in Ends
        /\ \A x \in inflight : x.end <= handed /\ x.pos.seg < nextSeq
        /\ diskCursor.seg <= cursor.seg /\ Behind(cursor)

\* Both cursors stand exactly where ClickHouse stopped confirming.
Exact ==
  ~CursorMayBreak =>
    /\ At(diskCursor, acked)
    /\ up => /\ At(cursor, acked)
             /\ \A x \in inflight : Before(cursor, x.pos) \/ x.end <= acked

\* What is confirmed was fsynced.
AckedIsSafe ==
  /\ Seqs = {} => acked <= tail
  /\ \A s \in Seqs : s + 1 \notin Seqs => acked <= segs[s].lo + segs[s].durable

\* Unless the agent failed, a segment does not outlive the reap that should
\* remove it, and after the last sync nothing is open or fully confirmed.
Swept ==
  /\ ~up => ~closed
  /\ up /\ ~fatal =>
       /\ ~reaping => Doomed(segs, cursor) = {}
       /\ closed => /\ \A s \in Seqs : segs[s].closed
                    /\ cursor.seg \in Seqs =>
                         cursor.off < segs[cursor.seg].size \/ segs[cursor.seg].size = 0

\* The inductive invariant with the reader's part.
WInv == IInv /\ Tiled /\ Aligned /\ Standing /\ Exact /\ AckedIsSafe /\ Swept

==============================================================================
