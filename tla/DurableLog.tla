----------------------------- MODULE DurableLog -----------------------------
(***************************************************************************)
(* What the disk buffer promises to follow mode (agents/go/README.md, and  *)
(* the header of wal.go), without segments, files or locks: a log of bytes *)
(* of which a suffix may be lost in a crash and a prefix is discarded.     *)
(*                                                                         *)
(*    0 ---- kept ---- acked ---- handed ---- safe ---- tail               *)
(*                                                                         *)
(* ckpt is how far the TJ checkpoints have moved.  Wal implements this.    *)
(***************************************************************************)
EXTENDS Integers

VARIABLES
  up,      \* is the process running?
  kept,    \* nothing before it is on the disk any more
  acked,   \* confirmed by ClickHouse
  handed,  \* handed to the batcher in this run
  safe,    \* survives a crash
  tail,    \* written
  ckpt     \* the TJ journals are not read again before it

vars == <<up, kept, acked, handed, safe, tail, ckpt>>

Init ==
  /\ up = TRUE
  /\ kept = 0 /\ acked = 0 /\ handed = 0 /\ safe = 0 /\ tail = 0 /\ ckpt = 0

\* Only what is confirmed, and read, may be discarded.
Discards ==
  /\ kept' >= kept
  /\ kept' <= acked' /\ (kept' <= handed)
  /\ kept' \in Nat

\* Frames are written, or what is written becomes safe, or both; checkpoints
\* follow what is safe.
Extend ==
  /\ up /\ up'
  /\ tail' \in Nat /\ tail <= tail'
  /\ safe' \in {safe, tail}
  /\ ckpt' \in ckpt .. safe'
  /\ Discards
  /\ UNCHANGED <<acked, handed>>

\* The next safe bytes go to the batcher.
Deliver ==
  /\ up /\ up'
  /\ handed' \in handed .. safe
  /\ UNCHANGED <<kept, acked, safe, tail, ckpt>>

\* A batch is confirmed.
Confirm ==
  /\ up /\ up'
  /\ acked' \in acked .. (IF handed < acked THEN acked ELSE handed)
  /\ Discards
  /\ UNCHANGED <<handed, safe, tail, ckpt>>

\* A stop or a crash: what is safe stays, a torn byte may be left behind it.
Halt ==
  /\ up /\ up' = FALSE
  /\ tail' \in safe .. tail + 1
  /\ kept' \in 0 .. (IF handed < acked THEN handed ELSE acked)
  /\ UNCHANGED <<acked, handed, safe, ckpt>>

\* A restart resumes at or before what is confirmed, with all that survived.
Resume ==
  /\ ~up /\ up' = TRUE
  /\ tail' \in safe .. tail
  /\ safe' = tail'
  /\ kept' \in 0 .. acked
  /\ handed' \in kept' .. acked
  /\ UNCHANGED <<acked, ckpt>>

Next == Extend \/ Deliver \/ Confirm \/ Halt \/ Resume

Spec == Init /\ [][Next]_vars

\* The order of the marks: every checkpointed byte is confirmed or still on the
\* disk, on its safe part, and the reader stands where nothing is missing.
Promise ==
  /\ up \in BOOLEAN
  /\ {kept, acked, handed, safe, tail, ckpt} \subseteq Nat
  /\ kept <= acked /\ acked <= safe /\ safe <= tail
  /\ kept <= handed /\ handed <= safe
  /\ ckpt <= safe
==============================================================================
