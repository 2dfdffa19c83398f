------------------------------ MODULE MCBatchMode ------------------------------
(* Batch mode for TLC: a file larger than the budget, files that fit into it one by one
   but not together, one that is too small to be a log, and a directory that cannot be
   read. *)
EXTENDS BatchMode

File(kind_, size, pieces) == [kind |-> kind_, size |-> size, pieces |-> pieces]

MCWalks == {
  <<File("log", 2, 1), File("log", 5, 2), File("other", 0, 0), File("log", 3, 2)>>,
  <<File("log", 3, 1), File("broken", 0, 0), File("log", 3, 2)>>,
  <<File("log", 0, 1)>>,
  <<File("broken", 0, 0), File("log", 0, 0)>>}

MCSlotCap == [s \in 1..5 |-> IF s > 3 THEN 1 ELSE s - 1]
==============================================================================
