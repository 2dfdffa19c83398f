------------------------------- MODULE BatchMode -------------------------------
(***************************************************************************)
(* A run of the agent in batch mode (main.go, run): the files are found,   *)
(* and go to a file (Admission) or into ClickHouse (BatchSink).            *)
(***************************************************************************)
EXTENDS Admission, BatchSink

VARIABLE kind  \* "file" or "clickhouse": config.chDSN

vars == <<kind, fileVars, admVars, bsVars>>

BatchInit == kind \in {"file", "clickhouse"} /\ FilesInit /\ AdmInit /\ BsInit

ToFile == kind = "file" /\ AdmNext /\ UNCHANGED <<kind, bsVars>>
ToClickHouse == kind = "clickhouse" /\ BsNext /\ UNCHANGED <<kind, admVars>>
BatchNext == ToFile \/ ToClickHouse

\* Goroutines run.  An insert ends, for the client reads its answer under a deadline
\* (chReadTimeout); how it ends is open.
BatchFairness ==
  /\ \A w \in Workers :
       /\ WF_vars(kind = "file" /\ Worker(w) /\ UNCHANGED <<kind, bsVars>>)
       /\ WF_vars(kind = "clickhouse" /\ ChWorker(w) /\ UNCHANGED <<kind, admVars>>)
  /\ WF_vars(kind = "file" /\ Writer /\ UNCHANGED <<kind, bsVars>>)
  /\ WF_vars(kind = "clickhouse" /\ Batcher /\ UNCHANGED <<kind, admVars>>)
  /\ WF_vars(kind = "clickhouse" /\ (CloseIn \/ FinishSink) /\ UNCHANGED <<kind, admVars>>)
  /\ \A s \in Senders :
       WF_vars(kind = "clickhouse" /\ Sender(s) /\ UNCHANGED <<kind, admVars>>)

BatchSpec == BatchInit /\ [][BatchNext]_vars /\ BatchFairness

-----------------------------------------------------------------------------
(* Properties *)

\* Exit 0 says that everything arrived: each chunk in the file, each row in the table
\* (main.go: exit 1 after a failed write or insert, 2 when a file could not be read).
ExitIsTrue == exit = 0 => IF kind = "file" THEN AllWritten ELSE AllInserted

\* A run ends, whatever fails: nobody waits for ever on the budget, a channel, a buffer
\* of the ring or a sender (main.go: no deadlock is possible; sink.go: Fatal stops them).
Ends == <>(exit # -1)
==============================================================================
