------------------------------ MODULE BatchFiles ------------------------------
(***************************************************************************)
(* What batch mode works on (cmd/tj-agent-go/main.go): the log files below *)
(* the input directory, the largest first.                                 *)
(***************************************************************************)
EXTENDS Integers, Sequences, FiniteSets, FiniteSetsExt

CONSTANTS
  Walks,       \* what the directory walk may meet, in its order
  MinFileSize,
  Workers

\* An entry of a walk: a regular *.log file with its size and the number of pieces it
\* gives (chunks of NDJSON, rows), another kind of entry, or one that cannot be read.
Entry == [kind : {"log", "other", "broken"}, size : Nat, pieces : Nat]

ASSUME BatchFilesBounds ==
  /\ MinFileSize \in Nat /\ IsFiniteSet(Workers) /\ Workers # {}
  /\ Walks \subseteq Seq(Entry)

VARIABLES
  files,   \* findLogFiles
  failed,  \* stats.failed > 0
  exit     \* the exit code, or -1

fileVars == <<files, failed, exit>>

\* The larger of two files first, of two alike the one met first.
Before(walk, i, j) == walk[i].size > walk[j].size \/ (walk[i].size = walk[j].size /\ i < j)

FindLogFiles(walk) ==
  LET logs == {i \in DOMAIN walk : walk[i].kind = "log" /\ walk[i].size >= MinFileSize}
      Place(i) == Cardinality({j \in logs : Before(walk, j, i)}) + 1
  IN [k \in 1 .. Cardinality(logs) |-> walk[CHOOSE i \in logs : Place(i) = k]]

\* The exit code of a run that went through: some file could not be read, or none.
ReadCode == IF failed THEN 2 ELSE 0

\* With no file the run is over at once; no worker is started.
FilesInit ==
  \E walk \in Walks :
    /\ files = FindLogFiles(walk)
    /\ failed = \E i \in DOMAIN walk : walk[i].kind = "broken"
    /\ exit = IF files = <<>> THEN ReadCode ELSE -1

Started(place) == [w \in Workers |-> IF files = <<>> THEN "gone" ELSE place]
==============================================================================
