-------------------------------- MODULE Parsing --------------------------------
(***************************************************************************)
(* The agent's way from the bytes of a log file to rows, part by part: the *)
(* assembler of follow mode and the window of batch mode over the same     *)
(* files, the table that notices repeated names, the two ways from an      *)
(* event to a row, and the norm of its SQL.  The parts share no state; a   *)
(* behaviour is one of them.                                               *)
(***************************************************************************)
EXTENDS Assembler, Scanner, NameTable, Rows, SqlNorm

VARIABLE part

parsingVars == <<part, file, asmVars, scnVars, tableVars, rowVars, sqlVars>>

\* The parts a behaviour is not about stay at one initial state.
Idle ==
  /\ part \notin {"assembler", "window"} => file = CHOOSE f \in Files : TRUE
  /\ part # "window" => room = ReadChunk + GuardZone
  /\ part # "rows" => rich = FALSE

ParsingInit ==
  /\ part \in {"assembler", "window", "names", "rows", "sql"}
  /\ file \in Files
  /\ AsmInit /\ ScnInit /\ TableInit /\ RowsInit /\ SqlInit
  /\ Idle

ParsingNext ==
  /\ \/ part = "assembler" /\ AsmNext /\ UNCHANGED <<scnVars, tableVars, rowVars, sqlVars>>
     \/ part = "window" /\ ScnNext /\ UNCHANGED <<asmVars, tableVars, rowVars, sqlVars>>
     \/ part = "names" /\ TableNext /\ UNCHANGED <<asmVars, scnVars, rowVars, sqlVars>>
     \/ part = "rows" /\ RowsNext /\ UNCHANGED <<asmVars, scnVars, tableVars, sqlVars>>
     \/ part = "sql" /\ SqlNext /\ UNCHANGED <<asmVars, scnVars, tableVars, rowVars>>
  /\ UNCHANGED <<part, file>>

ParsingSpec == ParsingInit /\ [][ParsingNext]_parsingVars
==============================================================================
