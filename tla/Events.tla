-------------------------------- MODULE Events --------------------------------
(***************************************************************************)
(* A log file and its events, as parser.SplitEvents cuts it: the reference *)
(* for the two that see the file in pieces, the assembler of follow mode   *)
(* (Assembler) and the windowed scanner of batch mode (Scanner).           *)
(*                                                                         *)
(* A byte is one of a few letters: "m" stands for the fixed part of the    *)
(* mask with the first digit of the duration, mm:ss.ffffff-D; "d" is a     *)
(* further digit of the duration; the mask ends with its comma.            *)
(***************************************************************************)
EXTENDS Integers, Sequences

CONSTANT Files  \* the files the runs look at

Mark == <<"EF", "BB", "BF">>  \* the UTF-8 byte order mark
Bytes == {"EF", "BB", "BF", "m", "d", ",", "nl", "x"}

ASSUME FilesAreBytes == Files \subseteq Seq(Bytes)

VARIABLE file

Byte(off) == file[off + 1]

\* Does b begin with the mask?  The bytes of file from off up to end.
IsEventStart(off, end) ==
  \E k \in off + 1 .. end - 1 :
    /\ Byte(off) = "m" /\ Byte(k) = ","
    /\ \A j \in off + 1 .. k - 1 : Byte(j) = "d"

HasMark(end) == end >= 3 /\ \A i \in 1 .. 3 : file[i] = Mark[i]

-----------------------------------------------------------------------------
(* SplitEvents *)

\* Where the text begins.
Origin == IF HasMark(Len(file)) THEN 3 ELSE 0

\* Offsets at which a line begins, the end of a file that ends with a line included.
LineStarts == {off \in Origin .. Len(file) : off = Origin \/ Byte(off - 1) = "nl"}

EventStarts == {off \in LineStarts : off < Len(file) /\ IsEventStart(off, Len(file))}

\* An event runs to the next one, or to the end of the file.
SplitEvents ==
  {ev \in [from : EventStarts, to : EventStarts \cup {Len(file)}] :
     /\ ev.from < ev.to
     /\ \A off \in EventStarts : ~(ev.from < off /\ off < ev.to)}
==============================================================================
