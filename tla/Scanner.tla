-------------------------------- MODULE Scanner --------------------------------
(***************************************************************************)
(* The events of a file read through a window (parser/stream.go,           *)
(* scanEvents): batch mode reads chunks into a buffer that always holds    *)
(* the whole of the current event, and looks for a mask only where a guard *)
(* zone of bytes, or the end of the file, follows.                         *)
(*                                                                         *)
(* buf is kept as the offsets it spans, bufFrom .. bufTo; scan and evStart *)
(* are offsets in the file.                                                *)
(***************************************************************************)
EXTENDS Events

CONSTANTS
  ReadChunk, GuardZone,
  Pooled  \* capacities the buffer may come with from the file before

\* The guard zone is longer than any mask, and a chunk holds a byte order mark.
ASSUME ScannerBounds ==
  /\ ReadChunk \in Nat /\ ReadChunk >= 3 /\ GuardZone \in Nat \ {0}
  /\ Pooled \subseteq Nat /\ Pooled # {}
  /\ \A f \in Files : \A i, j \in DOMAIN f :
       f[i] = "m" /\ f[j] = "," /\ i < j /\ (\A k \in i + 1 .. j - 1 : f[k] = "d")
         => j - i < GuardZone

VARIABLES
  phase,  \* "opened", "loop", "done", or "error": a read failed
  bufFrom, bufTo, room,    \* buf and its capacity
  scan, evStart, inside,   \* inside: an event has begun
  atEOF,
  cutOut  \* history: what emit was called with

scnVars == <<phase, bufFrom, bufTo, room, scan, evStart, inside, atEOF, cutOut>>

ScnInit ==
  /\ phase = "opened" /\ bufFrom = 0 /\ bufTo = 0
  /\ room \in {IF c < ReadChunk + GuardZone THEN ReadChunk + GuardZone ELSE c : c \in Pooled}
  /\ scan = 0 /\ evStart = 0 /\ inside = FALSE /\ atEOF = FALSE /\ cutOut = <<>>

-----------------------------------------------------------------------------
\* refill: up to the capacity; the end of the file is seen only by a read that
\* finds nothing more.
Refill ==
  IF bufFrom' + room' > Len(file)
    THEN bufTo' = Len(file) /\ atEOF' = TRUE
    ELSE bufTo' = bufFrom' + room' /\ atEOF' = FALSE

\* Up to the loop: the first window, the byte order mark, the first line.
Open ==
  /\ phase = "opened" /\ phase' = "loop"
  /\ UNCHANGED <<bufFrom, room>> /\ Refill
  /\ LET begin == IF HasMark(bufTo') THEN 3 ELSE 0 IN
     /\ scan' = begin /\ evStart' = begin
     /\ inside' = IsEventStart(begin, bufTo')
  /\ UNCHANGED cutOut

\* Mutant of SafeEnd: no guard zone.
UnguardedEnd == bufTo

\* Up to here a line can be decided.
SafeEnd == IF atEOF THEN bufTo ELSE bufTo - GuardZone

Newlines == {off \in scan .. SafeEnd - 1 : Byte(off) = "nl"}

\* A line ends in the safe part of the window; does the next one begin an event?
NextLineInWindow ==
  /\ phase = "loop"
  /\ \E off \in Newlines :
       /\ \A other \in Newlines : off <= other
       /\ scan' = off + 1
       /\ IF off + 1 < bufTo /\ IsEventStart(off + 1, bufTo)
            THEN /\ cutOut' = IF inside THEN Append(cutOut, [from |-> evStart, to |-> off + 1])
                              ELSE cutOut
                 /\ inside' = TRUE /\ evStart' = off + 1
            ELSE UNCHANGED <<cutOut, inside, evStart>>
  /\ UNCHANGED <<phase, bufFrom, bufTo, room, atEOF>>

\* advance: drop what is before the event, grow if a chunk does not fit, refill.
Advance ==
  /\ phase = "loop" /\ ~atEOF /\ Newlines = {}
  /\ scan' = IF scan < SafeEnd THEN SafeEnd ELSE scan
  /\ bufFrom' = evStart
  /\ LET held == bufTo - evStart IN
     room' = IF room - held >= ReadChunk THEN room
             ELSE IF 2 * room < held + ReadChunk + GuardZone THEN held + ReadChunk + GuardZone
             ELSE 2 * room
  /\ Refill
  /\ UNCHANGED <<phase, evStart, inside, cutOut>>

\* The end of the file closes the last event.
Close ==
  /\ phase = "loop" /\ atEOF /\ Newlines = {}
  /\ phase' = "done"
  /\ cutOut' = IF inside /\ evStart < bufTo
                 THEN Append(cutOut, [from |-> evStart, to |-> bufTo]) ELSE cutOut
  /\ UNCHANGED <<bufFrom, bufTo, room, scan, evStart, inside, atEOF>>

\* A read fails: scanEvents returns, what was given out stays given out.
ReadFails ==
  /\ phase = "opened" \/ (phase = "loop" /\ ~atEOF /\ Newlines = {})
  /\ phase' = "error"
  /\ UNCHANGED <<bufFrom, bufTo, room, scan, evStart, inside, atEOF, cutOut>>

ScnNext == Open \/ NextLineInWindow \/ Advance \/ Close \/ ReadFails

ScnSpec == file \in Files /\ ScnInit /\ [][ScnNext /\ UNCHANGED file]_<<file, scnVars>>

-----------------------------------------------------------------------------
(* Properties *)

\* The window cuts the file exactly as SplitEvents does (stream.go: byte for byte
\* the same): the events come out in order and none is left out, all of them
\* once the file is at its end, and those given out before a read failed are the
\* first ones of the file.
ScanIsSplit ==
  /\ \A i \in DOMAIN cutOut : cutOut[i] \in SplitEvents
  /\ \A i \in DOMAIN cutOut : i > 1 => cutOut[i].from = cutOut[i - 1].to
  /\ cutOut # <<>> => \A off \in EventStarts : cutOut[1].from <= off
  /\ phase = "done" => \A ev \in SplitEvents : \E i \in DOMAIN cutOut : cutOut[i] = ev
==============================================================================
