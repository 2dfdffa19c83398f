------------------------------- MODULE Assembler -------------------------------
(***************************************************************************)
(* Events put together from a file that is still written                   *)
(* (follow/assemble.go): the bytes come in reads of any size, a line is    *)
(* looked at once it is complete, the last event is closed by a timeout    *)
(* (idleEmit) or by the stop (drain), and a restart goes on at the end of  *)
(* an event whose rows were confirmed.                                     *)
(*                                                                         *)
(* pending is kept as the offsets it spans, baseOff .. readOff.  Each pass *)
(* of scan's loop is a step: emit may block, and the agent may die there.  *)
(***************************************************************************)
EXTENDS Events

CONSTANTS
  Reads,       \* sizes of a read
  MaxRestarts  \* bound: restarts

ASSUME AssemblerBounds == Reads \subseteq Nat \ {0} /\ MaxRestarts \in Nat

VARIABLES
  baseOff, readOff, lineAt, inEvent, bomDone,  \* assembler
  scanning,  \* inside scan
  stopped,   \* drained
  resumed,   \* the checkpoint this process started from
  restarts,
  emitted    \* history: what emit was called with

asmVars ==
  <<baseOff, readOff, lineAt, inEvent, bomDone, scanning, stopped, resumed, restarts, emitted>>

AsmInit ==
  /\ baseOff = 0 /\ readOff = 0 /\ lineAt = 0 /\ inEvent = FALSE /\ bomDone = FALSE
  /\ scanning = FALSE /\ stopped = FALSE /\ resumed = 0 /\ restarts = 0 /\ emitted = {}

-----------------------------------------------------------------------------
\* emit(pending[:n], baseOff + n); atStart: closed by the mask of the next event.
Emit(n, atStart) ==
  emitted' = emitted \cup
    {[from |-> baseOff, to |-> baseOff + n, atStart |-> atStart, run |-> restarts]}

\* Mutant of Read: the mark is looked for in what the first read brought.
ReadHasty(n) ==
  /\ ~scanning /\ ~stopped /\ readOff + n <= Len(file)
  /\ readOff' = readOff + n
  /\ bomDone' = TRUE /\ scanning' = TRUE
  /\ baseOff' = IF ~bomDone /\ HasMark(readOff') THEN 3 ELSE baseOff
  /\ UNCHANGED <<lineAt, inEvent, stopped, resumed, restarts, emitted>>

\* append: a read of n bytes.  At the start of a file the scan waits for three of them.
Read(n) ==
  /\ ~scanning /\ ~stopped /\ readOff + n <= Len(file)
  /\ readOff' = readOff + n
  /\ IF bomDone \/ baseOff # 0 \/ readOff' >= 3
       THEN /\ bomDone' = TRUE /\ scanning' = TRUE
            /\ baseOff' = IF ~bomDone /\ baseOff = 0 /\ HasMark(readOff') THEN 3 ELSE baseOff
       ELSE UNCHANGED <<bomDone, scanning, baseOff>>
  /\ UNCHANGED <<lineAt, inEvent, stopped, resumed, restarts, emitted>>

\* The ends of the lines of pending that the scan has not passed.
Ahead == {end \in baseOff + lineAt + 1 .. readOff : Byte(end - 1) = "nl"}

NextLine(end) == end \in Ahead /\ \A other \in Ahead : end <= other

\* scan, outside of an event: a line begins one, or is dropped.
ScanOutside ==
  /\ scanning /\ ~inEvent
  /\ \E end \in Ahead :
       /\ NextLine(end)
       /\ IF IsEventStart(baseOff, readOff)
            THEN inEvent' = TRUE /\ lineAt' = end - baseOff /\ baseOff' = baseOff
            ELSE baseOff' = end /\ UNCHANGED <<inEvent, lineAt>>
  /\ UNCHANGED <<readOff, bomDone, scanning, stopped, resumed, restarts, emitted>>

\* scan, inside an event: a line goes on with it, or closes it and begins the next.
ScanInside ==
  /\ scanning /\ inEvent
  /\ \E end \in Ahead :
       /\ NextLine(end)
       /\ IF lineAt > 0 /\ IsEventStart(baseOff + lineAt, readOff)
            THEN /\ Emit(lineAt, TRUE)
                 /\ baseOff' = baseOff + lineAt /\ lineAt' = end - (baseOff + lineAt)
            ELSE lineAt' = end - baseOff /\ UNCHANGED <<baseOff, emitted>>
  /\ UNCHANGED <<readOff, inEvent, bomDone, scanning, stopped, resumed, restarts>>

\* No complete line is left.
ScanEnds ==
  /\ scanning /\ Ahead = {}
  /\ scanning' = FALSE
  /\ UNCHANGED <<baseOff, readOff, lineAt, inEvent, bomDone, stopped, resumed, restarts, emitted>>

\* Mutant of IdleEmit: a line that is not complete is let through.
IdleEmitAny ==
  /\ ~scanning /\ ~stopped /\ inEvent /\ baseOff < readOff
  /\ Emit(readOff - baseOff, FALSE)
  /\ baseOff' = readOff /\ lineAt' = 0 /\ inEvent' = FALSE
  /\ UNCHANGED <<readOff, bomDone, scanning, stopped, resumed, restarts>>

\* idleEmit: nothing new came for a while and pending ends with a line.
IdleEmit ==
  /\ ~scanning /\ ~stopped
  /\ inEvent /\ baseOff < readOff /\ baseOff + lineAt = readOff
  /\ Emit(lineAt, FALSE)
  /\ baseOff' = readOff /\ lineAt' = 0 /\ inEvent' = FALSE
  /\ UNCHANGED <<readOff, bomDone, scanning, stopped, resumed, restarts>>

\* drain: the stop gives out the lines that are complete.
Drain ==
  /\ ~scanning /\ ~stopped /\ stopped' = TRUE
  /\ IF inEvent /\ lineAt # 0
       THEN /\ Emit(lineAt, FALSE)
            /\ baseOff' = baseOff + lineAt /\ lineAt' = 0 /\ inEvent' = FALSE
       ELSE UNCHANGED <<emitted, baseOff, lineAt, inEvent>>
  /\ UNCHANGED <<readOff, bomDone, scanning, resumed, restarts>>

\* resumeAt, after a stop or a crash: at a checkpoint, the end of an event this
\* process emitted, or the one it started from.
Restart ==
  /\ restarts < MaxRestarts /\ restarts' = restarts + 1
  /\ \E off \in {resumed} \cup {ev.to : ev \in {e \in emitted : e.run = restarts}} :
       /\ baseOff' = off /\ readOff' = off /\ resumed' = off
       /\ bomDone' = (off # 0)
  /\ lineAt' = 0 /\ inEvent' = FALSE
  /\ scanning' = FALSE /\ stopped' = FALSE
  /\ UNCHANGED emitted

AsmNext ==
  \/ \E n \in Reads : Read(n)
  \/ ScanOutside \/ ScanInside \/ ScanEnds
  \/ IdleEmit \/ Drain \/ Restart

AsmSpec == file \in Files /\ AsmInit /\ [][AsmNext /\ UNCHANGED file]_<<file, asmVars>>

-----------------------------------------------------------------------------
(* Properties *)

\* What is emitted is an event of the file: it begins where one does, spans no
\* other, ends with a line, and is shorter than the event of the file only if
\* the timeout or the stop closed it (assemble.go: the cutting is the same as
\* that of the batch scanner; an unfinished line is never emitted).
EmittedAreEvents ==
  \A ev \in emitted :
    /\ ev.from \in EventStarts /\ ev.to \in LineStarts /\ ev.from < ev.to
    /\ \A off \in EventStarts : ~(ev.from < off /\ off < ev.to)
    /\ ev.atStart => ev.to \in EventStarts

\* No event is passed over: the bytes the assembler has left behind, in this
\* process or by the checkpoint it started from, hold no event that was not
\* emitted, whatever the reads were cut into; only what follows an event closed
\* too early is dropped.
NoEventMissed ==
  \A off \in EventStarts : off < baseOff => \E ev \in emitted : ev.from = off
==============================================================================
