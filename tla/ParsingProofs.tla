---------------------------- MODULE ParsingProofs ----------------------------
(***************************************************************************)
(* Proofs for the parts of Parsing.  The assembler of follow mode          *)
(* (Assembler) and the window of batch mode (Scanner) give the events of   *)
(* SplitEvents, and the table of names (NameTable) misses no repeated      *)
(* name, for every file, size of a read, guard zone and table.  The line   *)
(* of an event has all of its values under their names, the row made of    *)
(* the line is the row made of the event, and loses none of them (Rows),   *)
(* for every event.                                                        *)
(***************************************************************************)
EXTENDS Assembler, Scanner, NameTable, Rows, DataFacts

-----------------------------------------------------------------------------
(* The file *)

\* A line that is complete shows whether it begins an event.
LEMMA LineTells ==
  ASSUME NEW off \in Nat, NEW end \in Nat, NEW last \in Nat, end <= last,
         \E nl \in off .. end - 1 : Byte(nl) = "nl"
  PROVE  IsEventStart(off, end) <=> IsEventStart(off, last)
<1>2. ASSUME IsEventStart(off, end) PROVE IsEventStart(off, last)
  <2>1. PICK k \in off + 1 .. end - 1 :
          /\ Byte(off) = "m" /\ Byte(k) = ","
          /\ \A j \in off + 1 .. k - 1 : Byte(j) = "d"
    BY <1>2 DEF IsEventStart
  <2>2. k \in off + 1 .. last - 1
    OBVIOUS
  <2> QED BY <2>1, <2>2 DEF IsEventStart
<1>3. ASSUME IsEventStart(off, last) PROVE IsEventStart(off, end)
  <2>1. PICK nl \in off .. end - 1 : Byte(nl) = "nl"
    OBVIOUS
  <2>2. PICK k \in off + 1 .. last - 1 :
          /\ Byte(off) = "m" /\ Byte(k) = ","
          /\ \A j \in off + 1 .. k - 1 : Byte(j) = "d"
    BY <1>3 DEF IsEventStart
  <2>3. nl # off /\ nl # k /\ nl \notin off + 1 .. k - 1
    BY <2>1, <2>2
  <2>4. k \in off + 1 .. end - 1
    <3>1. nl \in Int /\ off <= nl /\ nl <= end - 1 /\ k \in Int /\ off + 1 <= k
      OBVIOUS
    <3>2. off + 1 <= nl
      BY <2>3, <3>1
    <3>3. ~(nl <= k - 1)
      BY <2>3, <3>1, <3>2
    <3>4. k <= end - 1
      BY <2>3, <3>1, <3>3
    <3> QED BY <3>1, <3>4
  <2> QED BY <2>2, <2>4 DEF IsEventStart
<1> QED BY <1>2, <1>3

-----------------------------------------------------------------------------
(* The assembler of follow mode *)

\* Where it stands.  Before the mark has been looked for nothing has happened; a line
\* begins where the scan is.
Standing ==
  /\ file \in Seq(Bytes)
  /\ baseOff \in Nat /\ readOff \in Nat /\ lineAt \in Nat
  /\ baseOff + lineAt <= readOff /\ readOff <= Len(file)
  /\ inEvent \in BOOLEAN /\ bomDone \in BOOLEAN /\ scanning \in BOOLEAN /\ restarts \in Nat
  /\ ~bomDone => baseOff = 0 /\ ~scanning /\ ~inEvent
  /\ bomDone => baseOff \in LineStarts /\ baseOff + lineAt \in LineStarts
  /\ ~inEvent => lineAt = 0

\* In an event: where it begins, and no other begins in the lines passed.
OpenEvent ==
  inEvent =>
    /\ baseOff \in EventStarts /\ lineAt > 0
    /\ \A off \in EventStarts : ~(baseOff < off /\ off < baseOff + lineAt)

\* Places to go on from are behind.
Behind ==
  /\ resumed \in LineStarts \cup {0} /\ resumed <= baseOff
  /\ \A ev \in emitted : ev.run \in Nat /\ ev.run <= restarts
  /\ \A ev \in emitted : ev.run = restarts => ev.to <= baseOff

\* The inductive invariant of Assembler.
AsmInv == Standing /\ OpenEvent /\ Behind /\ EmittedAreEvents /\ NoEventMissed

\* Offsets of lines and events.
LEMMA Starts ==
  ASSUME file \in Seq(Bytes)
  PROVE  /\ Len(file) \in Nat /\ Origin \in {0, 3}
         /\ LineStarts \in SUBSET Nat /\ \A off \in LineStarts : Origin <= off /\ off <= Len(file)
         /\ EventStarts \in SUBSET LineStarts
         /\ HasMark(Len(file)) => Origin = 3
         /\ ~HasMark(Len(file)) => Origin = 0
         /\ Origin <= Len(file) /\ Origin \in LineStarts
<1>1. Len(file) \in Nat /\ Origin \in {0, 3}
  BY DEF Origin
<1>2. Origin <= Len(file)
  BY <1>1 DEF Origin, HasMark
<1> QED BY <1>1, <1>2 DEF Origin, LineStarts, EventStarts

\* The start.
LEMMA InitAsm == file \in Files /\ AsmInit => AsmInv
<1> SUFFICES ASSUME file \in Files, AsmInit PROVE AsmInv
  OBVIOUS
<1>1. file \in Seq(Bytes) /\ Len(file) \in Nat
  BY FilesAreBytes
<1>2. Standing
  <2>1. /\ baseOff = 0 /\ readOff = 0 /\ lineAt = 0 /\ restarts = 0
        /\ inEvent = FALSE /\ bomDone = FALSE /\ scanning = FALSE
    BY DEF AsmInit
  <2>2. baseOff + lineAt <= readOff /\ readOff <= Len(file)
    BY <1>1, <2>1
  <2> QED BY <1>1, <2>1, <2>2 DEF Standing
<1>3. OpenEvent /\ Behind /\ EmittedAreEvents
  BY DEF AsmInit, OpenEvent, Behind, EmittedAreEvents
<1>4. NoEventMissed
  <2>1. \A off \in EventStarts : ~(off < 0)
    BY <1>1, Starts
  <2> QED BY <2>1 DEF AsmInit, NoEventMissed
<1> QED BY <1>2, <1>3, <1>4 DEF AsmInv

\* A read; the first one that has three bytes passes the mark.
LEMMA ReadAsm ==
  ASSUME AsmInv, UNCHANGED file, NEW n \in Reads, Read(n)
  PROVE  AsmInv'
<1>1. /\ UNCHANGED <<lineAt, inEvent, stopped, resumed, restarts, emitted>>
      /\ ~scanning /\ readOff' = readOff + n /\ readOff + n <= Len(file)
      /\ n \in Nat /\ file \in Seq(Bytes)
  BY AssemblerBounds DEF Read, AsmInv, Standing
<1>2. UNCHANGED <<LineStarts, EventStarts, Origin>>
  BY <1>1 DEF LineStarts, EventStarts, Origin, HasMark, Byte, IsEventStart
<1>3. CASE bomDone \/ baseOff # 0
  <2>1. bomDone /\ bomDone' = TRUE /\ scanning' = TRUE /\ baseOff' = baseOff
    BY <1>1, <1>3 DEF Read, AsmInv, Standing
  <2>2. Standing'
    <3>1. readOff' \in Nat /\ baseOff + lineAt <= readOff'
      BY <1>1 DEF AsmInv, Standing
    <3> QED BY <1>1, <1>2, <2>1, <3>1 DEF AsmInv, Standing
  <2> QED BY <1>1, <1>2, <2>1, <2>2 DEF AsmInv, OpenEvent, Behind, EmittedAreEvents, NoEventMissed
<1>4. CASE ~bomDone /\ baseOff = 0 /\ ~(readOff' >= 3)
  <2>1. UNCHANGED <<bomDone, scanning, baseOff>>
    BY <1>1, <1>4 DEF Read
  <2>2. Standing'
    <3>1. readOff' \in Nat /\ baseOff + lineAt <= readOff'
      BY <1>1 DEF AsmInv, Standing
    <3> QED BY <1>1, <1>2, <2>1, <3>1 DEF AsmInv, Standing
  <2> QED BY <1>1, <1>2, <2>1, <2>2 DEF AsmInv, OpenEvent, Behind, EmittedAreEvents, NoEventMissed
<1>5. CASE ~bomDone /\ baseOff = 0 /\ readOff' >= 3
  <2>1. /\ bomDone' = TRUE /\ scanning' = TRUE /\ baseOff' = IF HasMark(readOff') THEN 3 ELSE 0
        /\ ~inEvent /\ lineAt = 0
    BY <1>1, <1>5 DEF Read, AsmInv, Standing
  <2>2. baseOff' = Origin
    <3>1. HasMark(readOff') <=> HasMark(Len(file))
      BY <1>1, <1>5 DEF HasMark, AsmInv, Standing
    <3> QED BY <2>1, <3>1 DEF Origin
  <2>3. Origin \in {0, 3} /\ Origin \in LineStarts /\ \A off \in EventStarts : ~(off < Origin)
    BY <1>1, Starts
  <2>4. Standing'
    <3>1. readOff' \in Nat /\ baseOff' \in Nat /\ baseOff' + lineAt <= readOff'
      BY <1>1, <1>5, <2>1, <2>2, <2>3 DEF AsmInv, Standing
    <3>2. baseOff' + lineAt' = baseOff'
      BY <1>1, <2>1, <3>1
    <3> QED BY <1>1, <1>2, <2>1, <2>2, <2>3, <3>1, <3>2 DEF AsmInv, Standing
  <2>5. OpenEvent' /\ EmittedAreEvents'
    BY <1>1, <1>2, <2>1 DEF AsmInv, OpenEvent, EmittedAreEvents
  <2>6. Behind'
    <3>1. resumed = 0 \/ resumed <= baseOff'
      BY <1>1, <1>5, Starts DEF AsmInv, Behind
    <3>2. \A ev \in emitted : ev.run = restarts => ev.to <= baseOff'
      <4>1. \A ev \in emitted : ev.to \in Nat
        BY <1>1, Starts DEF AsmInv, EmittedAreEvents
      <4> QED BY <1>5, <2>2, <2>3, <4>1 DEF AsmInv, Behind
    <3> QED BY <1>1, <1>2, <2>2, <2>3, <3>1, <3>2 DEF AsmInv, Behind
  <2>7. NoEventMissed'
    BY <1>1, <1>2, <2>2, <2>3 DEF NoEventMissed
  <2> QED BY <2>4, <2>5, <2>6, <2>7 DEF AsmInv
<1> QED BY <1>3, <1>4, <1>5

\* The next line: no other begins before its end.
LEMMA NextLineIs ==
  ASSUME AsmInv, scanning, NEW end, NextLine(end)
  PROVE  /\ end \in LineStarts /\ end \in Nat /\ baseOff + lineAt < end /\ end <= readOff
         /\ \A off \in LineStarts : ~(baseOff + lineAt < off /\ off < end)
         /\ \A off \in baseOff + lineAt .. baseOff + lineAt :
              IsEventStart(off, readOff) <=> off \in EventStarts
<1>1. /\ file \in Seq(Bytes) /\ Len(file) \in Nat /\ bomDone /\ readOff <= Len(file)
      /\ baseOff + lineAt \in LineStarts /\ LineStarts \in SUBSET Nat /\ Origin \in Nat
      /\ Origin <= baseOff + lineAt /\ baseOff + lineAt \in Nat /\ readOff \in Nat
  BY Starts DEF AsmInv, Standing
<1>2. PICK a : a = baseOff + lineAt
  OBVIOUS
<1>3. /\ end \in a + 1 .. readOff /\ Byte(end - 1) = "nl"
      /\ \A other \in a + 1 .. readOff : Byte(other - 1) = "nl" => end <= other
  BY <1>2 DEF NextLine, Ahead
<1>4. end \in Nat /\ a < end /\ end <= readOff /\ end \in LineStarts
  BY <1>1, <1>2, <1>3 DEF LineStarts
<1>5. \A off \in LineStarts : ~(a < off /\ off < end)
  <2>1. ASSUME NEW off \in LineStarts, a < off, off < end PROVE FALSE
    <3>1. off \in Nat /\ off # Origin /\ off \in a + 1 .. readOff
      BY <1>1, <1>2, <1>4, <2>1
    <3>2. Byte(off - 1) = "nl"
      BY <3>1 DEF LineStarts
    <3> QED BY <1>3, <1>4, <2>1, <3>1, <3>2
  <2> QED BY <2>1
<1>6. IsEventStart(a, readOff) <=> a \in EventStarts
  <2>1. end - 1 \in a .. readOff - 1
    BY <1>1, <1>2, <1>4
  <2>2. IsEventStart(a, readOff) <=> IsEventStart(a, Len(file))
    BY <1>1, <1>2, <1>3, <2>1, LineTells
  <2>3. a < Len(file)
    BY <1>1, <1>2, <1>4
  <2> QED BY <1>1, <1>2, <2>2, <2>3 DEF EventStarts
<1> QED BY <1>1, <1>2, <1>4, <1>5, <1>6

\* A step that leaves the file, and with it its lines and events, alone.
LEMMA SameFile ==
  ASSUME UNCHANGED file
  PROVE  UNCHANGED <<LineStarts, EventStarts, Origin>>
BY DEF LineStarts, EventStarts, Origin, HasMark, Byte, IsEventStart

\* Outside of an event a line begins one, or is dropped.
LEMMA ScanOutsideAsm ==
  ASSUME AsmInv, UNCHANGED file, ScanOutside
  PROVE  AsmInv'
<1>1. PICK end : NextLine(end) /\ IF IsEventStart(baseOff, readOff)
                   THEN inEvent' = TRUE /\ lineAt' = end - baseOff /\ baseOff' = baseOff
                   ELSE baseOff' = end /\ UNCHANGED <<inEvent, lineAt>>
  BY DEF ScanOutside
<1>2. /\ UNCHANGED <<readOff, bomDone, scanning, stopped, resumed, restarts, emitted>>
      /\ scanning /\ ~inEvent /\ lineAt = 0 /\ bomDone /\ baseOff + lineAt = baseOff
      /\ baseOff \in Nat /\ file \in Seq(Bytes)
  BY DEF ScanOutside, AsmInv, Standing
<1>3. /\ end \in LineStarts /\ end \in Nat /\ baseOff < end /\ end <= readOff
      /\ \A off \in LineStarts : ~(baseOff < off /\ off < end)
      /\ IsEventStart(baseOff, readOff) <=> baseOff \in EventStarts
  <2>1. baseOff \in baseOff + lineAt .. baseOff + lineAt
    BY <1>2
  <2> QED BY <1>1, <1>2, <2>1, NextLineIs
<1>4. UNCHANGED <<LineStarts, EventStarts, Origin>> /\ EventStarts \in SUBSET LineStarts
      /\ LineStarts \in SUBSET Nat
  BY <1>2, SameFile, Starts
<1>5. CASE baseOff \in EventStarts
  <2>1. inEvent' = TRUE /\ lineAt' = end - baseOff /\ baseOff' = baseOff
    BY <1>1, <1>3, <1>5
  <2>2. PICK n : n = lineAt'
    OBVIOUS
  <2>3. n \in Nat /\ n > 0 /\ baseOff + n = end
    BY <1>2, <1>3, <2>1, <2>2
  <2>4. Standing'
    BY <1>2, <1>3, <1>4, <2>1, <2>2, <2>3 DEF AsmInv, Standing
  <2>5. OpenEvent'
    BY <1>3, <1>4, <1>5, <2>1, <2>2, <2>3 DEF OpenEvent
  <2>6. Behind' /\ EmittedAreEvents' /\ NoEventMissed'
    BY <1>2, <1>4, <2>1 DEF AsmInv, Behind, EmittedAreEvents, NoEventMissed
  <2> QED BY <2>4, <2>5, <2>6 DEF AsmInv
<1>6. CASE baseOff \notin EventStarts
  <2>1. baseOff' = end /\ inEvent' = inEvent /\ lineAt' = 0
    BY <1>1, <1>2, <1>3, <1>6
  <2>2. end + 0 = end
    BY <1>3
  <2>3. Standing'
    BY <1>2, <1>3, <1>4, <2>1, <2>2 DEF AsmInv, Standing
  <2>4. OpenEvent' /\ EmittedAreEvents'
    BY <1>2, <1>4, <2>1 DEF AsmInv, OpenEvent, EmittedAreEvents
  <2>5. Behind'
    <3>1. \A ev \in emitted : ev.to \in Nat
      BY <1>4 DEF AsmInv, EmittedAreEvents
    <3>2. \A n \in Nat : n <= baseOff => n <= end
      BY <1>2, <1>3
    <3>3. resumed \in Nat
      BY <1>4 DEF AsmInv, Behind
    <3> QED BY <1>2, <1>4, <2>1, <3>1, <3>2, <3>3 DEF AsmInv, Behind
  <2>6. NoEventMissed'
    <3>1. \A off \in EventStarts : off < end => off < baseOff
      BY <1>2, <1>3, <1>4, <1>6
    <3> QED BY <1>2, <1>4, <2>1, <3>1 DEF AsmInv, NoEventMissed
  <2> QED BY <2>3, <2>4, <2>5, <2>6 DEF AsmInv
<1> QED BY <1>5, <1>6

\* An event is given out, up to the lines it has.
LEMMA EmitAsm ==
  ASSUME AsmInv, inEvent, NEW atStart \in BOOLEAN, Emit(lineAt, atStart),
         atStart => baseOff + lineAt \in EventStarts, UNCHANGED <<file, restarts>>,
         NEW b, b = baseOff', b = baseOff + lineAt
  PROVE  /\ EmittedAreEvents' /\ NoEventMissed'
         /\ \A ev \in emitted' : ev.run \in Nat /\ ev.run <= restarts
         /\ \A ev \in emitted' : ev.run = restarts => ev.to <= b
<1>1. PICK new : new = [from |-> baseOff, to |-> b, atStart |-> atStart, run |-> restarts]
  OBVIOUS
<1>2. emitted' = emitted \cup {new}
  BY <1>1 DEF Emit
<1>3. new.from = baseOff /\ new.to = b /\ new.atStart = atStart /\ new.run = restarts
  BY <1>1
<1>4. /\ file \in Seq(Bytes) /\ baseOff \in Nat /\ lineAt \in Nat /\ lineAt > 0 /\ b \in Nat
      /\ baseOff < b /\ restarts \in Nat /\ bomDone /\ b \in LineStarts
      /\ baseOff \in EventStarts /\ \A off \in EventStarts : ~(baseOff < off /\ off < b)
  BY DEF AsmInv, Standing, OpenEvent
<1>5. UNCHANGED <<LineStarts, EventStarts, Origin>> /\ EventStarts \in SUBSET LineStarts
      /\ LineStarts \in SUBSET Nat
  BY <1>4, SameFile, Starts
<1>6. EmittedAreEvents'
  BY <1>2, <1>3, <1>4, <1>5 DEF AsmInv, EmittedAreEvents
<1>7. NoEventMissed'
  <2>1. \A off \in EventStarts : off < b => off < baseOff \/ off = baseOff
    BY <1>4, <1>5
  <2> QED BY <1>2, <1>3, <1>5, <2>1 DEF AsmInv, NoEventMissed
<1>8. ASSUME NEW ev \in emitted'
      PROVE  ev.run \in Nat /\ ev.run <= restarts /\ (ev.run = restarts => ev.to <= b)
  <2>1. CASE ev = new
    BY <1>3, <1>4, <2>1
  <2>2. CASE ev \in emitted
    <3>1. ev.to \in Nat
      BY <1>5, <2>2 DEF AsmInv, EmittedAreEvents
    <3>2. \A n \in Nat : n <= baseOff => n <= b
      BY <1>4
    <3> QED BY <2>2, <3>1, <3>2 DEF AsmInv, Behind
  <2> QED BY <1>2, <2>1, <2>2
<1> QED BY <1>6, <1>7, <1>8

\* Inside of an event a line goes on with it, or closes it and begins the next.
LEMMA ScanInsideAsm ==
  ASSUME AsmInv, UNCHANGED file, ScanInside
  PROVE  AsmInv'
<1>1. PICK end : NextLine(end) /\ IF lineAt > 0 /\ IsEventStart(baseOff + lineAt, readOff)
                   THEN /\ Emit(lineAt, TRUE)
                        /\ baseOff' = baseOff + lineAt /\ lineAt' = end - (baseOff + lineAt)
                   ELSE lineAt' = end - baseOff /\ UNCHANGED <<baseOff, emitted>>
  BY DEF ScanInside
<1>2. PICK a : a = baseOff + lineAt
  OBVIOUS
<1>3. /\ UNCHANGED <<readOff, inEvent, bomDone, scanning, stopped, resumed, restarts>>
      /\ scanning /\ inEvent /\ bomDone /\ lineAt > 0 /\ baseOff \in Nat /\ lineAt \in Nat
      /\ a \in Nat /\ baseOff < a /\ file \in Seq(Bytes) /\ baseOff \in LineStarts
  BY <1>2 DEF ScanInside, AsmInv, Standing, OpenEvent
<1>4. /\ end \in LineStarts /\ end \in Nat /\ a < end /\ end <= readOff
      /\ \A off \in LineStarts : ~(a < off /\ off < end)
      /\ IsEventStart(a, readOff) <=> a \in EventStarts
  <2>1. a \in baseOff + lineAt .. baseOff + lineAt
    BY <1>2, <1>3
  <2> QED BY <1>1, <1>2, <1>3, <2>1, NextLineIs
<1>5. UNCHANGED <<LineStarts, EventStarts, Origin>> /\ EventStarts \in SUBSET LineStarts
      /\ LineStarts \in SUBSET Nat
  BY <1>3, SameFile, Starts
<1>6. PICK n : n = lineAt'
  OBVIOUS
<1>7. CASE a \in EventStarts
  <2>1. Emit(lineAt, TRUE) /\ baseOff' = a /\ n = end - a
    BY <1>1, <1>2, <1>3, <1>4, <1>6, <1>7
  <2>2. n \in Nat /\ n > 0 /\ a + n = end
    BY <1>3, <1>4, <2>1
  <2>3. /\ EmittedAreEvents' /\ NoEventMissed'
        /\ \A ev \in emitted' : ev.run \in Nat /\ ev.run <= restarts
        /\ \A ev \in emitted' : ev.run = restarts => ev.to <= a
    BY <1>2, <1>3, <1>7, <2>1, EmitAsm
  <2>4. Standing'
    BY <1>3, <1>4, <1>5, <1>6, <1>7, <2>1, <2>2 DEF AsmInv, Standing
  <2>5. OpenEvent'
    BY <1>4, <1>5, <1>6, <1>7, <2>1, <2>2 DEF OpenEvent
  <2>6. Behind'
    <3>1. resumed \in Nat /\ resumed <= a
      BY <1>3, <1>5 DEF AsmInv, Behind
    <3> QED BY <1>3, <1>5, <2>1, <2>3, <3>1 DEF AsmInv, Behind
  <2> QED BY <2>3, <2>4, <2>5, <2>6 DEF AsmInv
<1>8. CASE a \notin EventStarts
  <2>1. n = end - baseOff /\ baseOff' = baseOff /\ emitted' = emitted
    BY <1>1, <1>2, <1>3, <1>4, <1>6, <1>8
  <2>2. n \in Nat /\ n > 0 /\ baseOff + n = end
    BY <1>3, <1>4, <2>1
  <2>3. Standing'
    BY <1>3, <1>4, <1>5, <1>6, <2>1, <2>2 DEF AsmInv, Standing
  <2>4. OpenEvent'
    <3>1. \A off \in EventStarts : ~(baseOff < off /\ off < end)
      BY <1>2, <1>3, <1>4, <1>5, <1>8 DEF AsmInv, OpenEvent
    <3> QED BY <1>3, <1>5, <1>6, <2>1, <2>2, <3>1 DEF AsmInv, OpenEvent
  <2>5. Behind' /\ EmittedAreEvents' /\ NoEventMissed'
    BY <1>3, <1>5, <2>1 DEF AsmInv, Behind, EmittedAreEvents, NoEventMissed
  <2> QED BY <2>3, <2>4, <2>5 DEF AsmInv
<1> QED BY <1>7, <1>8

\* The timer, or the stop, closes the event with the lines it has.
LEMMA CloseAsm ==
  ASSUME AsmInv, UNCHANGED <<file, readOff, bomDone, scanning, resumed, restarts>>,
         inEvent, Emit(lineAt, FALSE), baseOff' = baseOff + lineAt, lineAt' = 0, inEvent' = FALSE
  PROVE  AsmInv'
<1>1. PICK b : b = baseOff'
  OBVIOUS
<1>2. /\ b = baseOff + lineAt /\ b \in Nat /\ baseOff <= b /\ b + 0 = b /\ b <= readOff
      /\ b \in LineStarts /\ bomDone /\ baseOff \in Nat /\ file \in Seq(Bytes)
  BY <1>1 DEF AsmInv, Standing
<1>3. UNCHANGED <<LineStarts, EventStarts, Origin>> /\ LineStarts \in SUBSET Nat
  BY <1>2, SameFile, Starts
<1>4. /\ EmittedAreEvents' /\ NoEventMissed'
      /\ \A ev \in emitted' : ev.run \in Nat /\ ev.run <= restarts
      /\ \A ev \in emitted' : ev.run = restarts => ev.to <= b
  BY <1>1, <1>2, EmitAsm
<1>5. Standing' /\ OpenEvent'
  BY <1>1, <1>2, <1>3 DEF AsmInv, Standing, OpenEvent
<1>6. Behind'
  <2>1. resumed \in Nat /\ resumed <= b
    BY <1>2, <1>3 DEF AsmInv, Behind
  <2> QED BY <1>1, <1>3, <1>4, <2>1 DEF AsmInv, Behind
<1> QED BY <1>4, <1>5, <1>6 DEF AsmInv

\* Steps that touch neither offsets nor events.
LEMMA IdleAsm ==
  ASSUME AsmInv, UNCHANGED <<file, baseOff, readOff, lineAt, inEvent, bomDone, resumed, restarts,
                             emitted>>,
         scanning' = scanning \/ scanning' = FALSE
  PROVE  AsmInv'
<1>1. UNCHANGED <<LineStarts, EventStarts, Origin>>
  BY SameFile
<1>2. scanning' \in BOOLEAN /\ (~bomDone => ~scanning')
  <2>1. scanning \in BOOLEAN /\ (~bomDone => ~scanning)
    BY DEF AsmInv, Standing
  <2>2. CASE scanning' = scanning
    BY <2>1, <2>2
  <2>3. CASE scanning' = FALSE
    BY <2>3
  <2> QED BY <2>2, <2>3
<1>3. Standing'
  BY <1>1, <1>2 DEF AsmInv, Standing
<1>4. OpenEvent' /\ Behind' /\ EmittedAreEvents' /\ NoEventMissed'
  BY <1>1 DEF AsmInv, OpenEvent, Behind, EmittedAreEvents, NoEventMissed
<1> QED BY <1>3, <1>4 DEF AsmInv

\* The timer.
LEMMA IdleEmitAsm ==
  ASSUME AsmInv, UNCHANGED file, IdleEmit
  PROVE  AsmInv'
<1>1. /\ UNCHANGED <<readOff, bomDone, scanning, resumed, restarts>> /\ inEvent
      /\ Emit(lineAt, FALSE) /\ baseOff' = readOff /\ baseOff + lineAt = readOff
      /\ lineAt' = 0 /\ inEvent' = FALSE
  BY DEF IdleEmit
<1> QED BY <1>1, CloseAsm

\* The stop.
LEMMA DrainAsm ==
  ASSUME AsmInv, UNCHANGED file, Drain
  PROVE  AsmInv'
<1>1. CASE inEvent /\ lineAt # 0
  <2>1. /\ UNCHANGED <<readOff, bomDone, scanning, resumed, restarts>> /\ inEvent
        /\ Emit(lineAt, FALSE) /\ baseOff' = baseOff + lineAt /\ lineAt' = 0 /\ inEvent' = FALSE
    BY <1>1 DEF Drain
  <2> QED BY <2>1, CloseAsm
<1>2. CASE ~(inEvent /\ lineAt # 0)
  BY <1>2, IdleAsm DEF Drain
<1> QED BY <1>1, <1>2

\* A restart goes on where the run before has emitted everything.
LEMMA RestartAsm ==
  ASSUME AsmInv, UNCHANGED file, Restart
  PROVE  AsmInv'
<1>1. PICK off \in {resumed} \cup {ev.to : ev \in {e \in emitted : e.run = restarts}} :
        baseOff' = off /\ readOff' = off /\ resumed' = off /\ bomDone' = (off # 0)
  BY DEF Restart
<1>2. /\ lineAt' = 0 /\ inEvent' = FALSE /\ scanning' = FALSE /\ emitted' = emitted
      /\ restarts' = restarts + 1 /\ restarts \in Nat /\ file \in Seq(Bytes) /\ baseOff \in Nat
      /\ readOff \in Nat /\ baseOff <= readOff /\ readOff <= Len(file)
  BY DEF Restart, AsmInv, Standing
<1>3. UNCHANGED <<LineStarts, EventStarts, Origin>> /\ LineStarts \in SUBSET Nat
      /\ Len(file) \in Nat
  BY <1>2, SameFile, Starts
<1>4. off \in LineStarts \cup {0} /\ off <= baseOff
  <2>1. CASE off = resumed
    BY <2>1 DEF AsmInv, Behind
  <2>2. CASE \E ev \in emitted : ev.run = restarts /\ off = ev.to
    BY <2>2 DEF AsmInv, Behind, EmittedAreEvents
  <2> QED BY <1>1, <2>1, <2>2
<1>5. off \in Nat /\ off <= Len(file) /\ off + 0 = off
  BY <1>2, <1>3, <1>4
<1>6. Standing'
  <2>1. restarts' \in Nat
    BY <1>2
  <2>2. /\ baseOff' \in Nat /\ readOff' \in Nat /\ lineAt' \in Nat
        /\ baseOff' + lineAt' = off /\ baseOff' + lineAt' <= readOff' /\ readOff' <= Len(file)
    BY <1>1, <1>2, <1>5
  <2>3. bomDone' \in BOOLEAN /\ (~bomDone' => off = 0)
    BY <1>1
  <2> QED BY <1>1, <1>2, <1>3, <1>4, <2>1, <2>2, <2>3 DEF Standing
<1>7. OpenEvent' /\ EmittedAreEvents'
  BY <1>2, <1>3 DEF AsmInv, OpenEvent, EmittedAreEvents
<1>8. Behind'
  <2>1. PICK r : r = restarts'
    OBVIOUS
  <2>2. \A ev \in emitted : ev.run \in Nat /\ ev.run <= r /\ ev.run # r
    BY <1>2, <2>1 DEF AsmInv, Behind
  <2> QED BY <1>1, <1>2, <1>3, <1>4, <1>5, <2>1, <2>2 DEF Behind
<1>9. NoEventMissed'
  <2>1. EventStarts \in SUBSET Nat
    BY <1>2, Starts
  <2>2. \A e \in EventStarts : e < off => e < baseOff
    BY <1>2, <1>4, <1>5, <2>1
  <2> QED BY <1>1, <1>2, <1>3, <2>2 DEF AsmInv, NoEventMissed
<1> QED BY <1>6, <1>7, <1>8, <1>9 DEF AsmInv

\* The invariant holds in every reachable state.
LEMMA AsmInvariance == AsmSpec => []AsmInv
<1>1. AsmInv /\ [AsmNext /\ UNCHANGED file]_<<file, asmVars>> => AsmInv'
  <2>1. AsmInv /\ UNCHANGED <<file, asmVars>> => AsmInv'
    BY IdleAsm DEF asmVars
  <2>2. AsmInv /\ ScanEnds /\ UNCHANGED file => AsmInv'
    BY IdleAsm DEF ScanEnds
  <2> QED BY <2>1, <2>2, ReadAsm, ScanOutsideAsm, ScanInsideAsm, IdleEmitAsm, DrainAsm, RestartAsm
          DEF AsmNext
<1> QED BY <1>1, InitAsm, PTL DEF AsmSpec

\* For any file, any sizes of the reads and any stops and crashes: what is emitted is an
\* event of the file, or the front of one that the timer or the stop closed.
THEOREM OnlyEvents == AsmSpec => []EmittedAreEvents
<1>1. AsmInv => EmittedAreEvents
  BY DEF AsmInv
<1> QED BY <1>1, AsmInvariance, PTL

\* Likewise: no event is passed over, in a run or by the checkpoint of the one before.
THEOREM EveryEvent == AsmSpec => []NoEventMissed
<1>1. AsmInv => NoEventMissed
  BY DEF AsmInv
<1> QED BY <1>1, AsmInvariance, PTL

-----------------------------------------------------------------------------
(* The window of batch mode *)

\* The window spans a part of the file that begins with the event, or before it; scan is
\* in it.  At its end, once the file is known to end there, or with all of its room used.
Window ==
  /\ file \in Seq(Bytes) /\ file \in Files
  /\ bufFrom \in Nat /\ bufTo \in Nat /\ room \in Nat /\ scan \in Nat /\ evStart \in Nat
  /\ inside \in BOOLEAN /\ atEOF \in BOOLEAN
  /\ room >= ReadChunk + GuardZone
  /\ bufTo <= Len(file) /\ bufFrom <= evStart /\ evStart <= scan /\ scan <= bufTo
  /\ Origin <= evStart
  /\ IF atEOF THEN bufTo = Len(file) ELSE bufTo = bufFrom + room

\* What is decided up to scan: outside no event has begun; inside the events before
\* evStart are cut out, and after it none begins.
Decided ==
  /\ ~inside => cutOut = <<>> /\ \A off \in EventStarts : off > scan
  /\ inside =>
       /\ evStart \in EventStarts /\ \A off \in EventStarts : ~(evStart < off /\ off <= scan)
       /\ \A off \in EventStarts : off < evStart => \E i \in DOMAIN cutOut : cutOut[i].from = off
       /\ IF cutOut = <<>> THEN \A off \in EventStarts : evStart <= off
                           ELSE cutOut[Len(cutOut)].to = evStart

\* The properties, with the last event closed or not.
Cut ==
  /\ cutOut \in Seq([from : Nat, to : Nat])
  /\ \A i \in DOMAIN cutOut : cutOut[i] \in SplitEvents
  /\ \A i \in DOMAIN cutOut : i > 1 => cutOut[i].from = cutOut[i - 1].to
  /\ cutOut # <<>> => \A off \in EventStarts : cutOut[1].from <= off

\* The inductive invariant of Scanner.
ScnInv ==
  /\ phase \in {"opened", "loop", "done", "error"} /\ Cut
  /\ phase = "opened" => file \in Files /\ cutOut = <<>> /\ bufFrom = 0
                         /\ room \in Nat /\ room >= ReadChunk + GuardZone
  /\ phase = "loop" => Window /\ Decided
  /\ phase = "done" => \A ev \in SplitEvents : \E i \in DOMAIN cutOut : cutOut[i] = ev

\* Within the guard zone a mask shows.
LEMMA MaskShows ==
  ASSUME file \in Files, NEW off \in Nat, NEW end \in Nat, end <= Len(file),
         end = Len(file) \/ off + GuardZone <= end
  PROVE  IsEventStart(off, end) <=> off < Len(file) /\ IsEventStart(off, Len(file))
<1>1. PICK last : last = Len(file)
  OBVIOUS
<1>2. last \in Nat /\ DOMAIN file = 1 .. last /\ GuardZone \in Nat
  <2>1. file \in Seq(Bytes)
    BY FilesAreBytes
  <2>2. GuardZone \in Nat
    BY ScannerBounds
  <2> QED BY <1>1, <2>1, <2>2
<1>3. ASSUME IsEventStart(off, end) PROVE off < last /\ IsEventStart(off, last)
  <2>1. PICK k \in off + 1 .. end - 1 :
          /\ Byte(off) = "m" /\ Byte(k) = ","
          /\ \A j \in off + 1 .. k - 1 : Byte(j) = "d"
    BY <1>3 DEF IsEventStart
  <2>2. k \in off + 1 .. last - 1 /\ off < last
    BY <1>1, <1>2
  <2> QED BY <2>1, <2>2 DEF IsEventStart
<1>4. ASSUME IsEventStart(off, last) PROVE IsEventStart(off, end)
  <2>1. PICK k \in off + 1 .. last - 1 :
          /\ Byte(off) = "m" /\ Byte(k) = ","
          /\ \A j \in off + 1 .. k - 1 : Byte(j) = "d"
    BY <1>4 DEF IsEventStart
  <2>2. PICK i, n : i = off + 1 /\ n = k + 1
    OBVIOUS
  <2>3. i \in 1 .. last /\ n \in 1 .. last /\ i < n /\ n - i = k - off /\ k \in Nat
    BY <1>2, <2>2
  <2>4. file[i] = "m" /\ file[n] = ","
    BY <2>1, <2>2 DEF Byte
  <2>5. \A j \in i + 1 .. n - 1 : file[j] = "d"
    <3>1. ASSUME NEW j \in i + 1 .. n - 1 PROVE file[j] = "d"
      <4>1. PICK m : m = j - 1
        OBVIOUS
      <4>2. m \in off + 1 .. k - 1 /\ j = m + 1
        BY <2>2, <2>3, <4>1
      <4>3. Byte(m) = "d"
        BY <2>1, <4>2
      <4> QED BY <4>2, <4>3 DEF Byte
    <3> QED BY <3>1
  <2>6. n - i < GuardZone
    BY <1>2, <2>3, <2>4, <2>5, ScannerBounds
  <2>7. k \in off + 1 .. end - 1
    BY <1>1, <1>2, <2>3, <2>6
  <2> QED BY <2>1, <2>7 DEF IsEventStart
<1> QED BY <1>1, <1>3, <1>4

\* Two events that begin alike are the same.
LEMMA EventsDiffer ==
  ASSUME file \in Seq(Bytes), NEW ev \in SplitEvents, NEW cu \in SplitEvents, ev.from = cu.from
  PROVE  ev = cu
<1>1. PICK n : n = Len(file)
  OBVIOUS
<1>2. EventStarts \in SUBSET Nat /\ n \in Nat /\ \A off \in EventStarts : off < n
  <2>1. \A off \in EventStarts : off \in Nat /\ off < Len(file)
    BY Starts DEF EventStarts
  <2> QED BY <1>1, <2>1
<1>3. /\ ev \in [from : EventStarts, to : EventStarts \cup {n}] /\ ev.from < ev.to
      /\ \A off \in EventStarts : ~(ev.from < off /\ off < ev.to)
  BY <1>1 DEF SplitEvents
<1>4. /\ cu \in [from : EventStarts, to : EventStarts \cup {n}] /\ cu.from < cu.to
      /\ \A off \in EventStarts : ~(cu.from < off /\ off < cu.to)
  BY <1>1 DEF SplitEvents
<1>5. PICK f, a, c : f = ev.from /\ a = ev.to /\ c = cu.to
  OBVIOUS
<1>6. f \in EventStarts /\ a \in EventStarts \cup {n} /\ c \in EventStarts \cup {n}
  BY <1>3, <1>4, <1>5
<1>7. /\ f < a /\ \A off \in EventStarts : ~(f < off /\ off < a)
      /\ f < c /\ \A off \in EventStarts : ~(f < off /\ off < c)
  BY <1>3, <1>4, <1>5
<1>8. a = c
  BY <1>2, <1>6, <1>7
<1>9. ev = [from |-> f, to |-> a] /\ cu = [from |-> f, to |-> c]
  BY <1>3, <1>4, <1>5
<1> QED BY <1>8, <1>9

\* A line begins only after the end of one.
LEMMA NoStart ==
  ASSUME file \in Seq(Bytes), NEW a \in Nat, Origin <= a, NEW b \in Nat,
         \A nl \in a .. b - 1 : Byte(nl) # "nl"
  PROVE  \A off \in EventStarts : ~(a < off /\ off <= b)
<1>1. ASSUME NEW off \in EventStarts, a < off, off <= b PROVE FALSE
  <2>1. Origin \in Nat /\ off \in Nat /\ off \in LineStarts
    BY Starts
  <2>2. Byte(off - 1) = "nl"
    BY <1>1, <2>1 DEF LineStarts
  <2>3. off - 1 \in a .. b - 1
    BY <1>1, <2>1
  <2> QED BY <2>2, <2>3
<1> QED BY <1>1

\* The start.
LEMMA InitScn == file \in Files /\ ScnInit => ScnInv
<1> SUFFICES ASSUME file \in Files, ScnInit PROVE ScnInv
  OBVIOUS
<1>1. phase = "opened" /\ bufFrom = 0 /\ cutOut = <<>>
  BY DEF ScnInit
<1>2. room \in Nat /\ room >= ReadChunk + GuardZone
  <2>1. PICK c \in Pooled : room = IF c < ReadChunk + GuardZone THEN ReadChunk + GuardZone ELSE c
    BY DEF ScnInit
  <2>2. c \in Nat /\ ReadChunk \in Nat /\ GuardZone \in Nat
    BY ScannerBounds
  <2> QED BY <2>1, <2>2
<1>3. <<>> \in Seq([from : Nat, to : Nat]) /\ DOMAIN <<>> = {}
  OBVIOUS
<1> QED BY <1>1, <1>2, <1>3 DEF ScnInv, Cut

\* While the file stays as it is, so do its events.
LEMMA SameEvents ==
  ASSUME UNCHANGED file
  PROVE  UNCHANGED <<LineStarts, EventStarts, Origin, SplitEvents>>
<1>1. UNCHANGED <<LineStarts, EventStarts, Origin>>
  BY SameFile
<1>2. UNCHANGED SplitEvents
  BY <1>1 DEF SplitEvents
<1> QED BY <1>1, <1>2

\* The properties of what was cut out hold as long as nothing else is.
LEMMA CutStays ==
  ASSUME Cut, UNCHANGED <<file, cutOut>>
  PROVE  Cut'
BY SameEvents DEF Cut

\* The first window: the byte order mark, the first line.
LEMMA OpenScn ==
  ASSUME ScnInv, UNCHANGED file, Open
  PROVE  ScnInv'
<1>1. /\ phase' = "loop" /\ cutOut' = cutOut /\ cutOut = <<>> /\ bufFrom' = 0 /\ room' = room
      /\ file \in Files /\ room \in Nat /\ room >= ReadChunk + GuardZone /\ Cut /\ Refill
  BY DEF ScnInv, Open
<1>2. PICK n, r, t : n = Len(file) /\ r = room' /\ t = bufTo'
  OBVIOUS
<1>3. /\ file \in Seq(Bytes) /\ n \in Nat /\ Origin \in {0, 3}
      /\ LineStarts \in SUBSET Nat /\ \A off \in LineStarts : Origin <= off /\ off <= n
      /\ EventStarts \in SUBSET LineStarts
  <2>1. file \in Seq(Bytes)
    BY <1>1, FilesAreBytes
  <2> QED BY <1>2, <2>1, Starts
<1>4. /\ ReadChunk \in Nat /\ ReadChunk >= 3 /\ GuardZone \in Nat
  BY ScannerBounds
<1>5. /\ t \in Nat /\ t <= n /\ atEOF' \in BOOLEAN
      /\ IF atEOF' THEN t = n ELSE t = r
      /\ t = n \/ (t = r /\ r <= n)
  <2>1. PICK f : f = 0 /\ f = bufFrom'
    BY <1>1
  <2>2. r \in Nat /\ f \in Nat /\ f <= n
    BY <1>1, <1>2, <1>3, <2>1
  <2>3. f + r = r
    BY <2>1, <2>2
  <2>4. \/ t = n /\ atEOF' = TRUE /\ f + r > n
        \/ t = f + r /\ atEOF' = FALSE /\ ~(f + r > n)
    <3>1. Refill /\ n = Len(file) /\ f = bufFrom' /\ r = room' /\ t = bufTo'
      BY <1>1, <1>2, <2>1
    <3> QED BY <3>1 DEF Refill
  <2>5. CASE t = n /\ atEOF' = TRUE
    <3>1. t \in Nat /\ t <= n
      BY <1>3, <2>5
    <3> QED BY <2>5, <3>1
  <2>6. CASE t = f + r /\ atEOF' = FALSE /\ ~(f + r > n)
    <3>1. t = r /\ t \in Nat /\ t <= n /\ r <= n
      BY <1>3, <2>2, <2>3, <2>6
    <3> QED BY <2>6, <3>1
  <2> QED BY <2>4, <2>5, <2>6
<1>6. r \in Nat /\ r >= ReadChunk + GuardZone
  BY <1>1, <1>2
<1>7. HasMark(t) <=> HasMark(n)
  <2>1. t >= 3 <=> n >= 3
    BY <1>3, <1>4, <1>5, <1>6
  <2> QED BY <2>1 DEF HasMark
<1>8. scan' = Origin /\ evStart' = Origin /\ (inside' <=> IsEventStart(Origin, t))
      /\ inside' \in BOOLEAN
  <2>1. (IF HasMark(t) THEN 3 ELSE 0) = Origin
    BY <1>2, <1>7 DEF Origin
  <2>2. scan' = Origin /\ evStart' = Origin /\ inside' = IsEventStart(Origin, t)
    BY <1>2, <2>1 DEF Open
  <2> QED BY <2>2 DEF IsEventStart
<1>9. Origin <= t /\ Origin <= n
  <2>1. Origin = 3 => n >= 3
    BY <1>2 DEF Origin, HasMark
  <2> QED BY <1>3, <1>4, <1>5, <1>6, <2>1
<1>10. inside' <=> Origin \in EventStarts
  <2>1. t = n \/ Origin + GuardZone <= t
    BY <1>3, <1>4, <1>5, <1>6
  <2>2. IsEventStart(Origin, t) <=> Origin < n /\ IsEventStart(Origin, n)
    <3>1. Origin \in Nat
      BY <1>3
    <3> QED BY <1>1, <1>2, <1>5, <2>1, <3>1, MaskShows
  <2>3. Origin \in LineStarts
    <3>1. Origin \in Origin .. n
      BY <1>3, <1>9
    <3> QED BY <1>2, <3>1 DEF LineStarts
  <2> QED BY <1>2, <1>8, <2>2, <2>3 DEF EventStarts
<1>11. UNCHANGED <<EventStarts, Origin, SplitEvents>>
  BY SameEvents
<1>12. Window'
  <2>1. file' \in Files /\ file' \in Seq(Bytes) /\ Len(file') = n
    BY <1>1, <1>2, <1>3
  <2>2. /\ bufFrom' \in Nat /\ bufTo' \in Nat /\ room' \in Nat /\ scan' \in Nat /\ evStart' \in Nat
        /\ inside' \in BOOLEAN /\ atEOF' \in BOOLEAN
    BY <1>1, <1>2, <1>3, <1>5, <1>8
  <2>3. room' >= ReadChunk + GuardZone
    BY <1>1
  <2>4. /\ bufTo' <= n /\ bufFrom' <= evStart' /\ evStart' <= scan' /\ scan' <= bufTo'
        /\ Origin <= evStart'
    BY <1>1, <1>2, <1>3, <1>5, <1>8, <1>9
  <2>5. IF atEOF' THEN bufTo' = n ELSE bufTo' = bufFrom' + room'
    BY <1>1, <1>2, <1>5, <1>6
  <2> QED BY <1>11, <2>1, <2>2, <2>3, <2>4, <2>5 DEF Window
<1>13. Decided'
  <2>1. \A off \in EventStarts : off \in Nat /\ Origin <= off
    BY <1>3
  <2>2. ~inside' => \A off \in EventStarts : off > scan'
    BY <1>3, <1>8, <1>10, <2>1
  <2>3. \A off \in EventStarts : ~(evStart' < off /\ off <= scan')
    BY <1>3, <1>8, <2>1
  <2>4. \A off \in EventStarts : ~(off < evStart')
    BY <1>3, <1>8, <2>1
  <2>5. \A off \in EventStarts : evStart' <= off
    BY <1>8, <2>1
  <2>6. inside' => evStart' \in EventStarts
    BY <1>8, <1>10
  <2>7. cutOut' = <<>>
    BY <1>1
  <2> QED BY <1>11, <2>2, <2>3, <2>4, <2>5, <2>6, <2>7 DEF Decided
<1>14. Cut'
  BY <1>1, CutStays
<1> QED BY <1>1, <1>12, <1>13, <1>14 DEF ScnInv

\* One more event is cut out.
LEMMA CutGrows ==
  ASSUME file \in Seq(Bytes), Cut, UNCHANGED file,
         NEW f \in EventStarts, NEW t \in EventStarts \cup {Len(file)}, f < t,
         \A off \in EventStarts : ~(f < off /\ off < t),
         IF cutOut = <<>> THEN \A off \in EventStarts : f <= off
                          ELSE cutOut[Len(cutOut)].to = f,
         NEW ev, ev = [from |-> f, to |-> t], cutOut' = Append(cutOut, ev)
  PROVE  /\ Cut' /\ ev \in SplitEvents /\ cutOut' # <<>> /\ cutOut'[Len(cutOut')] = ev
         /\ \A i \in DOMAIN cutOut : i \in DOMAIN cutOut' /\ cutOut'[i] = cutOut[i]
         /\ \E i \in DOMAIN cutOut' : cutOut'[i] = ev
<1>1. PICK q, p : q = cutOut /\ p = cutOut'
  OBVIOUS
<1>2. /\ q \in Seq([from : Nat, to : Nat]) /\ \A i \in DOMAIN q : q[i] \in SplitEvents
      /\ \A i \in DOMAIN q : i > 1 => q[i].from = q[i - 1].to
      /\ q # <<>> => \A off \in EventStarts : q[1].from <= off
  BY <1>1 DEF Cut
<1>3. ev.from = f /\ ev.to = t
  OBVIOUS
<1>4. ev \in SplitEvents
  BY <1>3 DEF SplitEvents
<1>5. ev \in [from : Nat, to : Nat]
  <2>1. Len(file) \in Nat /\ \A off \in EventStarts : off \in Nat
    BY Starts
  <2> QED BY <2>1
<1>6. PICK n : n = Len(q)
  OBVIOUS
<1>7. /\ n \in Nat /\ DOMAIN q = 1 .. n /\ Len(p) = n + 1 /\ DOMAIN p = 1 .. n + 1
      /\ p \in Seq([from : Nat, to : Nat]) /\ p # <<>> /\ p[n + 1] = ev
      /\ \A i \in 1 .. n : p[i] = q[i]
  BY <1>1, <1>2, <1>5, <1>6
<1>8. q = <<>> <=> n = 0
  BY <1>2, <1>6
<1>9. \A i \in DOMAIN p : p[i] \in SplitEvents
  BY <1>2, <1>4, <1>7
<1>10. ASSUME NEW i \in DOMAIN p, i > 1 PROVE p[i].from = p[i - 1].to
  <2>1. CASE i = n + 1
    <3>1. q # <<>> /\ i - 1 = n /\ n \in 1 .. n
      BY <1>7, <1>8, <1>10, <2>1
    <3>2. q[n].to = f
      BY <1>1, <1>6, <3>1
    <3> QED BY <1>3, <1>7, <2>1, <3>1, <3>2
  <2>2. CASE i # n + 1
    <3>1. i \in 1 .. n /\ i - 1 \in 1 .. n
      BY <1>7, <1>10, <2>2
    <3> QED BY <1>2, <1>7, <1>10, <3>1
  <2> QED BY <2>1, <2>2
<1>11. \A off \in EventStarts : p[1].from <= off
  <2>1. CASE n = 0
    <3>1. \A off \in EventStarts : f <= off
      BY <1>1, <1>8, <2>1
    <3>2. p[1] = ev
      BY <1>7, <2>1
    <3> QED BY <1>3, <3>1, <3>2
  <2>2. CASE n # 0
    <3>1. 1 \in 1 .. n
      BY <1>7, <2>2
    <3> QED BY <1>2, <1>7, <1>8, <2>2, <3>1
  <2> QED BY <2>1, <2>2
<1>12. UNCHANGED <<EventStarts, SplitEvents>>
  BY SameEvents
<1>13. Cut'
  <2>1. /\ cutOut' \in Seq([from : Nat, to : Nat])
        /\ \A i \in DOMAIN cutOut' : cutOut'[i] \in SplitEvents
        /\ \A i \in DOMAIN cutOut' : i > 1 => cutOut'[i].from = cutOut'[i - 1].to
        /\ \A off \in EventStarts : cutOut'[1].from <= off
    BY <1>1, <1>7, <1>9, <1>10, <1>11
  <2> QED BY <1>12, <2>1 DEF Cut
<1>14. \A i \in DOMAIN q : i \in DOMAIN p /\ p[i] = q[i]
  BY <1>7
<1>15. n + 1 \in DOMAIN p
  BY <1>7
<1> QED BY <1>1, <1>4, <1>7, <1>13, <1>14, <1>15

\* What Window says of the values.
LEMMA InWindow ==
  ASSUME Window
  PROVE  /\ file \in Seq(Bytes) /\ Len(file) \in Nat /\ Origin \in Nat
         /\ EventStarts \in SUBSET LineStarts /\ LineStarts \in SUBSET Nat
         /\ \A off \in EventStarts : off \in Nat /\ Origin <= off /\ off < Len(file)
         /\ GuardZone \in Nat /\ ReadChunk \in Nat
         /\ SafeEnd \in Int /\ SafeEnd <= bufTo
         /\ (SafeEnd = bufTo /\ bufTo = Len(file)) \/ SafeEnd + GuardZone = bufTo
<1>1. file \in Seq(Bytes) /\ bufTo \in Nat /\ atEOF \in BOOLEAN /\ (atEOF => bufTo = Len(file))
  BY DEF Window
<1>2. GuardZone \in Nat /\ ReadChunk \in Nat
  BY ScannerBounds
<1>3. /\ Len(file) \in Nat /\ Origin \in Nat /\ EventStarts \in SUBSET LineStarts
      /\ LineStarts \in SUBSET Nat
      /\ \A off \in EventStarts : off \in Nat /\ Origin <= off
  BY <1>1, Starts
<1>4. \A off \in EventStarts : off < Len(file)
  BY DEF EventStarts
<1>5. CASE atEOF
  <2>1. SafeEnd = bufTo
    BY <1>5 DEF SafeEnd
  <2> QED BY <1>1, <1>2, <1>3, <1>4, <1>5, <2>1
<1>6. CASE ~atEOF
  <2>1. SafeEnd = bufTo - GuardZone
    BY <1>6 DEF SafeEnd
  <2>2. PICK s, b : s = SafeEnd /\ b = bufTo
    OBVIOUS
  <2>3. s \in Int /\ s <= b /\ s + GuardZone = b
    BY <1>1, <1>2, <2>1, <2>2
  <2> QED BY <1>1, <1>2, <1>3, <1>4, <2>2, <2>3
<1> QED BY <1>1, <1>5, <1>6

\* What is behind the end of a line that ends in the safe part of the window.
LEMMA LineInWindow ==
  ASSUME Window, NEW off \in Newlines, \A other \in Newlines : off <= other,
         NEW s, s = off + 1
  PROVE  /\ s \in Nat /\ s <= bufTo /\ scan < s /\ s \in LineStarts
         /\ \A o \in EventStarts : ~(scan < o /\ o < s)
         /\ (s < bufTo /\ IsEventStart(s, bufTo)) <=> s \in EventStarts
<1>1. /\ file \in Files /\ file \in Seq(Bytes) /\ scan \in Nat
      /\ bufTo \in Nat /\ bufTo <= Len(file)
      /\ Origin <= evStart /\ evStart <= scan /\ evStart \in Nat
  BY DEF Window
<1>2. /\ Len(file) \in Nat /\ Origin \in Nat /\ EventStarts \in SUBSET LineStarts
      /\ LineStarts \in SUBSET Nat
      /\ \A o \in EventStarts : o \in Nat /\ Origin <= o /\ o < Len(file)
      /\ GuardZone \in Nat /\ SafeEnd \in Int /\ SafeEnd <= bufTo
      /\ (SafeEnd = bufTo /\ bufTo = Len(file)) \/ SafeEnd + GuardZone = bufTo
  BY InWindow
<1>3. off \in scan .. SafeEnd - 1 /\ Byte(off) = "nl"
  BY DEF Newlines
<1>4. PICK n, b, e : n = Len(file) /\ b = bufTo /\ e = SafeEnd
  OBVIOUS
<1>5. /\ off \in Nat /\ scan <= off /\ s \in Nat /\ scan < s /\ s <= e /\ s <= b /\ s <= n
      /\ b = n \/ s + GuardZone <= b
  BY <1>1, <1>2, <1>3, <1>4
<1>6. s \in LineStarts
  <2>1. s - 1 = off /\ s \in Origin .. n
    BY <1>1, <1>2, <1>5
  <2> QED BY <1>3, <1>4, <2>1 DEF LineStarts
<1>7. \A j \in scan .. off - 1 : Byte(j) # "nl"
  <2>1. ASSUME NEW j \in scan .. off - 1, Byte(j) = "nl" PROVE FALSE
    <3>1. j \in scan .. SafeEnd - 1 /\ j < off /\ j \in Int
      BY <1>1, <1>2, <1>3
    <3>2. j \in Newlines
      BY <2>1, <3>1 DEF Newlines
    <3>3. off <= j
      BY <3>2
    <3> QED BY <1>5, <3>1, <3>3
  <2> QED BY <2>1
<1>8. \A o \in EventStarts : ~(scan < o /\ o < s)
  <2>1. \A o \in EventStarts : ~(scan < o /\ o <= off)
    <3>1. Origin <= scan
      BY <1>1, <1>2
    <3> QED BY <1>1, <1>5, <1>7, <3>1, NoStart
  <2> QED BY <1>2, <1>5, <2>1
<1>9. IsEventStart(s, b) <=> s < n /\ IsEventStart(s, n)
  BY <1>1, <1>4, <1>5, MaskShows
<1>10. IsEventStart(s, b) => s < b
  <2>1. ASSUME IsEventStart(s, b) PROVE s < b
    <3>1. PICK k \in s + 1 .. b - 1 : Byte(k) = ","
      BY <2>1 DEF IsEventStart
    <3>2. b \in Nat /\ s \in Nat
      BY <1>1, <1>4, <1>5
    <3> QED BY <3>2
  <2> QED BY <2>1
<1>11. (s < b /\ IsEventStart(s, b)) <=> s \in EventStarts
  BY <1>4, <1>6, <1>9, <1>10 DEF EventStarts
<1> QED BY <1>4, <1>5, <1>6, <1>8, <1>11

\* A line ends in the window.
LEMMA NextLineScn ==
  ASSUME ScnInv, UNCHANGED file, NextLineInWindow
  PROVE  ScnInv'
<1>1. /\ phase' = "loop" /\ UNCHANGED <<bufFrom, bufTo, room, atEOF>>
      /\ Window /\ Decided /\ Cut
  BY DEF ScnInv, NextLineInWindow
<1>2. PICK off \in Newlines :
        /\ \A other \in Newlines : off <= other
        /\ scan' = off + 1
        /\ IF off + 1 < bufTo /\ IsEventStart(off + 1, bufTo)
             THEN /\ cutOut' = IF inside THEN Append(cutOut, [from |-> evStart, to |-> off + 1])
                               ELSE cutOut
                  /\ inside' = TRUE /\ evStart' = off + 1
             ELSE UNCHANGED <<cutOut, inside, evStart>>
  BY DEF NextLineInWindow
<1>3. PICK s : s = off + 1
  OBVIOUS
<1>4. /\ s \in Nat /\ s <= bufTo /\ scan < s /\ s \in LineStarts
      /\ \A o \in EventStarts : ~(scan < o /\ o < s)
      /\ (s < bufTo /\ IsEventStart(s, bufTo)) <=> s \in EventStarts
  BY <1>1, <1>2, <1>3, LineInWindow
<1>5. /\ file \in Seq(Bytes) /\ scan \in Nat /\ bufTo \in Nat /\ evStart \in Nat
      /\ inside \in BOOLEAN
      /\ evStart <= scan /\ bufFrom \in Nat /\ bufFrom <= evStart /\ Origin <= evStart
  BY <1>1 DEF Window
<1>6. Origin \in Nat /\ \A o \in EventStarts : o \in Nat
  BY <1>1, InWindow
<1>7. UNCHANGED <<EventStarts, SplitEvents, Origin>>
  BY SameEvents
<1>8. /\ scan' = s
      /\ IF s \in EventStarts
           THEN /\ cutOut' = IF inside THEN Append(cutOut, [from |-> evStart, to |-> s]) ELSE cutOut
                /\ inside' = TRUE /\ evStart' = s
           ELSE UNCHANGED <<cutOut, inside, evStart>>
  BY <1>2, <1>3, <1>4
<1>9. ASSUME inside' \in BOOLEAN, NEW c \in Nat, evStart' = c, evStart <= c, c <= s PROVE Window'
  <2>1. scan' \in Nat /\ bufFrom' <= c /\ c <= scan' /\ scan' <= bufTo' /\ Origin <= c
    BY <1>1, <1>4, <1>5, <1>6, <1>8, <1>9
  <2> QED BY <1>1, <1>7, <1>9, <2>1 DEF Window
<1>10. CASE s \in EventStarts /\ inside
  <2>1. PICK ev : ev = [from |-> evStart, to |-> s]
    OBVIOUS
  <2>2. cutOut' = Append(cutOut, ev) /\ inside' = TRUE /\ evStart' = s
    BY <1>8, <1>10, <2>1
  <2>3. /\ evStart \in EventStarts /\ \A o \in EventStarts : ~(evStart < o /\ o <= scan)
        /\ \A o \in EventStarts : o < evStart => \E i \in DOMAIN cutOut : cutOut[i].from = o
        /\ IF cutOut = <<>> THEN \A o \in EventStarts : evStart <= o
                            ELSE cutOut[Len(cutOut)].to = evStart
    BY <1>1, <1>10 DEF Decided
  <2>4. evStart < s /\ \A o \in EventStarts : ~(evStart < o /\ o < s)
    BY <1>4, <1>5, <1>6, <2>3
  <2>5. /\ Cut' /\ cutOut' # <<>> /\ cutOut'[Len(cutOut')] = ev
        /\ \A i \in DOMAIN cutOut : i \in DOMAIN cutOut' /\ cutOut'[i] = cutOut[i]
        /\ \E i \in DOMAIN cutOut' : cutOut'[i] = ev
    BY <1>1, <1>5, <1>10, <2>1, <2>2, <2>3, <2>4, CutGrows
  <2>6. Window'
    BY <1>4, <1>5, <1>9, <2>2, <2>4
  <2>7. Decided'
    <3>1. \A o \in EventStarts : ~(s < o /\ o <= s)
      BY <1>4, <1>6
    <3>2. ASSUME NEW o \in EventStarts, o < s PROVE \E i \in DOMAIN cutOut' : cutOut'[i].from = o
      <4>1. o < evStart \/ o = evStart
        BY <1>5, <1>6, <2>4, <3>2
      <4>2. CASE o < evStart
        <5>1. PICK i \in DOMAIN cutOut : cutOut[i].from = o
          BY <2>3, <4>2
        <5> QED BY <2>5, <5>1
      <4>3. CASE o = evStart
        BY <2>1, <2>5, <4>3
      <4> QED BY <4>1, <4>2, <4>3
    <3>3. cutOut'[Len(cutOut')].to = s
      BY <2>1, <2>5
    <3> QED BY <1>7, <1>8, <1>10, <2>2, <2>5, <3>1, <3>2, <3>3 DEF Decided
  <2> QED BY <1>1, <2>5, <2>6, <2>7 DEF ScnInv
<1>11. CASE s \in EventStarts /\ ~inside
  <2>1. cutOut' = cutOut /\ inside' = TRUE /\ evStart' = s
    BY <1>8, <1>11
  <2>2. cutOut = <<>> /\ \A o \in EventStarts : o > scan
    BY <1>1, <1>11 DEF Decided
  <2>3. \A o \in EventStarts : s <= o
    BY <1>4, <1>5, <1>6, <2>2
  <2>4. Cut'
    BY <1>1, <2>1, CutStays
  <2>5. Window'
    BY <1>4, <1>5, <1>9, <2>1
  <2>6. Decided'
    <3>1. \A o \in EventStarts : ~(s < o /\ o <= s) /\ ~(o < s)
      BY <1>4, <1>6, <2>3
    <3> QED BY <1>7, <1>8, <1>11, <2>1, <2>2, <2>3, <3>1 DEF Decided
  <2> QED BY <1>1, <2>4, <2>5, <2>6 DEF ScnInv
<1>12. CASE s \notin EventStarts
  <2>1. UNCHANGED <<cutOut, inside, evStart>>
    BY <1>8, <1>12
  <2>2. Cut'
    BY <1>1, <2>1, CutStays
  <2>3. Window'
    BY <1>4, <1>5, <1>9, <2>1
  <2>4. Decided'
    <3>1. \A o \in EventStarts : o > scan => o > s
      BY <1>4, <1>5, <1>6, <1>12
    <3>2. \A o \in EventStarts : o <= s => o <= scan
      BY <1>4, <1>5, <1>6, <1>12
    <3> QED BY <1>1, <1>7, <1>8, <2>1, <3>1, <3>2 DEF Decided
  <2> QED BY <1>1, <2>2, <2>3, <2>4 DEF ScnInv
<1> QED BY <1>5, <1>10, <1>11, <1>12

\* The window moves on.
LEMMA AdvanceScn ==
  ASSUME ScnInv, UNCHANGED file, Advance
  PROVE  ScnInv'
<1>1. /\ phase' = "loop" /\ UNCHANGED <<evStart, inside, cutOut>> /\ Refill /\ ~atEOF
      /\ Window /\ Decided /\ Cut /\ Newlines = {} /\ bufFrom' = evStart
      /\ scan' = IF scan < SafeEnd THEN SafeEnd ELSE scan
  BY DEF ScnInv, Advance
<1>2. /\ file \in Seq(Bytes) /\ file \in Files /\ evStart \in Nat /\ scan \in Nat /\ room \in Nat
      /\ bufFrom \in Nat /\ bufTo \in Nat /\ inside \in BOOLEAN /\ room >= ReadChunk + GuardZone
      /\ bufTo <= Len(file) /\ bufFrom <= evStart /\ evStart <= scan /\ scan <= bufTo
      /\ Origin <= evStart
  BY <1>1 DEF Window
<1>3. /\ Len(file) \in Nat /\ Origin \in Nat /\ GuardZone \in Nat /\ ReadChunk \in Nat
      /\ \A o \in EventStarts : o \in Nat
      /\ SafeEnd \in Int /\ SafeEnd <= bufTo
  BY <1>1, InWindow
<1>4. PICK n, b, e, c, s : n = Len(file) /\ b = bufTo /\ e = evStart /\ c = scan /\ s = scan'
  OBVIOUS
<1>5. PICK r, t : r = room' /\ t = bufTo'
  OBVIOUS
<1>6. /\ r \in Nat /\ r >= ReadChunk + GuardZone /\ e + r >= b + ReadChunk
  <2>1. r = IF room - (b - e) >= ReadChunk THEN room
            ELSE IF 2 * room < (b - e) + ReadChunk + GuardZone THEN (b - e) + ReadChunk + GuardZone
            ELSE 2 * room
    BY <1>4, <1>5 DEF Advance
  <2>2. b \in Nat /\ e \in Nat /\ e <= b
    BY <1>2, <1>4
  <2> QED BY <1>2, <1>3, <2>1, <2>2
<1>7. /\ t \in Nat /\ b <= t /\ t <= n /\ atEOF' \in BOOLEAN
      /\ IF atEOF' THEN t = n ELSE t = e + r
  <2>1. PICK f : f = bufFrom' /\ f = e
    BY <1>1, <1>4
  <2>2. \/ t = n /\ atEOF' = TRUE /\ f + r > n
        \/ t = f + r /\ atEOF' = FALSE /\ ~(f + r > n)
    BY <1>1, <1>4, <1>5, <2>1 DEF Refill
  <2>3. n \in Nat /\ b \in Nat /\ b <= n /\ e \in Nat /\ f = e
    BY <1>2, <1>3, <1>4, <2>1
  <2>4. CASE t = n /\ atEOF' = TRUE
    BY <2>3, <2>4
  <2>5. CASE t = f + r /\ atEOF' = FALSE /\ ~(f + r > n)
    <3>1. t = e + r /\ t \in Nat /\ b <= t /\ t <= n
      BY <1>3, <1>6, <2>3, <2>5
    <3> QED BY <2>5, <3>1
  <2> QED BY <2>2, <2>4, <2>5
<1>8. s \in Nat /\ c <= s /\ s <= b /\ (s = c \/ (s = SafeEnd /\ c < s))
  BY <1>1, <1>2, <1>3, <1>4
<1>9. UNCHANGED <<EventStarts, SplitEvents, Origin>>
  BY SameEvents
<1>10. \A o \in EventStarts : ~(c < o /\ o <= s)
  <2>1. CASE s = c
    BY <1>2, <1>3, <1>4, <2>1
  <2>2. CASE s = SafeEnd
    <3>1. \A nl \in c .. s - 1 : Byte(nl) # "nl"
      BY <1>1, <1>4, <2>2 DEF Newlines
    <3>2. c \in Nat /\ Origin <= c
      BY <1>2, <1>3, <1>4
    <3> QED BY <1>2, <1>8, <3>1, <3>2, NoStart
  <2> QED BY <1>8, <2>1, <2>2
<1>11. Window'
  <2>1. /\ bufFrom' \in Nat /\ bufTo' \in Nat /\ room' \in Nat /\ scan' \in Nat /\ evStart' \in Nat
        /\ inside' \in BOOLEAN /\ atEOF' \in BOOLEAN /\ room' >= ReadChunk + GuardZone
    BY <1>1, <1>2, <1>4, <1>5, <1>6, <1>7, <1>8
  <2>2. /\ bufTo' <= Len(file) /\ bufFrom' <= evStart' /\ evStart' <= scan' /\ scan' <= bufTo'
        /\ Origin <= evStart'
    BY <1>1, <1>2, <1>3, <1>4, <1>5, <1>7, <1>8
  <2>3. IF atEOF' THEN bufTo' = Len(file) ELSE bufTo' = bufFrom' + room'
    BY <1>1, <1>4, <1>5, <1>7
  <2> QED BY <1>2, <1>9, <2>1, <2>2, <2>3 DEF Window
<1>12. Decided'
  <2>1. \A o \in EventStarts : o > scan => o > scan'
    BY <1>2, <1>3, <1>4, <1>8, <1>10
  <2>2. \A o \in EventStarts : o <= scan' => o <= scan
    BY <1>2, <1>3, <1>4, <1>8, <1>10
  <2> QED BY <1>1, <1>9, <2>1, <2>2 DEF Decided
<1>13. Cut'
  BY <1>1, CutStays
<1> QED BY <1>1, <1>11, <1>12, <1>13 DEF ScnInv

\* The end of the file.
LEMMA CloseScn ==
  ASSUME ScnInv, UNCHANGED file, Close
  PROVE  ScnInv'
<1>1. /\ phase' = "done" /\ atEOF /\ Window /\ Decided /\ Cut /\ Newlines = {}
      /\ cutOut' = IF inside /\ evStart < bufTo
                     THEN Append(cutOut, [from |-> evStart, to |-> bufTo]) ELSE cutOut
  BY DEF ScnInv, Close
<1>2. /\ file \in Seq(Bytes) /\ evStart \in Nat /\ scan \in Nat /\ bufTo = Len(file)
      /\ inside \in BOOLEAN /\ evStart <= scan /\ scan <= bufTo /\ Origin <= evStart
  BY <1>1 DEF Window
<1>3. /\ Len(file) \in Nat /\ Origin \in Nat
      /\ \A o \in EventStarts : o \in Nat /\ o < Len(file)
  BY <1>1, InWindow
<1>4. PICK n : n = Len(file)
  OBVIOUS
<1>5. SafeEnd = n
  BY <1>1, <1>2, <1>4 DEF SafeEnd
<1>6. \A o \in EventStarts : o <= scan
  <2>1. \A nl \in scan .. n - 1 : Byte(nl) # "nl"
    BY <1>1, <1>5 DEF Newlines
  <2>2. n \in Nat /\ Origin <= scan
    BY <1>2, <1>3, <1>4
  <2>3. \A o \in EventStarts : ~(scan < o /\ o <= n)
    BY <1>2, <2>1, <2>2, NoStart
  <2> QED BY <1>2, <1>3, <1>4, <2>3
<1>7. UNCHANGED <<EventStarts, SplitEvents>>
  BY SameEvents
<1>8. \A ev \in SplitEvents : ev.from \in EventStarts
  BY DEF SplitEvents
<1>9. CASE inside
  <2>1. PICK ev : ev = [from |-> evStart, to |-> n]
    OBVIOUS
  <2>2. /\ evStart \in EventStarts /\ \A o \in EventStarts : ~(evStart < o /\ o <= scan)
        /\ \A o \in EventStarts : o < evStart => \E i \in DOMAIN cutOut : cutOut[i].from = o
        /\ IF cutOut = <<>> THEN \A o \in EventStarts : evStart <= o
                            ELSE cutOut[Len(cutOut)].to = evStart
    BY <1>1, <1>9 DEF Decided
  <2>3. evStart < n /\ cutOut' = Append(cutOut, ev)
    <3>1. evStart < n
      BY <1>3, <1>4, <2>2
    <3> QED BY <1>1, <1>2, <1>4, <1>9, <2>1, <3>1
  <2>4. \A o \in EventStarts : ~(evStart < o)
    BY <1>6, <2>2
  <2>5. /\ Cut' /\ ev \in SplitEvents
        /\ \A i \in DOMAIN cutOut : i \in DOMAIN cutOut' /\ cutOut'[i] = cutOut[i]
        /\ \E i \in DOMAIN cutOut' : cutOut'[i] = ev
    <3>1. n \in EventStarts \cup {Len(file)}
      BY <1>4
    <3> QED BY <1>1, <1>2, <2>1, <2>2, <2>3, <2>4, <3>1, CutGrows
  <2>6. ASSUME NEW cu \in SplitEvents PROVE \E i \in DOMAIN cutOut' : cutOut'[i] = cu
    <3>1. cu.from \in EventStarts
      BY <1>8
    <3>2. cu.from < evStart \/ cu.from = evStart
      BY <1>2, <1>3, <2>4, <3>1
    <3>3. CASE cu.from < evStart
      <4>1. PICK i \in DOMAIN cutOut : cutOut[i].from = cu.from
        BY <2>2, <3>1, <3>3
      <4>2. cutOut[i] \in SplitEvents
        BY <1>1 DEF Cut
      <4>3. cutOut[i] = cu
        BY <1>2, <4>1, <4>2, EventsDiffer
      <4> QED BY <2>5, <4>3
    <3>4. CASE cu.from = evStart
      <4>1. ev.from = cu.from
        BY <2>1, <3>4
      <4>2. ev = cu
        BY <1>2, <2>5, <4>1, EventsDiffer
      <4> QED BY <2>5, <4>2
    <3> QED BY <3>2, <3>3, <3>4
  <2> QED BY <1>1, <1>7, <2>5, <2>6 DEF ScnInv
<1>10. CASE ~inside
  <2>1. \A o \in EventStarts : o > scan
    BY <1>1, <1>10 DEF Decided
  <2>2. SplitEvents = {}
    BY <1>2, <1>3, <1>6, <1>8, <2>1
  <2>3. Cut'
    BY <1>1, <1>10, CutStays
  <2> QED BY <1>1, <1>7, <2>2, <2>3 DEF ScnInv
<1> QED BY <1>2, <1>9, <1>10

\* The window cuts the file exactly as SplitEvents does (parser/stream.go, scanEvents),
\* for every file, chunk and guard zone that is longer than the masks of the file.
THEOREM WindowIsSplit == ScnSpec => []ScanIsSplit
<1>1. file \in Files /\ ScnInit => ScnInv
  BY InitScn
<1>2. ScnInv /\ [ScnNext /\ UNCHANGED file]_<<file, scnVars>> => ScnInv'
  <2> SUFFICES ASSUME ScnInv, [ScnNext /\ UNCHANGED file]_<<file, scnVars>> PROVE ScnInv'
    OBVIOUS
  <2>1. CASE Open /\ UNCHANGED file
    BY <2>1, OpenScn
  <2>2. CASE NextLineInWindow /\ UNCHANGED file
    BY <2>2, NextLineScn
  <2>3. CASE Advance /\ UNCHANGED file
    BY <2>3, AdvanceScn
  <2>4. CASE Close /\ UNCHANGED file
    BY <2>4, CloseScn
  <2>5. CASE ReadFails /\ UNCHANGED file
    <3>1. phase' = "error" /\ UNCHANGED cutOut /\ Cut
      BY <2>5 DEF ScnInv, ReadFails
    <3>2. Cut'
      BY <2>5, <3>1, CutStays
    <3> QED BY <3>1, <3>2 DEF ScnInv
  <2>6. CASE UNCHANGED <<file, scnVars>>
    <3>1. UNCHANGED <<file, phase, bufFrom, bufTo, room, scan, evStart, inside, atEOF, cutOut>>
      BY <2>6 DEF scnVars
    <3>2. UNCHANGED <<EventStarts, SplitEvents, Origin>>
      BY <3>1, SameEvents
    <3>3. Cut' /\ (Window => Window') /\ (Decided => Decided')
      <4>1. Cut'
        BY <3>1, CutStays DEF ScnInv
      <4>2. Window => Window'
        BY <3>1, <3>2 DEF Window
      <4>3. Decided => Decided'
        BY <3>1, <3>2 DEF Decided
      <4> QED BY <4>1, <4>2, <4>3
    <3> QED BY <3>1, <3>2, <3>3 DEF ScnInv
  <2> QED BY <2>1, <2>2, <2>3, <2>4, <2>5, <2>6 DEF ScnNext
<1>3. ScnInv => ScanIsSplit
  BY DEF ScnInv, Cut, ScanIsSplit
<1> QED BY <1>1, <1>2, <1>3, PTL DEF ScnSpec

-----------------------------------------------------------------------------
(* The table of names *)

TableTypes ==
  /\ tbl \in [Slots -> Nat] /\ stamp \in [Slots -> 0 .. GenLimit - 1] /\ gen \in 0 .. GenLimit - 1
  /\ dup \in BOOLEAN /\ repeated \in BOOLEAN
  /\ sig \in Signatures \cup {-1} /\ at \in Slots /\ noted \subseteq Signatures

\* Slots of this event.
Taken == {s \in Slots : gen > 0 /\ stamp[s] = gen}

\* A name of this event is in its first slot that this event has not filled with others.
Within(s) ==
  \E k \in Slots : s = Slot(tbl[s], k) /\ \A j \in 0 .. k - 1 : Slot(tbl[s], j) \in Taken

\* The inductive invariant of NameTable: no stamp is ahead of the number, each name of the
\* event can be found, and the search under way has met others only.
TableInv ==
  /\ TableTypes
  /\ \A s \in Slots : stamp[s] <= gen
  /\ {tbl[s] : s \in Taken} = noted
  /\ \A s \in Taken : Within(s)
  /\ sig = -1 => dup = repeated
  /\ sig # -1 =>
       /\ gen > 0 /\ (repeated <=> dup \/ sig \in noted)
       /\ \A j \in 0 .. at - 1 : Slot(sig, j) \in Taken /\ tbl[Slot(sig, j)] # sig

\* A place of the search is a slot.
LEMMA SlotIsSlot ==
  ASSUME NEW h \in Nat, NEW k \in Nat
  PROVE  Slot(h, k) \in Slots
<1>1. PICK n, m : n = h + k /\ m = SigSlots
  OBVIOUS
<1>2. n \in Nat /\ m \in Nat \ {0}
  BY <1>1, NameTableBounds
<1>3. n % m \in 0 .. m - 1
  BY <1>2
<1> QED BY <1>1, <1>3 DEF Slot, Slots

\* The start.
LEMMA InitTable == TableInit => TableInv
<1> SUFFICES ASSUME TableInit PROVE TableInv
  OBVIOUS
<1>1. /\ tbl = [s \in Slots |-> 0] /\ stamp = [s \in Slots |-> 0] /\ gen = 0 /\ dup = FALSE
      /\ sig = -1 /\ at = 0 /\ noted = {} /\ repeated = FALSE
  BY DEF TableInit
<1>2. 0 \in 0 .. GenLimit - 1 /\ 0 \in Slots
  BY NameTableBounds DEF Slots
<1>3. TableTypes
  BY <1>1, <1>2 DEF TableTypes
<1>4. Taken = {} /\ \A s \in Slots : stamp[s] <= gen
  BY <1>1 DEF Taken
<1> QED BY <1>1, <1>3, <1>4 DEF TableInv

\* Another event: no slot bears its number.
LEMMA BeginEventTable ==
  ASSUME TableInv, BeginEvent
  PROVE  TableInv'
<1>1. /\ UNCHANGED <<tbl, sig, at>> /\ sig = -1
      /\ dup' = FALSE /\ noted' = {} /\ repeated' = FALSE
      /\ \/ gen + 1 # GenLimit /\ gen' = gen + 1 /\ stamp' = stamp
         \/ gen' = 1 /\ stamp' = [s \in Slots |-> 0]
  <2>1. gen \in 0 .. GenLimit - 1 /\ GenLimit \in Nat /\ GenLimit >= 2
    BY NameTableBounds DEF TableInv, TableTypes
  <2>2. gen + 1 = GenLimit => (gen + 1) % GenLimit = 0
    BY <2>1
  <2> QED BY <2>1, <2>2 DEF BeginEvent
<1>2. PICK g : g = gen'
  OBVIOUS
<1>3. /\ TableTypes /\ GenLimit \in Nat /\ GenLimit >= 2 /\ gen \in 0 .. GenLimit - 1
      /\ \A s \in Slots : stamp[s] \in 0 .. GenLimit - 1 /\ stamp[s] <= gen
  BY NameTableBounds DEF TableInv, TableTypes
<1>4. g \in 0 .. GenLimit - 1 /\ g > 0
  BY <1>1, <1>2, <1>3
<1>5. stamp' \in [Slots -> 0 .. GenLimit - 1] /\ \A s \in Slots : stamp'[s] < g
  <2>1. CASE gen' = gen + 1 /\ stamp' = stamp
    BY <1>2, <1>3, <2>1 DEF TableTypes
  <2>2. CASE gen' = 1 /\ stamp' = [s \in Slots |-> 0]
    BY <1>2, <1>3, <2>2
  <2> QED BY <1>1, <2>1, <2>2
<1>6. TableTypes'
  BY <1>1, <1>2, <1>3, <1>4, <1>5 DEF TableTypes
<1>7. Taken' = {} /\ \A s \in Slots : stamp'[s] <= g
  <2>1. \A s \in Slots : stamp'[s] # g /\ stamp'[s] <= g
    BY <1>3, <1>4, <1>5
  <2> QED BY <1>2, <2>1 DEF Taken
<1> QED BY <1>1, <1>2, <1>6, <1>7 DEF TableInv

\* A name begins its search.
LEMMA NoteNameTable ==
  ASSUME TableInv, NoteName
  PROVE  TableInv'
<1>1. PICK h \in Signatures : sig' = h /\ at' = 0 /\ repeated' = (repeated \/ h \in noted)
  BY DEF NoteName
<1>2. UNCHANGED <<tbl, stamp, gen, dup, noted>> /\ sig = -1 /\ gen > 0
  BY DEF NoteName
<1>3. h \in Nat /\ 0 \in Slots
  BY NameTableBounds DEF Slots
<1>4. TableTypes'
  BY <1>1, <1>2, <1>3 DEF TableInv, TableTypes
<1>5. Taken' = Taken /\ \A s \in Taken : Within(s) => Within(s)'
  BY <1>2 DEF Taken, Within
<1>6. repeated' <=> dup \/ h \in noted
  BY <1>1, <1>2 DEF TableInv, TableTypes
<1> QED BY <1>1, <1>2, <1>3, <1>4, <1>5, <1>6 DEF TableInv

\* The search takes a free slot, or finds the name, or goes on.
LEMMA ProbeTable ==
  ASSUME TableInv, Probe
  PROVE  TableInv'
<1>1. PICK slot : slot = Slot(sig, at)
  OBVIOUS
<1>2. /\ TableTypes /\ sig \in Signatures /\ sig \in Nat /\ at \in Slots /\ at \in Nat /\ gen > 0
      /\ slot \in Slots /\ gen \in 0 .. GenLimit - 1 /\ SigSlots \in Nat \ {0}
      /\ gen' = gen /\ repeated' = repeated
  <2>1. sig \in Signatures /\ sig \in Nat /\ at \in Slots /\ at \in Nat /\ SigSlots \in Nat \ {0}
    <3>1. sig \in Signatures \cup {-1} /\ sig # -1 /\ at \in Slots
      BY DEF Probe, TableInv, TableTypes
    <3>2. sig \in Signatures
      BY <3>1
    <3> QED BY <3>1, <3>2, NameTableBounds DEF Slots
  <2>2. slot \in Slots
    BY <1>1, <2>1, SlotIsSlot
  <2> QED BY <2>1, <2>2 DEF Probe, TableInv, TableTypes
<1>3. CASE stamp[slot] # gen
  <2>1. /\ stamp' = [stamp EXCEPT ![slot] = gen] /\ tbl' = [tbl EXCEPT ![slot] = sig]
        /\ sig' = -1 /\ at' = 0 /\ noted' = noted \cup {sig} /\ dup' = dup
    BY <1>1, <1>3 DEF Probe
  <2>2. \A s \in Slots : /\ stamp'[s] = (IF s = slot THEN gen ELSE stamp[s])
                         /\ tbl'[s] = (IF s = slot THEN sig ELSE tbl[s])
    BY <1>2, <2>1 DEF TableTypes
  <2>3. slot \notin Taken /\ Taken' = Taken \cup {slot}
    BY <1>2, <1>3, <2>2 DEF Taken
  <2>4. TableTypes'
    <3>1. stamp' \in [Slots -> 0 .. GenLimit - 1] /\ tbl' \in [Slots -> Nat]
      BY <1>2, <2>1 DEF TableTypes
    <3>2. 0 \in Slots
      BY <1>2 DEF Slots
    <3> QED BY <1>2, <2>1, <3>1, <3>2 DEF TableTypes
  <2>5. sig \notin noted
    <3>1. ASSUME NEW s \in Taken, tbl[s] = sig PROVE FALSE
      <4>1. PICK k \in Slots : s = Slot(sig, k) /\ \A j \in 0 .. k - 1 : Slot(sig, j) \in Taken
        BY <3>1 DEF TableInv, Within
      <4>2. k \in Nat
        BY <4>1 DEF Slots
      <4>3. CASE k < at
        BY <1>2, <3>1, <4>1, <4>2, <4>3 DEF TableInv
      <4>4. CASE k = at
        BY <1>1, <2>3, <3>1, <4>1, <4>4
      <4>5. CASE k > at
        BY <1>1, <1>2, <2>3, <4>1, <4>2, <4>5
      <4> QED BY <1>2, <4>2, <4>3, <4>4, <4>5
    <3> QED BY <3>1 DEF TableInv
  <2>6. {tbl'[s] : s \in Taken'} = noted'
    <3>1. \A s \in Taken : s \in Slots /\ s # slot /\ tbl'[s] = tbl[s]
      BY <2>2, <2>3 DEF Taken
    <3>2. tbl'[slot] = sig
      BY <1>2, <2>2
    <3> QED BY <2>1, <2>3, <3>1, <3>2 DEF TableInv
  <2>7. ASSUME NEW s \in Taken' PROVE Within(s)'
    <3>1. CASE s = slot
      <4>1. \A j \in 0 .. at - 1 : Slot(sig, j) \in Taken'
        BY <1>2, <2>3 DEF TableInv
      <4>2. tbl'[s] = sig
        BY <1>2, <2>2, <3>1
      <4> QED BY <1>1, <1>2, <3>1, <4>1, <4>2 DEF Within
    <3>2. CASE s # slot
      <4>1. s \in Taken /\ tbl'[s] = tbl[s]
        BY <2>2, <2>3, <2>7, <3>2 DEF Taken
      <4>2. Within(s)
        BY <4>1 DEF TableInv
      <4> QED BY <2>3, <4>1, <4>2 DEF Within
    <3> QED BY <3>1, <3>2
  <2>8. \A s \in Slots : stamp'[s] <= gen'
    BY <1>2, <2>2 DEF TableInv
  <2>9. dup' = repeated'
    <3>1. repeated <=> dup
      BY <1>2, <2>5 DEF TableInv, TableTypes
    <3>2. repeated \in BOOLEAN /\ dup \in BOOLEAN
      BY <1>2 DEF TableTypes
    <3> QED BY <1>2, <2>1, <3>1, <3>2
  <2> QED BY <2>1, <2>4, <2>6, <2>7, <2>8, <2>9 DEF TableInv
<1>4. CASE stamp[slot] = gen /\ tbl[slot] = sig
  <2>1. UNCHANGED <<tbl, stamp, noted>> /\ dup' = TRUE /\ sig' = -1 /\ at' = 0
    BY <1>1, <1>4 DEF Probe
  <2>2. Taken' = Taken /\ slot \in Taken /\ \A s : Within(s)' <=> Within(s)
    BY <1>2, <1>4, <2>1 DEF Taken, Within
  <2>3. sig \in noted
    BY <1>4, <2>2 DEF TableInv
  <2>4. repeated' = TRUE
    BY <1>2, <2>3 DEF TableInv, TableTypes
  <2>5. TableTypes'
    <3>1. 0 \in Slots
      BY <1>2 DEF Slots
    <3> QED BY <1>2, <2>1, <3>1 DEF TableTypes
  <2> QED BY <1>2, <2>1, <2>2, <2>4, <2>5 DEF TableInv
<1>5. CASE stamp[slot] = gen /\ tbl[slot] # sig
  <2>1. UNCHANGED <<tbl, stamp, sig, noted, dup>> /\ at' = (at + 1) % SigSlots
    BY <1>1, <1>5 DEF Probe
  <2>2. Taken' = Taken /\ slot \in Taken /\ \A s : Within(s)' <=> Within(s)
    BY <1>2, <1>5, <2>1 DEF Taken, Within
  <2>3. PICK m, n : m = SigSlots /\ n = at + 1
    OBVIOUS
  <2>4. m \in Nat \ {0} /\ n \in 1 .. m /\ at' = n % m
    BY <1>2, <2>1, <2>3 DEF Slots
  <2>5. at' = n \/ at' = 0
    <3>1. n < m => n % m = n
      BY <2>4
    <3>2. n = m => n % m = 0
      BY <2>4
    <3> QED BY <2>4, <3>1, <3>2
  <2>6. at' \in Slots
    <3>1. n % m \in 0 .. m - 1
      BY <2>4
    <3> QED BY <2>3, <2>4, <3>1 DEF Slots
  <2>7. \A j \in 0 .. at' - 1 : Slot(sig, j) \in Taken /\ tbl[Slot(sig, j)] # sig
    <3>1. CASE at' = n
      <4>1. \A j \in 0 .. n - 1 : j \in 0 .. at - 1 \/ j = at
        BY <1>2, <2>3
      <4> QED BY <1>1, <1>2, <1>5, <2>2, <3>1, <4>1 DEF TableInv
    <3>2. CASE at' = 0
      BY <3>2
    <3> QED BY <2>5, <3>1, <3>2
  <2>8. TableTypes'
    BY <1>2, <2>1, <2>6 DEF TableTypes
  <2> QED BY <1>2, <2>1, <2>2, <2>7, <2>8 DEF TableInv
<1> QED BY <1>3, <1>4, <1>5

\* For any names, slots and width of the event numbers: the table knows the names of this
\* event and of no other, and a name is reported as repeated if and only if it is.
THEOREM TableExact == TableSpec => []TableHoldsEvent
<1>1. TableInv /\ [TableNext]_tableVars => TableInv'
  <2>1. TableInv /\ UNCHANGED tableVars => TableInv'
    BY DEF tableVars, TableInv, TableTypes, Taken, Within
  <2> QED BY <2>1, BeginEventTable, NoteNameTable, ProbeTable DEF TableNext
<1>2. TableInv => TableHoldsEvent
  BY DEF TableInv, TableHoldsEvent, Taken
<1> QED BY <1>1, <1>2, InitTable, PTL DEF TableSpec

-----------------------------------------------------------------------------
(* The values of properties *)

Text == Seq(STRING)
Found(lo, hi) == [text : Text, next : lo .. hi]

\* The first place of a letter is 0 or a place where it is.
LEMMA IndexType ==
  ASSUME NEW s \in Text, NEW c, NEW from \in Nat, from >= 1
  PROVE  /\ Index(s, c, from) \in Nat
         /\ Index(s, c, from) # 0 =>
              /\ from <= Index(s, c, from) /\ Index(s, c, from) <= Len(s)
<1> DEFINE places == {i \in from .. Len(s) : s[i] = c}
<1>1. Index(s, c, from) = IF places = {} THEN 0 ELSE Min(places)
  BY DEF Index
<1>2. places \in SUBSET Nat /\ \A i \in places : from <= i /\ i <= Len(s)
  <2>1. Len(s) \in Nat
    BY DEF Text
  <2> QED BY <2>1
<1>3. places # {} => Min(places) \in places
  <2> HIDE DEF places
  <2> QED BY <1>2, MinNat
<1>4. PICK x, n : x = Index(s, c, from) /\ n = Len(s)
  OBVIOUS
<1>5. x = 0 \/ x \in places
  <2> HIDE DEF places
  <2> QED BY <1>1, <1>3, <1>4
<1>6. x = 0 \/ (x \in Nat /\ from <= x /\ x <= n)
  <2> HIDE DEF places
  <2> QED BY <1>2, <1>4, <1>5
<1>7. x \in Nat /\ (x # 0 => from <= x /\ x <= n)
  BY <1>6
<1> QED BY <1>4, <1>7

\* One step of the tables of SingleQuoted and DoubleQuoted.
SingleStep(body, value, p) ==
  IF p > Len(body) THEN [text |-> <<>>, next |-> p]
  ELSE IF body[p] # "'" THEN Prepend(body[p], value[p + 1])
  ELSE IF p < Len(body) /\ body[p + 1] = "'" THEN Prepend("'", value[p + 2])
  ELSE IF p = Len(body) \/ body[p + 1] = "," THEN [text |-> <<>>, next |-> p + 1]
  ELSE Prepend("'", value[p + 1])

DoubleStep(body, value, p) ==
  IF p > Len(body) THEN [text |-> <<>>, next |-> p]
  ELSE IF body[p] # "\"" THEN Prepend(body[p], value[p + 1])
  ELSE IF p < Len(body) /\ body[p + 1] = "\"" THEN Prepend("\"", value[p + 2])
  ELSE [text |-> <<>>, next |-> p + 1]

\* The table in SingleQuoted.
LEMMA SingleTable ==
  ASSUME NEW body, NEW from
  PROVE  \E g : /\ g = (CHOOSE h : h = [p \in from .. Len(body) + 1 |-> SingleStep(body, h, p)])
                /\ SingleQuoted(body, from) = g[from]
BY Zenon DEF SingleQuoted, SingleStep

\* The table in DoubleQuoted.
LEMMA DoubleTable ==
  ASSUME NEW body, NEW from
  PROVE  \E g : /\ g = (CHOOSE h : h = [p \in from .. Len(body) + 1 |-> DoubleStep(body, h, p)])
                /\ DoubleQuoted(body, from) = g[from]
BY Zenon DEF DoubleQuoted, DoubleStep

\* A letter before a value.
LEMMA PrependType ==
  ASSUME NEW c \in STRING, NEW lo, NEW hi, NEW v \in Found(lo, hi)
  PROVE  Prepend(c, v) \in Found(lo, hi)
<1>1. PICK t \in Text, n \in lo .. hi : v = [text |-> t, next |-> n]
  BY DEF Found
<1>2. v.text = t
  BY <1>1
<1>3. Prepend(c, v) = [v EXCEPT !.text = <<c>> \o t]
  BY <1>2 DEF Prepend
<1>4. PICK w : w = <<c>> \o t
  OBVIOUS
<1>5. w \in Text
  <2>1. t \in Seq(STRING) /\ <<c>> \in Seq(STRING)
    BY <1>1 DEF Text
  <2>2. <<c>> \o t \in Seq(STRING)
    BY ONLY <2>1, ConcatProperties
  <2> QED BY <1>4, <2>2 DEF Text
<1>6. Prepend(c, v) = [text |-> w, next |-> n]
  BY <1>1, <1>3, <1>4
<1> QED BY <1>5, <1>6 DEF Found

\* The table: g has a value and its end for each place, by the steps.
SingleRuns(g, body, from) ==
  /\ SingleQuoted(body, from) = g[from]
  /\ \A p \in from .. Len(body) + 1 :
       g[p] = SingleStep(body, g, p) /\ g[p] \in Found(from, Len(body) + 1)

\* There is such a table.
LEMMA SingleSolved ==
  ASSUME NEW body \in Text, NEW from \in Nat, from <= Len(body) + 1, from >= 1
  PROVE  \E g : SingleRuns(g, body, from)
<1>1. PICK hi : hi = Len(body) + 1
  OBVIOUS
<1>2. Len(body) \in Nat /\ hi \in Nat /\ from <= hi /\ body \in Seq(STRING)
  BY <1>1 DEF Text
<1> DEFINE D == from .. hi
           U == Found(from, hi)
           H == [x \in D \X [D -> U] |-> SingleStep(body, x[2], x[1])]
<1>3. \A p \in D : p \in Nat /\ p >= 1 /\ (p > Len(body) => p = hi)
                    /\ (~(p > Len(body)) => p \in DOMAIN body /\ p + 1 \in D /\ p < p + 1)
                    /\ (p < Len(body) => p + 2 \in D /\ p < p + 2)
  BY <1>1, <1>2
<1>4. \A p \in D : [text |-> <<>>, next |-> p] \in U
  BY DEF Found, Text
<1>5. \A p \in DOMAIN body : body[p] \in STRING
  BY <1>2
<1>6. ASSUME NEW p \in D, NEW f, \A q \in D : p < q => f[q] \in U
      PROVE  SingleStep(body, f, p) \in U
  <2>1. \A q \in D : p < q => \A c \in STRING : Prepend(c, f[q]) \in U
    <3> HIDE DEF D
    <3> QED BY <1>6, PrependType
  <2> HIDE DEF D, U
  <2> QED BY <1>3, <1>4, <1>5, <2>1 DEF SingleStep
<1>7. ASSUME NEW p \in D, NEW f \in [D -> U], NEW g \in [D -> U],
             \A q \in D : p < q => f[q] = g[q]
      PROVE  SingleStep(body, f, p) = SingleStep(body, g, p)
  <2> HIDE DEF D, U
  <2> QED BY <1>3, <1>7 DEF SingleStep
<1>8. \A p \in D : \A f \in [D -> U] : H[<<p, f>>] = SingleStep(body, f, p)
  OBVIOUS
<1>9. PICK u : u \in U
  <2>1. from \in D
    BY <1>2
  <2> HIDE DEF D, U
  <2> QED BY <1>4, <2>1
<1>10. \E f \in [D -> U] : \A p \in D : f[p] = H[<<p, f>>]
  <2>1. Stays(D, U, H)
    <3>1. \A p \in D : \A f \in [D -> U] : \A q \in D : f[q] \in U
      OBVIOUS
    <3> HIDE DEF D, U, H
    <3> QED BY <1>6, <1>8, <3>1 DEF Stays
  <2>2. LooksBehind(D, U, H)
    <3> HIDE DEF D, U, H
    <3> QED BY <1>7, <1>8 DEF LooksBehind
  <2>3. D = from .. hi
    OBVIOUS
  <2> HIDE DEF D, U, H
  <2>4. \E f : Solves(f, D, U, H)
    BY <1>2, <1>9, <2>1, <2>2, <2>3, Recursion
  <2> QED BY <2>4 DEF Solves
<1>11. PICK f \in [D -> U] : \A p \in D : f[p] = SingleStep(body, f, p)
  <2> HIDE DEF D, U, H
  <2> QED BY <1>8, <1>10
<1>12. f = [p \in from .. Len(body) + 1 |-> SingleStep(body, f, p)]
  <2> HIDE DEF U
  <2> QED BY <1>1, <1>11
<1>13. PICK g : /\ g = [p \in from .. Len(body) + 1 |-> SingleStep(body, g, p)]
                /\ SingleQuoted(body, from) = g[from]
  BY <1>12, SingleTable
<1>14. \A p \in D : g[p] = SingleStep(body, g, p)
  BY <1>1, <1>13
<1>15. \A p \in D : p \in {q \in D : g[q] \in U}
  <2> DEFINE S == {q \in D : g[q] \in U}
  <2>1. ASSUME NEW p \in D, \A q \in D : p < q => q \in S PROVE p \in S
    <3>1. \A q \in D : p < q => g[q] \in U
      BY <2>1
    <3> HIDE DEF D, U
    <3> QED BY <1>6, <1>14, <3>1
  <2>2. from \in Nat /\ hi \in Nat
    BY <1>2
  <2> HIDE DEF S, U
  <2>3. \A p \in D : p \in S
    <3> QED BY ONLY <2>1, <2>2, FromBehind DEF D
  <2> QED BY <2>3 DEF S
<1>16. \A p \in D : g[p] \in U
  <2> HIDE DEF D, U
  <2> QED BY <1>15
<1> QED BY <1>1, <1>13, <1>14, <1>16 DEF SingleRuns

\* SingleQuoted finds the end of its value in the text.
LEMMA SingleType ==
  ASSUME NEW body \in Text, NEW from \in Nat, from <= Len(body) + 1, from >= 1
  PROVE  SingleQuoted(body, from) \in Found(from, Len(body) + 1)
<1>1. PICK g : SingleRuns(g, body, from)
  BY SingleSolved
<1>2. from \in from .. Len(body) + 1
  BY DEF Text
<1> QED BY <1>1, <1>2 DEF SingleRuns

\* The table: g has a value and its end for each place, by the steps.
DoubleRuns(g, body, from) ==
  /\ DoubleQuoted(body, from) = g[from]
  /\ \A p \in from .. Len(body) + 1 :
       g[p] = DoubleStep(body, g, p) /\ g[p] \in Found(from, Len(body) + 1)

\* There is such a table.
LEMMA DoubleSolved ==
  ASSUME NEW body \in Text, NEW from \in Nat, from <= Len(body) + 1, from >= 1
  PROVE  \E g : DoubleRuns(g, body, from)
<1>1. PICK hi : hi = Len(body) + 1
  OBVIOUS
<1>2. Len(body) \in Nat /\ hi \in Nat /\ from <= hi /\ body \in Seq(STRING)
  BY <1>1 DEF Text
<1> DEFINE D == from .. hi
           U == Found(from, hi)
           H == [x \in D \X [D -> U] |-> DoubleStep(body, x[2], x[1])]
<1>3. \A p \in D : p \in Nat /\ p >= 1 /\ (p > Len(body) => p = hi)
                    /\ (~(p > Len(body)) => p \in DOMAIN body /\ p + 1 \in D /\ p < p + 1)
                    /\ (p < Len(body) => p + 2 \in D /\ p < p + 2)
  BY <1>1, <1>2
<1>4. \A p \in D : [text |-> <<>>, next |-> p] \in U
  BY DEF Found, Text
<1>5. \A p \in DOMAIN body : body[p] \in STRING
  BY <1>2
<1>6. ASSUME NEW p \in D, NEW f, \A q \in D : p < q => f[q] \in U
      PROVE  DoubleStep(body, f, p) \in U
  <2>1. \A q \in D : p < q => \A c \in STRING : Prepend(c, f[q]) \in U
    <3> HIDE DEF D
    <3> QED BY <1>6, PrependType
  <2> HIDE DEF D, U
  <2> QED BY <1>3, <1>4, <1>5, <2>1 DEF DoubleStep
<1>7. ASSUME NEW p \in D, NEW f \in [D -> U], NEW g \in [D -> U],
             \A q \in D : p < q => f[q] = g[q]
      PROVE  DoubleStep(body, f, p) = DoubleStep(body, g, p)
  <2> HIDE DEF D, U
  <2> QED BY <1>3, <1>7 DEF DoubleStep
<1>8. \A p \in D : \A f \in [D -> U] : H[<<p, f>>] = DoubleStep(body, f, p)
  OBVIOUS
<1>9. PICK u : u \in U
  <2>1. from \in D
    BY <1>2
  <2> HIDE DEF D, U
  <2> QED BY <1>4, <2>1
<1>10. \E f \in [D -> U] : \A p \in D : f[p] = H[<<p, f>>]
  <2>1. Stays(D, U, H)
    <3>1. \A p \in D : \A f \in [D -> U] : \A q \in D : f[q] \in U
      OBVIOUS
    <3> HIDE DEF D, U, H
    <3> QED BY <1>6, <1>8, <3>1 DEF Stays
  <2>2. LooksBehind(D, U, H)
    <3> HIDE DEF D, U, H
    <3> QED BY <1>7, <1>8 DEF LooksBehind
  <2>3. D = from .. hi
    OBVIOUS
  <2> HIDE DEF D, U, H
  <2>4. \E f : Solves(f, D, U, H)
    BY <1>2, <1>9, <2>1, <2>2, <2>3, Recursion
  <2> QED BY <2>4 DEF Solves
<1>11. PICK f \in [D -> U] : \A p \in D : f[p] = DoubleStep(body, f, p)
  <2> HIDE DEF D, U, H
  <2> QED BY <1>8, <1>10
<1>12. f = [p \in from .. Len(body) + 1 |-> DoubleStep(body, f, p)]
  <2> HIDE DEF U
  <2> QED BY <1>1, <1>11
<1>13. PICK g : /\ g = [p \in from .. Len(body) + 1 |-> DoubleStep(body, g, p)]
                /\ DoubleQuoted(body, from) = g[from]
  BY <1>12, DoubleTable
<1>14. \A p \in D : g[p] = DoubleStep(body, g, p)
  BY <1>1, <1>13
<1>15. \A p \in D : p \in {q \in D : g[q] \in U}
  <2> DEFINE S == {q \in D : g[q] \in U}
  <2>1. ASSUME NEW p \in D, \A q \in D : p < q => q \in S PROVE p \in S
    <3>1. \A q \in D : p < q => g[q] \in U
      BY <2>1
    <3> HIDE DEF D, U
    <3> QED BY <1>6, <1>14, <3>1
  <2>2. from \in Nat /\ hi \in Nat
    BY <1>2
  <2> HIDE DEF S, U
  <2>3. \A p \in D : p \in S
    <3> QED BY ONLY <2>1, <2>2, FromBehind DEF D
  <2> QED BY <2>3 DEF S
<1>16. \A p \in D : g[p] \in U
  <2> HIDE DEF D, U
  <2> QED BY <1>15
<1> QED BY <1>1, <1>13, <1>14, <1>16 DEF DoubleRuns

\* DoubleQuoted finds the end of its value in the text.
LEMMA DoubleType ==
  ASSUME NEW body \in Text, NEW from \in Nat, from <= Len(body) + 1, from >= 1
  PROVE  DoubleQuoted(body, from) \in Found(from, Len(body) + 1)
<1>1. PICK g : DoubleRuns(g, body, from)
  BY DoubleSolved
<1>2. from \in from .. Len(body) + 1
  BY DEF Text
<1> QED BY <1>1, <1>2 DEF DoubleRuns

\* A part of a text is a text.
LEMMA PartType ==
  ASSUME NEW s \in Text, NEW i \in Nat, NEW j \in Nat, i >= 1, j <= Len(s) + 1
  PROVE  SubSeq(s, i, j - 1) \in Text
<1>1. s \in Seq(STRING) /\ Len(s) \in Nat
  BY DEF Text
<1>2. PICK n, k : n = Len(s) /\ k = j - 1
  OBVIOUS
<1>3. \A x \in i .. k : x \in 1 .. n
  BY <1>1, <1>2
<1>4. \A x \in i .. k : s[x] \in STRING
  BY <1>1, <1>2, <1>3
<1>5. k \in Int /\ SubSeq(s, i, k) \in Seq(STRING)
  BY <1>2, <1>4, SubSeqProperties, <1>1, <1>3
<1> QED BY <1>2, <1>5 DEF Text

\* A value without quotes.
LEMMA BareType ==
  ASSUME NEW body \in Text, NEW from \in Nat, from <= Len(body) + 1, from >= 1
  PROVE  Bare(body, from) \in Found(from, Len(body) + 1)
<1>1. PICK n : n = Len(body)
  OBVIOUS
<1>2. n \in Nat
  BY <1>1 DEF Text
<1>3. PICK comma : comma = Index(body, ",", from)
  OBVIOUS
<1>4. comma \in Nat /\ (comma # 0 => from <= comma /\ comma <= n)
  BY <1>1, <1>3, IndexType
<1>5. PICK e : e = IF comma = 0 THEN n + 1 ELSE comma
  OBVIOUS
<1>6. e \in Nat /\ e \in from .. n + 1
  BY <1>1, <1>2, <1>4, <1>5
<1>7. PICK t : t = SubSeq(body, from, e - 1)
  OBVIOUS
<1>8. t \in Text
  <2>1. e <= Len(body) + 1
    BY <1>1, <1>2, <1>6
  <2> QED BY <1>6, <1>7, <2>1, PartType
<1>9. Bare(body, from) = [text |-> t, next |-> e]
  BY <1>1, <1>3, <1>5, <1>7 DEF Bare
<1> QED BY <1>1, <1>6, <1>8, <1>9 DEF Found

\* A value and where it ends.
LEMMA ValueType ==
  ASSUME NEW body \in Text, NEW from \in Nat, from <= Len(body) + 1, from >= 1
  PROVE  /\ Value(body, from).text \in Text
         /\ Value(body, from).next \in from .. Len(body) + 1
<1>1. PICK n, v : n = Len(body) /\ v = Value(body, from)
  OBVIOUS
<1>2. n \in Nat
  BY <1>1 DEF Text
<1>3. CASE from > n
  <2>1. v = [text |-> <<>>, next |-> from]
    BY <1>1, <1>3 DEF Value
  <2>2. from \in from .. n + 1 /\ <<>> \in Text
    BY <1>1, <1>2, <1>3 DEF Text
  <2>3. v.text = <<>> /\ v.next = from
    BY <2>1
  <2> QED BY <1>1, <2>2, <2>3
<1>4. CASE ~(from > n)
  <2>1. PICK f : f = from + 1
    OBVIOUS
  <2>2. f \in Nat /\ f <= Len(body) + 1 /\ f >= 1 /\ \A x \in f .. n + 1 : x \in from .. n + 1
    BY <1>1, <1>2, <1>4, <2>1
  <2>3. SingleQuoted(body, f) \in Found(f, n + 1) /\ DoubleQuoted(body, f) \in Found(f, n + 1)
    BY <1>1, <2>2, SingleType, DoubleType
  <2>4. Bare(body, from) \in Found(from, n + 1)
    BY <1>1, BareType
  <2>5. \A w \in Found(f, n + 1) : w.text \in Text /\ w.next \in from .. n + 1
    BY <2>2 DEF Found
  <2>6. \A w \in Found(from, n + 1) : w.text \in Text /\ w.next \in from .. n + 1
    BY DEF Found
  <2>7. v = SingleQuoted(body, f) \/ v = DoubleQuoted(body, f) \/ v = Bare(body, from)
    BY <1>1, <1>4, <2>1 DEF Value
  <2> QED BY <1>1, <2>3, <2>4, <2>5, <2>6, <2>7
<1> QED BY <1>3, <1>4

-----------------------------------------------------------------------------
(* The properties *)

Pairs == [name : Text, value : Text]

\* One step of the table of ScanProps.
PropsStep(body, props, p) ==
  LET eq == Index(body, "=", p)
      value == Value(body, eq + 1)
      comma == IF value.next <= Len(body) /\ body[value.next] = "," THEN 1 ELSE 0
  IN IF eq = 0 THEN <<>>
     ELSE <<[name |-> SubSeq(body, p, eq - 1), value |-> value.text]>>
          \o props[value.next + comma]

\* The table in ScanProps.
LEMMA PropsTable ==
  ASSUME NEW body, NEW from
  PROVE  \E g : /\ g = (CHOOSE h : h = [p \in from .. Len(body) + 1 |-> PropsStep(body, h, p)])
                /\ ScanProps(body, from) = g[from]
BY Zenon DEF ScanProps, PropsStep

\* A step adds a pair to the pairs of a place behind, or there is none.
LEMMA PropsStepIs ==
  ASSUME NEW body \in Text, NEW p \in Nat, p >= 1, p <= Len(body) + 1
  PROVE  \/ \A props : PropsStep(body, props, p) = <<>>
         \/ \E x \in Pairs : \E q \in p + 1 .. Len(body) + 1 :
              \A props : PropsStep(body, props, p) = <<x>> \o props[q]
<1>1. PICK n, eq : n = Len(body) /\ eq = Index(body, "=", p)
  OBVIOUS
<1>2. n \in Nat /\ eq \in Nat /\ (eq # 0 => p <= eq /\ eq <= n)
  <2>1. n \in Nat
    BY <1>1 DEF Text
  <2> QED BY <1>1, <2>1, IndexType
<1>3. CASE eq = 0
  BY <1>1, <1>3 DEF PropsStep
<1>4. CASE eq # 0
  <2>1. PICK e : e = eq + 1
    OBVIOUS
  <2>2. e \in Nat /\ e <= Len(body) + 1 /\ e >= 1 /\ p < e
    BY <1>1, <1>2, <1>4, <2>1
  <2>3. PICK t, m : t = Value(body, e).text /\ m = Value(body, e).next
    OBVIOUS
  <2>4. t \in Text /\ m \in e .. n + 1
    BY <1>1, <2>2, <2>3, ValueType
  <2>5. PICK c : c = IF m <= n /\ body[m] = "," THEN 1 ELSE 0
    OBVIOUS
  <2>6. PICK q : q = m + c
    OBVIOUS
  <2>7. q \in p + 1 .. n + 1
    <3>1. c = 0 \/ (c = 1 /\ m <= n)
      BY <2>5
    <3>2. m \in Nat /\ m >= p + 1 /\ m <= n + 1
      BY <1>2, <2>2, <2>4
    <3> QED BY <1>2, <2>6, <3>1, <3>2
  <2>8. SubSeq(body, p, eq - 1) \in Text
    <3>1. eq <= Len(body) + 1
      BY <1>1, <1>2, <1>4
    <3> QED BY <1>2, <3>1, PartType
  <2>9. PICK x : x = [name |-> SubSeq(body, p, eq - 1), value |-> t]
    OBVIOUS
  <2>10. x \in Pairs
    BY <2>4, <2>8, <2>9 DEF Pairs
  <2>11. \A props : PropsStep(body, props, p) = <<x>> \o props[q]
    BY <1>1, <1>4, <2>1, <2>3, <2>5, <2>6, <2>9 DEF PropsStep
  <2> QED BY <1>1, <2>7, <2>10, <2>11
<1> QED BY <1>3, <1>4

\* The table: g has the pairs from each place on.
PropsRuns(g, body, from) ==
  /\ ScanProps(body, from) = g[from]
  /\ \A p \in from .. Len(body) + 1 : g[p] = PropsStep(body, g, p) /\ g[p] \in Seq(Pairs)

\* There is such a table.
LEMMA PropsSolved ==
  ASSUME NEW body \in Text, NEW from \in Nat, from <= Len(body) + 1, from >= 1
  PROVE  \E g : PropsRuns(g, body, from)
<1>1. PICK hi : hi = Len(body) + 1
  OBVIOUS
<1>2. Len(body) \in Nat /\ hi \in Nat /\ from <= hi
  BY <1>1 DEF Text
<1> DEFINE D == from .. hi
           U == Seq(Pairs)
           H == [x \in D \X [D -> U] |-> PropsStep(body, x[2], x[1])]
<1>3. \A p \in D : p \in Nat /\ p >= 1 /\ p <= Len(body) + 1
                    /\ \A q \in p + 1 .. Len(body) + 1 : q \in D /\ p < q
  BY <1>1, <1>2
<1>4. <<>> \in U /\ \A x \in Pairs : \A s \in U : <<x>> \o s \in U
  <2>1. \A x \in Pairs : <<x>> \in Seq(Pairs)
    OBVIOUS
  <2>2. ASSUME NEW x \in Pairs, NEW s \in Seq(Pairs) PROVE <<x>> \o s \in Seq(Pairs)
    <3>1. PICK a : a = <<x>>
      OBVIOUS
    <3>2. a \in Seq(Pairs)
      BY <2>1, <3>1
    <3>3. a \o s \in Seq(Pairs)
      BY ONLY <2>2, <3>2, ConcatProperties
    <3> QED BY <3>1, <3>3
  <2> QED BY <2>2
<1>5. ASSUME NEW p \in D
      PROVE  \/ \A props : PropsStep(body, props, p) = <<>>
             \/ \E x \in Pairs : \E q \in D :
                  p < q /\ \A props : PropsStep(body, props, p) = <<x>> \o props[q]
  <2> HIDE DEF D
  <2> QED BY <1>3, PropsStepIs
<1>6. ASSUME NEW p \in D, NEW f, \A q \in D : p < q => f[q] \in U
      PROVE  PropsStep(body, f, p) \in U
  <2> HIDE DEF D, U
  <2> QED BY <1>4, <1>5, <1>6
<1>7. ASSUME NEW p \in D, NEW f \in [D -> U], NEW g \in [D -> U],
             \A q \in D : p < q => f[q] = g[q]
      PROVE  PropsStep(body, f, p) = PropsStep(body, g, p)
  <2> HIDE DEF D, U
  <2> QED BY <1>5, <1>7
<1>8. \A p \in D : \A f \in [D -> U] : H[<<p, f>>] = PropsStep(body, f, p)
  OBVIOUS
<1>9. PICK u : u \in U
  BY <1>4
<1>10. \E f \in [D -> U] : \A p \in D : f[p] = H[<<p, f>>]
  <2>1. Stays(D, U, H)
    <3>1. \A p \in D : \A f \in [D -> U] : \A q \in D : f[q] \in U
      OBVIOUS
    <3> HIDE DEF D, U, H
    <3> QED BY <1>6, <1>8, <3>1 DEF Stays
  <2>2. LooksBehind(D, U, H)
    <3> HIDE DEF D, U, H
    <3> QED BY <1>7, <1>8 DEF LooksBehind
  <2>3. D = from .. hi
    OBVIOUS
  <2> HIDE DEF D, U, H
  <2>4. \E f : Solves(f, D, U, H)
    BY <1>2, <1>9, <2>1, <2>2, <2>3, Recursion
  <2> QED BY <2>4 DEF Solves
<1>11. PICK f \in [D -> U] : \A p \in D : f[p] = PropsStep(body, f, p)
  <2> HIDE DEF D, U, H
  <2> QED BY <1>8, <1>10
<1>12. f = [p \in from .. Len(body) + 1 |-> PropsStep(body, f, p)]
  <2> HIDE DEF U
  <2> QED BY <1>1, <1>11
<1>13. PICK g : /\ g = [p \in from .. Len(body) + 1 |-> PropsStep(body, g, p)]
                /\ ScanProps(body, from) = g[from]
  BY <1>12, PropsTable
<1>14. \A p \in D : g[p] = PropsStep(body, g, p)
  BY <1>1, <1>13
<1>15. \A p \in D : p \in {q \in D : g[q] \in U}
  <2> DEFINE S == {q \in D : g[q] \in U}
  <2>1. ASSUME NEW p \in D, \A q \in D : p < q => q \in S PROVE p \in S
    <3>1. \A q \in D : p < q => g[q] \in U
      BY <2>1
    <3> HIDE DEF D, U
    <3> QED BY <1>6, <1>14, <3>1
  <2>2. from \in Nat /\ hi \in Nat
    BY <1>2
  <2> HIDE DEF S, U
  <2>3. \A p \in D : p \in S
    <3> QED BY ONLY <2>1, <2>2, FromBehind DEF D
  <2> QED BY <2>3 DEF S
<1>16. \A p \in D : g[p] \in U
  <2> HIDE DEF D, U
  <2> QED BY <1>15
<1> QED BY <1>1, <1>13, <1>14, <1>16 DEF PropsRuns

\* ScanProps gives pairs.
LEMMA PropsType ==
  ASSUME NEW body \in Text, NEW from \in Nat, from <= Len(body) + 1, from >= 1
  PROVE  ScanProps(body, from) \in Seq(Pairs)
<1>1. PICK g : PropsRuns(g, body, from)
  BY PropsSolved
<1>2. from \in from .. Len(body) + 1
  BY DEF Text
<1> QED BY <1>1, <1>2 DEF PropsRuns

-----------------------------------------------------------------------------
(* The places of a set, in order *)

\* How many places of a set are not behind i.
Rank(places, i) == Cardinality({j \in places : j <= i})

\* Every place has its number, and Kth finds it.
LEMMA KthOf ==
  ASSUME NEW S \in SUBSET Nat, IsFiniteSet(S)
  PROVE  /\ Cardinality(S) \in Nat
         /\ \A i \in S : Rank(S, i) \in 1 .. Cardinality(S) /\ Kth(S, Rank(S, i)) = i
         /\ \A k \in 1 .. Cardinality(S) : Kth(S, k) \in S /\ Rank(S, Kth(S, k)) = k
         /\ \A i, j \in S : i < j => Rank(S, i) < Rank(S, j)
<1> DEFINE Up(i) == {j \in S : j <= i}
           N == 1 .. Cardinality(S)
           rank == [i \in S |-> Rank(S, i)]
<1>1. Cardinality(S) \in Nat
  BY FS_CardinalityType
<1>2. \A i \in S : /\ IsFiniteSet(Up(i)) /\ Cardinality(Up(i)) \in Nat
                   /\ Cardinality(Up(i)) <= Cardinality(S) /\ Up(i) # {}
  <2>1. \A i \in S : Up(i) \in SUBSET S /\ i \in Up(i)
    OBVIOUS
  <2> HIDE DEF Up
  <2> QED BY <2>1, FS_Subset, FS_CardinalityType
<1>3. \A i \in S : Rank(S, i) = Cardinality(Up(i))
  BY DEF Rank
<1>4. \A i \in S : Rank(S, i) \in N
  <2>1. ASSUME NEW i \in S PROVE Rank(S, i) \in N
    <3>1. Cardinality(Up(i)) # 0
      BY <1>2, FS_EmptySet
    <3>2. PICK c, n : c = Cardinality(Up(i)) /\ n = Cardinality(S)
      OBVIOUS
    <3>3. c \in Nat /\ n \in Nat /\ c <= n /\ c # 0
      BY <1>1, <1>2, <3>1, <3>2
    <3>4. c \in 1 .. n
      BY <3>3
    <3> QED BY <1>3, <3>2, <3>4
  <2> QED BY <2>1
<1>5. \A i, j \in S : i < j => Rank(S, i) < Rank(S, j)
  <2>1. ASSUME NEW i \in S, NEW j \in S, i < j PROVE Rank(S, i) < Rank(S, j)
    <3>1. i \in Nat /\ j \in Nat
      OBVIOUS
    <3>2. Up(i) \cup {j} \in SUBSET Up(j) /\ j \notin Up(i)
      <4>1. \A q \in S : q \in Nat
        OBVIOUS
      <4>2. \A q \in S : q <= i => q <= j
        BY <2>1, <3>1, <4>1
      <4>3. j <= j /\ ~(j <= i)
        BY <2>1, <3>1
      <4> QED BY <4>2, <4>3
    <3> HIDE DEF Up
    <3>3. Cardinality(Up(i) \cup {j}) = Cardinality(Up(i)) + 1
      BY <1>2, <3>2, FS_AddElement
    <3>4. Cardinality(Up(i) \cup {j}) <= Cardinality(Up(j))
      BY <1>2, <3>2, FS_Subset
    <3>5. PICK c, n : c = Cardinality(Up(i)) /\ n = Cardinality(Up(j))
      OBVIOUS
    <3>6. c \in Nat /\ n \in Nat /\ c + 1 <= n
      BY <1>2, <3>3, <3>4, <3>5
    <3>7. c < n
      BY <3>6
    <3> QED BY <1>3, <3>5, <3>7
  <2> QED BY <2>1
<1>6. \A i, j \in S : Rank(S, i) = Rank(S, j) => i = j
  <2>1. ASSUME NEW i \in S, NEW j \in S, i # j PROVE Rank(S, i) # Rank(S, j)
    <3>1. i < j \/ j < i
      BY <2>1
    <3>2. \A n \in N : ~(n < n)
      BY <1>1
    <3> HIDE DEF N
    <3> QED BY <1>4, <1>5, <3>1, <3>2
  <2> QED BY <2>1
<1>7. rank \in Injection(S, N)
  <2>1. rank \in [S -> N]
    BY <1>4
  <2>2. \A i, j \in S : rank[i] = rank[j] => i = j
    BY <1>6
  <2> HIDE DEF rank, N
  <2> QED BY <2>1, <2>2 DEF Injection, IsInjective
<1>8. rank \in Surjection(S, N)
  <2>1. IsFiniteSet(N) /\ Cardinality(N) = Cardinality(S)
    BY <1>1, FS_Interval
  <2> HIDE DEF rank, N
  <2> QED BY <1>7, <2>1, FS_Injection
<1>9. \A k \in N : \E i \in S : Rank(S, i) = k
  <2>1. \A k \in N : \E i \in S : rank[i] = k
    <3> HIDE DEF rank, N
    <3> QED BY <1>8 DEF Surjection
  <2> QED BY <2>1
<1>10. \A k \in N : Kth(S, k) \in S /\ Rank(S, Kth(S, k)) = k
  <2>1. ASSUME NEW k \in N PROVE Kth(S, k) \in S /\ Rank(S, Kth(S, k)) = k
    <3>1. \E i \in S : Cardinality({j \in S : j <= i}) = k
      BY <1>9, <2>1 DEF Rank
    <3> QED BY <3>1 DEF Kth, Rank
  <2> QED BY <2>1
<1>11. \A i \in S : Kth(S, Rank(S, i)) = i
  BY <1>4, <1>6, <1>10
<1> HIDE DEF N
<1> QED BY <1>1, <1>4, <1>5, <1>10, <1>11 DEF N

\* A function with these numbers is Kth.
LEMMA KthIs ==
  ASSUME NEW S \in SUBSET Nat, IsFiniteSet(S), NEW i \in S
  PROVE  Kth(S, Rank(S, i)) = i /\ Rank(S, i) \in 1 .. Cardinality(S)
BY KthOf

\* One place more, behind all others.
LEMMA KthGrows ==
  ASSUME NEW S \in SUBSET Nat, IsFiniteSet(S), NEW m \in Nat, \A i \in S : i < m,
         NEW T \in SUBSET Nat, S \in SUBSET T, m \in T, \A i \in T : i \in S \/ i = m
  PROVE  /\ IsFiniteSet(T) /\ Cardinality(T) = Cardinality(S) + 1
         /\ \A k \in 1 .. Cardinality(S) : Kth(T, k) = Kth(S, k)
         /\ Kth(T, Cardinality(S) + 1) = m
<1>1. m \notin S /\ Cardinality(S) \in Nat
  <2>1. ~(m < m)
    OBVIOUS
  <2> QED BY <2>1, FS_CardinalityType
<1>2. IsFiniteSet(T) /\ Cardinality(T) = Cardinality(S) + 1
  <2>1. T = S \cup {m}
    OBVIOUS
  <2> QED BY <1>1, <2>1, FS_AddElement
<1>3. \A i \in S : Rank(T, i) = Rank(S, i) /\ i \in T
  <2>1. ASSUME NEW i \in S PROVE Rank(T, i) = Rank(S, i)
    <3>1. ~(m <= i)
      <4>1. i < m /\ i \in Nat
        OBVIOUS
      <4> QED BY <4>1
    <3>2. {j \in T : j <= i} = {j \in S : j <= i}
      BY <3>1
    <3> QED BY <3>2 DEF Rank
  <2> QED BY <2>1
<1>4. Rank(T, m) = Cardinality(S) + 1
  <2>1. {j \in T : j <= m} = T
    <3>1. \A j \in S : j <= m
      <4>1. \A j \in S : j \in Nat /\ j < m
        OBVIOUS
      <4> QED BY <4>1
    <3>2. m <= m
      OBVIOUS
    <3> QED BY <3>1, <3>2
  <2> QED BY <1>2, <2>1 DEF Rank
<1>5. ASSUME NEW k \in 1 .. Cardinality(S) PROVE Kth(T, k) = Kth(S, k)
  <2>1. Kth(S, k) \in S /\ Rank(S, Kth(S, k)) = k
    BY KthOf
  <2>2. Rank(T, Kth(S, k)) = k /\ Kth(S, k) \in T
    BY <1>3, <2>1
  <2> QED BY <1>2, <2>2, KthIs
<1>6. Kth(T, Cardinality(S) + 1) = m
  <2>1. m \in T
    OBVIOUS
  <2> QED BY <1>2, <1>4, <2>1, KthIs
<1> QED BY <1>2, <1>5, <1>6

\* The places of a name, those where a name comes first.
PlacesOf(pairs, name) == {i \in DOMAIN pairs : pairs[i].name = name}
Firsts(pairs) == {i \in DOMAIN pairs : \A j \in 1 .. i - 1 : pairs[j].name # pairs[i].name}

\* Places are finitely many numbers.
LEMMA PlacesFinite ==
  ASSUME NEW U, NEW s \in Seq(U), NEW S \in SUBSET DOMAIN s
  PROVE  S \in SUBSET Nat /\ IsFiniteSet(S) /\ Cardinality(S) \in Nat
<1>1. DOMAIN s = 1 .. Len(s) /\ Len(s) \in Nat
  OBVIOUS
<1>2. IsFiniteSet(1 .. Len(s)) /\ S \in SUBSET (1 .. Len(s))
  BY <1>1, FS_Interval
<1> QED BY <1>1, <1>2, FS_Subset, FS_CardinalityType

\* The values of a name, one by one.
LEMMA ValuesAre ==
  ASSUME NEW U, NEW s \in Seq(U), NEW name
  PROVE  /\ ValuesOf(s, name) =
              [k \in 1 .. Cardinality(PlacesOf(s, name)) |-> s[Kth(PlacesOf(s, name), k)].value]
         /\ PlacesOf(s, name) \in SUBSET Nat /\ IsFiniteSet(PlacesOf(s, name))
         /\ Cardinality(PlacesOf(s, name)) \in Nat
         /\ Len(ValuesOf(s, name)) = Cardinality(PlacesOf(s, name))
         /\ DOMAIN ValuesOf(s, name) = 1 .. Cardinality(PlacesOf(s, name))
<1>1. PlacesOf(s, name) \in SUBSET DOMAIN s
  BY DEF PlacesOf
<1>2. /\ PlacesOf(s, name) \in SUBSET Nat /\ IsFiniteSet(PlacesOf(s, name))
      /\ Cardinality(PlacesOf(s, name)) \in Nat
  BY <1>1, PlacesFinite
<1>3. ValuesOf(s, name) =
        [k \in 1 .. Cardinality(PlacesOf(s, name)) |-> s[Kth(PlacesOf(s, name), k)].value]
  BY DEF ValuesOf, PlacesOf
<1>4. PICK n : n = Cardinality(PlacesOf(s, name))
  OBVIOUS
<1>5. Len(ValuesOf(s, name)) = n
  BY <1>2, <1>3, <1>4
<1> QED BY <1>2, <1>3, <1>4, <1>5

\* t is s with x at its end.
Longer(t, s, x) == t = Append(s, x)
HasValues(P, V) == \A p \in P : p.value \in V

\* The values of a name are values, and none of nothing.
LEMMA ValuesType ==
  ASSUME NEW V, NEW P, HasValues(P, V), NEW s \in Seq(P), NEW name
  PROVE  /\ ValuesOf(s, name) \in Seq(V)
         /\ (\A i \in DOMAIN s : s[i].name # name) <=> ValuesOf(s, name) = <<>>
<1> USE DEF HasValues
<1> DEFINE S == PlacesOf(s, name)
<1>1. /\ ValuesOf(s, name) = [k \in 1 .. Cardinality(S) |-> s[Kth(S, k)].value]
      /\ S \in SUBSET Nat /\ IsFiniteSet(S) /\ Cardinality(S) \in Nat
      /\ Len(ValuesOf(s, name)) = Cardinality(S)
  BY ValuesAre
<1>2. \A k \in 1 .. Cardinality(S) : s[Kth(S, k)].value \in V
  <2>1. ASSUME NEW k \in 1 .. Cardinality(S) PROVE s[Kth(S, k)].value \in V
    <3>1. Kth(S, k) \in S
      BY <1>1, KthOf
    <3>2. Kth(S, k) \in DOMAIN s
      BY <3>1 DEF PlacesOf
    <3>3. \A i \in DOMAIN s : s[i].value \in V
      OBVIOUS
    <3> QED BY <3>2, <3>3
  <2> QED BY <2>1
<1>3. ValuesOf(s, name) \in Seq(V)
  BY <1>1, <1>2
<1>4. (\A i \in DOMAIN s : s[i].name # name) <=> S = {}
  BY DEF PlacesOf
<1>5. S = {} <=> Cardinality(S) = 0
  BY <1>1, FS_EmptySet
<1>6. Cardinality(S) = 0 <=> ValuesOf(s, name) = <<>>
  BY <1>1, <1>3
<1> QED BY <1>3, <1>4, <1>5, <1>6

\* One pair more.
LEMMA ValuesAppend ==
  ASSUME NEW V, NEW P, HasValues(P, V), NEW s \in Seq(P), NEW x \in P,
         NEW t, Longer(t, s, x), NEW name
  PROVE  ValuesOf(t, name) =
           IF x.name = name THEN Append(ValuesOf(s, name), x.value) ELSE ValuesOf(s, name)
<1> USE DEF HasValues, Longer
<1> DEFINE S == PlacesOf(s, name)
           T == PlacesOf(t, name)
<1>1. PICK m : m = Len(s) + 1
  OBVIOUS
<1>2. /\ m \in Nat /\ t \in Seq(P) /\ DOMAIN s = 1 .. Len(s) /\ Len(s) \in Nat
      /\ DOMAIN t = 1 .. m /\ t[m] = x /\ \A i \in 1 .. Len(s) : t[i] = s[i]
      /\ \A i \in 1 .. Len(s) : i \in Nat /\ i < m /\ i \in 1 .. m
      /\ \A i \in 1 .. m : i \in 1 .. Len(s) \/ i = m
      /\ m \in 1 .. m
  BY <1>1
<1>3. /\ ValuesOf(s, name) = [k \in 1 .. Cardinality(S) |-> s[Kth(S, k)].value]
      /\ S \in SUBSET Nat /\ IsFiniteSet(S) /\ Cardinality(S) \in Nat
      /\ Len(ValuesOf(s, name)) = Cardinality(S)
  BY ValuesAre
<1>4. /\ ValuesOf(t, name) = [k \in 1 .. Cardinality(T) |-> t[Kth(T, k)].value]
      /\ Cardinality(T) \in Nat
  <2>1. t \in Seq(P)
    OBVIOUS
  <2> HIDE DEF S, T
  <2> QED BY ONLY <2>1, ValuesAre DEF T
<1>5. S \in SUBSET (1 .. Len(s)) /\ \A i \in S : i < m
  BY <1>2 DEF PlacesOf
<1>6. CASE x.name # name
  <2>1. T = S
    BY <1>2, <1>6 DEF PlacesOf
  <2>2. ASSUME NEW k \in 1 .. Cardinality(S) PROVE t[Kth(S, k)] = s[Kth(S, k)]
    <3>1. Kth(S, k) \in S
      BY <1>3, KthOf
    <3> QED BY <1>2, <1>5, <3>1
  <2> HIDE DEF S, T
  <2> QED BY <1>3, <1>4, <1>6, <2>1, <2>2
<1>7. CASE x.name = name
  <2>1. T = S \cup {m}
    BY <1>2, <1>7 DEF PlacesOf
  <2>2. /\ Cardinality(T) = Cardinality(S) + 1
        /\ \A k \in 1 .. Cardinality(S) : Kth(T, k) = Kth(S, k)
        /\ Kth(T, Cardinality(S) + 1) = m
    <3>1. m \in Nat /\ S \in SUBSET Nat /\ IsFiniteSet(S) /\ \A i \in S : i < m
      BY <1>2, <1>3, <1>5
    <3>2. PICK a, b : a = S /\ b = T
      OBVIOUS
    <3>3. /\ a \in SUBSET Nat /\ IsFiniteSet(a) /\ m \in Nat /\ \A i \in a : i < m
          /\ b \in SUBSET Nat /\ a \in SUBSET b /\ m \in b /\ \A i \in b : i \in a \/ i = m
      BY <2>1, <3>1, <3>2
    <3>4. /\ Cardinality(b) = Cardinality(a) + 1
          /\ \A k \in 1 .. Cardinality(a) : Kth(b, k) = Kth(a, k)
          /\ Kth(b, Cardinality(a) + 1) = m
      BY ONLY <3>3, KthGrows
    <3> QED BY <3>2, <3>4
  <2>3. ASSUME NEW k \in 1 .. Cardinality(S) PROVE t[Kth(T, k)] = s[Kth(S, k)]
    <3>1. Kth(S, k) \in S
      BY <1>3, KthOf
    <3> QED BY <1>2, <1>5, <2>2, <3>1
  <2>4. PICK n, v, w : n = Cardinality(S) /\ v = ValuesOf(s, name) /\ w = ValuesOf(t, name)
    OBVIOUS
  <2>5. v \in Seq(V) /\ w \in Seq(V) /\ x.value \in V
    BY <1>2, <2>4, ValuesType
  <2>6. n \in Nat /\ Len(v) = n /\ Len(w) = n + 1
    BY <1>3, <1>4, <2>2, <2>4
  <2>7. \A k \in 1 .. n : w[k] = v[k]
    <3> HIDE DEF S, T
    <3>1. ASSUME NEW k \in 1 .. n PROVE w[k] = v[k]
      <4>1. k \in 1 .. Cardinality(T) /\ k \in 1 .. Cardinality(S)
        BY <1>3, <2>2, <2>4
      <4> QED BY <1>3, <1>4, <2>3, <2>4, <4>1
    <3> QED BY <3>1
  <2>8. w[n + 1] = x.value
    <3> HIDE DEF S, T
    <3>1. n + 1 \in 1 .. Cardinality(T)
      BY <1>3, <2>2, <2>4
    <3> QED BY <1>2, <1>4, <2>2, <2>4, <3>1
  <2>9. w = Append(v, x.value)
    <3>1. /\ Append(v, x.value) \in Seq(V) /\ Len(Append(v, x.value)) = n + 1
          /\ \A k \in 1 .. n + 1 : Append(v, x.value)[k] = w[k]
      BY <2>5, <2>6, <2>7, <2>8
    <3> QED BY <2>5, <2>6, <3>1, SeqSame
  <2> QED BY <1>7, <2>4, <2>9
<1> QED BY <1>6, <1>7

\* The first place of a name.
LEMMA FirstOf ==
  ASSUME NEW U, NEW s \in Seq(U), NEW i \in DOMAIN s
  PROVE  \E f \in Firsts(s) : s[f].name = s[i].name
<1> DEFINE S == PlacesOf(s, s[i].name)
<1>1. S \in SUBSET Nat /\ i \in S
  <2>1. S \in SUBSET DOMAIN s /\ i \in S
    BY DEF PlacesOf
  <2> HIDE DEF S
  <2> QED BY <2>1, PlacesFinite
<1>2. PICK m \in S : \A x \in S : m <= x
  <2> HIDE DEF S
  <2> QED BY <1>1, MinNat
<1>3. m \in DOMAIN s /\ s[m].name = s[i].name /\ m \in 1 .. Len(s) /\ Len(s) \in Nat
  BY DEF PlacesOf
<1>4. \A j \in 1 .. m - 1 : j \in DOMAIN s /\ ~(m <= j)
  <2>1. DOMAIN s = 1 .. Len(s)
    OBVIOUS
  <2>2. \A j \in 1 .. m - 1 : j \in 1 .. Len(s) /\ ~(m <= j)
    BY <1>3
  <2> QED BY <2>1, <2>2
<1>5. \A j \in 1 .. m - 1 : s[j].name # s[m].name
  BY <1>2, <1>3, <1>4 DEF PlacesOf
<1> QED BY <1>3, <1>5 DEF Firsts

\* No two first places of one name.
LEMMA FirstOnce ==
  ASSUME NEW U, NEW s \in Seq(U), NEW i \in Firsts(s), NEW j \in Firsts(s), s[i].name = s[j].name
  PROVE  i = j
<1>1. i \in 1 .. Len(s) /\ j \in 1 .. Len(s) /\ Len(s) \in Nat
  BY DEF Firsts
<1>2. i < j => i \in 1 .. j - 1
  BY <1>1
<1>3. j < i => j \in 1 .. i - 1
  BY <1>1
<1>4. ~(i < j) /\ ~(j < i)
  BY <1>2, <1>3 DEF Firsts
<1> QED BY <1>1, <1>4

\* What a name that is there has in the groups; a group per name.
LEMMA GroupedIs ==
  ASSUME NEW U, NEW s \in Seq(U)
  PROVE  LET g == Grouped(s) IN
         /\ Len(g) = Cardinality(Firsts(s)) /\ DOMAIN g = 1 .. Cardinality(Firsts(s))
         /\ Cardinality(Firsts(s)) \in Nat
         /\ \A k \in DOMAIN g : g[k].key = s[Kth(Firsts(s), k)].name
                                /\ g[k].values = ValuesOf(s, g[k].key)
                                /\ Kth(Firsts(s), k) \in Firsts(s)
         /\ \A i, j \in DOMAIN g : g[i].key = g[j].key => i = j
<1> DEFINE F == Firsts(s)
<1>1. PICK g : g = Grouped(s)
  OBVIOUS
<1>2. F \in SUBSET Nat /\ IsFiniteSet(F) /\ Cardinality(F) \in Nat
  <2>1. F \in SUBSET DOMAIN s
    BY DEF Firsts
  <2> HIDE DEF F
  <2> QED BY <2>1, PlacesFinite
<1>3. g = [k \in 1 .. Cardinality(F) |->
             [key |-> s[Kth(F, k)].name, values |-> ValuesOf(s, s[Kth(F, k)].name)]]
  BY <1>1 DEF Grouped, Firsts
<1>4. PICK n : n = Cardinality(F)
  OBVIOUS
<1>5. DOMAIN g = 1 .. n /\ Len(g) = n
  <2> HIDE DEF F
  <2> QED BY <1>2, <1>3, <1>4
<1>6. \A k \in 1 .. n : g[k].key = s[Kth(F, k)].name /\ g[k].values = ValuesOf(s, g[k].key)
  <2> HIDE DEF F
  <2> QED BY <1>3, <1>4
<1>7. \A k \in 1 .. n : Kth(F, k) \in F /\ Rank(F, Kth(F, k)) = k
  <2> HIDE DEF F
  <2> QED BY <1>2, <1>4, KthOf
<1>8. ASSUME NEW i \in 1 .. n, NEW j \in 1 .. n, g[i].key = g[j].key PROVE i = j
  <2>1. PICK a, b : a = Kth(F, i) /\ b = Kth(F, j)
    OBVIOUS
  <2>2. a \in Firsts(s) /\ b \in Firsts(s) /\ s[a].name = s[b].name
    BY <1>6, <1>7, <1>8, <2>1
  <2>3. a = b
    BY <2>2, FirstOnce
  <2> QED BY <1>7, <2>1, <2>3
<1> QED BY <1>1, <1>2, <1>4, <1>5, <1>6, <1>7, <1>8

\* The values of a key that is there once.
LEMMA ValuesInAt ==
  ASSUME NEW g, NEW n \in Nat, DOMAIN g = 1 .. n, NEW k \in 1 .. n,
         \A i, j \in DOMAIN g : g[i].key = g[j].key => i = j
  PROVE  ValuesIn(g, g[k].key) = g[k].values
<1> DEFINE own == {i \in DOMAIN g : g[i].key = g[k].key}
<1>1. own = {k}
  OBVIOUS
<1>2. own \in SUBSET Nat /\ own # {}
  BY <1>1
<1>3. Min(own) \in own
  <2> HIDE DEF own
  <2> QED BY <1>2, MinNat
<1>4. Min(own) = k
  BY <1>1, <1>3
<1> QED BY <1>2, <1>4 DEF ValuesIn

\* And of one that is not there.
LEMMA ValuesInNone ==
  ASSUME NEW g, NEW name, \A k \in DOMAIN g : g[k].key # name
  PROVE  ValuesIn(g, name) = <<>>
BY DEF ValuesIn

\* A name has in the groups what it has in the pairs.
LEMMA GroupedValues ==
  ASSUME NEW V, NEW P, HasValues(P, V), NEW s \in Seq(P), NEW name
  PROVE  ValuesIn(Grouped(s), name) = ValuesOf(s, name)
<1>1. PICK g : g = Grouped(s)
  OBVIOUS
<1>2. PICK n : n = Cardinality(Firsts(s))
  OBVIOUS
<1>3. /\ n \in Nat /\ DOMAIN g = 1 .. n
      /\ \A k \in DOMAIN g : g[k].key = s[Kth(Firsts(s), k)].name
                             /\ g[k].values = ValuesOf(s, g[k].key)
                             /\ Kth(Firsts(s), k) \in Firsts(s)
      /\ \A i, j \in DOMAIN g : g[i].key = g[j].key => i = j
  BY <1>1, <1>2, GroupedIs
<1>4. CASE \E i \in DOMAIN s : s[i].name = name
  <2>1. PICK f \in Firsts(s) : s[f].name = name
    BY <1>4, FirstOf
  <2>2. Firsts(s) \in SUBSET Nat /\ IsFiniteSet(Firsts(s))
    <3>1. Firsts(s) \in SUBSET DOMAIN s
      BY DEF Firsts
    <3> QED BY <3>1, PlacesFinite
  <2>3. PICK k : k = Rank(Firsts(s), f)
    OBVIOUS
  <2>4. k \in 1 .. n /\ Kth(Firsts(s), k) = f
    BY <1>2, <2>2, <2>3, KthIs
  <2>5. g[k].key = name
    BY <1>3, <2>1, <2>4
  <2> QED BY <1>1, <1>3, <2>4, <2>5, ValuesInAt
<1>5. CASE ~ \E i \in DOMAIN s : s[i].name = name
  <2>1. \A k \in DOMAIN g : g[k].key # name
    BY <1>3, <1>5 DEF Firsts
  <2>2. ValuesIn(g, name) = <<>>
    BY <2>1, ValuesInNone
  <2>3. ValuesOf(s, name) = <<>>
    BY <1>5, ValuesType
  <2> QED BY <1>1, <2>2, <2>3
<1> QED BY <1>4, <1>5

\* One element more at the end.
LEMMA PrefixGrows ==
  ASSUME NEW V, NEW s \in Seq(V), NEW n \in Nat, n + 1 <= Len(s)
  PROVE  /\ SubSeq(s, 1, n) \in Seq(V) /\ SubSeq(s, 1, n + 1) \in Seq(V)
         /\ SubSeq(s, 1, n + 1) = Append(SubSeq(s, 1, n), s[n + 1]) /\ s[n + 1] \in V
<1>1. PICK a, b : a = SubSeq(s, 1, n) /\ b = SubSeq(s, 1, n + 1)
  OBVIOUS
<1>2. a \in Seq(V) /\ Len(a) = n /\ \A k \in 1 .. n : a[k] = s[k]
  BY <1>1
<1>3. b \in Seq(V) /\ Len(b) = n + 1 /\ \A k \in 1 .. n + 1 : b[k] = s[k]
  BY <1>1
<1>4. s[n + 1] \in V
  OBVIOUS
<1>5. PICK c : c = Append(a, s[n + 1])
  OBVIOUS
<1>6. c \in Seq(V) /\ Len(c) = n + 1 /\ c[n + 1] = s[n + 1] /\ \A k \in 1 .. n : c[k] = a[k]
  BY <1>2, <1>4, <1>5
<1>7. \A k \in 1 .. n + 1 : c[k] = b[k]
  BY <1>2, <1>3, <1>6
<1>8. c = b
  BY <1>3, <1>6, <1>7, SeqSame
<1> QED BY <1>1, <1>2, <1>3, <1>4, <1>5, <1>8

\* What is added to the second of two lists is added to both.
LEMMA ConcatAppend ==
  ASSUME NEW V, NEW h \in Seq(V), NEW s \in Seq(V), NEW x \in V
  PROVE  h \o Append(s, x) = Append(h \o s, x) /\ h \o s \in Seq(V)
<1>1. PICK a, b : a = h \o Append(s, x) /\ b = Append(h \o s, x)
  OBVIOUS
<1>2. PICK t, u : t = Append(s, x) /\ u = h \o s
  OBVIOUS
<1>3. PICK m, n : m = Len(h) /\ n = Len(s)
  OBVIOUS
<1>4. t \in Seq(V) /\ Len(t) = n + 1 /\ t[n + 1] = x /\ (\A k \in 1 .. n : t[k] = s[k])
      /\ m \in Nat /\ n \in Nat
  BY <1>2, <1>3
<1>5. u \in Seq(V) /\ Len(u) = m + n
      /\ \A k \in 1 .. m + n : u[k] = IF k <= m THEN h[k] ELSE s[k - m]
  BY <1>2, <1>3, ConcatProperties
<1>6. a \in Seq(V) /\ Len(a) = m + (n + 1)
      /\ \A k \in 1 .. m + (n + 1) : a[k] = IF k <= m THEN h[k] ELSE t[k - m]
  <2>1. a = h \o t
    BY <1>1, <1>2
  <2>2. t \in Seq(V)
    BY <1>4
  <2>3. PICK l : l = n + 1
    OBVIOUS
  <2>4. Len(t) = l
    BY <1>4, <2>3
  <2>5. a \in Seq(V) /\ Len(a) = m + l
        /\ \A k \in 1 .. m + l : a[k] = IF k <= m THEN h[k] ELSE t[k - m]
    BY <1>3, <2>1, <2>2, <2>4, ConcatProperties
  <2> QED BY <2>3, <2>5
<1>7. b \in Seq(V) /\ Len(b) = m + n + 1 /\ b[m + n + 1] = x /\ \A k \in 1 .. m + n : b[k] = u[k]
  <2>1. b = Append(u, x)
    BY <1>1, <1>2
  <2> QED BY <1>5, <2>1
<1>8. ASSUME NEW k \in 1 .. m + n + 1 PROVE a[k] = b[k]
  <2>1. CASE k <= m
    BY <1>4, <1>5, <1>6, <1>7, <1>8, <2>1
  <2>2. CASE k = m + n + 1
    <3>1. k - m = n + 1 /\ ~(k <= m) /\ k \in 1 .. m + (n + 1)
      BY <1>4, <2>2
    <3> QED BY <1>4, <1>6, <1>7, <2>2, <3>1
  <2>3. CASE m < k /\ k <= m + n
    <3>1. k - m \in 1 .. n /\ ~(k <= m) /\ k \in 1 .. m + (n + 1) /\ k \in 1 .. m + n
      BY <1>4, <2>3
    <3> QED BY <1>4, <1>5, <1>6, <1>7, <3>1
  <2> QED BY <1>4, <2>1, <2>2, <2>3
<1>9. Len(a) = m + n + 1 /\ Len(a) = Len(b)
  BY <1>4, <1>6, <1>7
<1>10. a = b
  BY <1>6, <1>7, <1>8, <1>9, SeqSame
<1> QED BY <1>1, <1>2, <1>5, <1>10

\* The values of a name in two lists, one behind the other.
LEMMA ValuesCat ==
  ASSUME NEW V, NEW P, HasValues(P, V), NEW h \in Seq(P), NEW s \in Seq(P), NEW name
  PROVE  ValuesOf(h \o s, name) = ValuesOf(h, name) \o ValuesOf(s, name)
<1> DEFINE Claim(n) == ValuesOf(h \o SubSeq(s, 1, n), name)
                         = ValuesOf(h, name) \o ValuesOf(SubSeq(s, 1, n), name)
           S == {n \in Nat : Claim(n)}
<1>1. Len(s) \in Nat
  OBVIOUS
<1>2. 0 \in S
  <2>1. SubSeq(s, 1, 0) = <<>> /\ h \o <<>> = h
    OBVIOUS
  <2>2. <<>> \in Seq(P) /\ \A i \in DOMAIN <<>> : <<>>[i].name # name
    OBVIOUS
  <2>3. ValuesOf(<<>>, name) = <<>> /\ ValuesOf(h, name) \in Seq(V)
    <3>1. PICK e : e = <<>>
      OBVIOUS
    <3>2. e \in Seq(P) /\ \A i \in DOMAIN e : e[i].name # name
      BY <3>1
    <3> QED BY <3>1, <3>2, ValuesType
  <2>4. ValuesOf(h, name) \o <<>> = ValuesOf(h, name)
    BY <2>3, ConcatNone
  <2> QED BY <2>1, <2>3, <2>4
<1>3. ASSUME NEW n \in Nat, n < Len(s), n \in S PROVE n + 1 \in S
  <2>1. PICK a, b, x : a = SubSeq(s, 1, n) /\ b = SubSeq(s, 1, n + 1) /\ x = s[n + 1]
    OBVIOUS
  <2>2. a \in Seq(P) /\ b \in Seq(P) /\ b = Append(a, x) /\ x \in P
    <3>1. n + 1 <= Len(s)
      BY <1>1, <1>3
    <3> QED BY <2>1, <3>1, PrefixGrows
  <2>3. PICK ha, hb : ha = h \o a /\ hb = h \o b
    OBVIOUS
  <2>4. ha \in Seq(P) /\ hb = Append(ha, x)
    BY <2>2, <2>3, ConcatAppend
  <2>5. PICK vh, va, vb, vha, vhb :
          /\ vh = ValuesOf(h, name) /\ va = ValuesOf(a, name) /\ vb = ValuesOf(b, name)
          /\ vha = ValuesOf(ha, name) /\ vhb = ValuesOf(hb, name)
    OBVIOUS
  <2>6. vha = vh \o va
    BY <1>3, <2>1, <2>3, <2>5
  <2>7. vh \in Seq(V) /\ va \in Seq(V) /\ x.value \in V
    <3>1. vh \in Seq(V) /\ va \in Seq(V)
      BY <2>2, <2>5, ValuesType
    <3> QED BY <2>2, <3>1 DEF HasValues
  <2>8. vb = IF x.name = name THEN Append(va, x.value) ELSE va
    <3>1. Longer(b, a, x) /\ a \in Seq(P) /\ x \in P /\ HasValues(P, V)
      BY <2>2 DEF HasValues, Longer
    <3>2. ValuesOf(b, name) = IF x.name = name THEN Append(ValuesOf(a, name), x.value)
                              ELSE ValuesOf(a, name)
      BY ONLY <3>1, ValuesAppend
    <3> QED BY <2>5, <3>2
  <2>9. vhb = IF x.name = name THEN Append(vha, x.value) ELSE vha
    <3>1. Longer(hb, ha, x) /\ ha \in Seq(P) /\ x \in P /\ HasValues(P, V)
      BY <2>2, <2>4 DEF HasValues, Longer
    <3>2. ValuesOf(hb, name) = IF x.name = name THEN Append(ValuesOf(ha, name), x.value)
                              ELSE ValuesOf(ha, name)
      BY ONLY <3>1, ValuesAppend
    <3> QED BY <2>5, <3>2
  <2>10. vhb = vh \o vb
    <3>1. CASE x.name = name
      <4>1. vh \o Append(va, x.value) = Append(vh \o va, x.value)
        BY <2>7, ConcatAppend
      <4> QED BY <2>6, <2>8, <2>9, <3>1, <4>1
    <3>2. CASE x.name # name
      BY <2>6, <2>8, <2>9, <3>2
    <3> QED BY <3>1, <3>2
  <2>11. Claim(n + 1) /\ n + 1 \in Nat
    BY <2>1, <2>3, <2>5, <2>10
  <2> QED BY <2>11
<1>4. \A n \in 0 .. Len(s) : n \in S
  <2> HIDE DEF S
  <2> QED BY <1>1, <1>2, <1>3, Induct
<1>5. Claim(Len(s))
  BY <1>1, <1>4
<1>6. SubSeq(s, 1, Len(s)) = s
  OBVIOUS
<1> QED BY <1>5, <1>6

\* The header is cut from a text, the properties begin in it or at its end.
LEMMA FieldsType ==
  ASSUME NEW text \in Text
  PROVE  LET f == ParseEventFields(text) IN
         f.body \in Text /\ f.propsAt \in Nat /\ f.propsAt >= 1 /\ f.propsAt <= Len(f.body) + 1
<1>1. PICK body : body = Trim(text)
  OBVIOUS
<1>2. body \in Text
  <2> DEFINE kept == {i \in DOMAIN text : text[i] # "nl"}
  <2>1. text \in Seq(STRING) /\ DOMAIN text = 1 .. Len(text) /\ Len(text) \in Nat
    BY DEF Text
  <2>2. kept \in SUBSET Nat /\ \A x \in kept : x <= Len(text)
    BY <2>1
  <2>3. kept # {} => Max(kept) \in kept
    <3> HIDE DEF kept
    <3> QED BY <2>1, <2>2, MaxNat
  <2>4. PICK m, j : m = (IF kept = {} THEN 0 ELSE Max(kept)) /\ j = m + 1
    OBVIOUS
  <2>5. m \in Nat /\ m <= Len(text)
    <3> HIDE DEF kept
    <3> QED BY <2>1, <2>2, <2>3, <2>4
  <2>6. j \in Nat /\ j <= Len(text) + 1 /\ m = j - 1
    BY <2>1, <2>4, <2>5
  <2>7. SubSeq(text, 1, j - 1) \in Text
    BY <2>6, PartType
  <2>8. body = SubSeq(text, 1, m)
    BY <1>1, <2>4 DEF Trim
  <2> QED BY <2>6, <2>7, <2>8
<1>3. PICK first, second, third : /\ first = Index(body, ",", 1)
                                  /\ second = Index(body, ",", first + 1)
                                  /\ third = Index(body, ",", second + 1)
  OBVIOUS
<1>4. Len(body) \in Nat /\ body \in Text
  BY <1>2 DEF Text
<1>5. first \in Nat
  <2>1. PICK one : one = 1
    OBVIOUS
  <2>2. one \in Nat /\ one >= 1
    BY <2>1
  <2>3. first = Index(body, ",", one)
    BY <1>3, <2>1, Zenon
  <2> QED BY <1>4, <2>2, <2>3, IndexType
<1>6. PICK b, c : b = first + 1 /\ c = second + 1
  OBVIOUS
<1>7. second \in Nat
  <2>1. b \in Nat /\ b >= 1
    BY <1>5, <1>6
  <2> QED BY <1>3, <1>4, <1>6, <2>1, IndexType
<1>8. third \in Nat /\ (third # 0 => third <= Len(body))
  <2>1. c \in Nat /\ c >= 1
    BY <1>6, <1>7
  <2> QED BY <1>3, <1>4, <1>6, <2>1, IndexType
<1>9. PICK f : f = ParseEventFields(text)
  OBVIOUS
<1>10. f.body = body /\ f.propsAt = IF third = 0 THEN Len(body) + 1 ELSE third + 1
  BY <1>1, <1>3, <1>9 DEF ParseEventFields
<1>11. /\ f.propsAt \in Nat /\ f.propsAt >= 1 /\ f.propsAt <= Len(body) + 1
  BY <1>4, <1>8, <1>10
<1> QED BY <1>2, <1>9, <1>10, <1>11

\* The fields of the header as pairs.
HeadPairs(text) ==
  LET f == ParseEventFields(text)
      head == <<Date \o f.time, Canonical(f.duration), f.event, f.level, <<"file">>, <<"path">>>>
  IN [i \in 1 .. 6 |-> [name |-> Header[i], value |-> head[i]]]
PropsOf(text) == LET f == ParseEventFields(text) IN ScanProps(f.body, f.propsAt)

\* No two fields have one name.
LEMMA HeaderIs ==
  /\ DOMAIN Header = 1 .. 6 /\ \A i, j \in 1 .. 6 : Header[i] = Header[j] => i = j
  /\ Header[3] = <<"event">>
<1>1. PICK h : h = Header
  OBVIOUS
<1>2. DOMAIN h = 1 .. 6
  BY <1>1 DEF Header
<1>3. /\ h[1][1] = "timestamp" /\ h[2][1] = "duration" /\ h[3][1] = "event"
      /\ h[4][1] = "level_num" /\ h[5][1] = "filename" /\ h[6][1] = "file_path"
  BY <1>1 DEF Header
<1>4. \A i, j \in 1 .. 6 : h[i] = h[j] => i = j
  <2>1. \A i \in 1 .. 6 : i = 1 \/ i = 2 \/ i = 3 \/ i = 4 \/ i = 5 \/ i = 6
    OBVIOUS
  <2> QED BY <1>3, <2>1
<1>5. h[3] = <<"event">>
  BY <1>1 DEF Header
<1> QED BY <1>1, <1>2, <1>4, <1>5

\* What the pairs of an event are, and that their values are from one set.
LEMMA RefsAre ==
  ASSUME NEW text \in Text
  PROVE  /\ Refs(text) = HeadPairs(text) \o PropsOf(text)
         /\ PropsOf(text) \in Seq(Pairs)
         /\ \E V, P : /\ HasValues(P, V) /\ HeadPairs(text) \in Seq(P) /\ PropsOf(text) \in Seq(P)
         /\ Len(HeadPairs(text)) = 6
         /\ \A i \in 1 .. 6 : HeadPairs(text)[i].name = Header[i]
         /\ HeadPairs(text)[3].value = ParseEventFields(text).event
<1>1. Refs(text) = HeadPairs(text) \o PropsOf(text)
  BY DEF Refs, HeadPairs, PropsOf
<1>2. PropsOf(text) \in Seq(Pairs)
  BY FieldsType, PropsType DEF PropsOf
<1>3. PICK f : f = ParseEventFields(text)
  OBVIOUS
<1>4. PICK head : head = <<Date \o f.time, Canonical(f.duration), f.event, f.level, <<"file">>,
                           <<"path">>>>
  OBVIOUS
<1>5. head[3] = f.event
  BY <1>4
<1>6. PICK h : h = HeadPairs(text)
  OBVIOUS
<1>7. h = [i \in 1 .. 6 |-> [name |-> Header[i], value |-> head[i]]]
  BY <1>3, <1>4, <1>6 DEF HeadPairs
<1>8. /\ \A i \in 1 .. 6 : h[i].name = Header[i]
      /\ h[3].value = f.event
  BY <1>5, <1>7
<1>9. PICK V : V = Text \cup {head[i] : i \in 1 .. 6}
  OBVIOUS
<1>10. PICK N : N = Text \cup {Header[i] : i \in 1 .. 6}
  OBVIOUS
<1>11. PICK P : P = [name : N, value : V]
  OBVIOUS
<1>12. HasValues(P, V)
  BY <1>11 DEF HasValues
<1>13. h \in Seq(P) /\ Len(h) = 6
  <2>1. \A i \in 1 .. 6 : [name |-> Header[i], value |-> head[i]] \in P
    BY <1>9, <1>10, <1>11
  <2> QED BY <1>7, <2>1
<1>14. PropsOf(text) \in Seq(P)
  <2>1. \A x \in Pairs : x \in P
    BY <1>9, <1>10, <1>11 DEF Pairs
  <2>2. PICK s : s = PropsOf(text)
    OBVIOUS
  <2>3. s \in Seq(Pairs)
    BY <1>2, <2>2
  <2>4. s \in Seq(P)
    BY <2>1, <2>3
  <2> QED BY <2>2, <2>4
<1> QED BY <1>1, <1>2, <1>3, <1>6, <1>8, <1>12, <1>13, <1>14

\* The first m places are first places: Kth finds them at their numbers.
LEMMA FirstsAre ==
  ASSUME NEW S \in SUBSET Nat, IsFiniteSet(S), NEW m \in Nat, 1 .. m \in SUBSET S, 0 \notin S
  PROVE  \A k \in 1 .. m : Kth(S, k) = k /\ k \in 1 .. Cardinality(S)
<1> SUFFICES ASSUME NEW k \in 1 .. m PROVE Kth(S, k) = k /\ k \in 1 .. Cardinality(S)
  OBVIOUS
<1>1. k \in S /\ k \in Nat
  OBVIOUS
<1>2. {j \in S : j <= k} = 1 .. k
  <2>1. \A j \in S : j \in Nat /\ j # 0
    OBVIOUS
  <2>2. \A j \in Nat : j # 0 /\ j <= k => j \in 1 .. k
    BY <1>1
  <2>3. \A j \in 1 .. k : j \in 1 .. m /\ j <= k
    OBVIOUS
  <2>4. \A j \in 1 .. k : j \in S /\ j <= k
    BY <2>3
  <2> QED BY <2>1, <2>2, <2>4
<1>3. Cardinality(1 .. k) = k
  <2>1. PICK one : one = 1
    OBVIOUS
  <2>2. Cardinality(one .. k) = IF one > k THEN 0 ELSE k - one + 1
    BY <1>1, <2>1, FS_Interval
  <2> QED BY <1>1, <2>1, <2>2
<1>4. Rank(S, k) = k
  BY <1>2, <1>3 DEF Rank
<1>5. Kth(S, Rank(S, k)) = k /\ Rank(S, k) \in 1 .. Cardinality(S)
  BY <1>1, KthIs
<1> QED BY <1>4, <1>5

\* Pairs with names of different signatures are their own groups.
LEMMA AloneIs ==
  ASSUME NEW V, NEW P, HasValues(P, V), NEW s \in Seq(P),
         \A i, j \in DOMAIN s : s[i].name = s[j].name => i = j, NEW i \in DOMAIN s
  PROVE  ValuesOf(s, s[i].name) = <<s[i].value>>
<1> DEFINE S == PlacesOf(s, s[i].name)
<1>1. S = {i} /\ i \in Nat
  BY DEF PlacesOf
<1>2. Cardinality(S) = 1 /\ IsFiniteSet(S)
  BY <1>1, FS_Singleton
<1>3. Kth(S, 1) \in S
  <2>1. S \in SUBSET Nat /\ 1 \in 1 .. Cardinality(S)
    BY <1>1, <1>2
  <2> HIDE DEF S
  <2> QED BY <1>2, <2>1, KthOf
<1>4. Kth(S, 1) = i
  BY <1>1, <1>3
<1>5. ValuesOf(s, s[i].name) = [k \in 1 .. Cardinality(S) |-> s[Kth(S, k)].value]
  BY ValuesAre
<1>6. ValuesOf(s, s[i].name) = [k \in 1 .. 1 |-> s[Kth(S, k)].value]
  BY <1>2, <1>5
<1>7. [k \in 1 .. 1 |-> s[Kth(S, k)].value] = <<s[i].value>>
  <2> HIDE DEF S
  <2> QED BY <1>4
<1> QED BY <1>6, <1>7

\* The line has no key twice, under every name its values in order, and in front the
\* names that are in front.
LEMMA RegroupedIs ==
  ASSUME NEW V, NEW P, HasValues(P, V), NEW s \in Seq(P), NEW m \in Nat, m <= Len(s),
         \A i, j \in 1 .. m : s[i].name = s[j].name => i = j
  PROVE  LET g == RegroupRepeated(s) IN
         /\ \A i, j \in DOMAIN g : g[i].key = g[j].key => i = j
         /\ \A name : ValuesIn(g, name) = ValuesOf(s, name)
         /\ DOMAIN g = 1 .. Len(g) /\ Len(g) \in Nat
         /\ \A k \in DOMAIN g : g[k].values = ValuesOf(s, g[k].key)
         /\ \A k \in 1 .. m : k \in DOMAIN g /\ g[k].key = s[k].name
<1>1. PICK g, n : g = RegroupRepeated(s) /\ n = Len(s)
  OBVIOUS
<1>2. n \in Nat /\ DOMAIN s = 1 .. n
  BY <1>1
<1>3. CASE Dup(s)
  <2>1. g = Grouped(s)
    BY <1>1, <1>3 DEF RegroupRepeated
  <2>2. PICK c : c = Cardinality(Firsts(s))
    OBVIOUS
  <2>3. /\ c \in Nat /\ DOMAIN g = 1 .. c /\ Len(g) = c
        /\ \A k \in DOMAIN g : g[k].key = s[Kth(Firsts(s), k)].name
                               /\ g[k].values = ValuesOf(s, g[k].key)
        /\ \A i, j \in DOMAIN g : g[i].key = g[j].key => i = j
    BY <2>1, <2>2, GroupedIs
  <2>4. \A name : ValuesIn(g, name) = ValuesOf(s, name)
    BY <2>1, GroupedValues
  <2>5. Firsts(s) \in SUBSET Nat /\ IsFiniteSet(Firsts(s)) /\ 0 \notin Firsts(s)
    <3>1. Firsts(s) \in SUBSET DOMAIN s
      BY DEF Firsts
    <3> QED BY <1>2, <3>1, PlacesFinite
  <2>6. \A k \in 1 .. m : k \in Firsts(s)
    <3>1. ASSUME NEW k \in 1 .. m, NEW j \in 1 .. k - 1 PROVE s[j].name # s[k].name
      <4>1. j \in 1 .. m /\ j # k
        OBVIOUS
      <4> QED BY <4>1
    <3>2. \A k \in 1 .. m : k \in DOMAIN s
      BY <1>1, <1>2
    <3> QED BY <3>1, <3>2 DEF Firsts
  <2>7. \A k \in 1 .. m : Kth(Firsts(s), k) = k /\ k \in 1 .. c
    BY <2>2, <2>5, <2>6, FirstsAre
  <2> QED BY <1>1, <2>3, <2>4, <2>7
<1>4. CASE ~Dup(s)
  <2>1. g = [i \in DOMAIN s |-> [key |-> s[i].name, values |-> <<s[i].value>>]]
    BY <1>1, <1>4 DEF RegroupRepeated
  <2>2. ASSUME NEW i \in DOMAIN s, NEW j \in DOMAIN s, s[i].name = s[j].name PROVE i = j
    <3>1. NameSig(s[i].name) = NameSig(s[j].name)
      BY <2>2
    <3>2. i < j => i \in 1 .. j - 1
      BY <1>2
    <3>3. j < i => j \in 1 .. i - 1
      BY <1>2
    <3>4. ~(i < j) /\ ~(j < i)
      BY <1>4, <3>1, <3>2, <3>3 DEF Dup
    <3> QED BY <1>2, <3>4
  <2>3. /\ DOMAIN g = 1 .. n /\ Len(g) = n
        /\ \A i \in 1 .. n : g[i].key = s[i].name /\ g[i].values = <<s[i].value>>
    BY <1>2, <2>1
  <2>4. \A i \in 1 .. n : g[i].values = ValuesOf(s, s[i].name)
    <3>1. \A i, j \in DOMAIN s : s[i].name = s[j].name => i = j
      BY <2>2
    <3>2. \A i \in DOMAIN s : ValuesOf(s, s[i].name) = <<s[i].value>>
      BY <3>1, AloneIs
    <3> QED BY <1>2, <2>3, <3>2
  <2>5. \A i, j \in DOMAIN g : g[i].key = g[j].key => i = j
    BY <1>2, <2>2, <2>3
  <2>6. ASSUME NEW name PROVE ValuesIn(g, name) = ValuesOf(s, name)
    <3>1. CASE \E i \in 1 .. n : s[i].name = name
      <4>1. PICK i \in 1 .. n : s[i].name = name
        BY <3>1
      <4>2. ValuesIn(g, g[i].key) = g[i].values
        BY <1>2, <2>3, <2>5, ValuesInAt
      <4> QED BY <2>3, <2>4, <4>1, <4>2
    <3>2. CASE ~ \E i \in 1 .. n : s[i].name = name
      <4>1. \A k \in DOMAIN g : g[k].key # name
        BY <2>3, <3>2
      <4>2. ValuesIn(g, name) = <<>>
        BY <4>1, ValuesInNone
      <4>3. ValuesOf(s, name) = <<>>
        BY <1>2, <3>2, ValuesType
      <4> QED BY <4>2, <4>3
    <3> QED BY <3>1, <3>2
  <2>7. \A k \in 1 .. m : k \in 1 .. n
    BY <1>1, <1>2
  <2> QED BY <1>1, <1>2, <2>3, <2>4, <2>5, <2>6, <2>7
<1> QED BY <1>3, <1>4

\* While an event is on its way, its text is one of Texts and the line was made of it.
LineOfEvent ==
  stage # "start" => event \in Texts /\ line = AppendEvent(event.text)

\* No event at first.
LEMMA LineInit == RowsInit => LineOfEvent
BY DEF RowsInit, LineOfEvent

\* Every step keeps it: Encode writes the line, Done drops it.
LEMMA LineStep == LineOfEvent /\ [RowsNext]_rowVars => LineOfEvent'
<1> SUFFICES ASSUME LineOfEvent, [RowsNext]_rowVars PROVE LineOfEvent'
  OBVIOUS
<1> USE DEF LineOfEvent
<1>1. CASE Encode
  BY <1>1 DEF Encode
<1>2. CASE Build
  BY <1>2 DEF Build
<1>3. CASE Replay
  BY <1>3 DEF Replay
<1>4. CASE Done
  BY <1>4 DEF Done
<1>5. CASE UNCHANGED rowVars
  BY <1>5 DEF rowVars
<1> QED BY <1>1, <1>2, <1>3, <1>4, <1>5 DEF RowsNext

\* An element of a sequence.
LEMMA ElementsOf ==
  ASSUME NEW S, NEW q \in Seq(S), NEW i \in DOMAIN q
  PROVE  q[i] \in S
OBVIOUS

\* The line of an event: its keys, and what is under each.
LEMMA LineFacts ==
  ASSUME NEW text \in Text
  PROVE  LET g == AppendEvent(text)
             h == HeadPairs(text)
             s == PropsOf(text)
         IN
         /\ DOMAIN g = 1 .. Len(g) /\ Len(g) \in Nat /\ Len(g) >= 6
         /\ \A i, j \in DOMAIN g : g[i].key = g[j].key => i = j
         /\ \A i \in 1 .. 6 : /\ i \in DOMAIN g /\ g[i].key = Header[i]
                             /\ g[i].values = <<h[i].value>> \o ValuesOf(s, Header[i])
                             /\ g[i].values[1] = h[i].value
         /\ \A k \in DOMAIN g : g[k].key \notin Meta => g[k].values = ValuesOf(s, g[k].key)
         /\ \A name : ValuesIn(g, name) =
              IF name \in Meta THEN <<ValuesIn(g, name)[1]>> \o ValuesOf(s, name)
              ELSE ValuesOf(s, name)
<1>1. PICK h, s, r, g : /\ h = HeadPairs(text) /\ s = PropsOf(text) /\ r = Refs(text)
                        /\ g = AppendEvent(text)
  OBVIOUS
<1>2. g = RegroupRepeated(r)
  BY <1>1 DEF AppendEvent
<1>3. PICK V, P : HasValues(P, V) /\ h \in Seq(P) /\ s \in Seq(P)
  BY <1>1, RefsAre
<1>4. r = h \o s /\ Len(h) = 6 /\ (\A i \in 1 .. 6 : h[i].name = Header[i])
  BY <1>1, RefsAre
<1>5. r \in Seq(P) /\ Len(r) = 6 + Len(s) /\ Len(s) \in Nat /\ \A k \in 1 .. 6 : r[k] = h[k]
  <2>1. /\ r \in Seq(P) /\ Len(r) = Len(h) + Len(s)
        /\ \A k \in 1 .. Len(h) + Len(s) : r[k] = IF k <= Len(h) THEN h[k] ELSE s[k - Len(h)]
    BY <1>3, <1>4, ConcatProperties
  <2>2. Len(s) \in Nat
    BY <1>3
  <2> QED BY <1>4, <2>1, <2>2
<1>6. \A i, j \in 1 .. 6 : r[i].name = r[j].name => i = j
  BY <1>4, <1>5, HeaderIs
<1>7. /\ \A i, j \in DOMAIN g : g[i].key = g[j].key => i = j
      /\ \A name : ValuesIn(g, name) = ValuesOf(r, name)
      /\ DOMAIN g = 1 .. Len(g) /\ Len(g) \in Nat
      /\ \A k \in DOMAIN g : g[k].values = ValuesOf(r, g[k].key)
      /\ \A k \in 1 .. 6 : k \in DOMAIN g /\ g[k].key = r[k].name
  <2>1. PICK m : m = 6
    OBVIOUS
  <2>2. m \in Nat /\ m <= Len(r) /\ \A i, j \in 1 .. m : r[i].name = r[j].name => i = j
    BY <1>5, <1>6, <2>1
  <2>3. /\ \A i, j \in DOMAIN g : g[i].key = g[j].key => i = j
        /\ \A name : ValuesIn(g, name) = ValuesOf(r, name)
        /\ DOMAIN g = 1 .. Len(g) /\ Len(g) \in Nat
        /\ \A k \in DOMAIN g : g[k].values = ValuesOf(r, g[k].key)
        /\ \A k \in 1 .. m : k \in DOMAIN g /\ g[k].key = r[k].name
    <3>1. HasValues(P, V) /\ r \in Seq(P)
      BY <1>3, <1>5
    <3> QED BY ONLY <1>2, <2>2, <3>1, RegroupedIs
  <2> QED BY <2>1, <2>3
<1>8. \A name : ValuesOf(r, name) = ValuesOf(h, name) \o ValuesOf(s, name)
  BY <1>3, <1>4, ValuesCat
<1>9. \A name : ValuesOf(s, name) \in Seq(V)
  BY <1>3, ValuesType
<1>10. ASSUME NEW i \in 1 .. 6
       PROVE  ValuesOf(h, Header[i]) = <<h[i].value>> /\ h[i].value \in V
  <2>1. DOMAIN h = 1 .. 6 /\ \A a, b \in DOMAIN h : h[a].name = h[b].name => a = b
    BY <1>3, <1>4, HeaderIs
  <2>2. ValuesOf(h, h[i].name) = <<h[i].value>>
    BY <1>3, <2>1, AloneIs
  <2>3. h[i] \in P
    <3>1. i \in DOMAIN h /\ h \in Seq(P)
      BY <1>3, <2>1
    <3> QED BY ONLY <3>1, ElementsOf
  <2> QED BY <1>3, <1>4, <2>2, <2>3 DEF HasValues
<1>11. ASSUME NEW i \in 1 .. 6
       PROVE  /\ ValuesOf(r, Header[i]) = <<h[i].value>> \o ValuesOf(s, Header[i])
              /\ ValuesOf(r, Header[i])[1] = h[i].value
  <2>1. PICK v, w, x : v = h[i].value /\ w = ValuesOf(s, Header[i]) /\ x = <<v>> \o w
    OBVIOUS
  <2>2. v \in V /\ w \in Seq(V)
    BY <1>9, <1>10, <2>1
  <2>3. x[1] = v
    BY <2>1, <2>2
  <2> QED BY <1>8, <1>10, <2>1, <2>3
<1>12. ASSUME NEW name, name \notin Meta
       PROVE  ValuesOf(r, name) = ValuesOf(s, name)
  <2>1. \A i \in DOMAIN h : h[i].name # name
    BY <1>3, <1>4, <1>12 DEF Meta
  <2>2. ValuesOf(h, name) = <<>>
    BY <1>3, <2>1, ValuesType
  <2>3. <<>> \o ValuesOf(s, name) = ValuesOf(s, name)
    BY <1>9, ConcatNone
  <2> QED BY <1>8, <2>2, <2>3
<1>13. ASSUME NEW name
       PROVE  ValuesIn(g, name) =
                IF name \in Meta THEN <<ValuesIn(g, name)[1]>> \o ValuesOf(s, name)
                ELSE ValuesOf(s, name)
  <2>1. CASE name \in Meta
    <3>1. PICK i \in 1 .. 6 : name = Header[i]
      BY <2>1 DEF Meta
    <3> QED BY <1>7, <1>11, <2>1, <3>1
  <2>2. CASE name \notin Meta
    BY <1>7, <1>12, <2>2
  <2> QED BY <2>1, <2>2
<1>14. Len(g) >= 6
  <2>1. 6 \in 1 .. Len(g)
    BY <1>7
  <2> QED BY <1>7, <2>1
<1>15. ASSUME NEW i \in 1 .. 6
       PROVE  /\ i \in DOMAIN g /\ g[i].key = Header[i]
              /\ g[i].values = <<h[i].value>> \o ValuesOf(s, Header[i])
              /\ g[i].values[1] = h[i].value
  <2>1. i \in DOMAIN g /\ g[i].key = Header[i]
    BY <1>4, <1>5, <1>7
  <2>2. g[i].values = ValuesOf(r, Header[i])
    BY <1>7, <2>1
  <2> QED BY <1>11, <2>1, <2>2
<1>16. \A k \in DOMAIN g : g[k].key \notin Meta => g[k].values = ValuesOf(s, g[k].key)
  BY <1>7, <1>12
<1> QED BY <1>1, <1>7, <1>13, <1>14, <1>15, <1>16

\* The line of an event is as NoKeyTwice has it.
LEMMA LineIs ==
  ASSUME LineOfEvent, stage # "start"
  PROVE  NoKeyTwice
<1>1. PICK text, g, s : text = event.text /\ g = line /\ s = PropsOf(text)
  OBVIOUS
<1>2. text \in Text /\ g = AppendEvent(text) /\ s = Properties
  BY <1>1, TextsAreEvents DEF LineOfEvent, Text, Properties, PropsOf
<1>3. /\ \A i, j \in DOMAIN g : g[i].key = g[j].key => i = j
      /\ g[3].values[1] = HeadPairs(text)[3].value
  <2>1. 3 \in 1 .. 6
    OBVIOUS
  <2> QED BY <1>2, <2>1, LineFacts
<1>4. ASSUME NEW name
      PROVE  LET own == IF name \in Meta THEN <<ValuesIn(g, name)[1]>> ELSE <<>>
             IN ValuesIn(g, name) = own \o ValuesOf(s, name)
  <2>1. ValuesIn(g, name) = IF name \in Meta THEN <<ValuesIn(g, name)[1]>> \o ValuesOf(s, name)
                            ELSE ValuesOf(s, name)
    <3>1. \A n : ValuesIn(AppendEvent(text), n) =
                   IF n \in Meta THEN <<ValuesIn(AppendEvent(text), n)[1]>> \o ValuesOf(PropsOf(text), n)
                   ELSE ValuesOf(PropsOf(text), n)
      BY <1>2, LineFacts, Zenon
    <3> QED BY <1>1, <1>2, <3>1
  <2>2. <<>> \o ValuesOf(s, name) = ValuesOf(s, name)
    <3>1. PICK V, P : HasValues(P, V) /\ s \in Seq(P)
      BY <1>1, <1>2, RefsAre
    <3>2. ValuesOf(s, name) \in Seq(V)
      BY <3>1, ValuesType
    <3> QED BY <3>2, ConcatNone
  <2> QED BY <2>1, <2>2
<1>5. DecodedHeader(g)[3] = ParseEventFields(text).event
  <2>1. DecodedHeader(g)[3] = g[3].values[1]
    BY DEF DecodedHeader
  <2> QED BY <1>2, <1>3, <2>1, RefsAre
<1> QED BY <1>1, <1>2, <1>3, <1>4, <1>5 DEF NoKeyTwice

\* A line of NDJSON has no key twice, a field of the header has its own value first and
\* under every name are all its values in order: NoKeyTwice, for all texts.
THEOREM KeysOnce == RowsSpec => []NoKeyTwice
<1>1. LineOfEvent => NoKeyTwice
  <2>1. stage = "start" => NoKeyTwice
    BY DEF NoKeyTwice
  <2> QED BY <2>1, LineIs
<1> QED BY <1>1, LineInit, LineStep, PTL DEF RowsSpec

-----------------------------------------------------------------------------
(* Rows *)

\* The states of richHot, the rows with a header.
HotStates == [seen : SUBSET Hot, dumped : SUBSET Hot, kept : SUBSET Hot, last : [Hot -> Text]]
RowsWith(head) == [head : {head}, props : Seq(Pairs), bytes : Int, hot : HotStates]
RowOf(head, props, bytes, hot) == [head |-> head, props |-> props, bytes |-> bytes, hot |-> hot]

\* No name of the header has a column of its own.
LEMMA HotIs == \A x \in Hot : x \notin Meta
<1>1. ASSUME NEW x \in Hot
      PROVE  x[1] \in {"Usr", "SessionID", "t:clientID", "ClientID", "Sql", "Query"}
  <2>1. \/ x = <<"Usr">> \/ x = <<"SessionID">> \/ x = <<"t:clientID">> \/ x = <<"ClientID">>
        \/ x = <<"Sql">> \/ x = <<"Query">>
    BY DEF Hot
  <2>2. x[1] \in {"Usr", "SessionID", "t:clientID", "ClientID", "Sql", "Query"}
    BY <2>1
  <2> QED BY <2>2
<1>2. ASSUME NEW x \in Meta
      PROVE  x[1] \in {"timestamp", "duration", "event", "level_num", "filename", "file_path"}
  <2>1. PICK i \in 1 .. 6 : x = Header[i]
    BY DEF Meta
  <2>2. i = 1 \/ i = 2 \/ i = 3 \/ i = 4 \/ i = 5 \/ i = 6
    OBVIOUS
  <2> QED BY <2>1, <2>2 DEF Header
<1>3. \A x \in Hot : x \notin Meta
  <2>1. ASSUME NEW x \in Hot, x \in Meta PROVE FALSE
    <3>1. PICK c : c = x[1]
      OBVIOUS
    <3>2. c \in {"Usr", "SessionID", "t:clientID", "ClientID", "Sql", "Query"}
      BY <1>1, <3>1
    <3>3. c \in {"timestamp", "duration", "event", "level_num", "filename", "file_path"}
      BY <1>2, <2>1, <3>1
    <3> QED BY <3>2, <3>3
  <2> QED BY <2>1
<1> QED BY <1>3

\* A row is its parts.
LEMMA RowParts ==
  ASSUME NEW head, NEW row \in RowsWith(head)
  PROVE  /\ row = RowOf(head, row.props, row.bytes, row.hot)
         /\ row.head = head /\ row.props \in Seq(Pairs) /\ row.bytes \in Int /\ row.hot \in HotStates
BY DEF RowsWith, RowOf

\* A row of these parts is one, and has them.
LEMMA RowIsOne ==
  ASSUME NEW head, NEW p \in Seq(Pairs), NEW b \in Int, NEW t \in HotStates
  PROVE  /\ RowOf(head, p, b, t) \in RowsWith(head)
         /\ RowOf(head, p, b, t).head = head /\ RowOf(head, p, b, t).props = p
         /\ RowOf(head, p, b, t).bytes = b /\ RowOf(head, p, b, t).hot = t
BY DEF RowsWith, RowOf

\* A pair more.
LEMMA PairLens ==
  ASSUME NEW pair \in Pairs
  PROVE  /\ pair.name \in Text /\ pair.value \in Text
         /\ Len(pair.name) \in Nat /\ Len(pair.value) \in Nat
         /\ pair = [name |-> pair.name, value |-> pair.value]
BY DEF Pairs, Text

\* The props and the size stay in their types.
LEMMA PairMore ==
  ASSUME NEW p \in Seq(Pairs), NEW b \in Int, NEW pair \in Pairs
  PROVE  Append(p, pair) \in Seq(Pairs) /\ b + Len(pair.name) + Len(pair.value) \in Int
BY PairLens

\* What WithPair changes.
LEMMA WithPairIs ==
  ASSUME NEW head, NEW p \in Seq(Pairs), NEW b \in Int, NEW t \in HotStates, NEW pair \in Pairs
  PROVE  WithPair(RowOf(head, p, b, t), pair)
           = RowOf(head, Append(p, pair), b + Len(pair.name) + Len(pair.value), t)
<1>1. PICK q, l, m, c : /\ q = Append(p, pair) /\ l = Len(pair.name) /\ m = Len(pair.value)
                       /\ c = b + l + m
  OBVIOUS
<1>2. PICK row : row = [head |-> head, props |-> p, bytes |-> b, hot |-> t]
  OBVIOUS
<1>3. PICK mid : mid = [row EXCEPT !.props = q]
  OBVIOUS
<1>4. mid = [head |-> head, props |-> q, bytes |-> b, hot |-> t]
  BY ONLY <1>2, <1>3
<1>5. [mid EXCEPT !.bytes = c] = [head |-> head, props |-> q, bytes |-> c, hot |-> t]
  BY ONLY <1>4
<1>6. row.props = p /\ row.bytes = b
  BY <1>2
<1>7. WithPair(row, pair) = [row EXCEPT !.props = q, !.bytes = c]
  BY <1>1, <1>6 DEF WithPair
<1>8. [row EXCEPT !.props = q, !.bytes = c] = [mid EXCEPT !.bytes = c]
  BY <1>3
<1> QED BY <1>1, <1>2, <1>5, <1>7, <1>8 DEF RowOf

\* What richHot notes.
LEMMA NoteHotIs ==
  ASSUME NEW t \in HotStates, NEW pair \in Pairs, pair.name \in Hot
  PROVE  LET u == NoteHot(t, pair) IN
         /\ u \in HotStates
         /\ u.seen = t.seen \cup {pair.name}
         /\ u.dumped = IF pair.name \in t.seen THEN t.dumped \cup {pair.name} ELSE t.dumped
         /\ u.kept = IF KeptByRule(pair) THEN t.kept \cup {pair.name} ELSE t.kept
         /\ u.last[pair.name] = pair.value
         /\ \A n \in Hot : n # pair.name => u.last[n] = t.last[n]
<1>1. PICK u : u = NoteHot(t, pair)
  OBVIOUS
<1>2. /\ t.seen \in SUBSET Hot /\ t.dumped \in SUBSET Hot /\ t.kept \in SUBSET Hot
      /\ t.last \in [Hot -> Text] /\ pair.value \in Text
  BY PairLens DEF HotStates
<1>3. /\ u.seen = t.seen \cup {pair.name}
      /\ u.dumped = IF pair.name \in t.seen THEN t.dumped \cup {pair.name} ELSE t.dumped
      /\ u.kept = IF KeptByRule(pair) THEN t.kept \cup {pair.name} ELSE t.kept
      /\ u.last = [t.last EXCEPT ![pair.name] = pair.value]
  BY <1>1 DEF NoteHot
<1>4. u = [seen |-> u.seen, dumped |-> u.dumped, kept |-> u.kept, last |-> u.last]
  BY <1>1 DEF NoteHot
<1>5. u.last \in [Hot -> Text] /\ u.last[pair.name] = pair.value
      /\ \A n \in Hot : n # pair.name => u.last[n] = t.last[n]
  BY <1>2, <1>3
<1>6. u.seen \in SUBSET Hot /\ u.dumped \in SUBSET Hot /\ u.kept \in SUBSET Hot
  BY <1>2, <1>3
<1>7. u \in HotStates
  BY <1>4, <1>5, <1>6 DEF HotStates
<1> QED BY <1>1, <1>3, <1>5, <1>7

\* The value of a name is kept by its own rule.
KeptValue(name, value) ==
  name = <<"SessionID">> /\ UintOrZero(value) = 0 /\ value \notin {<<>>, <<"0">>}

\* What one pair does to a row, if its name is like any other,
LEMMA PlainProp ==
  ASSUME NEW head, NEW row \in RowsWith(head), NEW pair \in Pairs,
         ~rich \/ pair.name \notin Hot \cup Meta
  PROVE  LET r == WithProp(rich, row, pair) IN
         /\ r \in RowsWith(head) /\ r.hot = row.hot /\ r.props = Append(row.props, pair)
         /\ r.bytes = row.bytes + Len(pair.name) + Len(pair.value)
<1>1. PICK p, b, t, q, c : /\ p = row.props /\ b = row.bytes /\ t = row.hot
                           /\ q = Append(p, pair) /\ c = b + Len(pair.name) + Len(pair.value)
  OBVIOUS
<1>2. row = RowOf(head, p, b, t) /\ p \in Seq(Pairs) /\ b \in Int /\ t \in HotStates
  BY <1>1, RowParts
<1>3. WithProp(rich, row, pair) = WithPair(row, pair)
  BY DEF WithProp, RichProp
<1>4. WithPair(RowOf(head, p, b, t), pair)
        = RowOf(head, Append(p, pair), b + Len(pair.name) + Len(pair.value), t)
  BY <1>2, WithPairIs
<1>5. q \in Seq(Pairs) /\ c \in Int
  BY <1>1, <1>2, PairMore
<1>6. PICK r : r = RowOf(head, q, c, t)
  OBVIOUS
<1>7. r = WithProp(rich, row, pair)
  BY <1>1, <1>2, <1>3, <1>4, <1>6
<1>8. r \in RowsWith(head) /\ r.props = q /\ r.bytes = c /\ r.hot = t
  BY <1>2, <1>5, <1>6, RowIsOne
<1> QED BY <1>1, <1>7, <1>8

\* if it is one of the header,
LEMMA MetaProp ==
  ASSUME NEW head, NEW row \in RowsWith(head), NEW pair \in Pairs, rich, pair.name \in Meta
  PROVE  LET r == WithProp(rich, row, pair) IN
         /\ r \in RowsWith(head) /\ r.hot = row.hot /\ r.props = row.props
         /\ r.bytes = row.bytes + Len(pair.value)
<1>1. PICK p, b, t, c : /\ p = row.props /\ b = row.bytes /\ t = row.hot
                        /\ c = b + Len(pair.value)
  OBVIOUS
<1>2. row = RowOf(head, p, b, t) /\ p \in Seq(Pairs) /\ b \in Int /\ t \in HotStates
  BY <1>1, RowParts
<1>3. WithProp(rich, row, pair) = [row EXCEPT !.bytes = c]
  BY <1>1 DEF WithProp, RichProp
<1>4. [row EXCEPT !.bytes = c] = RowOf(head, p, c, t)
  BY <1>2 DEF RowOf
<1>5. c \in Int
  BY <1>1, <1>2, PairLens
<1>6. PICK r : r = RowOf(head, p, c, t)
  OBVIOUS
<1>7. r \in RowsWith(head) /\ r.props = p /\ r.bytes = c /\ r.hot = t
  BY <1>2, <1>5, <1>6, RowIsOne
<1> QED BY <1>1, <1>3, <1>4, <1>6, <1>7

\* and if it has a column of its own.
LEMMA HotProp ==
  ASSUME NEW head, NEW row \in RowsWith(head), NEW pair \in Pairs, rich, pair.name \in Hot
  PROVE  LET r == WithProp(rich, row, pair)
             first == [name |-> pair.name, value |-> row.hot.last[pair.name]]
         IN
         /\ r \in RowsWith(head) /\ r.hot = NoteHot(row.hot, pair) /\ first \in Pairs
         /\ IF pair.name \notin row.hot.seen /\ ~KeptValue(pair.name, pair.value)
              THEN r.props = row.props /\ r.bytes = row.bytes + Len(pair.value)
            ELSE IF Pending(row.hot, pair.name)
              THEN /\ r.props = Append(Append(row.props, first), pair)
                   /\ r.bytes = row.bytes + Len(pair.name) + Len(first.value)
                                + Len(pair.name) + Len(pair.value)
            ELSE /\ r.props = Append(row.props, pair)
                 /\ r.bytes = row.bytes + Len(pair.name) + Len(pair.value)
<1>1. PICK p, b, t, u, first, q, c, d :
        /\ p = row.props /\ b = row.bytes /\ t = row.hot /\ u = NoteHot(t, pair)
        /\ first = [name |-> pair.name, value |-> t.last[pair.name]]
        /\ q = Append(p, first) /\ c = b + Len(first.name) + Len(first.value)
        /\ d = b + Len(pair.value)
  OBVIOUS
<1>2. row = RowOf(head, p, b, t) /\ p \in Seq(Pairs) /\ b \in Int /\ t \in HotStates
  BY <1>1, RowParts
<1>3. pair.name \notin Meta
  BY HotIs
<1>4. u \in HotStates
  BY <1>1, <1>2, NoteHotIs
<1>5. first \in Pairs /\ first.name = pair.name
  <2>1. t.last[pair.name] \in Text
    BY <1>2 DEF HotStates
  <2> QED BY <1>1, <2>1, PairLens DEF Pairs
<1>6. KeptByRule(pair) <=> KeptValue(pair.name, pair.value)
  BY DEF KeptByRule, KeptValue
<1>7. PICK r, marked : r = WithProp(rich, row, pair) /\ marked = RowOf(head, p, b, u)
  OBVIOUS
<1>8. [row EXCEPT !.hot = NoteHot(row.hot, pair)] = marked
  BY <1>1, <1>2, <1>7 DEF RowOf
<1>9. r = IF pair.name \notin t.seen /\ ~KeptByRule(pair)
            THEN [marked EXCEPT !.bytes = @ + Len(pair.value)]
          ELSE IF Pending(t, pair.name) THEN WithPair(WithPair(marked, first), pair)
          ELSE WithPair(marked, pair)
  BY <1>1, <1>3, <1>7, <1>8 DEF WithProp, RichProp
<1>10. q \in Seq(Pairs) /\ c \in Int /\ d \in Int
  <2>1. Append(p, first) \in Seq(Pairs) /\ b + Len(first.name) + Len(first.value) \in Int
    BY <1>2, <1>5, PairMore
  <2>2. d \in Int
    BY <1>1, <1>2, PairLens
  <2> QED BY <1>1, <2>1, <2>2
<1>11. CASE pair.name \notin t.seen /\ ~KeptByRule(pair)
  <2>1. [marked EXCEPT !.bytes = @ + Len(pair.value)] = RowOf(head, p, d, u)
    BY <1>1, <1>7 DEF RowOf
  <2>2. r = RowOf(head, p, d, u)
    BY <1>9, <1>11, <2>1
  <2>3. r \in RowsWith(head) /\ r.props = p /\ r.bytes = d /\ r.hot = u
    BY <1>2, <1>4, <1>10, <2>2, RowIsOne
  <2> QED BY <1>1, <1>5, <1>6, <1>7, <1>11, <2>3
<1>12. CASE ~(pair.name \notin t.seen /\ ~KeptByRule(pair)) /\ Pending(t, pair.name)
  <2>1. WithPair(marked, first) = RowOf(head, q, c, u)
    <3>1. WithPair(RowOf(head, p, b, u), first)
            = RowOf(head, Append(p, first), b + Len(first.name) + Len(first.value), u)
      BY <1>2, <1>4, <1>5, WithPairIs
    <3> QED BY <1>1, <1>7, <3>1
  <2>2. PICK q2, c2 : q2 = Append(q, pair) /\ c2 = c + Len(pair.name) + Len(pair.value)
    OBVIOUS
  <2>3. WithPair(RowOf(head, q, c, u), pair) = RowOf(head, q2, c2, u)
    <3>1. q \in Seq(Pairs) /\ c \in Int /\ u \in HotStates /\ pair \in Pairs
      BY <1>4, <1>10
    <3>2. WithPair(RowOf(head, q, c, u), pair)
            = RowOf(head, Append(q, pair), c + Len(pair.name) + Len(pair.value), u)
      BY ONLY <3>1, WithPairIs
    <3> QED BY <2>2, <3>2
  <2>4. r = RowOf(head, q2, c2, u)
    BY <1>9, <1>12, <2>1, <2>3
  <2>5. q2 \in Seq(Pairs) /\ c2 \in Int
    BY <1>10, <2>2, PairMore
  <2>6. r \in RowsWith(head) /\ r.props = q2 /\ r.bytes = c2 /\ r.hot = u
    BY <1>4, <2>4, <2>5, RowIsOne
  <2> QED BY <1>1, <1>5, <1>6, <1>7, <1>12, <2>2, <2>6
<1>13. CASE ~(pair.name \notin t.seen /\ ~KeptByRule(pair)) /\ ~Pending(t, pair.name)
  <2>1. PICK q2, c2 : q2 = Append(p, pair) /\ c2 = b + Len(pair.name) + Len(pair.value)
    OBVIOUS
  <2>2. WithPair(marked, pair) = RowOf(head, q2, c2, u)
    <3>1. WithPair(RowOf(head, p, b, u), pair)
            = RowOf(head, Append(p, pair), b + Len(pair.name) + Len(pair.value), u)
      BY <1>2, <1>4, WithPairIs
    <3> QED BY <1>7, <2>1, <3>1
  <2>3. q2 \in Seq(Pairs) /\ c2 \in Int
    BY <1>2, <2>1, PairMore
  <2>4. r = RowOf(head, q2, c2, u)
    BY <1>9, <1>13, <2>2
  <2>5. r \in RowsWith(head) /\ r.props = q2 /\ r.bytes = c2 /\ r.hot = u
    BY <1>4, <2>3, <2>4, RowIsOne
  <2> QED BY <1>1, <1>5, <1>6, <1>7, <1>13, <2>1, <2>5
<1> QED BY <1>11, <1>12, <1>13

\* The length of values, each with l more.
Lengths(l, a) == SumFunctionOnSet([k \in 1 .. Len(a) |-> l + Len(a[k])], 1 .. Len(a))

\* It is a number, 0 of nothing, and grows by the value that is added.
LEMMA LengthsAre ==
  ASSUME NEW l \in Nat, NEW a \in Seq(Text)
  PROVE  /\ Lengths(l, a) \in Nat
         /\ a = <<>> => Lengths(l, a) = 0
         /\ \A x \in Text : Lengths(l, Append(a, x)) = Lengths(l, a) + l + Len(x)
<1>1. PICK n, f : n = Len(a) /\ f = [k \in 1 .. n |-> l + Len(a[k])]
  OBVIOUS
<1>2. n \in Nat /\ IsFiniteSet(1 .. n)
  BY <1>1, FS_Interval
<1>3. \A k \in 1 .. n : a[k] \in Text /\ Len(a[k]) \in Nat
  BY <1>1 DEF Text
<1>4. \A k \in 1 .. n : f[k] \in Nat
  BY <1>1, <1>3
<1>5. SumFunctionOnSet(f, 1 .. n) \in Nat
  BY <1>2, <1>4, SumType
<1>6. Lengths(l, a) = SumFunctionOnSet(f, 1 .. n)
  BY <1>1 DEF Lengths
<1>7. a = <<>> => Lengths(l, a) = 0
  <2>1. a = <<>> => 1 .. n = {}
    BY <1>1
  <2> QED BY <1>6, <2>1, SumEmpty
<1>8. ASSUME NEW x \in Text PROVE Lengths(l, Append(a, x)) = Lengths(l, a) + l + Len(x)
  <2>1. PICK m, b, g : m = n + 1 /\ b = Append(a, x) /\ g = [k \in 1 .. m |-> l + Len(b[k])]
    OBVIOUS
  <2>2. Len(b) = m /\ b[m] = x /\ \A k \in 1 .. n : b[k] = a[k]
    BY <1>1, <2>1
  <2>3. Len(x) \in Nat
    BY DEF Text
  <2>4. 1 .. m = (1 .. n) \cup {m} /\ m \notin 1 .. n
    BY <1>2, <2>1
  <2>5. g[m] = l + Len(x) /\ g[m] \in Nat /\ \A k \in 1 .. n : g[k] = f[k]
    <3>1. m \in 1 .. m /\ \A k \in 1 .. n : k \in 1 .. m
      BY <1>2, <2>1
    <3> QED BY <1>1, <2>1, <2>2, <2>3, <3>1
  <2>6. SumFunctionOnSet(g, 1 .. n) = SumFunctionOnSet(f, 1 .. n)
    BY <1>2, <1>4, <2>5, SumSame
  <2>7. SumFunctionOnSet(g, (1 .. n) \cup {m}) = g[m] + SumFunctionOnSet(g, 1 .. n)
    BY <1>2, <1>4, <2>4, <2>5, SumAdd
  <2>8. Lengths(l, b) = SumFunctionOnSet(g, 1 .. m)
    BY <2>1, <2>2 DEF Lengths
  <2>9. SumFunctionOnSet(g, 1 .. m) = l + Len(x) + SumFunctionOnSet(f, 1 .. n)
    BY <2>4, <2>5, <2>6, <2>7
  <2>10. PICK s, y : s = SumFunctionOnSet(f, 1 .. n) /\ y = Len(x)
    OBVIOUS
  <2>11. l + y + s = s + l + y
    BY <1>5, <2>3, <2>10
  <2> QED BY <1>6, <2>1, <2>8, <2>9, <2>10, <2>11
<1> QED BY <1>5, <1>6, <1>7, <1>8

\* A name with the values a so far goes to props, or only to its column.
InColumn(name, a) == a = <<>> \/ (Len(a) = 1 /\ ~KeptValue(name, a[1]))

\* What a row shows of a name that had the values a.
ShowsPlain(row, name, a) == ValuesOf(row.props, name) = a
ShowsHot(row, name, a) ==
  /\ name \in row.hot.seen <=> a # <<>>
  /\ name \in row.hot.dumped <=> Len(a) >= 2
  /\ Len(a) <= 1 => (name \in row.hot.kept <=> a # <<>> /\ KeptValue(name, a[1]))
  /\ row.hot.last[name] = IF a = <<>> THEN <<>> ELSE a[Len(a)]
  /\ ValuesOf(row.props, name) = IF InColumn(name, a) THEN <<>> ELSE a
Shows(row, name, a) ==
  IF rich /\ name \in Meta THEN ValuesOf(row.props, name) = <<>>
  ELSE IF rich /\ name \in Hot THEN ShowsHot(row, name, a)
  ELSE ShowsPlain(row, name, a)

\* The bytes of a name that had the values a.
Weight(name, a) ==
  IF rich /\ name \in Meta THEN Lengths(0, a)
  ELSE IF rich /\ name \in Hot
    THEN IF InColumn(name, a) THEN Lengths(0, a)
         ELSE Lengths(Len(name), a) + (IF KeptValue(name, a[1]) THEN 0 ELSE Len(a[1]))
  ELSE Lengths(Len(name), a)

\* Values, one more.
LEMMA ValuesMore ==
  ASSUME NEW a \in Seq(Text), NEW v \in Text
  PROVE  /\ Append(a, v) \in Seq(Text) /\ Append(a, v) # <<>> /\ Len(Append(a, v)) = Len(a) + 1
         /\ Len(a) \in Nat /\ (a = <<>> <=> Len(a) = 0)
         /\ Append(a, v)[Len(a) + 1] = v
         /\ Append(a, v)[1] = IF a = <<>> THEN v ELSE a[1]
         /\ a # <<>> => a[1] \in Text
OBVIOUS

\* The values of a name in props with a pair more.
LEMMA PropsMore ==
  ASSUME NEW p \in Seq(Pairs), NEW pair \in Pairs, NEW name
  PROVE  /\ Append(p, pair) \in Seq(Pairs) /\ ValuesOf(p, name) \in Seq(Text)
         /\ ValuesOf(Append(p, pair), name)
              = IF pair.name = name THEN Append(ValuesOf(p, name), pair.value) ELSE ValuesOf(p, name)
<1>1. HasValues(Pairs, Text)
  BY DEF HasValues, Pairs
<1>2. PICK q : q = Append(p, pair)
  OBVIOUS
<1>3. Longer(q, p, pair) /\ q \in Seq(Pairs)
  BY <1>2 DEF Longer
<1>4. ValuesOf(q, name)
        = IF pair.name = name THEN Append(ValuesOf(p, name), pair.value) ELSE ValuesOf(p, name)
  BY <1>1, <1>3, ValuesAppend
<1>5. ValuesOf(p, name) \in Seq(Text)
  BY <1>1, ValuesType
<1> QED BY <1>2, <1>3, <1>4, <1>5

\* One pair more: a row remains a row with its header.
LEMMA RowStays ==
  ASSUME NEW head, NEW row \in RowsWith(head), NEW pair \in Pairs
  PROVE  WithProp(rich, row, pair) \in RowsWith(head) /\ (~rich => WithProp(rich, row, pair).hot = row.hot)
<1>1. CASE ~rich \/ pair.name \notin Hot \cup Meta
  BY <1>1, PlainProp
<1>2. CASE rich /\ pair.name \in Meta
  BY <1>2, MetaProp
<1>3. CASE rich /\ pair.name \in Hot
  BY <1>3, HotProp
<1> QED BY <1>1, <1>2, <1>3

\* A pair of another name changes nothing of what a row shows of a name.
LEMMA OthersStay ==
  ASSUME NEW head, NEW row \in RowsWith(head), NEW pair \in Pairs, NEW name, name # pair.name,
         NEW a, Shows(row, name, a)
  PROVE  Shows(WithProp(rich, row, pair), name, a)
<1>1. PICK r, p : r = WithProp(rich, row, pair) /\ p = row.props
  OBVIOUS
<1>2. p \in Seq(Pairs) /\ row.hot \in HotStates
  BY <1>1, RowParts
<1>3. CASE ~rich \/ pair.name \notin Hot \cup Meta
  <2>1. r.hot = row.hot /\ r.props = Append(p, pair)
    BY <1>1, <1>3, PlainProp
  <2>2. ValuesOf(r.props, name) = ValuesOf(row.props, name)
    BY <1>1, <1>2, <2>1, PropsMore
  <2> QED BY <1>1, <2>1, <2>2 DEF Shows, ShowsHot, ShowsPlain
<1>4. CASE rich /\ pair.name \in Meta
  <2>1. r.hot = row.hot /\ r.props = p
    BY <1>1, <1>4, MetaProp
  <2> QED BY <1>1, <2>1 DEF Shows, ShowsHot, ShowsPlain
<1>5. CASE rich /\ pair.name \in Hot
  <2>1. PICK first, u : /\ first = [name |-> pair.name, value |-> row.hot.last[pair.name]]
                        /\ u = NoteHot(row.hot, pair)
    OBVIOUS
  <2>2. /\ r.hot = u /\ first \in Pairs /\ first.name = pair.name
        /\ \/ r.props = p
           \/ r.props = Append(Append(p, first), pair)
           \/ r.props = Append(p, pair)
    BY <1>1, <1>5, <2>1, HotProp
  <2>3. ValuesOf(r.props, name) = ValuesOf(p, name)
    <3>1. /\ Append(p, first) \in Seq(Pairs)
          /\ ValuesOf(Append(p, first), name) = ValuesOf(p, name)
      BY <1>2, <2>2, PropsMore
    <3>2. ValuesOf(Append(Append(p, first), pair), name) = ValuesOf(Append(p, first), name)
      BY <3>1, PropsMore
    <3>3. ValuesOf(Append(p, pair), name) = ValuesOf(p, name)
      BY <1>2, PropsMore
    <3> QED BY <2>2, <3>1, <3>2, <3>3
  <2>4. /\ u.seen = row.hot.seen \cup {pair.name}
        /\ u.dumped = IF pair.name \in row.hot.seen THEN row.hot.dumped \cup {pair.name}
                      ELSE row.hot.dumped
        /\ u.kept = IF KeptByRule(pair) THEN row.hot.kept \cup {pair.name} ELSE row.hot.kept
        /\ name \in Hot => u.last[name] = row.hot.last[name]
    BY <1>2, <1>5, <2>1, NoteHotIs
  <2>5. CASE name \in Meta
    BY <1>1, <1>5, <2>3, <2>5 DEF Shows
  <2>6. CASE name \notin Meta /\ name \in Hot
    <3>1. /\ name \in r.hot.seen <=> name \in row.hot.seen
          /\ name \in r.hot.dumped <=> name \in row.hot.dumped
          /\ name \in r.hot.kept <=> name \in row.hot.kept
          /\ r.hot.last[name] = row.hot.last[name]
      BY <2>2, <2>4, <2>6
    <3>2. ShowsHot(row, name, a)
      BY <1>5, <2>6 DEF Shows
    <3>3. ShowsHot(r, name, a)
      BY <1>1, <2>3, <3>1, <3>2 DEF ShowsHot
    <3> QED BY <1>1, <1>5, <2>6, <3>3 DEF Shows
  <2>7. CASE name \notin Meta /\ name \notin Hot
    BY <1>1, <1>5, <2>3, <2>7 DEF Shows, ShowsPlain
  <2> QED BY <2>5, <2>6, <2>7
<1> QED BY <1>3, <1>4, <1>5

\* The lengths of no, one and one more value.
LEMMA WeightMore ==
  ASSUME NEW a \in Seq(Text), NEW v \in Text, NEW l \in Nat
  PROVE  /\ Lengths(l, Append(a, v)) = Lengths(l, a) + l + Len(v)
         /\ Lengths(l, a) \in Nat /\ Len(v) \in Nat
         /\ a = <<>> => Lengths(l, a) = 0
         /\ Len(a) = 1 => Lengths(l, a) = l + Len(a[1]) /\ Len(a[1]) \in Nat /\ a[1] \in Text
<1>1. Len(v) \in Nat
  BY DEF Text
<1>2. ASSUME Len(a) = 1 PROVE Lengths(l, a) = l + Len(a[1]) /\ Len(a[1]) \in Nat /\ a[1] \in Text
  <2>1. PICK e, x : e = <<>> /\ x = a[1]
    OBVIOUS
  <2>2. x \in Text /\ e \in Seq(Text)
    BY <1>2, <2>1
  <2>3. a = Append(e, x)
    BY <1>2, <2>1, <2>2
  <2>4. Lengths(l, a) = Lengths(l, e) + l + Len(x) /\ Lengths(l, e) = 0
    <3>1. Lengths(l, e) = 0
      BY <2>1, <2>2, LengthsAre
    <3>2. l \in Nat
      OBVIOUS
    <3>3. Lengths(l, Append(e, x)) = Lengths(l, e) + l + Len(x)
      BY ONLY <2>2, <3>2, LengthsAre
    <3> QED BY <2>3, <3>1, <3>3
  <2>5. Len(x) \in Nat
    BY <2>2 DEF Text
  <2> QED BY <2>1, <2>2, <2>4, <2>5
<1>3. Lengths(l, Append(a, v)) = Lengths(l, a) + l + Len(v) /\ Lengths(l, a) \in Nat
  BY LengthsAre
<1>4. a = <<>> => Lengths(l, a) = 0
  BY LengthsAre
<1> QED BY <1>1, <1>2, <1>3, <1>4

\* The pair's own name has a value more; its bytes grow by what the row grows.
LEMMA OwnGrows ==
  ASSUME NEW head, NEW row \in RowsWith(head), NEW pair \in Pairs, NEW a \in Seq(Text),
         Shows(row, pair.name, a)
  PROVE  LET r == WithProp(rich, row, pair)
             b == Append(a, pair.value)
         IN /\ Shows(r, pair.name, b)
            /\ Weight(pair.name, a) \in Nat /\ Weight(pair.name, b) \in Nat
            /\ r.bytes = row.bytes + Weight(pair.name, b) - Weight(pair.name, a)
<1>1. PICK r, p, b, name, v, l, m : /\ r = WithProp(rich, row, pair) /\ p = row.props
                                    /\ b = Append(a, pair.value) /\ name = pair.name
                                    /\ v = pair.value /\ l = Len(name) /\ m = Len(v)
  OBVIOUS
<1>2. p \in Seq(Pairs) /\ row.hot \in HotStates /\ row.bytes \in Int
  BY <1>1, RowParts
<1>3. v \in Text /\ l \in Nat /\ m \in Nat
  BY <1>1, PairLens
<1>4. /\ b \in Seq(Text) /\ b # <<>> /\ Len(b) = Len(a) + 1 /\ Len(a) \in Nat
      /\ (a = <<>> <=> Len(a) = 0) /\ b[Len(b)] = v /\ b[1] = IF a = <<>> THEN v ELSE a[1]
  BY <1>1, <1>3, ValuesMore
<1>5. PICK w0, w1, x0, x1 : /\ w0 = Lengths(0, a) /\ w1 = Lengths(0, b)
                            /\ x0 = Lengths(l, a) /\ x1 = Lengths(l, b)
  OBVIOUS
<1>6. w1 = w0 + m /\ w0 \in Nat /\ (a = <<>> => w0 = 0)
      /\ (Len(a) = 1 => w0 = Len(a[1]) /\ Len(a[1]) \in Nat)
  <2>1. PICK z : z = 0
    OBVIOUS
  <2>2. z \in Nat
    BY <2>1
  <2>3. /\ Lengths(z, b) = Lengths(z, a) + z + Len(v) /\ Lengths(z, a) \in Nat
        /\ a = <<>> => Lengths(z, a) = 0
        /\ Len(a) = 1 => Lengths(z, a) = z + Len(a[1]) /\ Len(a[1]) \in Nat
    BY <1>1, <1>3, <2>2, WeightMore
  <2> QED BY <1>1, <1>3, <1>5, <2>1, <2>3
<1>7. x1 = x0 + l + m /\ x0 \in Nat /\ (a = <<>> => x0 = 0)
      /\ (Len(a) = 1 => x0 = l + Len(a[1]))
  BY <1>1, <1>3, <1>5, WeightMore
<1>8. ValuesOf(Append(p, pair), name) = Append(ValuesOf(p, name), v)
  BY <1>1, <1>2, PropsMore
<1>9. CASE ~rich \/ name \notin Hot \cup Meta
  <2>1. r.hot = row.hot /\ r.props = Append(p, pair) /\ r.bytes = row.bytes + l + m
    BY <1>1, <1>9, PlainProp
  <2>2. ValuesOf(p, name) = a
    BY <1>1, <1>9 DEF Shows, ShowsPlain
  <2>3. Shows(r, name, b)
    BY <1>1, <1>8, <1>9, <2>1, <2>2 DEF Shows, ShowsPlain
  <2>4. Weight(name, a) = x0 /\ Weight(name, b) = x1
    BY <1>1, <1>5, <1>9 DEF Weight
  <2>5. x1 \in Nat /\ r.bytes = row.bytes + x1 - x0
    <3>1. PICK c, d : c = row.bytes /\ d = r.bytes
      OBVIOUS
    <3>2. c \in Int /\ d = c + l + m /\ x1 = x0 + l + m /\ x0 \in Nat
      BY <1>2, <1>7, <2>1, <3>1, Zenon
    <3>3. x1 \in Nat /\ d = c + x1 - x0
      BY ONLY <1>3, <3>2
    <3> QED BY <3>1, <3>3
  <2> QED BY <1>1, <1>7, <2>3, <2>4, <2>5
<1>10. CASE rich /\ name \in Meta
  <2>1. r.hot = row.hot /\ r.props = p /\ r.bytes = row.bytes + m
    BY <1>1, <1>10, MetaProp
  <2>2. Shows(r, name, b)
    BY <1>1, <1>10, <2>1 DEF Shows
  <2>3. Weight(name, a) = w0 /\ Weight(name, b) = w1
    BY <1>1, <1>5, <1>10 DEF Weight
  <2>4. w1 \in Nat /\ r.bytes = row.bytes + w1 - w0
    <3>1. PICK c, d : c = row.bytes /\ d = r.bytes
      OBVIOUS
    <3>2. c \in Int /\ d = c + m /\ w1 = w0 + m /\ w0 \in Nat
      BY <1>2, <1>6, <2>1, <3>1, Zenon
    <3>3. w1 \in Nat /\ d = c + w1 - w0
      BY ONLY <1>3, <3>2
    <3> QED BY <3>1, <3>3
  <2> QED BY <1>1, <1>6, <2>2, <2>3, <2>4
<1>11. CASE rich /\ name \in Hot
  <2>1. name \notin Meta
    BY <1>11, HotIs
  <2>2. ShowsHot(row, name, a)
    BY <1>1, <1>11, <2>1 DEF Shows
  <2>3. PICK first, u, t : /\ first = [name |-> name, value |-> row.hot.last[name]]
                           /\ u = NoteHot(row.hot, pair) /\ t = row.hot
    OBVIOUS
  <2>4. /\ u.seen = t.seen \cup {name}
        /\ u.dumped = IF name \in t.seen THEN t.dumped \cup {name} ELSE t.dumped
        /\ u.kept = IF KeptByRule(pair) THEN t.kept \cup {name} ELSE t.kept
        /\ u.last[name] = v
    BY <1>1, <1>2, <1>11, <2>3, NoteHotIs
  <2>5. KeptByRule(pair) <=> KeptValue(name, v)
    BY <1>1 DEF KeptByRule, KeptValue
  <2>6. /\ r.hot = u /\ first \in Pairs
        /\ IF name \notin t.seen /\ ~KeptValue(name, v)
             THEN r.props = p /\ r.bytes = row.bytes + m
           ELSE IF Pending(t, name)
             THEN /\ r.props = Append(Append(p, first), pair)
                  /\ r.bytes = row.bytes + l + Len(first.value) + l + m
           ELSE /\ r.props = Append(p, pair) /\ r.bytes = row.bytes + l + m
    BY <1>1, <1>11, <2>3, HotProp
  <2>7. ValuesOf(Append(Append(p, first), pair), name)
          = Append(Append(ValuesOf(p, name), first.value), v)
    <3>1. /\ Append(p, first) \in Seq(Pairs) /\ first.name = name
          /\ ValuesOf(Append(p, first), name) = Append(ValuesOf(p, name), first.value)
      BY <1>2, <2>3, <2>6, PropsMore
    <3>2. ValuesOf(Append(Append(p, first), pair), name) = Append(ValuesOf(Append(p, first), name), v)
      BY <1>1, <3>1, PropsMore
    <3> QED BY <3>1, <3>2
  <2>8. Weight(name, a) = IF InColumn(name, a) THEN w0
                          ELSE x0 + (IF KeptValue(name, a[1]) THEN 0 ELSE Len(a[1]))
    BY <1>1, <1>5, <1>11, <2>1 DEF Weight
  <2>9. Weight(name, b) = IF InColumn(name, b) THEN w1
                          ELSE x1 + (IF KeptValue(name, b[1]) THEN 0 ELSE Len(b[1]))
    BY <1>1, <1>5, <1>11, <2>1 DEF Weight
  <2>10. ShowsHot(r, name, b) => Shows(r, name, b)
    BY <1>11, <2>1 DEF Shows
  <2>11. CASE a = <<>>
    <3>1. /\ name \notin t.seen /\ name \notin t.dumped /\ name \notin t.kept
          /\ ValuesOf(p, name) = <<>> /\ Len(a) = 0 /\ Len(b) = 1 /\ b[1] = v /\ b = <<v>>
      <4>1. name \notin t.seen /\ name \notin t.dumped /\ name \notin t.kept
        BY <1>4, <2>2, <2>3, <2>11 DEF ShowsHot
      <4>2. ValuesOf(p, name) = <<>>
        BY <1>1, <2>2, <2>11 DEF ShowsHot, InColumn
      <4>3. b = <<v>>
        BY <1>1, <2>11
      <4> QED BY <1>4, <2>11, <4>1, <4>2, <4>3
    <3>2. ~Pending(t, name)
      BY <3>1 DEF Pending
    <3>3. /\ name \in u.seen /\ name \notin u.dumped /\ (name \in u.kept <=> KeptValue(name, v))
      BY <2>4, <2>5, <3>1
    <3>4. CASE KeptValue(name, v)
      <4>1. r.props = Append(p, pair) /\ r.bytes = row.bytes + l + m
        BY <2>6, <3>2, <3>4
      <4>2. ValuesOf(r.props, name) = b
        BY <1>8, <3>1, <4>1
      <4>3. ~InColumn(name, b) /\ InColumn(name, a)
        BY <1>4, <2>11, <3>1, <3>4 DEF InColumn
      <4>4. ShowsHot(r, name, b)
        BY <1>4, <2>4, <2>6, <3>1, <3>3, <3>4, <4>2, <4>3 DEF ShowsHot
      <4>5. Weight(name, a) = 0 /\ Weight(name, b) = l + m
        BY <1>3, <1>6, <1>7, <2>8, <2>9, <2>11, <3>1, <3>4, <4>3
      <4>6. /\ Weight(name, a) \in Nat /\ Weight(name, b) \in Nat
            /\ r.bytes = row.bytes + Weight(name, b) - Weight(name, a)
        <5>1. l + m \in Nat /\ r.bytes = row.bytes + (l + m) - 0
          BY <1>2, <1>3, <4>1
        <5> QED BY <4>5, <5>1
      <4>7. Shows(r, name, b)
        BY <2>10, <4>4
      <4> QED BY ONLY <1>1, <4>6, <4>7
    <3>5. CASE ~KeptValue(name, v)
      <4>1. r.props = p /\ r.bytes = row.bytes + m
        BY <2>6, <3>1, <3>5
      <4>2. InColumn(name, b) /\ InColumn(name, a)
        BY <2>11, <3>1, <3>5 DEF InColumn
      <4>3. ShowsHot(r, name, b)
        BY <1>4, <2>4, <2>6, <3>1, <3>3, <3>5, <4>1, <4>2 DEF ShowsHot
      <4>4. Weight(name, a) = 0 /\ Weight(name, b) = m
        BY <1>3, <1>6, <2>8, <2>9, <2>11, <4>2
      <4>5. /\ Weight(name, a) \in Nat /\ Weight(name, b) \in Nat
            /\ r.bytes = row.bytes + Weight(name, b) - Weight(name, a)
        BY <1>2, <1>3, <4>1, <4>4
      <4>6. Shows(r, name, b)
        BY <2>10, <4>3
      <4> QED BY ONLY <1>1, <4>5, <4>6
    <3> QED BY <3>4, <3>5
  <2>12. CASE a # <<>> /\ Len(a) = 1
    <3>1. /\ name \in t.seen /\ name \notin t.dumped /\ Len(b) = 2 /\ b[1] = a[1]
          /\ name \in t.kept <=> KeptValue(name, a[1])
      BY <1>4, <2>2, <2>3, <2>12 DEF ShowsHot
    <3>2. Pending(t, name) <=> ~KeptValue(name, a[1])
      BY <3>1 DEF Pending
    <3>3. name \in u.seen /\ name \in u.dumped
      BY <2>4, <3>1
    <3>4. ~InColumn(name, b)
      <4>1. Len(b) # 1 /\ b # <<>>
        <5>1. Len(b) = 2 /\ b # <<>>
          BY <1>4, <3>1
        <5>2. 2 # 1
          OBVIOUS
        <5> QED BY ONLY <5>1, <5>2
      <4> QED BY <4>1 DEF InColumn
    <3>5. Len(a[1]) \in Nat /\ w0 = Len(a[1]) /\ x0 = l + Len(a[1])
      BY <1>6, <1>7, <2>12
    <3>6. CASE KeptValue(name, a[1])
      <4>1. r.props = Append(p, pair) /\ r.bytes = row.bytes + l + m
        BY <2>6, <3>1, <3>2, <3>6
      <4>2. ~InColumn(name, a)
        BY <2>12, <3>6 DEF InColumn
      <4>3. ValuesOf(p, name) = a
        BY <1>1, <2>2, <4>2 DEF ShowsHot
      <4>4. ShowsHot(r, name, b)
        BY <1>1, <1>4, <1>8, <2>4, <2>6, <3>1, <3>3, <3>4, <4>1, <4>3 DEF ShowsHot
      <4>5. Weight(name, a) = x0 /\ Weight(name, b) = x1
        BY <1>3, <1>7, <2>8, <2>9, <3>1, <3>4, <3>6, <4>2
      <4>6. r.bytes = row.bytes + x1 - x0 /\ x1 \in Nat
        BY <1>2, <1>3, <1>7, <4>1
      <4> QED BY <1>1, <1>7, <2>10, <4>4, <4>5, <4>6
    <3>7. CASE ~KeptValue(name, a[1])
      <4>1. PICK k : k = Len(a[1])
        OBVIOUS
      <4>2. first.value = a[1]
        <5>1. row.hot.last[name] = a[1]
          BY <2>2, <2>12 DEF ShowsHot
        <5> QED BY <2>3, <5>1
      <4>3. r.props = Append(Append(p, first), pair) /\ r.bytes = row.bytes + l + k + l + m
        BY <2>6, <3>1, <3>2, <3>7, <4>1, <4>2
      <4>4. InColumn(name, a)
        BY <2>12, <3>7 DEF InColumn
      <4>5. ValuesOf(p, name) = <<>>
        BY <1>1, <2>2, <4>4 DEF ShowsHot
      <4>6. Append(<<>>, a[1]) = a
        BY <2>12
      <4>7. ValuesOf(r.props, name) = b
        BY <1>1, <2>7, <4>2, <4>3, <4>5, <4>6
      <4>8. ShowsHot(r, name, b)
        <5>1. Len(b) = 2 /\ b # <<>> /\ b[Len(b)] = v
          BY <1>4, <3>1
        <5>2. ~(Len(b) <= 1) /\ Len(b) >= 2
          BY ONLY <5>1
        <5> QED BY <2>4, <2>6, <3>3, <3>4, <4>7, <5>1, <5>2 DEF ShowsHot
      <4>9. Weight(name, a) = w0 /\ Weight(name, b) = x1 + k
        BY <2>8, <2>9, <3>1, <3>4, <3>7, <4>1, <4>4
      <4>10. r.bytes = row.bytes + (x1 + k) - w0 /\ x1 + k \in Nat
        <5>1. k \in Nat /\ w0 = k /\ x0 = l + k
          BY <3>5, <4>1
        <5> QED BY <1>2, <1>3, <1>7, <4>3, <5>1
      <4> QED BY <1>1, <1>6, <2>10, <4>8, <4>9, <4>10
    <3> QED BY <3>6, <3>7
  <2>13. CASE a # <<>> /\ Len(a) # 1
    <3>1. Len(a) >= 2 /\ Len(b) >= 2 /\ b[1] = a[1] /\ a[1] \in Text
      <4>1. Len(a) >= 2 /\ Len(b) >= 2
        <5>1. PICK n, k : n = Len(a) /\ k = Len(b)
          OBVIOUS
        <5>2. n \in Nat /\ k = n + 1 /\ n # 0 /\ n # 1
          BY <1>4, <2>13, <5>1
        <5>3. n >= 2 /\ k >= 2
          BY ONLY <5>2
        <5> QED BY ONLY <5>1, <5>3
      <4>2. a[1] \in Text
        BY <1>3, <2>13, ValuesMore
      <4> QED BY <1>4, <2>13, <4>1, <4>2
    <3>2. name \in t.seen /\ name \in t.dumped
      BY <2>2, <2>3, <2>13, <3>1 DEF ShowsHot
    <3>3. ~Pending(t, name) /\ name \in u.seen /\ name \in u.dumped
      BY <2>4, <3>2 DEF Pending
    <3>4. ~InColumn(name, a) /\ ~InColumn(name, b)
      BY <1>4, <2>13, <3>1 DEF InColumn
    <3>5. r.props = Append(p, pair) /\ r.bytes = row.bytes + l + m
      BY <2>6, <3>2, <3>3
    <3>6. ValuesOf(p, name) = a
      BY <1>1, <2>2, <3>4 DEF ShowsHot
    <3>7. ShowsHot(r, name, b)
      <4>1. ~(Len(b) <= 1)
        BY <1>4, <3>1
      <4>2. ValuesOf(r.props, name) = b
        BY <1>1, <1>8, <3>5, <3>6
      <4> QED BY <1>4, <2>4, <2>6, <3>1, <3>3, <3>4, <4>1, <4>2 DEF ShowsHot
    <3>8. PICK k : k = IF KeptValue(name, a[1]) THEN 0 ELSE Len(a[1])
      OBVIOUS
    <3>9. k \in Nat
      BY <3>1, <3>8 DEF Text
    <3>10. Weight(name, a) = x0 + k /\ Weight(name, b) = x1 + k
      BY <2>8, <2>9, <3>1, <3>4, <3>8
    <3>11. r.bytes = row.bytes + (x1 + k) - (x0 + k) /\ x1 + k \in Nat /\ x0 + k \in Nat
      BY <1>2, <1>3, <1>7, <3>5, <3>9
    <3> QED BY <1>1, <2>10, <3>7, <3>10, <3>11
  <2> QED BY <2>11, <2>12, <2>13
<1> QED BY <1>9, <1>10, <1>11

FilledStep(head, hot, pairs, row, i) ==
  IF i = 0 THEN Fresh(head, hot) ELSE WithProp(rich, row[i - 1], pairs[i])

\* The table in Filled.
LEMMA FilledTable ==
  ASSUME NEW head, NEW hot, NEW pairs
  PROVE  \E g : /\ g = (CHOOSE h : h = [i \in 0 .. Len(pairs) |-> FilledStep(head, hot, pairs, h, i)])
                /\ Filled(rich, head, hot, pairs) = g[Len(pairs)]
BY Zenon DEF Filled, FilledStep

\* f and g differ in y only.
DifferAt(f, g, S, y) ==
  \A x \in S : f[x] \in Nat /\ g[x] \in Nat /\ (x # y => g[x] = f[x])

\* Their sums differ by what they differ at y.
LEMMA SumAt ==
  ASSUME NEW S, IsFiniteSet(S), NEW f, NEW g, NEW y \in S, DifferAt(f, g, S, y)
  PROVE  SumFunctionOnSet(g, S) = SumFunctionOnSet(f, S) - f[y] + g[y]
BY SumChange DEF DifferAt

\* Nothing has no values and no bytes.
LEMMA NothingOf ==
  /\ \A name : ValuesOf(<<>>, name) = <<>>
  /\ \A l : Lengths(l, <<>>) = 0
  /\ \A name : Weight(name, <<>>) = 0
<1>1. \A name : ValuesOf(<<>>, name) = <<>>
  <2>1. PICK e : e = <<>>
    OBVIOUS
  <2>2. e \in Seq(Pairs) /\ \A name : \A i \in DOMAIN e : e[i].name # name
    BY <2>1
  <2>3. HasValues(Pairs, Text)
    BY DEF HasValues, Pairs
  <2>4. \A name : ValuesOf(e, name) = <<>>
    BY <2>2, <2>3, ValuesType
  <2> QED BY <2>1, <2>4
<1>2. \A l : Lengths(l, <<>>) = 0
  <2>1. 1 .. Len(<<>>) = {}
    OBVIOUS
  <2> QED BY <2>1, SumEmpty DEF Lengths
<1>3. \A name : Weight(name, <<>>) = 0
  BY <1>2 DEF Weight, InColumn
<1> QED BY <1>1, <1>2, <1>3

\* A row without properties.
LEMMA FreshIs ==
  ASSUME NEW head, Len(head[3]) \in Nat, Len(head[4]) \in Nat
  PROVE  LET r == Fresh(head, NoHot) IN
         /\ r \in RowsWith(head) /\ r.hot = NoHot
         /\ \A name : Shows(r, name, <<>>)
<1>1. PICK r, b : r = Fresh(head, NoHot) /\ b = 24 + Len(head[3]) + Len(head[4]) + 2
  OBVIOUS
<1>2. b \in Int
  BY <1>1
<1>3. NoHot \in HotStates
  <2>1. <<>> \in Text
    BY DEF Text
  <2> QED BY <2>1 DEF NoHot, HotStates
<1>4. PICK e : e = <<>>
  OBVIOUS
<1>5. e \in Seq(Pairs)
  BY <1>4
<1>6. r = RowOf(head, e, b, NoHot)
  BY <1>1, <1>4 DEF Fresh, RowOf
<1>7. r \in RowsWith(head) /\ r.props = e /\ r.hot = NoHot
  <2>1. PICK t : t = NoHot
    OBVIOUS
  <2>2. t \in HotStates /\ r = RowOf(head, e, b, t)
    BY <1>3, <1>6, <2>1
  <2>3. r \in RowsWith(head) /\ r.props = e /\ r.hot = t
    BY ONLY <1>2, <1>5, <2>2, RowIsOne
  <2> QED BY <2>1, <2>3
<1>8. ASSUME NEW name PROVE Shows(r, name, <<>>)
  <2>1. ValuesOf(r.props, name) = <<>>
    BY <1>4, <1>7, NothingOf
  <2>2. CASE rich /\ name \in Meta
    BY <2>1, <2>2 DEF Shows
  <2>3. CASE rich /\ name \notin Meta /\ name \in Hot
    <3>1. name \notin r.hot.seen /\ name \notin r.hot.dumped /\ name \notin r.hot.kept
          /\ r.hot.last[name] = <<>>
      BY <1>7, <2>3 DEF NoHot
    <3>2. InColumn(name, <<>>) /\ ~(Len(<<>>) >= 2)
      BY DEF InColumn
    <3>3. ShowsHot(r, name, <<>>)
      BY <2>1, <3>1, <3>2 DEF ShowsHot
    <3> QED BY <2>3, <3>3 DEF Shows
  <2>4. CASE ~(rich /\ name \in Meta) /\ ~(rich /\ name \in Hot)
    BY <2>1, <2>4 DEF Shows, ShowsPlain
  <2> QED BY <2>2, <2>3, <2>4
<1> QED BY <1>1, <1>7, <1>8

\* The row after the first pairs: what it shows of every name, and its bytes.
Weights(pairs, N) == [name \in N |-> Weight(name, ValuesOf(pairs, name))]
Fills(row, head, pairs, N) ==
  /\ row \in RowsWith(head) /\ (~rich => row.hot = NoHot)
  /\ \A name : Shows(row, name, ValuesOf(pairs, name))
  /\ \A name \in N : Weight(name, ValuesOf(pairs, name)) \in Nat
  /\ row.bytes = Fresh(head, NoHot).bytes + SumFunctionOnSet(Weights(pairs, N), N)

\* The row is filled by nothing at first.
LEMMA FillsFirst ==
  ASSUME NEW head, Len(head[3]) \in Nat, Len(head[4]) \in Nat, NEW N, IsFiniteSet(N)
  PROVE  Fills(Fresh(head, NoHot), head, <<>>, N)
<1>1. PICK r, e, w : r = Fresh(head, NoHot) /\ e = <<>> /\ w = Weights(e, N)
  OBVIOUS
<1>2. r \in RowsWith(head) /\ r.hot = NoHot /\ \A name : Shows(r, name, e)
  BY <1>1, FreshIs
<1>3. \A name : ValuesOf(e, name) = e /\ Weight(name, e) = 0
  BY <1>1, NothingOf
<1>4. \A name \in N : w[name] = 0
  BY <1>1, <1>3 DEF Weights
<1>5. SumFunctionOnSet(w, N) = 0
  BY <1>4, SumZero
<1>6. r.bytes \in Int
  BY <1>2, RowParts
<1>7. r.bytes = r.bytes + SumFunctionOnSet(w, N)
  BY <1>5, <1>6
<1>8. \A name : Shows(r, name, ValuesOf(e, name)) /\ Weight(name, ValuesOf(e, name)) \in Nat
  BY <1>2, <1>3
<1> QED BY <1>1, <1>2, <1>7, <1>8 DEF Fills

\* And by a pair more with every step of Filled.
LEMMA FillsNext ==
  ASSUME NEW head, NEW N, IsFiniteSet(N), NEW s \in Seq(Pairs), NEW row, Fills(row, head, s, N),
         NEW pair \in Pairs, pair.name \in N, Fresh(head, NoHot).bytes \in Int
  PROVE  Fills(WithProp(rich, row, pair), head, Append(s, pair), N)
<1>1. PICK r, t, y, f, g, b : /\ r = WithProp(rich, row, pair) /\ t = Append(s, pair) /\ y = pair.name
                              /\ f = Weights(s, N) /\ g = Weights(t, N)
                              /\ b = Fresh(head, NoHot).bytes
  OBVIOUS
<1>2. row \in RowsWith(head)
  BY DEF Fills
<1>3. r \in RowsWith(head) /\ (~rich => r.hot = NoHot)
  BY <1>1, <1>2, RowStays DEF Fills
<1>4. \A name : ValuesOf(s, name) \in Seq(Text)
                /\ ValuesOf(t, name) = IF y = name THEN Append(ValuesOf(s, name), pair.value)
                                       ELSE ValuesOf(s, name)
  BY <1>1, PropsMore
<1>5. ASSUME NEW name, name # y PROVE Shows(r, name, ValuesOf(t, name))
  <2>1. Shows(row, name, ValuesOf(s, name)) /\ ValuesOf(t, name) = ValuesOf(s, name)
    BY <1>4, <1>5 DEF Fills
  <2> QED BY <1>1, <1>2, <1>5, <2>1, OthersStay
<1>6. PICK u, v : u = ValuesOf(s, y) /\ v = ValuesOf(t, y)
  OBVIOUS
<1>7. u \in Seq(Text) /\ v = Append(u, pair.value) /\ Shows(row, y, u)
  BY <1>4, <1>6 DEF Fills
<1>8. /\ Shows(r, y, v) /\ Weight(y, u) \in Nat /\ Weight(y, v) \in Nat
      /\ r.bytes = row.bytes + Weight(y, v) - Weight(y, u)
  BY <1>1, <1>2, <1>7, OwnGrows
<1>9. \A name : Shows(r, name, ValuesOf(t, name))
  BY <1>5, <1>6, <1>8
<1>10. \A name \in N : Weight(name, ValuesOf(t, name)) \in Nat
  <2>1. ASSUME NEW name \in N PROVE Weight(name, ValuesOf(t, name)) \in Nat
    <3>1. CASE name = y
      BY <1>6, <1>8, <3>1
    <3>2. CASE name # y
      BY <1>4, <3>2 DEF Fills
    <3> QED BY <3>1, <3>2
  <2> QED BY <2>1
<1>11. y \in N /\ f[y] = Weight(y, u) /\ g[y] = Weight(y, v)
  BY <1>1, <1>6 DEF Weights
<1>12. \A name \in N : f[name] \in Nat /\ g[name] \in Nat /\ (name # y => g[name] = f[name])
  <2>1. \A name \in N : f[name] = Weight(name, ValuesOf(s, name))
                        /\ g[name] = Weight(name, ValuesOf(t, name))
    BY <1>1 DEF Weights
  <2>2. \A name \in N : Weight(name, ValuesOf(s, name)) \in Nat
    BY DEF Fills
  <2> QED BY <1>4, <1>10, <2>1, <2>2
<1>13. SumFunctionOnSet(g, N) = SumFunctionOnSet(f, N) - f[y] + g[y]
  <2>1. IsFiniteSet(N) /\ y \in N
    BY <1>11
  <2>2. DifferAt(f, g, N, y)
    BY <1>12 DEF DifferAt
  <2> QED BY ONLY <2>1, <2>2, SumAt
<1>14. SumFunctionOnSet(f, N) \in Nat
  BY <1>12, SumType
<1>15. row.bytes = b + SumFunctionOnSet(f, N)
  BY <1>1 DEF Fills
<1>16. r.bytes = b + SumFunctionOnSet(g, N)
  <2>1. PICK sf, sg, wu, wv : /\ sf = SumFunctionOnSet(f, N) /\ sg = SumFunctionOnSet(g, N)
                              /\ wu = Weight(y, u) /\ wv = Weight(y, v)
    OBVIOUS
  <2>2. /\ sf \in Nat /\ wu \in Nat /\ wv \in Nat /\ b \in Int /\ sg = sf - wu + wv
        /\ r.bytes = (b + sf) + wv - wu
    BY <1>1, <1>8, <1>11, <1>13, <1>14, <1>15, <2>1
  <2>3. r.bytes = b + sg
    BY ONLY <2>2
  <2> QED BY <2>1, <2>3
<1> QED BY <1>1, <1>3, <1>9, <1>10, <1>16 DEF Fills

\* Filled gives a row that shows of every name what belongs to its values.
LEMMA FilledIs ==
  ASSUME NEW head, Len(head[3]) \in Nat, Len(head[4]) \in Nat, NEW pairs \in Seq(Pairs),
         NEW N, IsFiniteSet(N), \A i \in DOMAIN pairs : pairs[i].name \in N
  PROVE  Fills(Filled(rich, head, NoHot, pairs), head, pairs, N)
<1>1. PICK n, U, b : n = Len(pairs) /\ U = RowsWith(head) /\ b = Fresh(head, NoHot)
  OBVIOUS
<1>2. n \in Nat
  BY <1>1
<1>3. b \in U
  BY <1>1, FreshIs
<1>4. b.bytes \in Int
  BY <1>1, <1>3, RowParts
<1>5. PICK H : H = [x \in (1 .. n) \X U |-> WithProp(rich, x[2], pairs[x[1]])]
  OBVIOUS
<1>6. \A i \in 1 .. n : pairs[i] \in Pairs /\ pairs[i].name \in N
  BY <1>1
<1>7. \A i \in 1 .. n : \A x \in U : H[<<i, x>>] = WithProp(rich, x, pairs[i])
  BY <1>5
<1>8. Rises(n, U, H)
  BY <1>1, <1>6, <1>7, RowStays DEF Rises
<1>9. PICK f \in [0 .. n -> U] : f[0] = b /\ \A i \in 1 .. n : f[i] = H[<<i, f[i - 1]>>]
  BY <1>2, <1>3, <1>8, Climb DEF Climbs
<1>10. \A i \in 1 .. n : i \in 0 .. n /\ i - 1 \in 0 .. n /\ i # 0
  BY <1>2
<1>11. \A i \in 1 .. n : f[i] = WithProp(rich, f[i - 1], pairs[i])
  BY <1>7, <1>9, <1>10
<1>12. f = [i \in 0 .. Len(pairs) |-> FilledStep(head, NoHot, pairs, f, i)]
  <2>1. \A i \in 0 .. n : i = 0 \/ i \in 1 .. n
    BY <1>2
  <2>2. \A i \in 0 .. n : f[i] = IF i = 0 THEN b ELSE WithProp(rich, f[i - 1], pairs[i])
    BY <1>9, <1>10, <1>11, <2>1
  <2>3. \A i \in 0 .. n : f[i] = FilledStep(head, NoHot, pairs, f, i)
    BY <1>1, <2>2 DEF FilledStep
  <2> QED BY <1>1, <1>9, <2>3
<1>13. PICK g : /\ g = [i \in 0 .. Len(pairs) |-> FilledStep(head, NoHot, pairs, g, i)]
                /\ Filled(rich, head, NoHot, pairs) = g[Len(pairs)]
  BY <1>12, FilledTable
<1>14. g[0] = b /\ \A i \in 1 .. n : g[i] = WithProp(rich, g[i - 1], pairs[i])
  <2>1. 0 \in 0 .. n
    BY <1>2
  <2>2. \A i \in 0 .. n : g[i] = FilledStep(head, NoHot, pairs, g, i)
    BY <1>1, <1>13
  <2> QED BY <1>1, <1>10, <2>1, <2>2 DEF FilledStep
<1> DEFINE S == {i \in Nat : Fills(g[i], head, SubSeq(pairs, 1, i), N)}
<1>15. 0 \in S
  <2>1. SubSeq(pairs, 1, 0) = <<>>
    OBVIOUS
  <2> QED BY <1>1, <1>14, <2>1, FillsFirst
<1>16. ASSUME NEW i \in Nat, i < n, i \in S PROVE i + 1 \in S
  <2>1. PICK k, p, q : k = i + 1 /\ p = SubSeq(pairs, 1, i) /\ q = SubSeq(pairs, 1, k)
    OBVIOUS
  <2>2. k \in 1 .. n /\ k \in Nat /\ k - 1 = i
    BY <1>2, <1>16, <2>1
  <2>3. p \in Seq(Pairs) /\ q = Append(p, pairs[k])
    <3>1. i + 1 <= Len(pairs)
      BY <1>1, <1>2, <1>16
    <3> QED BY <2>1, <3>1, PrefixGrows
  <2>4. Fills(g[i], head, p, N)
    BY <1>16, <2>1
  <2>5. g[k] = WithProp(rich, g[i], pairs[k])
    BY <1>14, <2>2
  <2>6. pairs[k] \in Pairs /\ pairs[k].name \in N
    BY <1>6, <2>2
  <2>7. Fills(g[k], head, q, N)
    BY <1>1, <1>4, <2>3, <2>4, <2>5, <2>6, FillsNext
  <2> QED BY <2>1, <2>2, <2>7
<1>17. \A i \in 0 .. n : i \in S
  <2> HIDE DEF S
  <2> QED BY <1>2, <1>15, <1>16, Induct
<1>18. n \in S
  <2>1. n \in 0 .. n
    BY <1>2
  <2> HIDE DEF S
  <2> QED BY <1>17, <2>1
<1>19. SubSeq(pairs, 1, Len(pairs)) = pairs
  OBVIOUS
<1>20. Fills(g[Len(pairs)], head, pairs, N)
  BY <1>1, <1>18, <1>19
<1> QED BY <1>13, <1>20

\* The fields of the header are texts.
LEMMA FieldTexts ==
  ASSUME NEW text \in Text
  PROVE  LET f == ParseEventFields(text) IN
         f.time \in Text /\ f.duration \in Text /\ f.event \in Text /\ f.level \in Text
<1>1. PICK f, body : f = ParseEventFields(text) /\ body = f.body
  OBVIOUS
<1>2. body \in Text /\ Len(body) \in Nat
  BY <1>1, FieldsType DEF Text
<1>3. PICK first, second, third, dash : /\ first = Index(body, ",", 1)
                                        /\ second = Index(body, ",", first + 1)
                                        /\ third = Index(body, ",", second + 1)
                                        /\ dash = Index(body, "-", 1)
  OBVIOUS
<1>4. /\ f.time = SubSeq(body, 1, dash - 1) /\ f.duration = SubSeq(body, dash + 1, first - 1)
      /\ f.event = SubSeq(body, first + 1, second - 1)
      /\ f.level = SubSeq(body, second + 1, IF third = 0 THEN Len(body) ELSE third - 1)
  BY <1>1, <1>3 DEF ParseEventFields
<1>5. PICK one, a, b, c : one = 1 /\ a = dash + 1 /\ b = first + 1 /\ c = second + 1
  OBVIOUS
<1>6. first = Index(body, ",", one) /\ dash = Index(body, "-", one) /\ one \in Nat /\ one >= 1
  <2>1. first = Index(body, ",", one)
    BY <1>3, <1>5, Zenon
  <2>2. dash = Index(body, "-", one)
    BY <1>3, <1>5, Zenon
  <2>3. one \in Nat /\ one >= 1
    BY <1>5
  <2> QED BY <2>1, <2>2, <2>3
<1>7. first \in Nat /\ first <= Len(body) /\ dash \in Nat /\ dash <= Len(body)
  <2>1. /\ first \in Nat /\ (first # 0 => first <= Len(body))
        /\ dash \in Nat /\ (dash # 0 => dash <= Len(body))
    BY <1>2, <1>6, IndexType
  <2> QED BY <1>2, <2>1
<1>8. a \in Nat /\ b \in Nat /\ a >= 1 /\ b >= 1
  BY <1>5, <1>7
<1>9. second \in Nat /\ second <= Len(body)
  <2>1. second \in Nat /\ (second # 0 => second <= Len(body))
    BY <1>2, <1>3, <1>5, <1>8, IndexType
  <2> QED BY <1>2, <2>1
<1>10. c \in Nat /\ c >= 1
  BY <1>5, <1>9
<1>11. third \in Nat /\ third <= Len(body)
  <2>1. third \in Nat /\ (third # 0 => third <= Len(body))
    BY <1>2, <1>3, <1>5, <1>10, IndexType
  <2> QED BY <1>2, <2>1
<1>12. \A x, y \in Nat : x >= 1 /\ y <= Len(body) + 1 => SubSeq(body, x, y - 1) \in Text
  BY <1>2, PartType
<1>13. first <= Len(body) + 1 /\ second <= Len(body) + 1 /\ dash <= Len(body) + 1
  BY <1>2, <1>7, <1>9
<1>14. f.time \in Text /\ f.duration \in Text /\ f.event \in Text
  <2>1. SubSeq(body, one, dash - 1) \in Text /\ SubSeq(body, a, first - 1) \in Text
        /\ SubSeq(body, b, second - 1) \in Text
    BY <1>6, <1>7, <1>8, <1>9, <1>12, <1>13
  <2> QED BY <1>4, <1>5, <2>1
<1>15. f.level \in Text
  <2>1. PICK d : d = IF third = 0 THEN Len(body) + 1 ELSE third
    OBVIOUS
  <2>2. d \in Nat /\ d <= Len(body) + 1 /\ d - 1 = IF third = 0 THEN Len(body) ELSE third - 1
    BY <1>2, <1>11, <2>1
  <2> QED BY <1>4, <1>5, <1>10, <1>12, <2>2
<1> QED BY <1>1, <1>14, <1>15

\* The header of the row of an event.
HeadOf(text) ==
  LET f == ParseEventFields(text)
  IN <<Date \o f.time, <<>>, f.event, f.level, <<"file">>, <<"path">>>>

\* The lengths in Fresh are numbers.
LEMMA HeadLens ==
  ASSUME NEW text \in Text
  PROVE  Len(HeadOf(text)[3]) \in Nat /\ Len(HeadOf(text)[4]) \in Nat
<1>1. PICK f, h : f = ParseEventFields(text) /\ h = HeadOf(text)
  OBVIOUS
<1>2. h[3] = f.event /\ h[4] = f.level
  BY <1>1 DEF HeadOf
<1>3. f.event \in Text /\ f.level \in Text
  BY <1>1, FieldTexts
<1> QED BY <1>1, <1>2, <1>3 DEF Text

\* No builder keeps anything of an event, and the row that was inserted directly is that
\* of the event.
RowOfEvent ==
  /\ hotDirect = NoHot /\ hotReplay = NoHot
  /\ stage \in {"built", "replayed"} =>
       direct = Row(rich, Filled(rich, HeadOf(event.text), NoHot, PropsOf(event.text)),
                    ParseEventFields(event.text).duration)

\* No row at first, and builders that keep nothing.
LEMMA RowInit == RowsInit => RowOfEvent
BY DEF RowsInit, RowOfEvent

\* Every step keeps it: Build makes the row, and it and Replay leave no state behind.
LEMMA RowStep == RowOfEvent /\ [RowsNext]_rowVars => RowOfEvent'
<1> SUFFICES ASSUME RowOfEvent, [RowsNext]_rowVars PROVE RowOfEvent'
  OBVIOUS
<1> USE DEF RowOfEvent
<1>1. CASE Encode
  BY <1>1 DEF Encode
<1>2. CASE Build
  <2>1. hotDirect = NoHot
    OBVIOUS
  <2>2. direct' = Row(rich, Filled(rich, HeadOf(event.text), NoHot, PropsOf(event.text)),
                      ParseEventFields(event.text).duration)
    <3>1. direct' = Row(rich, Filled(rich, HeadOf(event.text), hotDirect, PropsOf(event.text)),
                        ParseEventFields(event.text).duration)
      BY <1>2, Zenon DEF Build, HeadOf, PropsOf
    <3> QED BY <2>1, <3>1
  <2>3. UNCHANGED <<rich, event, hotReplay>> /\ hotDirect' = NoHot
    BY <1>2 DEF Build
  <2> QED BY <2>2, <2>3
<1>3. CASE Replay
  BY <1>3 DEF Replay
<1>4. CASE Done
  BY <1>4 DEF Done
<1>5. CASE UNCHANGED rowVars
  BY <1>5 DEF rowVars
<1> QED BY <1>1, <1>2, <1>3, <1>4, <1>5 DEF RowsNext

\* What the props of a row have under a name.
LEMMA InProps ==
  ASSUME NEW text \in Text, NEW head, Len(head[3]) \in Nat, Len(head[4]) \in Nat,
         NEW pairs \in Seq(Pairs), NEW duration, NEW name
  PROVE  LET row == Row(rich, Filled(rich, head, NoHot, pairs), duration)
             all == ValuesOf(pairs, name)
         IN /\ rich /\ name \in Hot =>
                 ValuesIn(row.props, name) = IF InColumn(name, all) THEN <<>> ELSE all
            /\ rich /\ name \in Meta => ValuesIn(row.props, name) = <<>>
            /\ ~rich \/ name \notin Hot \cup Meta => ValuesIn(row.props, name) = all
<1>1. PICK N : N = {pairs[i].name : i \in DOMAIN pairs}
  OBVIOUS
<1>2. IsFiniteSet(N)
  <2>1. DOMAIN pairs = 1 .. Len(pairs) /\ Len(pairs) \in Nat
    OBVIOUS
  <2>2. IsFiniteSet(DOMAIN pairs)
    BY <2>1, FS_Interval
  <2>3. PICK f : f = [i \in DOMAIN pairs |-> pairs[i].name]
    OBVIOUS
  <2>4. f \in Surjection(DOMAIN pairs, N)
    BY <1>1, <2>3 DEF Surjection
  <2> QED BY <2>2, <2>4, FS_Surjection
<1>3. PICK r, t : r = Filled(rich, head, NoHot, pairs) /\ t = Row(rich, r, duration)
  OBVIOUS
<1>4. Fills(r, head, pairs, N)
  BY <1>1, <1>2, <1>3, FilledIs
<1>5. r.props \in Seq(Pairs) /\ Shows(r, name, ValuesOf(pairs, name))
  BY <1>4, RowParts DEF Fills
<1>6. t.props = Grouped(r.props)
  BY <1>3 DEF Row
<1>7. ValuesIn(t.props, name) = ValuesOf(r.props, name)
  <2>1. HasValues(Pairs, Text)
    BY DEF HasValues, Pairs
  <2> QED BY <1>5, <1>6, <2>1, GroupedValues
<1>8. name \in Hot => name \notin Meta
  BY HotIs
<1> QED BY <1>3, <1>5, <1>7, <1>8 DEF Shows, ShowsHot, ShowsPlain

\* A name that is there has a value.
LEMMA NameHasValues ==
  ASSUME NEW pairs \in Seq(Pairs), NEW i \in DOMAIN pairs
  PROVE  ValuesOf(pairs, pairs[i].name) # <<>>
<1>1. HasValues(Pairs, Text)
  BY DEF HasValues, Pairs
<1> QED BY <1>1, ValuesType

\* No value of a repeated property is lost and none is there twice: RepeatsKept.
THEOREM RepeatsStay == RowsSpec => []RepeatsKept
<1>1. LineOfEvent /\ RowOfEvent => RepeatsKept
  <2> SUFFICES ASSUME LineOfEvent, RowOfEvent, stage \in {"built", "replayed"},
                      NEW name \in Names \ (IF rich THEN Meta ELSE {})
               PROVE  LET all == ValuesOf(Properties, name)
                          alone == rich /\ name \in Hot /\ Len(all) = 1
                          kept == /\ name = <<"SessionID">> /\ UintOrZero(all[1]) = 0
                                  /\ all[1] \notin {<<>>, <<"0">>}
                      IN ValuesIn(direct.props, name) = IF alone /\ ~kept THEN <<>> ELSE all
    BY DEF RepeatsKept
  <2>1. PICK text, pairs, all : /\ text = event.text /\ pairs = PropsOf(text)
                                /\ all = ValuesOf(pairs, name)
    OBVIOUS
  <2>2. text \in Text
    BY <2>1, TextsAreEvents DEF LineOfEvent, Text
  <2>3. pairs \in Seq(Pairs) /\ pairs = Properties
    BY <2>1, <2>2, RefsAre DEF Properties, PropsOf
  <2>4. all # <<>>
    <3>1. PICK i \in DOMAIN pairs : name = pairs[i].name
      BY <2>3 DEF Names
    <3> QED BY <2>1, <2>3, <3>1, NameHasValues
  <2>5. direct = Row(rich, Filled(rich, HeadOf(text), NoHot, pairs), ParseEventFields(text).duration)
    BY <2>1 DEF RowOfEvent
  <2>6. /\ rich /\ name \in Hot =>
             ValuesIn(direct.props, name) = IF InColumn(name, all) THEN <<>> ELSE all
        /\ ~rich \/ name \notin Hot \cup Meta => ValuesIn(direct.props, name) = all
    BY <2>1, <2>2, <2>3, <2>5, HeadLens, InProps
  <2>7. InColumn(name, all) <=> Len(all) = 1 /\ ~KeptValue(name, all[1])
    BY <2>4 DEF InColumn
  <2>8. CASE rich /\ name \in Hot
    BY <2>1, <2>3, <2>6, <2>7, <2>8 DEF KeptValue
  <2>9. CASE ~(rich /\ name \in Hot)
    BY <2>1, <2>3, <2>6, <2>9
  <2> QED BY <2>8, <2>9
<1> QED BY <1>1, LineInit, LineStep, RowInit, RowStep, PTL DEF RowsSpec

\* Where a letter comes first.
LEMMA IndexIs ==
  ASSUME NEW s \in Text, NEW c, NEW from \in Nat, from >= 1, NEW k \in from .. Len(s), s[k] = c,
         \A i \in from .. k - 1 : s[i] # c
  PROVE  Index(s, c, from) = k
<1> DEFINE places == {i \in from .. Len(s) : s[i] = c}
<1>1. Len(s) \in Nat
  BY DEF Text
<1>2. k \in places /\ places \in SUBSET Nat
  BY <1>1
<1>3. \A i \in places : ~(i < k)
  <2>1. \A i \in from .. Len(s) : i < k => i \in from .. k - 1
    BY <1>1
  <2> QED BY <2>1
<1>4. Min(places) \in places /\ \A i \in places : Min(places) <= i
  <2> HIDE DEF places
  <2> QED BY <1>2, MinNat
<1>5. Min(places) = k
  <2>1. PICK m : m = Min(places)
    OBVIOUS
  <2>2. m \in Nat /\ k \in Nat /\ m <= k /\ ~(m < k)
    <3> HIDE DEF places
    <3> QED BY <1>2, <1>3, <1>4, <2>1
  <2>3. m = k
    BY <2>2
  <2> QED BY <2>1, <2>3
<1>6. Index(s, c, from) = IF places = {} THEN 0 ELSE Min(places)
  BY DEF Index
<1> HIDE DEF places
<1> QED BY <1>2, <1>5, <1>6

\* The start of an event, up to the first comma.
BeginsEvent(text, k) ==
  /\ k \in 4 .. Len(text)
  /\ text[1] \notin {"-", ",", "nl"} /\ text[2] = "-" /\ text[k] = ","
  /\ \A j \in 3 .. k - 1 : text[j] \in Digits

\* It is cut into one letter and digits.
LEMMA StartIs ==
  ASSUME NEW text \in Text, NEW k, BeginsEvent(text, k)
  PROVE  LET f == ParseEventFields(text) IN
         /\ Len(f.time) = 1 /\ f.duration \in Text /\ f.duration # <<>>
         /\ \A i \in DOMAIN f.duration : f.duration[i] \in Digits
<1>1. PICK f, body, n : f = ParseEventFields(text) /\ body = f.body /\ n = Len(text)
  OBVIOUS
<1>2. n \in Nat /\ k \in Nat /\ k >= 4 /\ k <= n
  <2>1. n \in Nat
    BY <1>1 DEF Text
  <2>2. k \in 4 .. n
    BY <1>1 DEF BeginsEvent
  <2> QED BY <2>1, <2>2
<1>20. text[1] # "-" /\ text[1] # "," /\ text[2] = "-" /\ text[k] = ","
  BY DEF BeginsEvent
<1>21. \A j \in 3 .. k - 1 : text[j] = "0" \/ text[j] = "7"
  BY DEF BeginsEvent, Digits
<1>3. PICK m : m \in k .. n /\ body = SubSeq(text, 1, m)
  <2> DEFINE kept == {i \in DOMAIN text : text[i] # "nl"}
  <2>1. text \in Seq(STRING) /\ DOMAIN text = 1 .. n
    BY <1>1 DEF Text
  <2>2. kept \in SUBSET Nat /\ \A x \in kept : x <= n
    BY <1>2, <2>1
  <2>3. k \in kept
    <3>1. k \in DOMAIN text
      BY <1>2, <2>1
    <3>2. text[k] # "nl"
      BY ONLY <1>20
    <3> QED BY <3>1, <3>2
  <2>4. Max(kept) \in kept /\ k <= Max(kept)
    <3> HIDE DEF kept
    <3> QED BY <1>2, <2>2, <2>3, MaxNat
  <2>5. body = SubSeq(text, 1, Max(kept))
    <3>1. body = Trim(text)
      BY <1>1 DEF ParseEventFields
    <3>2. kept # {}
      BY <2>3
    <3> QED BY <3>1, <3>2 DEF Trim
  <2>6. Max(kept) \in k .. n
    <3>1. PICK x : x = Max(kept)
      OBVIOUS
    <3>2. x \in Nat /\ k <= x /\ x <= n
      <4> HIDE DEF kept
      <4> QED BY <2>2, <2>4, <3>1
    <3>3. x \in k .. n
      BY ONLY <1>2, <3>2
    <3> HIDE DEF kept
    <3> QED BY <3>1, <3>3
  <2> HIDE DEF kept
  <2> QED BY <2>5, <2>6
<1>4. /\ body \in Text /\ Len(body) = m /\ m \in Nat /\ m >= k
      /\ \A i \in 1 .. m : body[i] = text[i]
  <2>1. text \in Seq(STRING) /\ \A i \in 1 .. m : i \in 1 .. n
    BY <1>2, <1>3 DEF Text
  <2>2. body \in Seq(STRING) /\ Len(body) = m /\ \A i \in 1 .. m : body[i] = text[i]
    BY <1>1, <1>2, <1>3, <2>1
  <2> QED BY <1>2, <1>3, <2>2 DEF Text
<1>5. \A i \in 1 .. k : i \in 1 .. m /\ (i = 1 \/ i = 2 \/ i \in 3 .. k - 1 \/ i = k)
  BY <1>2, <1>4
<1>6. PICK one : one = 1
  OBVIOUS
<1>7. Index(body, ",", one) = k
  <2>1. one \in Nat /\ one >= 1 /\ k \in one .. Len(body)
    BY <1>2, <1>4, <1>6
  <2>2. \A i \in one .. k - 1 : i \in 1 .. k /\ i # k
    BY <1>2, <1>6
  <2>3. \A i \in one .. k - 1 : body[i] # ","
    BY <1>4, <1>5, <1>20, <1>21, <2>2
  <2>4. body[k] = ","
    <3>1. k \in 1 .. m
      BY <1>2, <1>4
    <3> QED BY <1>4, <1>20, <3>1
  <2> QED BY <1>4, <2>1, <2>3, <2>4, IndexIs
<1>8. Index(body, "-", one) = 2
  <2>1. PICK two : two = 2
    OBVIOUS
  <2>2. one \in Nat /\ one >= 1 /\ two \in one .. Len(body)
    BY <1>2, <1>4, <1>6, <2>1
  <2>3. \A i \in one .. two - 1 : i = 1
    BY <1>6, <2>1
  <2>4. body[1] # "-" /\ body[two] = "-"
    <3>1. 1 \in 1 .. m /\ 2 \in 1 .. m
      BY <1>2, <1>4
    <3> QED BY <1>4, <1>20, <2>1, <3>1
  <2>5. Index(body, "-", one) = two
    BY <1>4, <2>2, <2>3, <2>4, IndexIs
  <2> QED BY <2>1, <2>5
<1>9. f.time = SubSeq(body, 1, 1) /\ f.duration = SubSeq(body, 3, k - 1)
  <2>1. Index(body, ",", 1) = k
    BY <1>6, <1>7, Zenon
  <2>2. Index(body, "-", 1) = 2
    BY <1>6, <1>8, Zenon
  <2>3. /\ f.time = SubSeq(body, 1, Index(body, "-", 1) - 1)
        /\ f.duration = SubSeq(body, Index(body, "-", 1) + 1, Index(body, ",", 1) - 1)
    BY <1>1 DEF ParseEventFields
  <2>4. 2 - 1 = 1 /\ 2 + 1 = 3
    OBVIOUS
  <2>5. f.time = SubSeq(body, 1, 2 - 1) /\ f.duration = SubSeq(body, 2 + 1, k - 1)
    BY <2>1, <2>2, <2>3, Zenon
  <2> QED BY <2>4, <2>5
<1>10. Len(f.time) = 1
  BY <1>2, <1>4, <1>9 DEF Text
<1>11. f.duration \in Text
  BY <1>1, FieldTexts
<1>12. Len(f.duration) = k - 3 /\ \A i \in 1 .. k - 3 : f.duration[i] = body[i + 2]
  BY <1>2, <1>4, <1>9 DEF Text
<1>13. \A i \in 1 .. k - 3 : i + 2 \in 3 .. k - 1 /\ i + 2 \in 1 .. m
  BY <1>2, <1>4
<1>14. f.duration # <<>> /\ DOMAIN f.duration = 1 .. k - 3
  BY <1>2, <1>11, <1>12 DEF Text
<1>15. \A i \in 1 .. k - 3 : f.duration[i] \in Digits
  BY <1>4, <1>12, <1>13, <1>21 DEF Digits
<1> QED BY <1>1, <1>10, <1>11, <1>14, <1>15

-----------------------------------------------------------------------------
(* Numbers *)

\* g counts a text letter by letter as H has it, from 0 on.
Counts(g, s, H) ==
  /\ g[0] = 0
  /\ \A i \in 1 .. Len(s) : g[i - 1] \in Int /\ g[i] = H[<<g[i - 1], s[i]>>]

\* One letter more, for a number of a column and for a duration.
UintStep ==
  [x \in Int \X STRING |->
     IF x[1] < 0 \/ x[2] \notin Digits \/ 10 * x[1] + Digit(x[2]) > UintMax THEN -1
     ELSE 10 * x[1] + Digit(x[2])]
SatStep ==
  [x \in Int \X STRING |->
     IF 10 * x[1] + Digit(x[2]) > UintMax THEN UintMax ELSE 10 * x[1] + Digit(x[2])]

\* The tables of UintOrZero and Saturated.
UintTable(g, digits) ==
  g = [i \in 0 .. Len(digits) |->
         IF i = 0 THEN 0
         ELSE IF g[i - 1] < 0 \/ digits[i] \notin Digits \/ 10 * g[i - 1] + Digit(digits[i]) > UintMax
                THEN -1
              ELSE 10 * g[i - 1] + Digit(digits[i])]
SatTable(g, s) ==
  g = [i \in 0 .. Len(s) |->
         IF i = 0 THEN 0
         ELSE IF 10 * g[i - 1] + Digit(s[i]) > UintMax THEN UintMax
              ELSE 10 * g[i - 1] + Digit(s[i])]

\* UintOrZero reads the end of its table, Saturated of its.
LEMMA UintIsTable ==
  ASSUME NEW s
  PROVE  \E digits, g : /\ digits = (IF s # <<>> /\ s[1] = "+" THEN Tail(s) ELSE s)
                        /\ g = (CHOOSE h : UintTable(h, digits))
                        /\ UintOrZero(s) = IF g[Len(digits)] < 0 THEN 0 ELSE g[Len(digits)]
<1>1. LET d == IF s # <<>> /\ s[1] = "+" THEN Tail(s) ELSE s
          h == CHOOSE h : UintTable(h, d)
      IN UintOrZero(s) = IF h[Len(d)] < 0 THEN 0 ELSE h[Len(d)]
  BY Zenon DEF UintOrZero, UintTable
<1> DEFINE d == IF s # <<>> /\ s[1] = "+" THEN Tail(s) ELSE s
           g == CHOOSE h : UintTable(h, d)
<1>2. UintOrZero(s) = IF g[Len(d)] < 0 THEN 0 ELSE g[Len(d)]
  BY <1>1, Zenon
<1> HIDE DEF g
<1>3. \E h : h = (CHOOSE q : UintTable(q, d)) /\ UintOrZero(s) = IF h[Len(d)] < 0 THEN 0 ELSE h[Len(d)]
  BY <1>2, Zenon DEF g
<1> HIDE DEF d
<1> QED BY <1>3, Zenon DEF d

\* The table in Saturated.
LEMMA SatIsTable ==
  ASSUME NEW s
  PROVE  LET g == CHOOSE h : SatTable(h, s) IN Saturated(s) = g[Len(s)]
BY Zenon DEF Saturated, SatTable

\* What counts a text without its leading zeros counts the text.
Leads(s, t, z, H) ==
  /\ Len(s) = z + Len(t) /\ \A i \in 1 .. Len(t) : t[i] = s[z + i]
  /\ \A i \in 1 .. z : H[<<0, s[i]>>] = 0

\* Their counts end in the same number: up to the zeros' end the one is 0.
LEMMA ZerosGo ==
  ASSUME NEW s \in Text, NEW t \in Text, NEW z \in Nat, NEW H, Leads(s, t, z, H),
         NEW f, NEW g, Counts(f, s, H), Counts(g, t, H)
  PROVE  g[Len(t)] = f[Len(s)]
<1> USE DEF Leads
<1>1. PICK n : n = Len(t)
  OBVIOUS
<1>2. n \in Nat /\ Len(s) = z + n
  BY <1>1 DEF Text
<1>3. /\ f[0] = 0 /\ g[0] = 0
      /\ \A i \in 1 .. z + n : f[i] = H[<<f[i - 1], s[i]>>]
      /\ \A i \in 1 .. n : g[i] = H[<<g[i - 1], t[i]>>] /\ t[i] = s[z + i]
  BY <1>1, <1>2 DEF Counts
<1>4. f[z] = 0
  <2> DEFINE S == {i \in Nat : f[i] = 0}
  <2>1. 0 \in S
    BY <1>3
  <2>2. ASSUME NEW i \in Nat, i < z, i \in S PROVE i + 1 \in S
    <3>1. PICK k : k = i + 1
      OBVIOUS
    <3>2. k \in Nat /\ k \in 1 .. z /\ k \in 1 .. z + n /\ k - 1 = i
      BY <1>2, <2>2, <3>1
    <3>3. f[k] = H[<<f[i], s[k]>>] /\ f[i] = 0
      BY <1>3, <2>2, <3>2
    <3> QED BY <3>1, <3>2, <3>3
  <2>3. \A i \in 0 .. z : i \in S
    <3> HIDE DEF S
    <3> QED BY <2>1, <2>2, Induct
  <2>4. z \in 0 .. z
    OBVIOUS
  <2> QED BY <2>3, <2>4
<1>5. g[n] = f[z + n]
  <2> DEFINE S == {i \in Nat : g[i] = f[z + i]}
  <2>1. 0 \in S
    <3>1. z + 0 = z
      OBVIOUS
    <3> QED BY <1>3, <1>4, <3>1
  <2>2. ASSUME NEW i \in Nat, i < n, i \in S PROVE i + 1 \in S
    <3>1. PICK k, y, w : k = i + 1 /\ y = z + i /\ w = z + k
      OBVIOUS
    <3>2. k \in Nat /\ k \in 1 .. n /\ w \in 1 .. z + n /\ k - 1 = i /\ w - 1 = y
      BY <1>2, <2>2, <3>1
    <3>3. f[w] = H[<<f[y], s[w]>>] /\ g[k] = H[<<g[i], t[k]>>] /\ t[k] = s[w]
      BY <1>3, <3>1, <3>2
    <3>4. g[i] = f[y]
      BY <2>2, <3>1
    <3> QED BY <3>1, <3>2, <3>3, <3>4
  <2>3. \A i \in 0 .. n : i \in S
    <3> HIDE DEF S
    <3> QED BY <1>2, <2>1, <2>2, Induct
  <2>4. n \in 0 .. n
    BY <1>2
  <2> QED BY <2>3, <2>4
<1> QED BY <1>1, <1>2, <1>5

\* Both are counted so.
LEMMA UintCounts ==
  ASSUME NEW s \in Text, \A i \in DOMAIN s : s[i] # "+"
  PROVE  \E g : /\ Counts(g, s, UintStep)
                /\ UintOrZero(s) = IF g[Len(s)] < 0 THEN 0 ELSE g[Len(s)]
<1>1. PICK n, H : n = Len(s) /\ H = [x \in (1 .. n) \X Int |-> UintStep[<<x[2], s[x[1]]>>]]
  OBVIOUS
<1>2. n \in Nat /\ DOMAIN s = 1 .. n /\ \A i \in 1 .. n : s[i] \in STRING
  BY <1>1 DEF Text
<1>3. \A v \in Int : \A c \in STRING :
        /\ UintStep[<<v, c>>] \in Int
        /\ UintStep[<<v, c>>] = IF v < 0 \/ c \notin Digits \/ 10 * v + Digit(c) > UintMax THEN -1
                                ELSE 10 * v + Digit(c)
  BY RowsBounds DEF UintStep, Digit
<1>4. \A i \in 1 .. n : \A v \in Int : H[<<i, v>>] = UintStep[<<v, s[i]>>] /\ H[<<i, v>>] \in Int
  BY <1>1, <1>2, <1>3
<1>5. Rises(n, Int, H)
  BY <1>4 DEF Rises
<1>6. PICK f \in [0 .. n -> Int] : f[0] = 0 /\ \A i \in 1 .. n : f[i] = H[<<i, f[i - 1]>>]
  <2>1. PICK zero : zero = 0
    OBVIOUS
  <2>2. zero \in Int
    BY <2>1
  <2>3. PICK f : Climbs(f, n, Int, zero, H)
    BY <1>2, <1>5, <2>2, Climb
  <2> QED BY <2>1, <2>3 DEF Climbs
<1>7. \A i \in 1 .. n : i - 1 \in 0 .. n /\ i \in 0 .. n /\ i # 0
  BY <1>2
<1>8. \A i \in 1 .. n : f[i - 1] \in Int /\ f[i] = UintStep[<<f[i - 1], s[i]>>]
  BY <1>4, <1>6, <1>7
<1>9. UintTable(f, s)
  <2>1. \A i \in 0 .. n : i = 0 \/ i \in 1 .. n
    BY <1>2
  <2>2. \A i \in 1 .. n :
          f[i] = IF f[i - 1] < 0 \/ s[i] \notin Digits \/ 10 * f[i - 1] + Digit(s[i]) > UintMax THEN -1
                 ELSE 10 * f[i - 1] + Digit(s[i])
    BY <1>2, <1>3, <1>8
  <2> QED BY <1>1, <1>6, <1>7, <2>1, <2>2 DEF UintTable
<1>10. PICK g : g = CHOOSE h : UintTable(h, s)
  OBVIOUS
<1>11. UintTable(g, s)
  BY <1>9, <1>10
<1>12. UintOrZero(s) = IF g[n] < 0 THEN 0 ELSE g[n]
  <2>1. s # <<>> => s[1] # "+"
    <3>1. s # <<>> => 1 \in DOMAIN s
      BY <1>1, <1>2 DEF Text
    <3> QED BY <3>1
  <2>2. PICK d, h : /\ d = (IF s # <<>> /\ s[1] = "+" THEN Tail(s) ELSE s)
                    /\ h = (CHOOSE q : UintTable(q, d))
                    /\ UintOrZero(s) = IF h[Len(d)] < 0 THEN 0 ELSE h[Len(d)]
    BY UintIsTable, Zenon
  <2>3. d = s
    BY <2>1, <2>2
  <2>4. h = g
    BY <1>10, <2>2, <2>3, Zenon
  <2> QED BY <1>1, <2>2, <2>3, <2>4
<1>13. g[0] = 0 /\ \A i \in 1 .. n :
          g[i] = IF g[i - 1] < 0 \/ s[i] \notin Digits \/ 10 * g[i - 1] + Digit(s[i]) > UintMax THEN -1
                 ELSE 10 * g[i - 1] + Digit(s[i])
  <2>1. 0 \in 0 .. n
    BY <1>2
  <2> QED BY <1>1, <1>7, <1>11, <2>1 DEF UintTable
<1>14. \A i \in 0 .. n : g[i] \in Int
  <2> DEFINE S == {i \in Nat : g[i] \in Int}
  <2>1. 0 \in S
    BY <1>13
  <2>2. ASSUME NEW i \in Nat, i < n, i \in S PROVE i + 1 \in S
    <3>1. PICK k : k = i + 1
      OBVIOUS
    <3>2. k \in Nat /\ k \in 1 .. n /\ k - 1 = i
      BY <1>2, <2>2, <3>1
    <3>3. g[k] = UintStep[<<g[i], s[k]>>] /\ g[k] \in Int
      BY <1>2, <1>3, <1>13, <2>2, <3>2
    <3> QED BY <3>1, <3>2, <3>3
  <2>3. \A i \in 0 .. n : i \in S
    <3> HIDE DEF S
    <3> QED BY <1>2, <2>1, <2>2, Induct
  <2> QED BY <2>3
<1>15. \A i \in 1 .. n : g[i - 1] \in Int /\ g[i] = UintStep[<<g[i - 1], s[i]>>]
  BY <1>2, <1>3, <1>7, <1>13, <1>14
<1> QED BY <1>1, <1>12, <1>13, <1>15 DEF Counts

\* Saturated counts every text by SatStep.
LEMMA SatCounts ==
  ASSUME NEW s \in Text
  PROVE  \E g : /\ Counts(g, s, SatStep)
                /\ Saturated(s) = g[Len(s)]
<1>1. PICK n, H : n = Len(s) /\ H = [x \in (1 .. n) \X Int |-> SatStep[<<x[2], s[x[1]]>>]]
  OBVIOUS
<1>2. n \in Nat /\ DOMAIN s = 1 .. n /\ \A i \in 1 .. n : s[i] \in STRING
  BY <1>1 DEF Text
<1>3. \A v \in Int : \A c \in STRING :
        /\ SatStep[<<v, c>>] \in Int
        /\ SatStep[<<v, c>>] = IF 10 * v + Digit(c) > UintMax THEN UintMax
                                ELSE 10 * v + Digit(c)
  <2>1. UintMax \in Int
    BY RowsBounds
  <2>2. ASSUME NEW v \in Int, NEW c \in STRING
        PROVE  /\ SatStep[<<v, c>>] \in Int
               /\ SatStep[<<v, c>>] = IF 10 * v + Digit(c) > UintMax THEN UintMax
                                      ELSE 10 * v + Digit(c)
    <3>1. SatStep[<<v, c>>] = IF 10 * v + Digit(c) > UintMax THEN UintMax
                              ELSE 10 * v + Digit(c)
      BY DEF SatStep
    <3>2. Digit(c) \in Int
      BY DEF Digit
    <3>3. PICK d, y : d = Digit(c) /\ y = SatStep[<<v, c>>]
      OBVIOUS
    <3>4. PICK z : z = 10 * v + d
      OBVIOUS
    <3>5. y = IF z > UintMax THEN UintMax ELSE z
      BY <3>1, <3>3, <3>4, Zenon
    <3>6. d \in Int
      BY <3>2, <3>3, Zenon
    <3>7. z \in Int
      BY ONLY <3>6, <3>4, v \in Int
    <3>8. y \in Int
      BY ONLY <2>1, <3>5, <3>7
    <3> QED BY <3>1, <3>3, <3>8
  <2> QED BY <2>2
<1>4. \A i \in 1 .. n : \A v \in Int : H[<<i, v>>] = SatStep[<<v, s[i]>>] /\ H[<<i, v>>] \in Int
  BY <1>1, <1>2, <1>3
<1>5. Rises(n, Int, H)
  BY <1>4 DEF Rises
<1>6. PICK f \in [0 .. n -> Int] : f[0] = 0 /\ \A i \in 1 .. n : f[i] = H[<<i, f[i - 1]>>]
  <2>1. PICK zero : zero = 0
    OBVIOUS
  <2>2. zero \in Int
    BY <2>1
  <2>3. PICK f : Climbs(f, n, Int, zero, H)
    BY <1>2, <1>5, <2>2, Climb
  <2> QED BY <2>1, <2>3 DEF Climbs
<1>7. \A i \in 1 .. n : i - 1 \in 0 .. n /\ i \in 0 .. n /\ i # 0
  BY <1>2
<1>8. \A i \in 1 .. n : f[i - 1] \in Int /\ f[i] = SatStep[<<f[i - 1], s[i]>>]
  BY <1>4, <1>6, <1>7
<1>9. SatTable(f, s)
  <2>1. \A i \in 0 .. n : i = 0 \/ i \in 1 .. n
    BY <1>2
  <2>2. \A i \in 1 .. n :
          f[i] = IF 10 * f[i - 1] + Digit(s[i]) > UintMax THEN UintMax
                 ELSE 10 * f[i - 1] + Digit(s[i])
    BY <1>2, <1>3, <1>8
  <2> QED BY <1>1, <1>6, <1>7, <2>1, <2>2 DEF SatTable
<1>10. PICK g : g = CHOOSE h : SatTable(h, s)
  OBVIOUS
<1>11. SatTable(g, s)
  BY <1>9, <1>10
<1>12. Saturated(s) = g[n]
  <2>1. PICK h : h = (CHOOSE q : SatTable(q, s)) /\ Saturated(s) = h[Len(s)]
    BY SatIsTable, Zenon
  <2>2. h = g
    BY <1>10, <2>1, Zenon
  <2> QED BY <1>1, <2>1, <2>2
<1>13. g[0] = 0 /\ \A i \in 1 .. n :
          g[i] = IF 10 * g[i - 1] + Digit(s[i]) > UintMax THEN UintMax
                 ELSE 10 * g[i - 1] + Digit(s[i])
  <2>1. 0 \in 0 .. n
    BY <1>2
  <2> QED BY <1>1, <1>7, <1>11, <2>1 DEF SatTable
<1>14. \A i \in 0 .. n : g[i] \in Int
  <2> DEFINE S == {i \in Nat : g[i] \in Int}
  <2>1. 0 \in S
    BY <1>13
  <2>2. ASSUME NEW i \in Nat, i < n, i \in S PROVE i + 1 \in S
    <3>1. PICK k : k = i + 1
      OBVIOUS
    <3>2. k \in Nat /\ k \in 1 .. n /\ k - 1 = i
      BY <1>2, <2>2, <3>1
    <3>3. g[k] = SatStep[<<g[i], s[k]>>] /\ g[k] \in Int
      BY <1>2, <1>3, <1>13, <2>2, <3>2
    <3> QED BY <3>1, <3>2, <3>3
  <2>3. \A i \in 0 .. n : i \in S
    <3> HIDE DEF S
    <3> QED BY <1>2, <2>1, <2>2, Induct
  <2> QED BY <2>3
<1>15. \A i \in 1 .. n : g[i - 1] \in Int /\ g[i] = SatStep[<<g[i - 1], s[i]>>]
  BY <1>2, <1>3, <1>7, <1>13, <1>14
<1> QED BY <1>1, <1>12, <1>13, <1>15 DEF Counts

\* A number keeps its value without leading zeros, and some digit stays.
LEMMA CanonicalIs ==
  ASSUME NEW s \in Text, s # <<>>, \A i \in DOMAIN s : s[i] \in Digits
  PROVE  /\ Canonical(s) # <<>>
         /\ UintOrZero(Canonical(s)) = UintOrZero(s) /\ Saturated(Canonical(s)) = Saturated(s)
<1> DEFINE rest == {i \in DOMAIN s : s[i] # "0"} \cup {Len(s)}
<1>1. PICK n, m, t : n = Len(s) /\ m = Min(rest) /\ t = Canonical(s)
  OBVIOUS
<1>2. n \in Nat /\ n >= 1 /\ DOMAIN s = 1 .. n /\ s \in Seq(STRING)
  BY <1>1 DEF Text
<1>3. m \in rest /\ m \in Nat /\ m >= 1 /\ m <= n /\ \A i \in rest : m <= i
  <2>1. rest \in SUBSET Nat /\ n \in rest /\ \A i \in rest : i >= 1 /\ i <= n
    BY <1>1, <1>2
  <2>2. m \in rest /\ \A i \in rest : m <= i
    <3> HIDE DEF rest
    <3> QED BY <1>1, <2>1, MinNat
  <2> HIDE DEF rest
  <2> QED BY <2>1, <2>2
<1>4. t = SubSeq(s, m, n)
  BY <1>1 DEF Canonical
<1>5. PICK z : z = m - 1
  OBVIOUS
<1>6. z \in Nat /\ \A i \in 1 .. z : i \in 1 .. n /\ ~(m <= i)
  BY <1>2, <1>3, <1>5
<1>7. \A i \in 1 .. z : s[i] = "0" /\ s[i] \in STRING
  <2>1. \A i \in 1 .. n : i \notin rest => s[i] = "0"
    BY <1>2
  <2>2. \A i \in 1 .. z : i \notin rest
    <3> HIDE DEF rest
    <3> QED BY <1>3, <1>6
  <2>3. \A i \in 1 .. n : s[i] \in STRING
    BY <1>2
  <2> HIDE DEF rest
  <2> QED BY <1>6, <2>1, <2>2, <2>3
<1>8. /\ t \in Text /\ Len(t) = n - z /\ Len(t) \in Nat /\ Len(t) # 0
      /\ \A i \in 1 .. Len(t) : t[i] = s[z + i]
  <2>1. \A i \in m .. n : s[i] \in STRING
    BY <1>2, <1>3
  <2>2. t \in Seq(STRING) /\ Len(t) = n - m + 1 /\ \A i \in 1 .. n - m + 1 : t[i] = s[m + i - 1]
    <3> HIDE DEF rest
    <3> QED BY <1>2, <1>3, <1>4, <2>1
  <2>3. n - m + 1 = n - z /\ n - z \in Nat /\ n - z # 0
    <3> HIDE DEF rest
    <3> QED BY <1>2, <1>3, <1>5
  <2>4. \A i \in 1 .. n - z : m + i - 1 = z + i
    <3> HIDE DEF rest
    <3> QED BY <1>2, <1>3, <1>5
  <2> HIDE DEF rest
  <2> QED BY <2>2, <2>3, <2>4 DEF Text
<1> HIDE DEF rest
<1>9. Len(s) = z + Len(t)
  BY <1>1, <1>2, <1>6, <1>8
<1>10. \A i \in 1 .. z : UintStep[<<0, s[i]>>] = 0 /\ SatStep[<<0, s[i]>>] = 0
  <2>1. ASSUME NEW i \in 1 .. z PROVE UintStep[<<0, s[i]>>] = 0 /\ SatStep[<<0, s[i]>>] = 0
    <3>1. PICK c, v : c = s[i] /\ v = 0
      OBVIOUS
    <3>2. c = "0" /\ c \in STRING /\ v \in Int
      BY <1>7, <3>1
    <3>3. c \in Digits /\ Digit(c) = 0 /\ UintMax \in Nat
      BY <3>2, RowsBounds DEF Digits, Digit
    <3>4. /\ UintStep[<<v, c>>]
               = IF v < 0 \/ c \notin Digits \/ 10 * v + Digit(c) > UintMax THEN -1
                 ELSE 10 * v + Digit(c)
          /\ SatStep[<<v, c>>] = IF 10 * v + Digit(c) > UintMax THEN UintMax ELSE 10 * v + Digit(c)
      BY <3>2 DEF UintStep, SatStep
    <3>5. ~(v < 0) /\ 10 * v + Digit(c) = 0 /\ ~(0 > UintMax)
      BY <3>1, <3>3
    <3> QED BY <3>1, <3>3, <3>4, <3>5
  <2> QED BY <2>1
<1>11. UintOrZero(t) = UintOrZero(s)
  <2>1. \A i \in DOMAIN s : s[i] # "+"
    BY DEF Digits
  <2>2. \A i \in DOMAIN t : t[i] # "+"
    <3>1. DOMAIN t = 1 .. Len(t)
      BY <1>8 DEF Text
    <3>2. \A i \in 1 .. Len(t) : z + i \in 1 .. n
      BY <1>1, <1>2, <1>6, <1>8, <1>9
    <3> QED BY <1>2, <1>8, <2>1, <3>1, <3>2
  <2>3. PICK f : Counts(f, s, UintStep) /\ UintOrZero(s) = IF f[Len(s)] < 0 THEN 0 ELSE f[Len(s)]
    BY <2>1, UintCounts
  <2>4. PICK g : Counts(g, t, UintStep) /\ UintOrZero(t) = IF g[Len(t)] < 0 THEN 0 ELSE g[Len(t)]
    BY <1>8, <2>2, UintCounts
  <2>5. PICK H : H = UintStep
    OBVIOUS
  <2>6. Leads(s, t, z, H) /\ z \in Nat /\ s \in Text /\ t \in Text
    BY <1>6, <1>8, <1>9, <1>10, <2>5 DEF Leads
  <2>7. Counts(f, s, H) /\ Counts(g, t, H)
    BY <2>3, <2>4, <2>5
  <2>8. g[Len(t)] = f[Len(s)]
    BY ONLY <2>6, <2>7, ZerosGo
  <2> QED BY <2>3, <2>4, <2>8
<1>12. Saturated(t) = Saturated(s)
  <2>1. PICK f : Counts(f, s, SatStep) /\ Saturated(s) = f[Len(s)]
    BY SatCounts
  <2>2. PICK g : Counts(g, t, SatStep) /\ Saturated(t) = g[Len(t)]
    BY <1>8, SatCounts
  <2>3. PICK H : H = SatStep
    OBVIOUS
  <2>4. Leads(s, t, z, H) /\ z \in Nat /\ s \in Text /\ t \in Text
    BY <1>6, <1>8, <1>9, <1>10, <2>3 DEF Leads
  <2>5. Counts(f, s, H) /\ Counts(g, t, H)
    BY <2>1, <2>2, <2>3
  <2>6. g[Len(t)] = f[Len(s)]
    BY ONLY <2>4, <2>5, ZerosGo
  <2> QED BY <2>1, <2>2, <2>6
<1>13. t # <<>>
  BY <1>8
<1> QED BY <1>1, <1>11, <1>12, <1>13

-----------------------------------------------------------------------------
(* Lists behind one another *)

\* Only one list of many has values of a name.
OnlyAt(ss, name, k, v) ==
  \A i \in DOMAIN ss : ValuesOf(ss[i], name) = IF i = k THEN v ELSE <<>>

\* Then all of them behind one another have just these values.
LEMMA FlatValues ==
  ASSUME NEW V, NEW P, HasValues(P, V), NEW ss \in Seq(Seq(P)), NEW name,
         NEW k \in Nat, k >= 1, NEW v \in Seq(V), OnlyAt(ss, name, k, v)
  PROVE  /\ FlattenSeq(ss) \in Seq(P)
         /\ ValuesOf(FlattenSeq(ss), name) = IF k <= Len(ss) THEN v ELSE <<>>
<1>1. PICK n, e : n = Len(ss) /\ e = <<>>
  OBVIOUS
<1>2. n \in Nat /\ DOMAIN ss = 1 .. n /\ \A i \in 1 .. n : ss[i] \in Seq(P)
  BY <1>1
<1>3. PICK f : /\ f[0] = e /\ f[n] = FlattenSeq(ss) /\ f[n] \in Seq(P)
               /\ \A i \in 1 .. n : f[i - 1] \in Seq(P) /\ f[i] = f[i - 1] \o ss[i]
  <2>1. PICK f : Joins(f, ss, n, P)
    BY <1>1, FlatIs
  <2> QED BY <1>1, <2>1 DEF Joins
<1>4. ASSUME NEW i \in 1 .. n
      PROVE  ValuesOf(f[i], name) = ValuesOf(f[i - 1], name) \o ValuesOf(ss[i], name)
  <2>1. PICK a, b : a = f[i - 1] /\ b = ss[i]
    OBVIOUS
  <2>2. a \in Seq(P) /\ b \in Seq(P) /\ f[i] = a \o b
    BY <1>2, <1>3, <2>1
  <2>3. ValuesOf(a \o b, name) = ValuesOf(a, name) \o ValuesOf(b, name)
    BY <2>2, ValuesCat
  <2> QED BY <2>1, <2>2, <2>3
<1>5. \A i \in 1 .. n : ValuesOf(ss[i], name) = IF i = k THEN v ELSE e
  BY <1>1, <1>2 DEF OnlyAt
<1>6. e \o e = e /\ v \o e = v /\ e \o v = v
  <2>1. e \in Seq(V)
    BY <1>1
  <2> QED BY <1>1, <2>1, ConcatNone
<1> DEFINE S == {i \in Nat : ValuesOf(f[i], name) = IF k <= i THEN v ELSE e}
<1>7. 0 \in S
  <2>1. ValuesOf(e, name) = e
    BY <1>1, NothingOf
  <2>2. ~(k <= 0)
    OBVIOUS
  <2> QED BY <1>3, <2>1, <2>2
<1>8. ASSUME NEW i \in Nat, i < n, i \in S PROVE i + 1 \in S
  <2>1. PICK j : j = i + 1
    OBVIOUS
  <2>2. j \in Nat /\ j \in 1 .. n /\ j - 1 = i /\ (k <= j <=> k <= i \/ j = k) /\ (j = k => ~(k <= i))
    BY <1>2, <1>8, <2>1
  <2>3. ValuesOf(f[i], name) = IF k <= i THEN v ELSE e
    BY <1>8
  <2>4. ValuesOf(f[j], name) = ValuesOf(f[i], name) \o (IF j = k THEN v ELSE e)
    BY <1>4, <1>5, <2>2
  <2>5. ValuesOf(f[j], name) = IF k <= j THEN v ELSE e
    BY <1>6, <2>2, <2>3, <2>4
  <2> QED BY <2>1, <2>2, <2>5
<1>9. \A i \in 0 .. n : i \in S
  <2> HIDE DEF S
  <2> QED BY <1>2, <1>7, <1>8, Induct
<1>10. n \in 0 .. n
  BY <1>2
<1> QED BY <1>1, <1>3, <1>9, <1>10

\* Pairs of one name.
LEMMA SameName ==
  ASSUME NEW U, NEW s \in Seq(U), NEW name, \A i \in DOMAIN s : s[i].name = name
  PROVE  ValuesOf(s, name) = [i \in 1 .. Len(s) |-> s[i].value]
<1>1. PICK n, S : n = Len(s) /\ S = PlacesOf(s, name)
  OBVIOUS
<1>2. n \in Nat /\ S = 1 .. n
  BY <1>1 DEF PlacesOf
<1>3. /\ ValuesOf(s, name) = [k \in 1 .. Cardinality(S) |-> s[Kth(S, k)].value]
      /\ S \in SUBSET Nat /\ IsFiniteSet(S)
  BY <1>1, ValuesAre
<1>4. Cardinality(S) = n
  BY <1>2, FS_Interval
<1>5. \A k \in S : Rank(S, k) = k
  <2>1. ASSUME NEW k \in S PROVE Rank(S, k) = k
    <3>1. {j \in S : j <= k} = 1 .. k /\ k \in Nat
      BY <1>2
    <3>2. Cardinality(1 .. k) = k
      <4>1. k >= 1
        BY <1>2
      <4>2. Cardinality(1 .. k) = IF 1 > k THEN 0 ELSE k - 1 + 1
        BY <3>1, FS_Interval
      <4> QED BY <3>1, <4>1, <4>2
    <3> QED BY <3>1, <3>2 DEF Rank
  <2> QED BY <2>1
<1>6. \A k \in S : Kth(S, k) = k
  BY <1>3, <1>5, KthIs
<1>7. \A k \in 1 .. n : s[Kth(S, k)].value = s[k].value
  BY <1>2, <1>6
<1> QED BY <1>1, <1>3, <1>4, <1>7

-----------------------------------------------------------------------------
(* A line read back *)

\* The values of a key as pairs.
ListOf(key, values) == [k \in DOMAIN values |-> [name |-> key, value |-> values[k]]]

\* They have these values under that key, and none under another.
LEMMA ListIs ==
  ASSUME NEW key, NEW w \in Seq(Text), w # <<>> => key \in Text
  PROVE  /\ ListOf(key, w) \in Seq(Pairs) /\ ValuesOf(ListOf(key, w), key) = w
         /\ \A name : name # key => ValuesOf(ListOf(key, w), name) = <<>>
<1>1. PICK q, n : q = ListOf(key, w) /\ n = Len(w)
  OBVIOUS
<1>2. n \in Nat /\ DOMAIN w = 1 .. n /\ \A k \in 1 .. n : w[k] \in Text
  BY <1>1
<1>3. \A k \in 1 .. n : key \in Text
  <2>1. n # 0 => key \in Text
    BY <1>1
  <2>2. \A k \in 1 .. n : n # 0
    BY <1>2
  <2> QED BY <2>1, <2>2
<1>4. q = [k \in 1 .. n |-> [name |-> key, value |-> w[k]]]
  BY <1>1, <1>2 DEF ListOf
<1>5. \A k \in 1 .. n : q[k] \in Pairs /\ q[k].name = key /\ q[k].value = w[k]
  BY <1>2, <1>3, <1>4 DEF Pairs
<1>6. q \in Seq(Pairs) /\ Len(q) = n /\ DOMAIN q = 1 .. n
  BY <1>2, <1>4, <1>5
<1>7. ValuesOf(q, key) = w
  <2>1. ValuesOf(q, key) = [k \in 1 .. Len(q) |-> q[k].value]
    BY <1>5, <1>6, SameName
  <2>2. [k \in 1 .. n |-> q[k].value] = w
    BY <1>2, <1>5
  <2> QED BY <1>6, <2>1, <2>2
<1>8. ASSUME NEW name, name # key PROVE ValuesOf(q, name) = <<>>
  <2>1. HasValues(Pairs, Text)
    BY DEF HasValues, Pairs
  <2>2. \A k \in DOMAIN q : q[k].name # name
    BY <1>5, <1>6, <1>8
  <2> QED BY <1>6, <2>1, <2>2, ValuesType
<1> QED BY <1>1, <1>6, <1>7, <1>8

\* Lists of the values that pairs have under different keys.
Lists(ss, keys, pairs) ==
  /\ Len(keys) \in Nat /\ ss = [i \in 1 .. Len(keys) |-> ListOf(keys[i], ValuesOf(pairs, keys[i]))]
  /\ \A i, j \in 1 .. Len(keys) : keys[i] = keys[j] => i = j

\* Behind one another they have the same values.
LEMMA ListsAre ==
  ASSUME NEW s \in Seq(Pairs), NEW ss, NEW keys, Lists(ss, keys, s)
  PROVE  /\ FlattenSeq(ss) \in Seq(Pairs)
         /\ \A name : ValuesOf(FlattenSeq(ss), name) =
              IF \E i \in 1 .. Len(keys) : keys[i] = name THEN ValuesOf(s, name) ELSE <<>>
<1>1. PICK n, fl : n = Len(keys) /\ fl = FlattenSeq(ss)
  OBVIOUS
<1>2. /\ n \in Nat /\ ss = [i \in 1 .. n |-> ListOf(keys[i], ValuesOf(s, keys[i]))]
      /\ \A i, j \in 1 .. n : keys[i] = keys[j] => i = j
  BY <1>1 DEF Lists
<1>3. HasValues(Pairs, Text)
  BY DEF HasValues, Pairs
<1>4. ASSUME NEW key
      PROVE  ValuesOf(s, key) \in Seq(Text) /\ (ValuesOf(s, key) # <<>> => key \in Text)
  <2>1. (\A i \in DOMAIN s : s[i].name # key) <=> ValuesOf(s, key) = <<>>
    BY <1>3, ValuesType
  <2>2. \A i \in DOMAIN s : s[i].name \in Text
    <3>1. ASSUME NEW i \in DOMAIN s PROVE s[i].name \in Text
      <4>1. s[i] \in Pairs
        BY ONLY <3>1, s \in Seq(Pairs), ElementsOf
      <4> QED BY <4>1 DEF Pairs
    <3> QED BY <3>1
  <2>3. ValuesOf(s, key) \in Seq(Text)
    BY <1>3, ValuesType
  <2> QED BY <2>1, <2>2, <2>3
<1>5. \A i \in 1 .. n :
        /\ ss[i] \in Seq(Pairs) /\ ValuesOf(ss[i], keys[i]) = ValuesOf(s, keys[i])
        /\ \A name : name # keys[i] => ValuesOf(ss[i], name) = <<>>
  BY <1>2, <1>4, ListIs
<1>6. ss \in Seq(Seq(Pairs)) /\ Len(ss) = n /\ DOMAIN ss = 1 .. n
  BY <1>2, <1>5
<1>7. ASSUME NEW name
      PROVE  /\ fl \in Seq(Pairs)
             /\ ValuesOf(fl, name) =
                  IF \E i \in 1 .. n : keys[i] = name THEN ValuesOf(s, name) ELSE <<>>
  <2>1. PICK k : /\ k \in Nat /\ k >= 1
                 /\ IF \E i \in 1 .. n : keys[i] = name THEN k <= n /\ keys[k] = name
                    ELSE k = n + 1
    <3>1. CASE \E i \in 1 .. n : keys[i] = name
      <4>1. PICK i \in 1 .. n : keys[i] = name
        BY <3>1
      <4>2. i \in Nat /\ i >= 1 /\ i <= n
        BY <1>2
      <4> QED BY <3>1, <4>1, <4>2
    <3>2. CASE ~ \E i \in 1 .. n : keys[i] = name
      <4>1. n + 1 \in Nat /\ n + 1 >= 1
        BY <1>2
      <4> QED BY <3>2, <4>1
    <3> QED BY <3>1, <3>2
  <2>2. PICK v : v = ValuesOf(s, name)
    OBVIOUS
  <2>3. v \in Seq(Text)
    BY <1>4, <2>2
  <2>4. OnlyAt(ss, name, k, v)
    <3>1. ASSUME NEW i \in 1 .. n PROVE ValuesOf(ss[i], name) = IF i = k THEN v ELSE <<>>
      <4>1. CASE keys[i] = name
        <5>1. k \in 1 .. n /\ keys[k] = name
          BY <1>2, <2>1, <4>1
        <5>2. i = k
          BY <1>2, <4>1, <5>1
        <5> QED BY <1>5, <2>2, <4>1, <5>2
      <4>2. CASE keys[i] # name
        <5>1. i # k
          <6>1. i # n + 1
            BY <1>2
          <6> QED BY <2>1, <4>2, <6>1
        <5> QED BY <1>5, <4>2, <5>1
      <4> QED BY <4>1, <4>2
    <3> QED BY <1>6, <3>1 DEF OnlyAt
  <2>5. /\ FlattenSeq(ss) \in Seq(Pairs)
        /\ ValuesOf(FlattenSeq(ss), name) = IF k <= Len(ss) THEN v ELSE <<>>
    BY ONLY <1>3, <1>6, <2>1, <2>3, <2>4, FlatValues
  <2>6. (\E i \in 1 .. n : keys[i] = name) <=> k <= Len(ss)
    <3>1. ~(n + 1 <= n)
      BY <1>2
    <3> QED BY <1>6, <2>1, <3>1
  <2> QED BY <1>1, <2>2, <2>5, <2>6
<1> QED BY <1>1, <1>7

\* What the decoder gives has under every name what the properties had.
LEMMA LineGives ==
  ASSUME NEW text \in Text
  PROVE  LET g == AppendEvent(text)
             q == Extras(g) \o DecodedProps(g)
         IN /\ q \in Seq(Pairs)
            /\ \A name : ValuesOf(q, name) = ValuesOf(PropsOf(text), name)
<1>1. PICK g, h, s, e, d : /\ g = AppendEvent(text) /\ h = HeadPairs(text) /\ s = PropsOf(text)
                           /\ e = Extras(g) /\ d = DecodedProps(g)
  OBVIOUS
<1>2. DOMAIN g = 1 .. Len(g) /\ Len(g) \in Nat /\ Len(g) >= 6
  BY <1>1, LineFacts, Zenon
<1>12. \A i, j \in DOMAIN g : g[i].key = g[j].key => i = j
  BY <1>1, LineFacts, Zenon
<1>13. \A i \in 1 .. 6 : /\ i \in DOMAIN g /\ g[i].key = Header[i]
                         /\ g[i].values = <<h[i].value>> \o ValuesOf(s, Header[i])
  BY <1>1, LineFacts, Zenon
<1>14. \A k \in DOMAIN g : g[k].key \notin Meta => g[k].values = ValuesOf(s, g[k].key)
  BY <1>1, LineFacts, Zenon
<1>15. \A name : ValuesIn(g, name) =
         IF name \in Meta THEN <<ValuesIn(g, name)[1]>> \o ValuesOf(s, name) ELSE ValuesOf(s, name)
  BY <1>1, LineFacts, Zenon
<1>3. s \in Seq(Pairs)
  BY <1>1, RefsAre
<1>4. HasValues(Pairs, Text) /\ \A name : ValuesOf(s, name) \in Seq(Text)
  <2>1. HasValues(Pairs, Text)
    BY DEF HasValues, Pairs
  <2> QED BY <1>3, <2>1, ValuesType
<1>5. PICK m, n, first, other : /\ m = 6 /\ n = Len(g) - 6
                                /\ first = [i \in 1 .. m |-> g[i].key]
                                /\ other = [i \in 1 .. n |-> g[i + 6].key]
  OBVIOUS
<1>6. m \in Nat /\ n \in Nat /\ Len(first) = m /\ Len(other) = n
  BY <1>2, <1>5
<1>16. \A i \in 1 .. m : i \in 1 .. 6 /\ i \in DOMAIN g /\ first[i] = g[i].key
  BY <1>5, <1>13
<1>17. \A i \in 1 .. n : i + 6 \in DOMAIN g /\ i + 6 \notin 1 .. 6 /\ other[i] = g[i + 6].key
  <2>1. \A i \in 1 .. n : i + 6 \in 1 .. Len(g) /\ i + 6 \notin 1 .. 6
    BY ONLY <1>2, <1>5
  <2> QED BY <1>2, <1>5, <2>1
<1>18. \A k \in DOMAIN g : k \in 1 .. m \/ \E i \in 1 .. n : k = i + 6
  <2>1. ASSUME NEW k \in 1 .. Len(g) PROVE k \in 1 .. m \/ \E i \in 1 .. n : k = i + 6
    <3>1. k \in 1 .. m \/ (k - 6 \in 1 .. n /\ k = k - 6 + 6)
      BY ONLY <1>2, <1>5
    <3> QED BY <3>1
  <2> QED BY <1>2, <2>1
<1>7. e \in Seq(Pairs) /\ \A name : ValuesOf(e, name) =
        IF \E i \in 1 .. m : first[i] = name THEN ValuesOf(s, name) ELSE <<>>
  <2>1. PICK ss : ss = [i \in 1 .. 6 |-> [k \in 1 .. Len(g[i].values) - 1 |->
                         [name |-> g[i].key, value |-> g[i].values[k + 1]]]]
    OBVIOUS
  <2>2. e = FlattenSeq(ss)
    BY <1>1, <2>1 DEF Extras
  <2>3. ASSUME NEW i \in 1 .. 6 PROVE ss[i] = ListOf(g[i].key, ValuesOf(s, g[i].key))
    <3>1. PICK w, x, v, u : /\ w = ValuesOf(s, g[i].key) /\ x = h[i].value /\ v = g[i].values
                            /\ u = Len(w)
      OBVIOUS
    <3>2. w \in Seq(Text) /\ v = <<x>> \o w
      BY <1>4, <1>13, <3>1
    <3>3. u \in Nat /\ DOMAIN w = 1 .. u
      BY <3>1, <3>2
    <3>4. Len(v) = 1 + u /\ \A k \in 1 .. u : v[k + 1] = w[k]
      <4>1. PICK W, y : W = Text \cup {x} /\ y = <<x>>
        OBVIOUS
      <4>2. y \in Seq(W) /\ w \in Seq(W) /\ Len(y) = 1
        BY <3>2, <4>1
      <4>3. /\ Len(y \o w) = 1 + u
            /\ \A k \in 1 .. 1 + u : (y \o w)[k] = IF k <= 1 THEN y[k] ELSE w[k - 1]
        <5>1. /\ Len(y \o w) = Len(y) + Len(w)
              /\ \A k \in 1 .. Len(y) + Len(w) :
                   (y \o w)[k] = IF k <= Len(y) THEN y[k] ELSE w[k - Len(y)]
          BY ONLY <4>2, ConcatProperties
        <5> QED BY <3>1, <4>2, <5>1
      <4>4. \A k \in 1 .. u : k + 1 \in 1 .. 1 + u /\ ~(k + 1 <= 1) /\ k + 1 - 1 = k
        BY <3>3
      <4> QED BY <3>2, <4>1, <4>3, <4>4
    <3>5. Len(v) - 1 = u
      BY <3>3, <3>4
    <3>6. ss[i] = [k \in 1 .. u |-> [name |-> g[i].key, value |-> v[k + 1]]]
      BY <2>1, <3>1, <3>5
    <3>7. ss[i] = [k \in 1 .. u |-> [name |-> g[i].key, value |-> w[k]]]
      BY <3>4, <3>6
    <3> QED BY <3>1, <3>3, <3>7 DEF ListOf
  <2>4. Lists(ss, first, s)
    <3>1. ss = [i \in 1 .. m |-> ListOf(first[i], ValuesOf(s, first[i]))]
      BY <1>5, <1>16, <2>1, <2>3
    <3>2. \A i, j \in 1 .. m : first[i] = first[j] => i = j
      BY <1>12, <1>16
    <3> QED BY <1>6, <3>1, <3>2 DEF Lists
  <2> QED BY <1>3, <1>6, <2>2, <2>4, ListsAre
<1>8. d \in Seq(Pairs) /\ \A name : ValuesOf(d, name) =
        IF \E i \in 1 .. n : other[i] = name THEN ValuesOf(s, name) ELSE <<>>
  <2>1. PICK ss : ss = [i \in 1 .. n |-> [k \in DOMAIN g[i + 6].values |->
                         [name |-> g[i + 6].key, value |-> g[i + 6].values[k]]]]
    OBVIOUS
  <2>2. d = FlattenSeq(ss)
    BY <1>1, <1>5, <2>1 DEF DecodedProps
  <2>3. ASSUME NEW i \in 1 .. n PROVE ss[i] = ListOf(other[i], ValuesOf(s, other[i]))
    <3>1. g[i + 6].key \notin Meta
      <4>1. \A k \in 1 .. 6 : g[k].key # g[i + 6].key
        <5>1. ASSUME NEW k \in 1 .. 6 PROVE g[k].key # g[i + 6].key
          <6>1. k \in DOMAIN g /\ i + 6 \in DOMAIN g /\ k # i + 6
            BY <1>13, <1>17
          <6> QED BY <1>12, <6>1
        <5> QED BY <5>1
      <4> QED BY <1>13, <4>1 DEF Meta
    <3>2. g[i + 6].values = ValuesOf(s, other[i])
      BY <1>14, <1>17, <3>1
    <3> QED BY <1>17, <2>1, <3>2 DEF ListOf
  <2>4. Lists(ss, other, s)
    <3>1. ss = [i \in 1 .. n |-> ListOf(other[i], ValuesOf(s, other[i]))]
      BY <2>1, <2>3
    <3>2. ASSUME NEW i \in 1 .. n, NEW j \in 1 .. n, other[i] = other[j] PROVE i = j
      <4>1. i + 6 = j + 6
        BY <1>12, <1>17, <3>2
      <4> QED BY <1>6, <4>1
    <3> QED BY <1>6, <3>1, <3>2 DEF Lists
  <2> QED BY <1>3, <1>6, <2>2, <2>4, ListsAre
<1>9. PICK q : q = e \o d
  OBVIOUS
<1>10. q \in Seq(Pairs) /\ \A name : ValuesOf(q, name) = ValuesOf(e, name) \o ValuesOf(d, name)
  <2>1. q \in Seq(Pairs)
    BY <1>7, <1>8, <1>9, ConcatProperties
  <2>2. \A name : ValuesOf(e \o d, name) = ValuesOf(e, name) \o ValuesOf(d, name)
    BY <1>4, <1>7, <1>8, ValuesCat
  <2> QED BY <1>9, <2>1, <2>2
<1>11. ASSUME NEW name PROVE ValuesOf(q, name) = ValuesOf(s, name)
  <2>1. /\ <<>> \o ValuesOf(s, name) = ValuesOf(s, name)
        /\ ValuesOf(s, name) \o <<>> = ValuesOf(s, name)
    BY <1>4, ConcatNone
  <2>2. CASE \E i \in 1 .. m : first[i] = name
    <3>1. ~ \E i \in 1 .. n : other[i] = name
      <4>1. PICK k \in 1 .. m : first[k] = name
        BY <2>2
      <4>2. ASSUME NEW i \in 1 .. n, other[i] = name PROVE FALSE
        <5>1. k \in DOMAIN g /\ i + 6 \in DOMAIN g /\ g[k].key = g[i + 6].key
          BY <1>16, <1>17, <4>1, <4>2
        <5>2. k = i + 6
          BY <1>12, <5>1
        <5> QED BY <1>16, <1>17, <5>2
      <4> QED BY <4>2
    <3> QED BY <1>7, <1>8, <1>10, <2>1, <2>2, <3>1
  <2>3. CASE ~(\E i \in 1 .. m : first[i] = name) /\ \E i \in 1 .. n : other[i] = name
    BY <1>7, <1>8, <1>10, <2>1, <2>3
  <2>4. CASE ~(\E i \in 1 .. m : first[i] = name) /\ ~(\E i \in 1 .. n : other[i] = name)
    <3>1. \A k \in DOMAIN g : g[k].key # name
      BY <1>16, <1>17, <1>18, <2>4
    <3>2. name \notin Meta
      BY <1>13, <3>1 DEF Meta
    <3>3. ValuesOf(s, name) = <<>>
      BY <1>15, <3>1, <3>2, ValuesInNone
    <3> QED BY <1>7, <1>8, <1>10, <2>1, <2>4, <3>3
  <2> QED BY <2>2, <2>3, <2>4
<1> QED BY <1>1, <1>9, <1>10, <1>11

-----------------------------------------------------------------------------
(* A row of the same values *)

\* The names of pairs are finitely many.
LEMMA NamesFinite ==
  ASSUME NEW pairs \in Seq(Pairs)
  PROVE  IsFiniteSet({pairs[i].name : i \in DOMAIN pairs})
<1>1. PICK N : N = {pairs[i].name : i \in DOMAIN pairs}
  OBVIOUS
<1>2. DOMAIN pairs = 1 .. Len(pairs) /\ Len(pairs) \in Nat
  OBVIOUS
<1>3. IsFiniteSet(DOMAIN pairs)
  BY <1>2, FS_Interval
<1>4. PICK f : f = [i \in DOMAIN pairs |-> pairs[i].name]
  OBVIOUS
<1>5. f \in Surjection(DOMAIN pairs, N)
  BY <1>1, <1>4 DEF Surjection
<1> QED BY <1>1, <1>3, <1>5, FS_Surjection

\* What a row shows of a name depends on the values of the name only.
LEMMA ShownSame ==
  ASSUME NEW r, NEW t, NEW name, NEW a, Shows(r, name, a), Shows(t, name, a)
  PROVE  /\ ValuesOf(r.props, name) = ValuesOf(t.props, name)
         /\ rich /\ name \in Hot => r.hot.last[name] = t.hot.last[name]
<1>1. CASE rich /\ name \in Meta
  BY <1>1, HotIs DEF Shows
<1>2. CASE rich /\ name \in Hot
  BY <1>2, HotIs DEF Shows, ShowsHot
<1>3. CASE ~(rich /\ name \in Meta) /\ ~(rich /\ name \in Hot)
  BY <1>3 DEF Shows, ShowsPlain
<1> QED BY <1>1, <1>2, <1>3

\* Pairs with the same values under every name, and durations that count the same.
SameValues(p, q) == \A name : ValuesOf(q, name) = ValuesOf(p, name)
SameNumber(d, e) == UintOrZero(d) = UintOrZero(e) /\ Saturated(d) = Saturated(e)

\* Rows that agree in all but the order of the props.
Agree(b, a) ==
  /\ [b EXCEPT !.props = 0] = [a EXCEPT !.props = 0]
  /\ \A name : ValuesIn(b.props, name) = ValuesIn(a.props, name)

\* From pairs with the same values come rows that agree.
LEMMA SameRow ==
  ASSUME NEW head, Len(head[3]) \in Nat, Len(head[4]) \in Nat,
         NEW p \in Seq(Pairs), NEW q \in Seq(Pairs), SameValues(p, q),
         NEW d, NEW e, SameNumber(d, e)
  PROVE  Agree(Row(rich, Filled(rich, head, NoHot, q), e),
               Row(rich, Filled(rich, head, NoHot, p), d))
<1>1. PICK N : N = {p[i].name : i \in DOMAIN p} \cup {q[i].name : i \in DOMAIN q}
  OBVIOUS
<1>2. /\ IsFiniteSet(N)
      /\ \A i \in DOMAIN p : p[i].name \in N
      /\ \A i \in DOMAIN q : q[i].name \in N
  BY <1>1, NamesFinite, FS_Union
<1>3. PICK r, t : r = Filled(rich, head, NoHot, p) /\ t = Filled(rich, head, NoHot, q)
  OBVIOUS
<1>4. Fills(r, head, p, N)
  BY <1>2, <1>3, FilledIs
<1>5. Fills(t, head, q, N)
  BY <1>2, <1>3, FilledIs
<1>6. \A name : ValuesOf(q, name) = ValuesOf(p, name)
  BY DEF SameValues
<1>7. r.bytes = t.bytes
  <2>1. Weights(q, N) = Weights(p, N)
    BY <1>6 DEF Weights
  <2>2. r.bytes = Fresh(head, NoHot).bytes + SumFunctionOnSet(Weights(p, N), N)
    BY <1>4 DEF Fills
  <2>3. t.bytes = Fresh(head, NoHot).bytes + SumFunctionOnSet(Weights(q, N), N)
    BY <1>5 DEF Fills
  <2> QED BY <2>1, <2>2, <2>3
<1>8. ASSUME NEW name
      PROVE  /\ ValuesOf(r.props, name) = ValuesOf(t.props, name)
             /\ rich /\ name \in Hot => r.hot.last[name] = t.hot.last[name]
  <2>1. Shows(r, name, ValuesOf(p, name))
    BY <1>4 DEF Fills
  <2>2. Shows(t, name, ValuesOf(p, name))
    BY <1>5, <1>6 DEF Fills
  <2> QED BY <2>1, <2>2, ShownSame
<1>9. /\ r \in RowsWith(head) /\ t \in RowsWith(head)
      /\ ~rich => r.hot = NoHot /\ t.hot = NoHot
  BY <1>4, <1>5 DEF Fills
<1>10. r.head = t.head /\ r.props \in Seq(Pairs) /\ t.props \in Seq(Pairs)
  BY <1>9, RowParts
<1>11. Columns(r.hot) = Columns(t.hot)
  <2>1. CASE rich
    <3>1. PICK l, m : l = r.hot.last /\ m = t.hot.last
      OBVIOUS
    <3>2. \A name \in Hot : l[name] = m[name]
      BY <1>8, <2>1, <3>1
    <3>3. /\ l[<<"Usr">>] = m[<<"Usr">>] /\ l[<<"SessionID">>] = m[<<"SessionID">>]
          /\ l[<<"t:clientID">>] = m[<<"t:clientID">>] /\ l[<<"ClientID">>] = m[<<"ClientID">>]
          /\ l[<<"Sql">>] = m[<<"Sql">>] /\ l[<<"Query">>] = m[<<"Query">>]
      BY <3>2 DEF Hot
    <3> QED BY <3>1, <3>3 DEF Columns
  <2>2. CASE ~rich
    BY <1>9, <2>2
  <2> QED BY <2>1, <2>2
<1>12. PICK a, b : a = Row(rich, r, d) /\ b = Row(rich, t, e)
  OBVIOUS
<1>13. [b EXCEPT !.props = 0] = [a EXCEPT !.props = 0]
  <2>1. PICK h, n, c, s : /\ h = r.head /\ c = Columns(r.hot) /\ s = r.bytes
                          /\ n = IF rich THEN UintOrZero(d) ELSE Saturated(d)
    OBVIOUS
  <2>2. a = [head |-> h, duration |-> n, columns |-> c, props |-> Grouped(r.props), bytes |-> s]
    BY <1>12, <2>1 DEF Row
  <2>3. b = [head |-> h, duration |-> n, columns |-> c, props |-> Grouped(t.props), bytes |-> s]
    BY <1>7, <1>10, <1>11, <1>12, <2>1 DEF Row, SameNumber
  <2> QED BY <2>2, <2>3
<1>14. ASSUME NEW name PROVE ValuesIn(b.props, name) = ValuesIn(a.props, name)
  <2>1. HasValues(Pairs, Text)
    BY DEF HasValues, Pairs
  <2>2. ValuesIn(Grouped(r.props), name) = ValuesOf(r.props, name)
    BY <1>10, <2>1, GroupedValues
  <2>3. ValuesIn(Grouped(t.props), name) = ValuesOf(t.props, name)
    BY <1>10, <2>1, GroupedValues
  <2>4. a.props = Grouped(r.props) /\ b.props = Grouped(t.props)
    BY <1>12 DEF Row
  <2> QED BY <1>8, <2>2, <2>3, <2>4
<1> QED BY <1>3, <1>12, <1>13, <1>14 DEF Agree

-----------------------------------------------------------------------------
(* The row that was replayed *)

\* The header as the drainer decodes it.
LEMMA HeadDecodes ==
  ASSUME NEW text \in Text
  PROVE  LET f == ParseEventFields(text)
             d == DecodedHeader(AppendEvent(text))
         IN /\ d[2] = Canonical(f.duration)
            /\ [d EXCEPT ![2] = <<>>] = HeadOf(text)
<1>1. PICK f, g, d, h : /\ f = ParseEventFields(text) /\ g = AppendEvent(text)
                        /\ d = DecodedHeader(g) /\ h = HeadPairs(text)
  OBVIOUS
<1>2. \A i \in 1 .. 6 : g[i].values[1] = h[i].value
  BY <1>1, LineFacts, Zenon
<1>3. d = [i \in 1 .. 6 |-> h[i].value]
  BY <1>1, <1>2 DEF DecodedHeader
<1>4. PICK head : head = <<Date \o f.time, Canonical(f.duration), f.event, f.level,
                           <<"file">>, <<"path">>>>
  OBVIOUS
<1>5. \A i \in 1 .. 6 : h[i].value = head[i]
  BY <1>1, <1>4 DEF HeadPairs
<1>6. d = [i \in 1 .. 6 |-> head[i]]
  BY <1>3, <1>5
<1>7. PICK e, o : e = [d EXCEPT ![2] = <<>>] /\ o = HeadOf(text)
  OBVIOUS
<1>8. o = <<Date \o f.time, <<>>, f.event, f.level, <<"file">>, <<"path">>>>
  BY <1>1, <1>7 DEF HeadOf
<1>9. e = [i \in 1 .. 6 |-> IF i = 2 THEN <<>> ELSE head[i]]
  BY <1>6, <1>7
<1>10. /\ head[1] = o[1] /\ o[2] = <<>> /\ head[3] = o[3] /\ head[4] = o[4]
       /\ head[5] = o[5] /\ head[6] = o[6]
  BY <1>4, <1>8
<1>11. o = [i \in 1 .. 6 |-> o[i]]
  BY <1>8
<1>12. \A i \in 1 .. 6 : (IF i = 2 THEN <<>> ELSE head[i]) = o[i]
  <2>1. \A i \in 1 .. 6 : i = 1 \/ i = 2 \/ i = 3 \/ i = 4 \/ i = 5 \/ i = 6
    OBVIOUS
  <2> QED BY <1>10, <2>1
<1>13. e = o
  BY <1>9, <1>11, <1>12
<1>14. d[2] = Canonical(f.duration)
  <2>1. head[2] = Canonical(f.duration) /\ 2 \in 1 .. 6
    BY <1>4
  <2> QED BY <1>6, <2>1
<1> QED BY <1>1, <1>7, <1>13, <1>14

\* A line that was written is read.
LEMMA LineDecodes ==
  ASSUME NEW text \in Text, NEW k, BeginsEvent(text, k)
  PROVE  Decodes(AppendEvent(text))
<1>1. PICK f, g, h : f = ParseEventFields(text) /\ g = AppendEvent(text) /\ h = HeadPairs(text)
  OBVIOUS
<1>2. Len(g) >= 6 /\ \A i \in 1 .. 6 : g[i].key = Header[i]
  BY <1>1, LineFacts, Zenon
<1>3. \A i \in 1 .. 6 : g[i].values[1] = h[i].value
  BY <1>1, LineFacts, Zenon
<1>4. h[1].value = Date \o f.time /\ h[2].value = Canonical(f.duration)
  BY <1>1 DEF HeadPairs
<1>5. Len(f.time) = 1 /\ f.time \in Text /\ Canonical(f.duration) # <<>>
  <2>1. /\ Len(f.time) = 1 /\ f.duration \in Text /\ f.duration # <<>>
        /\ \A i \in DOMAIN f.duration : f.duration[i] \in Digits
    BY <1>1, StartIs
  <2>2. f.time \in Text
    BY <1>1, FieldTexts
  <2>3. Canonical(f.duration) # <<>>
    BY <2>1, CanonicalIs
  <2> QED BY <2>1, <2>2, <2>3
<1>6. Len(Date \o f.time) \in {1, 2}
  <2>1. Date \in Seq(STRING) /\ Len(Date) <= 1 /\ f.time \in Seq(STRING)
    BY <1>5, DateIsLetter DEF Text
  <2>2. Len(Date \o f.time) = Len(Date) + Len(f.time)
    BY <2>1, ConcatProperties
  <2>3. Len(Date) \in Nat
    BY <2>1
  <2>4. Len(Date) = 0 \/ Len(Date) = 1
    <3>1. PICK m : m = Len(Date)
      OBVIOUS
    <3>2. m \in Nat /\ m <= 1
      BY <2>1, <2>3, <3>1
    <3>3. m = 0 \/ m = 1
      BY ONLY <3>2
    <3> QED BY <3>1, <3>3
  <2> QED BY <1>5, <2>2, <2>4
<1>7. 1 \in 1 .. 6 /\ 2 \in 1 .. 6
  OBVIOUS
<1>8. Len(g[1].values[1]) \in {1, 2} /\ g[2].values[1] # <<>>
  BY <1>3, <1>4, <1>5, <1>6, <1>7
<1> QED BY <1>1, <1>2, <1>8 DEF Decodes

\* The row that was replayed is that of the line.
ReplayRow ==
  stage = "replayed" =>
    replayed = Row(rich, Filled(rich, [DecodedHeader(line) EXCEPT ![2] = <<>>], NoHot,
                                Extras(line) \o DecodedProps(line)),
                   DecodedHeader(line)[2])

\* No row at first.
LEMMA ReplayInit == RowsInit => ReplayRow
BY DEF RowsInit, ReplayRow

\* Every step keeps it: Replay makes the row of the line.
LEMMA ReplayStep == RowOfEvent /\ ReplayRow /\ [RowsNext]_rowVars => ReplayRow'
<1> SUFFICES ASSUME RowOfEvent, ReplayRow, [RowsNext]_rowVars PROVE ReplayRow'
  OBVIOUS
<1> USE DEF ReplayRow
<1>1. CASE Encode
  BY <1>1 DEF Encode
<1>2. CASE Build
  BY <1>2 DEF Build
<1>3. CASE Replay
  <2>1. hotReplay = NoHot
    BY DEF RowOfEvent
  <2>2. replayed' = Row(rich, Filled(rich, [DecodedHeader(line) EXCEPT ![2] = <<>>], hotReplay,
                                     Extras(line) \o DecodedProps(line)),
                        DecodedHeader(line)[2])
    BY <1>3, Zenon DEF Replay
  <2>3. UNCHANGED <<rich, line>>
    BY <1>3 DEF Replay
  <2> QED BY <2>1, <2>2, <2>3
<1>4. CASE Done
  BY <1>4 DEF Done
<1>5. CASE UNCHANGED rowVars
  BY <1>5 DEF rowVars
<1> QED BY <1>1, <1>2, <1>3, <1>4, <1>5 DEF RowsNext

\* What went through the buffer is what would have been inserted directly, and no line
\* that was written is refused: ReplayIsDirect, for all texts.
THEOREM ReplayedIsDirect == RowsSpec => []ReplayIsDirect
<1>1. LineOfEvent /\ RowOfEvent /\ ReplayRow => ReplayIsDirect
  <2> SUFFICES ASSUME LineOfEvent, RowOfEvent, ReplayRow, stage \in {"built", "replayed"}
               PROVE  ReplayIsDirect
    BY DEF ReplayIsDirect
  <2>1. PICK text, p, q, f : /\ text = event.text /\ p = PropsOf(text)
                             /\ q = Extras(line) \o DecodedProps(line)
                             /\ f = ParseEventFields(text)
    OBVIOUS
  <2>2. event \in Texts /\ line = AppendEvent(text)
    BY <2>1 DEF LineOfEvent
  <2>3. PICK k : BeginsEvent(text, k)
    BY <2>1, <2>2, TextsAreEvents DEF BeginsEvent
  <2>4. text \in Text
    BY <2>1, <2>2, TextsAreEvents DEF Text
  <2>5. Decodes(line)
    BY <2>2, <2>3, <2>4, LineDecodes
  <2>6. p \in Seq(Pairs)
    BY <2>1, <2>4, RefsAre
  <2>7. q \in Seq(Pairs) /\ SameValues(p, q)
    BY <2>1, <2>2, <2>4, LineGives DEF SameValues
  <2>8. /\ DecodedHeader(line)[2] = Canonical(f.duration)
        /\ [DecodedHeader(line) EXCEPT ![2] = <<>>] = HeadOf(text)
    BY <2>1, <2>2, <2>4, HeadDecodes
  <2>9. SameNumber(f.duration, Canonical(f.duration))
    <3>1. /\ f.duration \in Text /\ f.duration # <<>>
          /\ \A i \in DOMAIN f.duration : f.duration[i] \in Digits
      BY <2>1, <2>3, <2>4, StartIs
    <3> QED BY <3>1, CanonicalIs DEF SameNumber
  <2>10. direct = Row(rich, Filled(rich, HeadOf(text), NoHot, p), f.duration)
    BY <2>1 DEF RowOfEvent
  <2>11. ASSUME stage = "replayed"
         PROVE  /\ [replayed EXCEPT !.props = 0] = [direct EXCEPT !.props = 0]
                /\ \A name : ValuesIn(replayed.props, name) = ValuesIn(direct.props, name)
    <3>1. replayed = Row(rich, Filled(rich, HeadOf(text), NoHot, q), Canonical(f.duration))
      BY <2>1, <2>8, <2>11 DEF ReplayRow
    <3>2. PICK head : head = HeadOf(text)
      OBVIOUS
    <3>3. Len(head[3]) \in Nat /\ Len(head[4]) \in Nat
      BY <2>4, <3>2, HeadLens
    <3>4. PICK d, e : d = f.duration /\ e = Canonical(f.duration)
      OBVIOUS
    <3>5. Agree(Row(rich, Filled(rich, head, NoHot, q), e),
                Row(rich, Filled(rich, head, NoHot, p), d))
      <4>1. SameNumber(d, e)
        BY <2>9, <3>4
      <4> QED BY ONLY <2>6, <2>7, <3>3, <4>1, SameRow
    <3>6. direct = Row(rich, Filled(rich, head, NoHot, p), d)
      BY <2>10, <3>2, <3>4
    <3>7. replayed = Row(rich, Filled(rich, head, NoHot, q), e)
      BY <3>1, <3>2, <3>4
    <3> QED BY <3>5, <3>6, <3>7, Zenon DEF Agree
  <2> QED BY <2>5, <2>11 DEF ReplayIsDirect
<1> QED BY <1>1, LineInit, LineStep, RowInit, RowStep, ReplayInit, ReplayStep, PTL DEF RowsSpec

-----------------------------------------------------------------------------
(* Quoting *)

\* s stands in body from the place p on.
Stands(body, p, s) ==
  p + Len(s) <= Len(body) + 1 /\ \A j \in 1 .. Len(s) : body[p + j - 1] = s[j]

\* Of two texts behind one another each has its place.
LEMMA StandBoth ==
  ASSUME NEW P, NEW body, Len(body) \in Nat, NEW p \in Nat, NEW s \in Seq(P), NEW t \in Seq(P),
         Stands(body, p, s \o t)
  PROVE  Stands(body, p, s) /\ Stands(body, p + Len(s), t)
<1>1. PICK u, l, m, e : u = s \o t /\ l = Len(s) /\ m = Len(t) /\ e = Len(body)
  OBVIOUS
<1>2. l \in Nat /\ m \in Nat /\ e \in Nat
  BY <1>1
<1>3. Len(u) = l + m /\ \A k \in 1 .. l + m : u[k] = IF k <= l THEN s[k] ELSE t[k - l]
  BY <1>1, ConcatProperties
<1>4. p + (l + m) <= e + 1 /\ \A k \in 1 .. l + m : body[p + k - 1] = u[k]
  BY <1>1, <1>3 DEF Stands
<1>5. p + l <= e + 1 /\ p + l + m <= e + 1
  BY ONLY <1>2, <1>4, p \in Nat
<1>6. \A j \in 1 .. l : body[p + j - 1] = s[j]
  <2>1. \A j \in 1 .. l : j \in 1 .. l + m /\ j <= l
    BY ONLY <1>2
  <2> QED BY <1>3, <1>4, <2>1
<1>7. \A j \in 1 .. m : body[p + l + j - 1] = t[j]
  <2>1. ASSUME NEW j \in 1 .. m PROVE body[p + l + j - 1] = t[j]
    <3>1. PICK k : k = l + j
      OBVIOUS
    <3>2. k \in 1 .. l + m /\ ~(k <= l) /\ k - l = j /\ p + k - 1 = p + l + j - 1
      BY ONLY <1>2, <3>1, p \in Nat, j \in 1 .. m
    <3>3. body[p + k - 1] = t[k - l]
      BY <1>3, <1>4, <3>2
    <3> QED BY <3>2, <3>3
  <2> QED BY <2>1
<1> QED BY <1>1, <1>5, <1>6, <1>7 DEF Stands

\* c has where each of the pieces ss begins and the one before it ends.
PiecesAt(c, body, p, ss) ==
  /\ c[0] = p /\ c[Len(ss)] = p + Len(FlattenSeq(ss))
  /\ \A i \in 0 .. Len(ss) : c[i] \in Nat /\ c[i] >= p
  /\ \A i \in 1 .. Len(ss) : c[i] = c[i - 1] + Len(ss[i]) /\ Stands(body, c[i - 1], ss[i])

\* There is such a c for pieces that stand behind one another.
LEMMA Pieces ==
  ASSUME NEW P, NEW body, Len(body) \in Nat, NEW p \in Nat, NEW ss \in Seq(Seq(P)),
         Stands(body, p, FlattenSeq(ss))
  PROVE  \E c : PiecesAt(c, body, p, ss)
<1>1. PICK n : n = Len(ss)
  OBVIOUS
<1>2. n \in Nat /\ \A i \in 1 .. n : ss[i] \in Seq(P)
  BY <1>1
<1>3. PICK f : Joins(f, ss, n, P)
  BY <1>1, FlatIs
<1>4. /\ f[0] = <<>> /\ f[n] = FlattenSeq(ss) /\ f[n] \in Seq(P)
      /\ \A i \in 1 .. n : f[i - 1] \in Seq(P) /\ f[i] = f[i - 1] \o ss[i]
  BY <1>3 DEF Joins
<1>5. \A i \in 0 .. n : f[i] \in Seq(P)
  <2>1. ASSUME NEW i \in 0 .. n PROVE f[i] \in Seq(P)
    <3>1. CASE i = n
      BY <1>4, <3>1
    <3>2. CASE i # n
      <4>1. PICK k : k = i + 1
        OBVIOUS
      <4>2. k \in 1 .. n /\ k - 1 = i
        BY ONLY <1>2, <3>2, <4>1, i \in 0 .. n
      <4> QED BY <1>4, <4>2
    <3> QED BY <3>1, <3>2
  <2> QED BY <2>1
<1>6. \A i \in 1 .. n : i \in 0 .. n /\ i - 1 \in 0 .. n
  BY ONLY <1>2
<1>7. ASSUME NEW i \in 1 .. n, Stands(body, p, f[i])
      PROVE  Stands(body, p, f[i - 1]) /\ Stands(body, p + Len(f[i - 1]), ss[i])
  <2>1. PICK s, t : s = f[i - 1] /\ t = ss[i]
    OBVIOUS
  <2>2. s \in Seq(P) /\ t \in Seq(P) /\ Stands(body, p, s \o t)
    BY <1>2, <1>4, <1>7, <2>1
  <2> QED BY <2>1, <2>2, StandBoth
<1>8. \A i \in 0 .. n : Stands(body, p, f[i])
  <2> DEFINE S == {k \in Nat : Stands(body, p, f[n - k])}
  <2>1. 0 \in S
    <3>1. n - 0 = n
      BY <1>2
    <3> QED BY <1>4, <3>1
  <2>2. ASSUME NEW k \in Nat, k < n, k \in S PROVE k + 1 \in S
    <3>1. PICK i : i = n - k
      OBVIOUS
    <3>2. i \in 1 .. n /\ n - (k + 1) = i - 1
      BY ONLY <1>2, <3>1, k \in Nat, k < n
    <3>3. Stands(body, p, f[i])
      BY <2>2, <3>1
    <3> QED BY <1>7, <3>2, <3>3
  <2>3. \A k \in 0 .. n : k \in S
    <3> HIDE DEF S
    <3> QED BY <1>2, <2>1, <2>2, Induct
  <2>4. ASSUME NEW i \in 0 .. n PROVE Stands(body, p, f[i])
    <3>1. n - i \in 0 .. n /\ n - (n - i) = i
      BY ONLY <1>2, i \in 0 .. n
    <3>2. n - i \in S
      <4> HIDE DEF S
      <4> QED BY <2>3, <3>1
    <3> QED BY <3>1, <3>2
  <2> QED BY <2>4
<1>9. PICK c : c = [i \in 0 .. n |-> p + Len(f[i])]
  OBVIOUS
<1>10. \A i \in 0 .. n : Len(f[i]) \in Nat
  BY <1>5
<1>11. \A i \in 0 .. n : c[i] = p + Len(f[i]) /\ c[i] \in Nat /\ c[i] >= p
  <2>1. ASSUME NEW i \in 0 .. n PROVE c[i] = p + Len(f[i]) /\ c[i] \in Nat /\ c[i] >= p
    <3>1. PICK l : l = Len(f[i])
      OBVIOUS
    <3>2. l \in Nat /\ c[i] = p + l
      BY <1>9, <1>10, <3>1
    <3> QED BY <3>1, <3>2
  <2> QED BY <2>1
<1>12. c[0] = p /\ c[n] = p + Len(FlattenSeq(ss))
  <2>1. 0 \in 0 .. n /\ n \in 0 .. n
    BY <1>2
  <2>2. PICK l : l = Len(f[0])
    OBVIOUS
  <2>3. l = 0
    BY <1>4, <2>2
  <2>4. c[0] = p + l
    BY <1>11, <2>1, <2>2
  <2>5. p + l = p
    BY ONLY <2>3, p \in Nat
  <2>6. c[n] = p + Len(f[n])
    BY <1>11, <2>1
  <2>7. c[n] = p + Len(FlattenSeq(ss))
    BY <1>4, <2>6, Zenon
  <2> QED BY <2>4, <2>5, <2>7
<1>13. ASSUME NEW i \in 1 .. n
       PROVE  c[i] = c[i - 1] + Len(ss[i]) /\ Stands(body, c[i - 1], ss[i])
  <2>1. PICK s, t, l, m : s = f[i - 1] /\ t = ss[i] /\ l = Len(s) /\ m = Len(t)
    OBVIOUS
  <2>2. s \in Seq(P) /\ t \in Seq(P) /\ f[i] = s \o t
    BY <1>2, <1>4, <2>1
  <2>3. Len(f[i]) = l + m /\ l \in Nat /\ m \in Nat
    BY <2>1, <2>2, ConcatProperties
  <2>4. c[i] = p + (l + m) /\ c[i - 1] = p + l
    BY <1>6, <1>11, <2>1, <2>3
  <2>5. p + (l + m) = p + l + m
    BY ONLY <2>3, p \in Nat
  <2>6. Stands(body, p + l, t)
    BY <1>6, <1>7, <1>8, <2>1
  <2> QED BY <2>1, <2>4, <2>5, <2>6
<1> QED BY <1>1, <1>11, <1>12, <1>13 DEF PiecesAt

\* The letters but the first i.
Dropped(s, i) == SubSeq(s, i + 1, Len(s))

\* They are all of them at first and none at the end, and one fewer with every letter.
LEMMA DroppedIs ==
  ASSUME NEW P, NEW s \in Seq(P)
  PROVE  /\ Dropped(s, 0) = s /\ Dropped(s, Len(s)) = <<>>
         /\ \A i \in 1 .. Len(s) : <<s[i]>> \o Dropped(s, i) = Dropped(s, i - 1)
<1>1. PICK n : n = Len(s)
  OBVIOUS
<1>2. n \in Nat /\ s \in Seq(P) /\ DOMAIN s = 1 .. n
  BY <1>1
<1>3. \A i \in 0 .. n : /\ Dropped(s, i) \in Seq(P) /\ Len(Dropped(s, i)) = n - i
                        /\ \A j \in 1 .. n - i : Dropped(s, i)[j] = s[i + j]
  <2>1. ASSUME NEW i \in 0 .. n
        PROVE  /\ Dropped(s, i) \in Seq(P) /\ Len(Dropped(s, i)) = n - i
               /\ \A j \in 1 .. n - i : Dropped(s, i)[j] = s[i + j]
    <3>1. PICK k : k = i + 1
      OBVIOUS
    <3>2. k \in 1 .. n + 1 /\ \A x \in k .. n : x \in 1 .. n
      BY <1>2, <3>1
    <3>3. PICK t : t = SubSeq(s, k, n)
      OBVIOUS
    <3>4. t = Dropped(s, i)
      BY <1>1, <3>1, <3>3 DEF Dropped
    <3>5. /\ t \in Seq(P) /\ Len(t) = IF k <= n THEN n - k + 1 ELSE 0
          /\ \A j \in 1 .. n - k + 1 : t[j] = s[k + j - 1]
      <4>1. \A x \in k .. n : s[x] \in P
        BY <1>2, <3>2
      <4> QED BY <1>1, <1>2, <3>2, <3>3, <4>1, SubSeqProperties
    <3>6. Len(t) = n - i
      BY <1>2, <3>1, <3>2, <3>5
    <3>7. \A j \in 1 .. n - i : t[j] = s[i + j]
      <4>1. \A j \in 1 .. n - i : j \in 1 .. n - k + 1 /\ k + j - 1 = i + j
        BY <1>2, <3>1
      <4> QED BY <3>5, <4>1
    <3> QED BY <3>4, <3>5, <3>6, <3>7
  <2> QED BY <2>1
<1>4. Dropped(s, 0) = s
  <2>1. PICK t : t = Dropped(s, 0)
    OBVIOUS
  <2>2. t \in Seq(P) /\ Len(t) = n /\ \A j \in 1 .. n : t[j] = s[j]
    <3>1. 0 \in 0 .. n /\ n - 0 = n /\ \A j \in 1 .. n : 0 + j = j
      BY <1>2
    <3> QED BY <1>3, <2>1, <3>1
  <2>3. t = s
    BY <1>1, <2>2, SeqSame
  <2> QED BY <2>1, <2>3
<1>5. Dropped(s, n) = <<>>
  <2>1. n \in 0 .. n /\ n - n = 0
    BY <1>2
  <2>2. Dropped(s, n) \in Seq(P) /\ Len(Dropped(s, n)) = 0
    BY <1>3, <2>1
  <2> QED BY <2>2
<1>6. ASSUME NEW i \in 1 .. n PROVE <<s[i]>> \o Dropped(s, i) = Dropped(s, i - 1)
  <2>1. PICK a, b, t, u, h, m : /\ a = <<s[i]>> /\ b = Dropped(s, i) /\ t = a \o b
                                /\ h = i - 1 /\ u = Dropped(s, h) /\ m = n - i
    OBVIOUS
  <2>2. a \in Seq(P) /\ Len(a) = 1 /\ a[1] = s[i]
    BY <1>2, <2>1
  <2>3. m \in Nat /\ i \in 0 .. n /\ h \in 0 .. n /\ n - h = m + 1
    BY <1>2, <2>1
  <2>4. b \in Seq(P) /\ Len(b) = m /\ \A j \in 1 .. m : b[j] = s[i + j]
    BY <1>3, <2>1, <2>3
  <2>5. u \in Seq(P) /\ Len(u) = m + 1 /\ \A j \in 1 .. m + 1 : u[j] = s[h + j]
    BY <1>3, <2>1, <2>3
  <2>6. /\ t \in Seq(P) /\ Len(t) = 1 + m
        /\ \A j \in 1 .. 1 + m : t[j] = IF j <= 1 THEN a[j] ELSE b[j - 1]
    BY <2>1, <2>2, <2>4, ConcatProperties
  <2>7. ASSUME NEW j \in 1 .. m + 1 PROVE t[j] = u[j]
    <3>1. CASE j = 1
      <4>1. h + j = i /\ j <= 1 /\ j \in 1 .. 1 + m
        BY ONLY <2>1, <2>3, <3>1, i \in 1 .. n, <1>2
      <4>2. u[j] = s[i]
        BY <2>5, <4>1
      <4>3. t[j] = a[1]
        BY <2>6, <3>1, <4>1
      <4> QED BY <2>2, <4>2, <4>3
    <3>2. CASE j # 1
      <4>1. PICK k : k = j - 1
        OBVIOUS
      <4>2. k \in 1 .. m /\ i + k = h + j /\ ~(j <= 1) /\ j \in 1 .. 1 + m
        BY ONLY <2>1, <2>3, <3>2, <4>1, i \in 1 .. n, <1>2, j \in 1 .. m + 1
      <4>3. t[j] = b[k]
        BY <2>6, <4>1, <4>2
      <4>4. b[k] = s[i + k] /\ u[j] = s[h + j]
        BY <2>4, <2>5, <4>2
      <4> QED BY <4>2, <4>3, <4>4
    <3> QED BY <3>1, <3>2
  <2>8. Len(t) = Len(u) /\ \A j \in 1 .. Len(t) : t[j] = u[j]
    <3>1. 1 + m = m + 1
      BY <2>3
    <3> QED BY <2>5, <2>6, <2>7, <3>1
  <2>9. t = u
    BY <2>5, <2>6, <2>8, SeqSame
  <2> QED BY <2>1, <2>9
<1> QED BY <1>1, <1>4, <1>5, <1>6

\* A letter before a value, and its end.
LEMMA PrependIs ==
  ASSUME NEW c, NEW t, NEW e
  PROVE  Prepend(c, [text |-> t, next |-> e]) = [text |-> <<c>> \o t, next |-> e]
<1>1. PICK v, w : v = [text |-> t, next |-> e] /\ w = <<c>> \o t
  OBVIOUS
<1>2. v.text = t
  BY <1>1
<1>3. Prepend(c, v) = [v EXCEPT !.text = w]
  BY <1>1, <1>2 DEF Prepend
<1>4. Prepend(c, v) = [text |-> w, next |-> e]
  BY <1>1, <1>3
<1> QED BY <1>1, <1>4

-----------------------------------------------------------------------------
\* The table g reads a quote that is doubled as one, and other letters as they are.
Undoubles(g, body, quote, lo) ==
  \A p \in lo .. Len(body) :
    /\ body[p] # quote => g[p] = Prepend(body[p], g[p + 1])
    /\ p < Len(body) /\ body[p] = quote /\ body[p + 1] = quote => g[p] = Prepend(quote, g[p + 2])

DoubledParts(value, quote) ==
  [i \in DOMAIN value |-> IF value[i] = quote THEN <<quote, quote>> ELSE <<value[i]>>]

\* A text is a sequence of strings.
LEMMA TextIs ==
  ASSUME NEW s \in Text
  PROVE  s \in Seq(STRING) /\ Len(s) \in Nat /\ DOMAIN s = 1 .. Len(s)
BY DEF Text

\* The sequences of one letter or of two.
LEMMA OneOrTwo ==
  ASSUME NEW P
  PROVE  \A x \in P : <<x>> \in Seq(P) /\ <<x, x>> \in Seq(P)
OBVIOUS

\* They are pieces, and Doubled puts them behind one another.
LEMMA PartsAre ==
  ASSUME NEW value \in Text, NEW quote \in STRING
  PROVE  /\ DoubledParts(value, quote) \in Seq(Seq(STRING))
         /\ Len(DoubledParts(value, quote)) = Len(value)
         /\ Doubled(value, quote) = FlattenSeq(DoubledParts(value, quote))
<1>1. PICK ss, n : ss = DoubledParts(value, quote) /\ n = Len(value)
  OBVIOUS
<1>2. n \in Nat /\ DOMAIN value = 1 .. n /\ \A i \in 1 .. n : value[i] \in STRING
  BY <1>1 DEF Text
<1>3. ss = [i \in 1 .. n |-> IF value[i] = quote THEN <<quote, quote>> ELSE <<value[i]>>]
  BY <1>1, <1>2 DEF DoubledParts
<1>4. \A i \in 1 .. n : <<quote, quote>> \in Seq(STRING) /\ <<value[i]>> \in Seq(STRING)
  BY <1>2, OneOrTwo
<1>5. \A i \in 1 .. n : ss[i] \in Seq(STRING)
  BY <1>3, <1>4
<1>6. DOMAIN ss = 1 .. n
  BY <1>3
<1>7. ss \in Seq(Seq(STRING)) /\ Len(ss) = n
  <2>1. PICK U : U = Seq(STRING)
    OBVIOUS
  <2>2. ss \in [1 .. n -> U]
    BY <1>3, <1>5, <1>6, <2>1
  <2>3. ss \in Seq(U) /\ Len(ss) = n
    BY <1>2, <2>2
  <2> QED BY <2>1, <2>3
<1>8. Doubled(value, quote) = FlattenSeq(ss)
  BY <1>1, Zenon DEF Doubled, DoubledParts
<1> QED BY <1>1, <1>7, <1>8

\* The piece of a letter.
LEMMA PartIs ==
  ASSUME NEW value \in Text, NEW quote \in STRING, NEW i \in 1 .. Len(value)
  PROVE  DoubledParts(value, quote)[i] =
           IF value[i] = quote THEN <<quote, quote>> ELSE <<value[i]>>
<1>1. DOMAIN value = 1 .. Len(value)
  BY DEF Text
<1>2. PICK d : d = DOMAIN value
  OBVIOUS
<1>3. /\ i \in d
      /\ DoubledParts(value, quote)
           = [j \in d |-> IF value[j] = quote THEN <<quote, quote>> ELSE <<value[j]>>]
  BY <1>1, <1>2, Zenon DEF DoubledParts
<1> QED BY <1>3, Zenon

\* value stands at p with its quotes doubled, g reads it, and ends at q.
DoubledAt(g, body, p, value, quote, q, e) ==
  /\ Len(body) \in Nat /\ p \in Nat /\ value \in Text /\ quote \in STRING
  /\ Stands(body, p, Doubled(value, quote)) /\ q = p + Len(Doubled(value, quote))
  /\ Undoubles(g, body, quote, p) /\ g[q] = [text |-> <<>>, next |-> e]

\* Then it has read the value.
LEMMA ValueUndoubled ==
  ASSUME NEW g, NEW body, NEW p, NEW value, NEW quote, NEW q, NEW e,
         DoubledAt(g, body, p, value, quote, q, e)
  PROVE  g[p] = [text |-> value, next |-> e]
<1>0. PICK d : d = Doubled(value, quote)
  OBVIOUS
<1>0a. /\ Len(body) \in Nat /\ p \in Nat /\ value \in Text /\ quote \in STRING
       /\ Stands(body, p, d) /\ q = p + Len(d)
       /\ Undoubles(g, body, quote, p) /\ g[q] = [text |-> <<>>, next |-> e]
  BY <1>0, Zenon DEF DoubledAt
<1> USE <1>0a
<1>1. PICK ss, n : ss = DoubledParts(value, quote) /\ n = Len(value)
  OBVIOUS
<1>2. n \in Nat /\ ss \in Seq(Seq(STRING)) /\ Len(ss) = n /\ d = FlattenSeq(ss)
  BY <1>0, <1>1, PartsAre DEF Text
<1>3. PICK c : PiecesAt(c, body, p, ss)
  <2>1. Stands(body, p, FlattenSeq(ss))
    BY <1>2, Zenon
  <2> QED BY <1>2, <2>1, Pieces
<1>4. /\ c[0] = p /\ c[n] = q
      /\ \A i \in 0 .. n : c[i] \in Nat /\ c[i] >= p
      /\ \A i \in 1 .. n : c[i] = c[i - 1] + Len(ss[i]) /\ Stands(body, c[i - 1], ss[i])
  BY <1>2, <1>3, Zenon DEF PiecesAt
<1>5. ASSUME NEW i \in 1 .. n, g[c[i]] = [text |-> Dropped(value, i), next |-> e]
      PROVE  g[c[i - 1]] = [text |-> Dropped(value, i - 1), next |-> e]
  <2>1. PICK h, x, y, t, z : h = i - 1 /\ x = c[h] /\ y = c[i] /\ t = ss[i] /\ z = value[i]
    OBVIOUS
  <2>2. h \in 0 .. n /\ i \in 0 .. n
    BY ONLY <1>2, <2>1, i \in 1 .. n
  <2>3. x \in Nat /\ x >= p /\ y = x + Len(t) /\ Stands(body, x, t) /\ y \in Nat
    BY <1>4, <2>1, <2>2
  <2>4. PICK m : m = Len(body)
    OBVIOUS
  <2>5. x + Len(t) <= m + 1 /\ \A j \in 1 .. Len(t) : body[x + j - 1] = t[j]
    BY <2>3, <2>4 DEF Stands
  <2>6. g[y] = [text |-> Dropped(value, i), next |-> e]
    BY <1>5, <2>1
  <2>7. PICK w : w = Dropped(value, i)
    OBVIOUS
  <2>8. <<z>> \o w = Dropped(value, h)
    BY <1>1, <2>1, <2>7, DroppedIs DEF Text
  <2>9. g[x] = Prepend(z, g[y])
    <3>1. CASE z = quote
      <4>1. t = <<quote, quote>>
        <5>1. i \in 1 .. Len(value) /\ value[i] = quote
          BY <1>1, <2>1, <3>1
        <5>2. DoubledParts(value, quote)[i]
                = IF value[i] = quote THEN <<quote, quote>> ELSE <<value[i]>>
          BY <5>1, PartIs
        <5>3. DoubledParts(value, quote)[i] = <<quote, quote>>
          BY <5>1, <5>2, Zenon
        <5> QED BY <1>1, <2>1, <5>3
      <4>2. Len(t) = 2 /\ t[1] = quote /\ t[2] = quote
        BY <4>1
      <4>3. x \in p .. m /\ x < m /\ y = x + 2
        BY ONLY <2>3, <2>4, <2>5, <4>2, Len(body) \in Nat, p \in Nat
      <4>4. 1 \in 1 .. Len(t) /\ 2 \in 1 .. Len(t) /\ x + 1 - 1 = x /\ x + 2 - 1 = x + 1
        BY ONLY <2>3, <4>2
      <4>5. body[x] = quote /\ body[x + 1] = quote
        BY <2>5, <4>2, <4>4
      <4> QED BY <2>4, <3>1, <4>3, <4>5 DEF Undoubles
    <3>2. CASE z # quote
      <4>1. t = <<z>>
        BY <1>1, <2>1, <3>2, PartIs
      <4>2. Len(t) = 1 /\ t[1] = z
        BY <4>1
      <4>3. x \in p .. m /\ y = x + 1
        BY ONLY <2>3, <2>4, <2>5, <4>2, Len(body) \in Nat, p \in Nat
      <4>4. 1 \in 1 .. Len(t) /\ x + 1 - 1 = x
        BY ONLY <2>3, <4>2
      <4>5. body[x] = z
        BY <2>5, <4>2, <4>4
      <4> QED BY <2>4, <3>2, <4>3, <4>5 DEF Undoubles
    <3> QED BY <3>1, <3>2
  <2>10. g[x] = [text |-> <<z>> \o w, next |-> e]
    BY <2>6, <2>7, <2>9, PrependIs
  <2> QED BY <2>1, <2>8, <2>10
<1>6. \A k \in 0 .. n :
        k \in {j \in Nat : g[c[n - j]] = [text |-> Dropped(value, n - j), next |-> e]}
  <2> DEFINE S == {j \in Nat : g[c[n - j]] = [text |-> Dropped(value, n - j), next |-> e]}
  <2>1. 0 \in S
    <3>1. n - 0 = n
      BY <1>2
    <3>2. Dropped(value, n) = <<>>
      BY <1>1, DroppedIs DEF Text
    <3> QED BY <1>4, <3>1, <3>2
  <2>2. ASSUME NEW k \in Nat, k < n, k \in S PROVE k + 1 \in S
    <3>1. PICK i : i = n - k
      OBVIOUS
    <3>2. i \in 1 .. n /\ n - (k + 1) = i - 1 /\ k + 1 \in Nat
      BY ONLY <1>2, <3>1, k \in Nat, k < n
    <3>3. g[c[i]] = [text |-> Dropped(value, i), next |-> e]
      BY <2>2, <3>1
    <3>4. g[c[i - 1]] = [text |-> Dropped(value, i - 1), next |-> e]
      BY <1>5, <3>2, <3>3
    <3> QED BY <3>2, <3>4
  <2>3. \A k \in 0 .. n : k \in S
    <3> HIDE DEF S
    <3> QED BY <1>2, <2>1, <2>2, Induct
  <2> QED BY <2>3
<1>7. g[c[0]] = [text |-> Dropped(value, 0), next |-> e]
  <2>1. n \in 0 .. n /\ n - n = 0
    BY <1>2
  <2> QED BY <1>6, <2>1
<1>8. Dropped(value, 0) = value
  BY DroppedIs DEF Text
<1> QED BY <1>4, <1>7, <1>8

\* It is a text again.
LEMMA DoubledType ==
  ASSUME NEW value \in Text, NEW quote \in STRING
  PROVE  Doubled(value, quote) \in Text
<1>1. PICK ss, n : ss = DoubledParts(value, quote) /\ n = Len(ss)
  OBVIOUS
<1>2. ss \in Seq(Seq(STRING)) /\ Doubled(value, quote) = FlattenSeq(ss)
  BY <1>1, PartsAre
<1>3. \E f : Joins(f, ss, n, STRING)
  BY <1>1, <1>2, FlatIs
<1>4. FlattenSeq(ss) \in Seq(STRING)
  BY <1>3, Zenon DEF Joins
<1> QED BY <1>2, <1>4, Zenon DEF Text

\* The sequence of one letter.
LEMMA OneIs ==
  ASSUME NEW P, NEW x \in P
  PROVE  <<x>> \in Seq(P) /\ Len(<<x>>) = 1 /\ <<x>>[1] = x
OBVIOUS

\* A text of no letters is empty.
LEMMA NoneIs ==
  ASSUME NEW s \in Text, Len(s) = 0
  PROVE  s = <<>>
BY DEF Text

\* One letter stands there.
LEMMA StandOne ==
  ASSUME NEW body, Len(body) \in Nat, NEW p \in Nat, NEW x, Stands(body, p, <<x>>)
  PROVE  p <= Len(body) /\ body[p] = x
<1>1. PICK s, n : s = <<x>> /\ n = Len(body)
  OBVIOUS
<1>2. Len(s) = 1 /\ s[1] = x
  BY <1>1
<1>3. p + 1 <= n + 1 /\ \A j \in 1 .. 1 : body[p + j - 1] = s[j]
  BY <1>1, <1>2 DEF Stands
<1>4. p <= n /\ p + 1 - 1 = p /\ 1 \in 1 .. 1
  BY ONLY <1>1, <1>3, p \in Nat, Len(body) \in Nat
<1>5. body[p] = s[1]
  BY <1>3, <1>4
<1> QED BY <1>1, <1>2, <1>4, <1>5

\* value stands at from in quotes, those in it doubled.
InQuotes(body, from, value, quote) ==
  /\ body \in Text /\ from \in Nat /\ value \in Text /\ quote \in STRING
  /\ Stands(body, from, <<quote>> \o Doubled(value, quote) \o <<quote>>)

\* The place behind the first quote, and that of the last.
LEMMA QuotedAt ==
  ASSUME NEW body, NEW from, NEW value, NEW quote, InQuotes(body, from, value, quote),
         NEW d, d = Doubled(value, quote)
  PROVE  /\ d \in Text /\ Len(d) \in Nat /\ from <= Len(body) /\ body[from] = quote
         /\ Stands(body, from + 1, d)
         /\ from + 1 + Len(d) <= Len(body) /\ body[from + 1 + Len(d)] = quote
         /\ Len(<<quote>> \o d \o <<quote>>) = Len(d) + 2
<1>0. /\ body \in Text /\ from \in Nat /\ value \in Text /\ quote \in STRING
      /\ Stands(body, from, <<quote>> \o d \o <<quote>>)
  BY Zenon DEF InQuotes
<1> USE <1>0
<1>1. PICK a, s, t, l, n, k : /\ a = <<quote>> /\ s = a \o d /\ t = s \o a /\ l = Len(d)
                              /\ n = Len(body) /\ k = from + 1
  OBVIOUS
<1>2. a \in Seq(STRING) /\ Len(a) = 1
  BY <1>1, OneIs
<1>3. d \in Seq(STRING) /\ l \in Nat /\ d \in Text
  <2>1. d \in Text
    BY DoubledType
  <2> QED BY <1>1, <2>1, TextIs
<1>4. s \in Seq(STRING) /\ Len(s) = 1 + l
  BY <1>1, <1>2, <1>3, ConcatProperties
<1>5. Len(t) = Len(s) + 1
  BY <1>1, <1>2, <1>4, ConcatProperties
<1>6. Stands(body, from, t) /\ n \in Nat /\ Len(body) \in Nat
  BY <1>1 DEF Text
<1>7. Stands(body, from, s) /\ Stands(body, from + Len(s), a)
  BY <1>1, <1>2, <1>4, <1>6, StandBoth
<1>8. Stands(body, from, a) /\ Stands(body, from + Len(a), d)
  BY <1>1, <1>2, <1>3, <1>6, <1>7, StandBoth
<1>9. from + Len(a) = k /\ from + Len(s) = k + l /\ k + l \in Nat /\ Len(t) = l + 2
  BY ONLY <1>1, <1>2, <1>3, <1>4, <1>5, from \in Nat
<1>10. Stands(body, k, d) /\ Stands(body, k + l, a)
  BY <1>7, <1>8, <1>9
<1>11. from <= n /\ body[from] = quote
  BY <1>1, <1>6, <1>8, StandOne
<1>12. k + l <= n /\ body[k + l] = quote
  BY <1>1, <1>6, <1>9, <1>10, StandOne
<1> QED BY <1>1, <1>3, <1>9, <1>10, <1>11, <1>12

\* value stands at from with its quotes doubled, and its last quote at k, before a comma
\* or the end.
ClosedAt(body, from, value, quote, k) ==
  /\ body \in Text /\ from \in Nat /\ from >= 1 /\ value \in Text /\ quote \in STRING
  /\ Stands(body, from, Doubled(value, quote)) /\ k \in Nat
  /\ k = from + Len(Doubled(value, quote)) /\ k <= Len(body) /\ body[k] = quote
  /\ k < Len(body) => body[k + 1] = ","

\* Then it ends there.
LEMMA SingleUndone ==
  ASSUME NEW body, NEW from, NEW value, NEW quote, NEW k, ClosedAt(body, from, value, quote, k),
         quote = "'"
  PROVE  SingleQuoted(body, from) = [text |-> value, next |-> k + 1]
<1>0. PICK d : d = Doubled(value, quote)
  OBVIOUS
<1>0a. /\ body \in Text /\ from \in Nat /\ from >= 1 /\ value \in Text /\ quote \in STRING
       /\ Stands(body, from, d) /\ k \in Nat
       /\ k = from + Len(d) /\ k <= Len(body) /\ body[k] = quote
       /\ k < Len(body) => body[k + 1] = ","
  BY <1>0, Zenon DEF ClosedAt
<1>0b. from \in Nat /\ from >= 1 /\ k \in Nat /\ k = from + Len(d) /\ k <= Len(body)
  BY <1>0a
<1> USE <1>0, <1>0a
<1>1. PICK n : n = Len(body)
  OBVIOUS
<1>2. n \in Nat /\ from <= n + 1 /\ Len(body) \in Nat /\ Len(d) \in Nat
  <2>1. d \in Text
    BY DoubledType
  <2>2. PICK l : l = Len(d)
    OBVIOUS
  <2>3. n \in Nat /\ l \in Nat
    BY <1>1, <2>1, <2>2, TextIs
  <2>4. k = from + l /\ k <= n
    BY <1>1, <2>2
  <2>5. from <= n + 1
    BY ONLY <2>3, <2>4, <1>0b
  <2> QED BY <1>1, <2>2, <2>3, <2>5
<1>3. PICK g : SingleRuns(g, body, from)
  BY <1>1, <1>2, SingleSolved
<1>4. SingleQuoted(body, from) = g[from] /\ \A p \in from .. n + 1 : g[p] = SingleStep(body, g, p)
  BY <1>1, <1>3 DEF SingleRuns
<1>5. Undoubles(g, body, quote, from)
  <2>1. ASSUME NEW p \in from .. n
        PROVE  /\ body[p] # quote => g[p] = Prepend(body[p], g[p + 1])
               /\ p < n /\ body[p] = quote /\ body[p + 1] = quote => g[p] = Prepend(quote, g[p + 2])
    <3>1. p \in from .. n + 1 /\ ~(p > n)
      BY ONLY <1>2, <1>0b, p \in from .. n
    <3>2. g[p] = SingleStep(body, g, p)
      BY <1>4, <3>1
    <3> QED BY <1>1, <3>1, <3>2 DEF SingleStep
  <2> QED BY <1>1, <2>1 DEF Undoubles
<1>6. g[k] = [text |-> <<>>, next |-> k + 1]
  <2>1. k \in from .. n + 1 /\ ~(k > n) /\ (k < n \/ k = n)
    BY ONLY <1>1, <1>2, <1>0b
  <2>2. g[k] = SingleStep(body, g, k)
    BY <1>4, <2>1
  <2> QED BY <1>1, <2>1, <2>2 DEF SingleStep
<1>7. g[from] = [text |-> value, next |-> k + 1]
  <2>1. PICK e : e = k + 1
    OBVIOUS
  <2>2. g[k] = [text |-> <<>>, next |-> e]
    BY <1>6, <2>1
  <2>3. DoubledAt(g, body, from, value, quote, k, e)
    BY <1>2, <1>5, <2>2 DEF DoubledAt
  <2>4. g[from] = [text |-> value, next |-> e]
    BY ONLY <2>3, ValueUndoubled
  <2> QED BY <2>1, <2>4
<1> QED BY <1>4, <1>7

\* And so it does in double quotes.
LEMMA DoubleUndone ==
  ASSUME NEW body, NEW from, NEW value, NEW quote, NEW k, ClosedAt(body, from, value, quote, k),
         quote = "\""
  PROVE  DoubleQuoted(body, from) = [text |-> value, next |-> k + 1]
<1>0. PICK d : d = Doubled(value, quote)
  OBVIOUS
<1>0a. /\ body \in Text /\ from \in Nat /\ from >= 1 /\ value \in Text /\ quote \in STRING
       /\ Stands(body, from, d) /\ k \in Nat
       /\ k = from + Len(d) /\ k <= Len(body) /\ body[k] = quote
       /\ k < Len(body) => body[k + 1] = ","
  BY <1>0, Zenon DEF ClosedAt
<1>0b. from \in Nat /\ from >= 1 /\ k \in Nat /\ k = from + Len(d) /\ k <= Len(body)
  BY <1>0a
<1> USE <1>0, <1>0a
<1>1. PICK n : n = Len(body)
  OBVIOUS
<1>2. n \in Nat /\ from <= n + 1 /\ Len(body) \in Nat /\ Len(d) \in Nat
  <2>1. d \in Text
    BY DoubledType
  <2>2. PICK l : l = Len(d)
    OBVIOUS
  <2>3. n \in Nat /\ l \in Nat
    BY <1>1, <2>1, <2>2, TextIs
  <2>4. k = from + l /\ k <= n
    BY <1>1, <2>2
  <2>5. from <= n + 1
    BY ONLY <2>3, <2>4, <1>0b
  <2> QED BY <1>1, <2>2, <2>3, <2>5
<1>3. PICK g : DoubleRuns(g, body, from)
  BY <1>1, <1>2, DoubleSolved
<1>4. DoubleQuoted(body, from) = g[from] /\ \A p \in from .. n + 1 : g[p] = DoubleStep(body, g, p)
  BY <1>1, <1>3 DEF DoubleRuns
<1>5. Undoubles(g, body, quote, from)
  <2>1. ASSUME NEW p \in from .. n
        PROVE  /\ body[p] # quote => g[p] = Prepend(body[p], g[p + 1])
               /\ p < n /\ body[p] = quote /\ body[p + 1] = quote => g[p] = Prepend(quote, g[p + 2])
    <3>1. p \in from .. n + 1 /\ ~(p > n)
      BY ONLY <1>2, <1>0b, p \in from .. n
    <3>2. g[p] = DoubleStep(body, g, p)
      BY <1>4, <3>1
    <3> QED BY <1>1, <3>1, <3>2 DEF DoubleStep
  <2> QED BY <1>1, <2>1 DEF Undoubles
<1>6. g[k] = [text |-> <<>>, next |-> k + 1]
  <2>1. k \in from .. n + 1 /\ ~(k > n) /\ (k < n \/ k = n)
    BY ONLY <1>1, <1>2, <1>0b
  <2>2. g[k] = DoubleStep(body, g, k)
    BY <1>4, <2>1
  <2> QED BY <1>1, <2>1, <2>2 DEF DoubleStep
<1>7. g[from] = [text |-> value, next |-> k + 1]
  <2>1. PICK e : e = k + 1
    OBVIOUS
  <2>2. g[k] = [text |-> <<>>, next |-> e]
    BY <1>6, <2>1
  <2>3. DoubledAt(g, body, from, value, quote, k, e)
    BY <1>2, <1>5, <2>2 DEF DoubledAt
  <2>4. g[from] = [text |-> value, next |-> e]
    BY ONLY <2>3, ValueUndoubled
  <2> QED BY <2>1, <2>4
<1> QED BY <1>4, <1>7

\* A letter that is not there has no place.
LEMMA IndexNone ==
  ASSUME NEW s \in Text, NEW c, NEW from \in Nat, from >= 1, \A i \in from .. Len(s) : s[i] # c
  PROVE  Index(s, c, from) = 0
<1>1. {i \in from .. Len(s) : s[i] = c} = {}
  OBVIOUS
<1> QED BY <1>1 DEF Index

\* A value without quotes ends before a comma.
LEMMA BareUndone ==
  ASSUME NEW body \in Text, NEW from \in Nat, from >= 1, NEW value \in Text,
         Stands(body, from, value), NEW e \in Nat, e = from + Len(value),
         \A j \in 1 .. Len(value) : value[j] # ",", e <= Len(body) => body[e] = ","
  PROVE  Bare(body, from) = [text |-> value, next |-> e]
<1>1. PICK n, l : n = Len(body) /\ l = Len(value)
  OBVIOUS
<1>2. n \in Nat /\ l \in Nat /\ e <= n + 1 /\ e = from + l
  <2>1. n \in Nat /\ l \in Nat
    BY <1>1, TextIs
  <2> QED BY <1>1, <2>1 DEF Stands
<1>3. \A j \in 1 .. l : body[from + j - 1] = value[j]
  BY <1>1 DEF Stands
<1>4. ASSUME NEW i \in from .. e - 1 PROVE body[i] # ","
  <2>1. PICK j : j = i - from + 1
    OBVIOUS
  <2>2. j \in 1 .. l /\ from + j - 1 = i
    BY ONLY <1>2, <2>1, from \in Nat, i \in from .. e - 1, e \in Nat
  <2> QED BY <1>1, <1>3, <2>2
<1>5. PICK comma : comma = Index(body, ",", from)
  OBVIOUS
<1>6. IF e <= n THEN comma = e ELSE comma = 0
  <2>1. CASE e <= n
    <3>1. e \in from .. n
      BY ONLY <1>2, <2>1, e \in Nat, from \in Nat
    <3>2. e \in from .. Len(body) /\ body[e] = ","
      BY <1>1, <2>1, <3>1
    <3>3. comma = e
      BY <1>4, <1>5, <3>2, IndexIs
    <3> QED BY <2>1, <3>3
  <2>2. CASE ~(e <= n)
    <3>1. \A i \in from .. n : i \in from .. e - 1
      BY ONLY <1>2, <2>2, e \in Nat, from \in Nat
    <3>2. comma = 0
      BY <1>1, <1>4, <1>5, <3>1, IndexNone
    <3> QED BY <2>2, <3>2
  <2> QED BY <2>1, <2>2
<1>7. (IF comma = 0 THEN n + 1 ELSE comma) = e
  <2>1. CASE e <= n
    <3>1. comma = e
      BY ONLY <1>6, <2>1
    <3>2. e # 0
      BY ONLY <1>2, from \in Nat, from >= 1
    <3> QED BY <3>1, <3>2
  <2>2. CASE ~(e <= n)
    <3>1. comma = 0
      BY <1>6, <2>2
    <3>2. e = n + 1
      BY ONLY <1>2, <2>2, e \in Nat
    <3> QED BY <3>1, <3>2
  <2> QED BY <2>1, <2>2
<1>8. SubSeq(body, from, e - 1) = value
  <2>1. PICK t, k : k = e - 1 /\ t = SubSeq(body, from, k)
    OBVIOUS
  <2>2. k \in Int /\ (IF from <= k THEN k - from + 1 ELSE 0) = l /\ k - from + 1 = l
        /\ \A x \in from .. k : x \in 1 .. n
    BY ONLY <1>2, <2>1, e \in Nat, from \in Nat, from >= 1
  <2>0. body \in Seq(STRING) /\ DOMAIN body = 1 .. n
    BY <1>1, TextIs
  <2>3. ASSUME NEW x \in from .. k PROVE body[x] \in STRING
    BY <2>0, <2>2, ElementsOf
  <2>4. t \in Seq(STRING) /\ Len(t) = l /\ \A j \in 1 .. l : t[j] = body[from + j - 1]
    <3>1. \A x \in from .. k : body[x] \in STRING
      BY <2>3
    <3>2. from \in Int /\ k \in Int
      BY ONLY <2>2, from \in Nat
    <3>3. /\ t \in Seq(STRING) /\ Len(t) = IF from <= k THEN k - from + 1 ELSE 0
          /\ \A j \in 1 .. k - from + 1 : t[j] = body[from + j - 1]
      BY ONLY <2>1, <3>1, <3>2, SubSeqProperties
    <3> QED BY ONLY <2>2, <3>3
  <2>5. value \in Seq(STRING) /\ Len(t) = Len(value) /\ \A j \in 1 .. Len(t) : t[j] = value[j]
    BY <1>1, <1>3, <2>4 DEF Text
  <2>6. t = value
    BY <2>4, <2>5, SeqSame
  <2> QED BY <2>1, <2>6
<1> QED BY <1>1, <1>5, <1>7, <1>8 DEF Bare

-----------------------------------------------------------------------------
\* A property's value stands at from, as 1C writes it, and e is behind it.
ShownAt(body, from, prop, e) ==
  /\ body \in Text /\ from \in Nat /\ from >= 1
  /\ prop.value \in Text /\ prop.quote \in STRING /\ WellWritten(prop)
  /\ Stands(body, from, Shown(prop)) /\ e \in Nat /\ e = from + Len(Shown(prop))
  /\ e <= Len(body) => body[e] = ","

\* Then it is read.
LEMMA ValueRead ==
  ASSUME NEW body, NEW from, NEW prop, NEW e, ShownAt(body, from, prop, e)
  PROVE  Value(body, from) = [text |-> prop.value, next |-> e]
<1>1. PICK value, quote, n, s : /\ value = prop.value /\ quote = prop.quote
                               /\ n = Len(body) /\ s = Shown(prop)
  OBVIOUS
<1>2. /\ body \in Text /\ from \in Nat /\ from >= 1 /\ value \in Text /\ quote \in STRING
      /\ Stands(body, from, s) /\ e \in Nat /\ e = from + Len(s)
      /\ e <= n => body[e] = ","
  BY <1>1, Zenon DEF ShownAt
<1>2a. from \in Nat /\ from >= 1 /\ e \in Nat
  BY <1>2
<1>3. n \in Nat /\ Len(body) \in Nat
  BY <1>1, <1>2, TextIs
<1>4. CASE quote = ""
  <2>1. s = value
    BY <1>1, <1>4 DEF Shown
  <2>2. /\ ToSet(value) \cap {",", "nl"} = {}
        /\ value # <<>> => value[1] \notin {"'", "\""}
    BY <1>1, <1>4 DEF ShownAt, WellWritten
  <2>3. PICK l : l = Len(value)
    OBVIOUS
  <2>4. l \in Nat /\ DOMAIN value = 1 .. l
    BY <1>2, <2>3, TextIs
  <2>5. \A j \in 1 .. l : value[j] # ","
    BY <2>2, <2>4 DEF ToSet
  <2>6. e = from + l
    BY <1>2, <2>1, <2>3
  <2>7. Bare(body, from) = [text |-> value, next |-> e]
    BY <1>1, <1>2, <2>1, <2>3, <2>5, <2>6, BareUndone
  <2>8. CASE from > n
    <3>1. from + l <= n + 1
      BY <1>1, <1>2, <2>1, <2>3 DEF Stands
    <3>2. l = 0
      BY ONLY <1>2a, <1>3, <2>4, <2>8, <3>1
    <3>3. value = <<>>
      BY <1>2, <2>3, <3>2, NoneIs
    <3>4. e = from
      BY ONLY <1>2a, <2>6, <3>2
    <3>5. Value(body, from) = [text |-> <<>>, next |-> from]
      BY <1>1, <2>8 DEF Value
    <3> QED BY <1>1, <3>3, <3>4, <3>5
  <2>9. CASE ~(from > n)
    <3>1. body[from] \notin {"'", "\""}
      <4>1. CASE l = 0
        <5>1. e = from /\ e <= n
          BY ONLY <1>2a, <1>3, <2>6, <2>9, <4>1
        <5> QED BY <1>2, <5>1
      <4>2. CASE l # 0
        <5>1. 1 \in 1 .. l /\ from + 1 - 1 = from
          BY ONLY <1>2a, <2>4, <4>2
        <5>2. body[from + 1 - 1] = value[1]
          BY <1>2, <2>1, <2>3, <5>1 DEF Stands
        <5>3. value # <<>>
          BY <2>3, <4>2
        <5> QED BY <2>2, <5>1, <5>2, <5>3
      <4> QED BY <4>1, <4>2
    <3>2. Value(body, from) = Bare(body, from)
      BY <1>1, <2>9, <3>1 DEF Value
    <3> QED BY <1>1, <2>7, <3>2
  <2> QED BY <2>8, <2>9
<1>5. CASE quote # ""
  <2>1. PICK d, l, k, f : d = Doubled(value, quote) /\ l = Len(d) /\ f = from + 1 /\ k = f + l
    OBVIOUS
  <2>2. s = <<quote>> \o d \o <<quote>>
    BY <1>1, <1>5, <2>1, Zenon DEF Shown
  <2>3. Stands(body, from, <<quote>> \o d \o <<quote>>)
    BY <1>2, <2>2
  <2>4. /\ l \in Nat /\ from <= n /\ body[from] = quote /\ Stands(body, f, d)
        /\ k <= n /\ body[k] = quote /\ Len(s) = l + 2
    <3>1. /\ d \in Text /\ Len(d) \in Nat /\ from <= Len(body) /\ body[from] = quote
          /\ Stands(body, from + 1, d)
          /\ from + 1 + Len(d) <= Len(body) /\ body[from + 1 + Len(d)] = quote
          /\ Len(<<quote>> \o d \o <<quote>>) = Len(d) + 2
      <4>1. InQuotes(body, from, value, quote)
        BY <1>2, <2>1, <2>3, Zenon DEF InQuotes
      <4> QED BY ONLY <2>1, <4>1, QuotedAt
    <3> QED BY ONLY <1>1, <2>1, <2>2, <3>1
  <2>5. f \in Nat /\ f >= 1 /\ k \in Nat /\ e = k + 1 /\ ~(from > n)
    <3>1. e = from + (l + 2)
      BY <1>2, <2>4
    <3> QED BY ONLY <1>2a, <1>3, <2>1, <2>4, <3>1
  <2>6. k < n => body[k + 1] = ","
    <3>1. k < n => e <= n
      BY ONLY <1>3, <2>5
    <3> QED BY <1>2, <2>5, <3>1
  <2>7. quote = "'" \/ quote = "\""
    BY <1>1, <1>5 DEF ShownAt, WellWritten
  <2>8. k = f + Len(d) /\ k <= Len(body) /\ (k < Len(body) => body[k + 1] = ",")
    BY ONLY <1>1, <2>1, <2>4, <2>6
  <2>8a. ClosedAt(body, f, value, quote, k)
    BY <1>2, <2>1, <2>4, <2>5, <2>8, Zenon DEF ClosedAt
  <2>9. CASE quote = "'"
    <3>1. SingleQuoted(body, f) = [text |-> value, next |-> k + 1]
      BY <2>8a, <2>9, SingleUndone
    <3>2. Value(body, from) = SingleQuoted(body, from + 1)
      BY <1>1, <2>4, <2>5, <2>9 DEF Value
    <3> QED BY <1>1, <2>1, <2>5, <3>1, <3>2
  <2>10. CASE quote = "\""
    <3>1. DoubleQuoted(body, f) = [text |-> value, next |-> k + 1]
      BY <2>8a, <2>10, DoubleUndone
    <3>2. Value(body, from) = DoubleQuoted(body, from + 1)
      BY <1>1, <2>4, <2>5, <2>10 DEF Value
    <3> QED BY <1>1, <2>1, <2>5, <3>1, <3>2
  <2> QED BY <2>7, <2>9, <2>10
<1> QED BY <1>4, <1>5

\* A sequence over Q is one over any P with the elements of Q in it.
LEMMA WiderSeq ==
  ASSUME NEW Q, NEW P, \A x \in Q : x \in P, NEW s \in Seq(Q)
  PROVE  s \in Seq(P)
<1>1. PICK n : n = Len(s)
  OBVIOUS
<1>2. n \in Nat /\ DOMAIN s = 1 .. n /\ s = [i \in 1 .. n |-> s[i]]
  BY <1>1
<1>3. \A i \in 1 .. n : s[i] \in P
  BY <1>1, <1>2
<1>4. s \in [1 .. n -> P]
  BY <1>2, <1>3
<1> QED BY <1>2, <1>4

\* The letters of texts, and those that stand between them.
Letters == STRING \cup {",", "="}

\* A text is a sequence of them.
LEMMA InLetters ==
  ASSUME NEW s \in Text
  PROVE  s \in Seq(Letters)
<1>1. \A x \in STRING : x \in Letters
  BY DEF Letters
<1>2. s \in Seq(STRING)
  BY TextIs
<1> QED BY <1>1, <1>2, WiderSeq

\* A value with its quotes around it is a text.
LEMMA ShownType ==
  ASSUME NEW prop, prop.value \in Text, prop.quote \in STRING
  PROVE  Shown(prop) \in Text
<1>1. PICK value, quote : value = prop.value /\ quote = prop.quote
  OBVIOUS
<1>2. value \in Text /\ quote \in STRING
  BY <1>1
<1>3. CASE quote = ""
  BY <1>1, <1>2, <1>3 DEF Shown
<1>4. CASE quote # ""
  <2>1. PICK d, a, s, t : d = Doubled(value, quote) /\ a = <<quote>> /\ s = a \o d /\ t = s \o a
    OBVIOUS
  <2>2. d \in Seq(STRING)
    <3>1. d \in Text
      BY <1>2, <2>1, DoubledType
    <3> QED BY <3>1, TextIs
  <2>3. a \in Seq(STRING)
    BY <1>2, <2>1, OneIs
  <2>4. s \in Seq(STRING)
    BY ONLY <2>1, <2>2, <2>3, ConcatProperties
  <2>5. t \in Seq(STRING)
    BY ONLY <2>1, <2>3, <2>4, ConcatProperties
  <2>6. Shown(prop) = t
    BY <1>1, <1>4, <2>1, Zenon DEF Shown
  <2> QED BY <2>5, <2>6, Zenon DEF Text
<1> QED BY <1>3, <1>4

\* What is written for one property.
Piece(prop) == <<",">> \o prop.name \o <<"=">> \o Shown(prop)

\* A property is of texts, and written well.
Properly(prop) ==
  prop.name \in Text /\ prop.value \in Text /\ prop.quote \in STRING /\ WellWritten(prop)

\* It stands at p.
PieceStands(body, p, prop) ==
  body \in Text /\ p \in Nat /\ p >= 1 /\ Properly(prop) /\ Stands(body, p, Piece(prop))

\* It is a sequence of letters.
LEMMA PieceType ==
  ASSUME NEW prop, prop.name \in Text, prop.value \in Text, prop.quote \in STRING
  PROVE  Piece(prop) \in Seq(Letters)
<1>1. PICK a, b, s, v, x, y, z : /\ a = <<",">> /\ b = <<"=">> /\ s = prop.name /\ v = Shown(prop)
                                 /\ x = a \o s /\ y = x \o b /\ z = y \o v
  OBVIOUS
<1>2. a \in Seq(Letters) /\ b \in Seq(Letters)
  <2>1. "," \in Letters /\ "=" \in Letters
    BY DEF Letters
  <2> QED BY <1>1, <2>1, OneIs
<1>3. s \in Seq(Letters)
  BY <1>1, InLetters
<1>4. v \in Seq(Letters)
  BY <1>1, ShownType, InLetters
<1>5. x \in Seq(Letters)
  BY ONLY <1>1, <1>2, <1>3, ConcatProperties
<1>6. y \in Seq(Letters)
  BY ONLY <1>1, <1>2, <1>5, ConcatProperties
<1>7. z \in Seq(Letters)
  BY ONLY <1>1, <1>4, <1>6, ConcatProperties
<1>8. Piece(prop) = z
  BY <1>1, Zenon DEF Piece
<1> QED BY <1>7, <1>8, Zenon

\* Where its parts stand: the name behind the comma, = at q, the value behind it.
Parts(body, p, prop, l, q, m) ==
  /\ l \in Nat /\ q \in Nat /\ q = p + 1 + l /\ q <= Len(body)
  /\ body[p] = "," /\ Stands(body, p + 1, prop.name) /\ body[q] = "="
  /\ Stands(body, q + 1, Shown(prop)) /\ m \in Nat /\ m = Len(Shown(prop))
  /\ p + Len(Piece(prop)) = q + 1 + m

\* There are such places for a property that stands at p.
LEMMA PieceAt ==
  ASSUME NEW body, NEW p, NEW prop, PieceStands(body, p, prop)
  PROVE  \E q, m : Parts(body, p, prop, Len(prop.name), q, m)
<1>0. PICK l, q, m : l = Len(prop.name) /\ q = p + 1 + l /\ m = Len(Shown(prop))
  OBVIOUS
<1>1. PICK a, b, s, v, x, y, z : /\ a = <<",">> /\ b = <<"=">> /\ s = prop.name /\ v = Shown(prop)
                                 /\ x = a \o s /\ y = x \o b /\ z = y \o v
  OBVIOUS
<1>2. /\ body \in Text /\ p \in Nat /\ p >= 1
      /\ s \in Text /\ prop.value \in Text /\ prop.quote \in STRING /\ WellWritten(prop)
      /\ Stands(body, p, z)
  BY <1>1, Zenon DEF PieceStands, Properly, Piece
<1>2a. Piece(prop) = z
  BY <1>1, Zenon DEF Piece
<1>3. a \in Seq(Letters) /\ b \in Seq(Letters) /\ Len(a) = 1 /\ Len(b) = 1
  <2>1. "," \in Letters /\ "=" \in Letters
    BY DEF Letters
  <2> QED BY <1>1, <2>1, OneIs
<1>4. s \in Seq(Letters) /\ Len(body) \in Nat /\ l \in Nat /\ Len(s) = l
  BY <1>0, <1>1, <1>2, InLetters, TextIs
<1>5. v \in Seq(Letters)
  BY <1>1, <1>2, ShownType, InLetters
<1>6. x \in Seq(Letters) /\ Len(x) = 1 + l
  <2>1. x \in Seq(Letters) /\ Len(x) = Len(a) + Len(s)
    BY ONLY <1>1, <1>3, <1>4, ConcatProperties
  <2> QED BY ONLY <1>3, <1>4, <2>1
<1>7. y \in Seq(Letters) /\ Len(y) = 1 + l + 1
  <2>1. y \in Seq(Letters) /\ Len(y) = Len(x) + Len(b)
    BY ONLY <1>1, <1>3, <1>6, ConcatProperties
  <2> QED BY ONLY <1>3, <1>6, <2>1
<1>8. Len(z) = Len(y) + Len(v) /\ Len(v) \in Nat
  <2>1. Len(v) \in Nat
    BY <1>5
  <2>2. Len(y \o v) = Len(y) + Len(v)
    BY ONLY <1>5, <1>7, ConcatProperties
  <2> QED BY <1>1, <2>1, <2>2
<1>9. Stands(body, p, y) /\ Stands(body, p + Len(y), v)
  BY ONLY <1>1, <1>2, <1>4, <1>5, <1>7, StandBoth
<1>10. Stands(body, p, x) /\ Stands(body, p + Len(x), b)
  BY ONLY <1>1, <1>2, <1>3, <1>4, <1>6, <1>9, StandBoth
<1>11. Stands(body, p, a) /\ Stands(body, p + Len(a), s)
  BY ONLY <1>1, <1>2, <1>3, <1>4, <1>10, StandBoth
<1>12. PICK f : f = q + 1
  OBVIOUS
<1>13. p + Len(a) = p + 1 /\ p + Len(x) = q /\ p + Len(y) = f /\ q \in Nat /\ f \in Nat /\ f >= 1
  <2>1. p \in Nat /\ q = p + 1 + l
    BY <1>0, <1>2
  <2> QED BY ONLY <1>3, <1>4, <1>6, <1>7, <1>12, <2>1
<1>14. Stands(body, p + 1, s) /\ Stands(body, q, b) /\ Stands(body, f, v)
  BY <1>9, <1>10, <1>11, <1>13
<1>15. body[p] = ","
  BY <1>1, <1>2, <1>4, <1>11, StandOne
<1>16. q <= Len(body) /\ body[q] = "="
  BY <1>1, <1>4, <1>13, <1>14, StandOne
<1>17. p + Len(z) = f + Len(v)
  <2>1. p \in Nat
    BY <1>2
  <2> QED BY ONLY <1>4, <1>7, <1>8, <1>13, <2>1
<1>18. Parts(body, p, prop, l, q, m)
  BY <1>0, <1>1, <1>2a, <1>4, <1>8, <1>12, <1>13, <1>14, <1>15, <1>16, <1>17, Zenon DEF Parts
<1> QED BY <1>0, <1>18

\* A property stands at p, and e is behind it, the end or a comma.
PropAt(body, p, prop, e) ==
  /\ PieceStands(body, p, prop) /\ e \in Nat /\ e = p + Len(Piece(prop))
  /\ e <= Len(body) => body[e] = ","

\* A step of ScanProps behind its comma reads it, and goes on behind the next comma.
LEMMA PropRead ==
  ASSUME NEW body, NEW p, NEW prop, NEW e, PropAt(body, p, prop, e), NEW g
  PROVE  PropsStep(body, g, p + 1) = <<[name |-> prop.name, value |-> prop.value]>>
                                     \o g[IF e <= Len(body) THEN e + 1 ELSE e]
<1>1. PICK l, n, s, f, v0 : /\ l = Len(prop.name) /\ n = Len(body) /\ s = prop.name
                            /\ f = p + 1 /\ v0 = Shown(prop)
  OBVIOUS
<1>1a. /\ PieceStands(body, p, prop) /\ e \in Nat /\ e = p + Len(Piece(prop))
       /\ (e <= n => body[e] = ",")
  BY <1>1, Zenon DEF PropAt
<1>1b. PICK q, m : Parts(body, p, prop, l, q, m)
  BY <1>1, <1>1a, PieceAt
<1>2. /\ l \in Nat /\ q \in Nat /\ q = f + l /\ q <= n
      /\ body[p] = "," /\ Stands(body, f, s) /\ body[q] = "="
      /\ Stands(body, q + 1, v0) /\ e = q + 1 + Len(v0)
  BY <1>1, <1>1a, <1>1b, Zenon DEF Parts
<1>2a. q \in Nat
  BY <1>2
<1>3. body \in Text /\ p \in Nat /\ s \in Text /\ WellWritten(prop) /\ Properly(prop)
  BY <1>1, <1>1a, Zenon DEF PieceStands, Properly
<1>3a. ShownAt(body, q + 1, prop, e)
  <2>1. q + 1 \in Nat /\ q + 1 >= 1
    BY ONLY <1>2a
  <2> QED BY <1>1, <1>1a, <1>2, <1>3, <2>1, Zenon DEF ShownAt, Properly
<1>4. n \in Nat /\ DOMAIN s = 1 .. l
  BY <1>1, <1>3, TextIs
<1>4a. /\ p \in Nat /\ e \in Nat /\ l \in Nat /\ n \in Nat /\ q \in Nat /\ f \in Nat
       /\ f = p + 1 /\ q = f + l /\ q <= n
  <2>1. p \in Nat /\ f = p + 1
    BY <1>1, <1>3
  <2>2. f \in Nat
    BY ONLY <2>1
  <2>3. q = f + l
    BY <1>2
  <2>4. l \in Nat /\ q \in Nat /\ q <= n /\ n \in Nat
    BY <1>2, <1>4
  <2>5. e \in Nat
    BY <1>1a
  <2> QED BY ONLY <2>1, <2>2, <2>3, <2>4, <2>5
<1>5. \A j \in 1 .. l : s[j] # "=" /\ body[f + j - 1] = s[j]
  <2>1. "=" \notin ToSet(s)
    BY <1>1, <1>3 DEF WellWritten
  <2> QED BY <1>1, <1>2, <1>4, <2>1 DEF ToSet, Stands
<1>6. Index(body, "=", f) = q
  <2>1. f \in Nat /\ f >= 1 /\ q \in f .. n
    BY ONLY <1>4a
  <2>2. ASSUME NEW i \in f .. q - 1 PROVE body[i] # "="
    <3>1. PICK j : j = i - f + 1
      OBVIOUS
    <3>2. j \in 1 .. l /\ f + j - 1 = i
      BY ONLY <1>4a, <2>1, <3>1, i \in f .. q - 1
    <3> QED BY <1>5, <3>2
  <2> QED BY <1>1, <1>2, <1>3, <2>1, <2>2, IndexIs
<1>7. SubSeq(body, f, q - 1) = s
  <2>1. PICK t, k : k = q - 1 /\ t = SubSeq(body, f, k)
    OBVIOUS
  <2>2. /\ f \in Int /\ k \in Int /\ (IF f <= k THEN k - f + 1 ELSE 0) = l /\ k - f + 1 = l
        /\ \A x \in f .. k : x \in 1 .. n
    BY ONLY <1>4a, <2>1
  <2>3. body \in Seq(STRING) /\ DOMAIN body = 1 .. n /\ s \in Seq(STRING)
    BY <1>1, <1>3, TextIs
  <2>4. ASSUME NEW x \in f .. k PROVE body[x] \in STRING
    BY <2>2, <2>3, ElementsOf
  <2>5. t \in Seq(STRING) /\ Len(t) = l /\ \A j \in 1 .. l : t[j] = body[f + j - 1]
    <3>1. \A x \in f .. k : body[x] \in STRING
      BY <2>4
    <3>2. /\ t \in Seq(STRING) /\ Len(t) = IF f <= k THEN k - f + 1 ELSE 0
          /\ \A j \in 1 .. k - f + 1 : t[j] = body[f + j - 1]
      BY ONLY <2>1, <2>2, <3>1, SubSeqProperties
    <3> QED BY ONLY <2>2, <3>2
  <2>6. Len(t) = Len(s) /\ \A j \in 1 .. Len(t) : t[j] = s[j]
    BY <1>1, <1>5, <2>5
  <2>7. t = s
    BY <2>3, <2>5, <2>6, SeqSame
  <2> QED BY <2>1, <2>7
<1>8. PICK v : v = Value(body, q + 1)
  OBVIOUS
<1>9. v.text = prop.value /\ v.next = e
  <2>1. v = [text |-> prop.value, next |-> e]
    BY <1>3a, <1>8, ValueRead
  <2> QED BY <2>1
<1>10. q # 0
  BY ONLY <1>4a
<1>11. PICK c : c = IF e <= n /\ body[e] = "," THEN 1 ELSE 0
  OBVIOUS
<1>12. e + c = IF e <= n THEN e + 1 ELSE e
  <2>1. CASE e <= n
    <3>1. c = 1
      BY <1>1a, <1>11, <2>1
    <3> QED BY <2>1, <3>1
  <2>2. CASE ~(e <= n)
    <3>1. c = 0
      BY <1>11, <2>2
    <3>2. e + c = e
      BY ONLY <1>4a, <3>1
    <3> QED BY <2>2, <3>2
  <2> QED BY <2>1, <2>2
<1>13. PropsStep(body, g, f) = <<[name |-> s, value |-> prop.value]>> \o g[e + c]
  <2>1. PropsStep(body, g, f) =
          <<[name |-> SubSeq(body, f, q - 1), value |-> v.text]>>
          \o g[v.next + IF v.next <= Len(body) /\ body[v.next] = "," THEN 1 ELSE 0]
    BY <1>6, <1>8, <1>10 DEF PropsStep
  <2> QED BY <1>1, <1>7, <1>9, <1>11, <2>1
<1> QED BY <1>1, <1>12, <1>13

PiecesOf(props) == [i \in DOMAIN props |-> Piece(props[i])]
Meant(props) == [i \in DOMAIN props |-> [name |-> props[i].name, value |-> props[i].value]]

\* They are what Written puts behind one another.
LEMMA PiecesOfAre ==
  ASSUME NEW U, NEW props \in Seq(U), \A i \in 1 .. Len(props) : Properly(props[i])
  PROVE  /\ PiecesOf(props) \in Seq(Seq(Letters)) /\ Len(PiecesOf(props)) = Len(props)
         /\ Len(props) \in Nat /\ Written(props) = FlattenSeq(PiecesOf(props))
         /\ \A i \in 1 .. Len(props) : PiecesOf(props)[i] = Piece(props[i])
<1>1. PICK n, ss : n = Len(props) /\ ss = PiecesOf(props)
  OBVIOUS
<1>2. n \in Nat /\ DOMAIN props = 1 .. n
  BY <1>1
<1>3. ss = [i \in 1 .. n |-> Piece(props[i])]
  BY <1>1, <1>2 DEF PiecesOf
<1>4. \A i \in 1 .. n : ss[i] = Piece(props[i]) /\ ss[i] \in Seq(Letters)
  <2>1. ASSUME NEW i \in 1 .. n PROVE ss[i] = Piece(props[i]) /\ ss[i] \in Seq(Letters)
    <3>1. PICK x : x = props[i]
      OBVIOUS
    <3>2. Piece(x) \in Seq(Letters)
      BY <1>1, <3>1, PieceType DEF Properly
    <3>3. ss[i] = Piece(x)
      BY <1>3, <3>1
    <3> QED BY <3>1, <3>2, <3>3
  <2> QED BY <2>1
<1>5. ss \in Seq(Seq(Letters)) /\ Len(ss) = n
  <2>1. PICK V : V = Seq(Letters)
    OBVIOUS
  <2>2. DOMAIN ss = 1 .. n
    BY <1>3
  <2>3. ss \in [1 .. n -> V]
    BY <1>3, <1>4, <2>1, <2>2
  <2>4. ss \in Seq(V) /\ Len(ss) = n
    BY <1>2, <2>3
  <2> QED BY <2>1, <2>4
<1>6. Written(props) = FlattenSeq(ss)
  BY <1>1, Zenon DEF Written, PiecesOf, Piece
<1> QED BY <1>1, <1>2, <1>4, <1>5, <1>6

\* The properties stand in body from p to its end.
WrittenAt(body, p, props) ==
  /\ body \in Text /\ p \in Nat /\ p >= 1
  /\ (\E U : props \in Seq(U)) /\ \A i \in 1 .. Len(props) : Properly(props[i])
  /\ Stands(body, p, Written(props)) /\ p + Len(Written(props)) = Len(body) + 1

\* Behind the comma at x, if there is one.
After(body, x) == IF x <= Len(body) THEN x + 1 ELSE x

\* Then ScanProps reads them all.
LEMMA WrittenRead ==
  ASSUME NEW body, NEW p, NEW props, WrittenAt(body, p, props)
  PROVE  ScanProps(body, After(body, p)) = Meant(props)
<1>1. PICK n, m, ss, pairs : /\ n = Len(props) /\ m = Len(body) /\ ss = PiecesOf(props)
                             /\ pairs = Meant(props)
  OBVIOUS
<1>2. /\ body \in Text /\ p \in Nat /\ p >= 1 /\ \A i \in 1 .. n : Properly(props[i])
      /\ m \in Nat /\ Len(body) \in Nat
  BY <1>1, TextIs DEF WrittenAt
<1>2a. p \in Nat /\ p >= 1 /\ m \in Nat
  BY <1>2
<1>3. PICK U : props \in Seq(U)
  BY DEF WrittenAt
<1>4. /\ ss \in Seq(Seq(Letters)) /\ Len(ss) = n /\ n \in Nat /\ Written(props) = FlattenSeq(ss)
      /\ \A i \in 1 .. n : ss[i] = Piece(props[i])
  BY <1>1, <1>2, <1>3, PiecesOfAre
<1>5. Stands(body, p, FlattenSeq(ss)) /\ p + Len(FlattenSeq(ss)) = m + 1
  BY <1>1, <1>4 DEF WrittenAt
<1>6. PICK c : PiecesAt(c, body, p, ss)
  BY <1>2, <1>4, <1>5, Pieces
<1>7. /\ c[0] = p /\ c[n] = m + 1
      /\ \A i \in 0 .. n : c[i] \in Nat /\ c[i] >= p
      /\ \A i \in 1 .. n : c[i] = c[i - 1] + Len(ss[i]) /\ Stands(body, c[i - 1], ss[i])
  BY <1>4, <1>5, <1>6, Zenon DEF PiecesAt
<1>8. ASSUME NEW i \in 1 .. n PROVE c[i - 1] <= m /\ body[c[i - 1]] = "," /\ i - 1 \in 0 .. n
  <2>1. PICK h, x, prop : h = i - 1 /\ x = c[h] /\ prop = props[i]
    OBVIOUS
  <2>2. h \in 0 .. n
    BY ONLY <1>4, <2>1, i \in 1 .. n
  <2>3. x \in Nat /\ x >= p /\ Stands(body, x, Piece(prop))
    BY <1>4, <1>7, <2>1, <2>2
  <2>4. Properly(prop)
    BY <1>2, <2>1
  <2>5. x <= Len(body) /\ body[x] = ","
    <3>1. x >= 1
      BY ONLY <1>2a, <2>3
    <3>2. PieceStands(body, x, prop)
      BY <1>2, <2>3, <2>4, <3>1 DEF PieceStands
    <3>3. PICK l, q, k : Parts(body, x, prop, l, q, k)
      BY <3>2, PieceAt
    <3>4. body[x] = ","
      BY <3>3 DEF Parts
    <3>5. x \in Nat /\ q \in Nat /\ l \in Nat /\ q = x + 1 + l /\ q <= m
      BY <1>1, <2>3, <3>3, Zenon DEF Parts
    <3>6. x <= m
      BY ONLY <1>2a, <3>5
    <3> QED BY <1>1, <3>4, <3>6
  <2> QED BY <1>1, <2>1, <2>2, <2>5
<1>9. ASSUME NEW i \in 0 .. n, c[i] <= m PROVE body[c[i]] = ","
  <2>1. i # n
    <3>1. ~(m + 1 <= m)
      BY <1>2
    <3> QED BY <1>7, <1>9, <3>1
  <2>2. PICK j : j = i + 1
    OBVIOUS
  <2>3. j \in 1 .. n /\ j - 1 = i
    BY ONLY <1>4, <2>1, <2>2, i \in 0 .. n
  <2> QED BY <1>8, <2>3
<1>10. ASSUME NEW i \in 1 .. n PROVE PropAt(body, c[i - 1], props[i], c[i])
  <2>1. PICK h, x, e, prop : h = i - 1 /\ x = c[h] /\ e = c[i] /\ prop = props[i]
    OBVIOUS
  <2>2. h \in 0 .. n /\ i \in 0 .. n
    BY ONLY <1>4, <2>1, i \in 1 .. n
  <2>3. x \in Nat /\ x >= p /\ e \in Nat /\ e = x + Len(Piece(prop)) /\ Stands(body, x, Piece(prop))
    BY <1>4, <1>7, <2>1, <2>2
  <2>4. x >= 1
    <3>1. p \in Nat /\ p >= 1 /\ x \in Nat /\ x >= p
      BY <1>2, <2>3
    <3> QED BY ONLY <3>1
  <2>5. Properly(prop) /\ (e <= m => body[e] = ",")
    BY <1>2, <1>9, <2>1, <2>2
  <2>6. PropAt(body, x, prop, e)
    BY <1>1, <1>2, <2>3, <2>4, <2>5, Zenon DEF PropAt, PieceStands
  <2> QED BY <2>1, <2>6
<1>11. PICK from : from = After(body, p)
  OBVIOUS
<1>12. p \in Nat /\ p >= 1 /\ p <= m + 1
  <2>1. n \in 0 .. n
    BY <1>4
  <2>2. m + 1 >= p
    BY <1>7, <2>1
  <2>3. p \in Nat /\ p >= 1
    BY <1>2
  <2> QED BY ONLY <1>2, <2>2, <2>3
<1>13. /\ from \in Nat /\ from >= 1 /\ from <= Len(body) + 1
       /\ (p <= m => from = p + 1) /\ (~(p <= m) => from = p)
  <2>1. (p <= m => from = p + 1) /\ (~(p <= m) => from = p)
    BY <1>1, <1>11 DEF After
  <2>2. from \in Nat /\ from >= 1 /\ from <= m + 1
    BY ONLY <1>2, <1>12, <2>1
  <2> QED BY <1>1, <2>1, <2>2
<1>14. PICK g : PropsRuns(g, body, from)
  BY <1>2, <1>13, PropsSolved
<1>15. ScanProps(body, from) = g[from] /\ \A x \in from .. m + 1 : g[x] = PropsStep(body, g, x)
  BY <1>1, <1>14, Zenon DEF PropsRuns
<1>16. pairs = [i \in 1 .. n |-> [name |-> props[i].name, value |-> props[i].value]]
  <2>1. DOMAIN props = 1 .. n
    BY <1>1, <1>3
  <2> QED BY <1>1, <2>1, Zenon DEF Meant
<1>17. Len(pairs) = n /\ \E V : pairs \in Seq(V)
  <2>1. PICK V : V = {pairs[i] : i \in 1 .. n}
    OBVIOUS
  <2>2. \A i \in 1 .. n : pairs[i] \in V
    BY <2>1
  <2>3. DOMAIN pairs = 1 .. n /\ pairs = [i \in 1 .. n |-> pairs[i]]
    BY <1>16
  <2>4. pairs \in [1 .. n -> V]
    BY <2>2, <2>3
  <2>5. pairs \in Seq(V) /\ Len(pairs) = n
    BY <1>4, <2>4
  <2> QED BY <2>5
<1>18. /\ Dropped(pairs, 0) = pairs /\ Dropped(pairs, n) = <<>>
       /\ \A i \in 1 .. n : <<pairs[i]>> \o Dropped(pairs, i) = Dropped(pairs, i - 1)
  BY <1>17, DroppedIs
<1>19. g[After(body, c[n])] = Dropped(pairs, n)
  <2>1. PICK x : x = m + 1
    OBVIOUS
  <2>2. x \in Nat /\ x >= 1 /\ ~(x <= m)
    BY ONLY <1>2, <2>1
  <2>3. After(body, c[n]) = x
    BY <1>1, <1>7, <2>1, <2>2 DEF After
  <2>4. x \in from .. m + 1
    <3>1. from <= m + 1 /\ from \in Nat
      BY <1>1, <1>13
    <3> QED BY ONLY <1>2, <2>1, <3>1
  <2>5. \A i \in x .. Len(body) : body[i] # "="
    <3>1. \A i \in x .. m : FALSE
      BY ONLY <1>2, <2>1
    <3> QED BY <1>1, <3>1
  <2>6. Index(body, "=", x) = 0
    BY <1>2, <2>2, <2>5, IndexNone
  <2>7. PropsStep(body, g, x) = <<>>
    BY <2>6 DEF PropsStep
  <2> QED BY <1>15, <1>18, <2>3, <2>4, <2>7
<1>20. ASSUME NEW i \in 1 .. n, g[After(body, c[i])] = Dropped(pairs, i)
       PROVE  g[After(body, c[i - 1])] = Dropped(pairs, i - 1)
  <2>1. PICK h, x, e, prop : h = i - 1 /\ x = c[h] /\ e = c[i] /\ prop = props[i]
    OBVIOUS
  <2>2. PropAt(body, x, prop, e)
    BY <1>10, <2>1
  <2>3. x <= m /\ h \in 0 .. n
    BY <1>8, <2>1
  <2>4. x \in Nat /\ x >= p
    BY <1>7, <2>1, <2>3
  <2>5. After(body, x) = x + 1
    BY <1>1, <2>3 DEF After
  <2>6. x + 1 \in from .. m + 1
    <3>1. from \in Nat /\ from = p + 1
      <4>1. p <= m
        BY ONLY <1>2, <1>12, <2>3, <2>4
      <4> QED BY <1>13, <4>1
    <3> QED BY ONLY <1>2, <1>12, <2>3, <2>4, <3>1
  <2>7. g[x + 1] = PropsStep(body, g, x + 1)
    BY <1>15, <2>6
  <2>8. PropsStep(body, g, x + 1)
          = <<[name |-> prop.name, value |-> prop.value]>> \o g[IF e <= Len(body) THEN e + 1 ELSE e]
    BY <2>2, PropRead
  <2>9. g[IF e <= Len(body) THEN e + 1 ELSE e] = Dropped(pairs, i)
    BY <1>20, <2>1, Zenon DEF After
  <2>10. pairs[i] = [name |-> prop.name, value |-> prop.value]
    BY <1>16, <2>1
  <2>11. g[x + 1] = <<pairs[i]>> \o Dropped(pairs, i)
    BY <2>7, <2>8, <2>9, <2>10
  <2> QED BY <1>18, <2>1, <2>5, <2>11
<1>21. \A k \in 0 .. n : g[After(body, c[n - k])] = Dropped(pairs, n - k)
  <2> DEFINE S == {k \in Nat : g[After(body, c[n - k])] = Dropped(pairs, n - k)}
  <2>1. 0 \in S
    <3>1. n - 0 = n
      BY <1>4
    <3> QED BY <1>19, <3>1
  <2>2. ASSUME NEW k \in Nat, k < n, k \in S PROVE k + 1 \in S
    <3>1. PICK i : i = n - k
      OBVIOUS
    <3>2. i \in 1 .. n /\ n - (k + 1) = i - 1 /\ k + 1 \in Nat
      BY ONLY <1>4, <3>1, k \in Nat, k < n
    <3>3. g[After(body, c[i])] = Dropped(pairs, i)
      BY <2>2, <3>1
    <3>4. g[After(body, c[i - 1])] = Dropped(pairs, i - 1)
      BY <1>20, <3>2, <3>3
    <3> QED BY <3>2, <3>4
  <2>3. \A k \in 0 .. n : k \in S
    <3> HIDE DEF S
    <3> QED BY <1>4, <2>1, <2>2, Induct
  <2> QED BY <2>3
<1>22. g[After(body, c[0])] = Dropped(pairs, 0)
  <2>1. n \in 0 .. n /\ n - n = 0
    BY <1>4
  <2> QED BY <1>21, <2>1
<1> QED BY <1>1, <1>7, <1>11, <1>15, <1>18, <1>22

\* The last letter of a property is not the end of a line.
LEMMA PieceEnds ==
  ASSUME NEW body, NEW p, NEW prop, PieceStands(body, p, prop),
         NEW e, e = p + Len(Piece(prop))
  PROVE  e - 1 \in Nat /\ body[e - 1] # "nl"
<1>1. PICK value, quote, s, n : /\ value = prop.value /\ quote = prop.quote
                               /\ s = Shown(prop) /\ n = Len(body)
  OBVIOUS
<1>2. PICK l, q, m : Parts(body, p, prop, l, q, m)
  BY PieceAt
<1>3. /\ q \in Nat /\ body[q] = "=" /\ Stands(body, q + 1, s) /\ m = Len(s)
      /\ e = q + 1 + m
  BY <1>1, <1>2, Zenon DEF Parts
<1>4. q \in Nat /\ m \in Nat /\ e = q + 1 + m
  BY <1>2, Zenon DEF Parts
<1>5. body \in Text /\ value \in Text /\ quote \in STRING /\ WellWritten(prop)
  BY <1>1, Zenon DEF PieceStands, Properly
<1>6. PICK f, k : f = q + 1 /\ k = e - 1
  OBVIOUS
<1>7. f \in Nat /\ f >= 1 /\ k \in Nat /\ k = q + m
  BY ONLY <1>4, <1>6
<1>8. CASE quote = ""
  <2>1. s = value
    BY <1>1, <1>8 DEF Shown
  <2>2. ToSet(value) \cap {",", "nl"} = {}
    BY <1>1, <1>8 DEF WellWritten, PieceStands, Properly
  <2>3. CASE m = 0
    <3>1. k = q
      BY ONLY <1>4, <1>7, <2>3
    <3> QED BY <1>3, <1>6, <1>7, <3>1
  <2>4. CASE m # 0
    <3>1. m \in 1 .. m /\ f + m - 1 = k
      BY ONLY <1>4, <1>6, <1>7, <2>4
    <3>2. body[f + m - 1] = s[m]
      BY <1>3, <1>6, <3>1 DEF Stands
    <3>3. DOMAIN value = 1 .. m
      BY <1>3, <1>5, <2>1, TextIs
    <3>4. value[m] # "nl"
      BY <2>2, <3>1, <3>3 DEF ToSet
    <3> QED BY <1>6, <1>7, <2>1, <3>1, <3>2, <3>4
  <2> QED BY <2>3, <2>4
<1>9. CASE quote # ""
  <2>1. PICK d : d = Doubled(value, quote)
    OBVIOUS
  <2>2. s = <<quote>> \o d \o <<quote>>
    BY <1>1, <1>9, <2>1, Zenon DEF Shown
  <2>3. InQuotes(body, f, value, quote)
    BY <1>3, <1>5, <1>6, <1>7, <2>1, <2>2, Zenon DEF InQuotes
  <2>4. /\ Len(d) \in Nat /\ body[f + 1 + Len(d)] = quote
        /\ Len(<<quote>> \o d \o <<quote>>) = Len(d) + 2
    BY ONLY <2>1, <2>3, QuotedAt
  <2>5. m = Len(d) + 2
    BY <1>3, <2>2, <2>4
  <2>6. f + 1 + Len(d) = k
    BY ONLY <1>4, <1>6, <1>7, <2>4, <2>5
  <2>7. body[k] = quote
    BY <2>4, <2>6
  <2>8. quote = "'" \/ quote = "\""
    BY <1>1, <1>9 DEF PieceStands, Properly, WellWritten
  <2> QED BY <1>6, <1>7, <2>7, <2>8
<1> QED BY <1>8, <1>9

\* So what is written begins with a comma and does not end with the end of a line.
LEMMA WrittenEnds ==
  ASSUME NEW body \in Text, NEW p \in Nat, p >= 1, NEW U, NEW props \in Seq(U),
         \A i \in 1 .. Len(props) : Properly(props[i]), Stands(body, p, Written(props)),
         NEW w, w = Len(Written(props))
  PROVE  /\ w \in Nat /\ Written(props) \in Seq(Letters)
         /\ w # 0 => body[p] = "," /\ body[p + w - 1] # "nl"
<1>1. PICK n, ss : n = Len(props) /\ ss = PiecesOf(props)
  OBVIOUS
<1>2. /\ ss \in Seq(Seq(Letters)) /\ Len(ss) = n /\ n \in Nat /\ Written(props) = FlattenSeq(ss)
      /\ \A i \in 1 .. n : ss[i] = Piece(props[i])
  BY <1>1, PiecesOfAre
<1>3. Len(body) \in Nat
  BY TextIs
<1>4. PICK c : PiecesAt(c, body, p, ss)
  <2>1. Stands(body, p, FlattenSeq(ss))
    BY <1>2
  <2> QED BY <1>2, <1>3, <2>1, Pieces
<1>5. /\ c[0] = p /\ c[n] = p + Len(FlattenSeq(ss))
      /\ \A i \in 0 .. n : c[i] \in Nat /\ c[i] >= p
      /\ \A i \in 1 .. n : c[i] = c[i - 1] + Len(ss[i]) /\ Stands(body, c[i - 1], ss[i])
  BY <1>2, <1>4, Zenon DEF PiecesAt
<1>6. Written(props) \in Seq(Letters) /\ w \in Nat
  <2>1. \E f : Joins(f, ss, n, Letters)
    BY <1>2, FlatIs
  <2>2. FlattenSeq(ss) \in Seq(Letters)
    BY <2>1, Zenon DEF Joins
  <2> QED BY <1>2, <2>2
<1>7. c[n] = p + w
  BY <1>2, <1>5
<1>8. w # 0 => n # 0
  <2>1. n = 0 => p = p + w
    BY <1>5, <1>7
  <2> QED BY ONLY <1>6, <2>1, p \in Nat
<1>9. ASSUME NEW i \in 1 .. n
      PROVE  PieceStands(body, c[i - 1], props[i]) /\ c[i] = c[i - 1] + Len(Piece(props[i]))
  <2>1. PICK h, x, prop : h = i - 1 /\ x = c[h] /\ prop = props[i]
    OBVIOUS
  <2>2. h \in 0 .. n
    BY ONLY <1>2, <2>1, i \in 1 .. n
  <2>3. x \in Nat /\ x >= p
    BY <1>5, <2>1, <2>2
  <2>4. Stands(body, x, Piece(prop)) /\ c[i] = x + Len(Piece(prop))
    BY <1>2, <1>5, <2>1
  <2>5. x >= 1
    BY ONLY <2>3, p \in Nat, p >= 1
  <2>6. Properly(prop)
    BY <1>1, <2>1
  <2>7. PieceStands(body, x, prop)
    BY <2>3, <2>4, <2>5, <2>6 DEF PieceStands
  <2> QED BY <2>1, <2>4, <2>7
<1>10. ASSUME w # 0 PROVE body[p] = ","
  <2>1. 1 \in 1 .. n /\ 1 - 1 = 0
    BY ONLY <1>2, <1>8, <1>10
  <2>2. PieceStands(body, p, props[1])
    BY <1>5, <1>9, <2>1
  <2>3. PICK l, q, k : Parts(body, p, props[1], l, q, k)
    BY <2>2, PieceAt
  <2> QED BY <2>3 DEF Parts
<1>11. ASSUME w # 0 PROVE body[p + w - 1] # "nl"
  <2>1. n \in 1 .. n
    BY ONLY <1>2, <1>8, <1>11
  <2>2. PICK x, prop, e : x = c[n - 1] /\ prop = props[n] /\ e = c[n]
    OBVIOUS
  <2>3. PieceStands(body, x, prop) /\ e = x + Len(Piece(prop))
    BY <1>9, <2>1, <2>2
  <2>4. body[e - 1] # "nl"
    BY <2>3, PieceEnds
  <2> QED BY <1>7, <2>2, <2>4
<1> QED BY <1>6, <1>10, <1>11

\* The ends of lines behind the place k, and only they, are cut off.
LEMMA TrimIs ==
  ASSUME NEW text \in Text, NEW k \in 1 .. Len(text), text[k] # "nl",
         \A i \in k + 1 .. Len(text) : text[i] = "nl", NEW body, body = Trim(text)
  PROVE  body \in Text /\ Len(body) = k /\ \A i \in 1 .. k : body[i] = text[i]
<1> DEFINE kept == {i \in DOMAIN text : text[i] # "nl"}
<1>1. PICK n : n = Len(text)
  OBVIOUS
<1>2. n \in Nat /\ DOMAIN text = 1 .. n /\ text \in Seq(STRING) /\ k \in Nat /\ k >= 1 /\ k <= n
  BY <1>1, TextIs
<1>3. kept \in SUBSET Nat /\ \A x \in kept : x <= n
  BY <1>2
<1>4. k \in kept
  BY <1>2
<1>5. \A x \in kept : ~(x > k)
  <2>1. \A x \in 1 .. n : x > k => x \in k + 1 .. n
    BY <1>2
  <2> QED BY <1>1, <1>2, <2>1
<1>6. Max(kept) \in kept /\ k <= Max(kept)
  <2> HIDE DEF kept
  <2> QED BY <1>2, <1>3, <1>4, MaxNat
<1>7. Max(kept) = k
  <2>1. PICK x : x = Max(kept)
    OBVIOUS
  <2>2. x \in Nat /\ k <= x /\ ~(x > k)
    <3> HIDE DEF kept
    <3> QED BY <1>3, <1>5, <1>6, <2>1
  <2>3. x = k
    BY ONLY <1>2, <2>2
  <2> HIDE DEF kept
  <2> QED BY <2>1, <2>3
<1>8. body = SubSeq(text, 1, k)
  <2>1. kept # {}
    BY <1>4
  <2>2. body = SubSeq(text, 1, IF kept = {} THEN 0 ELSE Max(kept))
    BY DEF Trim
  <2> HIDE DEF kept
  <2> QED BY <1>7, <2>1, <2>2
<1>9. body \in Seq(STRING) /\ Len(body) = k /\ \A i \in 1 .. k : body[i] = text[i]
  <2> HIDE DEF kept
  <2>1. \A i \in 1 .. k : i \in 1 .. n
    BY <1>2
  <2> QED BY <1>1, <1>2, <1>8, <2>1
<1> QED BY <1>9, Zenon DEF Text

\* The text of an event that is known: a header up to h with commas at a and b, what was
\* written for props, and ends of lines.
KnownText(text, props, written, h, a, b) ==
  /\ h \in 1 .. Len(text) - Len(written) /\ a \in 1 .. h /\ b \in 1 .. h /\ a < b
  /\ text[a] = "," /\ text[b] = ","
  /\ \A i \in 1 .. h : text[i] # "nl" /\ (text[i] = "," => i \in {a, b})
  /\ \A i \in DOMAIN written : text[h + i] = written[i]
  /\ \A i \in h + Len(written) + 1 .. Len(text) : text[i] = "nl"

\* KnownAreWritten, for one event.
LEMMA EventIsKnown ==
  ASSUME NEW e \in Texts, e.known
  PROVE  /\ e.text \in Text /\ (\E U : e.wrote \in Seq(U))
         /\ \A i \in 1 .. Len(e.wrote) : Properly(e.wrote[i])
         /\ \E h, a, b : KnownText(e.text, e.wrote, Written(e.wrote), h, a, b)
<1>1. PICK props, U : /\ props = e.wrote
                      /\ U = [name : Seq(STRING), value : Seq(STRING), quote : STRING]
  OBVIOUS
<1>2. e.text \in Text
  BY TextsAreEvents DEF Text
<1>3. props \in Seq(U) /\ \A i \in DOMAIN props : WellWritten(props[i])
  BY <1>1, KnownAreWritten, Zenon
<1>4. ASSUME NEW i \in 1 .. Len(props) PROVE Properly(props[i])
  <2>1. i \in DOMAIN props
    BY <1>3
  <2>2. props[i] \in U
    BY <1>3, <2>1, ElementsOf
  <2>3. props[i].name \in Text /\ props[i].value \in Text /\ props[i].quote \in STRING
    BY <1>1, <2>2 DEF Text
  <2> QED BY <1>3, <2>1, <2>3 DEF Properly
<1>5. LET w == Written(e.wrote) IN
      \E h \in 1 .. Len(e.text) - Len(w) :
         /\ \E a, b \in 1 .. h :
              /\ a < b /\ e.text[a] = "," /\ e.text[b] = ","
              /\ \A i \in 1 .. h : e.text[i] # "nl" /\ (e.text[i] = "," => i \in {a, b})
         /\ \A i \in DOMAIN w : e.text[h + i] = w[i]
         /\ \A i \in h + Len(w) + 1 .. Len(e.text) : e.text[i] = "nl"
  BY KnownAreWritten, Zenon
<1>6. \E h, a, b : KnownText(e.text, e.wrote, Written(e.wrote), h, a, b)
  BY <1>5, Zenon DEF KnownText
<1> QED BY <1>1, <1>2, <1>3, <1>4, <1>6

\* In such a text the properties are found behind the header, and read.
LEMMA KnownRead ==
  ASSUME NEW text \in Text, NEW U, NEW props \in Seq(U),
         \A i \in 1 .. Len(props) : Properly(props[i]),
         NEW h, NEW a, NEW b, KnownText(text, props, Written(props), h, a, b)
  PROVE  PropsOf(text) = Meant(props)
<1>1. PICK written, w, n : written = Written(props) /\ w = Len(written) /\ n = Len(text)
  OBVIOUS
<1>2. n \in Nat /\ DOMAIN text = 1 .. n
  BY <1>1, TextIs
<1>3. /\ h \in 1 .. n - w /\ a \in 1 .. h /\ b \in 1 .. h /\ a < b
      /\ text[a] = "," /\ text[b] = ","
      /\ \A i \in 1 .. h : text[i] # "nl" /\ (text[i] = "," => i \in {a, b})
      /\ \A i \in DOMAIN written : text[h + i] = written[i]
      /\ \A i \in h + w + 1 .. n : text[i] = "nl"
  BY <1>1, Zenon DEF KnownText
<1>4. w \in Nat /\ written \in Seq(Letters) /\ DOMAIN written = 1 .. w
  <2>1. PICK m, ss : m = Len(props) /\ ss = PiecesOf(props)
    OBVIOUS
  <2>2. ss \in Seq(Seq(Letters)) /\ Len(ss) = m /\ written = FlattenSeq(ss)
    BY <1>1, <2>1, PiecesOfAre
  <2>3. \E f : Joins(f, ss, m, Letters)
    BY <2>2, FlatIs
  <2>4. written \in Seq(Letters)
    BY <2>2, <2>3, Zenon DEF Joins
  <2> QED BY <1>1, <2>4
<1>5. h \in Nat /\ h >= 1 /\ a \in Nat /\ b \in Nat /\ h + w <= n /\ a >= 1 /\ a < b /\ b <= h
  <2>1. h \in 1 .. n - w /\ a \in 1 .. h /\ b \in 1 .. h /\ a < b
    BY <1>3
  <2> QED BY ONLY <1>2, <1>4, <2>1
<1>6. PICK p, k : p = h + 1 /\ k = h + w
  OBVIOUS
<1>7. p \in Nat /\ p >= 1 /\ k \in Nat /\ k >= 1 /\ k <= n /\ p + w = k + 1
  BY ONLY <1>4, <1>5, <1>6
<1>8. ASSUME NEW body, Len(body) \in Nat, k <= Len(body), \A i \in 1 .. k : body[i] = text[i]
      PROVE  Stands(body, p, written)
  <2>1. p + w <= Len(body) + 1
    BY ONLY <1>7, <1>8
  <2>2. ASSUME NEW j \in 1 .. w PROVE body[p + j - 1] = written[j]
    <3>1. PICK x : x = h + j
      OBVIOUS
    <3>2. x \in 1 .. k /\ p + j - 1 = x
      BY ONLY <1>4, <1>5, <1>6, <3>1, j \in 1 .. w
    <3>3. text[x] = written[j]
      BY <1>3, <1>4, <3>1
    <3> QED BY <1>8, <3>2, <3>3
  <2> QED BY <1>1, <2>1, <2>2 DEF Stands
<1>9. Stands(text, p, written)
  BY <1>1, <1>2, <1>7, <1>8
<1>10. w # 0 => text[p] = "," /\ text[p + w - 1] # "nl"
  BY <1>1, <1>7, <1>9, WrittenEnds
<1>11. text[k] # "nl"
  <2>1. CASE w = 0
    <3>1. k = h /\ h \in 1 .. h
      BY ONLY <1>5, <1>6, <2>1
    <3> QED BY <1>3, <3>1
  <2>2. CASE w # 0
    <3>1. p + w - 1 = k
      BY ONLY <1>4, <1>7
    <3> QED BY <1>10, <2>2, <3>1
  <2> QED BY <2>1, <2>2
<1>12. PICK body : body = Trim(text)
  OBVIOUS
<1>13. body \in Text /\ Len(body) = k /\ \A i \in 1 .. k : body[i] = text[i]
  <2>1. k \in 1 .. Len(text)
    BY <1>1, <1>2, <1>7
  <2>2. \A i \in k + 1 .. Len(text) : text[i] = "nl"
    BY <1>1, <1>3, <1>6
  <2> QED BY <1>11, <1>12, <2>1, <2>2, TrimIs
<1>14. Stands(body, p, written)
  <2>1. Len(body) \in Nat /\ k <= Len(body)
    BY <1>7, <1>13
  <2> QED BY <1>8, <1>13, <2>1
<1>15. WrittenAt(body, p, props)
  <2>1. p + Len(written) = Len(body) + 1
    BY <1>1, <1>7, <1>13
  <2>2. body \in Text /\ p \in Nat /\ p >= 1
    BY <1>7, <1>13
  <2> QED BY <1>1, <1>14, <2>1, <2>2 DEF WrittenAt
<1>16. ScanProps(body, After(body, p)) = Meant(props)
  BY <1>15, WrittenRead
<1>17. \A i \in 1 .. h : i \in 1 .. k /\ body[i] = text[i]
  <2>1. \A i \in 1 .. h : i \in 1 .. k
    BY ONLY <1>4, <1>5, <1>6
  <2> QED BY <1>13, <2>1
<1>18. PICK one : one = 1
  OBVIOUS
<1>19. Index(body, ",", one) = a
  <2>1. one \in Nat /\ one >= 1 /\ a \in one .. k /\ a \in 1 .. h
    BY ONLY <1>5, <1>4, <1>6, <1>18
  <2>2. ASSUME NEW i \in one .. a - 1 PROVE body[i] # ","
    <3>1. i \in 1 .. h /\ i # a /\ i # b
      BY ONLY <1>5, <1>18, i \in one .. a - 1
    <3> QED BY <1>3, <1>17, <3>1
  <2>3. body[a] = ","
    BY <1>3, <1>17, <2>1
  <2> QED BY <1>13, <2>1, <2>2, <2>3, IndexIs
<1>20. Index(body, ",", a + 1) = b
  <2>1. PICK x : x = a + 1
    OBVIOUS
  <2>2. x \in Nat /\ x >= 1 /\ b \in x .. k /\ b \in 1 .. h
    BY ONLY <1>5, <1>4, <1>6, <2>1
  <2>3. ASSUME NEW i \in x .. b - 1 PROVE body[i] # ","
    <3>1. i \in 1 .. h /\ i # a /\ i # b
      BY ONLY <1>5, <2>1, i \in x .. b - 1
    <3> QED BY <1>3, <1>17, <3>1
  <2>4. body[b] = ","
    BY <1>3, <1>17, <2>2
  <2>5. Index(body, ",", x) = b
    BY <1>13, <2>2, <2>3, <2>4, IndexIs
  <2> QED BY <2>1, <2>5
<1>21. PICK third : third = Index(body, ",", b + 1)
  OBVIOUS
<1>22. (IF third = 0 THEN Len(body) + 1 ELSE third + 1) = After(body, p)
  <2>1. PICK x : x = b + 1
    OBVIOUS
  <2>2. x \in Nat /\ x >= 1
    BY ONLY <1>5, <2>1
  <2>3. ASSUME NEW i \in x .. h PROVE body[i] # ","
    <3>1. i \in 1 .. h /\ i # a /\ i # b
      BY ONLY <1>5, <2>1, i \in x .. h
    <3> QED BY <1>3, <1>17, <3>1
  <2>4. CASE w = 0
    <3>1. k = h /\ ~(p <= k) /\ k + 1 = p
      BY ONLY <1>5, <1>6, <2>4
    <3>2. \A i \in x .. Len(body) : body[i] # ","
      BY <1>13, <2>3, <3>1
    <3>3. third = 0
      BY <1>13, <1>21, <2>1, <2>2, <3>2, IndexNone
    <3>4. After(body, p) = p
      BY <1>13, <3>1 DEF After
    <3> QED BY <1>13, <3>1, <3>3, <3>4
  <2>5. CASE w # 0
    <3>1. p <= k /\ p \in x .. k /\ p # 0 /\ p \in 1 .. k
      BY ONLY <1>4, <1>5, <1>6, <2>1, <2>5
    <3>2. body[p] = ","
      BY <1>10, <1>13, <2>5, <3>1
    <3>3. ASSUME NEW i \in x .. p - 1 PROVE body[i] # ","
      <4>1. i \in x .. h
        BY ONLY <1>5, <1>6, <2>2, i \in x .. p - 1
      <4> QED BY <2>3, <4>1
    <3>4. Index(body, ",", x) = p
      <4>1. p \in x .. Len(body)
        BY <1>13, <3>1
      <4> QED BY <1>13, <2>2, <3>2, <3>3, <4>1, IndexIs
    <3>5. third = p
      BY <1>21, <2>1, <3>4
    <3>6. After(body, p) = p + 1
      BY <1>13, <3>1 DEF After
    <3> QED BY <3>1, <3>5, <3>6
  <2> QED BY <2>4, <2>5
<1>23. PICK f : f = ParseEventFields(text)
  OBVIOUS
<1>24. f.body = body /\ f.propsAt = After(body, p)
  <2>1. Index(body, ",", 1) = a
    BY <1>18, <1>19, Zenon
  <2>2. /\ f.body = body
        /\ f.propsAt = LET t == Index(body, ",", Index(body, ",", Index(body, ",", 1) + 1) + 1)
                       IN IF t = 0 THEN Len(body) + 1 ELSE t + 1
    BY <1>12, <1>23 DEF ParseEventFields
  <2>3. f.propsAt = IF third = 0 THEN Len(body) + 1 ELSE third + 1
    BY <1>20, <1>21, <2>1, <2>2, Zenon
  <2> QED BY <1>22, <2>2, <2>3
<1>25. PropsOf(text) = ScanProps(f.body, f.propsAt)
  BY <1>23 DEF PropsOf
<1> QED BY <1>16, <1>24, <1>25

-----------------------------------------------------------------------------
\* The event is none, or one of Texts.
EventOfTexts == event = NoEvent \/ event \in Texts

\* Quoting is undone: QuotingUndone, for all texts that are written as KnownAreWritten
\* has it, the values of any length.
THEOREM QuotesUndone == RowsSpec => []QuotingUndone
<1>1. RowsInit => EventOfTexts
  BY DEF RowsInit, EventOfTexts
<1>2. EventOfTexts /\ [RowsNext]_rowVars => EventOfTexts'
  <2> SUFFICES ASSUME EventOfTexts, [RowsNext]_rowVars PROVE EventOfTexts'
    OBVIOUS
  <2> USE DEF EventOfTexts
  <2>1. CASE Encode
    BY <2>1 DEF Encode
  <2>2. CASE Build
    BY <2>2 DEF Build
  <2>3. CASE Replay
    BY <2>3 DEF Replay
  <2>4. CASE Done
    BY <2>4 DEF Done
  <2>5. CASE UNCHANGED rowVars
    BY <2>5 DEF rowVars
  <2> QED BY <2>1, <2>2, <2>3, <2>4, <2>5 DEF RowsNext
<1>3. EventOfTexts => QuotingUndone
  <2> SUFFICES ASSUME EventOfTexts, event.known
               PROVE  Properties = [i \in DOMAIN event.wrote |->
                                     [name |-> event.wrote[i].name, value |-> event.wrote[i].value]]
    BY DEF QuotingUndone
  <2>1. event \in Texts
    BY DEF EventOfTexts, NoEvent
  <2>2. PICK text, props : text = event.text /\ props = event.wrote
    OBVIOUS
  <2>3. /\ text \in Text /\ (\E U : props \in Seq(U))
        /\ \A i \in 1 .. Len(props) : Properly(props[i])
        /\ \E h, a, b : KnownText(text, props, Written(props), h, a, b)
    BY <2>1, <2>2, EventIsKnown
  <2>4. PICK h, a, b : KnownText(text, props, Written(props), h, a, b)
    BY <2>3
  <2>5. PropsOf(text) = Meant(props)
    BY <2>3, <2>4, KnownRead
  <2>6. Properties = PropsOf(text)
    BY <2>2, Zenon DEF Properties, PropsOf
  <2> QED BY <2>2, <2>5, <2>6, Zenon DEF Meant
<1> QED BY <1>1, <1>2, <1>3, PTL DEF RowsSpec
==============================================================================
