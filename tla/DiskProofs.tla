------------------------------ MODULE DiskProofs ------------------------------
(***************************************************************************)
(* Two parts that deal with files: what the reader's handle on the disk    *)
(* buffer is good for (WalHandle), and what checkpoints.json claims        *)
(* (Checkpoints).                                                          *)
(***************************************************************************)
EXTENDS WalHandle, Checkpoints, DataFacts

-----------------------------------------------------------------------------
(* The handle                                                              *)
(*                                                                         *)
(* What the race on it cannot do, for any number of segments and frames:   *)
(* the reader never takes a frame from the wrong segment.                  *)
(*                                                                         *)
(* This is not inductive by itself.  Handles ties the handle, open or not, *)
(* to rdSeq except between the two assignments of readFrame; Window ties   *)
(* the window to rdSeq; and the reader reads only where rdSeq is its own   *)
(* segment.                                                                *)

\* An open handle that rd refers to was opened for rdSeq, or is about to be.
Handles ==
  \A x \in open : x.h = rd => x.seg = IF reader = "seq" THEN readPos.seg ELSE rdSeq

Window == rbuf.upto > 0 => rbuf.seg = rdSeq

Reading == reader = "read" => rdSeq = readPos.seg

\* Under mu something is left to remove.
Reaping == reaper # "idle" => Doomed # {}

HInv == HandleTypes /\ Handles /\ Window /\ Reading /\ Reaping /\ RightSegment

-----------------------------------------------------------------------------
\* A position stays a position when it is normalised, and does not go back.
LEMMA NormalPosition ==
  ASSUME NEW p \in Position
  PROVE  Normal(p) \in Position /\ p.seg <= Normal(p).seg
BY SizesAssumption DEF Normal, Position

\* The handle a read uses has the segment of any open handle of that number.
LEMMA SegOfHandle ==
  ASSUME HandleTypes, Handles, reader = "read", IsOpen(rd)
  PROVE  SegOf(rd) = rdSeq /\ SegOf(rd) \in 1 .. Segments
<1>. DEFINE x == CHOOSE y \in open : y.h = rd
<1>1. x \in open /\ x.h = rd
  BY DEF IsOpen
<1>. HIDE DEF x
<1>2. x.seg = rdSeq /\ x.seg \in 1 .. Segments
  BY <1>1 DEF Handles, HandleTypes
<1>. QED
  BY <1>2 DEF SegOf, x

\* At first no file is open.
LEMMA OpensSound == HandleInit => HInv
BY SizesAssumption DEF HandleInit, HInv, HandleTypes, Handles, Window, Reading, Reaping, RightSegment,
  Position, Nothing

\* What the reader does keeps the invariant.
LEMMA ReaderKeeps == ASSUME HInv, Reader PROVE HInv'
<1>1. CASE ReadStarts
  BY <1>1 DEF ReadStarts, HInv, HandleTypes, Handles, Window, Reading, Reaping, Doomed, RightSegment
<1>2. CASE Check
  BY <1>2 DEF Check, MustOpen, HInv, HandleTypes, Handles, Window, Reading, Reaping, Doomed,
    RightSegment
<1>3. CASE CloseOld
  BY <1>3 DEF CloseOld, HInv, HandleTypes, Handles, Window, Reading, Reaping, Doomed, RightSegment
<1>4. CASE OpenNew
  <2>1. opened' \in Nat /\ rd' \in 0 .. opened' /\ readPos.seg \in 1 .. Segments
    BY <1>4 DEF OpenNew, HInv, HandleTypes, Position
  <2>2. open' \subseteq [h : 1 .. opened', seg : 1 .. Segments]
    BY <1>4, <2>1 DEF OpenNew, HInv, HandleTypes
  <2>3. HandleTypes'
    BY <1>4, <2>1, <2>2 DEF OpenNew, HInv, HandleTypes
  <2>4. Handles'
    <3>1. \A x \in open : x.h # rd'
      BY <1>4 DEF OpenNew, HInv, HandleTypes
    <3>. QED
      BY <1>4, <3>1 DEF OpenNew, Handles
  <2>. QED
    BY <1>4, <2>3, <2>4 DEF OpenNew, HInv, Window, Reading, Reaping, Doomed, RightSegment
<1>5. CASE SetSeq
  <2>1. rbuf' \in [seg : 0 .. Segments, upto : 0 .. Frames] /\ rdSeq' \in 0 .. Segments
    BY <1>5, SizesAssumption DEF SetSeq, Nothing, HInv, HandleTypes, Position
  <2>2. ~(rbuf'.upto > 0)
    BY <1>5 DEF SetSeq, Nothing
  <2>3. HandleTypes'
    BY <1>5, <2>1 DEF SetSeq, HInv, HandleTypes
  <2>. QED
    BY <1>5, <2>2, <2>3 DEF SetSeq, HInv, Handles, Window, Reading, Reaping, Doomed,
      RightSegment
<1>6. CASE Fill
  <2>1. SegOf(rd) = rdSeq /\ SegOf(rd) \in 1 .. Segments
    BY <1>6, SegOfHandle DEF Fill, HInv
  <2>2. PICK n \in (readPos.off + 1) .. Frames : rbuf' = [seg |-> SegOf(rd), upto |-> n]
    BY <1>6 DEF Fill
  <2>3. HandleTypes'
    BY <1>6, <2>1, <2>2, SizesAssumption DEF Fill, HInv, HandleTypes, Position
  <2>. QED
    BY <1>6, <2>1, <2>2, <2>3 DEF Fill, HInv, Handles, Window, Reading, Reaping, Doomed,
      RightSegment
<1>7. CASE FillFails
  BY <1>7 DEF FillFails, HInv, HandleTypes, Handles, Window, Reading, Reaping, Doomed, RightSegment
<1>8. CASE Deliver
  <2>1. readPos.off + 1 \in 0 .. Frames /\ rbuf.upto > 0
    <3>1. /\ readPos.off \in Nat /\ rbuf.upto \in Nat /\ rbuf.upto <= Frames
          /\ readPos.off < rbuf.upto
      BY <1>8, SizesAssumption DEF Deliver, Buffered, HInv, HandleTypes, Position
    <3>. QED
      BY <3>1, SizesAssumption
  <2>2. readPos' \in Position
    BY <1>8, <2>1, NormalPosition DEF Deliver, HInv, HandleTypes, Position
  <2>3. rbuf.seg = readPos.seg /\ got' = [from |-> rbuf.seg, for |-> readPos.seg]
    BY <1>8, <2>1 DEF Deliver, HInv, Window, Reading
  <2>4. readPos.seg \in 0 .. Segments
    BY DEF HInv, HandleTypes, Position
  <2>5. HandleTypes'
    BY <1>8, <2>2, <2>3, <2>4 DEF Deliver, HInv, HandleTypes
  <2>. QED
    BY <1>8, <2>3, <2>5 DEF Deliver, HInv, Handles, Window, Reading, Reaping, Doomed,
      RightSegment
<1>. QED
  BY <1>1, <1>2, <1>3, <1>4, <1>5, <1>6, <1>7, <1>8 DEF Reader

\* What the batcher does keeps the invariant.
LEMMA BatcherKeeps == ASSUME HInv, Batcher PROVE HInv'
<1>1. CASE Ack
  <2>1. PICK s \in 1 .. readPos.seg, n \in 0 .. Frames :
          /\ Before(cursor, [seg |-> s, off |-> n])
          /\ cursor' = Normal([seg |-> s, off |-> n])
    BY <1>1 DEF Ack
  <2>. DEFINE p == [seg |-> s, off |-> n]
  <2>2. p \in Position /\ cursor.seg <= p.seg
    <3>1. readPos.seg \in 1 .. Segments /\ cursor.seg \in 1 .. Segments
      BY DEF HInv, HandleTypes, Position
    <3>2. p \in Position
      BY <3>1, SizesAssumption DEF Position
    <3>. QED
      BY <2>1, <3>1, <3>2, SizesAssumption DEF Before
  <2>3. cursor' \in Position /\ cursor.seg <= cursor'.seg
    BY <2>1, <2>2, NormalPosition DEF HInv, HandleTypes, Position
  <2>4. HandleTypes'
    BY <1>1, <2>3 DEF Ack, HInv, HandleTypes, Position
  <2>. QED
    BY <1>1, <2>4 DEF Ack, HInv, Handles, Window, Reading, Reaping, Doomed, RightSegment
<1>2. CASE ReapChecks
  BY <1>2 DEF ReapChecks, HInv, HandleTypes, Handles, Window, Reading, Reaping, Doomed, RightSegment
<1>3. CASE ReapCloses
  BY <1>3 DEF ReapCloses, HInv, HandleTypes, Handles, Window, Reading, Reaping, Doomed, RightSegment
<1>4. CASE ReapClears
  BY <1>4 DEF ReapClears, HInv, HandleTypes, Handles, Window, Reading, Reaping, Doomed, RightSegment
<1>5. CASE ReapRemoves
  <2>1. Doomed \in SUBSET Nat /\ Doomed # {}
    <3>1. segs \subseteq 1 .. Segments /\ Doomed # {}
      BY <1>5 DEF ReapRemoves, HInv, HandleTypes, Reaping
    <3>2. \A x \in 1 .. Segments : x \in Nat
      BY SizesAssumption
    <3>3. Doomed \subseteq segs
      BY DEF Doomed
    <3>. QED
      BY <3>1, <3>2, <3>3
  <2>2. Min(Doomed) \in Doomed
    BY <2>1, MinNat
  <2>3. PICK s : s = Min(Doomed)
    OBVIOUS
  <2>4. s \in segs /\ s < cursor.seg
    BY <2>2, <2>3 DEF Doomed
  <2>5. \/ fatal' = "remove" /\ reaper' = "idle" /\ segs' = segs
        \/ /\ segs' = segs \ {s} /\ fatal' = fatal
           /\ reaper' = IF Doomed = {s} THEN "idle" ELSE "check"
    BY <1>5, <2>3 DEF ReapRemoves
  <2>6. HandleTypes'
    BY <1>5, <2>5 DEF ReapRemoves, HInv, HandleTypes
  <2>7. Reaping'
    BY <1>5, <2>1, <2>2, <2>3, <2>5 DEF ReapRemoves, Reaping, Doomed
  <2>. QED
    BY <1>5, <2>6, <2>7 DEF ReapRemoves, HInv, Handles, Window, Reading, RightSegment
<1>. QED
  BY <1>1, <1>2, <1>3, <1>4, <1>5 DEF Batcher

\* Every step keeps the invariant.
LEMMA HandleKeeps == HInv /\ [HandleNext]_handleVars => HInv'
<1>. SUFFICES ASSUME HInv, [HandleNext]_handleVars PROVE HInv'
  OBVIOUS
<1>1. CASE Collected
  BY <1>1 DEF Collected, HInv, HandleTypes, Handles, Window, Reading, Reaping, Doomed, RightSegment
<1>2. CASE UNCHANGED handleVars
  BY <1>2 DEF handleVars, HInv, HandleTypes, Handles, Window, Reading, Reaping, Doomed, RightSegment
<1>. QED
  BY <1>1, <1>2, ReaderKeeps, BatcherKeeps DEF HandleNext

\* Whatever the reaper does to the handle, a frame comes from the segment it was
\* asked for (wal.go, readFrame).
THEOREM ReadsRightSegment == HandleSpec => []RightSegment
<1>1. HInv => RightSegment
  BY DEF HInv
<1>. QED
  BY <1>1, OpensSound, HandleKeeps, PTL DEF HandleSpec

\* Every variable of the reader's handle keeps its type (wal.go, readFrame, reapLocked).
THEOREM HandleTyped == HandleSpec => []HandleTypes
<1>1. HInv => HandleTypes
  BY DEF HInv
<1>. QED
  BY <1>1, OpensSound, HandleKeeps, PTL DEF HandleSpec

-----------------------------------------------------------------------------
(* The checkpoints                                                         *)
(*                                                                         *)
(* The registry never records more than was confirmed, for any set of      *)
(* files, any number of events, crashes and failed saves: NeverAhead is an *)
(* invariant of Spec.                                                      *)
(*                                                                         *)
(* NeverAhead alone is not inductive: a record reaches checkpoints.json    *)
(* from a temporary file, that from a save, that from the registry, and    *)
(* that from the file the run started with.  Honest bounds each of these.  *)
(*                                                                         *)
(* The second part is CleanStopIsExact: in a stop the owner's save is      *)
(* alone, and EInv follows its records from the snapshot to the file.      *)

\* The records r claim nothing that was not confirmed.
Bounded(r) == \A f \in File : r[f] <= confirmed[f]

\* Every place records pass through is bounded.
Honest ==
  /\ Bounded(held) /\ Bounded(committed) /\ Bounded(loaded) /\ Bounded(base)
  /\ \A s \in Saver : Bounded(job[s].rec)
  /\ Bounded(tmp.rec) /\ Bounded(disk.rec)

CInv == TypeOK /\ Honest

-----------------------------------------------------------------------------
\* The records of a missing checkpoints.json are records.
LEMMA NoneIsRecords == None \in Offsets /\ \A f \in File : None[f] = 0
BY DEF None, Offsets

\* The first run starts from nothing.
LEMMA InitHolds == Init => CInv
<1>. SUFFICES ASSUME Init PROVE CInv
  OBVIOUS
<1>1. Resting \in Jobs /\ Resting.rec = None
  BY NoneIsRecords DEF Resting, Jobs, Pc
<1>2. NoTmp \in Tmps /\ NoTmp.rec = None
  BY NoneIsRecords DEF NoTmp, Tmps
<1>3. job \in [Saver -> Jobs] /\ \A s \in Saver : job[s].rec = None
  BY <1>1 DEF Init
<1>4. TypeOK
  BY <1>2, <1>3, NoneIsRecords, CheckpointBounds DEF Init, TypeOK
<1>5. Honest
  BY <1>2, <1>3, NoneIsRecords DEF Init, Honest, Bounded
<1>. QED
  BY <1>4, <1>5 DEF CInv

\* Going on with one save leaves the others alone.
LEMMA GoesOn ==
  ASSUME TypeOK, NEW s \in Saver, NEW pc \in Pc, NEW rec \in Offsets, Goes(s, pc, rec)
  PROVE  /\ job' \in [Saver -> Jobs]
         /\ \A t \in Saver : job'[t].rec = IF t = s THEN rec ELSE job[t].rec
<1>1. [pc |-> pc, rec |-> rec] \in Jobs
  BY DEF Jobs
<1>. QED
  BY <1>1 DEF Goes, TypeOK

\* A save that goes on with records of the registry, and changes nothing that
\* is claimed or confirmed, keeps the invariant.
LEMMA SaveGoesOn ==
  ASSUME CInv, NEW s \in Saver, NEW pc \in Pc, NEW rec \in Offsets, Goes(s, pc, rec),
         Bounded(rec), tmp' \in Tmps, Bounded(tmp'.rec), dirty' \in BOOLEAN, fails' \in Nat,
         UNCHANGED <<up, stopping, files, disk, confirmed, base, clean, downs>>
  PROVE  CInv'
<1>1. /\ job' \in [Saver -> Jobs]
      /\ \A t \in Saver : job'[t].rec = IF t = s THEN rec ELSE job[t].rec
  BY GoesOn DEF CInv
<1>2. TypeOK'
  BY <1>1 DEF CInv, TypeOK, files
<1>3. Honest'
  BY <1>1 DEF CInv, Honest, Bounded, files
<1>. QED
  BY <1>2, <1>3 DEF CInv

-----------------------------------------------------------------------------
\* The steps of a save that leave checkpoints.json alone.
LEMMA SaveKeeps ==
  ASSUME CInv, NEW s \in Saver,
         \/ Swap(s) \/ Snapshot(s) \/ Leftovers(s) \/ OpenTmp(s) \/ WriteTmp(s)
         \/ RenameFails(s) \/ SaveFails(s)
  PROVE  CInv'
<1>1. job[s] \in Jobs /\ Bounded(job[s].rec) /\ tmp \in Tmps /\ Bounded(tmp.rec)
  BY DEF CInv, TypeOK, Honest
<1>2. job[s].rec \in Offsets
  BY <1>1 DEF Jobs
<1>3. None \in Offsets /\ Bounded(None)
  BY NoneIsRecords DEF CInv, TypeOK, Bounded, Offsets
<1>4. dirty \in BOOLEAN /\ fails \in Nat
  BY DEF CInv, TypeOK
<1>5. [st |-> "mixed", rec |-> None] \in Tmps /\ [st |-> "empty", rec |-> None] \in Tmps
  BY <1>3 DEF Tmps
<1>6. CASE Swap(s)
  <2>. DEFINE pc == IF dirty THEN "snapshot" ELSE "idle"
  <2>1. pc \in Pc /\ Goes(s, pc, None)
    BY <1>6 DEF Swap, Pc
  <2>. HIDE DEF pc
  <2>. QED
    BY <1>1, <1>3, <1>4, <1>6, <2>1, SaveGoesOn DEF Swap
<1>7. CASE Snapshot(s)
  <2>. DEFINE rec == [f \in File |-> IF Claimed(f) THEN committed[f] ELSE 0]
  <2>1. rec \in Offsets /\ Bounded(rec)
    BY DEF CInv, TypeOK, Honest, Bounded, Offsets
  <2>2. "leftovers" \in Pc /\ Goes(s, "leftovers", rec)
    BY <1>7 DEF Snapshot, Pc
  <2>. HIDE DEF rec
  <2>. QED
    BY <1>1, <1>4, <1>7, <2>1, <2>2, SaveGoesOn DEF Snapshot
<1>8. CASE Leftovers(s)
  <2>. DEFINE rec == [f \in File |-> IF loaded[f] # 0 THEN loaded[f] ELSE job[s].rec[f]]
  <2>1. rec \in Offsets /\ Bounded(rec)
    BY <1>1, <1>2 DEF CInv, TypeOK, Honest, Bounded, Offsets
  <2>2. "open" \in Pc /\ Goes(s, "open", rec)
    BY <1>8 DEF Leftovers, Pc
  <2>. HIDE DEF rec
  <2>. QED
    BY <1>1, <1>4, <1>8, <2>1, <2>2, SaveGoesOn DEF Leftovers
<1>9. CASE OpenTmp(s)
  <2>1. "write" \in Pc /\ Goes(s, "write", job[s].rec)
    BY <1>9 DEF OpenTmp, Pc
  <2>2. tmp' \in Tmps /\ Bounded(tmp'.rec)
    BY <1>3, <1>5, <1>9 DEF OpenTmp
  <2>. QED
    BY <1>1, <1>2, <1>4, <1>9, <2>1, <2>2, SaveGoesOn DEF OpenTmp
<1>10. CASE WriteTmp(s)
  <2>1. "rename" \in Pc /\ Goes(s, "rename", job[s].rec)
    BY <1>10 DEF WriteTmp, Pc
  <2>2. [st |-> "full", rec |-> job[s].rec] \in Tmps
    BY <1>2 DEF Tmps
  <2>3. tmp' \in Tmps /\ Bounded(tmp'.rec)
    BY <1>1, <1>3, <1>5, <1>10, <2>2 DEF WriteTmp
  <2>. QED
    BY <1>1, <1>2, <1>4, <1>10, <2>1, <2>3, SaveGoesOn DEF WriteTmp
<1>. DEFINE end == IF s = "owner" THEN "failed" ELSE "idle"
<1>11. end \in Pc
  BY DEF Pc
<1>12. CASE RenameFails(s)
  <2>1. Goes(s, end, None) /\ dirty' \in BOOLEAN
    BY <1>4, <1>12 DEF RenameFails, Failed
  <2>. HIDE DEF end
  <2>. QED
    BY <1>1, <1>3, <1>4, <1>11, <1>12, <2>1, SaveGoesOn DEF RenameFails
<1>13. CASE SaveFails(s)
  <2>1. Goes(s, end, None) /\ dirty' \in BOOLEAN /\ fails' \in Nat
    BY <1>4, <1>13 DEF SaveFails, Failed
  <2>2. tmp' \in Tmps /\ Bounded(tmp'.rec)
    BY <1>1, <1>3, <1>5, <1>13 DEF SaveFails
  <2>. HIDE DEF end
  <2>. QED
    BY <1>1, <1>3, <1>4, <1>11, <1>13, <2>1, <2>2, SaveGoesOn DEF SaveFails
<1>. QED
  BY <1>6, <1>7, <1>8, <1>9, <1>10, <1>12, <1>13

\* What is moved into place is what was written.
LEMMA RenameKeeps == ASSUME CInv, NEW s \in Saver, Rename(s) PROVE CInv'
<1>. DEFINE end == IF s = "owner" THEN "saved" ELSE "idle"
<1>1. Goes(s, end, None) /\ end \in Pc /\ None \in Offsets
  BY NoneIsRecords DEF Rename, Pc
<1>. HIDE DEF end
<1>2. /\ job' \in [Saver -> Jobs]
      /\ \A t \in Saver : job'[t].rec = IF t = s THEN None ELSE job[t].rec
  BY <1>1, GoesOn DEF CInv
<1>3. tmp' \in Tmps /\ tmp'.rec = None
  BY <1>1 DEF Rename, NoTmp, Tmps
<1>4. tmp.rec \in Offsets /\ Bounded(tmp.rec)
  BY DEF CInv, TypeOK, Honest, Tmps
<1>5. disk' \in [ok : BOOLEAN, rec : Offsets] /\ disk'.rec = tmp.rec
  BY <1>4 DEF Rename
<1>6. TypeOK'
  BY <1>2, <1>3, <1>5 DEF CInv, TypeOK, Rename, files
<1>7. Honest'
  BY <1>2, <1>3, <1>4, <1>5, NoneIsRecords DEF CInv, TypeOK, Offsets, Honest, Bounded, Rename, files
<1>. QED
  BY <1>6, <1>7 DEF CInv

-----------------------------------------------------------------------------
\* A worker claims with a record of the last run, or without one.
LEMMA ClaimKeeps ==
  ASSUME CInv, NEW f \in File, Take(f) \/ Bind(f) \/ Ready(f) PROVE CInv'
<1>1. CASE Take(f)
  <2>1. TypeOK'
    BY <1>1 DEF CInv, TypeOK, Take, Offsets
  <2>2. Honest'
    BY <1>1 DEF CInv, TypeOK, Honest, Bounded, Take, Offsets
  <2>. QED
    BY <2>1, <2>2 DEF CInv
<1>2. CASE Bind(f)
  <2>1. TypeOK'
    BY <1>2 DEF CInv, TypeOK, Bind, Offsets
  <2>2. Honest'
    BY <1>2 DEF CInv, TypeOK, Honest, Bounded, Bind, Offsets
  <2>. QED
    BY <2>1, <2>2 DEF CInv
<1>3. CASE Ready(f)
  <2>1. TypeOK'
    BY <1>3 DEF CInv, TypeOK, Ready
  <2>2. Honest'
    BY <1>3 DEF CInv, Honest, Bounded, Ready
  <2>. QED
    BY <2>1, <2>2 DEF CInv
<1>. QED
  BY <1>1, <1>2, <1>3

\* A confirmation raises the bound no less than the acknowledgement that follows it.
LEMMA ConfirmKeeps == ASSUME CInv, NEW F \in SUBSET File, Confirm(F) PROVE CInv'
<1>. DEFINE ends == [f \in File |-> IF f \in F THEN committed[f] + 1 ELSE 0]
<1>1. ends \in Offsets
  BY DEF CInv, TypeOK, Offsets
<1>2. /\ confirmed' = [f \in File |-> IF ends[f] > confirmed[f] THEN ends[f] ELSE confirmed[f]]
      /\ Goes("acker", "ack", ends)
  BY DEF Confirm
<1>. HIDE DEF ends
<1>3. "acker" \in Saver /\ "ack" \in Pc
  BY DEF Saver, Pc
<1>4. /\ job' \in [Saver -> Jobs]
      /\ \A t \in Saver : job'[t].rec = IF t = "acker" THEN ends ELSE job[t].rec
  BY <1>1, <1>2, <1>3, GoesOn DEF CInv
<1>5. /\ confirmed' \in Offsets
      /\ \A f \in File : ends[f] <= confirmed'[f] /\ confirmed[f] <= confirmed'[f]
  BY <1>1, <1>2 DEF CInv, TypeOK, Offsets
<1>6. TypeOK'
  BY <1>4, <1>5 DEF CInv, TypeOK, Confirm, files
<1>7. ASSUME NEW r \in Offsets, Bounded(r) PROVE \A f \in File : r[f] <= confirmed'[f]
  BY <1>5, <1>7 DEF Bounded, CInv, TypeOK, Offsets
<1>8. \A t \in Saver : job[t].rec \in Offsets /\ tmp.rec \in Offsets /\ disk.rec \in Offsets
  BY DEF CInv, TypeOK, Jobs, Tmps
<1>9. Honest'
  <2>1. Bounded(held)' /\ Bounded(committed)' /\ Bounded(loaded)' /\ Bounded(base)'
    BY <1>7 DEF CInv, TypeOK, Honest, Bounded, Confirm, files
  <2>2. Bounded(tmp.rec)' /\ Bounded(disk.rec)'
    BY <1>3, <1>7, <1>8 DEF CInv, Honest, Bounded, Confirm
  <2>3. \A t \in Saver : Bounded(job[t].rec)'
    BY <1>4, <1>5, <1>7, <1>8 DEF CInv, Honest, Bounded
  <2>. QED
    BY <2>1, <2>2, <2>3 DEF Honest
<1>. QED
  BY <1>6, <1>9 DEF CInv

\* An acknowledgement moves committed offsets up to what was confirmed.
LEMMA CommitKeeps == ASSUME CInv, Commit PROVE CInv'
<1>. DEFINE ends == job["acker"].rec
<1>1. "acker" \in Saver /\ "swap" \in Pc
  BY DEF Saver, Pc
<1>2. ends \in Offsets /\ Bounded(ends) /\ None \in Offsets
  BY <1>1, NoneIsRecords DEF CInv, TypeOK, Honest, Jobs
<1>3. committed' = [f \in File |-> IF ends[f] > committed[f] THEN ends[f] ELSE committed[f]]
  BY DEF Commit
<1>4. committed' \in Offsets /\ \A f \in File : committed'[f] <= confirmed[f]
  BY <1>2, <1>3 DEF CInv, TypeOK, Honest, Bounded, Offsets
<1>5. Goes("acker", "swap", None)
  BY DEF Commit
<1>6. /\ job' \in [Saver -> Jobs]
      /\ \A t \in Saver : job'[t].rec = IF t = "acker" THEN None ELSE job[t].rec
  BY <1>1, <1>2, <1>5, GoesOn DEF CInv
<1>7. TypeOK'
  BY <1>4, <1>6 DEF CInv, TypeOK, Commit
<1>8. Honest'
  BY <1>4, <1>6, NoneIsRecords DEF CInv, TypeOK, Offsets, Honest, Bounded, Commit
<1>. QED
  BY <1>7, <1>8 DEF CInv

-----------------------------------------------------------------------------
\* A tick and the final save only start a save.
LEMMA BeginKeeps == ASSUME CInv, Tick \/ FinalSave PROVE CInv'
<1>1. {"saver", "owner"} \subseteq Saver /\ {"swap", "snapshot"} \subseteq Pc
  BY DEF Saver, Pc
<1>2. None \in Offsets /\ Bounded(None) /\ tmp \in Tmps /\ Bounded(tmp.rec)
  BY NoneIsRecords DEF CInv, TypeOK, Honest, Bounded, Offsets
<1>3. CASE Tick
  BY <1>1, <1>2, <1>3, SaveGoesOn DEF Tick, CInv, TypeOK
<1>4. CASE FinalSave
  BY <1>1, <1>2, <1>4, SaveGoesOn DEF FinalSave, CInv, TypeOK
<1>. QED
  BY <1>3, <1>4

\* The beginning of the stop only closes doors.
LEMMA StopKeeps == ASSUME CInv, Stop PROVE CInv'
<1>1. TypeOK'
  BY DEF CInv, TypeOK, Stop, files
<1>2. Honest'
  BY DEF CInv, Honest, Bounded, Stop, files
<1>. QED
  BY <1>1, <1>2 DEF CInv

\* What is in memory goes with the process; what is on disk stays or is lost.
LEMMA DownKeeps == ASSUME CInv, Exit \/ Crash PROVE CInv'
<1>1. Resting \in Jobs /\ Resting.rec = None /\ None \in Offsets
  BY NoneIsRecords DEF Resting, Jobs, Pc
<1>2. Dies /\ UNCHANGED <<files, tmp, confirmed, base, fails>> /\ clean' \in BOOLEAN
  BY DEF Exit, Crash
<1>3. job' \in [Saver -> Jobs] /\ \A t \in Saver : job'[t].rec = None
  BY <1>1, <1>2 DEF Dies
<1>4. disk' = disk \/ disk' = [ok |-> FALSE, rec |-> None]
  BY DEF Exit, Crash
<1>5. disk' \in [ok : BOOLEAN, rec : Offsets] /\ (disk'.rec = disk.rec \/ disk'.rec = None)
  <2>1. disk \in [ok : BOOLEAN, rec : Offsets]
    BY DEF CInv, TypeOK
  <2>2. FALSE \in BOOLEAN
    OBVIOUS
  <2>3. CASE disk' = disk
    BY <2>1, <2>3
  <2>4. CASE disk' = [ok |-> FALSE, rec |-> None]
    BY <1>1, <2>2, <2>4
  <2>. QED
    BY <1>4, <2>3, <2>4
<1>6. TypeOK'
  <2>1. up' = FALSE /\ stopping' = FALSE /\ dirty' = FALSE
    BY <1>2 DEF Dies
  <2>2. up' \in BOOLEAN /\ stopping' \in BOOLEAN /\ dirty' \in BOOLEAN
    BY <2>1
  <2>3. downs' \in Nat
    BY <1>2 DEF CInv, TypeOK, Dies
  <2>. QED
    BY <1>2, <1>3, <1>5, <2>2, <2>3 DEF CInv, TypeOK, files
<1>7. Honest'
  BY <1>2, <1>3, <1>5, NoneIsRecords DEF CInv, TypeOK, Offsets, Honest, Bounded, files
<1>. QED
  BY <1>6, <1>7 DEF CInv

\* A run starts with the records of the file, or with none.
LEMMA StartKeeps == ASSUME CInv, Start PROVE CInv'
<1>1. loaded' \in Offsets /\ base' = loaded' /\ held' \in Offsets /\ committed' \in Offsets
  BY NoneIsRecords DEF CInv, TypeOK, Start
<1>2. \A f \in File : /\ loaded'[f] <= confirmed[f]
                      /\ held'[f] <= confirmed[f] /\ committed'[f] <= confirmed[f]
  BY NoneIsRecords DEF CInv, TypeOK, Offsets, Honest, Bounded, Start
<1>3. worker' \in [File -> {"new", "taken", "bound", "ready"}]
  BY DEF Start
<1>4. TypeOK'
  BY <1>1, <1>3 DEF CInv, TypeOK, Start
<1>5. Honest'
  BY <1>1, <1>2 DEF CInv, Honest, Bounded, Start
<1>. QED
  BY <1>4, <1>5 DEF CInv

-----------------------------------------------------------------------------
\* Every step keeps the invariant.
LEMMA StepKeeps == CInv /\ [Next]_vars => CInv'
<1>. SUFFICES ASSUME CInv, [Next]_vars PROVE CInv'
  OBVIOUS
<1>1. CASE \E f \in File : Take(f) \/ Bind(f) \/ Ready(f)
  BY <1>1, ClaimKeeps
<1>2. CASE \E F \in (SUBSET File) \ {{}} : Confirm(F)
  BY <1>2, ConfirmKeeps
<1>3. CASE Commit
  BY <1>3, CommitKeeps
<1>4. CASE Tick \/ FinalSave
  BY <1>4, BeginKeeps
<1>5. CASE \E s \in Saver : Save(s)
  BY <1>5, SaveKeeps, RenameKeeps DEF Save
<1>6. CASE Stop
  BY <1>6, StopKeeps
<1>7. CASE Exit \/ Crash
  BY <1>7, DownKeeps
<1>8. CASE Start
  BY <1>8, StartKeeps
<1>9. CASE UNCHANGED vars
  <2>1. TypeOK'
    BY <1>9 DEF CInv, TypeOK, vars, files
  <2>2. Honest'
    BY <1>9 DEF CInv, Honest, Bounded, vars, files
  <2>. QED
    BY <2>1, <2>2 DEF CInv
<1>. QED
  BY <1>1, <1>2, <1>3, <1>4, <1>5, <1>6, <1>7, <1>8, <1>9 DEF Next

\* The variables of the registry have their types in every behaviour.
THEOREM CheckpointsTyped == Spec => []TypeOK
<1>1. CInv => TypeOK
  BY DEF CInv
<1>. QED
  BY <1>1, InitHolds, StepKeeps, PTL DEF Spec

\* Whatever saves overlap, fail or are cut by a crash, no run starts beyond what
\* was confirmed (registry.go, onAck; checkpoint.go, save and loadCheckpoints).
THEOREM NeverSkips == Spec => []NeverAhead
<1>1. CInv => NeverAhead
  BY DEF CInv, Honest, Bounded, NeverAhead
<1>. QED
  BY <1>1, InitHolds, StepKeeps, PTL DEF Spec

-----------------------------------------------------------------------------
(* The final save *)

\* Where each file stands: the record a graceful stop should leave of it.
Place(f) == IF Claimed(f) THEN committed[f] ELSE base[f]

\* The record a run started from stays in loaded until the file is claimed.
Unclaimed == up => \A f \in File : loaded[f] = IF worker[f] = "new" THEN base[f] ELSE 0

\* A stop begins when no claim and no acknowledgement is under way, and the owner's
\* save when the saver's is over; a stopped process is not clean before that.
Alone ==
  /\ stopping => /\ \A f \in File : worker[f] \in {"new", "ready"}
                 /\ job["acker"].pc = "idle"
  /\ job["owner"].pc # "idle" => /\ stopping /\ job["saver"].pc = "idle"
                                 /\ job["owner"].pc \notin {"ack", "swap"}
  /\ clean => ~up
  /\ ~up => \A s \in Saver : job[s].pc = "idle"

\* The owner's records, at each step of its save, until they are on the disk.
OwnerHas ==
  /\ job["owner"].pc = "leftovers" =>
       \A f \in File : job["owner"].rec[f] = IF Claimed(f) THEN committed[f] ELSE 0
  /\ job["owner"].pc \in {"open", "write", "rename"} =>
       \A f \in File : job["owner"].rec[f] = Place(f)
  /\ job["owner"].pc = "write" => tmp.st = "empty"
  /\ job["owner"].pc = "rename" => tmp = [st |-> "full", rec |-> job["owner"].rec]
  /\ job["owner"].pc = "saved" => disk.ok /\ \A f \in File : disk.rec[f] = Place(f)

\* What makes the records of a clean stop exact.
EInv == CInv /\ Unclaimed /\ Alone /\ OwnerHas /\ CleanStopIsExact

\* In terms of jobs: the one that goes on is the only one that moves.
LEMMA OneGoesOn ==
  ASSUME TypeOK, NEW s \in Saver, NEW pc, NEW rec, Goes(s, pc, rec)
  PROVE  /\ job'[s].pc = pc /\ job'[s].rec = rec
         /\ \A t \in Saver : t # s => job'[t] = job[t]
BY DEF Goes, TypeOK

\* The steps of the acker's and the saver's saves.
LEMMA OtherSaveExact ==
  ASSUME EInv, CInv', NEW s \in Saver, s # "owner", Save(s)
  PROVE  EInv'
<1>1. /\ up /\ job[s].pc # "idle" /\ UNCHANGED <<up, stopping, files, confirmed, base, clean>>
      /\ \E pc, rec : Goes(s, pc, rec)
  BY DEF Save, Swap, Snapshot, Leftovers, OpenTmp, WriteTmp, Rename, RenameFails, SaveFails, Failed
<1>2. /\ \A t \in Saver : t # s => job'[t] = job[t]
      /\ s \in {"acker", "saver"} /\ {"acker", "saver", "owner"} = Saver
  BY <1>1, OneGoesOn DEF EInv, CInv, Saver
<1>3. job["owner"].pc = "idle" /\ job'["owner"].pc = "idle" /\ ~clean /\ ~clean'
  <2>1. CASE s = "acker"
    BY <1>1, <1>2, <2>1 DEF EInv, Alone
  <2>2. CASE s = "saver"
    BY <1>1, <1>2, <2>2 DEF EInv, Alone
  <2> QED BY <1>2, <2>1, <2>2
<1>4. Unclaimed' /\ OwnerHas' /\ CleanStopIsExact'
  BY <1>1, <1>3 DEF EInv, Unclaimed, OwnerHas, CleanStopIsExact, files
<1>5. stopping => s # "acker"
  BY <1>1 DEF EInv, Alone
<1>6. Alone'
  BY <1>1, <1>2, <1>3, <1>5 DEF EInv, Alone, files
<1> QED BY <1>4, <1>6 DEF EInv

\* The steps of the owner's save: nothing else moves meanwhile.
LEMMA OwnerSaveExact ==
  ASSUME EInv, CInv', Save("owner")
  PROVE  EInv'
<1>1. "owner" \in Saver /\ TypeOK /\ Saver = {"acker", "saver", "owner"}
  BY DEF EInv, CInv, Saver
<1>2. /\ up /\ UNCHANGED <<up, stopping, files, confirmed, base, clean>>
      /\ job["owner"].pc # "idle" /\ job["owner"].pc \notin {"ack", "swap"}
      /\ \E pc, rec : Goes("owner", pc, rec)
  BY DEF Save, Swap, Snapshot, Leftovers, OpenTmp, WriteTmp, Rename, RenameFails, SaveFails,
         Failed, EInv, Alone
<1>3. /\ stopping /\ ~clean /\ ~clean' /\ \A t \in Saver : t # "owner" => job'[t] = job[t]
      /\ \A f \in File : Claimed(f) <=> worker[f] # "new"
      /\ \A f \in File : Claimed(f)' <=> Claimed(f)
  BY <1>1, <1>2, OneGoesOn DEF EInv, Alone, Claimed, files
<1>4. Unclaimed' /\ CleanStopIsExact'
  BY <1>2, <1>3 DEF EInv, Unclaimed, CleanStopIsExact, files
<1>5. ASSUME job'["owner"].pc \notin {"ack", "swap"} PROVE Alone'
  BY <1>1, <1>2, <1>3, <1>5 DEF EInv, Alone, files
<1>6. \A f \in File : Place(f)' = Place(f)
  BY <1>2, <1>3 DEF Place, files
<1>7. ASSUME OwnerHas', job'["owner"].pc \notin {"ack", "swap"} PROVE EInv'
  BY <1>4, <1>5, <1>7 DEF EInv
<1>8. CASE Snapshot("owner")
  <2>1. PICK rec : rec = [f \in File |-> IF Claimed(f) THEN committed[f] ELSE 0]
    OBVIOUS
  <2>2. job'["owner"].pc = "leftovers" /\ job'["owner"].rec = rec
    BY <1>1, <1>8, <2>1, OneGoesOn DEF Snapshot
  <2>3. OwnerHas'
    BY <1>2, <1>3, <2>1, <2>2 DEF OwnerHas, files
  <2> QED BY <1>7, <2>2, <2>3
<1>9. CASE Leftovers("owner")
  <2>1. PICK rec : rec = [f \in File |-> IF loaded[f] # 0 THEN loaded[f] ELSE job["owner"].rec[f]]
    OBVIOUS
  <2>2. job'["owner"].pc = "open" /\ job'["owner"].rec = rec
    BY <1>1, <1>9, <2>1, OneGoesOn DEF Leftovers
  <2>3. \A f \in File : rec[f] = Place(f)
    <3>1. ASSUME NEW f \in File PROVE rec[f] = Place(f)
      <4>1. job["owner"].rec[f] = IF Claimed(f) THEN committed[f] ELSE 0
        BY <1>9 DEF Leftovers, EInv, OwnerHas
      <4>2. loaded[f] = IF Claimed(f) THEN 0 ELSE base[f]
        BY <1>2, <1>3 DEF EInv, Unclaimed
      <4> QED BY <2>1, <4>1, <4>2 DEF Place
    <3> QED BY <3>1
  <2>4. OwnerHas'
    BY <1>6, <2>2, <2>3 DEF OwnerHas
  <2> QED BY <1>7, <2>2, <2>4
<1>10. CASE OpenTmp("owner")
  <2>1. job'["owner"].pc = "write" /\ job'["owner"].rec = job["owner"].rec
    BY <1>1, <1>10, OneGoesOn DEF OpenTmp
  <2>2. tmp'.st = "empty" /\ \A f \in File : job["owner"].rec[f] = Place(f)
    BY <1>10 DEF OpenTmp, EInv, OwnerHas
  <2>3. OwnerHas'
    BY <1>6, <2>1, <2>2 DEF OwnerHas
  <2> QED BY <1>7, <2>1, <2>3
<1>11. CASE WriteTmp("owner")
  <2>1. job'["owner"].pc = "rename" /\ job'["owner"].rec = job["owner"].rec
    BY <1>1, <1>11, OneGoesOn DEF WriteTmp
  <2>2. /\ tmp' = [st |-> "full", rec |-> job["owner"].rec]
        /\ \A f \in File : job["owner"].rec[f] = Place(f)
    BY <1>11 DEF WriteTmp, EInv, OwnerHas
  <2>3. OwnerHas'
    BY <1>6, <2>1, <2>2 DEF OwnerHas
  <2> QED BY <1>7, <2>1, <2>3
<1>12. CASE Rename("owner")
  <2>1. job'["owner"].pc = "saved"
    BY <1>1, <1>12, OneGoesOn DEF Rename
  <2>2. disk'.ok /\ \A f \in File : disk'.rec[f] = Place(f)
    <3>1. /\ tmp = [st |-> "full", rec |-> job["owner"].rec]
          /\ \A f \in File : job["owner"].rec[f] = Place(f)
      BY <1>12 DEF Rename, EInv, OwnerHas
    <3>2. tmp.st = "full" /\ tmp.rec = job["owner"].rec
      BY <3>1
    <3>3. disk' = [ok |-> tmp.st = "full", rec |-> tmp.rec]
      BY <1>12 DEF Rename
    <3>4. disk'.ok = (tmp.st = "full") /\ disk'.rec = tmp.rec
      BY <3>3
    <3> QED BY <3>1, <3>2, <3>4
  <2>3. OwnerHas'
    BY <1>6, <2>1, <2>2 DEF OwnerHas
  <2> QED BY <1>7, <2>1, <2>3
<1>13. CASE RenameFails("owner") \/ SaveFails("owner")
  <2>1. job'["owner"].pc = "failed"
    BY <1>1, <1>13, OneGoesOn DEF RenameFails, SaveFails, Failed
  <2>2. OwnerHas'
    BY <2>1 DEF OwnerHas
  <2> QED BY <1>7, <2>1, <2>2
<1>14. ~Swap("owner")
  BY <1>2 DEF Swap
<1> QED BY <1>8, <1>9, <1>10, <1>11, <1>12, <1>13, <1>14 DEF Save

\* Claims, acknowledgements and ticks happen before the stop.
LEMMA WorkExact ==
  ASSUME EInv, CInv',
         \/ \E f \in File : Take(f) \/ Bind(f) \/ Ready(f)
         \/ \E F \in (SUBSET File) \ {{}} : Confirm(F)
         \/ Commit \/ Tick
  PROVE  EInv'
<1>1. Saver = {"acker", "saver", "owner"} /\ TypeOK
  BY DEF Saver, EInv, CInv
<1>2. up /\ ~stopping /\ UNCHANGED <<up, stopping, base, clean>>
  BY DEF Take, Bind, Ready, Confirm, Commit, Tick, EInv, Alone
<1>3. /\ job'["owner"] = job["owner"] /\ job["owner"].pc = "idle" /\ ~clean
  <2>1. \/ job' = job
        \/ \E s \in {"acker", "saver"} : \E pc, rec : Goes(s, pc, rec)
    BY DEF Take, Bind, Ready, Confirm, Commit, Tick
  <2>2. job["owner"].pc = "idle" /\ ~clean
    BY <1>2 DEF EInv, Alone
  <2> QED BY <1>1, <2>1, <2>2, OneGoesOn
<1>4. Alone' /\ OwnerHas' /\ CleanStopIsExact'
  BY <1>2, <1>3 DEF Alone, OwnerHas, CleanStopIsExact
<1>5. Unclaimed'
  <2>1. CASE UNCHANGED <<worker, loaded>>
    BY <1>2, <2>1 DEF EInv, Unclaimed
  <2>2. ASSUME NEW f \in File, Take(f) PROVE Unclaimed'
    BY <1>1, <1>2, <2>2 DEF EInv, Unclaimed, Take, TypeOK, Offsets
  <2>3. ASSUME NEW f \in File, Bind(f) \/ Ready(f) PROVE Unclaimed'
    BY <1>1, <1>2, <2>3 DEF EInv, Unclaimed, Bind, Ready, TypeOK
  <2> QED BY <2>1, <2>2, <2>3 DEF Confirm, Commit, Tick, files
<1> QED BY <1>4, <1>5 DEF EInv

\* Stop, final save, end of the process and the next start.
LEMMA StopExact ==
  ASSUME EInv, CInv', Stop \/ FinalSave \/ Exit \/ Crash \/ Start
  PROVE  EInv'
<1>1. Saver = {"acker", "saver", "owner"} /\ TypeOK
  BY DEF Saver, EInv, CInv
<1>2. CASE Stop
  <2>1. UNCHANGED <<up, files, job, tmp, disk, base, clean>> /\ job["owner"].pc = "idle" /\ up
    BY <1>2 DEF Stop, EInv, Alone
  <2>2. Unclaimed' /\ OwnerHas' /\ CleanStopIsExact'
    BY <2>1 DEF EInv, Unclaimed, OwnerHas, CleanStopIsExact, Alone, files
  <2>3. Alone'
    BY <1>2, <2>1 DEF EInv, Alone, Stop, files
  <2> QED BY <2>2, <2>3 DEF EInv
<1>3. CASE FinalSave
  <2>1. /\ UNCHANGED <<up, stopping, files, tmp, disk, base, clean>> /\ up /\ stopping
        /\ job'["owner"].pc = "snapshot" /\ job'["acker"] = job["acker"]
        /\ job'["saver"] = job["saver"] /\ job["saver"].pc = "idle"
    BY <1>1, <1>3, OneGoesOn DEF FinalSave
  <2>2. Unclaimed' /\ OwnerHas' /\ CleanStopIsExact'
    BY <2>1 DEF EInv, Unclaimed, OwnerHas, CleanStopIsExact, Alone, files
  <2>3. Alone'
    BY <2>1 DEF EInv, Alone, files
  <2> QED BY <2>2, <2>3 DEF EInv
<1>4. CASE Exit \/ Crash
  <2>1. /\ up' = FALSE /\ stopping' = FALSE /\ UNCHANGED files
        /\ \A s \in Saver : job'[s].pc = "idle"
    BY <1>4 DEF Exit, Crash, Dies, Resting
  <2>2. Unclaimed' /\ Alone' /\ OwnerHas'
    BY <1>1, <2>1 DEF Unclaimed, Alone, OwnerHas
  <2>3. CleanStopIsExact'
    <3>1. CASE Crash
      BY <3>1 DEF Crash, CleanStopIsExact
    <3>2. CASE Exit
      BY <2>1, <3>2 DEF Exit, CleanStopIsExact, EInv, OwnerHas, Place, Claimed, files
    <3> QED BY <1>4, <3>1, <3>2
  <2> QED BY <2>2, <2>3 DEF EInv
<1>5. CASE Start
  <2>1. /\ up' = TRUE /\ clean' = FALSE /\ UNCHANGED <<stopping, job>>
        /\ \A s \in Saver : job[s].pc = "idle"
        /\ base' = loaded' /\ \A f \in File : worker'[f] = "new"
    BY <1>5 DEF Start, EInv, Alone
  <2>2. stopping => \A f \in File : worker'[f] \in {"new", "ready"}
    BY <2>1
  <2>3. Unclaimed' /\ Alone' /\ OwnerHas' /\ CleanStopIsExact'
    BY <1>1, <2>1, <2>2 DEF Unclaimed, Alone, OwnerHas, CleanStopIsExact
  <2> QED BY <2>3 DEF EInv
<1> QED BY <1>2, <1>3, <1>4, <1>5

\* After a graceful stop checkpoints.json holds exactly where each file stands, whatever
\* saves of the acker and the saver went before, and whichever of them failed
\* (registry.go, save; checkpoint.go, leftovers).
THEOREM StopsExactly == Spec => []CleanStopIsExact
<1>1. Init => EInv
  <2> SUFFICES ASSUME Init PROVE EInv
    OBVIOUS
  <2>1. \A s \in Saver : job[s].pc = "idle"
    BY DEF Init, Resting
  <2>2. "owner" \in Saver /\ "acker" \in Saver
    BY DEF Saver
  <2> QED BY <2>1, <2>2, InitHolds
          DEF Init, EInv, Unclaimed, Alone, OwnerHas, CleanStopIsExact
<1>2. EInv /\ [Next]_vars => EInv'
  <2> SUFFICES ASSUME EInv, [Next]_vars PROVE EInv'
    OBVIOUS
  <2>1. CInv'
    BY StepKeeps DEF EInv
  <2>2. CASE \E s \in Saver : Save(s)
    BY <2>1, <2>2, OtherSaveExact, OwnerSaveExact
  <2>3. CASE UNCHANGED vars
    <3>1. \A f \in File : Claimed(f)' <=> Claimed(f)
      BY <2>3 DEF vars, files, Claimed
    <3> QED BY <2>1, <2>3, <3>1
            DEF EInv, Unclaimed, Alone, OwnerHas, Place, CleanStopIsExact, vars, files
  <2> QED BY <2>1, <2>2, <2>3, WorkExact, StopExact DEF Next
<1>3. EInv => CleanStopIsExact
  BY DEF EInv
<1> QED BY <1>1, <1>2, <1>3, PTL DEF Spec
==============================================================================
