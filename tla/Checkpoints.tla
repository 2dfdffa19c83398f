----------------------------- MODULE Checkpoints -----------------------------
(***************************************************************************)
(* The registry of followed files and checkpoints.json:                    *)
(* src/agents/go/internal/follow/registry.go and checkpoint.go.            *)
(*                                                                         *)
(* Workers claim files, the acker (the sink's batcher, or the goroutine    *)
(* that syncs the disk buffer) advances committed offsets and saves at     *)
(* once, the saver saves every second, the owner saves a last time after   *)
(* everybody else has returned.  Nothing orders the acker and the saver:   *)
(* the steps of a save are actions of their own.                           *)
(*                                                                         *)
(* Commit and Snapshot go over all files in one step, though the code locks *)
(* one file at a time: no property relates the offsets of two files.       *)
(*                                                                         *)
(* A record is the offset of one file; 0 stands for no record too, since   *)
(* both make the next run read from the start.                             *)
(***************************************************************************)
EXTENDS Integers

CONSTANTS
  File,      \* identities of the followed files
  MaxEnd,    \* bound: end offset of the last event of a file
  MaxDowns,  \* bound: stops and crashes in a behaviour
  MaxFails   \* bound: saves that fail in a behaviour

ASSUME CheckpointBounds == {MaxEnd, MaxDowns, MaxFails} \subseteq Nat

VARIABLES
  up,
  stopping,   \* Run is past wg.Wait and sink.Finish
  worker,     \* where the claim of each file stands
  held,       \* what take has returned to that claim
  committed,  \* fileState.committed
  loaded,     \* checkpoints.loaded
  dirty,
  job,        \* where each save stands, and the records it holds
  tmp,        \* checkpoints.json.tmp
  disk,       \* checkpoints.json
  confirmed,  \* history: end of what has been confirmed of each file
  base,       \* history: the records this run started from
  clean,      \* history: the last run ended with its final save
  downs, fails

files == <<worker, held, committed, loaded>>
vars == <<up, stopping, files, dirty, job, tmp, disk, confirmed, base, clean, downs, fails>>

-----------------------------------------------------------------------------
Saver == {"acker", "saver", "owner"}
None == [f \in File |-> 0]
Resting == [pc |-> "idle", rec |-> None]
NoTmp == [st |-> "absent", rec |-> None]

Claimed(f) == worker[f] \in {"bound", "ready"}

\* The savers that have the temporary file open for writing.
Writing == {s \in Saver : job[s].pc = "write"}

\* Save s goes on to pc with the records rec.
Goes(s, pc, rec) == job' = [job EXCEPT ![s] = [pc |-> pc, rec |-> rec]]

-----------------------------------------------------------------------------
(* Workers: claim *)

\* Mutant of Take: -1 stands for a file without a record.
TakeSentinel(f) ==
  /\ up /\ ~stopping /\ worker[f] = "new"
  /\ worker' = [worker EXCEPT ![f] = "taken"]
  /\ held' = [held EXCEPT ![f] = IF loaded[f] = 0 THEN -1 ELSE loaded[f]]
  /\ loaded' = [loaded EXCEPT ![f] = 0]
  /\ UNCHANGED <<up, stopping, committed, dirty, job, tmp, disk, confirmed, base, clean,
                 downs, fails>>

\* checkpoints.take: the record leaves loaded.
Take(f) ==
  /\ up /\ ~stopping /\ worker[f] = "new"
  /\ worker' = [worker EXCEPT ![f] = "taken"]
  /\ held' = [held EXCEPT ![f] = loaded[f]]
  /\ loaded' = [loaded EXCEPT ![f] = 0]
  /\ UNCHANGED <<up, stopping, committed, dirty, job, tmp, disk, confirmed, base, clean,
                 downs, fails>>

\* The offset becomes the file's own.
Bind(f) ==
  /\ up /\ worker[f] = "taken"
  /\ worker' = [worker EXCEPT ![f] = "bound"]
  /\ committed' = [committed EXCEPT ![f] = held[f]]
  /\ UNCHANGED <<up, stopping, held, loaded, dirty, job, tmp, disk, confirmed, base, clean,
                 downs, fails>>

\* claim marks the registry dirty and the worker starts to read.
Ready(f) ==
  /\ up /\ worker[f] = "bound"
  /\ worker' = [worker EXCEPT ![f] = "ready"]
  /\ dirty' = TRUE
  /\ UNCHANGED <<up, stopping, held, committed, loaded, job, tmp, disk, confirmed, base,
                 clean, downs, fails>>

-----------------------------------------------------------------------------
(* The acker: onAck, advanceDurable *)

\* A batch with the next event of each file of F is confirmed.
Confirm(F) ==
  /\ up /\ ~stopping /\ job["acker"].pc = "idle"
  /\ \A f \in F : worker[f] = "ready" /\ committed[f] < MaxEnd
  /\ LET ends == [f \in File |-> IF f \in F THEN committed[f] + 1 ELSE 0] IN
       /\ confirmed' = [f \in File |-> IF ends[f] > confirmed[f] THEN ends[f] ELSE confirmed[f]]
       /\ Goes("acker", "ack", ends)
  /\ UNCHANGED <<up, stopping, files, dirty, tmp, disk, base, clean, downs, fails>>

\* Mutant of Commit: a whole batch counts, up to its last offset, for each file.
CommitBatchEnd ==
  /\ up /\ job["acker"].pc = "ack"
  /\ LET ends == job["acker"].rec IN
       committed' = [f \in File |->
         IF \E g \in File : ends[g] > committed[f] /\ Claimed(f)
           THEN CHOOSE n \in 1 .. MaxEnd : \E g \in File : n = ends[g] /\ n > committed[f]
           ELSE committed[f]]
  /\ dirty' = TRUE
  /\ Goes("acker", "swap", None)
  /\ UNCHANGED <<up, stopping, worker, held, loaded, tmp, disk, confirmed, base, clean,
                 downs, fails>>

\* onAck: the committed offsets follow, then the registry is dirty.
Commit ==
  /\ up /\ job["acker"].pc = "ack"
  /\ LET ends == job["acker"].rec IN
       committed' = [f \in File |-> IF ends[f] > committed[f] THEN ends[f] ELSE committed[f]]
  /\ dirty' = TRUE
  /\ Goes("acker", "swap", None)
  /\ UNCHANGED <<up, stopping, worker, held, loaded, tmp, disk, confirmed, base, clean,
                 downs, fails>>

-----------------------------------------------------------------------------
(* Saving: saveIfDirty, save *)

\* The saver's tick.
Tick ==
  /\ up /\ ~stopping /\ job["saver"].pc = "idle" /\ dirty
  /\ Goes("saver", "swap", None)
  /\ UNCHANGED <<up, stopping, files, dirty, tmp, disk, confirmed, base, clean, downs, fails>>

\* dirty.Swap(false): nothing to do, or the save begins.
Swap(s) ==
  /\ up /\ job[s].pc = "swap"
  /\ Goes(s, IF dirty THEN "snapshot" ELSE "idle", None)
  /\ dirty' = FALSE
  /\ UNCHANGED <<up, stopping, files, tmp, disk, confirmed, base, clean, downs, fails>>

\* registry.snapshot: the records of the claimed files.
Snapshot(s) ==
  /\ up /\ job[s].pc = "snapshot"
  /\ Goes(s, "leftovers", [f \in File |-> IF Claimed(f) THEN committed[f] ELSE 0])
  /\ UNCHANGED <<up, stopping, files, dirty, tmp, disk, confirmed, base, clean, downs, fails>>

\* Mutant of Leftovers: only the claimed files are saved.
LeftoversForgotten(s) ==
  /\ up /\ job[s].pc = "leftovers"
  /\ Goes(s, "open", job[s].rec)
  /\ UNCHANGED <<up, stopping, files, dirty, tmp, disk, confirmed, base, clean, downs, fails>>

\* checkpoints.leftovers: the records nobody has claimed in this run are added.
Leftovers(s) ==
  /\ up /\ job[s].pc = "leftovers"
  /\ Goes(s, "open", [f \in File |-> IF loaded[f] # 0 THEN loaded[f] ELSE job[s].rec[f]])
  /\ UNCHANGED <<up, stopping, files, dirty, tmp, disk, confirmed, base, clean, downs, fails>>

\* os.WriteFile opens the temporary file and empties it.
OpenTmp(s) ==
  /\ up /\ job[s].pc = "open"
  /\ tmp' = [st |-> "empty", rec |-> None]
  /\ Goes(s, "write", job[s].rec)
  /\ UNCHANGED <<up, stopping, files, dirty, disk, confirmed, base, clean, downs, fails>>

\* It writes and closes it.  Over a text that another save has put there since,
\* and that has longer numbers, the rest of that text stays.
WriteTmp(s) ==
  /\ up /\ job[s].pc = "write"
  /\ \/ tmp' = [st |-> "full", rec |-> job[s].rec]
     \/ /\ tmp.st = "full" /\ \E f \in File : job[s].rec[f] < tmp.rec[f]
        /\ tmp' = [st |-> "mixed", rec |-> None]
  /\ Goes(s, "rename", job[s].rec)
  /\ UNCHANGED <<up, stopping, files, dirty, disk, confirmed, base, clean, downs, fails>>

\* MoveFileEx works on a file that exists and that nobody has open.
Movable == tmp.st # "absent" /\ Writing = {}

\* os.Rename: the temporary file becomes checkpoints.json.
Rename(s) ==
  /\ up /\ job[s].pc = "rename" /\ Movable
  /\ disk' = [ok |-> tmp.st = "full", rec |-> tmp.rec]
  /\ tmp' = NoTmp
  /\ Goes(s, IF s = "owner" THEN "saved" ELSE "idle", None)
  /\ UNCHANGED <<up, stopping, files, dirty, confirmed, base, clean, downs, fails>>

\* A save that fails marks the registry dirty again (the owner only reports it).
Failed(s) ==
  /\ dirty' = (dirty \/ s # "owner")
  /\ Goes(s, IF s = "owner" THEN "failed" ELSE "idle", None)

\* os.Rename fails because of the other save.
RenameFails(s) ==
  /\ up /\ job[s].pc = "rename" /\ ~Movable
  /\ Failed(s)
  /\ UNCHANGED <<up, stopping, files, tmp, disk, confirmed, base, clean, downs, fails>>

\* The medium fails a save; the temporary file may hold part of the text.
SaveFails(s) ==
  /\ up /\ job[s].pc \in {"open", "write", "rename"} /\ fails < MaxFails
  /\ Failed(s)
  /\ tmp' \in {tmp, IF job[s].pc = "write" THEN [st |-> "mixed", rec |-> None] ELSE tmp}
  /\ fails' = fails + 1
  /\ UNCHANGED <<up, stopping, files, disk, confirmed, base, clean, downs>>

Save(s) ==
  \/ Swap(s)
  \/ Snapshot(s)
  \/ Leftovers(s)
  \/ OpenTmp(s)
  \/ WriteTmp(s)
  \/ Rename(s)
  \/ RenameFails(s)
  \/ SaveFails(s)

-----------------------------------------------------------------------------
(* The owner *)

\* Workers and sink have returned: no claim and no acknowledgement is under way.
Stop ==
  /\ up /\ ~stopping /\ downs < MaxDowns
  /\ \A f \in File : worker[f] \in {"new", "ready"}
  /\ job["acker"].pc = "idle"
  /\ stopping' = TRUE
  /\ UNCHANGED <<up, files, dirty, job, tmp, disk, confirmed, base, clean, downs, fails>>

\* Mutant of FinalSave: it saves only what is marked dirty.
FinalSaveIfDirty ==
  /\ up /\ stopping /\ job["saver"].pc = "idle" /\ job["owner"].pc = "idle"
  /\ dirty' = FALSE
  /\ Goes("owner", IF dirty THEN "snapshot" ELSE "saved", None)
  /\ UNCHANGED <<up, stopping, files, tmp, disk, confirmed, base, clean, downs, fails>>

\* The saver has returned: registry.save.
FinalSave ==
  /\ up /\ stopping /\ job["saver"].pc = "idle" /\ job["owner"].pc = "idle"
  /\ dirty' = FALSE
  /\ Goes("owner", "snapshot", None)
  /\ UNCHANGED <<up, stopping, files, tmp, disk, confirmed, base, clean, downs, fails>>

\* The process is gone with all it had in memory.
Dies ==
  /\ up' = FALSE /\ stopping' = FALSE /\ dirty' = FALSE
  /\ job' = [s \in Saver |-> Resting]
  /\ downs' = downs + 1

Exit ==
  /\ up /\ job["owner"].pc \in {"saved", "failed"}
  /\ clean' = (job["owner"].pc = "saved")
  /\ Dies
  /\ UNCHANGED <<files, tmp, disk, confirmed, base, fails>>

\* kill -9, or a loss of power that takes the file written last with it.
Crash ==
  /\ up /\ downs < MaxDowns
  /\ clean' = FALSE
  /\ disk' \in {disk, [ok |-> FALSE, rec |-> None]}
  /\ Dies
  /\ UNCHANGED <<files, tmp, confirmed, base, fails>>

\* loadCheckpoints: an unreadable file is a clean start.
Start ==
  /\ ~up
  /\ up' = TRUE
  /\ loaded' = IF disk.ok THEN disk.rec ELSE None
  /\ base' = loaded'
  /\ worker' = [f \in File |-> "new"]
  /\ held' = None /\ committed' = None
  /\ clean' = FALSE
  /\ UNCHANGED <<stopping, dirty, job, tmp, disk, confirmed, downs, fails>>

-----------------------------------------------------------------------------
Init ==
  /\ up = TRUE /\ stopping = FALSE
  /\ worker = [f \in File |-> "new"]
  /\ held = None /\ committed = None /\ loaded = None /\ base = None /\ confirmed = None
  /\ dirty = FALSE
  /\ job = [s \in Saver |-> Resting]
  /\ tmp = NoTmp
  /\ disk = [ok |-> TRUE, rec |-> None]
  /\ clean = FALSE
  /\ downs = 0 /\ fails = 0

Next ==
  \/ \E f \in File : Take(f) \/ Bind(f) \/ Ready(f)
  \/ \E F \in (SUBSET File) \ {{}} : Confirm(F)
  \/ Commit
  \/ Tick
  \/ \E s \in Saver : Save(s)
  \/ Stop \/ FinalSave \/ Exit
  \/ Crash \/ Start

Spec == Init /\ [][Next]_vars

-----------------------------------------------------------------------------
(* Properties *)

Offsets == [File -> Nat]
Pc == {"idle", "ack", "swap", "snapshot", "leftovers", "open", "write", "rename", "saved",
       "failed"}
Jobs == [pc : Pc, rec : Offsets]
Tmps == [st : {"absent", "empty", "full", "mixed"}, rec : Offsets]

TypeOK ==
  /\ up \in BOOLEAN /\ stopping \in BOOLEAN /\ dirty \in BOOLEAN /\ clean \in BOOLEAN
  /\ worker \in [File -> {"new", "taken", "bound", "ready"}]
  /\ held \in Offsets /\ committed \in Offsets /\ loaded \in Offsets
  /\ confirmed \in Offsets /\ base \in Offsets
  /\ job \in [Saver -> Jobs] /\ tmp \in Tmps
  /\ disk \in [ok : BOOLEAN, rec : Offsets]
  /\ downs \in Nat /\ fails \in Nat

\* The next run never starts beyond what was confirmed, whatever saves overlap,
\* fail, or are cut by a crash: no event of a file is passed over.
NeverAhead == disk.ok => \A f \in File : disk.rec[f] <= confirmed[f]

\* After a graceful stop whose final save worked the file holds exactly where
\* each file stands: nothing is read twice, and the files that were not opened
\* keep the record of an earlier run.
CleanStopIsExact ==
  clean => /\ disk.ok
           /\ \A f \in File : disk.rec[f] = IF Claimed(f) THEN committed[f] ELSE base[f]

\* While the process runs a readable checkpoints.json stays readable: "save
\* writes the full snapshot atomically" (checkpoint.go).
SaveIsAtomic == [][up /\ up' /\ disk.ok => disk'.ok]_vars
==============================================================================
