------------------------------- MODULE Buffered -------------------------------
(***************************************************************************)
(* Follow mode with the disk buffer: worker, buffer, drainer, batcher and  *)
(* the owner that starts and stops them (follow.go, walglue.go), for one   *)
(* path.                                                                   *)
(*                                                                         *)
(* The buffer is a log with marks, as in DurableLog, which Wal implements: *)
(* the log outlives the process.  The rows between two marks are those in  *)
(* the drainer's slab (pushed .. handed) and those in the channel and the  *)
(* batch (done .. pushed).  The tailer is the one of Follow without the    *)
(* changes of identity; offsets count events.                              *)
(*                                                                         *)
(* A buffer whose segments are all removed forgets how far its numbering   *)
(* got, but not its cursor (wal.go, recover): opened again, it puts new    *)
(* frames behind the cursor, where nobody reads them.  ReopenDrained says  *)
(* whether this may happen.  If not, somebody else than the agent removes  *)
(* cursor.json from an emptied directory before the agent is started.      *)
(***************************************************************************)
EXTENDS Integers, Sequences, FiniteSetsExt

CONSTANTS
  DrainTries,   \* drainMaxAttempts
  SlabRows,     \* slabRows
  QueueRows,    \* rows that fit the channel and the batch
  Cap,          \* frames that fit the buffer
  Slack,        \* frames a segment may keep on the disk after their confirmation
  ReopenDrained,  \* may an emptied directory be opened with a cursor left in it?
  MaxLen,       \* bound: events in the file
  MaxRewrites,  \* bound: truncations
  MaxDowns      \* bound: stops, crashes and faults of the buffer

ASSUME BufferedBounds ==
  /\ {DrainTries, SlabRows, Cap} \subseteq Nat \ {0} /\ Slack \in 0 .. Cap - 1
  /\ QueueRows \in Nat /\ QueueRows >= SlabRows /\ ReopenDrained \in BOOLEAN
  /\ {MaxLen, MaxRewrites, MaxDowns} \subseteq Nat

VARIABLES
  path, server,                             \* the file: epoch and length; ClickHouse
  owner,                                    \* where Run stands
  exit,                                     \* the exit code, or -1
  pc, walDead, read, upto, base, seen,      \* worker and assembler
  gen, claimed, committed, dirty, disk,     \* registry, checkpoints.json
  log, kept, acked, safe, noted,            \* buffer; metadata up to noted is gone
  old,                                      \* history: how many frames earlier runs left
  refusing, fatal,                          \* stopping and fatalErr of the buffer
  drainer, handed, pushed,
  done, batch, sent, tries, failed,         \* batcher
  delivered,                                \* history: events in ClickHouse
  rewrites, downs

world == <<path, server, rewrites>>
tailer == <<pc, walDead, read, upto, base, seen>>
registry == <<gen, claimed, committed, dirty>>
marks == <<kept, acked, safe, noted, old>>
buffer == <<log, marks, refusing, fatal>>
drain == <<drainer, handed, pushed>>
sink == <<done, batch, sent, tries, failed>>
run == <<owner, exit>>
vars == <<world, run, tailer, registry, disk, buffer, drain, sink, delivered, downs>>

up == owner # "down"
stop == owner \in {"stopped", "closed", "finished"}  \* close(stop)
draining == owner \notin {"down", "running"}         \* sink.SetDraining
closed == owner \in {"closed", "finished"}           \* CloseWriter

-----------------------------------------------------------------------------
(* 1C and the network *)

\* Offsets by which the agent reads on, or would after a restart, in content that
\* is gone: a truncated file is seen before it has outgrown one (as in Follow).
Outdated ==
  (IF up /\ claimed /\ seen # path.epoch THEN committed .. read ELSE {})
  \cup (IF disk.epoch # path.epoch THEN {disk.off} ELSE {})

Grow ==
  /\ path.len < MaxLen
  /\ Outdated \cap 1 .. path.len + 1 = {}
  /\ path' = [path EXCEPT !.len = @ + 1]
  /\ UNCHANGED <<server, rewrites, run, tailer, registry, disk, buffer, drain, sink, delivered,
                 downs>>

Truncate ==
  /\ rewrites < MaxRewrites /\ path.len > 0
  /\ path' = [epoch |-> path.epoch + 1, len |-> 0] /\ rewrites' = rewrites + 1
  /\ UNCHANGED <<server, run, tailer, registry, disk, buffer, drain, sink, delivered, downs>>

Network ==
  /\ server' = ~server
  /\ UNCHANGED <<path, rewrites, run, tailer, registry, disk, buffer, drain, sink, delivered,
                 downs>>

-----------------------------------------------------------------------------
(* The worker.  Of the events read those up to "upto" are being emitted, "base" of
   them are; the last one read waits for the next or for the idle timer. *)

Between == up /\ pc = "tails" /\ ~walDead /\ base = upto

\* resetTailer
Reset ==
  /\ Between /\ ~stop /\ claimed /\ path.len < read
  /\ read' = 0 /\ upto' = 0 /\ base' = 0 /\ seen' = path.epoch
  /\ gen' = gen + 1 /\ committed' = 0 /\ dirty' = TRUE
  /\ UNCHANGED <<world, run, pc, walDead, claimed, disk, buffer, drain, sink, delivered,
                 downs>>

\* The first open: claim, and a record of a file that has become shorter is not used.
Claim ==
  /\ Between /\ ~stop /\ ~claimed /\ path.len > 0
  /\ claimed' = TRUE /\ dirty' = TRUE /\ seen' = path.epoch
  /\ committed' = IF path.len < disk.off THEN 0 ELSE disk.off
  /\ gen' = IF path.len < disk.off THEN gen + 1 ELSE gen
  /\ read' = committed' /\ upto' = committed' /\ base' = committed'
  /\ UNCHANGED <<world, run, pc, walDead, disk, buffer, drain, sink, delivered, downs>>

\* process: the file is read to its end, its events but the last are closed.
Read ==
  /\ Between /\ ~stop /\ claimed /\ path.len > read
  /\ read' = path.len /\ upto' = path.len - 1 /\ seen' = path.epoch
  /\ UNCHANGED <<world, run, pc, walDead, base, registry, disk, buffer, drain, sink, delivered,
                 downs>>

\* idleEmit
IdleClose ==
  /\ Between /\ ~stop /\ base < read
  /\ upto' = read
  /\ UNCHANGED <<world, run, pc, walDead, read, base, seen, registry, disk, buffer, drain, sink,
                 delivered, downs>>

Full == Len(log) - kept >= Cap

\* wal.Append of the next event; waits while the buffer is full.
AppendFrame ==
  /\ up /\ base < upto /\ ~walDead /\ ~refusing /\ ~fatal /\ ~Full
  /\ log' = Append(log, [epoch |-> seen, end |-> base + 1, gen |-> gen])
  /\ base' = base + 1
  /\ UNCHANGED <<world, run, pc, walDead, read, upto, seen, registry, disk, marks, refusing,
                 fatal, drain, sink, delivered, downs>>

\* ErrStopped, or the fatal error: the event and all later ones are dropped.
AppendFails ==
  /\ up /\ base < upto /\ ~walDead /\ (refusing \/ fatal)
  /\ walDead' = TRUE /\ base' = upto
  /\ UNCHANGED <<world, run, pc, read, upto, seen, registry, disk, buffer, drain, sink,
                 delivered, downs>>

\* The stop is seen between two rounds; drainAll emits the last event.
DrainAll ==
  /\ up /\ stop /\ pc = "tails" /\ base = upto
  /\ pc' = "drains" /\ upto' = read
  /\ base' = IF walDead THEN read ELSE base
  /\ UNCHANGED <<world, run, walDead, read, seen, registry, disk, buffer, drain, sink, delivered,
                 downs>>

WorkerGone ==
  /\ up /\ pc = "drains" /\ base = upto
  /\ pc' = "gone"
  /\ UNCHANGED <<world, run, walDead, read, upto, base, seen, registry, disk, buffer, drain,
                 sink, delivered, downs>>

-----------------------------------------------------------------------------
(* The buffer: fsync and its metadata *)

\* Mutant of Fits: the metadata of a truncated file's events is applied.
FitsAnyGeneration(frame) == frame.end > committed

\* advanceDurable: does a frame move the checkpoint?
Fits(frame) == frame.gen = gen /\ frame.end > committed

\* fsync, and OnDurable with the metadata of what it made durable.
Durable ==
  /\ safe' = Len(log) /\ noted' = Len(log)
  /\ committed' =
       Max({committed} \cup {log[k].end : k \in {j \in noted + 1 .. Len(log) : Fits(log[j])}})
  /\ dirty' = TRUE

\* The syncer's tick, or a rotation.
Sync ==
  /\ up /\ ~closed /\ safe < Len(log)
  /\ Durable
  /\ UNCHANGED <<world, run, tailer, gen, claimed, disk, log, kept, acked, old, refusing, fatal,
                 drain, sink, delivered, downs>>

\* Any I/O error of the buffer, or a frame that cannot be decoded.
Fault ==
  /\ up /\ ~fatal /\ downs < MaxDowns
  /\ fatal' = TRUE
  /\ UNCHANGED <<world, run, tailer, registry, disk, log, marks, refusing, drain, sink,
                 delivered, downs>>

Record == [off |-> committed, epoch |-> seen]

\* checkpoints.json, once the file is claimed; before, its old record stays.
Save ==
  /\ up /\ dirty
  /\ dirty' = FALSE /\ disk' = IF claimed THEN Record ELSE disk
  /\ UNCHANGED <<world, run, tailer, gen, claimed, committed, buffer, drain, sink, delivered,
                 downs>>

-----------------------------------------------------------------------------
(* The drainer: drainWAL *)

\* TryNext and BuildNDJSON.
Take ==
  /\ up /\ drainer = "reads" /\ ~stop /\ ~fatal
  /\ handed < safe /\ handed - pushed < SlabRows
  /\ handed' = handed + 1
  /\ UNCHANGED <<world, run, tailer, registry, disk, buffer, drainer, pushed, sink, delivered,
                 downs>>

SlabReady == pushed < handed /\ (handed - pushed = SlabRows \/ handed = safe \/ stop)

\* send: the batcher takes the slab when it has room, or throws it away once it failed.
Push ==
  /\ up /\ drainer = "reads" /\ SlabReady
  /\ failed \/ handed - done <= QueueRows
  /\ pushed' = handed
  /\ UNCHANGED <<world, run, tailer, registry, disk, buffer, drainer, handed, sink, delivered,
                 downs>>

\* The stop, the end of a closed buffer, a sink that gave up, or a fatal error.
Leave ==
  /\ up /\ drainer = "reads"
  /\ \/ stop /\ pushed = handed
     \/ failed /\ SlabReady
     \/ fatal /\ handed - pushed < SlabRows
  /\ drainer' = "gone"
  /\ UNCHANGED <<world, run, tailer, registry, disk, buffer, handed, pushed, sink, delivered,
                 downs>>

-----------------------------------------------------------------------------
(* The batcher: runRetry, sendRetry; walAck *)

Collect ==
  /\ up /\ ~failed /\ batch = 0 /\ done < pushed
  /\ batch' \in 1 .. pushed - done /\ tries' = 0
  /\ UNCHANGED <<world, run, tailer, registry, disk, buffer, drain, done, sent, failed,
                 delivered, downs>>

Event(frame) == [epoch |-> frame.epoch, end |-> frame.end]
Applied == delivered \cup {Event(log[k]) : k \in done + 1 .. done + batch}

SendOk ==
  /\ up /\ batch > 0 /\ ~sent /\ server
  /\ delivered' = Applied /\ sent' = TRUE
  /\ UNCHANGED <<world, run, tailer, registry, disk, buffer, drain, done, batch, tries, failed,
                 downs>>

\* Mutant of SendFails: the batch is given up at once.
SendFailsDrops ==
  /\ up /\ batch > 0 /\ ~sent
  /\ delivered' \in {delivered, IF server THEN Applied ELSE delivered}
  /\ server' = FALSE
  /\ done' = done + batch /\ batch' = 0
  /\ UNCHANGED <<path, rewrites, run, tailer, registry, disk, buffer, drain, sent, tries, failed,
                 downs>>

\* The server is away, or its reply is lost; after SetDraining the tries are counted.
SendFails ==
  /\ up /\ batch > 0 /\ ~sent
  /\ delivered' \in {delivered, IF server THEN Applied ELSE delivered}
  /\ server' = FALSE
  /\ tries' = IF draining THEN tries + 1 ELSE tries
  /\ failed' = (tries' = DrainTries)
  /\ batch' = IF failed' THEN 0 ELSE batch
  /\ UNCHANGED <<path, rewrites, run, tailer, registry, disk, buffer, drain, done, sent, downs>>

\* reapLocked, with the cursor at pos: closed segments before it are removed.  Once
\* there is no writer the last segment is closed too.
Reap(pos, all) ==
  kept' \in IF all /\ pos >= Len(log) THEN {Len(log)} ELSE {k \in kept .. pos : pos - k <= Slack}

\* wal.Ack of the last row: the cursor stands at done.
Ack ==
  /\ up /\ sent
  /\ done' = done + batch /\ batch' = 0 /\ sent' = FALSE
  /\ acked' = Max({acked, done'})
  /\ Reap(done', closed)
  /\ UNCHANGED <<world, run, tailer, registry, disk, log, safe, noted, old, refusing, fatal, drain,
                 tries, failed, delivered, downs>>

-----------------------------------------------------------------------------
(* The owner: Run *)

OwnerMoves(from, to) == owner = from /\ owner' = to /\ UNCHANGED exit

\* A stop is asked for: sink.SetDraining.
StopAsked ==
  /\ OwnerMoves("running", "draining") /\ downs < MaxDowns
  /\ UNCHANGED <<world, tailer, registry, disk, buffer, drain, sink, delivered, downs>>

\* Mutant of BeginShutdown: the buffer goes on to make its writers wait.
BeginShutdownSkipped ==
  /\ OwnerMoves("draining", "refusing")
  /\ UNCHANGED <<world, tailer, registry, disk, buffer, drain, sink, delivered, downs>>

\* wal.BeginShutdown: appends that wait, and all later ones, are refused.
BeginShutdown ==
  /\ OwnerMoves("draining", "refusing")
  /\ refusing' = TRUE
  /\ UNCHANGED <<world, tailer, registry, disk, log, marks, fatal, drain, sink, delivered, downs>>

CloseStop ==
  /\ OwnerMoves("refusing", "stopped")
  /\ UNCHANGED <<world, tailer, registry, disk, buffer, drain, sink, delivered, downs>>

\* Mutant of CloseWriter: the syncer's last tick has to do.
CloseWriterUnsynced ==
  /\ OwnerMoves("stopped", "closed") /\ pc = "gone"
  /\ UNCHANGED <<world, tailer, registry, disk, buffer, drain, sink, delivered, downs>>

\* wg.Wait, and wal.CloseWriter: the last fsync, which may fail, and a reap.
CloseWriter ==
  /\ OwnerMoves("stopped", "closed") /\ pc = "gone"
  /\ \/ Durable /\ UNCHANGED fatal /\ IF fatal THEN UNCHANGED kept ELSE Reap(done, TRUE)
     \/ downs < MaxDowns /\ fatal' = TRUE /\ UNCHANGED <<safe, noted, committed, dirty, kept>>
  /\ UNCHANGED <<world, tailer, gen, claimed, disk, log, acked, old, refusing, drain, sink,
                 delivered, downs>>

\* drainDone, and sink.Finish: what the batcher still has is sent, or given up.
Finish ==
  /\ OwnerMoves("closed", "finished") /\ drainer = "gone"
  /\ failed \/ done = pushed
  /\ UNCHANGED <<world, tailer, registry, disk, buffer, drain, sink, delivered, downs>>

Goes(code) == owner' = "down" /\ exit' = code /\ downs' = downs + 1

\* The last save, and the exit code: an insert that was given up is in the buffer.
Exit ==
  /\ owner = "finished"
  /\ disk' = IF claimed THEN Record ELSE disk
  /\ dirty' = FALSE
  /\ Goes(IF fatal THEN 3 ELSE 0)
  /\ UNCHANGED <<world, tailer, gen, claimed, committed, buffer, drain, sink, delivered>>

\* hardStop from the loop of Run: nothing is saved.
HardStop ==
  /\ owner = "running" /\ fatal
  /\ Goes(3)
  /\ UNCHANGED <<world, tailer, registry, disk, buffer, drain, sink, delivered>>

Crash ==
  /\ up /\ downs < MaxDowns
  /\ Goes(-1)
  /\ UNCHANGED <<world, tailer, registry, disk, buffer, drain, sink, delivered>>

\* Every segment was removed, and something was confirmed before.
Emptied == kept = Len(log) /\ acked > 0

\* Where reading resumes (recover): at the cursor, or before it if it was lost; in an
\* emptied directory as many frames ahead as fit the segments numbered up to it.
Resumes == IF Emptied /\ ReopenDrained THEN Len(log) .. Len(log) + Cap ELSE kept .. acked

\* wal.Open: part of what was not fsynced survives; what the cursor has passed is
\* removed.  Nobody knows the metadata of older frames.
Start ==
  /\ ~up
  /\ owner' = "running" /\ exit' = -1
  /\ pc' = "tails" /\ walDead' = FALSE /\ read' = 0 /\ upto' = 0 /\ base' = 0 /\ seen' = 0
  /\ gen' = 0 /\ claimed' = FALSE /\ committed' = 0 /\ dirty' = FALSE
  /\ \E end \in safe .. Len(log), pos \in Resumes :
       /\ log' = SubSeq(log, 1, end) /\ safe' = end /\ noted' = end /\ old' = end
       /\ handed' = pos /\ pushed' = pos /\ done' = pos
       /\ acked' = Max({acked, pos})
       /\ kept' = IF pos >= end THEN end ELSE kept
  /\ refusing' = FALSE /\ fatal' = FALSE
  /\ drainer' = "reads"
  /\ batch' = 0 /\ sent' = FALSE /\ tries' = 0 /\ failed' = FALSE
  /\ UNCHANGED <<world, disk, delivered, downs>>

-----------------------------------------------------------------------------
Init ==
  /\ path = [epoch |-> 1, len |-> 0] /\ server = TRUE /\ rewrites = 0
  /\ owner = "running" /\ exit = -1
  /\ pc = "tails" /\ walDead = FALSE /\ read = 0 /\ upto = 0 /\ base = 0 /\ seen = 0
  /\ gen = 0 /\ claimed = FALSE /\ committed = 0 /\ dirty = FALSE
  /\ disk = [off |-> 0, epoch |-> 0]
  /\ log = <<>> /\ kept = 0 /\ acked = 0 /\ safe = 0 /\ noted = 0 /\ old = 0
  /\ refusing = FALSE /\ fatal = FALSE
  /\ drainer = "reads" /\ handed = 0 /\ pushed = 0
  /\ done = 0 /\ batch = 0 /\ sent = FALSE /\ tries = 0 /\ failed = FALSE
  /\ delivered = {} /\ downs = 0

World == Grow \/ Truncate \/ Network
Worker ==
  Reset \/ Claim \/ Read \/ IdleClose \/ AppendFrame \/ AppendFails \/ DrainAll \/ WorkerGone
Drainer == Take \/ Push \/ Leave
Batcher == Collect \/ SendOk \/ SendFails \/ Ack
Owner ==
  StopAsked \/ BeginShutdown \/ CloseStop \/ CloseWriter \/ Finish \/ Exit \/ HardStop \/ Crash
    \/ Start

Next == World \/ Worker \/ Sync \/ Fault \/ Save \/ Drainer \/ Batcher \/ Owner

Spec == Init /\ [][Next]_vars

\* Goroutines and timers run.  Nobody promises events, a server, a stop or a crash.
Fairness ==
  /\ WF_vars(Worker) /\ WF_vars(Sync) /\ WF_vars(Save)
  /\ WF_vars(Drainer) /\ WF_vars(Batcher)
  /\ WF_vars(BeginShutdown \/ CloseStop \/ CloseWriter \/ Finish \/ Exit \/ HardStop \/ Start)

FairSpec == Spec /\ Fairness

-----------------------------------------------------------------------------
(* Properties *)

\* In the part of the buffer that a restart reads, or already in ClickHouse.
Secured(ev) ==
  \/ ev \in delivered
  \/ \E k \in acked + 1 .. safe : Event(log[k]) = ev

\* The two halves of the promise fit together (walglue.go: no loss from the journal
\* to the buffer, at least once from the buffer to ClickHouse): what a checkpoint
\* lets the agent pass over is secured, and what the reader passes over is delivered.
NothingLost ==
  /\ disk.epoch = path.epoch =>
       \A i \in 1 .. disk.off : Secured([epoch |-> disk.epoch, end |-> i])
  /\ \A k \in DOMAIN log : k <= acked => Event(log[k]) \in delivered

\* The exit code tells (follow.go): after 0 the buffer is sound, all that is in it is
\* secured, and what this run put there is checkpointed, though ClickHouse may have
\* refused it; only a fault gives 3.
ExitTells ==
  /\ exit = 3 => fatal
  /\ exit = 0 =>
       /\ ~fatal /\ safe = Len(log)
       /\ \A k \in DOMAIN log :
            /\ Secured(Event(log[k]))
            /\ k > old /\ log[k].epoch = disk.epoch => log[k].end <= disk.off

\* A stop ends, with a full buffer and no server (follow.go: fast even then).
StopEnds == draining ~> ~up

\* Once ClickHouse stays reachable, all events get there, whatever failed before.
AllArrives ==
  <>[]server => <>[](\A i \in 1 .. path.len : [epoch |-> path.epoch, end |-> i] \in delivered)
==============================================================================
