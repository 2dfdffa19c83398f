-------------------------------- MODULE Follow --------------------------------
(***************************************************************************)
(* Follow mode from the log file to ClickHouse, for one path: the tailer   *)
(* (follow/worker.go, assemble.go), the registry's generations             *)
(* (follow/registry.go), the batcher with retries (chsink/sink.go) and the *)
(* stop of the agent (follow/follow.go).                                   *)
(*                                                                         *)
(* 1C appends events to the file, truncates it, or puts a new file in its  *)
(* place.  Offsets count events; an event is known by the content it is    *)
(* part of, numbered by epochs, and its place there.  Saves are single     *)
(* steps here; Checkpoints.tla takes them apart.                           *)
(***************************************************************************)
EXTENDS Integers, Sequences, SequencesExt

CONSTANTS
  DrainTries,   \* drainMaxAttempts
  SlabRows,     \* slabRows
  QueueRows,    \* rows that fit the channel and the batcher
  Overtakes,    \* may a truncated file outgrow an offset of its old content unseen?
  MaxLen,       \* bound: events in the file
  MaxRewrites,  \* bound: truncations and replacements
  MaxDowns      \* bound: stops and crashes

ASSUME FollowBounds ==
  /\ {DrainTries, SlabRows} \subseteq Nat \ {0} /\ Overtakes \in BOOLEAN
  /\ QueueRows \in Nat /\ QueueRows >= SlabRows
  /\ {MaxLen, MaxRewrites, MaxDowns} \subseteq Nat

VARIABLES
  path,       \* the file under the path: its identity, the epoch of its content, its length
  orphan,     \* content of the file the open handle is on, once replaced
  news,       \* discovery has seen the path vanish and come back
  server,     \* can ClickHouse be reached?
  up,
  draining,   \* SetDraining was called
  stopping,   \* the channel stop is closed
  pc,         \* where the worker's round stands
  queued,
  handle,     \* identity of the open file, 0 if none
  base, pend, \* assembler: offset of pending, and the event it holds, if any
  seen,       \* history: the epoch the offsets are about
  slab,       \* rows for the batcher that the worker still has
  dead,       \* sinkDead
  ident, gen, committed, dirty,  \* fileState, registry.dirty
  loaded, disk,                  \* checkpoints.loaded, checkpoints.json
  queue,      \* rows in the channel and with the batcher, not yet acknowledged
  batch,      \* how many of them the batcher is sending
  sent,       \* that batch is confirmed by the server
  tries, failed,
  delivered,  \* history: events in ClickHouse
  rewrites, downs

world == <<path, orphan, news, server, rewrites>>
run == <<up, draining, stopping>>
tailer == <<pc, queued, handle, base, pend, seen, slab, dead>>
state == <<ident, gen, committed, dirty, loaded>>
sink == <<queue, batch, sent, tries, failed>>
vars == <<world, run, tailer, state, disk, sink, delivered, downs>>

-----------------------------------------------------------------------------
NoEvent == [epoch |-> 0, end |-> 0]
Ids == 1 .. MaxRewrites + 1
NoRecord == [off |-> 0, epoch |-> 0]
NoRecords == [i \in Ids |-> NoRecord]

Off == base + (IF pend = NoEvent THEN 0 ELSE 1)      \* assembler.readOff
Behind == IF handle = path.id THEN path ELSE orphan  \* the file behind the handle
Rows == {queue[i] : i \in DOMAIN queue} \cup {slab[i] : i \in DOMAIN slab}
Event(r) == [epoch |-> r.epoch, end |-> r.end]

\* The offsets of content that is gone from under the path, by which the agent
\* reads on, or would after a restart.
Outdated ==
  (IF up /\ ident = path.id /\ seen # path.epoch
     THEN {Off, committed} \cup {r.end : r \in {q \in Rows : q.gen = gen}} ELSE {})
  \cup {r.off : r \in {q \in {disk[path.id], loaded[path.id]} : q.epoch # path.epoch}}

\* Would a file of n events pass for the continuation of one that is gone?
Overtaken(n) == \E off \in Outdated : off \in 1 .. n

-----------------------------------------------------------------------------
(* 1C and the network *)

Grow ==
  /\ path.len < MaxLen
  /\ Overtakes \/ ~Overtaken(path.len + 1)
  /\ path' = [path EXCEPT !.len = @ + 1]
  /\ UNCHANGED <<orphan, news, server, rewrites, run, tailer, state, disk, sink,
                 delivered, downs>>

Truncate ==
  /\ rewrites < MaxRewrites /\ path.len > 0
  /\ path' = [path EXCEPT !.epoch = @ + 1, !.len = 0]
  /\ rewrites' = rewrites + 1
  /\ UNCHANGED <<orphan, news, server, run, tailer, state, disk, sink, delivered, downs>>

\* The file is deleted and another one made under its name.
Replace ==
  /\ rewrites < MaxRewrites
  /\ path' = [id |-> path.id + 1, epoch |-> path.epoch + 1, len |-> 0]
  /\ orphan' = IF handle = path.id THEN path ELSE orphan
  /\ news' = TRUE
  /\ rewrites' = rewrites + 1
  /\ UNCHANGED <<server, run, tailer, state, disk, sink, delivered, downs>>

Network ==
  /\ server' = ~server
  /\ UNCHANGED <<path, orphan, news, rewrites, run, tailer, state, disk, sink,
                 delivered, downs>>

-----------------------------------------------------------------------------
(* The worker *)

Row(ev) == [gen |-> gen, epoch |-> ev.epoch, end |-> ev.end]

\* Rows are for the batcher: the worker goes to where it hands them over, or passes it.
Emit(rows, sends, goesOn) == slab' = rows /\ pc' = IF rows = << >> THEN goesOn ELSE sends

\* Mutant of Swept: files at rest are left to discovery.
SweptIfOpen == handle # 0 /\ Behind.len # Off

\* What growthSweep sees: the open file, or the path if the file is dormant.
Swept == (IF handle = 0 THEN path ELSE Behind).len # Off

\* growthSweep, or discovery: another size under the path, or a path come back.
\* Sizes in a directory may be old: only the sweep and a path come back are sure
\* to be noticed (see Fairness).
Kick ==
  /\ up /\ ~stopping /\ ~queued
  /\ Swept \/ news \/ path.len # Off
  /\ queued' = TRUE /\ news' = FALSE
  /\ UNCHANGED <<path, orphan, server, rewrites, run, pc, handle, base, pend, seen, slab, dead,
                 state, disk, sink, delivered, downs>>

\* authoritativeSize: the handle shows no growth and the path has another size.
Replaced == handle # 0 /\ Behind.len = Off /\ path.len # Off

Size == IF handle = 0 \/ Replaced THEN path.len ELSE Behind.len

\* process, to the open: size, truncation, gate; nothing once the sink is known dead.
Look ==
  /\ up /\ ~stopping /\ pc = "idle" /\ queued
  /\ queued' = FALSE
  /\ IF dead
       THEN UNCHANGED <<handle, pc, base, pend, gen, committed, dirty>>
     ELSE IF Size < Off
       THEN \* resetTailer
            /\ base' = 0 /\ pend' = NoEvent /\ handle' = 0
            /\ gen' = gen + 1 /\ committed' = 0 /\ dirty' = TRUE
            /\ pc' = IF Size > 0 THEN "open" ELSE "idle"
       ELSE /\ handle' = IF Replaced THEN 0 ELSE handle
            /\ pc' = IF Size = 0 \/ (Size = Off /\ handle' = 0) THEN "idle" ELSE "open"
            /\ UNCHANGED <<base, pend, gen, committed, dirty>>
  /\ UNCHANGED <<world, run, seen, slab, dead, ident, loaded, disk, sink, delivered, downs>>

\* registry.claim, and the generation is reset when the file is too short.
Claim ==
  LET rec == loaded[path.id] IN
  /\ ident = 0
  /\ ident' = path.id
  /\ loaded' = [loaded EXCEPT ![path.id] = NoRecord]
  /\ committed' = IF path.len < rec.off THEN 0 ELSE rec.off
  /\ gen' = IF path.len < rec.off THEN gen + 1 ELSE gen
  /\ base' = committed' /\ seen' = path.epoch
  /\ dirty' = TRUE
  /\ UNCHANGED pend

\* registry.rebind: another file under the same path.
Rebind ==
  /\ ident \notin {0, path.id}
  /\ ident' = path.id
  /\ gen' = gen + 1 /\ committed' = 0 /\ dirty' = TRUE
  /\ base' = 0 /\ pend' = NoEvent
  /\ UNCHANGED <<loaded, seen>>

\* ensureOpen
Open ==
  /\ up /\ pc = "open"
  /\ IF handle # 0
       THEN UNCHANGED <<handle, base, pend, seen, state>>
       ELSE /\ handle' = path.id
            /\ \/ Claim
               \/ Rebind
               \/ ident = path.id /\ UNCHANGED <<base, pend, seen, state>>
  /\ pc' = "read"
  /\ UNCHANGED <<world, run, queued, slab, dead, disk, sink, delivered, downs>>

\* process, from the open: everything up to the end of the file is read; all
\* events but the last are closed by the next.
Read ==
  /\ up /\ pc = "read"
  /\ LET file == Behind IN
       IF file.len <= Off
         THEN pc' = "idle" /\ UNCHANGED <<base, pend, seen, slab>>
         ELSE LET closed == (IF pend = NoEvent THEN << >> ELSE <<pend>>)
                              \o [i \in 1 .. file.len - Off - 1 |->
                                    [epoch |-> file.epoch, end |-> Off + i]] IN
              /\ Emit([i \in DOMAIN closed |-> Row(closed[i])], "send", "idle")
              /\ base' = file.len - 1
              /\ pend' = [epoch |-> file.epoch, end |-> file.len]
              /\ seen' = file.epoch
  /\ UNCHANGED <<world, run, queued, handle, dead, state, disk, sink, delivered, downs>>

Slab == SubSeq(slab, 1, IF Len(slab) < SlabRows THEN Len(slab) ELSE SlabRows)

\* flushSlab: the worker waits until there is room in the channel, or the batcher has
\* given up.  The batcher then still takes what it is given, and throws it away.
Flush ==
  /\ up /\ pc \in {"send", "last"}
  /\ \/ /\ ~failed /\ Len(queue) + Len(Slab) <= QueueRows
        /\ queue' = queue \o Slab
        /\ slab' = SubSeq(slab, Len(Slab) + 1, Len(slab))
        /\ UNCHANGED dead
     \/ /\ failed
        /\ slab' = << >> /\ dead' \in {dead, TRUE}
        /\ UNCHANGED queue
  /\ pc' = IF slab' # << >> THEN pc ELSE IF pc = "send" THEN "idle" ELSE "gone"
  /\ UNCHANGED <<world, run, queued, handle, base, pend, seen, state, disk, batch, sent, tries,
                 failed, delivered, downs>>

\* idleEmit: no data for idle-close.
IdleClose ==
  /\ up /\ ~stopping /\ pc = "idle" /\ pend # NoEvent
  /\ Emit(<<Row(pend)>>, "send", "idle")
  /\ base' = Off /\ pend' = NoEvent
  /\ UNCHANGED <<world, run, queued, handle, seen, dead, state, disk, sink, delivered, downs>>

\* No growth for dormantAfter.
Dormant ==
  /\ up /\ ~stopping /\ pc = "idle" /\ handle # 0
  /\ handle' = 0
  /\ UNCHANGED <<world, run, pc, queued, base, pend, seen, slab, dead, state, disk, sink,
                 delivered, downs>>

\* The worker ends the round it is in and leaves its loop.
Leaves == stopping /\ pc = "idle"

\* drainAll
Drain ==
  /\ up /\ Leaves
  /\ Emit(IF pend = NoEvent THEN << >> ELSE <<Row(pend)>>, "last", "gone")
  /\ base' = Off /\ pend' = NoEvent /\ handle' = 0
  /\ UNCHANGED <<world, run, queued, seen, dead, state, disk, sink, delivered, downs>>

-----------------------------------------------------------------------------
(* The batcher: runRetry, sendRetry, onAck *)

Collect ==
  /\ up /\ ~failed /\ batch = 0 /\ queue # << >>
  /\ batch' \in 1 .. Len(queue)
  /\ tries' = 0
  /\ UNCHANGED <<world, run, tailer, state, disk, queue, sent, failed, delivered,
                 downs>>

Applied == delivered \cup {Event(queue[i]) : i \in 1 .. batch}

SendOk ==
  /\ up /\ batch > 0 /\ ~sent /\ server
  /\ delivered' = Applied
  /\ sent' = TRUE
  /\ UNCHANGED <<world, run, tailer, state, disk, queue, batch, tries, failed, downs>>

\* The stop has waited long enough: what is left is dropped, and will be read
\* again.
Abort ==
  /\ failed' = TRUE /\ queue' = << >> /\ batch' = 0 /\ tries' = 0

\* Mutant of isDraining: SetDraining is called when the workers are done.
isDrainingLate == draining /\ pc = "gone"

isDraining == draining

Retries == ~isDraining \/ tries + 1 < DrainTries

\* An attempt fails: the server is away, or it has the rows and the connection
\* breaks before its reply.
SendFails ==
  /\ up /\ batch > 0 /\ ~sent
  /\ \/ ~server /\ UNCHANGED delivered
     \/ server /\ delivered' = Applied
  /\ server' = FALSE
  /\ IF Retries
       THEN /\ tries' = IF isDraining THEN tries + 1 ELSE tries
            /\ UNCHANGED <<queue, batch, failed>>
       ELSE Abort
  /\ UNCHANGED <<path, orphan, news, rewrites, run, tailer, state, disk, sent, downs>>

\* Mutant of Fits: any row of the file counts.
FitsAnyGeneration(r) == r.end > committed

\* Does a row advance the checkpoint?
Fits(r) == r.gen = gen /\ r.end > committed

Ack ==
  /\ up /\ sent
  /\ LET fit == {queue[i].end : i \in {j \in 1 .. batch : Fits(queue[j])}} IN
       committed' = Max(fit \cup {committed})
  /\ dirty' = TRUE
  /\ queue' = SubSeq(queue, batch + 1, Len(queue))
  /\ batch' = 0 /\ sent' = FALSE
  /\ UNCHANGED <<world, run, tailer, ident, gen, loaded, disk, tries, failed, delivered,
                 downs>>

\* checkpoints.json with the record of the file followed and those not claimed.
Records == [i \in Ids |-> IF i = ident THEN [off |-> committed, epoch |-> seen] ELSE loaded[i]]

\* After the acknowledgement, or on the saver's tick.
Save ==
  /\ up /\ dirty
  /\ disk' = Records
  /\ dirty' = FALSE
  /\ UNCHANGED <<world, run, tailer, ident, gen, committed, loaded, sink, delivered,
                 downs>>

-----------------------------------------------------------------------------
(* The owner *)

\* A stop is asked for: sink.SetDraining, before anybody is told to stop.
SetDraining ==
  /\ up /\ ~draining /\ downs < MaxDowns
  /\ draining' = TRUE
  /\ UNCHANGED <<world, up, stopping, tailer, state, disk, sink, delivered, downs>>

CloseStop ==
  /\ up /\ draining /\ ~stopping
  /\ stopping' = TRUE
  /\ UNCHANGED <<world, up, draining, tailer, state, disk, sink, delivered, downs>>

Dies ==
  /\ up' = FALSE /\ draining' = FALSE /\ stopping' = FALSE
  /\ downs' = downs + 1
  /\ UNCHANGED <<world, tailer, state, sink, delivered>>

\* Mutant of Exit: the last save is left to the saver.
ExitUnsaved ==
  /\ up /\ pc = "gone" /\ queue = << >>
  /\ UNCHANGED disk
  /\ Dies

\* Worker and batcher are done: the final save.
Exit ==
  /\ up /\ pc = "gone" /\ queue = << >>
  /\ disk' = Records
  /\ Dies

Crash ==
  /\ up /\ downs < MaxDowns
  /\ Dies
  /\ UNCHANGED disk

Start ==
  /\ ~up
  /\ up' = TRUE
  /\ pc' = "idle" /\ queued' = FALSE /\ handle' = 0 /\ base' = 0 /\ pend' = NoEvent /\ seen' = 0
  /\ slab' = << >> /\ dead' = FALSE
  /\ ident' = 0 /\ gen' = 0 /\ committed' = 0 /\ dirty' = FALSE /\ loaded' = disk
  /\ queue' = << >> /\ batch' = 0 /\ sent' = FALSE /\ tries' = 0 /\ failed' = FALSE
  /\ UNCHANGED <<world, draining, stopping, disk, delivered, downs>>

-----------------------------------------------------------------------------
Init ==
  /\ path = [id |-> 1, epoch |-> 1, len |-> 0] /\ orphan = path
  /\ news = FALSE /\ server = TRUE /\ rewrites = 0
  /\ up = TRUE /\ draining = FALSE /\ stopping = FALSE
  /\ pc = "idle" /\ queued = FALSE /\ handle = 0 /\ base = 0 /\ pend = NoEvent /\ seen = 0
  /\ slab = << >> /\ dead = FALSE
  /\ ident = 0 /\ gen = 0 /\ committed = 0 /\ dirty = FALSE /\ loaded = NoRecords
  /\ disk = NoRecords
  /\ queue = << >> /\ batch = 0 /\ sent = FALSE /\ tries = 0 /\ failed = FALSE
  /\ delivered = {} /\ downs = 0

World == Grow \/ Truncate \/ Replace \/ Network
Worker == Kick \/ Look \/ Open \/ Read \/ Flush \/ IdleClose \/ Dormant \/ Drain
Batcher == Collect \/ SendOk \/ SendFails \/ Ack \/ Save
Owner == SetDraining \/ CloseStop \/ Exit \/ Crash \/ Start

Next == World \/ Worker \/ Batcher \/ Owner

Spec == Init /\ [][Next]_vars

\* Goroutines run and their timers expire; nobody promises events, a server, a
\* stop or a crash.
Fairness ==
  /\ WF_vars((Swept \/ news) /\ Kick) /\ WF_vars(Look) /\ WF_vars(Open) /\ WF_vars(Read)
  /\ WF_vars(Flush) /\ WF_vars(IdleClose) /\ WF_vars(Dormant) /\ WF_vars(Drain)
  /\ WF_vars(Collect) /\ WF_vars(SendOk \/ SendFails) /\ WF_vars(Ack) /\ WF_vars(Save)
  /\ WF_vars(CloseStop) /\ WF_vars(Exit) /\ WF_vars(Start)

FairSpec == Spec /\ Fairness

-----------------------------------------------------------------------------
(* Properties *)

Events == [epoch : 0 .. MaxRewrites + 1, end : 0 .. MaxLen]
Record == [off : 0 .. MaxLen, epoch : 0 .. MaxRewrites + 1]

TypeOK ==
  /\ {path, orphan} \subseteq [id : Ids, epoch : Ids, len : 0 .. MaxLen]
  /\ {news, server, up, draining, stopping, queued, dead, dirty, sent, failed} \subseteq BOOLEAN
  /\ pc \in {"idle", "open", "read", "send", "last", "gone"}
  /\ handle \in Ids \cup {0} /\ ident \in Ids \cup {0}
  /\ base \in 0 .. MaxLen /\ pend \in Events /\ seen \in 0 .. MaxRewrites + 1
  /\ gen \in Nat /\ committed \in 0 .. MaxLen
  /\ loaded \in [Ids -> Record] /\ disk \in [Ids -> Record]
  /\ queue \in Seq([gen : Nat, epoch : Ids, end : 1 .. MaxLen])
  /\ slab \in Seq([gen : Nat, epoch : Ids, end : 1 .. MaxLen])
  /\ batch \in 0 .. Len(queue) /\ tries \in 0 .. DrainTries - 1
  /\ delivered \subseteq Events
  /\ {rewrites, downs} \subseteq Nat

\* Of the content the tailer reads, what it has passed is in ClickHouse, or
\* beyond the checkpoint and on its way (or dropped by the stop, to be read
\* again): through truncations, replacements, retries, stops and crashes.
NothingSkipped ==
  up /\ ident = path.id /\ seen = path.epoch =>
    \A i \in 1 .. Off :
      LET ev == [epoch |-> seen, end |-> i] IN
      \/ ev \in delivered
      \/ i > committed /\ (ev = pend \/ failed \/ \E r \in Rows : Event(r) = ev)

\* A graceful stop that has delivered everything leaves the offset where reading
\* ended: the next run repeats nothing.
ExitIsExact == [][Exit /\ ~failed /\ ident # 0 => disk'[ident].off = Off]_vars

\* A graceful stop ends, server or no server (follow.go: SetDraining comes first, since
\* a worker may stand in In(), waiting for a batch that is sent again and again).
StopEnds == draining ~> ~up

AllDelivered == \A i \in 1 .. path.len : [epoch |-> path.epoch, end |-> i] \in delivered

\* A replaced file as long as what was read of the file before it.
Hidden == ident \notin {0, path.id} /\ path.len = Off

\* While ClickHouse can be reached every event gets there, a file hidden by its
\* length excepted.
EventuallyDelivered == <>[]server => <>[](AllDelivered \/ Hidden)
===============================================================================
