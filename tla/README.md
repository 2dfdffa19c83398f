# Verification of the technological-journal collector

TLA+ models, TLC runs and TLAPS proofs for the collector in this repository. It
follows the log files of the 1C "technological journal" (TJ), assembles events
and delivers them to ClickHouse, directly or through a buffer on disk; in batch
mode it turns a directory of finished files into NDJSON or rows. The Go agent
(`src/agents/go`) is the reference implementation and the only one with the
buffer; the models are translated from it.

Contents: [the system](#the-system), [modules](#modules),
[runs](#runs-and-what-they-show), [disagreements](#where-code-and-documentation-disagree),
[proofs](#what-is-proved), [only checked](#what-is-only-model-checked),
[assumptions](#assumptions), [not modelled](#what-is-not-modelled), [plan](#plan).

## The system

| part | state | operations | talks to |
|---|---|---|---|
| disk buffer, `internal/wal/wal.go` | segment files, `cursor.json`, sizes, durable bounds, pending metadata, read position, reader's handle | Open, Append, fsync tick, TryNext, Ack, BeginShutdown, CloseWriter, Close | called by workers, drainer, batcher; calls the registry from under its mutex (OnDurable) |
| registry and checkpoints, `follow/registry.go`, `checkpoint.go` | per file: identity, generation, committed offset; dirty mark; `checkpoints.json` | register, claim, onAck/advanceDurable, resetGen, rebind, save | workers, batcher or buffer syncer, the 1 s saver, the owner |
| tail workers, `follow/worker.go`, `assemble.go` | open handles, an assembler per file, queue, slab | observe, growthSweep, process, idleSweep, drainAll | discovery (channel), sink (channel) or buffer |
| discovery, `follow/discovery.go` | known paths, last size sent | walk | workers (channel, does not block) |
| sink, `internal/chsink/sink.go` | slab channel, pending batch, attempts, draining, fatal | In, flush, retries, SetDraining, Finish; pool of three senders in batch mode | workers or drainer; OnAck to registry or buffer |
| owner, `follow/follow.go` Run | stop flag, order of the shutdown | start, stop, hard stop (exit 3) | all of the above |
| assembler, `follow/assemble.go` | the bytes of an unfinished event, the place of its line | append, scan, idleEmit, drain, reset | workers |
| parser, `internal/parser` | scanner window, event fields, table of names | ScanEvents, ParseEventFields, AppendEvent | batch mode, workers |
| rows, `chsink/cols.go`, `rich.go`, `ndjson.go` | column builders, scratch of the hot properties | Build, BuildNDJSON | workers, drainer |
| SQL normalisation, `internal/sqlnorm` | scratch | Normalize | row builder |
| batch mode, `cmd/tj-agent-go/main.go` | admission budget, channels, next job | acquire, processFile, the writer, runClickHouse | file, or null sink, or the sender pool of the sink |

What is hard here: every worker, the batcher, the saver, the syncer and the
reader are goroutines of their own and share the registry, one temporary file
and the buffer's fields; the process may be killed or stopped between any two
steps and must resume without losing an event; 1C truncates and replaces the
files meanwhile; ClickHouse may be away, or apply a batch and not answer. What
must hold: an offset is never saved beyond what is safe (in ClickHouse, or
fsynced in the buffer), nothing passed by the reader is dropped, the buffer
stays within its limit without blocking for ever, and a stop ends. The cutting
of a file into events does not depend on how it was read, a row does not depend
on the way it took, batch mode keeps the order of the files within its budget
and never waits for itself, and its exit code is true.

PROJECT.json lists the hazards line by line, with the properties that watch them.

## Modules

**Wal** - `wal.go`. Two or more writers, the syncer, the reader, the batcher and
the owner. A position is a segment number and an offset as in the code; a
segment also knows `lo`, where it begins in the log of the buffer's whole life,
so that properties can speak of one event across restarts. The code runs nearly
all of a method under `mu`: such a method is one action. Where it lets go of
`mu`, or where a crash inside matters, it is several: TryNext (`ReadStarts`,
`ReadFinishes`, without `mu` in between), Ack (cursor written, then one
`ReapRemoves` per file), Append (`AppendBlocks` for the rotation of a full
buffer and the wait). Init is Open on an empty directory; `Recover` is Open on
what a crash left. `Crash` keeps any part of the bytes behind the last fsync.
`AppendFails`, `CloseWriterFails` and `Fault` are the I/O errors that end in
setFatalIO. `released` is the metadata given to OnDurable, that is, the events
whose TJ checkpoint may have moved.

**DurableLog** - what the buffer promises: a log with marks
`kept <= acked <= handed <= safe`, and checkpoints that follow `safe`. Wal
implements it under the refinement mapping at its end (`ImplementsLog`).

**WalInv** - the inductive invariants of Wal in named parts: `IInv` for what is
stored, `WInv` with the reader, the frames and the exact cursor.

**WalHandle** - the reader's fields `rd`, `rdSeq`, `rbuf`, which readFrame uses
without `mu` while reapLocked closes and clears them. Every access that the
other goroutine can come between is a step. The disk is sound and the segments
are written beforehand, so a fatal stop can only come from the race.

**Checkpoints** - registry.go and checkpoint.go: claim in its three steps, the
acknowledgement, and a save taken apart into dirty.Swap, snapshot, leftovers,
open, write and rename, for the acker, the saver and the owner at once. The
temporary file is `empty`, `full` or `mixed` (two texts in one). Movable is
MoveFileEx: no rename while another save has the file open.

**Follow** - one path from the file to ClickHouse without the buffer: worker,
assembler, generations, batcher with retries, stop. Offsets count events. `path`
is the file under the name, `orphan` the replaced one a handle may still be on.
An event is known by the epoch of its content and its place, so a truncated
file's events are other events. `Look`, `Open` and `Read` are the parts of
process between which 1C may act. Rows go from the worker's slab (`Emit`) to the
channel slab by slab (`Flush` is flushSlab): the worker waits there until there
is room, or the batcher has given up. `Collect`, `SendOk`/`SendFails` and `Ack`
are the way through the sink. Channel and batcher are one queue of at most
QueueRows rows, of which the batcher takes any prefix: the code's channel holds
slabs and its batch ends by rows, bytes or time. `SetDraining` and `CloseStop`
are two steps of the owner, since only the first lets go of a worker that waits
while ClickHouse is away. `Save` is one step (Checkpoints has the rest).

**Buffered** - follow mode with the buffer from end to end: worker, buffer,
drainer, batcher and owner. The buffer is a log with the marks of DurableLog on
a sequence of frames (`Slack` is what a segment may keep after its confirmation;
torn bytes are left out, since Wal drops them). `Reap` is reapLocked, for Ack and
for CloseWriter, after which a buffer fully confirmed has no segment left. `Start`
is recover: with segments there, it resumes at the cursor, or before it if the
cursor was lost; in an emptied directory it resumes ahead of the new frames when
ReopenDrained is TRUE, since the numbering starts over and the cursor does not.
The owner goes through the order of Run: stop, workers, CloseWriter, drainer,
Finish, last save; a fault of the buffer or a stuck drainer leads to the hard
stop and exit 3. The path is that of Follow without changes of identity; saves
succeed (Checkpoints has the ones that fail) and a truncated file is seen before
it outgrows an offset.

**Events, Assembler, Scanner** - a file is a sequence of letters standing for
the parts of the mask, the BOM, line ends and the rest. Events defines the
events of a file (SplitEvents, the reference). Assembler gets the bytes in reads
of any size, closes the last event by the timer or the stop, and is started
again at a checkpoint; each pass of scan is a step. Scanner is the window of
batch mode with its guard zone and its pooled buffer.

**NameTable** - the table by which the parser notices repeated names: never
cleared, slots valid by event number, numbers of a fixed width.

**Rows** - an event's text to a row directly, and through NDJSON and back.
ScanProps stands for both copies of the automaton (fields.go and appendProps).
Escaping and the telling of numbers from strings are left out. `Written` is what 1C
writes for given properties (docs/format-spec.md 4.1-4.3); it is no code of the
repository, and QuotingUndone compares what ScanProps reads with what was given.

**SqlNorm** - Normalize token by token. Letters are bytes, or one of the words
the rules know. Statements come in pieces, each with another text that should
give the same norm: other values, spacing, longer lists and rows, other numbers.

**Parsing, MCParsing** - those parts side by side in one run; they share no state.

**BatchFiles, Admission, BatchSink, BatchMode, MCBatchMode** - batch mode:
finding the files, admission by budget with the ordered writer, or the workers,
batcher and senders on ClickHouse, and the exit code. The sink's Open succeeded
and any number of senders connected; the null sink writes nothing. A worker that
has met Fatal reads on for nothing in the code and ends at once here.

**WalProofs, FollowProofs, BufferedProofs, BatchModeProofs, ParsingProofs** - the
theorems of the modules they are named after; WalProofs has five parts: what is
stored, what the reader gets, the refinement of DurableLog, its promise, the bytes on
the disk. **DiskProofs** - those of WalHandle and Checkpoints. **SqlProofs** - those
of SqlNorm. **DataFacts** - lemmas on least and greatest elements, sums over finite
sets, recursive functions and lists.

An operator commented as a mutant is a wrong version of the definition after
it; PROJECT.json says which property notices it.

## Runs and what they show

| run | question | bounds |
|---|---|---|
| `wal_core` | does the buffer lose, repeat or reorder anything, with faults and crashes? | 2 writers, frames of 1-3 bytes (3 is refused), 2-byte segments, 4-byte cap, 4 frames, 2 downs |
| `wal_live` | does every checkpointed event arrive, does every Append return, with cursor.json lost in a crash? | frames of 1-2 bytes, 3 frames, 1 down |
| `wal_handle` | may the reader's handle be used as it is? | 4 segments of 2 frames |
| `checkpoints` | is checkpoints.json right whatever saves overlap? | 2 files, 2 events each, 2 downs, 1 failing save |
| `follow` | is anything skipped between the file and ClickHouse, does a stop end? | 2 events, slab of 1 row, channel and batch of 2 rows, 1 truncation or replacement, 1 down, 2 attempts when stopping |
| `buffered` | the same with the buffer between, and is the exit code true? | 2 events, slab and queue of 2 rows, 2 frames in the buffer, 1 truncation, 1 stop, crash or fault, 1 attempt when stopping; ReopenDrained = FALSE |
| `parsing` | is a file cut into the same events however it is read, and an event turned into the same row either way; is the norm of a query its key? | files of up to 3 lines and an unfinished one, reads of 1, 2 and 7, window of 3 + 3; 4 slots, 4 names; events of up to 4 properties; SQL of up to 3 fragments and 2 tail values, lists folded to depth 3 |
| `batch_mode` | does batch mode keep its order, its budget and its rows, and end? | 4 directories, 2 workers, 2 senders, budget 3, blocks and slabs of 2 rows |
| `wal_drained_reopened`, `wal_handle_race`, `ckpt_atomic`, `sig_table_full` | one statement of the documentation each, which the code does not keep | the smallest that show it |

Why the bounds are enough to meet the interesting cases: in `wal_core` two
segments fill the cap, so rotation, blocking, reaping of several segments and
refusal all happen, and with two downs a directory left by a crash in the
middle of a reap is opened and crashes again. In `wal_handle` with four
segments the reader changes segment while the reaper removes two behind it. In
`checkpoints` two files are needed for a snapshot that has one and not the
other; two downs give a run with records to lose and a run to look at them. In
`follow` two events are one closed by the next and one pending, one rewrite is
enough to have rows of two generations in the queue; two of the first
fill it, so that a worker waits in In with one of the second when the stop comes. In `buffered` two frames
fill the buffer, so that a worker waits in Append, the drainer in In and the
owner for both. In `parsing` the reads cut a file at every place, the longest
line is longer than chunk and guard zone, and the event numbers of the table
start over; SQL fragments open and close brackets, lists and rows in each
other's neighbourhood and strings contain lines that look like a tail. In
`batch_mode` the directories have a file larger than the budget, files that fit
it singly and not together, one too small to be a log and one that cannot be
read.

### The properties

*Wal*: `NoLoss` - a checkpointed event is confirmed or on an fsynced part that
neither reader nor restart leaves behind. `CapRespected` - the bytes on disk
never exceed the limit and the counter is their sum. `ReadsWholeFrames` -
TryNext never meets a torn or missing frame. `InOrder`, `ResumesAtAck`,
`NeverSkipsAhead` - the order within a run and the place after a restart.
`DrainedStopIsEmpty` - a stop after a full drain leaves nothing to replay.
`ImplementsLog` - the refinement. `DurableIsDelivered`, `AppendReturns` -
liveness.
*WalHandle*: `RightSegment` - the reader takes no frame from another segment than
the one it stands in; `NoSpuriousFatal` fails.
*Checkpoints*: `NeverAhead` - no record beyond what was confirmed, also after
overlapping, failing and interrupted saves. `CleanStopIsExact` - after a graceful
stop each record is exactly where the file stands. `SaveIsAtomic` fails.
*Follow*: `NothingSkipped` - what the tailer has passed is in ClickHouse, or
beyond the checkpoint and still held. `ExitIsExact` - a stop that dropped nothing
saves exactly where reading ended. `StopEnds` - a stop ends, also with a worker
that waits for room and a server that is away. `EventuallyDelivered`.
*Buffered*: `NothingLost` - what a checkpoint passes over is in the fsynced
buffer or in ClickHouse, and what the buffer's cursor passes over is in
ClickHouse. `ExitTells` - after exit 0 the buffer is sound and everything it
took in this run is secured and checkpointed; 3 only after a fault. `StopEnds`,
`AllArrives`.
*Assembler, Scanner*: `EmittedAreEvents`, `NoEventMissed`, `ScanIsSplit` - the
events are those of SplitEvents, except where the timer closed one too early.
*NameTable*: `TableHoldsEvent`; `NotingEnds` fails with more names than slots.
*Rows*: `QuotingUndone`, `NoKeyTwice`, `ReplayIsDirect`, `RepeatsKept` - names
and values survive quoting, grouping and the way through the buffer.
*SqlNorm*: `NormIsKey` - P1, P2, P3 and P6 of docs/sql-normalization.md: no quote is
in the norm and no `?` without a parameter (ValuesAreOut); it normalises to itself,
with a `?` as the only value each time (NormIsFixed). Excepted is what the code gets
wrong: a name in brackets with `?` or a quote, a norm that begins like a tail or ends
in a space. `ValuesAreParams` - parameters are aligned with the statement's
placeholders, and statements that differ in values, spacing and the lengths of lists
only have one norm.
*Admission*: `OutputInOrder`, `BudgetExact`, `HeadIsServed` - the order of the
output, the budget, and that the writer's next file always has somebody.
*BatchSink*: `ConfirmedAreThere`, `NoRowTwice`. *BatchMode*: `ExitIsTrue`, `Ends`.

### Fairness

Weak fairness, of goroutines and timers that the Go scheduler runs: of each
Append, the syncer's tick, the reader, the batcher, and (once a stop or a fatal
error is there) the owner; of each step of the worker and of the batcher, and of the owner from
SetDraining on, in Follow; of worker, fsync, save, drainer, batcher, the owner's steps and the next
start in Buffered; of each worker, the writer, the batcher and each sender in
BatchMode, where an insert ends in any way. Nothing is assumed of 1C, of crashes
and stops, or of the network: the delivery properties that need ClickHouse say
so in their premise (`<>[]server`), or are about a batcher that is never stopped
by the server (Wal). Of discovery only the notice of a path that came back is
fair, since sizes in an NTFS directory may stay old; growthSweep must suffice. A
retry takes any finite time: `client.Do` has no deadline of its own, only the
5 minutes for each packet of the answer, so "a stop ends" means after those.

## Where code and documentation disagree

Each of these has a run; PROJECT.json quotes the lines.

1. `wal_drained_reopened`: after a stop with the buffer fully drained the
   directory holds only `cursor.json`. The next start numbers segments from 1,
   behind that cursor. Events are written, fsynced and checkpointed, the reader
   never looks for them, and the following start deletes them as confirmed.
2. `wal_handle_race`: an Ack while the reader changes segment closes the handle
   the reader has just opened, or loses an open one so that Windows refuses the
   removal; either stops the agent (exit 3) on a sound disk.
3. `ckpt_atomic`: two saves share `checkpoints.json.tmp`; one writes over the
   finished text of the other, which then renames the mixture.
4. `sig_table_full`: an event with more different names than the table has slots
   (128) makes noteName look for a free slot for ever.

Seen on the way, and not in a run:

- With a cap below the segment size the rotation that is meant to prevent an
  endless wait (wal.go:535-537) does not, when everything in the segment was
  confirmed before the rotation: rotateLocked does not reap.
- Between take and the end of claim a file's record is in neither map
  (registry.go:95, checkpoint.go:41-43); a save in that window drops it, a crash
  then repeats the file.
- A file created anew with just the length that was read is not noticed: the
  resent size is only a kick, and sizes are compared, not identities
  (discovery.go:6-7, worker.go:225, 288).
- A truncated file that outgrows the old offset unseen is read on from there
  (with Overtakes = TRUE NothingSkipped fails). The Rust agent's README (lines
  139-141) has the limitation for files rewritten without shrinking; the Go
  README (312-314) promises no loss.
- The complete event an assembler still holds is dropped by `reset` when the
  file is truncated within idle-close.
- A property with a name of the header that comes twice is an array in NDJSON
  (format-spec.md:123-125); rich rows drop it (rich.go:220).
- What a graceful drain emits is refused: BeginShutdown comes first, Append
  refuses from then on (wal.go:529-530), against the comments of BeginShutdown
  (wal.go:683-687) and at CloseWriter in follow.go. Nothing is lost: the offsets
  stay, the next start reads the events again.
- Repeated properties with others between them are replayed grouped, so that the
  order of names is not that of the source, against ndjson_test.go:1-8; names
  and values are the same. The comments at ndjson.go:212-214 and in the heads of
  row.go and rich.go are older than the code.
- stream.go promises that the window holds one event; a long file without a mask
  is kept whole.
- "A failed batch is not inserted" (main.go) does not hold when the reply is lost.
- SQL (sql-normalization.md, section 5): P1 fails for a text with a blank before
  `p_1:`, whose norm begins like a tail and is read as one in the next pass, and for an
  open `[a` with two spaces behind, of which each pass takes one. P3 and P6 fail for
  brackets with `?` or an apostrophe inside, which are copied.
- After a fatal error the syncer, Ack and CloseWriter still go through, against
  the header of wal.go (34-36). setFatal broadcasts without `mu`, so a writer
  between check and wait may miss it until the shutdown broadcasts again.
  WaitData returns at once, again and again, while a tail is read and not
  acknowledged.

## What is proved

By TLAPS, for every value of the constants (any number of writers, files,
workers, segments, any sizes, any number of crashes):

| theorem | states |
|---|---|
| `WalProofs!Invariance`, `TypeCorrect`, `NothingLost` | `[]IInv`, `[]TypeOK`, `[]NoLoss` |
| `WalProofs!ReaderInvariance` | `[]WInv` |
| `WalProofs!WholeFrames`, `OrderKept`, `NoSkipAhead` | `[]ReadsWholeFrames`, `InOrder`, `NeverSkipsAhead` |
| `WalProofs!ResumesExactly`, `DrainedLeavesNothing` | `ResumesAtAck`, `[]DrainedStopIsEmpty` |
| `WalProofs!LogImplemented`, `PromiseKept` | `ImplementsLog`: Wal implements DurableLog; the marks stay in order |
| `WalProofs!CapKept` | `[]CapRespected` |
| `DiskProofs!CheckpointsTyped`, `NeverSkips`, `StopsExactly` | `[]TypeOK`, `[]NeverAhead`, `[]CleanStopIsExact` |
| `DiskProofs!HandleTyped`, `ReadsRightSegment` | `[]HandleTypes`, `[]RightSegment` |
| `FollowProofs!TailInvariance`, `FollowTypes`, `StopsExactly` | `[]TailInv`, `[]TypeOK`, `ExitIsExact` |
| `FollowProofs!FollowSkipsNothing` | `[]NothingSkipped` |
| `BufferedProofs!BufferedCorrect`, `EndToEnd`, `ExitCodeTells` | `[]BInv`, `[]NothingLost`, `[]ExitTells` |
| `BatchModeProofs!LogsOrdered` | the list of files is the logs of the walk, each once, larger ones first |
| `BatchModeProofs!OrderedOutput`, `HeadServed`, `BudgetKept` | `[]OutputInOrder`, `[]HeadIsServed`, `[]BudgetExact` |
| `BatchModeProofs!ConfirmedThere`, `RowsOnce`, `ExitTrue` | `[]ConfirmedAreThere`, `[]NoRowTwice`, `[]ExitIsTrue` |
| `ParsingProofs!OnlyEvents`, `EveryEvent` | `[]EmittedAreEvents`, `[]NoEventMissed` |
| `ParsingProofs!WindowIsSplit`, `TableExact` | `[]ScanIsSplit`, `[]TableHoldsEvent` |
| `ParsingProofs!KeysOnce`, `RepeatsStay`, `ReplayedIsDirect` | `[]NoKeyTwice`, `[]RepeatsKept`, `[]ReplayIsDirect` |
| `ParsingProofs!QuotesUndone` | `[]QuotingUndone` |
| `SqlProofs!NormStays` | `[]NormIsKey` |

The theorems of Wal and the three of Buffered assume ReopenDrained = FALSE,
since with TRUE the first disagreement above refutes NoLoss, and NothingLost
with it. They say nothing of an agent that is started again on the directory a
drained stop has left. `ResumesExactly` and `DrainedLeavesNothing` also assume
CursorMayBreak = FALSE, because a lost cursor.json repeats events.
`FollowSkipsNothing` assumes Overtakes = FALSE (see Assumptions). Every other
theorem holds under the assumptions on constants of its module alone.

*Wal, what is stored.* NoLoss alone is not inductive: whether a reap may delete
a segment depends on the cursor being behind `acked`, that on every batch in
flight ending at a frame it knows, that on the reader's limit, and a restart
depends on the numbering and on what a reap cut short left behind. `IInv` is
TypeOK and seven parts: Layout (segments are contiguous, only the last is open,
a closed one is durable), Numbered (next number), Marks (what lies before the
first segment and before both cursors is confirmed, and a cursor is never past
the end), InMemory (what the goroutines hold), Framed (durable bounds are frame
boundaries), Kept (NoLoss without the cursor), Sized (the counter and the
limit). There is one lemma per action; Recover is proved along the phases of
recover (stored cursor, scan, resume, renumber).

*Wal, what is read.* `IInv` lets a cursor lie anywhere among confirmed bytes,
which is enough for loss, not for order. `WInv` adds where exactly things are:
Tiled (frames lie end to end, and segments begin and end between two of them),
Aligned (cursors, reader and batches stand between two frames on fsynced bytes),
Standing (the reader stands where the last frame handed over ended, and a read
without `mu` stays on a segment that cannot be removed), Exact (both cursors are
where ClickHouse stopped confirming, whether their segment exists or not),
AckedIsSafe (only fsynced bytes are confirmed) and Swept (no segment outlives
the reap that should remove it). A position is compared with a byte of the log
by `At`, which also speaks of a segment that was deleted or is not there yet.

*Wal implements DurableLog.* The marks of the log are computed from the segments
(`Low`, `Safe`, `Ck`). Most steps leave the segments in place (lemma InPlace),
and move one mark or none; a reap raises `Low`, an fsync `Safe`, a crash cuts
the log at `Safe` and Recover restarts the reader between `kept` and `acked`.

*The limit.* Sized says that `total` is the length of the part of the log that the
segments span. That this is also the sum of the files' sizes is the lemma on
sums of a chain in DataFacts: the intervals of neighbouring segments meet. Sums
over sets are handled there by their table of partial sums, and an induction
over sets as the smallest counterexample of a well-founded order, since the
library's induction theorems are out of reach.

*Checkpoints.* NeverAhead speaks of the file only. The invariant (`Honest`) says
the same of every place a record passes through: committed offsets, records
loaded, held by a claim, in each save's memory, in the temporary file. The proof
has a lemma per step of a save, so it does not matter how saves overlap. For the
exact stop, `EInv` adds that a record stays in `loaded` until its file is claimed
(Unclaimed), that the owner saves when nobody else does (Alone), and what its
records are at each step until they are on the disk (OwnerHas).

*WalHandle.* The invariant relates an open handle to the segment it was opened
for at each of the reader's steps, also after the reaper has cleared `rd`, and
the window to `rdSeq`.

*Follow.* NothingSkipped is proved in two halves. `TailInv` is about the tailer
and the rows on their way, those in the queue and then those in the worker's
slab (`Line`: handing a slab over leaves it as it is), and needs no assumption:
Tailed (checkpoint <= last emitted <= last read, and where handle and pending
event stand), Queued (between the first two every offset of this generation is
in a row on its way, in order and once). It gives `ExitIsExact` by itself.
`FreshInv` relates that to the file under the path: Ranked (content is numbered
upwards), Placed (offsets are about this content, or the content is gone and the
file is shorter than the offset, so that the next look notices), Recorded (so
are the records of checkpoints.json, claimed or not). Only 1C's growing the file
needs ~Overtakes, in one step of one lemma.

*Buffered.* `BInv` says what each frame waits for. Ordered (the marks on the log),
Placed (as in Follow), Framed (a frame of the present generation is about the
present content, and those not yet fsynced follow on the checkpoint without a
gap), Kept (what checkpoint, record, cursor and batch pass over is there), Shut
(how far the owner has come). `ExitTells` is about the frames of the present run:
of a run that was killed there may be frames which no record covers, and a stop
right after the restart leaves them so. One kill is not enough to get there.

*Batch mode, files.* `AdmInv` says that each file underway is finished or has one
worker (Owned), that nobody sleeps while the next file is the one the writer
waits for, unless the writer is about to wake them (Awake), and that a channel
goes on where the output stopped and its worker where the channel stops (Chunks).
After a failed write the writer throws away chunks of the file in turn, and only
that one need no longer be aligned with the output, which stays as it is.
`Charges` adds that no file beyond the next has been charged: taking a file adds
one summand, writing one removes one. `Complete` counts the chunks of each file in
output and channel, for the exit code.

*Batch mode, sink.* A row is in one place: in `SinkInv` each slab, block, the queue
and the table hold sets of rows that have none in common (NoRowTwice), each worker
builds rows of a file of its own behind those it has built (Crew, Built), and until
something fails none is gone (Lasting). Chain says what follows from the place of
batcher and senders. A step moves a set of rows from one place to the next, and the
lemmas say so once for all moves. `ExitIsTrue` follows with SinkOver: at the end
all places but the table are empty.

*Assembler.* Behind the scan nothing is undecided: the buffer begins at a line, the
open event at its first (Standing), no event begins in the lines already passed
(OpenEvent), and no place to resume from is ahead (Behind). That a line tells on
its own whether it begins an event, however much of the file is there, is the
lemma LineTells.

*Scanner.* `ScnInv`: the window begins at the event or before it and reaches the end
of the file or uses its room (Window); up to `scan` all events are cut out but the
one that is open (Decided). MaskShows is where the guard zone counts: a mask shows
in the window if it shows in the file. It uses the assumption that the zone is
longer than any mask of the file.

*NameTable.* `TableInv`: an entry bears a number only up to the present one, those
of this event are the names noted, and each can be reached from its first slot
over slots of this event. The numbers start over with a cleared table.

*Rows.* The state says little here (the line and the rows were made of the event, and
no builder keeps anything of one: LineOfEvent, RowOfEvent, ReplayRow); the theorems
are about what was computed, for texts of any length. A recursive function on places of
a text exists and obeys its equation by Recursion (it looks behind a place only) or
Climb (at the place before); then Induct reasons along it. So ScanProps is seen to
give pairs, FlattenSeq and the two readers of numbers to do what they are for. The
values of a name are taken by the numbers of their places (Rank, Kth), which gives what
a pair more adds to them (ValuesMore, PropsMore) and what two lists have together
(ValuesCat). From this: grouping keeps the values of each name (RegroupedIs); the line
read back has the properties' values under each name (LineGives); the fold that builds a
row shows of a name only what its values determine, and adds a size per name which they
determine too (`Fills`: FillsFirst, FillsNext). Rows of the same values agree
(SameRow), though the pairs come in another order.

For `QuotesUndone` the text as written is cut into the pieces of which FlattenSeq makes
it (Pieces, PieceAt): where the n-th piece begins, and that it stands there. A value is
read back by going from its last letter to the first along the table of the automaton
(ValueUndoubled, ValueRead): a quote inside is doubled and so never taken for the one
that ends the value. The properties are read back the same way, from the last to the
first (PropRead, WrittenRead). The header is found though Trim has taken the ends of
lines away (KnownRead).

*SqlNorm.* Of the text nothing is assumed, so `NormStays` is about every input,
SQL or not. What is written falls into tokens: there are places B between them,
and at each a context G, which is what `Known` says of the state (the brackets
open, their rows and lists, the keyword just read), such that each token leads
from the context before it to the one behind it and stands where the pass over the
norm will find it again (`Tok`, `Traced`). The letter behind is part of it: a word
written last must not grow into the next one. Every action keeps this over the
statement, though a `?` or a row folded away takes back the end of what is
written, with its tokens (FirstTokens). Over the norm, the pass goes from one
place of B to the next, copies what is between and is in the context G gives
(Repeats, NormTokens): nothing is left to fold, no digits to drop from a temporary
table or a parameter, no number, no tail. So the output is the input (P1), and a
parameter is taken at a `?` only (P2). That `?`s never outnumber parameters (P3)
is an invariant of the first pass of its own (Asked), as folding drops `?`s and no
parameters; that there is no quote (P6) can be seen from the tokens (NoQuotes).

TLC checks `WInv`, which has `IInv` in it, as an invariant of `wal_core`.

## What is only model-checked

- Liveness (`DurableIsDelivered`, `AppendReturns`, `StopEnds`,
  `EventuallyDelivered`, `AllArrives`, `Ends`): out of the prover's reach.
- `ValuesAreParams`. It speaks of a statement and a variant of it that a person would
  call the same, and of which of its letters are a value. For a theorem there would
  have to be a grammar of statements saying so, and where values may stand beside what;
  the code has none, it follows rules on letters. The run enumerates statements made
  of pieces that say what they are.

## Assumptions

- ReopenDrained = FALSE in the passing runs of Wal and in `buffered`, and in the
  theorems of both: no emptied buffer is opened with cursor.json left in it. The
  code does not see to that; whoever runs the agent would have to remove the file
  after a drained stop. What happens otherwise is the finding of
  `wal_drained_reopened`: new frames lie behind the cursor, are never read and are
  deleted by the next reap or start. End to end, `buffered` with TRUE breaks
  `NothingLost` and `AllArrives`: checkpoints pass over events that are in no part
  of the buffer anyone reads, and the agent ends with exit code 0.
- Overtakes = FALSE in `follow`: a truncated file is seen before it outgrows an
  offset of its old content. With TRUE `follow` breaks NothingSkipped.
- Bytes that survived one crash survive the next; fsync of a file makes its
  directory entry durable; an fsync that succeeds after a failed one is real.
- A crash during Append is a failed Append followed by a crash.
- The medium does not change fsynced bytes.
- In Rows, TextsAreEvents: an event's text begins with the time, a dash, one digit or
  more and a comma. IsEventStart demands it of every event (parser.go:33), so that no
  other text comes to the parser. DateIsLetter: a date from a file's name is there or
  not, and is a single letter of the model. KnownAreWritten: a text said to be known is
  a header with two commas, then the properties as Written has them, then ends of lines;
  a name has no =, and a value without quotes has no comma and no end of line in it and
  does not begin with a quote. Of other texts QuotingUndone says nothing. In SqlNorm,
  StatementsAreTexts says only that a statement's pieces are lists of letters.
- Rename and removal of open files follow Windows, the platform of the agent;
  on POSIX the removal of an open segment succeeds.
- A crash that loses power may leave checkpoints.json unreadable (it is renamed
  without an fsync), not an older text than the last one renamed.
- In Checkpoints a commit and a snapshot go over all files at once, though each
  file has a lock of its own: no property relates two files.
- CHECK_DEADLOCK FALSE where the system stops: the bounds of frames, downs and
  events are used up, everything in WalHandle is read and removed, the inputs of
  `parsing` are done, batch mode has exited. That it does not stop before is
  `Ends` in `batch_mode`, `StopEnds` and `AllArrives` in `buffered`, and
  `AppendReturns` in `wal_live`. In Follow deadlock is checked.

## What is not modelled

Whole components, and why:

- Metrics (counters and an HTTP endpoint) and the progress output: they read the
  pipeline and do not change it.
- Options and the Windows service, which only closes StopCh.
- The C++ core, its command line and the Rust agent. They are second and third
  implementations of the same contract, without the buffer: the batch pipeline
  is that of Admission, follow mode that of Follow. Models of them would be
  those modules again, with differences only in details that the models leave
  out. The C interface is a binding without state.
- The older stand-alone counters, deployment, dashboards, benchmarks and test
  scripts.

Within the components that are modelled:

- Buffer: age marks and gauges, the kick channel of the reader.
- Tail worker and discovery: log output, errors on opening and reading a TJ file
  (retried by the next kick), events the parser rejects, the 100-byte gate (an
  event stands for it), the limit of a round, the assignment of files to
  workers. Follow and Buffered have one path; nothing but the registry is shared
  between paths, and Checkpoints has two.
- Rows and parser: JSON escaping, the telling of numbers from strings, paths
  (relpath.go), timestamps, the columns derived from SQL and Context, the binary
  form of the columns.
- SQL normalisation: hexadecimal numbers and exponents, tabs and carriage
  returns as blanks.
- Sink: table formats, compression, timeouts of the client, the opening of the
  connection.
- Batch mode: statistics.

## Plan

The modules planned are written. What could be added, in order of worth:

1. `ValuesAreParams` as a theorem, from a grammar of the statements 1C writes.
2. A save between the two halves of claim: Checkpoints has the step, a property
   that relates it to what a crash repeats is missing.
