------------------------------- MODULE BatchSink -------------------------------
(***************************************************************************)
(* Batch mode into ClickHouse (main.go, runClickHouse and chWorker;        *)
(* chsink/sink.go, run): workers turn files into slabs of rows, a batcher  *)
(* gathers them into blocks, senders on connections of their own insert    *)
(* the blocks side by side.  The buffers of the blocks go round in a ring. *)
(* The first insert that fails is fatal: everyone is to stop, and what is  *)
(* still on the way is thrown away.                                        *)
(***************************************************************************)
EXTENDS BatchFiles, SequencesExt

CONSTANTS
  Senders,   \* connections there are (batchSenders or fewer)
  SlabRows, QueueCap, BatchRows

ASSUME BatchSinkBounds ==
  /\ IsFiniteSet(Senders) /\ Senders # {}
  /\ {SlabRows, QueueCap, BatchRows} \subseteq Nat \ {0}

VARIABLES
  nextFile,           \* files taken so far
  on, row, slab, step,   \* of a worker: its file, rows of it built, chWorker.slab, its place
  queue, inClosed,    \* the channel in
  batcher, rest, cols,   \* its place, what is left of its slab, its block
  free,               \* buffers in the ring
  block,              \* of a sender: the block it has, with confirm: still to be sent
  fatal,              \* fail was called
  inserted,           \* Inserted()
  applied             \* history: blocks in ClickHouse

workerVars == <<nextFile, on, row, slab, step>>
batcherVars == <<batcher, rest, cols>>
bsVars == <<workerVars, queue, inClosed, batcherVars, free, block, fatal, inserted, applied>>

Idle == [has |-> FALSE, sending |-> FALSE, rows |-> <<>>]

BsInit ==
  /\ nextFile = 0
  /\ on = [w \in Workers |-> 0] /\ row = [w \in Workers |-> 0]
  /\ slab = [w \in Workers |-> <<>>] /\ step = Started("next")
  /\ queue = <<>> /\ inClosed = FALSE
  /\ batcher = "select" /\ rest = <<>> /\ cols = <<>>
  /\ free = Cardinality(Senders) /\ block = [s \in Senders |-> Idle]
  /\ fatal = FALSE /\ inserted = 0 /\ applied = {}

-----------------------------------------------------------------------------
(* The workers.  step: "next", "parse", "flush" (a slab is full), "last" (the flush at
   the end of a file), "gone".  A worker that saw Fatal goes on reading its file for
   nothing; here it ends at once. *)

\* The next file, unless there is none or Fatal is closed.
NextFile(w) ==
  /\ step[w] = "next" /\ nextFile' = nextFile + 1
  /\ IF nextFile' > Len(files) \/ fatal
       THEN step' = [step EXCEPT ![w] = "gone"] /\ UNCHANGED <<on, row>>
       ELSE /\ on' = [on EXCEPT ![w] = nextFile'] /\ row' = [row EXCEPT ![w] = 0]
            /\ step' = [step EXCEPT ![w] = "parse"]
  /\ UNCHANGED <<fileVars, slab, queue, inClosed, batcherVars, free, block, fatal, inserted,
                 applied>>

\* An event becomes a row of the slab.
Parse(w) ==
  /\ step[w] = "parse" /\ row[w] < files[on[w]].pieces
  /\ row' = [row EXCEPT ![w] = @ + 1]
  /\ slab' = [slab EXCEPT ![w] = Append(@, <<on[w], row[w] + 1>>)]
  /\ step' = [step EXCEPT ![w] = IF Len(slab'[w]) >= SlabRows THEN "flush" ELSE "parse"]
  /\ UNCHANGED <<fileVars, nextFile, on, queue, inClosed, batcherVars, free, block, fatal,
                 inserted, applied>>

\* The end of the file, or it cannot be opened or read on.
EndRows(w) ==
  /\ step[w] = "parse" /\ step' = [step EXCEPT ![w] = "last"]
  /\ (row[w] = files[on[w]].pieces /\ failed' = failed) \/ failed' = TRUE
  /\ UNCHANGED <<files, exit, nextFile, on, row, slab, queue, inClosed, batcherVars, free, block,
                 fatal, inserted, applied>>

\* flush: the slab goes into the channel when there is room, or Fatal ends the worker.
FlushSlab(w) ==
  /\ step[w] \in {"flush", "last"}
  /\ \/ /\ slab[w] = <<>> \/ Len(queue) < QueueCap
        /\ queue' = IF slab[w] = <<>> THEN queue ELSE Append(queue, slab[w])
        /\ slab' = [slab EXCEPT ![w] = <<>>]
        /\ step' = [step EXCEPT ![w] = IF step[w] = "last" THEN "next" ELSE "parse"]
     \/ /\ slab[w] # <<>> /\ fatal
        /\ step' = [step EXCEPT ![w] = "gone"] /\ UNCHANGED <<queue, slab>>
  /\ UNCHANGED <<fileVars, nextFile, on, row, inClosed, batcherVars, free, block, fatal, inserted,
                 applied>>

\* All workers are done: Finish closes the channel.
CloseIn ==
  /\ ~inClosed /\ exit = -1 /\ inClosed' = TRUE
  /\ \A w \in Workers : step[w] = "gone"
  /\ UNCHANGED <<fileVars, workerVars, queue, batcherVars, free, block, fatal, inserted, applied>>

-----------------------------------------------------------------------------
(* The batcher: "select", "fill" (a slab into the block), "hand" (sendCh <- cols),
   "take" (cols = <-free), "ended" (sendCh is closed), "done".  final: after the last
   block it does not come back to select. *)

\* A slab; after a fatal error it is thrown away.
Receive ==
  /\ batcher = "select" /\ queue # <<>>
  /\ queue' = Tail(queue)
  /\ IF fatal THEN UNCHANGED batcherVars
     ELSE batcher' = "fill" /\ rest' = Head(queue) /\ cols' = cols
  /\ UNCHANGED <<fileVars, workerVars, inClosed, free, block, fatal, inserted, applied>>

\* Row after row; a full block is sent at once.
Fill ==
  /\ batcher = "fill"
  /\ IF rest = <<>>
       THEN batcher' = "select" /\ UNCHANGED <<rest, cols>>
       ELSE /\ cols' = Append(cols, Head(rest)) /\ rest' = Tail(rest)
            /\ batcher' = IF Len(cols') >= BatchRows THEN "hand" ELSE "fill"
  /\ UNCHANGED <<fileVars, workerVars, queue, inClosed, free, block, fatal, inserted, applied>>

\* The timer of a block that is not full, or the channel is closed and empty.
Flush ==
  /\ batcher = "select" /\ cols # <<>>
  /\ batcher' = "hand"
  /\ UNCHANGED <<fileVars, workerVars, queue, inClosed, rest, cols, free, block, fatal, inserted,
                 applied>>

\* Mutant of Hand: the batcher goes on with the buffer it has handed over.
HandShared(s) ==
  /\ batcher = "hand" /\ ~block[s].has
  /\ block' = [block EXCEPT ![s] = [has |-> TRUE, sending |-> FALSE, rows |-> cols]]
  /\ batcher' = "take" /\ UNCHANGED <<rest, cols>>
  /\ UNCHANGED <<fileVars, workerVars, queue, inClosed, free, fatal, inserted, applied>>

\* The block goes to a sender that waits for one.
Hand(s) ==
  /\ batcher = "hand" /\ ~block[s].has
  /\ block' = [block EXCEPT ![s] = [has |-> TRUE, sending |-> FALSE, rows |-> cols]]
  /\ cols' = <<>> /\ batcher' = "take" /\ rest' = rest
  /\ UNCHANGED <<fileVars, workerVars, queue, inClosed, free, fatal, inserted, applied>>

\* Another buffer out of the ring.
TakeBuffer ==
  /\ batcher = "take" /\ free > 0
  /\ free' = free - 1
  /\ batcher' = "fill" /\ UNCHANGED <<rest, cols>>
  /\ UNCHANGED <<fileVars, workerVars, queue, inClosed, block, fatal, inserted, applied>>

\* Mutant of EndInput: the block that is not full is forgotten.
EndInputEarly ==
  /\ batcher = "select" /\ inClosed /\ queue = <<>>
  /\ batcher' = "ended"
  /\ UNCHANGED <<fileVars, workerVars, queue, inClosed, rest, cols, free, block, fatal, inserted,
                 applied>>

\* Nothing is left: sendCh is closed and the senders end.
EndInput ==
  /\ batcher = "select" /\ inClosed /\ queue = <<>> /\ cols = <<>>
  /\ batcher' = "ended"
  /\ UNCHANGED <<fileVars, workerVars, queue, inClosed, rest, cols, free, block, fatal, inserted,
                 applied>>

-----------------------------------------------------------------------------
(* The senders *)

\* The insert begins, unless another one has failed.
Begin(s) ==
  /\ block[s].has /\ ~block[s].sending
  /\ block' = IF fatal THEN [block EXCEPT ![s] = Idle]
                       ELSE [block EXCEPT ![s].sending = TRUE]
  /\ free' = IF fatal THEN free + 1 ELSE free
  /\ UNCHANGED <<fileVars, workerVars, queue, inClosed, batcherVars, fatal, inserted, applied>>

\* Confirmed.
Succeed(s) ==
  /\ block[s].sending
  /\ block' = [block EXCEPT ![s] = Idle] /\ free' = free + 1
  /\ inserted' = inserted + Len(block[s].rows)
  /\ applied' = applied \cup {block[s].rows}
  /\ UNCHANGED <<fileVars, workerVars, queue, inClosed, batcherVars, fatal>>

\* Mutant of Fail: the block is tried again, as in follow mode.
FailRetried(s) ==
  /\ block[s].sending
  /\ block' = [block EXCEPT ![s].sending = FALSE]
  /\ applied' \in {applied, applied \cup {block[s].rows}}
  /\ UNCHANGED <<fileVars, workerVars, queue, inClosed, batcherVars, free, fatal, inserted>>

\* Mutant of Fail: the rows count as inserted.
FailCounted(s) ==
  /\ block[s].sending
  /\ block' = [block EXCEPT ![s] = Idle] /\ free' = free + 1
  /\ fatal' = TRUE /\ applied' \in {applied, applied \cup {block[s].rows}}
  /\ inserted' = inserted + Len(block[s].rows)
  /\ UNCHANGED <<fileVars, workerVars, queue, inClosed, batcherVars>>

\* Refused, or the answer did not come in time: the block may be there all the same.
Fail(s) ==
  /\ block[s].sending
  /\ block' = [block EXCEPT ![s] = Idle] /\ free' = free + 1
  /\ fatal' = TRUE /\ applied' \in {applied, applied \cup {block[s].rows}}
  /\ UNCHANGED <<fileVars, workerVars, queue, inClosed, batcherVars, inserted>>

\* senders.Wait, and the exit code.
FinishSink ==
  /\ batcher = "ended" /\ \A s \in Senders : ~block[s].has
  /\ exit = -1 /\ exit' = IF fatal THEN 1 ELSE ReadCode
  /\ batcher' = "done"
  /\ UNCHANGED <<files, failed, workerVars, queue, inClosed, rest, cols, free, block, fatal,
                 inserted, applied>>

ChWorker(w) == NextFile(w) \/ Parse(w) \/ EndRows(w) \/ FlushSlab(w)
Batcher ==
  \/ Receive \/ Fill \/ Flush \/ TakeBuffer \/ EndInput
  \/ \E s \in Senders : Hand(s)
Sender(s) == Begin(s) \/ Succeed(s) \/ Fail(s)
BsNext ==
  \/ CloseIn \/ FinishSink \/ Batcher
  \/ \E w \in Workers : ChWorker(w)
  \/ \E s \in Senders : Sender(s)

-----------------------------------------------------------------------------
(* Properties *)

Rows(blocks) == UNION {Range(b) : b \in blocks}
RowsIn(blocks) == SumFunction([b \in blocks |-> Len(b)])

\* inserted counts rows that are in the table, and no others; less than are there only
\* after an insert that failed (sink.go: only confirmed blocks are counted).
ConfirmedAreThere ==
  /\ inserted <= RowsIn(applied)
  /\ ~fatal => inserted = RowsIn(applied)

\* Where rows are: with the batcher, in the channel, with a worker, a sender, in the table.
Holders ==
  ({"batcher"} \X {"rest", "cols"}) \cup ({"queue"} \X DOMAIN queue) \cup
  ({"slab"} \X Workers) \cup ({"block"} \X Senders) \cup ({"applied"} \X applied)

Held(h) ==
  CASE h[1] = "batcher" -> IF h[2] = "rest" THEN rest ELSE cols
    [] h[1] = "queue" -> queue[h[2]]
    [] h[1] = "slab" -> slab[h[2]]
    [] h[1] = "block" -> block[h[2]].rows
    [] h[1] = "applied" -> h[2]

\* A row is in one place at a time, in memory or in the table: no buffer is filled
\* while a sender has it, and no block is sent twice (batch mode never repeats).
NoRowTwice ==
  \A h, g \in Holders : \A i \in DOMAIN Held(h), j \in DOMAIN Held(g) :
    Held(h)[i] = Held(g)[j] => h = g /\ i = j

\* Every row of every file was inserted.
AllInserted ==
  /\ ~fatal /\ ~failed
  /\ Rows(applied) = UNION {{<<i, k>> : k \in 1..files[i].pieces} : i \in DOMAIN files}
  /\ inserted = Cardinality(Rows(applied))
==============================================================================
