------------------------------- MODULE Admission -------------------------------
(***************************************************************************)
(* Batch mode into a file (main.go, run and processFile): workers take the *)
(* files by their numbers, each file has a channel for its NDJSON, and one *)
(* writer empties the channels in the order of the files.                  *)
(*                                                                         *)
(* What may wait in the channels is bounded in bytes: a file is admitted   *)
(* if its size fits into what is left of the budget; the file whose turn   *)
(* it is to be written is admitted always, for it does not pile up.        *)
(***************************************************************************)
EXTENDS BatchFiles

CONSTANTS
  Budget,
  SlotCap  \* the capacity of a file's channel, by its size

ASSUME AdmissionBounds == Budget \in Nat

VARIABLES
  nextJob, filesWritten, budgetUsed, charged,  \* under mu; files count from 1
  slot, closed,    \* the channels: chunks in them, and whether they are closed
  job,             \* of a worker: a file, 0 before it has one
  sent,            \* chunks of its file a worker has sent
  pc,              \* of a worker: "acquire", "waiting", "working", "gone"
  writer,          \* "draining", "wakes" (before Broadcast), "flush"
  writerFailed,
  out              \* history: the chunks written

admVars == <<nextJob, filesWritten, budgetUsed, charged, slot, closed, job, sent, pc, writer,
             writerFailed, out>>

mutexed == <<nextJob, filesWritten, budgetUsed, charged>>
channels == <<slot, closed>>
output == <<writerFailed, out>>

AdmInit ==
  /\ nextJob = 1 /\ filesWritten = 0 /\ budgetUsed = 0
  /\ charged = [i \in DOMAIN files |-> 0]
  /\ slot = [i \in DOMAIN files |-> <<>>] /\ closed = [i \in DOMAIN files |-> FALSE]
  /\ job = [w \in Workers |-> 0] /\ sent = [w \in Workers |-> 0]
  /\ pc = Started("acquire")
  /\ writer = "draining" /\ writerFailed = FALSE /\ out = <<>>

-----------------------------------------------------------------------------
(* The workers *)

Take(w, charge) ==
  /\ job' = [job EXCEPT ![w] = nextJob] /\ sent' = [sent EXCEPT ![w] = 0]
  /\ pc' = [pc EXCEPT ![w] = "working"]
  /\ charged' = [charged EXCEPT ![nextJob] = charge] /\ budgetUsed' = budgetUsed + charge
  /\ nextJob' = nextJob + 1

\* It is the next file's turn to be written.
AtHead == nextJob = filesWritten + 1

Fits == files[nextJob].size <= Budget - budgetUsed

\* acquire: the file whose turn it is to be written takes nothing of the budget.
AcquireHead(w) ==
  /\ pc[w] = "acquire" /\ nextJob \in DOMAIN files /\ AtHead
  /\ Take(w, 0)
  /\ UNCHANGED <<fileVars, filesWritten, channels, writer, output>>

\* acquire: a file that fits.
AcquireFits(w) ==
  /\ pc[w] = "acquire" /\ nextJob \in DOMAIN files /\ ~AtHead /\ Fits
  /\ Take(w, files[nextJob].size)
  /\ UNCHANGED <<fileVars, filesWritten, channels, writer, output>>

\* Mutant of AcquireNone: what does not fit waits, head or not.
AcquireNoneUnfit(w) ==
  /\ pc[w] = "acquire"
  /\ nextJob \in DOMAIN files => ~Fits
  /\ pc' = [pc EXCEPT ![w] = IF nextJob \in DOMAIN files THEN "waiting" ELSE "gone"]
  /\ UNCHANGED <<fileVars, mutexed, channels, job, sent, writer, output>>

\* acquire: cond.Wait, or no file is left.
AcquireNone(w) ==
  /\ pc[w] = "acquire"
  /\ nextJob \in DOMAIN files => ~AtHead /\ ~Fits
  /\ pc' = [pc EXCEPT ![w] = IF nextJob \in DOMAIN files THEN "waiting" ELSE "gone"]
  /\ UNCHANGED <<fileVars, mutexed, channels, job, sent, writer, output>>

\* processFile: a chunk goes to the channel, when there is room.
Send(w) ==
  LET f == job[w] IN
  /\ pc[w] = "working" /\ sent[w] < files[f].pieces
  /\ Len(slot[f]) < SlotCap[files[f].size]
  /\ sent' = [sent EXCEPT ![w] = @ + 1]
  /\ slot' = [slot EXCEPT ![f] = Append(@, sent[w] + 1)]
  /\ UNCHANGED <<fileVars, mutexed, closed, job, pc, writer, output>>

\* processFile comes to the end of the file, or the file cannot be opened or read on.
EndFile(w) ==
  LET f == job[w] IN
  /\ pc[w] = "working"
  /\ (sent[w] = files[f].pieces /\ failed' = failed) \/ failed' = TRUE
  /\ closed' = [closed EXCEPT ![f] = TRUE]
  /\ pc' = [pc EXCEPT ![w] = "acquire"]
  /\ UNCHANGED <<files, exit, mutexed, slot, job, sent, writer, output>>

-----------------------------------------------------------------------------
(* The writer *)

Current == filesWritten + 1

\* Mutant of WriteChunk: whatever is there is written.
WriteAny ==
  /\ writer = "draining"
  /\ \E i \in DOMAIN files :
       /\ slot[i] # <<>> /\ slot' = [slot EXCEPT ![i] = Tail(@)]
       /\ out' = Append(out, <<i, slot[i][1]>>)
  /\ UNCHANGED <<fileVars, mutexed, closed, job, sent, pc, writer, writerFailed>>

\* The next chunk of the file in turn; after a failed write they are thrown away.
WriteChunk ==
  /\ writer = "draining" /\ Current \in DOMAIN files /\ slot[Current] # <<>>
  /\ slot' = [slot EXCEPT ![Current] = Tail(@)]
  /\ \/ /\ ~writerFailed /\ out' = Append(out, <<Current, slot[Current][1]>>)
        /\ UNCHANGED writerFailed
     \/ writerFailed' = TRUE /\ UNCHANGED out
  /\ UNCHANGED <<fileVars, mutexed, closed, job, sent, pc, writer>>

\* Mutant of EndSlot: the whole size comes back, charged or not.
EndSlotSize ==
  /\ writer = "draining" /\ Current \in DOMAIN files
  /\ closed[Current] /\ slot[Current] = <<>>
  /\ budgetUsed' = budgetUsed - files[Current].size /\ filesWritten' = filesWritten + 1
  /\ writer' = "wakes"
  /\ UNCHANGED <<fileVars, nextJob, charged, channels, job, sent, pc, output>>

\* Mutant of EndSlot: an empty channel passes for a closed one.
EndSlotEmpty ==
  /\ writer = "draining" /\ Current \in DOMAIN files
  /\ slot[Current] = <<>> /\ nextJob > Current
  /\ budgetUsed' = budgetUsed - charged[Current] /\ filesWritten' = filesWritten + 1
  /\ writer' = "wakes"
  /\ UNCHANGED <<fileVars, nextJob, charged, channels, job, sent, pc, output>>

\* The channel is closed and empty: its share of the budget comes back.
EndSlot ==
  /\ writer = "draining" /\ Current \in DOMAIN files
  /\ closed[Current] /\ slot[Current] = <<>>
  /\ budgetUsed' = budgetUsed - charged[Current] /\ filesWritten' = filesWritten + 1
  /\ writer' = "wakes"
  /\ UNCHANGED <<fileVars, nextJob, charged, channels, job, sent, pc, output>>

Broadcast ==
  /\ writer = "wakes" /\ writer' = "draining"
  /\ pc' = [w \in Workers |-> IF pc[w] = "waiting" THEN "acquire" ELSE pc[w]]
  /\ UNCHANGED <<fileVars, mutexed, channels, job, sent, output>>

\* wg.Wait, the flush and the close of the file, and the exit code.
Finish ==
  /\ writer = "draining" /\ filesWritten = Len(files) /\ exit = -1
  /\ \A w \in Workers : pc[w] = "gone"
  /\ writerFailed' \in {writerFailed, TRUE}
  /\ exit' = IF writerFailed' THEN 1 ELSE ReadCode
  /\ UNCHANGED <<files, failed, mutexed, channels, job, sent, pc, writer, out>>

Worker(w) == AcquireHead(w) \/ AcquireFits(w) \/ AcquireNone(w) \/ Send(w) \/ EndFile(w)
Writer == WriteChunk \/ EndSlot \/ Broadcast \/ Finish
AdmNext == Writer \/ \E w \in Workers : Worker(w)

AdmSpec == FilesInit /\ AdmInit /\ [][AdmNext]_<<fileVars, admVars>>

-----------------------------------------------------------------------------
(* Properties *)

\* Whatever the workers do, the file has the chunks in the order of the files, and
\* those of a file in their own order, none left out before one that is there
\* (format-spec 5: the output does not depend on the number of workers).
OutputInOrder ==
  \A k \in DOMAIN out :
    /\ out[k][1] <= Current
    /\ IF k = 1 \/ out[k][1] # out[k - 1][1]
         THEN out[k][2] = 1 /\ (k > 1 => out[k - 1][1] < out[k][1])
         ELSE out[k][2] = out[k - 1][2] + 1

\* The budget is neither overrun nor leaked: it is what the admitted files that are
\* not yet written were charged.
BudgetExact ==
  /\ budgetUsed = SumFunctionOnSet(charged, {i \in DOMAIN files : i > filesWritten})
  /\ budgetUsed <= Budget

\* The writer is never left alone (main.go: no deadlock is possible): the file it
\* waits for is closed, or in the hands of a worker, or the next to be admitted, and
\* then some worker is awake to take it, or about to be woken: none has gone to
\* sleep before a budget that the head does not need.
HeadIsServed ==
  Current \in DOMAIN files =>
    \/ closed[Current]
    \/ \E w \in Workers : pc[w] = "working" /\ job[w] = Current
    \/ /\ nextJob = Current
       /\ writer = "wakes" \/ \E w \in Workers : pc[w] \in {"acquire", "working"}

\* All of every file was written.
AllWritten ==
  /\ ~writerFailed /\ ~failed
  /\ \A i \in DOMAIN files :
       Cardinality({k \in DOMAIN out : out[k][1] = i}) = files[i].pieces
==============================================================================
