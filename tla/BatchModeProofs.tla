---------------------------- MODULE BatchModeProofs ----------------------------
(***************************************************************************)
(* Batch mode for any files, workers, senders, budget and capacities.      *)
(* Part 1: the files there are.                                            *)
(* Part 2: into a file.  The order of the output does not depend on how    *)
(* the workers are scheduled, the writer is never left waiting for a file  *)
(* that nobody will bring, and the budget is neither overrun nor leaked.   *)
(* Part 3: into ClickHouse.  No row is in two places, in memory or in the  *)
(* table, and no more rows count as inserted than are there.               *)
(* Part 4: the exit code 0 is true.                                        *)
(***************************************************************************)
EXTENDS BatchMode, DataFacts

-----------------------------------------------------------------------------
(* Part 1: the files *)

\* A sequence with one element more.
LEMMA Appended ==
  ASSUME NEW T, NEW q \in Seq(T), NEW e \in T, NEW r, r = Append(q, e)
  PROVE  /\ r \in Seq(T) /\ Len(q) \in Nat /\ Len(r) = Len(q) + 1 /\ r # <<>>
         /\ DOMAIN q = 1 .. Len(q) /\ DOMAIN r = 1 .. Len(q) + 1
         /\ \A k \in 1 .. Len(q) : r[k] = q[k]
         /\ r[Len(q) + 1] = e
OBVIOUS

\* FindLogFiles gives every log of the walk once, in the order of Before: it is the walk
\* read along a bijection.
THEOREM LogsOrdered ==
  ASSUME NEW walk \in Seq(Entry), NEW logs,
         logs = {i \in DOMAIN walk : walk[i].kind = "log" /\ walk[i].size >= MinFileSize}
  PROVE  /\ IsFiniteSet(logs)
         /\ \E at \in Bijection(1 .. Cardinality(logs), logs) :
              /\ FindLogFiles(walk) = [k \in 1 .. Cardinality(logs) |-> walk[at[k]]]
              /\ \A k, m \in 1 .. Cardinality(logs) : k < m => Before(walk, at[k], at[m])
<1> DEFINE Earlier(i) == {j \in logs : Before(walk, j, i)}
           Place(i) == Cardinality(Earlier(i)) + 1
           place == [i \in logs |-> Place(i)]
           N == 1 .. Cardinality(logs)
<1>1. \A i \in logs : i \in Nat /\ i \in DOMAIN walk /\ walk[i].size \in Nat
  <2>1. \A i \in DOMAIN walk : i \in Nat /\ walk[i] \in Entry
    OBVIOUS
  <2>2. \A e \in Entry : e.size \in Nat
    BY DEF Entry
  <2> QED BY <2>1, <2>2
<1>2. IsFiniteSet(logs) /\ Cardinality(logs) \in Nat
  <2>1. DOMAIN walk = 1 .. Len(walk) /\ Len(walk) \in Nat
    OBVIOUS
  <2>2. IsFiniteSet(1 .. Len(walk)) /\ logs \in SUBSET (1 .. Len(walk))
    BY <2>1, FS_Interval
  <2> QED BY <2>2, FS_Subset, FS_CardinalityType
<1>3. \A i, j \in logs : i # j => Before(walk, i, j) \/ Before(walk, j, i)
  BY <1>1 DEF Before
<1>4. \A i, j, k \in logs : Before(walk, i, j) /\ Before(walk, j, k) => Before(walk, i, k)
  BY <1>1 DEF Before
<1>5. \A i \in logs : ~Before(walk, i, i)
  BY <1>1 DEF Before
<1>6. \A i \in logs : /\ IsFiniteSet(Earlier(i)) /\ Cardinality(Earlier(i)) \in Nat
                      /\ Place(i) \in N
  <2>1. ASSUME NEW i \in logs
        PROVE  IsFiniteSet(Earlier(i)) /\ Cardinality(Earlier(i)) \in Nat /\ Place(i) \in N
    <3>1. Earlier(i) \in SUBSET (logs \ {i})
      BY <1>5
    <3>2. IsFiniteSet(logs \ {i}) /\ Cardinality(logs \ {i}) = Cardinality(logs) - 1
      BY <1>2, FS_RemoveElement
    <3> HIDE DEF Earlier
    <3>3. /\ IsFiniteSet(Earlier(i)) /\ Cardinality(Earlier(i)) \in Nat
          /\ Cardinality(Earlier(i)) <= Cardinality(logs) - 1
      BY <3>1, <3>2, FS_Subset, FS_CardinalityType
    <3> QED BY <1>2, <3>3
  <2> QED BY <2>1
<1>7. \A i, j \in logs : Before(walk, i, j) => Place(i) < Place(j)
  <2>1. ASSUME NEW i \in logs, NEW j \in logs, Before(walk, i, j) PROVE Place(i) < Place(j)
    <3>1. Earlier(i) \cup {i} \in SUBSET Earlier(j) /\ i \notin Earlier(i)
      BY <1>4, <1>5, <2>1
    <3> HIDE DEF Earlier
    <3>2. Cardinality(Earlier(i) \cup {i}) = Cardinality(Earlier(i)) + 1
      BY <1>6, <3>1, FS_AddElement
    <3>3. Cardinality(Earlier(i) \cup {i}) <= Cardinality(Earlier(j))
      BY <1>6, <3>1, FS_Subset
    <3>4. \A a, b \in Nat : a + 1 <= b => a + 1 < b + 1
      OBVIOUS
    <3>5. Cardinality(Earlier(i)) \in Nat /\ Cardinality(Earlier(j)) \in Nat
      BY <1>6
    <3> QED BY <3>2, <3>3, <3>4, <3>5
  <2> QED BY <2>1
<1> HIDE DEF Earlier
<1>8. \A i \in logs : place[i] = Place(i) /\ Place(i) \in Nat
  <2>1. \A i \in logs : Place(i) \in Nat
    <3>1. \A n \in N : n \in Nat
      BY <1>2
    <3> HIDE DEF N, Place
    <3> QED BY <1>6, <3>1
  <2> HIDE DEF Place
  <2> QED BY <2>1
<1>9. \A i, j \in logs : place[i] = place[j] => i = j
  <2>1. \A n \in Nat : ~(n < n)
    OBVIOUS
  <2> HIDE DEF Place, place
  <2> QED BY <1>3, <1>7, <1>8, <2>1
<1>10. place \in Injection(logs, N)
  <2>1. place \in [logs -> N]
    BY <1>6
  <2> HIDE DEF place, N
  <2> QED BY <1>9, <2>1 DEF Injection, IsInjective
<1>11. place \in Surjection(logs, N)
  <2>1. IsFiniteSet(N) /\ Cardinality(N) = Cardinality(logs)
    BY <1>2, FS_Interval
  <2> HIDE DEF place, N
  <2> QED BY <1>10, <2>1, FS_Injection
<1> DEFINE at == [k \in N |-> CHOOSE i \in logs : Place(i) = k]
<1>12. \A k \in N : at[k] \in logs /\ Place(at[k]) = k
  <2>1. \A k \in N : \E i \in logs : Place(i) = k
    <3>1. \A k \in N : \E i \in logs : place[i] = k
      <4> HIDE DEF place, N
      <4> QED BY <1>11 DEF Surjection
    <3> QED BY <1>8, <3>1
  <2> QED BY <2>1
<1>13. at \in Bijection(N, logs)
  <2>1. at \in [N -> logs]
    <3> HIDE DEF Place
    <3> QED BY <1>12
  <2>2. \A k, m \in N : at[k] = at[m] => k = m
    <3> HIDE DEF Place, at
    <3> QED BY <1>12
  <2>3. \A i \in logs : \E k \in N : at[k] = i
    <3>1. ASSUME NEW i \in logs PROVE at[Place(i)] = i /\ Place(i) \in N
      <4>1. at[Place(i)] \in logs /\ Place(at[Place(i)]) = Place(i) /\ Place(i) \in N
        BY <1>6, <1>12
      <4> HIDE DEF at
      <4> QED BY <1>8, <1>9, <4>1
    <3> QED BY <3>1
  <2> HIDE DEF at, N
  <2> QED BY <2>1, <2>2, <2>3 DEF Bijection, Injection, IsInjective, Surjection
<1>14. FindLogFiles(walk) = [k \in N |-> walk[at[k]]]
  BY DEF FindLogFiles, Earlier
<1>15. \A k, m \in N : k < m => Before(walk, at[k], at[m])
  <2>1. ASSUME NEW k \in N, NEW m \in N, k < m PROVE Before(walk, at[k], at[m])
    <3>1. at[k] # at[m] /\ ~(Place(at[m]) < Place(at[k]))
      <4> HIDE DEF at, Place
      <4> QED BY <1>12, <2>1
    <3> HIDE DEF at, Place
    <3> QED BY <1>3, <1>7, <1>12, <3>1
  <2> QED BY <2>1
<1> HIDE DEF at
<1> QED BY <1>2, <1>13, <1>14, <1>15

\* What is found is a sequence of entries.
LEMMA FilesTyped ==
  ASSUME NEW walk \in Seq(Entry)
  PROVE  FindLogFiles(walk) \in Seq(Entry)
<1>1. PICK logs : logs = {i \in DOMAIN walk : walk[i].kind = "log" /\ walk[i].size >= MinFileSize}
  OBVIOUS
<1>2. PICK n, at : /\ n = Cardinality(logs) /\ at \in Bijection(1 .. n, logs)
                   /\ FindLogFiles(walk) = [k \in 1 .. n |-> walk[at[k]]]
  <2>1. PICK at \in Bijection(1 .. Cardinality(logs), logs) :
               FindLogFiles(walk) = [k \in 1 .. Cardinality(logs) |-> walk[at[k]]]
    <3>1. \E at \in Bijection(1 .. Cardinality(logs), logs) :
            /\ FindLogFiles(walk) = [k \in 1 .. Cardinality(logs) |-> walk[at[k]]]
            /\ \A k, m \in 1 .. Cardinality(logs) : k < m => Before(walk, at[k], at[m])
      BY <1>1, LogsOrdered
    <3> QED BY <3>1
  <2> QED BY <2>1
<1>3. n \in Nat
  BY <1>1, <1>2, LogsOrdered, FS_CardinalityType
<1>4. \A k \in 1 .. n : walk[at[k]] \in Entry
  BY <1>1, <1>2 DEF Bijection, Injection
<1> QED BY <1>2, <1>3, <1>4

\* Nothing that happens in ClickHouse mode touches the files.
LEMMA SinkKeepsFiles == BsNext => UNCHANGED files
<1>1. \A w \in Workers : ChWorker(w) => UNCHANGED files
  BY DEF ChWorker, NextFile, Parse, EndRows, FlushSlab, fileVars
<1>2. \A s \in Senders : Sender(s) => UNCHANGED files
  BY DEF Sender, Begin, Succeed, Fail, fileVars
<1>3. Batcher \/ CloseIn \/ FinishSink => UNCHANGED files
  BY DEF Batcher, Receive, Fill, Flush, TakeBuffer, EndInput, Hand, CloseIn, FinishSink,
         fileVars
<1> QED BY <1>1, <1>2, <1>3 DEF BsNext

\* Failures of reading are not forgotten.
LEMMA SinkFails == BsNext => (failed => failed')
<1>1. \A w \in Workers : ChWorker(w) => (failed => failed')
  BY DEF ChWorker, NextFile, Parse, EndRows, FlushSlab, fileVars
<1>2. \A s \in Senders : Sender(s) => UNCHANGED failed
  BY DEF Sender, Begin, Succeed, Fail, fileVars
<1>3. Batcher \/ CloseIn \/ FinishSink => UNCHANGED failed
  BY DEF Batcher, Receive, Fill, Flush, TakeBuffer, EndInput, Hand, CloseIn, FinishSink,
         fileVars
<1> QED BY <1>1, <1>2, <1>3 DEF BsNext

-----------------------------------------------------------------------------
(* Part 2: into a file *)

Places == {"acquire", "waiting", "working", "gone"}

AdmTypes ==
  /\ nextJob \in Nat /\ filesWritten \in Nat
  /\ slot \in [DOMAIN files -> Seq(Nat)] /\ closed \in [DOMAIN files -> BOOLEAN]
  /\ job \in [Workers -> Nat] /\ sent \in [Workers -> Nat] /\ pc \in [Workers -> Places]
  /\ writerFailed \in BOOLEAN /\ out \in Seq(Nat \X Nat)

\* Files that are taken and not yet written.
Underway == Current .. nextJob - 1

\* Every file underway is finished or has one worker; the others have nobody yet.
Owned ==
  /\ Current <= nextJob
  /\ \A i \in 1 .. nextJob - 1 : i \in DOMAIN files
  /\ \A i \in DOMAIN files : closed[i] => i \in 1 .. nextJob - 1
  /\ \A w \in Workers : pc[w] = "working" => job[w] \in Underway /\ ~closed[job[w]]
  /\ \A w, v \in Workers :
       pc[w] = "working" /\ pc[v] = "working" /\ job[w] = job[v] => w = v
  /\ \A i \in Underway : closed[i] \/ \E w \in Workers : pc[w] = "working" /\ job[w] = i

\* Nobody sleeps while the next file is the one the writer waits for, unless the writer
\* is about to wake them; nobody leaves while there are files.
Awake ==
  /\ \A w \in Workers : pc[w] = "waiting" => writer = "wakes" \/ nextJob # Current
  /\ \A w \in Workers : pc[w] = "gone" => nextJob \notin DOMAIN files

\* The chunks of file i that are in the output, if it is the last one there.
Put(i) == IF out # <<>> /\ out[Len(out)][1] = i THEN out[Len(out)][2] ELSE 0

\* A channel goes on where the output stopped, and its worker where the channel stops.
Aligned(i) ==
  /\ \A k \in DOMAIN slot[i] : slot[i][k] = Put(i) + k
  /\ \A w \in Workers : pc[w] = "working" /\ job[w] = i => sent[w] = Put(i) + Len(slot[i])

Chunks ==
  /\ \A i \in DOMAIN files : i \notin 1 .. nextJob - 1 => slot[i] = <<>>
  /\ \A i \in Underway : i # Current \/ ~writerFailed => Aligned(i)
  /\ \A k \in DOMAIN out : out[k][1] < nextJob

\* The inductive invariant of Admission.
AdmInv == AdmTypes /\ Owned /\ Awake /\ Chunks /\ OutputInOrder

-----------------------------------------------------------------------------
(* Admission: the workers *)

\* Nothing is taken, sent or written at the start.
LEMMA InitAdmInv == BatchInit => AdmInv
<1> SUFFICES ASSUME BatchInit PROVE AdmInv
  OBVIOUS
<1>1. /\ nextJob = 1 /\ filesWritten = 0 /\ out = <<>> /\ writerFailed = FALSE
      /\ slot = [i \in DOMAIN files |-> <<>>] /\ closed = [i \in DOMAIN files |-> FALSE]
      /\ job = [w \in Workers |-> 0] /\ sent = [w \in Workers |-> 0]
      /\ pc = [w \in Workers |-> IF files = <<>> THEN "gone" ELSE "acquire"]
  BY DEF BatchInit, AdmInit, Started
<1>2. AdmTypes
  <2>1. <<>> \in Seq(Nat) /\ <<>> \in Seq(Nat \X Nat)
    OBVIOUS
  <2>2. pc \in [Workers -> Places]
    BY <1>1 DEF Places
  <2> QED BY <1>1, <2>1, <2>2 DEF AdmTypes
<1>3. Owned /\ Awake
  <2>1. \A w \in Workers : pc[w] = "gone" => files = <<>>
    BY <1>1
  <2>2. files = <<>> => 1 \notin DOMAIN files
    OBVIOUS
  <2>3. \A w \in Workers : pc[w] # "working" /\ pc[w] # "waiting"
    BY <1>1
  <2> QED BY <1>1, <2>1, <2>2, <2>3 DEF Owned, Awake, Underway, Current
<1>4. Chunks /\ OutputInOrder
  BY <1>1 DEF Chunks, Underway, Current, OutputInOrder
<1> QED BY <1>2, <1>3, <1>4 DEF AdmInv

\* Steps of batch mode into ClickHouse, and the end, do not touch admission.
LEMMA IdleAdm ==
  ASSUME AdmInv,
         UNCHANGED <<files, nextJob, filesWritten, slot, closed, job, sent, pc, writer, out>>,
         writerFailed' \in {writerFailed, TRUE}
  PROVE  AdmInv'
<1>1. AdmTypes' /\ Owned' /\ Awake' /\ OutputInOrder'
  BY DEF AdmInv, AdmTypes, Owned, Underway, Current, Awake, OutputInOrder
<1>2. \A i : Aligned(i)' <=> Aligned(i)
  BY DEF Aligned, Put
<1>3. Chunks'
  BY <1>2 DEF AdmInv, AdmTypes, Chunks, Underway, Current
<1> QED BY <1>1, <1>3 DEF AdmInv

\* A worker takes the next file.
LEMMA TakeAdm ==
  ASSUME AdmInv, NEW w \in Workers, NEW n, Take(w, n), pc[w] = "acquire", nextJob \in DOMAIN files,
         UNCHANGED <<files, filesWritten, slot, closed, writer, writerFailed, out>>
  PROVE  AdmInv'
<1>1. /\ AdmTypes /\ nextJob \in Nat /\ filesWritten \in Nat /\ nextJob' = nextJob + 1
      /\ \A v \in Workers : /\ job'[v] = IF v = w THEN nextJob ELSE job[v]
                            /\ sent'[v] = IF v = w THEN 0 ELSE sent[v]
                            /\ pc'[v] = IF v = w THEN "working" ELSE pc[v]
      /\ Current' = Current /\ Current = filesWritten + 1 /\ Current <= nextJob
  BY DEF AdmInv, AdmTypes, Take, Current, Owned
<1>2. AdmTypes'
  BY <1>1 DEF AdmTypes, Take, Places
<1>3. slot[nextJob] = <<>> /\ ~closed[nextJob]
  BY <1>1 DEF AdmInv, Owned, Chunks
<1>4. \A i : i \in Underway' <=> i \in Underway \/ i = nextJob
  BY <1>1 DEF Underway
<1>5. Owned'
  <2>1. \A i \in 1 .. nextJob' - 1 : i \in 1 .. nextJob - 1 \/ i = nextJob
    BY <1>1
  <2>2. \A i \in 1 .. nextJob - 1 : i \in 1 .. nextJob' - 1
    BY <1>1
  <2>3. \A v \in Workers : pc[v] = "working" => job[v] \in Underway /\ job[v] # nextJob
    BY <1>1 DEF AdmInv, Owned, Underway
  <2>4. \A v \in Workers : pc[v] = "working" => v # w
    OBVIOUS
  <2>5. Current' <= nextJob'
    BY <1>1
  <2> QED BY <1>1, <1>3, <1>4, <2>1, <2>2, <2>3, <2>4, <2>5 DEF AdmInv, Owned
<1>6. Awake'
  <2>1. nextJob' # Current'
    BY <1>1
  <2>2. \A v \in Workers : pc[v] # "gone"
    BY DEF AdmInv, Awake
  <2> QED BY <1>1, <2>1, <2>2 DEF Awake
<1>7. \A i : Put(i)' = Put(i)
  BY DEF Put
<1>8. Chunks'
  <2>1. Put(nextJob) = 0
    <3>1. out # <<>> => Len(out) \in DOMAIN out
      BY <1>1 DEF AdmTypes
    <3>2. out # <<>> => out[Len(out)][1] # nextJob
      BY <1>1, <3>1 DEF AdmInv, Chunks, AdmTypes
    <3> QED BY <3>2 DEF Put
  <2>2. ASSUME NEW i, i = nextJob PROVE Aligned(i)'
    <3>1. \A v \in Workers : v # w /\ pc[v] = "working" => job[v] # nextJob
      BY <1>1 DEF AdmInv, Owned, Underway
    <3> QED BY <1>1, <1>3, <1>7, <2>1, <2>2, <3>1 DEF Aligned
  <2>3. ASSUME NEW i \in Underway, Aligned(i) PROVE Aligned(i)'
    <3>1. i # nextJob
      BY <1>1 DEF Underway
    <3> QED BY <1>1, <1>7, <2>3, <3>1 DEF Aligned
  <2>4. \A i \in DOMAIN files : i \notin 1 .. nextJob' - 1 => i \notin 1 .. nextJob - 1
    BY <1>1
  <2>5. \A k \in DOMAIN out : out[k][1] < nextJob'
    BY <1>1 DEF AdmInv, AdmTypes, Chunks
  <2> QED BY <1>1, <1>4, <2>2, <2>3, <2>4, <2>5 DEF AdmInv, Chunks
<1>9. OutputInOrder'
  BY <1>1 DEF AdmInv, OutputInOrder
<1> QED BY <1>2, <1>5, <1>6, <1>8, <1>9 DEF AdmInv

\* A worker that gets none goes to sleep, or leaves.
LEMMA AcquireNoneAdm ==
  ASSUME AdmInv, NEW w \in Workers, AcquireNone(w)
  PROVE  AdmInv'
<1>1. /\ UNCHANGED <<files, nextJob, filesWritten, slot, closed, job, sent, writer,
                     writerFailed, out>>
      /\ pc[w] = "acquire"
      /\ \A v \in Workers : v # w => pc'[v] = pc[v]
      /\ pc'[w] = IF nextJob \in DOMAIN files THEN "waiting" ELSE "gone"
      /\ nextJob \in DOMAIN files => nextJob # Current
      /\ pc' \in [Workers -> Places]
  BY DEF AcquireNone, AdmInv, AdmTypes, Places, mutexed, channels, output, fileVars, AtHead, Current
<1>2. \A v \in Workers : pc'[v] = "working" <=> pc[v] = "working"
  BY <1>1
<1>3. AdmTypes' /\ Owned' /\ Awake' /\ OutputInOrder'
  BY <1>1, <1>2 DEF AdmInv, AdmTypes, Owned, Underway, Current, Awake, OutputInOrder
<1>4. \A i : Aligned(i)' <=> Aligned(i)
  BY <1>1, <1>2 DEF Aligned, Put
<1>5. Chunks'
  BY <1>1, <1>4 DEF AdmInv, Chunks, Underway, Current
<1> QED BY <1>3, <1>5 DEF AdmInv

\* A chunk goes into the channel of the worker's file.
LEMMA SendAdm ==
  ASSUME AdmInv, NEW w \in Workers, Send(w)
  PROVE  AdmInv'
<1>1. PICK f : f = job[w]
  OBVIOUS
<1>2. /\ UNCHANGED <<files, nextJob, filesWritten, closed, job, pc, writer, writerFailed, out>>
      /\ pc[w] = "working" /\ f \in Underway /\ f \in DOMAIN files
      /\ sent' = [sent EXCEPT ![w] = @ + 1]
      /\ slot' = [slot EXCEPT ![f] = Append(slot[f], sent[w] + 1)]
  <2>1. f \in Underway => f \in 1 .. nextJob - 1
    BY DEF AdmInv, AdmTypes, Underway, Current
  <2> QED BY <1>1, <2>1 DEF Send, AdmInv, Owned, fileVars, mutexed, output
<1>3. /\ AdmTypes /\ slot[f] \in Seq(Nat) /\ sent[w] \in Nat /\ Put(f) \in Nat
      /\ \A i \in DOMAIN files : slot'[i] = IF i = f THEN Append(slot[f], sent[w] + 1) ELSE slot[i]
      /\ \A v \in Workers : sent'[v] = IF v = w THEN sent[w] + 1 ELSE sent[v]
  <2>1. out # <<>> => Len(out) \in DOMAIN out /\ out[Len(out)] \in Nat \X Nat
    BY DEF AdmInv, AdmTypes
  <2>2. Put(f) \in Nat
    BY <2>1 DEF Put
  <2> QED BY <1>2, <2>2 DEF AdmInv, AdmTypes
<1>4. AdmTypes'
  BY <1>2, <1>3 DEF AdmTypes
<1>5. Owned' /\ Awake' /\ OutputInOrder'
  BY <1>2 DEF AdmInv, Owned, Underway, Current, Awake, OutputInOrder
<1>6. \A i : Put(i)' = Put(i)
  BY <1>2 DEF Put
<1>7. ASSUME NEW i \in Underway, i \in DOMAIN files, Aligned(i) PROVE Aligned(i)'
  <2>1. CASE i # f
    BY <1>1, <1>2, <1>3, <1>6, <1>7, <2>1 DEF Aligned
  <2>2. CASE i = f
    <3>1. sent[w] = Put(f) + Len(slot[f])
      BY <1>1, <1>2, <1>7, <2>2 DEF Aligned
    <3>2. \A v \in Workers : pc[v] = "working" /\ job[v] = f => v = w
      BY <1>1, <1>2 DEF AdmInv, Owned
    <3>3. PICK s : s = slot'[f]
      OBVIOUS
    <3>4. /\ Len(s) = Len(slot[f]) + 1
          /\ DOMAIN slot[f] = 1 .. Len(slot[f]) /\ DOMAIN s = 1 .. Len(slot[f]) + 1
          /\ \A k \in DOMAIN slot[f] : s[k] = slot[f][k]
          /\ s[Len(slot[f]) + 1] = sent[w] + 1
      <4>1. s = Append(slot[f], sent[w] + 1)
        <5>1. f \in DOMAIN files
          BY <1>2
        <5> QED BY <1>3, <3>3, <5>1
      <4>2. sent[w] + 1 \in Nat
        BY <1>3
      <4> QED BY <1>3, <4>1, <4>2, Appended
    <3>5. ASSUME NEW k \in DOMAIN s PROVE s[k] = Put(f) + k
      <4>1. CASE k \in DOMAIN slot[f]
        BY <1>7, <2>2, <3>4, <4>1 DEF Aligned
      <4>2. CASE k \notin DOMAIN slot[f]
        <5>1. k = Len(slot[f]) + 1
          BY <1>3, <3>4, <4>2
        <5> QED BY <1>3, <3>1, <3>4, <5>1
      <4> QED BY <4>1, <4>2
    <3>6. sent[w] + 1 = Put(f) + Len(s)
      BY <1>3, <3>1, <3>4
    <3> QED BY <1>2, <1>3, <1>6, <2>2, <3>2, <3>3, <3>5, <3>6 DEF Aligned
  <2> QED BY <2>1, <2>2
<1>8. Chunks'
  <2>1. \A i \in Underway : i \in DOMAIN files
    BY <1>3 DEF AdmInv, Owned, Underway, AdmTypes, Current
  <2>2. \A i \in DOMAIN files : i \notin 1 .. nextJob - 1 => i # f
    BY <1>2, <1>3 DEF Underway, AdmTypes, Current
  <2> QED BY <1>2, <1>3, <1>7, <2>1, <2>2 DEF AdmInv, Chunks, Underway, Current
<1> QED BY <1>4, <1>5, <1>8 DEF AdmInv

\* A file ends, or breaks off.
LEMMA EndFileAdm ==
  ASSUME AdmInv, NEW w \in Workers, EndFile(w)
  PROVE  AdmInv'
<1>1. PICK f : f = job[w]
  OBVIOUS
<1>2. /\ UNCHANGED <<files, nextJob, filesWritten, slot, job, sent, writer, writerFailed, out>>
      /\ pc[w] = "working" /\ f \in Underway /\ f \in DOMAIN files /\ f \in 1 .. nextJob - 1
      /\ closed' = [closed EXCEPT ![f] = TRUE]
      /\ pc' = [pc EXCEPT ![w] = "acquire"]
  <2>1. f \in Underway => f \in 1 .. nextJob - 1
    BY DEF AdmInv, AdmTypes, Underway, Current
  <2> QED BY <1>1, <2>1 DEF EndFile, AdmInv, Owned, mutexed, output
<1>3. /\ AdmTypes /\ pc' \in [Workers -> Places] /\ closed' \in [DOMAIN files -> BOOLEAN]
      /\ \A i \in DOMAIN files : closed'[i] <=> closed[i] \/ i = f
      /\ \A v \in Workers : pc'[v] = IF v = w THEN "acquire" ELSE pc[v]
  BY <1>2 DEF AdmInv, AdmTypes, Places
<1>4. AdmTypes'
  BY <1>2, <1>3 DEF AdmTypes
<1>5. Owned'
  <2>1. \A v \in Workers : v # w /\ pc[v] = "working" => job[v] # f
    BY <1>1, <1>2 DEF AdmInv, Owned
  <2>2. \A i \in Underway : i \in DOMAIN files
    BY <1>3 DEF AdmInv, Owned, Underway, AdmTypes, Current
  <2>3. ASSUME NEW i \in Underway
        PROVE  closed'[i] \/ \E v \in Workers : pc'[v] = "working" /\ job[v] = i
    <3>1. CASE i = f
      BY <1>3, <2>2, <3>1
    <3>2. CASE i # f
      <4>1. closed[i] \/ \E v \in Workers : pc[v] = "working" /\ job[v] = i
        BY DEF AdmInv, Owned
      <4> QED BY <1>1, <1>3, <2>2, <3>2, <4>1
    <3> QED BY <3>1, <3>2
  <2>4. ASSUME NEW v \in Workers, pc'[v] = "working"
        PROVE  job[v] \in Underway /\ ~closed'[job[v]] /\ pc[v] = "working"
    BY <1>3, <2>1, <2>2, <2>4 DEF AdmInv, Owned
  <2> QED BY <1>2, <1>3, <2>3, <2>4 DEF AdmInv, Owned, Underway, Current
<1>6. Awake' /\ OutputInOrder'
  BY <1>2, <1>3 DEF AdmInv, Awake, Current, OutputInOrder
<1>7. \A i : Aligned(i) => Aligned(i)'
  BY <1>2, <1>3 DEF Aligned, Put
<1>8. Chunks'
  BY <1>2, <1>7 DEF AdmInv, Chunks, Underway, Current
<1> QED BY <1>4, <1>5, <1>6, <1>8 DEF AdmInv

-----------------------------------------------------------------------------
(* Admission: the writer *)

\* A chunk goes to the output, or is thrown away after a failed write.
LEMMA WriteChunkAdm ==
  ASSUME AdmInv, WriteChunk
  PROVE  AdmInv'
<1>1. PICK f : f = Current
  OBVIOUS
<1>2. /\ UNCHANGED <<files, nextJob, filesWritten, closed, job, sent, pc, writer>>
      /\ f \in DOMAIN files /\ slot[f] # <<>> /\ slot' = [slot EXCEPT ![f] = Tail(slot[f])]
      /\ \/ ~writerFailed /\ out' = Append(out, <<f, slot[f][1]>>) /\ writerFailed' = writerFailed
         \/ writerFailed' = TRUE /\ out' = out
  BY <1>1 DEF WriteChunk, fileVars, mutexed
<1>3. /\ AdmTypes /\ slot[f] \in Seq(Nat) /\ f \in Nat /\ f \in 1 .. nextJob - 1 /\ f \in Underway
      /\ nextJob \in Nat
      /\ \A i \in DOMAIN files : slot'[i] = IF i = f THEN Tail(slot[f]) ELSE slot[i]
  <2>1. f \in 1 .. nextJob - 1
    BY <1>2 DEF AdmInv, Chunks
  <2> QED BY <1>1, <1>2, <2>1 DEF AdmInv, AdmTypes, Current, Underway
<1>4. PICK s, t : s = slot[f] /\ t = Tail(s)
  OBVIOUS
<1>5. /\ s \in Seq(Nat) /\ t \in Seq(Nat) /\ 1 \in DOMAIN s /\ s[1] \in Nat
      /\ Len(t) = Len(s) - 1 /\ \A k \in DOMAIN t : k + 1 \in DOMAIN s /\ t[k] = s[k + 1]
  BY <1>2, <1>3, <1>4
<1>6. AdmTypes'
  <2>1. slot' \in [DOMAIN files -> Seq(Nat)]
    BY <1>2, <1>4, <1>5 DEF AdmInv, AdmTypes
  <2>2. out' \in Seq(Nat \X Nat)
    <3>1. <<f, slot[f][1]>> \in Nat \X Nat
      BY <1>3, <1>4, <1>5
    <3>2. Append(out, <<f, slot[f][1]>>) \in Seq(Nat \X Nat)
      BY <1>3, <3>1, Appended DEF AdmTypes
    <3> QED BY <1>2, <1>3, <3>2 DEF AdmTypes
  <2> QED BY <1>2, <1>3, <2>1, <2>2 DEF AdmTypes
<1>7. Owned' /\ Awake'
  BY <1>2 DEF AdmInv, Owned, Underway, Current, Awake
<1>8. \A i \in DOMAIN files : i \notin 1 .. nextJob - 1 => slot'[i] = <<>>
  BY <1>3 DEF AdmInv, Chunks
<1>9. \A i \in Underway : i \in DOMAIN files
  BY <1>3 DEF AdmInv, Owned, Underway, AdmTypes, Current
<1>10. CASE writerFailed' = TRUE /\ out' = out
  <2>1. \A i : Put(i)' = Put(i)
    BY <1>10 DEF Put
  <2>2. ASSUME NEW i \in Underway, i # f PROVE Aligned(i)'
    <3>1. Aligned(i)
      BY <1>1, <2>2 DEF AdmInv, Chunks
    <3> QED BY <1>2, <1>3, <1>9, <2>1, <2>2, <3>1 DEF Aligned
  <2>3. Chunks'
    BY <1>1, <1>2, <1>8, <1>10, <2>2 DEF AdmInv, Chunks, Underway, Current
  <2>4. OutputInOrder'
    BY <1>2, <1>10 DEF AdmInv, OutputInOrder, Current
  <2> QED BY <1>6, <1>7, <2>3, <2>4 DEF AdmInv
<1>11. CASE ~writerFailed /\ out' = Append(out, <<f, slot[f][1]>>) /\ writerFailed' = writerFailed
  <2>1. PICK n, o : n = Len(out) /\ o = out'
    OBVIOUS
  <2>2. /\ out \in Seq(Nat \X Nat) /\ n \in Nat /\ o = Append(out, <<f, s[1]>>)
        /\ Len(o) = n + 1 /\ o # <<>> /\ o[n + 1] = <<f, s[1]>>
        /\ DOMAIN out = 1 .. n /\ DOMAIN o = 1 .. n + 1
        /\ \A k \in 1 .. n : o[k] = out[k] /\ out[k] \in Nat \X Nat
    <3>1. <<f, s[1]>> \in Nat \X Nat /\ o = Append(out, <<f, s[1]>>)
      BY <1>3, <1>4, <1>5, <1>11, <2>1
    <3>2. out \in Seq(Nat \X Nat)
      BY <1>3 DEF AdmTypes
    <3>3. \A k \in 1 .. n : out[k] \in Nat \X Nat
      BY <2>1, <3>2
    <3> HIDE DEF AdmInv
    <3> QED BY <2>1, <3>1, <3>2, <3>3, Appended
  <2>3. Aligned(f)
    BY <1>1, <1>3, <1>11 DEF AdmInv, Chunks
  <2>4. s[1] = Put(f) + 1
    BY <1>4, <1>5, <2>3 DEF Aligned
  <2>5. Put(f) \in Nat
    BY <2>1, <2>2 DEF Put
  <2>6. \A i : Put(i)' = IF i = f THEN s[1] ELSE 0
    BY <2>1, <2>2 DEF Put
  <2>7. Aligned(f)'
    <3>1. \A k \in DOMAIN t : t[k] = s[1] + k
      <4>1. ASSUME NEW k \in DOMAIN t PROVE t[k] = s[1] + k
        <5>1. s[k + 1] = Put(f) + (k + 1)
          BY <1>4, <1>5, <2>3 DEF Aligned
        <5>2. k \in Nat
          BY <1>5
        <5> QED BY <1>5, <2>4, <2>5, <5>1, <5>2
      <4> QED BY <4>1
    <3>2. ASSUME NEW v \in Workers, pc[v] = "working", job[v] = f PROVE sent[v] = s[1] + Len(t)
      <4>1. sent[v] = Put(f) + Len(s)
        BY <1>4, <2>3, <3>2 DEF Aligned
      <4>2. Len(s) \in Nat
        BY <1>5
      <4> QED BY <1>5, <2>4, <2>5, <4>1, <4>2
    <3> QED BY <1>2, <1>3, <1>4, <2>6, <3>1, <3>2 DEF Aligned
  <2>8. ASSUME NEW i \in Underway, i # f PROVE Aligned(i)'
    <3>1. Aligned(i) /\ i > f
      BY <1>1, <1>3, <2>8 DEF AdmInv, AdmTypes, Chunks, Underway
    <3>2. Put(i) = 0
      <4>1. out # <<>> => n \in 1 .. n
        BY <2>1, <2>2
      <4>2. out # <<>> => out[n][1] <= f /\ out[n][1] \in Nat
        BY <1>1, <2>2, <4>1 DEF AdmInv, OutputInOrder
      <4> QED BY <1>3, <2>1, <3>1, <4>2 DEF Put, Underway
    <3> QED BY <1>2, <1>3, <1>9, <2>6, <2>8, <3>1, <3>2 DEF Aligned
  <2>9. Chunks'
    <3>1. \A k \in DOMAIN o : o[k][1] < nextJob
      <4>1. ASSUME NEW k \in DOMAIN o PROVE o[k][1] < nextJob
        <5>1. CASE k \in 1 .. n
          BY <2>2, <5>1 DEF AdmInv, Chunks
        <5>2. CASE k \notin 1 .. n
          <6>1. k = n + 1
            BY <2>2, <5>2
          <6> QED BY <1>3, <2>2, <6>1
        <5> QED BY <5>1, <5>2
      <4> QED BY <4>1
    <3>2. \A i \in Underway : Aligned(i)'
      BY <2>7, <2>8
    <3> QED BY <1>2, <1>8, <2>1, <3>1, <3>2 DEF Chunks, Underway, Current
  <2>10. OutputInOrder'
    <3>1. ASSUME NEW k \in DOMAIN o
          PROVE  /\ o[k][1] <= f
                 /\ IF k = 1 \/ o[k][1] # o[k - 1][1]
                      THEN o[k][2] = 1 /\ (k > 1 => o[k - 1][1] < o[k][1])
                      ELSE o[k][2] = o[k - 1][2] + 1
      <4>1. CASE k \in 1 .. n
        <5>1. k = 1 \/ k - 1 \in 1 .. n
          BY <2>2, <4>1
        <5>2. /\ out[k][1] <= f
              /\ IF k = 1 \/ out[k][1] # out[k - 1][1]
                   THEN out[k][2] = 1 /\ (k > 1 => out[k - 1][1] < out[k][1])
                   ELSE out[k][2] = out[k - 1][2] + 1
          BY <1>1, <2>2, <4>1 DEF AdmInv, OutputInOrder
        <5> QED BY <2>2, <4>1, <5>1, <5>2
      <4>2. CASE k \notin 1 .. n
        <5>1. k = n + 1 /\ o[k] = <<f, s[1]>>
          BY <2>2, <4>2
        <5>2. CASE n = 0
          <6>1. Put(f) = 0
            BY <2>1, <2>2, <5>2 DEF Put
          <6> QED BY <1>3, <2>4, <5>1, <5>2, <6>1
        <5>3. CASE n # 0
          <6>1. /\ n \in 1 .. n /\ out # <<>> /\ k - 1 = n /\ k # 1
                /\ o[n] = out[n] /\ out[n] \in Nat \X Nat
            BY <2>1, <2>2, <5>1, <5>3
          <6>2. out[n][1] <= f
            BY <1>1, <2>2, <6>1 DEF AdmInv, OutputInOrder
          <6>3. s[1] = IF out[n][1] = f THEN out[n][2] + 1 ELSE 1
            BY <2>1, <2>4, <6>1 DEF Put
          <6> QED BY <1>3, <5>1, <6>1, <6>2, <6>3
        <5> QED BY <5>2, <5>3
      <4> QED BY <4>1, <4>2
    <3> QED BY <1>1, <1>2, <2>1, <3>1 DEF OutputInOrder, Current
  <2> QED BY <1>6, <1>7, <2>9, <2>10 DEF AdmInv
<1> QED BY <1>2, <1>10, <1>11

\* The file in turn is written: the next one is in turn.
LEMMA EndSlotAdm ==
  ASSUME AdmInv, EndSlot
  PROVE  AdmInv'
<1>1. /\ UNCHANGED <<files, nextJob, slot, closed, job, sent, pc, writerFailed, out>>
      /\ Current \in DOMAIN files /\ closed[Current] /\ filesWritten' = filesWritten + 1
      /\ writer' = "wakes"
  BY DEF EndSlot, fileVars, channels, output
<1>2. /\ AdmTypes /\ nextJob \in Nat /\ filesWritten \in Nat
      /\ Current = filesWritten + 1 /\ Current' = filesWritten + 2 /\ Current < nextJob
  <2>1. Current \in 1 .. nextJob - 1
    BY <1>1 DEF AdmInv, Owned
  <2> QED BY <1>1, <2>1 DEF AdmInv, AdmTypes, Current
<1>3. AdmTypes'
  BY <1>1, <1>2 DEF AdmTypes
<1>4. \A i : i \in Underway' <=> i \in Underway /\ i # Current
  BY <1>1, <1>2 DEF Underway
<1>5. Owned'
  <2>1. \A w \in Workers : pc[w] = "working" => job[w] # Current
    BY <1>1 DEF AdmInv, Owned
  <2>2. Current' <= nextJob'
    BY <1>1, <1>2
  <2> QED BY <1>1, <1>4, <2>1, <2>2 DEF AdmInv, Owned
<1>6. Awake'
  BY <1>1 DEF AdmInv, Awake
<1>7. \A i : Aligned(i)' <=> Aligned(i)
  BY <1>1 DEF Aligned, Put
<1>8. Chunks'
  BY <1>1, <1>4, <1>7 DEF AdmInv, Chunks
<1>9. OutputInOrder'
  <2>1. \A k \in DOMAIN out : out[k][1] \in Nat
    BY <1>2 DEF AdmTypes
  <2>2. \A k \in DOMAIN out : out[k][1] <= Current => out[k][1] <= Current'
    BY <1>2, <2>1
  <2> QED BY <1>1, <2>2 DEF AdmInv, OutputInOrder
<1> QED BY <1>3, <1>5, <1>6, <1>8, <1>9 DEF AdmInv

\* The sleepers are woken.
LEMMA BroadcastAdm ==
  ASSUME AdmInv, Broadcast
  PROVE  AdmInv'
<1>1. /\ UNCHANGED <<files, nextJob, filesWritten, slot, closed, job, sent, writerFailed, out>>
      /\ \A w \in Workers : pc'[w] = IF pc[w] = "waiting" THEN "acquire" ELSE pc[w]
      /\ pc' \in [Workers -> Places]
  BY DEF Broadcast, fileVars, mutexed, channels, output, AdmInv, AdmTypes, Places
<1>2. \A w \in Workers : /\ pc'[w] = "working" <=> pc[w] = "working"
                         /\ pc'[w] # "waiting"
                         /\ pc'[w] = "gone" <=> pc[w] = "gone"
  BY <1>1
<1>3. AdmTypes' /\ Owned' /\ Awake' /\ OutputInOrder'
  BY <1>1, <1>2 DEF AdmInv, AdmTypes, Owned, Underway, Current, Awake, OutputInOrder
<1>4. \A i : Aligned(i)' <=> Aligned(i)
  BY <1>1, <1>2 DEF Aligned, Put
<1>5. Chunks'
  BY <1>1, <1>4 DEF AdmInv, Chunks, Underway, Current
<1> QED BY <1>3, <1>5 DEF AdmInv

-----------------------------------------------------------------------------
(* What Admission promises *)

\* Every step of batch mode, into a file or into ClickHouse, keeps the invariant.
LEMMA NextAdmInv ==
  ASSUME AdmInv, [BatchNext]_vars
  PROVE  AdmInv'
<1>1. CASE ToFile
  <2>1. ASSUME NEW w \in Workers, Worker(w) PROVE AdmInv'
    <3>1. CASE AcquireHead(w)
      BY <3>1, TakeAdm DEF AcquireHead, fileVars, channels, output
    <3>2. CASE AcquireFits(w)
      BY <3>2, TakeAdm DEF AcquireFits, fileVars, channels, output
    <3> QED BY <2>1, <3>1, <3>2, AcquireNoneAdm, SendAdm, EndFileAdm DEF Worker
  <2>2. CASE Finish
    BY <2>2, IdleAdm DEF Finish, mutexed, channels
  <2> QED BY <1>1, <2>1, <2>2, WriteChunkAdm, EndSlotAdm, BroadcastAdm
          DEF ToFile, AdmNext, Writer
<1>2. CASE ToClickHouse
  <2>1. UNCHANGED files
    BY <1>2, SinkKeepsFiles DEF ToClickHouse
  <2> QED BY <1>2, <2>1, IdleAdm DEF ToClickHouse, admVars
<1>3. CASE UNCHANGED vars
  BY <1>3, IdleAdm DEF vars, fileVars, admVars
<1> QED BY <1>1, <1>2, <1>3 DEF BatchNext

\* So every reachable state has it.
LEMMA AdmInvariance == BatchSpec => []AdmInv
BY InitAdmInv, NextAdmInv, PTL DEF BatchSpec

\* The output does not depend on the scheduling of the workers: it is the chunks of the
\* files in their order, and of each file in its own.
THEOREM OrderedOutput == BatchSpec => []OutputInOrder
<1>1. AdmInv => OutputInOrder
  BY DEF AdmInv
<1> QED BY <1>1, AdmInvariance, PTL

\* The budget cannot leave the writer alone: the file it waits for is finished, or has
\* a worker, or is the next to be taken by one that is awake or about to be woken.
THEOREM HeadServed == BatchSpec => []HeadIsServed
<1>1. AdmInv => HeadIsServed
  <2> SUFFICES ASSUME AdmInv, Current \in DOMAIN files, ~closed[Current],
                      \A w \in Workers : ~(pc[w] = "working" /\ job[w] = Current)
               PROVE  /\ nextJob = Current
                      /\ writer = "wakes" \/ \E w \in Workers : pc[w] \in {"acquire", "working"}
    BY DEF HeadIsServed
  <2>1. nextJob = Current
    <3>1. Current \notin Underway
      BY DEF AdmInv, Owned
    <3> QED BY <3>1 DEF AdmInv, AdmTypes, Owned, Underway, Current
  <2>2. PICK w : w \in Workers
    BY BatchFilesBounds
  <2>3. pc[w] \in Places /\ pc[w] # "gone" /\ (pc[w] = "waiting" => writer = "wakes")
    BY <2>1, <2>2 DEF AdmInv, AdmTypes, Awake
  <2> QED BY <2>1, <2>2, <2>3 DEF Places
<1> QED BY <1>1, AdmInvariance, PTL

-----------------------------------------------------------------------------
(* The budget *)

\* Files that are not yet written, the taken ones and those nobody has taken.
Ahead == {i \in DOMAIN files : i > filesWritten}

\* With the sum, the inductive invariant of the budget.
Charges ==
  /\ files \in Seq(Entry) /\ charged \in [DOMAIN files -> Nat] /\ budgetUsed \in Nat
  /\ \A i \in DOMAIN files : i >= nextJob => charged[i] = 0
  /\ BudgetExact

\* Nothing is charged at the start.
LEMMA InitCharges == BatchInit => Charges
<1> SUFFICES ASSUME BatchInit PROVE Charges
  OBVIOUS
<1>1. /\ charged = [i \in DOMAIN files |-> 0] /\ budgetUsed = 0 /\ filesWritten = 0
      /\ nextJob = 1
  BY DEF BatchInit, AdmInit
<1>2. files \in Seq(Entry)
  BY BatchFilesBounds, FilesTyped DEF BatchInit, FilesInit
<1>3. IsFiniteSet(Ahead) /\ \A i \in Ahead : charged[i] = 0
  <2>1. DOMAIN files = 1 .. Len(files) /\ Len(files) \in Nat
    BY <1>2
  <2>2. IsFiniteSet(1 .. Len(files)) /\ Ahead \in SUBSET (1 .. Len(files))
    BY <2>1, FS_Interval DEF Ahead
  <2> QED BY <1>1, <2>2, FS_Subset DEF Ahead
<1>4. SumFunctionOnSet(charged, Ahead) = 0
  BY <1>3, SumZero
<1> QED BY <1>1, <1>2, <1>4, AdmissionBounds DEF Charges, BudgetExact, Ahead

\* A step that touches neither the counters nor the charges.
LEMMA IdleCharges ==
  ASSUME Charges, UNCHANGED <<files, mutexed>>
  PROVE  Charges'
BY DEF Charges, BudgetExact, mutexed

\* The file taken is charged what is added to the budget used.
LEMMA TakeCharges ==
  ASSUME AdmInv, Charges, NEW w \in Workers, NEW n \in Nat, Take(w, n), nextJob \in DOMAIN files,
         UNCHANGED <<files, filesWritten>>, budgetUsed + n <= Budget
  PROVE  Charges'
<1>1. /\ nextJob \in Nat /\ filesWritten \in Nat /\ nextJob > filesWritten
      /\ files \in Seq(Entry) /\ charged \in [DOMAIN files -> Nat] /\ budgetUsed \in Nat
      /\ charged[nextJob] = 0
  BY DEF AdmInv, AdmTypes, Owned, Current, Charges
<1>2. /\ charged' = [charged EXCEPT ![nextJob] = n] /\ budgetUsed' = budgetUsed + n
      /\ nextJob' = nextJob + 1 /\ files' = files /\ filesWritten' = filesWritten
  BY DEF Take
<1>3. PICK c, d, S : c = charged /\ d = charged' /\ S = Ahead
  OBVIOUS
<1>4. /\ IsFiniteSet(S) /\ nextJob \in S
      /\ \A i \in S : c[i] \in Nat /\ d[i] \in Nat /\ (i # nextJob => d[i] = c[i])
      /\ d[nextJob] = n /\ c[nextJob] = 0
  <2>1. DOMAIN files = 1 .. Len(files) /\ Len(files) \in Nat
    BY <1>1
  <2>2. IsFiniteSet(S)
    <3>1. IsFiniteSet(1 .. Len(files)) /\ S \in SUBSET (1 .. Len(files))
      BY <1>3, <2>1, FS_Interval DEF Ahead
    <3> QED BY <3>1, FS_Subset
  <2> QED BY <1>1, <1>2, <1>3, <2>2 DEF Ahead
<1>5. SumFunctionOnSet(d, S) = SumFunctionOnSet(c, S) - c[nextJob] + d[nextJob]
  BY <1>4, SumChange
<1>6. SumFunctionOnSet(c, S) = budgetUsed
  BY <1>3 DEF Charges, BudgetExact, Ahead
<1>7. SumFunctionOnSet(d, S) = budgetUsed + n
  BY <1>1, <1>4, <1>5, <1>6
<1>8. BudgetExact'
  BY <1>2, <1>3, <1>7 DEF BudgetExact, Ahead
<1>9. charged' \in [DOMAIN files -> Nat] /\ budgetUsed' \in Nat
  BY <1>1, <1>2
<1>10. \A i \in DOMAIN files : i >= nextJob' => charged'[i] = 0
  <2>1. \A i \in DOMAIN files : i \in Nat
    BY <1>1
  <2> QED BY <1>1, <1>2, <2>1 DEF Charges
<1> QED BY <1>1, <1>2, <1>8, <1>9, <1>10 DEF Charges

\* What comes back is what the file that is written was charged.
LEMMA EndSlotCharges ==
  ASSUME AdmInv, Charges, EndSlot
  PROVE  Charges'
<1>1. /\ filesWritten \in Nat /\ files \in Seq(Entry) /\ charged \in [DOMAIN files -> Nat]
      /\ budgetUsed \in Nat /\ Budget \in Nat
  BY AdmissionBounds DEF AdmInv, AdmTypes, Charges
<1>2. /\ files' = files /\ nextJob' = nextJob /\ charged' = charged
      /\ Current \in DOMAIN files /\ filesWritten' = filesWritten + 1
      /\ budgetUsed' = budgetUsed - charged[Current]
  BY DEF EndSlot, fileVars
<1>3. PICK c, f, S, T : c = charged /\ f = Current /\ S = Ahead /\ T = Ahead'
  OBVIOUS
<1>4. T = S \ {f} /\ f \in S /\ IsFiniteSet(S) /\ IsFiniteSet(T) /\ \A i \in S : c[i] \in Nat
  <2>1. DOMAIN files = 1 .. Len(files) /\ Len(files) \in Nat
    BY <1>1
  <2>2. IsFiniteSet(S)
    <3>1. IsFiniteSet(1 .. Len(files)) /\ S \in SUBSET (1 .. Len(files))
      BY <1>3, <2>1, FS_Interval DEF Ahead
    <3> QED BY <3>1, FS_Subset
  <2>3. T = S \ {f} /\ f \in S
    BY <1>1, <1>2, <1>3, <2>1 DEF Ahead, Current
  <2> QED BY <1>1, <1>3, <2>2, <2>3, FS_RemoveElement DEF Ahead
<1>5. SumFunctionOnSet(c, S) = c[f] + SumFunctionOnSet(c, T)
  BY <1>4, SumRemove
<1>6. SumFunctionOnSet(c, S) = budgetUsed /\ budgetUsed <= Budget
  BY <1>3 DEF Charges, BudgetExact, Ahead
<1>7. SumFunctionOnSet(c, T) \in Nat /\ c[f] \in Nat
  BY <1>4, SumType
<1>8. PICK b : b = budgetUsed'
  OBVIOUS
<1>9. b = SumFunctionOnSet(c, T) /\ b \in Nat /\ b <= Budget
  <2>1. b = budgetUsed - c[f]
    BY <1>2, <1>3, <1>8
  <2> QED BY <1>1, <1>5, <1>6, <1>7, <2>1
<1>10. BudgetExact'
  BY <1>2, <1>3, <1>8, <1>9 DEF BudgetExact, Ahead
<1> QED BY <1>1, <1>2, <1>8, <1>9, <1>10 DEF Charges

\* Every step keeps the account.
LEMMA NextCharges ==
  ASSUME AdmInv, Charges, [BatchNext]_vars
  PROVE  Charges'
<1>1. CASE ToFile
  <2>1. ASSUME NEW w \in Workers, Worker(w) PROVE Charges'
    <3>1. CASE AcquireHead(w)
      <4>1. budgetUsed + 0 <= Budget
        BY AdmissionBounds DEF Charges, BudgetExact
      <4> QED BY <3>1, <4>1, TakeCharges DEF AcquireHead, fileVars
    <3>2. CASE AcquireFits(w)
      <4>1. files[nextJob].size \in Nat
        <5>1. files[nextJob] \in Entry
          BY <3>2 DEF AcquireFits, Charges
        <5> QED BY <5>1 DEF Entry
      <4>2. budgetUsed + files[nextJob].size <= Budget
        BY <3>2, <4>1, AdmissionBounds DEF AcquireFits, Fits, Charges
      <4> QED BY <3>2, <4>1, <4>2, TakeCharges DEF AcquireFits, fileVars
    <3>3. CASE AcquireNone(w) \/ Send(w) \/ EndFile(w)
      BY <3>3, IdleCharges DEF AcquireNone, Send, EndFile, fileVars
    <3> QED BY <2>1, <3>1, <3>2, <3>3 DEF Worker
  <2>2. CASE WriteChunk \/ Broadcast \/ Finish
    BY <2>2, IdleCharges DEF WriteChunk, Broadcast, Finish, fileVars
  <2> QED BY <1>1, <2>1, <2>2, EndSlotCharges DEF ToFile, AdmNext, Writer
<1>2. CASE ToClickHouse
  BY <1>2, IdleCharges, SinkKeepsFiles DEF ToClickHouse, admVars, mutexed
<1>3. CASE UNCHANGED vars
  BY <1>3, IdleCharges DEF vars, fileVars, admVars, mutexed
<1> QED BY <1>1, <1>2, <1>3 DEF BatchNext

\* The account holds in every reachable state.
LEMMA ChargesInvariance == BatchSpec => []Charges
<1>1. AdmInv /\ Charges /\ [BatchNext]_vars => Charges'
  BY NextCharges
<1> QED BY <1>1, InitCharges, AdmInvariance, PTL DEF BatchSpec

\* Admission neither overruns its budget nor leaks it: what is in use is what the files
\* that are admitted and not yet written were charged, for any files and any budget.
THEOREM BudgetKept == BatchSpec => []BudgetExact
<1>1. Charges => BudgetExact
  BY DEF Charges
<1> QED BY <1>1, ChargesInvariance, PTL

-----------------------------------------------------------------------------
(* The output is complete *)

\* Where file i is in the output.
Of(i) == {k \in DOMAIN out : out[k][1] = i}

\* What is in the output and in the channels, by count: as long as nothing has failed, of
\* a file that is written all chunks, of one that is closed the rest is in its channel.
Complete ==
  /\ \A i \in DOMAIN files : i > filesWritten /\ ~writerFailed => Cardinality(Of(i)) = Put(i)
  /\ ~writerFailed /\ ~failed =>
       \A i \in DOMAIN files :
         /\ i <= filesWritten => Cardinality(Of(i)) = files[i].pieces
         /\ i > filesWritten /\ closed[i] => Put(i) + Len(slot[i]) = files[i].pieces

\* When there is an exit code everything has come to rest.
FileOver ==
  kind = "file" /\ exit # -1 =>
    /\ \A w \in Workers : pc[w] = "gone"
    /\ Current \notin DOMAIN files /\ writer = "draining"
    /\ exit = 0 => AllWritten

\* The start.
LEMMA InitComplete == BatchInit => Complete /\ FileOver
<1> SUFFICES ASSUME BatchInit PROVE Complete /\ FileOver
  OBVIOUS
<1>1. /\ out = <<>> /\ filesWritten = 0 /\ closed = [i \in DOMAIN files |-> FALSE]
      /\ writer = "draining" /\ writerFailed = FALSE
      /\ pc = [w \in Workers |-> IF files = <<>> THEN "gone" ELSE "acquire"]
      /\ files \in Seq(Entry)
  BY InitCharges DEF BatchInit, AdmInit, Started, Charges
<1>2. exit = IF files = <<>> THEN ReadCode ELSE -1
  BY DEF BatchInit, FilesInit
<1>3. \A i : Of(i) = {} /\ Put(i) = 0
  BY <1>1 DEF Of, Put
<1>4. Complete
  <2>1. \A i \in DOMAIN files : ~(i <= filesWritten) /\ ~closed[i]
    BY <1>1
  <2>2. \A i : Cardinality(Of(i)) = 0 /\ Put(i) = 0
    BY <1>3, FS_EmptySet
  <2> QED BY <2>1, <2>2 DEF Complete
<1>5. FileOver
  <2>1. CASE files = <<>>
    <3>1. DOMAIN files = {}
      BY <2>1
    <3>2. exit = 0 => ~failed
      BY <1>2, <2>1 DEF ReadCode
    <3> QED BY <1>1, <2>1, <3>1, <3>2 DEF FileOver, AllWritten
  <2>2. CASE files # <<>>
    BY <1>2, <2>2 DEF FileOver
  <2> QED BY <2>1, <2>2
<1> QED BY <1>4, <1>5

\* A step that moves no chunk.
LEMMA IdleComplete ==
  ASSUME Complete, UNCHANGED <<files, filesWritten, slot, closed, out>>, failed => failed',
         writerFailed => writerFailed'
  PROVE  Complete'
<1>1. \A i : Of(i)' = Of(i) /\ Put(i)' = Put(i)
  BY DEF Of, Put
<1> QED BY <1>1 DEF Complete

\* A chunk that is sent is of a file that is not closed.
LEMMA SendComplete ==
  ASSUME AdmInv, Complete, NEW w \in Workers, Send(w)
  PROVE  Complete'
<1>1. PICK f : f = job[w]
  OBVIOUS
<1>2. /\ UNCHANGED <<files, failed, filesWritten, closed, writerFailed, out>>
      /\ ~closed[f] /\ \E s : slot' = [slot EXCEPT ![f] = s]
      /\ slot \in [DOMAIN files -> Seq(Nat)]
  BY <1>1 DEF Send, AdmInv, AdmTypes, Owned, fileVars, mutexed, output
<1>3. \A i : Of(i)' = Of(i) /\ Put(i)' = Put(i)
  BY <1>2 DEF Of, Put
<1>4. \A i \in DOMAIN files : i # f => slot'[i] = slot[i]
  BY <1>2
<1>5. \A i \in DOMAIN files : closed[i] => slot'[i] = slot[i]
  BY <1>2, <1>4
<1> QED BY <1>2, <1>3, <1>5 DEF Complete

\* A file that is closed without failing has sent all its chunks.
LEMMA EndFileComplete ==
  ASSUME AdmInv, Complete, NEW w \in Workers, EndFile(w)
  PROVE  Complete'
<1>1. PICK f : f = job[w]
  OBVIOUS
<1>2. /\ UNCHANGED <<files, filesWritten, slot, writerFailed, out>>
      /\ f \in Underway /\ closed' = [closed EXCEPT ![f] = TRUE]
      /\ closed \in [DOMAIN files -> BOOLEAN] /\ pc[w] = "working"
      /\ (failed => failed') /\ (~failed' => sent[w] = files[f].pieces)
  BY <1>1 DEF EndFile, AdmInv, AdmTypes, Owned, mutexed, output
<1>3. \A i : Of(i)' = Of(i) /\ Put(i)' = Put(i)
  BY <1>2 DEF Of, Put
<1>4. \A i \in DOMAIN files : i # f => closed'[i] = closed[i]
  BY <1>2
<1>5. ~writerFailed => sent[w] = Put(f) + Len(slot[f])
  BY <1>1, <1>2 DEF AdmInv, Chunks, Aligned
<1>6. ASSUME NEW i \in DOMAIN files, ~writerFailed, ~failed', i > filesWritten, closed'[i]
      PROVE  Put(i) + Len(slot[i]) = files[i].pieces
  <2>1. CASE i = f
    BY <1>2, <1>5, <1>6, <2>1
  <2>2. CASE i # f
    BY <1>2, <1>4, <1>6, <2>2 DEF Complete
  <2> QED BY <2>1, <2>2
<1> QED BY <1>2, <1>3, <1>6 DEF Complete

\* A chunk goes from the channel of the file in turn to the end of the output.
LEMMA WriteChunkComplete ==
  ASSUME AdmInv, Charges, Complete, WriteChunk
  PROVE  Complete'
<1>1. PICK f, n, o, s, t : /\ f = Current /\ n = Len(out) /\ o = out' /\ s = slot[f] /\ t = Tail(s)
  OBVIOUS
<1>2. /\ UNCHANGED <<files, failed, filesWritten, closed>>
      /\ f \in DOMAIN files /\ s # <<>> /\ slot' = [slot EXCEPT ![f] = t]
      /\ \/ ~writerFailed /\ o = Append(out, <<f, s[1]>>) /\ writerFailed' = writerFailed
         \/ writerFailed' = TRUE
  BY <1>1 DEF WriteChunk, fileVars, mutexed
<1>3. CASE writerFailed' = TRUE
  BY <1>3 DEF Complete
<1>4. CASE ~writerFailed /\ o = Append(out, <<f, s[1]>>) /\ writerFailed' = writerFailed
  <2>1. /\ slot \in [DOMAIN files -> Seq(Nat)] /\ out \in Seq(Nat \X Nat) /\ filesWritten \in Nat
        /\ f = filesWritten + 1 /\ f \in Nat /\ f \in Underway /\ files \in Seq(Entry)
    <3>1. f \in 1 .. nextJob - 1
      BY <1>1, <1>2 DEF AdmInv, Chunks
    <3> QED BY <1>1, <3>1 DEF AdmInv, AdmTypes, Charges, Current, Underway
  <2>2. /\ s \in Seq(Nat) /\ t \in Seq(Nat) /\ 1 \in DOMAIN s /\ s[1] \in Nat
        /\ Len(s) \in Nat /\ Len(t) = Len(s) - 1
    BY <1>1, <1>2, <2>1
  <2>3. s[1] = Put(f) + 1
    BY <1>1, <1>4, <2>1, <2>2 DEF AdmInv, Chunks, Aligned
  <2>4. /\ n \in Nat /\ DOMAIN out = 1 .. n /\ DOMAIN o = 1 .. n + 1 /\ Len(o) = n + 1
        /\ o # <<>> /\ o[n + 1] = <<f, s[1]>> /\ \A k \in 1 .. n : o[k] = out[k]
    <3>1. <<f, s[1]>> \in Nat \X Nat
      BY <2>1, <2>2
    <3>2. n = Len(out) /\ o = Append(out, <<f, s[1]>>) /\ out \in Seq(Nat \X Nat)
      BY <1>1, <1>4, <2>1
    <3> QED BY <3>1, <3>2, Appended
  <2>5. \A i : Of(i)' = IF i = f THEN Of(f) \cup {n + 1} ELSE Of(i)
    BY <1>1, <2>4 DEF Of
  <2>6. \A i : n + 1 \notin Of(i) /\ IsFiniteSet(Of(i))
    <3>1. n + 1 \notin 1 .. n
      BY <2>4
    <3>2. IsFiniteSet(1 .. n)
      BY <2>4, FS_Interval
    <3>3. \A i : Of(i) \in SUBSET (1 .. n)
      BY <2>4 DEF Of
    <3> QED BY <3>1, <3>2, <3>3, FS_Subset
  <2>7. Cardinality(Of(f))' = Cardinality(Of(f)) + 1
    BY <2>5, <2>6, FS_AddElement
  <2>8. Put(f)' = s[1] /\ \A i : i # f => Put(i)' = 0
    BY <1>1, <2>4 DEF Put
  <2>9. \A i \in DOMAIN files : i > f => Put(i) = 0
    <3>1. n # 0 => n \in DOMAIN out
      BY <2>4
    <3>2. n # 0 => out[n][1] <= f /\ out[n][1] \in Nat
      <4>1. n # 0 => out[n] \in Nat \X Nat
        BY <2>1, <3>1
      <4>2. n # 0 => out[n][1] <= f
        BY <1>1, <3>1 DEF AdmInv, OutputInOrder
      <4> QED BY <4>1, <4>2
    <3>3. \A i \in DOMAIN files : i \in Nat
      BY <2>1
    <3>4. out # <<>> => n # 0
      BY <1>1, <2>1
    <3> QED BY <1>1, <2>1, <3>2, <3>3, <3>4 DEF Put
  <2>10. ASSUME NEW i \in DOMAIN files, i > filesWritten
         PROVE  Cardinality(Of(i))' = Put(i)'
    <3>1. CASE i = f
      <4>1. Cardinality(Of(f)) = Put(f)
        BY <1>4, <2>10, <3>1 DEF Complete
      <4> QED BY <2>3, <2>7, <2>8, <3>1, <4>1
    <3>2. CASE i # f
      <4>1. i > f
        BY <2>1, <2>10, <3>2
      <4>2. Cardinality(Of(i)) = Put(i)
        BY <1>4, <2>10 DEF Complete
      <4> QED BY <2>5, <2>8, <2>9, <3>2, <4>1, <4>2
    <3> QED BY <3>1, <3>2
  <2>11. ASSUME NEW i \in DOMAIN files, ~failed
         PROVE  /\ i <= filesWritten => Cardinality(Of(i))' = files[i].pieces
                /\ i > filesWritten /\ closed[i] => Put(i)' + Len(slot'[i]) = files[i].pieces
    <3>1. /\ i <= filesWritten => Cardinality(Of(i)) = files[i].pieces
          /\ i > filesWritten /\ closed[i] => Put(i) + Len(slot[i]) = files[i].pieces
      BY <1>4, <2>11 DEF Complete
    <3>2. i <= filesWritten => Of(i)' = Of(i)
      <4>1. i <= filesWritten => i # f
        BY <2>1
      <4> QED BY <2>5, <4>1
    <3>3. CASE i = f
      <4>1. slot'[i] = t
        BY <1>2, <2>1, <3>3
      <4>2. Put(f) \in Nat
        BY <2>1, <2>4, <1>1 DEF Put
      <4>3. Put(f)' + Len(t) = Put(f) + Len(s)
        BY <2>2, <2>3, <2>8, <4>2
      <4> QED BY <1>1, <3>1, <3>2, <3>3, <4>1, <4>3
    <3>4. CASE i # f
      <4>1. slot'[i] = slot[i]
        BY <1>2, <2>1, <3>4
      <4>2. i > filesWritten => i > f
        BY <2>1, <3>4
      <4>3. i > filesWritten => Put(i)' = Put(i)
        BY <2>8, <2>9, <3>4, <4>2
      <4> QED BY <3>1, <3>2, <4>1, <4>3
    <3> QED BY <3>3, <3>4
  <2> QED BY <1>2, <1>4, <2>10, <2>11 DEF Complete
<1> QED BY <1>2, <1>3, <1>4

\* The file in turn is closed and its channel is empty: all of it is written.
LEMMA EndSlotComplete ==
  ASSUME AdmInv, Charges, Complete, EndSlot
  PROVE  Complete'
<1>1. PICK f : f = Current
  OBVIOUS
<1>2. /\ UNCHANGED <<files, failed, slot, closed, out, writerFailed>>
      /\ f \in DOMAIN files /\ closed[f] /\ slot[f] = <<>> /\ filesWritten' = filesWritten + 1
      /\ filesWritten \in Nat /\ f = filesWritten + 1 /\ files \in Seq(Entry)
      /\ out \in Seq(Nat \X Nat)
  BY <1>1 DEF EndSlot, fileVars, channels, output, AdmInv, AdmTypes, Charges, Current
<1>3. \A i : Of(i)' = Of(i) /\ Put(i)' = Put(i)
  BY <1>2 DEF Of, Put
<1>4. ~writerFailed /\ ~failed => Cardinality(Of(f)) = files[f].pieces
  <2>1. ~writerFailed /\ ~failed => Put(f) + Len(slot[f]) = files[f].pieces
    BY <1>2 DEF Complete
  <2>2. ~writerFailed => Cardinality(Of(f)) = Put(f)
    BY <1>2 DEF Complete
  <2>3. Put(f) \in Nat
    BY <1>2 DEF Put
  <2>4. Len(slot[f]) = 0
    BY <1>2
  <2> QED BY <2>1, <2>2, <2>3, <2>4
<1>5. \A i \in DOMAIN files : /\ i > filesWritten' => i > filesWritten
                              /\ i <= filesWritten' => i <= filesWritten \/ i = f
  BY <1>2
<1> QED BY <1>2, <1>3, <1>4, <1>5 DEF Complete

\* Every step keeps the count.
LEMMA NextComplete ==
  ASSUME AdmInv, Charges, Complete, [BatchNext]_vars
  PROVE  Complete'
<1>1. CASE ToFile
  <2>1. ASSUME NEW w \in Workers, Worker(w) PROVE Complete'
    <3>1. CASE AcquireHead(w) \/ AcquireFits(w) \/ AcquireNone(w)
      <4>1. UNCHANGED <<files, failed, filesWritten, slot, closed, out, writerFailed>>
        BY <3>1 DEF AcquireHead, AcquireFits, AcquireNone, fileVars, mutexed, channels, output
      <4> QED BY <4>1, IdleComplete
    <3> QED BY <2>1, <3>1, SendComplete, EndFileComplete DEF Worker
  <2>2. CASE Broadcast \/ Finish
    <3>1. /\ UNCHANGED <<files, failed, filesWritten, slot, closed, out>>
          /\ writerFailed' \in {writerFailed, TRUE}
      BY <2>2 DEF Broadcast, Finish, fileVars, mutexed, channels, output
    <3>2. (writerFailed => writerFailed') /\ (failed => failed')
      BY <3>1 DEF AdmInv, AdmTypes
    <3> QED BY <3>1, <3>2, IdleComplete
  <2> QED BY <1>1, <2>1, <2>2, WriteChunkComplete, EndSlotComplete DEF ToFile, AdmNext, Writer
<1>2. CASE ToClickHouse
  <2>1. UNCHANGED <<files, filesWritten, slot, closed, out, writerFailed>> /\ (failed => failed')
    BY <1>2, SinkKeepsFiles, SinkFails DEF ToClickHouse, admVars
  <2> QED BY <2>1, IdleComplete
<1>3. CASE UNCHANGED vars
  BY <1>3, IdleComplete DEF vars, fileVars, admVars
<1> QED BY <1>1, <1>2, <1>3 DEF BatchNext

\* After the exit code nothing happens; the exit code 0 comes when every file is written.
LEMMA NextFileOver ==
  ASSUME AdmInv, Charges, Complete, FileOver, [BatchNext]_vars
  PROVE  FileOver'
<1>1. CASE ToFile /\ exit # -1
  <2>1. /\ \A w \in Workers : pc[w] = "gone"
        /\ Current \notin DOMAIN files /\ writer = "draining"
    BY <1>1 DEF FileOver, ToFile
  <2>2. \A w \in Workers : ~Worker(w)
    BY <2>1 DEF Worker, AcquireHead, AcquireFits, AcquireNone, Send, EndFile
  <2>3. ~Writer
    BY <1>1, <2>1 DEF Writer, WriteChunk, EndSlot, Broadcast, Finish
  <2> QED BY <1>1, <2>2, <2>3 DEF ToFile, AdmNext
<1>2. CASE ToFile /\ exit = -1 /\ ~Finish
  <2>1. ASSUME NEW w \in Workers, Worker(w) PROVE exit' = exit
    BY <2>1 DEF Worker, AcquireHead, AcquireFits, AcquireNone, Send, EndFile, fileVars
  <2>2. WriteChunk \/ EndSlot \/ Broadcast => exit' = exit
    BY DEF WriteChunk, EndSlot, Broadcast, fileVars
  <2>3. exit' = -1
    BY <1>2, <2>1, <2>2 DEF ToFile, AdmNext, Writer
  <2> QED BY <2>3 DEF FileOver
<1>3. CASE ToFile /\ Finish
  <2>1. /\ UNCHANGED <<files, failed, filesWritten, pc, writer, out>>
        /\ writer = "draining" /\ filesWritten = Len(files)
        /\ \A w \in Workers : pc[w] = "gone"
        /\ writerFailed' \in {writerFailed, TRUE} /\ files \in Seq(Entry)
    BY <1>3 DEF Finish, mutexed, channels, Charges
  <2>5. exit' = 0 => ~writerFailed' /\ ~failed /\ ~writerFailed
    <3>1. exit' = IF writerFailed' THEN 1 ELSE ReadCode
      BY <1>3 DEF Finish
    <3>2. exit' = 0 => ~writerFailed' /\ ~failed
      BY <3>1 DEF ReadCode
    <3> QED BY <2>1, <3>2
  <2>2. Current \notin DOMAIN files
    BY <2>1 DEF Current
  <2>3. exit' = 0 => AllWritten'
    <3>1. \A i \in DOMAIN files : i <= filesWritten
      BY <2>1
    <3> QED BY <2>1, <2>5, <3>1 DEF Complete, AllWritten, Of
  <2> QED BY <2>1, <2>2, <2>3 DEF FileOver, Current
<1>4. CASE ToClickHouse
  BY <1>4 DEF ToClickHouse, FileOver
<1>5. CASE UNCHANGED vars
  BY <1>5 DEF vars, fileVars, admVars, FileOver, Current, AllWritten
<1> QED BY <1>1, <1>2, <1>3, <1>4, <1>5 DEF BatchNext

-----------------------------------------------------------------------------
(* Part 3: into ClickHouse.  Where rows are. *)

RowId == Nat \X Nat

Steps == {"next", "parse", "flush", "last", "gone"}

SinkTypes ==
  /\ nextFile \in Nat /\ on \in [Workers -> Nat] /\ row \in [Workers -> Nat]
  /\ slab \in [Workers -> Seq(RowId)] /\ step \in [Workers -> Steps]
  /\ queue \in Seq(Seq(RowId)) /\ rest \in Seq(RowId) /\ cols \in Seq(RowId)
  /\ block \in [Senders -> [has : BOOLEAN, sending : BOOLEAN, rows : Seq(RowId)]]
  /\ fatal \in BOOLEAN /\ inserted \in Nat
  /\ applied \in SUBSET Seq(RowId) /\ IsFiniteSet(applied)

\* Row r is held by somebody.
Somewhere(r) == \E h \in Holders : \E i \in DOMAIN Held(h) : Held(h)[i] = r

\* The holders, one by one.
LEMMA HoldersAre ==
  \A h : h \in Holders <=>
    \/ h = <<"batcher", "rest">> \/ h = <<"batcher", "cols">>
    \/ \E j \in DOMAIN queue : h = <<"queue", j>>
    \/ \E w \in Workers : h = <<"slab", w>>
    \/ \E s \in Senders : h = <<"block", s>>
    \/ \E b \in applied : h = <<"applied", b>>
BY DEF Holders

\* What each of them holds.
LEMMA HeldIs ==
  /\ Held(<<"batcher", "rest">>) = rest /\ Held(<<"batcher", "cols">>) = cols
  /\ \A j : Held(<<"queue", j>>) = queue[j]
  /\ \A w : Held(<<"slab", w>>) = slab[w]
  /\ \A s : Held(<<"block", s>>) = block[s].rows
  /\ \A b : Held(<<"applied", b>>) = b
BY DEF Held

\* Whole sequences change hands, or are dropped: from tells who had it before.
LEMMA HandedOn ==
  ASSUME NoRowTwice, NEW from,
         \A h \in Holders' : DOMAIN Held(h)' # {} =>
           from[h] \in Holders /\ Held(from[h]) = Held(h)',
         \A h, g \in Holders' :
           DOMAIN Held(h)' # {} /\ DOMAIN Held(g)' # {} /\ from[h] = from[g] => h = g
  PROVE  NoRowTwice' /\ \A r : Somewhere(r)' => Somewhere(r)
<1>1. ASSUME NEW h \in Holders', NEW g \in Holders', NEW i \in DOMAIN Held(h)',
             NEW j \in DOMAIN Held(g)', Held(h)'[i] = Held(g)'[j]
      PROVE  h = g /\ i = j
  <2>1. PICK a, b : a = from[h] /\ b = from[g]
    OBVIOUS
  <2>2. a \in Holders /\ b \in Holders /\ Held(a) = Held(h)' /\ Held(b) = Held(g)'
    BY <2>1
  <2>3. a = b /\ i = j
    BY <1>1, <2>2 DEF NoRowTwice
  <2> QED BY <2>1, <2>3
<1>2. NoRowTwice'
  BY <1>1 DEF NoRowTwice
<1>3. ASSUME NEW r, Somewhere(r)' PROVE Somewhere(r)
  <2>1. PICK h \in Holders' : \E i \in DOMAIN Held(h)' : Held(h)'[i] = r
    BY <1>3 DEF Somewhere
  <2>2. from[h] \in Holders /\ Held(from[h]) = Held(h)'
    BY <2>1
  <2> QED BY <2>1, <2>2 DEF Somewhere
<1> QED BY <1>2, <1>3

\* Nothing is dropped.
LEMMA NothingDropped ==
  ASSUME \A h \in Holders : DOMAIN Held(h) # {} => \E g \in Holders' : Held(g)' = Held(h)
  PROVE  \A r : Somewhere(r) => Somewhere(r)'
<1>1. ASSUME NEW r, Somewhere(r) PROVE Somewhere(r)'
  <2>1. PICK h \in Holders : \E i \in DOMAIN Held(h) : Held(h)[i] = r
    BY <1>1 DEF Somewhere
  <2>2. PICK g \in Holders' : Held(g)' = Held(h)
    BY <2>1
  <2> QED BY <2>1, <2>2 DEF Somewhere
<1> QED BY <1>1

\* Nobody gives or takes a row.
LEMMA HoldersSame ==
  ASSUME NoRowTwice, UNCHANGED <<rest, cols, queue, slab, block, applied>>
  PROVE  NoRowTwice' /\ \A r : Somewhere(r)' <=> Somewhere(r)
<1>1. Holders' = Holders /\ \A h : Held(h)' = Held(h)
  BY DEF Holders, Held
<1> QED BY <1>1 DEF NoRowTwice, Somewhere

\* The same of the next state.
LEMMA HoldersNext ==
  /\ \A h : h \in Holders' <=>
       \/ h = <<"batcher", "rest">> \/ h = <<"batcher", "cols">>
       \/ \E j \in DOMAIN queue' : h = <<"queue", j>>
       \/ \E w \in Workers : h = <<"slab", w>>
       \/ \E s \in Senders : h = <<"block", s>>
       \/ \E b \in applied' : h = <<"applied", b>>
  /\ Held(<<"batcher", "rest">>)' = rest' /\ Held(<<"batcher", "cols">>)' = cols'
  /\ \A j : Held(<<"queue", j>>)' = queue'[j]
  /\ \A w : Held(<<"slab", w>>)' = slab'[w]
  /\ \A s : Held(<<"block", s>>)' = block'[s].rows
  /\ \A b : Held(<<"applied", b>>)' = b
BY DEF Holders, Held

\* A slab goes into the channel.
LEMMA SlabMoves ==
  ASSUME SinkTypes, NoRowTwice, NEW w \in Workers,
         queue' = Append(queue, slab[w]), slab' = [slab EXCEPT ![w] = <<>>],
         UNCHANGED <<rest, cols, block, applied>>
  PROVE  NoRowTwice' /\ \A r : Somewhere(r)' <=> Somewhere(r)
<1>1. PICK n, q : n = Len(queue) + 1 /\ q = queue'
  OBVIOUS
<1>2. /\ n \in Nat /\ DOMAIN queue = 1 .. n - 1 /\ DOMAIN q = 1 .. n /\ n \notin DOMAIN queue
      /\ q[n] = slab[w] /\ \A j \in DOMAIN queue : q[j] = queue[j]
      /\ \A v \in Workers : slab'[v] = IF v = w THEN <<>> ELSE slab[v]
      /\ DOMAIN <<>> = {} /\ n \in DOMAIN q
      /\ \A j \in DOMAIN q : j = n \/ j \in DOMAIN queue
      /\ DOMAIN queue \subseteq DOMAIN q
  <2>1. queue \in Seq(Seq(RowId)) /\ slab[w] \in Seq(RowId) /\ Len(queue) \in Nat
    BY DEF SinkTypes
  <2>2. /\ DOMAIN q = 1 .. n /\ DOMAIN queue = 1 .. n - 1 /\ n \in Nat /\ n >= 1
        /\ q[n] = slab[w] /\ \A j \in DOMAIN queue : q[j] = queue[j]
    BY <1>1, <2>1
  <2>3. \A v \in Workers : slab'[v] = IF v = w THEN <<>> ELSE slab[v]
    BY DEF SinkTypes
  <2> QED BY <2>2, <2>3
<1> DEFINE from == [h \in Holders' |-> IF h = <<"queue", n>> THEN <<"slab", w>> ELSE h]
<1>3. ASSUME NEW h \in Holders', DOMAIN Held(h)' # {}
      PROVE  from[h] \in Holders /\ Held(from[h]) = Held(h)' /\ h # <<"slab", w>>
  <2>1. CASE h = <<"batcher", "rest">> \/ h = <<"batcher", "cols">>
    BY <2>1, HoldersAre, HoldersNext, HeldIs
  <2>2. CASE \E j \in DOMAIN q : h = <<"queue", j>>
    BY <1>1, <1>2, <2>2, HoldersAre, HoldersNext, HeldIs
  <2>3. CASE \E v \in Workers : h = <<"slab", v>>
    BY <1>2, <1>3, <2>3, HoldersAre, HoldersNext, HeldIs
  <2>4. CASE \E s \in Senders : h = <<"block", s>>
    BY <2>4, HoldersAre, HoldersNext, HeldIs
  <2>5. CASE \E b \in applied : h = <<"applied", b>>
    BY <2>5, HoldersAre, HoldersNext, HeldIs
  <2> QED BY <1>1, <2>1, <2>2, <2>3, <2>4, <2>5, HoldersNext
<1>4. \A h, g \in Holders' :
        DOMAIN Held(h)' # {} /\ DOMAIN Held(g)' # {} /\ from[h] = from[g] => h = g
  BY <1>3
<1>5. ASSUME NEW h \in Holders, DOMAIN Held(h) # {}
      PROVE  \E g \in Holders' : Held(g)' = Held(h)
  <2>1. CASE h = <<"slab", w>>
    <3>1. <<"queue", n>> \in Holders' /\ Held(<<"queue", n>>)' = queue'[n]
      BY <1>1, <1>2, HoldersNext
    <3> QED BY <1>1, <1>2, <2>1, <3>1, HeldIs
  <2>2. CASE h # <<"slab", w>>
    <3>1. CASE h = <<"batcher", "rest">> \/ h = <<"batcher", "cols">>
      BY <3>1, HoldersNext, HeldIs
    <3>2. CASE \E j \in DOMAIN queue : h = <<"queue", j>>
      BY <1>1, <1>2, <3>2, HoldersNext, HeldIs
    <3>3. CASE \E v \in Workers : h = <<"slab", v>>
      BY <1>2, <2>2, <3>3, HoldersNext, HeldIs
    <3>4. CASE \E s \in Senders : h = <<"block", s>>
      BY <3>4, HoldersNext, HeldIs
    <3>5. CASE \E b \in applied : h = <<"applied", b>>
      BY <3>5, HoldersNext, HeldIs
    <3> QED BY <3>1, <3>2, <3>3, <3>4, <3>5, HoldersAre
  <2> QED BY <2>1, <2>2
<1> HIDE DEF from
<1>6. NoRowTwice' /\ \A r : Somewhere(r)' => Somewhere(r)
  BY <1>3, <1>4, HandedOn
<1>7. \A r : Somewhere(r) => Somewhere(r)'
  BY <1>5, NothingDropped
<1> QED BY <1>6, <1>7

\* The batcher takes the first slab of the channel.
LEMMA QueueMoves ==
  ASSUME SinkTypes, NoRowTwice, queue # <<>>, queue' = Tail(queue),
         rest = <<>>, rest' = Head(queue) \/ rest' = <<>>,
         UNCHANGED <<cols, slab, block, applied>>
  PROVE  /\ NoRowTwice' /\ \A r : Somewhere(r)' => Somewhere(r)
         /\ rest' = Head(queue) => \A r : Somewhere(r) => Somewhere(r)'
<1>1. PICK n, q : n = Len(queue) /\ q = queue'
  OBVIOUS
<1>2. /\ n \in Nat \ {0} /\ DOMAIN queue = 1 .. n /\ DOMAIN q = 1 .. n - 1
      /\ Head(queue) = queue[1] /\ \A j \in DOMAIN q : j + 1 \in DOMAIN queue /\ q[j] = queue[j + 1]
      /\ \A j \in DOMAIN queue : j # 1 => j - 1 \in DOMAIN q /\ q[j - 1] = queue[j]
      /\ 1 \in DOMAIN queue /\ DOMAIN <<>> = {}
  <2>1. queue \in Seq(Seq(RowId))
    BY DEF SinkTypes
  <2>2. n \in Nat \ {0} /\ DOMAIN queue = 1 .. n /\ DOMAIN q = 1 .. n - 1 /\ Head(queue) = queue[1]
    BY <1>1, <2>1
  <2>3. \A j \in 1 .. n - 1 : q[j] = queue[j + 1]
    BY <1>1, <2>1, <2>2
  <2>4. \A j \in 1 .. n - 1 : j + 1 \in 1 .. n
    BY <2>2
  <2>5. ASSUME NEW j \in 1 .. n, j # 1 PROVE j - 1 \in 1 .. n - 1 /\ q[j - 1] = queue[j]
    <3>1. j - 1 \in 1 .. n - 1 /\ (j - 1) + 1 = j
      BY <2>2, <2>5
    <3> QED BY <2>3, <3>1
  <2> QED BY <2>2, <2>3, <2>4, <2>5
<1> DEFINE from == [h \in Holders' |-> IF h = <<"batcher", "rest">> THEN <<"queue", 1>>
                                       ELSE IF h[1] = "queue" THEN <<"queue", h[2] + 1>> ELSE h]
<1>3. ASSUME NEW h \in Holders', DOMAIN Held(h)' # {}
      PROVE  from[h] \in Holders /\ Held(from[h]) = Held(h)'
  <2>1. CASE h = <<"batcher", "cols">>
    <3>1. h # <<"batcher", "rest">> /\ h[1] # "queue"
      BY <2>1
    <3> QED BY <2>1, <3>1, HoldersAre, HoldersNext, HeldIs
  <2>6. CASE h = <<"batcher", "rest">>
    <3>1. Held(h)' = Head(queue)
      BY <1>2, <1>3, <2>6, HoldersNext
    <3>2. <<"queue", 1>> \in Holders /\ Held(<<"queue", 1>>) = queue[1]
      BY <1>2, HoldersAre, HeldIs
    <3> QED BY <1>2, <2>6, <3>1, <3>2
  <2>2. CASE \E j \in DOMAIN q : h = <<"queue", j>>
    <3>1. PICK j \in DOMAIN q : h = <<"queue", j>>
      BY <2>2
    <3>2. h # <<"batcher", "rest">> /\ h[1] = "queue" /\ h[2] = j
      BY <3>1
    <3>3. from[h] = <<"queue", j + 1>>
      BY <3>2
    <3>4. j + 1 \in DOMAIN queue /\ q[j] = queue[j + 1]
      BY <1>2
    <3>5. Held(<<"queue", j + 1>>) = queue[j + 1] /\ Held(h)' = q[j]
      BY <1>1, <3>1, HoldersNext, HeldIs
    <3>6. <<"queue", j + 1>> \in Holders
      BY <3>4, HoldersAre
    <3> QED BY <3>3, <3>4, <3>5, <3>6
  <2>3. CASE \E v \in Workers : h = <<"slab", v>>
    <3>1. h # <<"batcher", "rest">> /\ h[1] # "queue"
      BY <2>3
    <3> QED BY <2>3, <3>1, HoldersAre, HoldersNext, HeldIs
  <2>4. CASE \E s \in Senders : h = <<"block", s>>
    <3>1. h # <<"batcher", "rest">> /\ h[1] # "queue"
      BY <2>4
    <3>2. from[h] = h
      BY <3>1
    <3> HIDE DEF from
    <3> QED BY <2>4, <3>2, HoldersAre, HoldersNext, HeldIs
  <2>5. CASE \E b \in applied : h = <<"applied", b>>
    <3>1. h # <<"batcher", "rest">> /\ h[1] # "queue"
      BY <2>5
    <3>2. from[h] = h
      BY <3>1
    <3> HIDE DEF from
    <3> QED BY <2>5, <3>2, HoldersAre, HoldersNext, HeldIs
  <2> QED BY <1>1, <2>1, <2>2, <2>3, <2>4, <2>5, <2>6, HoldersNext
<1>4. ASSUME NEW h \in Holders', NEW g \in Holders', from[h] = from[g]
      PROVE  h = g
  <2>1. \A x \in Holders' :
          \/ x = <<"batcher", "rest">>
          \/ \E j \in DOMAIN q : x = <<"queue", j>>
          \/ (x # <<"batcher", "rest">> /\ x[1] # "queue")
    BY <1>1, HoldersNext
  <2>2. \A j \in DOMAIN q : j \in Nat /\ j >= 1
    BY <1>2
  <2>3. \A x \in Holders' : \A j \in DOMAIN q : x = <<"queue", j>> => from[x] = <<"queue", j + 1>>
    OBVIOUS
  <2>4. \A x \in Holders' : x = <<"batcher", "rest">> => from[x] = <<"queue", 1>>
    OBVIOUS
  <2>5. \A x \in Holders' : x # <<"batcher", "rest">> /\ x[1] # "queue" => from[x] = x
    OBVIOUS
  <2>6. \A j \in DOMAIN q : j + 1 # 1
    BY <2>2
  <2>7. \A j, k \in DOMAIN q : j + 1 = k + 1 => j = k
    BY <2>2
  <2>8. \A j : <<"queue", j>>[1] = "queue" /\ <<"queue", j>>[2] = j
    OBVIOUS
  <2> HIDE DEF from
  <2> QED BY <1>4, <2>1, <2>3, <2>4, <2>5, <2>6, <2>7, <2>8
<1>5. ASSUME NEW h \in Holders, DOMAIN Held(h) # {}, rest' = Head(queue)
      PROVE  \E g \in Holders' : Held(g)' = Held(h)
  <2>1. CASE h = <<"batcher", "rest">> \/ h = <<"batcher", "cols">>
    <3>1. h = <<"batcher", "cols">>
      BY <1>2, <1>5, <2>1, HeldIs
    <3> QED BY <3>1, HoldersNext, HeldIs
  <2>2. CASE \E j \in DOMAIN queue : h = <<"queue", j>>
    <3>1. PICK j \in DOMAIN queue : h = <<"queue", j>>
      BY <2>2
    <3>2. CASE j = 1
      <4>1. Held(<<"batcher", "rest">>)' = queue[1] /\ Held(h) = queue[1]
        BY <1>2, <1>5, <3>1, <3>2, HoldersNext, HeldIs
      <4> QED BY <4>1, HoldersNext
    <3>3. CASE j # 1
      <4>1. j - 1 \in DOMAIN q /\ q[j - 1] = queue[j]
        BY <1>2, <3>3
      <4>2. /\ <<"queue", j - 1>> \in Holders' /\ Held(<<"queue", j - 1>>)' = q[j - 1]
            /\ Held(h) = queue[j]
        BY <1>1, <3>1, <4>1, HoldersNext, HeldIs
      <4> QED BY <4>1, <4>2
    <3> QED BY <3>2, <3>3
  <2>3. CASE \E v \in Workers : h = <<"slab", v>>
    BY <2>3, HoldersNext, HeldIs
  <2>4. CASE \E s \in Senders : h = <<"block", s>>
    BY <2>4, HoldersNext, HeldIs
  <2>5. CASE \E b \in applied : h = <<"applied", b>>
    BY <2>5, HoldersNext, HeldIs
  <2> QED BY <2>1, <2>2, <2>3, <2>4, <2>5, HoldersAre
<1> HIDE DEF from
<1>6. NoRowTwice' /\ \A r : Somewhere(r)' => Somewhere(r)
  BY <1>3, <1>4, HandedOn
<1>7. rest' = Head(queue) => \A r : Somewhere(r) => Somewhere(r)'
  BY <1>5, NothingDropped
<1> QED BY <1>6, <1>7

\* The batcher's block goes to a sender.
LEMMA ColsMove ==
  ASSUME NoRowTwice, NEW s \in Senders, block[s].rows = <<>>, cols' = <<>>,
         \A v \in Senders : block'[v].rows = IF v = s THEN cols ELSE block[v].rows,
         UNCHANGED <<rest, queue, slab, applied>>
  PROVE  NoRowTwice' /\ \A r : Somewhere(r)' <=> Somewhere(r)
<1> DEFINE from == [h \in Holders' |->
                     IF h = <<"block", s>> THEN <<"batcher", "cols">> ELSE h]
<1>1. DOMAIN <<>> = {}
  OBVIOUS
<1>2. ASSUME NEW h \in Holders', DOMAIN Held(h)' # {}
      PROVE  from[h] \in Holders /\ Held(from[h]) = Held(h)' /\ h # <<"batcher", "cols">>
  <2>1. h # <<"batcher", "cols">>
    BY <1>1, <1>2, HoldersNext
  <2>2. CASE h = <<"block", s>>
    BY <2>1, <2>2, HoldersAre, HoldersNext, HeldIs
  <2>3. CASE h # <<"block", s>>
    <3>1. from[h] = h
      BY <2>3
    <3> HIDE DEF from
    <3>2. CASE h = <<"batcher", "rest">>
      BY <3>1, <3>2, HoldersAre, HoldersNext, HeldIs
    <3>3. CASE \E j \in DOMAIN queue : h = <<"queue", j>>
      BY <2>1, <3>1, <3>3, HoldersAre, HoldersNext, HeldIs
    <3>4. CASE \E v \in Workers : h = <<"slab", v>>
      BY <2>1, <3>1, <3>4, HoldersAre, HoldersNext, HeldIs
    <3>5. CASE \E v \in Senders : h = <<"block", v>>
      <4>1. PICK v \in Senders : h = <<"block", v>> /\ v # s
        BY <2>3, <3>5
      <4> QED BY <2>1, <3>1, <4>1, HoldersAre, HoldersNext, HeldIs
    <3>6. CASE \E b \in applied : h = <<"applied", b>>
      BY <2>1, <3>1, <3>6, HoldersAre, HoldersNext, HeldIs
    <3> QED BY <2>1, <3>2, <3>3, <3>4, <3>5, <3>6, HoldersNext
  <2> QED BY <2>2, <2>3
<1>3. \A h, g \in Holders' :
        DOMAIN Held(h)' # {} /\ DOMAIN Held(g)' # {} /\ from[h] = from[g] => h = g
  BY <1>2
<1>4. ASSUME NEW h \in Holders, DOMAIN Held(h) # {}
      PROVE  \E g \in Holders' : Held(g)' = Held(h)
  <2>1. CASE h = <<"batcher", "cols">>
    <3>1. <<"block", s>> \in Holders' /\ Held(<<"block", s>>)' = cols
      BY HoldersNext
    <3> QED BY <2>1, <3>1, HeldIs
  <2>2. CASE h = <<"batcher", "rest">>
    BY <2>2, HoldersNext, HeldIs
  <2>3. CASE \E j \in DOMAIN queue : h = <<"queue", j>>
    BY <2>3, HoldersNext, HeldIs
  <2>4. CASE \E v \in Workers : h = <<"slab", v>>
    BY <2>4, HoldersNext, HeldIs
  <2>5. CASE \E v \in Senders : h = <<"block", v>>
    <3>1. PICK v \in Senders : h = <<"block", v>> /\ v # s
      BY <1>1, <1>4, <2>5, HeldIs
    <3> QED BY <3>1, HoldersNext, HeldIs
  <2>6. CASE \E b \in applied : h = <<"applied", b>>
    BY <2>6, HoldersNext, HeldIs
  <2> QED BY <2>1, <2>2, <2>3, <2>4, <2>5, <2>6, HoldersAre
<1> HIDE DEF from
<1>5. NoRowTwice' /\ \A r : Somewhere(r)' => Somewhere(r)
  BY <1>2, <1>3, HandedOn
<1>6. \A r : Somewhere(r) => Somewhere(r)'
  BY <1>4, NothingDropped
<1> QED BY <1>5, <1>6

\* A block goes into the table, or is lost.
LEMMA BlockMoves ==
  ASSUME NoRowTwice, NEW s \in Senders,
         \A v \in Senders : block'[v].rows = IF v = s THEN <<>> ELSE block[v].rows,
         applied' \in {applied, applied \cup {block[s].rows}},
         UNCHANGED <<rest, cols, queue, slab>>
  PROVE  /\ NoRowTwice' /\ \A r : Somewhere(r)' => Somewhere(r)
         /\ block[s].rows \in applied' => \A r : Somewhere(r) => Somewhere(r)'
<1>7. PICK b : b = block[s].rows
  OBVIOUS
<1> DEFINE from == [h \in Holders' |->
                     IF h = <<"applied", b>> /\ b \notin applied THEN <<"block", s>> ELSE h]
<1>1. DOMAIN <<>> = {} /\ \A x \in applied' : x \in applied \/ x = b
  BY <1>7
<1>2. ASSUME NEW h \in Holders', DOMAIN Held(h)' # {}
      PROVE  from[h] \in Holders /\ Held(from[h]) = Held(h)' /\ h # <<"block", s>>
  <2>1. h # <<"block", s>>
    BY <1>1, <1>2, HoldersNext
  <2>2. CASE h = <<"applied", b>> /\ b \notin applied
    <3>1. from[h] = <<"block", s>>
      BY <2>2
    <3> HIDE DEF from
    <3> QED BY <1>7, <2>1, <2>2, <3>1, HoldersAre, HoldersNext, HeldIs
  <2>3. CASE ~(h = <<"applied", b>> /\ b \notin applied)
    <3>1. from[h] = h
      BY <2>3
    <3> HIDE DEF from
    <3>2. CASE h = <<"batcher", "rest">> \/ h = <<"batcher", "cols">>
      BY <2>1, <3>1, <3>2, HoldersAre, HoldersNext, HeldIs
    <3>3. CASE \E j \in DOMAIN queue : h = <<"queue", j>>
      BY <2>1, <3>1, <3>3, HoldersAre, HoldersNext, HeldIs
    <3>4. CASE \E v \in Workers : h = <<"slab", v>>
      BY <2>1, <3>1, <3>4, HoldersAre, HoldersNext, HeldIs
    <3>5. CASE \E v \in Senders : h = <<"block", v>>
      <4>1. PICK v \in Senders : h = <<"block", v>> /\ v # s
        BY <2>1, <3>5
      <4> QED BY <2>1, <3>1, <4>1, HoldersAre, HoldersNext, HeldIs
    <3>6. CASE \E x \in applied' : h = <<"applied", x>>
      <4>1. PICK x \in applied' : h = <<"applied", x>>
        BY <3>6
      <4>2. x \in applied
        BY <1>1, <2>3, <4>1
      <4> QED BY <2>1, <3>1, <4>1, <4>2, HoldersAre, HoldersNext, HeldIs
    <3> QED BY <3>2, <3>3, <3>4, <3>5, <3>6, HoldersNext
  <2> QED BY <2>2, <2>3
<1>3. \A h, g \in Holders' :
        DOMAIN Held(h)' # {} /\ DOMAIN Held(g)' # {} /\ from[h] = from[g] => h = g
  BY <1>2
<1>4. ASSUME NEW h \in Holders, DOMAIN Held(h) # {}, b \in applied'
      PROVE  \E g \in Holders' : Held(g)' = Held(h)
  <2>1. CASE h = <<"batcher", "cols">> \/ h = <<"batcher", "rest">>
    BY <2>1, HoldersNext, HeldIs
  <2>2. CASE \E j \in DOMAIN queue : h = <<"queue", j>>
    BY <2>2, HoldersNext, HeldIs
  <2>3. CASE \E v \in Workers : h = <<"slab", v>>
    BY <2>3, HoldersNext, HeldIs
  <2>4. CASE h = <<"block", s>>
    <3>1. <<"applied", b>> \in Holders' /\ Held(<<"applied", b>>)' = b
      BY <1>4, HoldersNext
    <3> QED BY <1>7, <2>4, <3>1, HeldIs
  <2>5. CASE \E v \in Senders \ {s} : h = <<"block", v>>
    BY <2>5, HoldersNext, HeldIs
  <2>6. CASE \E x \in applied : h = <<"applied", x>>
    <3>1. PICK x \in applied' : h = <<"applied", x>>
      BY <2>6
    <3> QED BY <3>1, HoldersNext, HeldIs
  <2> QED BY <2>1, <2>2, <2>3, <2>4, <2>5, <2>6, HoldersAre
<1> HIDE DEF from
<1>5. NoRowTwice' /\ \A r : Somewhere(r)' => Somewhere(r)
  BY <1>2, <1>3, HandedOn
<1>6. b \in applied' => \A r : Somewhere(r) => Somewhere(r)'
  BY <1>4, NothingDropped
<1> QED BY <1>5, <1>6, <1>7

\* A row goes from the slab into the block.
LEMMA RowMoves ==
  ASSUME SinkTypes, NoRowTwice, rest # <<>>, rest' = Tail(rest), cols' = Append(cols, Head(rest)),
         UNCHANGED <<queue, slab, block, applied>>
  PROVE  NoRowTwice' /\ \A r : Somewhere(r)' <=> Somewhere(r)
<1>1. PICK R, C, n, m : /\ R = <<"batcher", "rest">> /\ C = <<"batcher", "cols">>
                        /\ n = Len(cols) + 1 /\ m = Len(rest)
  OBVIOUS
<1>2. /\ n \in Nat /\ m \in Nat \ {0} /\ DOMAIN rest = 1 .. m /\ DOMAIN rest' = 1 .. m - 1
      /\ DOMAIN cols = 1 .. n - 1 /\ DOMAIN cols' = 1 .. n
      /\ \A i \in 1 .. m - 1 : rest'[i] = rest[i + 1]
      /\ \A i \in 1 .. n - 1 : cols'[i] = cols[i]
      /\ cols'[n] = rest[1]
  <2>1. rest \in Seq(RowId) /\ cols \in Seq(RowId) /\ Head(rest) \in RowId
    BY DEF SinkTypes
  <2>2. /\ m \in Nat \ {0} /\ DOMAIN rest = 1 .. m /\ DOMAIN rest' = 1 .. m - 1
        /\ Head(rest) = rest[1]
    BY <1>1, <2>1
  <2>3. \A i \in 1 .. m - 1 : rest'[i] = rest[i + 1]
    BY <1>1, <2>1, <2>2
  <2> QED BY <1>1, <2>1, <2>2, <2>3
<1>3. /\ R \in Holders /\ C \in Holders /\ Holders' = Holders /\ R # C
      /\ Held(R) = rest /\ Held(C) = cols /\ Held(R)' = rest' /\ Held(C)' = cols'
      /\ \A h \in Holders : h # R /\ h # C => Held(h)' = Held(h)
  <2>1. Holders' = Holders
    BY DEF Holders
  <2>2. \A h \in Holders : h # R /\ h # C => Held(h)' = Held(h)
    BY <1>1 DEF Holders, Held
  <2> QED BY <1>1, <2>1, <2>2, HoldersAre, HoldersNext, HeldIs
\* Where the row was that is now at place i of h.
<1> DEFINE Wh(h, i) == IF h = R \/ (h = C /\ i = n) THEN R ELSE h
           Wi(h, i) == IF h = R THEN i + 1 ELSE IF h = C /\ i = n THEN 1 ELSE i
<1>4. ASSUME NEW h \in Holders, NEW i \in DOMAIN Held(h)'
      PROVE  /\ Wh(h, i) \in Holders /\ Wi(h, i) \in DOMAIN Held(Wh(h, i))
             /\ Held(Wh(h, i))[Wi(h, i)] = Held(h)'[i]
  <2>1. CASE h = R
    <3>1. i \in 1 .. m - 1 /\ i + 1 \in 1 .. m
      BY <1>2, <1>3, <2>1
    <3> QED BY <1>2, <1>3, <2>1, <3>1
  <2>2. CASE h = C /\ i = n
    <3>1. 1 \in 1 .. m
      BY <1>2
    <3> QED BY <1>2, <1>3, <2>2, <3>1
  <2>3. CASE h = C /\ i # n
    <3>1. i \in 1 .. n - 1
      BY <1>2, <1>3, <2>3
    <3> QED BY <1>2, <1>3, <2>3, <3>1
  <2>4. CASE h # R /\ h # C
    BY <1>3, <2>4
  <2> QED BY <2>1, <2>2, <2>3, <2>4
<1>5. ASSUME NEW h \in Holders, NEW i \in DOMAIN Held(h)', NEW g \in Holders,
             NEW j \in DOMAIN Held(g)', Wh(h, i) = Wh(g, j), Wi(h, i) = Wi(g, j)
      PROVE  h = g /\ i = j
  <2>1. \A x \in DOMAIN Held(R)' : x \in Nat /\ x >= 1 /\ x + 1 # 1
    BY <1>2, <1>3
  <2>2. CASE h = R /\ g = R
    <3>1. i \in Nat /\ j \in Nat /\ i + 1 = j + 1
      BY <1>5, <2>1, <2>2
    <3> QED BY <2>2, <3>1
  <2>3. CASE h # R \/ g # R
    BY <1>3, <1>5, <2>1, <2>3
  <2> QED BY <2>2, <2>3
<1>6. NoRowTwice'
  <2>1. ASSUME NEW h \in Holders, NEW i \in DOMAIN Held(h)', NEW g \in Holders,
               NEW j \in DOMAIN Held(g)', Held(h)'[i] = Held(g)'[j]
        PROVE  h = g /\ i = j
    <3>1. PICK a, b, x, y : a = Wh(h, i) /\ b = Wh(g, j) /\ x = Wi(h, i) /\ y = Wi(g, j)
      OBVIOUS
    <3> HIDE DEF Wh, Wi
    <3>2. /\ a \in Holders /\ x \in DOMAIN Held(a) /\ Held(a)[x] = Held(h)'[i]
          /\ b \in Holders /\ y \in DOMAIN Held(b) /\ Held(b)[y] = Held(g)'[j]
      BY <1>4, <3>1
    <3>3. a = b /\ x = y
      BY <2>1, <3>2 DEF NoRowTwice
    <3> QED BY <1>5, <3>1, <3>3
  <2> QED BY <1>3, <2>1 DEF NoRowTwice
<1>7. \A r : Somewhere(r)' => Somewhere(r)
  <2> HIDE DEF Wh, Wi
  <2> QED BY <1>3, <1>4 DEF Somewhere
<1>8. ASSUME NEW h \in Holders, NEW i \in DOMAIN Held(h), NEW q, q = Held(h)[i]
      PROVE  Somewhere(q)'
  <2>1. CASE h = R /\ i = 1
    <3>1. n \in DOMAIN Held(C)' /\ Held(C)'[n] = Held(h)[i]
      BY <1>2, <1>3, <2>1
    <3> QED BY <1>3, <1>8, <3>1 DEF Somewhere
  <2>2. CASE h = R /\ i # 1
    <3>1. i - 1 \in 1 .. m - 1 /\ (i - 1) + 1 = i
      BY <1>2, <1>3, <2>2
    <3>2. i - 1 \in DOMAIN Held(R)' /\ Held(R)'[i - 1] = Held(h)[i]
      BY <1>2, <1>3, <2>2, <3>1
    <3> QED BY <1>3, <1>8, <3>2 DEF Somewhere
  <2>3. CASE h = C
    <3>1. i \in 1 .. n - 1 /\ i \in 1 .. n
      BY <1>2, <1>3, <2>3
    <3>2. i \in DOMAIN Held(C)' /\ Held(C)'[i] = Held(h)[i]
      BY <1>2, <1>3, <2>3, <3>1
    <3> QED BY <1>3, <1>8, <3>2 DEF Somewhere
  <2>4. CASE h # R /\ h # C
    BY <1>3, <1>8, <2>4 DEF Somewhere
  <2> QED BY <2>1, <2>2, <2>3, <2>4
<1>9. \A r : Somewhere(r) => Somewhere(r)'
  <2>1. ASSUME NEW r, Somewhere(r) PROVE Somewhere(r)'
    <3>1. PICK h \in Holders : \E i \in DOMAIN Held(h) : Held(h)[i] = r
      BY <2>1 DEF Somewhere
    <3> QED BY <1>8, <3>1
  <2> QED BY <2>1
<1> QED BY <1>6, <1>7, <1>9

\* A row is built.
LEMMA RowBuilt ==
  ASSUME SinkTypes, NoRowTwice, NEW w \in Workers, NEW r \in RowId, ~Somewhere(r),
         slab' = [slab EXCEPT ![w] = Append(slab[w], r)],
         UNCHANGED <<rest, cols, queue, block, applied>>
  PROVE  NoRowTwice' /\ \A q : Somewhere(q)' <=> Somewhere(q) \/ q = r
<1>1. PICK S, n : S = <<"slab", w>> /\ n = Len(slab[w]) + 1
  OBVIOUS
<1>2. /\ n \in Nat /\ DOMAIN slab[w] = 1 .. n - 1 /\ DOMAIN slab'[w] = 1 .. n
      /\ \A i \in 1 .. n - 1 : slab'[w][i] = slab[w][i]
      /\ slab'[w][n] = r /\ \A v \in Workers : v # w => slab'[v] = slab[v]
  <2>1. slab[w] \in Seq(RowId) /\ slab'[w] = Append(slab[w], r)
    BY DEF SinkTypes
  <2>2. \A v \in Workers : v # w => slab'[v] = slab[v]
    BY DEF SinkTypes
  <2> QED BY <1>1, <2>1, <2>2
<1>3. /\ S \in Holders /\ Holders' = Holders /\ Held(S) = slab[w] /\ Held(S)' = slab'[w]
      /\ \A h \in Holders : h # S => Held(h)' = Held(h)
  <2>1. Holders' = Holders
    BY DEF Holders
  <2>2. \A h \in Holders : h # S => Held(h)' = Held(h)
    BY <1>1, <1>2 DEF Holders, Held
  <2> QED BY <1>1, <2>1, <2>2, HoldersAre, HoldersNext, HeldIs
<1>4. ASSUME NEW h \in Holders, NEW i \in DOMAIN Held(h)'
      PROVE  \/ h = S /\ i = n /\ Held(h)'[i] = r
             \/ ~(h = S /\ i = n) /\ i \in DOMAIN Held(h) /\ Held(h)'[i] = Held(h)[i]
                 /\ Held(h)'[i] # r
  <2>1. CASE h = S /\ i = n
    BY <1>2, <1>3, <2>1
  <2>2. CASE ~(h = S /\ i = n)
    <3>1. h = S => i \in 1 .. n - 1
      BY <1>2, <1>3, <2>2
    <3>2. i \in DOMAIN Held(h) /\ Held(h)'[i] = Held(h)[i]
      BY <1>2, <1>3, <3>1
    <3> QED BY <2>2, <3>2 DEF Somewhere
  <2> QED BY <2>1, <2>2
<1>5. NoRowTwice'
  <2>1. ASSUME NEW h \in Holders, NEW i \in DOMAIN Held(h)', NEW g \in Holders,
               NEW j \in DOMAIN Held(g)', Held(h)'[i] = Held(g)'[j]
        PROVE  h = g /\ i = j
    BY <1>4, <2>1 DEF NoRowTwice
  <2> QED BY <1>3, <2>1 DEF NoRowTwice
<1>6. \A q : Somewhere(q)' => Somewhere(q) \/ q = r
  BY <1>3, <1>4 DEF Somewhere
<1>7. Somewhere(r)'
  <2>1. n \in 1 .. n
    <3>1. n >= 1
      <4>1. slab[w] \in Seq(RowId)
        BY DEF SinkTypes
      <4> QED BY <1>1, <4>1
    <3> QED BY <1>2, <3>1
  <2>2. n \in DOMAIN Held(S)' /\ Held(S)'[n] = r
    BY <1>2, <1>3, <2>1
  <2> QED BY <1>3, <2>2 DEF Somewhere
<1>8. ASSUME NEW h \in Holders, NEW i \in DOMAIN Held(h), NEW q, q = Held(h)[i]
      PROVE  Somewhere(q)'
  <2>1. h = S => i \in 1 .. n - 1 /\ i \in 1 .. n
    BY <1>2, <1>3
  <2>2. i \in DOMAIN Held(h)' /\ Held(h)'[i] = Held(h)[i]
    BY <1>2, <1>3, <2>1
  <2> QED BY <1>3, <1>8, <2>2 DEF Somewhere
<1>9. \A q : Somewhere(q) => Somewhere(q)'
  <2>1. ASSUME NEW q, Somewhere(q) PROVE Somewhere(q)'
    <3>1. PICK h \in Holders : \E i \in DOMAIN Held(h) : Held(h)[i] = q
      BY <2>1 DEF Somewhere
    <3> QED BY <1>8, <3>1
  <2> QED BY <2>1
<1> QED BY <1>5, <1>6, <1>7, <1>9

-----------------------------------------------------------------------------
(* The invariant of the sink *)

\* A worker that has a file.
Busy(w) == step[w] \in {"parse", "flush", "last"}

\* Each busy worker has a file of its own; who has none has no rows either, and who is
\* gone leaves no file untaken, unless an insert has failed.
Crew ==
  /\ \A w \in Workers : Busy(w) =>
       /\ on[w] \in DOMAIN files /\ on[w] <= nextFile /\ row[w] <= files[on[w]].pieces
       /\ step[w] = "last" => failed \/ row[w] = files[on[w]].pieces
  /\ \A w, v \in Workers : Busy(w) /\ Busy(v) /\ on[w] = on[v] => w = v
  /\ \A w \in Workers : step[w] = "next" => slab[w] = <<>>
  /\ \A w \in Workers : step[w] = "gone" => fatal \/ (slab[w] = <<>> /\ Len(files) <= nextFile)

\* What the places of the batcher and the senders say about what they hold.
Chain ==
  /\ batcher \in {"select", "ended", "done"} => rest = <<>>
  /\ batcher = "hand" => cols # <<>>
  /\ batcher \in {"ended", "done"} => inClosed /\ queue = <<>> /\ cols = <<>>
  /\ inClosed => \A w \in Workers : step[w] = "gone"
  /\ \A s \in Senders :
       /\ block[s].rows # <<>> <=> block[s].has
       /\ block[s].sending => block[s].has

\* Rows that exist are of taken files, and built.
Built ==
  \A f, k \in Nat : Somewhere(<<f, k>>) =>
    /\ f \in DOMAIN files /\ f <= nextFile /\ k \in 1 .. files[f].pieces
    /\ \A w \in Workers : Busy(w) /\ on[w] = f => k <= row[w]

\* No row of a taken file is lost as long as nothing fails; at most it is not built yet.
Lasting ==
  ~fatal /\ ~failed => \A f \in DOMAIN files : f <= nextFile =>
    \A k \in 1 .. files[f].pieces :
      Somewhere(<<f, k>>) \/ \E w \in Workers : Busy(w) /\ on[w] = f /\ row[w] < k

\* The blocks in the table have no row in common, and inserted counts those confirmed.
Tally ==
  /\ IsFiniteSet(Rows(applied)) /\ RowsIn(applied) = Cardinality(Rows(applied))
  /\ ConfirmedAreThere

\* When there is an exit code everything has come to rest.
SinkOver ==
  kind = "clickhouse" /\ exit # -1 =>
    /\ \A w \in Workers : step[w] = "gone"
    /\ \A s \in Senders : ~block[s].has
    /\ queue = <<>> /\ cols = <<>>
    /\ batcher = "done" \/ (batcher = "select" /\ ~inClosed)
    /\ exit = 0 => AllInserted

\* The inductive invariant of BatchSink; files \in Seq(Entry) comes from Charges.
SinkInv ==
  /\ SinkTypes /\ failed \in BOOLEAN /\ files \in Seq(Entry)
  /\ Crew /\ Chain /\ Built /\ Lasting /\ Tally /\ NoRowTwice

\* A step of a batcher or a sender, for what the workers have built.
LEMMA BuiltStays ==
  ASSUME SinkInv, UNCHANGED <<files, nextFile, on, row, slab, step>>,
         failed' \in BOOLEAN, failed => failed', fatal => fatal',
         \A r : Somewhere(r)' => Somewhere(r),
         ~fatal' => \A r : Somewhere(r) => Somewhere(r)'
  PROVE  Crew' /\ Built' /\ Lasting'
<1>1. fatal \in BOOLEAN /\ failed \in BOOLEAN
  BY DEF SinkInv, SinkTypes
<1>2. \A w : Busy(w)' <=> Busy(w)
  BY DEF Busy
<1>3. Crew'
  BY <1>1, <1>2 DEF SinkInv, Crew
<1>4. Built'
  BY <1>2 DEF SinkInv, Built
<1>5. Lasting'
  BY <1>1, <1>2 DEF SinkInv, Lasting
<1> QED BY <1>3, <1>4, <1>5

\* A block that a sender has adds its rows to those in the table.
LEMMA BlockAdds ==
  ASSUME SinkInv, NEW s \in Senders, block[s].has, NEW b, b = block[s].rows
  PROVE  LET A == applied \cup {b} IN
         /\ A \in SUBSET Seq(RowId) /\ IsFiniteSet(A) /\ IsFiniteSet(Rows(A)) /\ Len(b) \in Nat
         /\ RowsIn(A) = Cardinality(Rows(A)) /\ RowsIn(A) = RowsIn(applied) + Len(b)
         /\ RowsIn(applied) \in Nat
<1> DEFINE A == applied \cup {b}
<1>1. /\ b \in Seq(RowId) /\ b # <<>> /\ applied \in SUBSET Seq(RowId) /\ IsFiniteSet(applied)
      /\ IsFiniteSet(Rows(applied)) /\ RowsIn(applied) = Cardinality(Rows(applied))
      /\ Len(b) \in Nat /\ DOMAIN b = 1 .. Len(b)
  BY DEF SinkInv, SinkTypes, Chain, Tally
<1>2. /\ <<"block", s>> \in Holders /\ Held(<<"block", s>>) = b
      /\ \A c \in applied : <<"applied", c>> \in Holders /\ Held(<<"applied", c>>) = c
  BY HoldersAre, HeldIs
<1>3. \A c \in applied : \A i \in DOMAIN b, j \in DOMAIN c : b[i] # c[j]
  <2>1. ASSUME NEW c \in applied, NEW i \in DOMAIN b, NEW j \in DOMAIN c, b[i] = c[j]
        PROVE  FALSE
    <3>1. PICK h, g : h = <<"block", s>> /\ g = <<"applied", c>>
      OBVIOUS
    <3>2. h # g
      BY <3>1
    <3>3. h \in Holders /\ g \in Holders /\ Held(h) = b /\ Held(g) = c
      BY <1>2, <3>1
    <3> QED BY <2>1, <3>2, <3>3 DEF SinkInv, NoRowTwice
  <2> QED BY <2>1
<1>4. \A i, j \in DOMAIN b : b[i] = b[j] => i = j
  BY <1>2 DEF SinkInv, NoRowTwice
<1>5. b \notin applied
  <2>1. 1 \in DOMAIN b
    BY <1>1
  <2> QED BY <1>3, <2>1
<1>6. IsFiniteSet(Range(b)) /\ Cardinality(Range(b)) = Len(b)
  <2>1. PICK n : n = Len(b)
    OBVIOUS
  <2>2. b \in [1 .. n -> Range(b)] /\ \A x \in Range(b) : \E i \in 1 .. n : b[i] = x
    BY <1>1, <2>1 DEF Range
  <2>3. b \in Bijection(1 .. n, Range(b))
    BY <1>1, <1>4, <2>1, <2>2 DEF Bijection, Injection, IsInjective, Surjection
  <2>4. IsFiniteSet(1 .. n) /\ Cardinality(1 .. n) = n
    <3>1. /\ IsFiniteSet(1 .. n) /\ Cardinality(1 .. n) = IF 1 > n THEN 0 ELSE n - 1 + 1
          /\ n \in Nat
      BY <1>1, <2>1, FS_Interval
    <3> QED BY <3>1
  <2>5. ExistsBijection(1 .. n, Range(b))
    BY <2>3 DEF ExistsBijection
  <2> QED BY <2>1, <2>4, <2>5, FS_Bijection
<1>7. Rows(A) = Rows(applied) \cup Range(b) /\ Rows(applied) \cap Range(b) = {}
  <2>1. Rows(A) = Rows(applied) \cup Range(b)
    BY DEF Rows
  <2>2. Rows(applied) \cap Range(b) = {}
    BY <1>3 DEF Rows, Range
  <2> QED BY <2>1, <2>2
<1>8. /\ IsFiniteSet(Rows(A)) /\ Cardinality(Rows(applied)) \in Nat
      /\ Cardinality(Rows(A)) = Cardinality(Rows(applied)) + Len(b)
  <2>1. PICK R, T : R = Rows(applied) /\ T = Range(b)
    OBVIOUS
  <2>2. IsFiniteSet(R) /\ IsFiniteSet(T) /\ R \cap T = {} /\ Cardinality(T) = Len(b)
    BY <1>1, <1>6, <1>7, <2>1
  <2>3. /\ IsFiniteSet(R \cup T) /\ Cardinality(R) \in Nat
        /\ Cardinality(R \cup T) = Cardinality(R) + Cardinality(T) - Cardinality(R \cap T)
    BY <2>2, FS_Union, FS_CardinalityType
  <2>4. Cardinality(R \cap T) = 0
    BY <2>2, FS_EmptySet
  <2> HIDE DEF A
  <2> QED BY <1>1, <1>7, <2>1, <2>2, <2>3, <2>4
<1>9. RowsIn(A) = RowsIn(applied) + Len(b)
  <2>1. PICK f, g : f = [c \in applied |-> Len(c)] /\ g = [c \in A |-> Len(c)]
    OBVIOUS
  <2>2. /\ \A c \in applied : f[c] \in Nat /\ g[c] = f[c]
        /\ g[b] = Len(b)
    BY <1>1, <2>1
  <2>3. SumFunctionOnSet(g, A) = g[b] + SumFunctionOnSet(g, applied)
    <3>1. \A c \in applied : g[c] \in Nat
      BY <2>2
    <3>2. g[b] \in Nat
      BY <1>1, <2>2
    <3> QED BY <1>1, <1>5, <3>1, <3>2, SumAdd
  <2>4. SumFunctionOnSet(g, applied) = SumFunctionOnSet(f, applied)
    BY <1>1, <2>2, SumSame
  <2>5. RowsIn(A) = SumFunctionOnSet(g, A) /\ RowsIn(applied) = SumFunctionOnSet(f, applied)
    <3>1. DOMAIN f = applied /\ DOMAIN g = A
      BY <2>1
    <3> QED BY <2>1, <3>1 DEF RowsIn, SumFunction
  <2>6. SumFunctionOnSet(f, applied) \in Nat
    BY <1>1, <2>2, SumType
  <2> HIDE DEF A
  <2> QED BY <1>1, <2>2, <2>3, <2>4, <2>5, <2>6
<1>10. A \in SUBSET Seq(RowId) /\ IsFiniteSet(A)
  BY <1>1, FS_AddElement
<1> HIDE DEF A
<1>11. /\ RowsIn(A) = Cardinality(Rows(A)) /\ RowsIn(applied) \in Nat
  BY <1>1, <1>8, <1>9
<1> QED BY <1>1, <1>8, <1>9, <1>10, <1>11 DEF A

-----------------------------------------------------------------------------
(* The workers *)

\* A step of admission, the end of it, or no step.
LEMMA IdleSink ==
  ASSUME SinkInv, UNCHANGED <<files, bsVars>>, failed' \in BOOLEAN, failed => failed'
  PROVE  SinkInv'
<1>1. UNCHANGED <<nextFile, on, row, slab, step, queue, inClosed, batcher, rest, cols, block,
                  fatal, inserted, applied>>
  BY DEF bsVars, workerVars, batcherVars
<1>2. NoRowTwice' /\ \A r : Somewhere(r)' <=> Somewhere(r)
  BY <1>1, HoldersSame DEF SinkInv
<1>3. Crew' /\ Built' /\ Lasting'
  BY <1>1, <1>2, BuiltStays
<1>4. SinkTypes' /\ Chain'
  BY <1>1 DEF SinkInv, SinkTypes, Chain
<1>5. Tally'
  BY <1>1 DEF SinkInv, Tally, ConfirmedAreThere
<1> QED BY <1>2, <1>3, <1>4, <1>5 DEF SinkInv

\* What a step of a worker leaves alone.
LEMMA WorkerStep ==
  ASSUME SinkInv, NEW w \in Workers, step[w] # "gone", \A v \in Workers \ {w} : step'[v] = step[v],
         UNCHANGED <<inClosed, batcher, rest, cols, block, fatal, inserted, applied>>,
         NEW b, b \in {queue, Append(queue, slab[w])}, queue' = b
  PROVE  Chain' /\ Tally'
<1>1. ~inClosed /\ batcher \notin {"ended", "done"}
  BY DEF SinkInv, Chain
<1>2. Chain'
  BY <1>1 DEF SinkInv, Chain
<1>3. Tally'
  BY DEF SinkInv, Tally, ConfirmedAreThere
<1> QED BY <1>2, <1>3

\* A worker takes the next file, or leaves.
LEMMA NextFileSink ==
  ASSUME SinkInv, NEW w \in Workers, NextFile(w)
  PROVE  SinkInv'
<1>1. /\ UNCHANGED <<files, failed, slab, queue, inClosed, batcher, rest, cols, block, fatal,
                     inserted, applied>>
      /\ step[w] = "next" /\ nextFile' = nextFile + 1 /\ slab[w] = <<>>
      /\ \/ /\ nextFile' > Len(files) \/ fatal
            /\ step' = [step EXCEPT ![w] = "gone"] /\ on' = on /\ row' = row
         \/ /\ ~(nextFile' > Len(files)) /\ ~fatal
            /\ on' = [on EXCEPT ![w] = nextFile'] /\ row' = [row EXCEPT ![w] = 0]
            /\ step' = [step EXCEPT ![w] = "parse"]
  BY DEF NextFile, fileVars, batcherVars, SinkInv, Crew
<1>2. /\ SinkTypes /\ nextFile \in Nat /\ files \in Seq(Entry) /\ Len(files) \in Nat
      /\ DOMAIN files = 1 .. Len(files) /\ \A v \in Workers : on[v] \in Nat /\ row[v] \in Nat
      /\ failed \in BOOLEAN /\ fatal \in BOOLEAN
  BY DEF SinkInv, SinkTypes
<1>3. SinkTypes'
  <2>1. nextFile' \in Nat
    BY <1>1, <1>2
  <2>2. on' \in [Workers -> Nat] /\ row' \in [Workers -> Nat] /\ step' \in [Workers -> Steps]
    <3>1. PICK m : m = nextFile' /\ m \in Nat
      BY <2>1
    <3>2. on' = on \/ on' = [on EXCEPT ![w] = m]
      BY <1>1, <3>1
    <3>3. row' = row \/ row' = [row EXCEPT ![w] = 0]
      BY <1>1
    <3>4. step' = [step EXCEPT ![w] = "gone"] \/ step' = [step EXCEPT ![w] = "parse"]
      BY <1>1
    <3>5. on' \in [Workers -> Nat]
      BY <1>2, <3>1, <3>2 DEF SinkTypes
    <3>6. row' \in [Workers -> Nat]
      BY <1>2, <3>3 DEF SinkTypes
    <3>7. step' \in [Workers -> Steps]
      BY <1>2, <3>4 DEF SinkTypes, Steps
    <3> QED BY <3>5, <3>6, <3>7
  <2> QED BY <1>1, <1>2, <2>1, <2>2 DEF SinkTypes
<1>4. NoRowTwice' /\ \A r : Somewhere(r)' <=> Somewhere(r)
  BY <1>1, HoldersSame DEF SinkInv
<1>5. \A v \in Workers \ {w} : step'[v] = step[v] /\ on'[v] = on[v] /\ row'[v] = row[v]
  BY <1>1, <1>2 DEF SinkTypes
<1>6. Chain' /\ Tally'
  BY <1>1, <1>5, WorkerStep
<1>7. \A v \in Workers \ {w} : Busy(v)' <=> Busy(v)
  BY <1>5 DEF Busy
<1>8. CASE step' = [step EXCEPT ![w] = "gone"] /\ on' = on /\ row' = row
           /\ (nextFile' > Len(files) \/ fatal)
  <2>1. step'[w] = "gone" /\ ~Busy(w) /\ ~Busy(w)'
    BY <1>1, <1>2, <1>8 DEF SinkTypes, Busy
  <2>2. Crew'
    <3>1. \A v \in Workers : Busy(v)' <=> Busy(v)
      BY <1>7, <2>1
    <3>2. \A v \in Workers : Busy(v) => on[v] <= nextFile'
      BY <1>1, <1>2 DEF SinkInv, Crew
    <3>3. fatal \/ Len(files) <= nextFile'
      BY <1>1, <1>2, <1>8
    <3>4. \A v \in Workers : v # w /\ step[v] = "gone" =>
            fatal \/ (slab[v] = <<>> /\ Len(files) <= nextFile')
      BY <1>1, <1>2 DEF SinkInv, Crew
    <3>5. \A v \in Workers : Busy(v) => step'[v] = step[v]
      BY <1>5, <2>1
    <3> QED BY <1>1, <1>5, <1>8, <2>1, <3>1, <3>2, <3>3, <3>4, <3>5 DEF SinkInv, Crew
  <2>3. Built'
    <3>1. \A v \in Workers : Busy(v)' <=> Busy(v)
      BY <1>7, <2>1
    <3>2. \A f \in DOMAIN files : f <= nextFile => f <= nextFile'
      BY <1>1, <1>2
    <3> QED BY <1>1, <1>4, <1>8, <3>1, <3>2 DEF SinkInv, Built
  <2>4. Lasting'
    <3>1. \A v \in Workers : Busy(v)' <=> Busy(v)
      BY <1>7, <2>1
    <3>2. ~fatal => \A f \in DOMAIN files : f <= nextFile' => f <= nextFile
      BY <1>1, <1>2, <1>8
    <3> QED BY <1>1, <1>4, <1>8, <3>1, <3>2 DEF SinkInv, Lasting
  <2> QED BY <1>1, <1>3, <1>4, <1>6, <2>2, <2>3, <2>4 DEF SinkInv
<1>9. CASE /\ ~(nextFile' > Len(files)) /\ ~fatal
           /\ on' = [on EXCEPT ![w] = nextFile'] /\ row' = [row EXCEPT ![w] = 0]
           /\ step' = [step EXCEPT ![w] = "parse"]
  <2>1. PICK m : m = nextFile'
    OBVIOUS
  <2>2. /\ step'[w] = "parse" /\ ~Busy(w) /\ Busy(w)' /\ on'[w] = m /\ row'[w] = 0
        /\ m = nextFile + 1 /\ m \in DOMAIN files
    BY <1>1, <1>2, <1>9, <2>1 DEF SinkTypes, Busy
  <2>3. files[m].pieces \in Nat
    <3>1. files[m] \in Entry
      BY <1>2, <2>2
    <3> QED BY <3>1 DEF Entry
  <2>4. Crew'
    <3>1. ASSUME NEW v \in Workers, Busy(v)'
          PROVE  /\ on'[v] \in DOMAIN files /\ on'[v] <= m /\ row'[v] <= files[on'[v]].pieces
                 /\ step'[v] = "last" => failed \/ row'[v] = files[on'[v]].pieces
                 /\ v # w => on'[v] # m
      <4>1. CASE v = w
        BY <1>2, <2>2, <2>3, <4>1
      <4>2. CASE v # w
        <5>1. Busy(v)
          BY <1>7, <3>1, <4>2
        <5>2. on[v] <= nextFile
          BY <5>1 DEF SinkInv, Crew
        <5>3. on[v] <= m /\ on[v] # m
          BY <1>2, <2>2, <5>2
        <5> QED BY <1>1, <1>5, <4>2, <5>1, <5>3 DEF SinkInv, Crew
      <4> QED BY <4>1, <4>2
    <3>2. \A v, u \in Workers : Busy(v)' /\ Busy(u)' /\ on'[v] = on'[u] => v = u
      <4>1. \A v, u \in Workers : v # w /\ u # w /\ Busy(v)' /\ Busy(u)' /\ on'[v] = on'[u] => v = u
        BY <1>5, <1>7 DEF SinkInv, Crew
      <4> QED BY <2>2, <3>1, <4>1
    <3>3. \A v \in Workers : step'[v] = "next" => slab[v] = <<>>
      BY <1>5, <2>2 DEF SinkInv, Crew
    <3>4. \A v \in Workers : step'[v] = "gone" =>
            fatal \/ (slab[v] = <<>> /\ Len(files) <= m)
      <4>1. \A v \in Workers : step[v] = "gone" =>
              fatal \/ (slab[v] = <<>> /\ Len(files) <= nextFile)
        BY DEF SinkInv, Crew
      <4>2. Len(files) <= nextFile => Len(files) <= m
        BY <1>2, <2>2
      <4> QED BY <1>5, <2>2, <4>1, <4>2
    <3> QED BY <1>1, <2>1, <3>1, <3>2, <3>3, <3>4 DEF Crew
  <2>5. Built'
    <3>1. ASSUME NEW f \in Nat, NEW k \in Nat, Somewhere(<<f, k>>)
          PROVE  /\ f \in DOMAIN files /\ f <= m /\ k \in 1 .. files[f].pieces
                 /\ \A v \in Workers : Busy(v)' /\ on'[v] = f => k <= row'[v]
      <4>1. /\ f \in DOMAIN files /\ f <= nextFile /\ k \in 1 .. files[f].pieces
            /\ \A v \in Workers : Busy(v) /\ on[v] = f => k <= row[v]
        BY <3>1 DEF SinkInv, Built
      <4>2. f <= m /\ f # m
        BY <1>2, <2>2, <4>1
      <4> QED BY <1>5, <1>7, <2>2, <4>1, <4>2
    <3> QED BY <1>1, <1>4, <2>1, <3>1 DEF Built
  <2>6. Lasting'
    <3>1. ASSUME NEW f \in DOMAIN files, f <= m, NEW k \in 1 .. files[f].pieces, ~failed
          PROVE  Somewhere(<<f, k>>) \/ \E v \in Workers : Busy(v)' /\ on'[v] = f /\ row'[v] < k
      <4>1. CASE f = m
        <5>1. 0 < k
          BY <2>3, <3>1, <4>1
        <5> QED BY <2>2, <4>1, <5>1
      <4>2. CASE f # m
        <5>1. f <= nextFile
          BY <1>2, <2>2, <3>1, <4>2
        <5>2. Somewhere(<<f, k>>) \/ \E v \in Workers : Busy(v) /\ on[v] = f /\ row[v] < k
          BY <1>9, <3>1, <5>1 DEF SinkInv, Lasting
        <5> QED BY <1>5, <1>7, <2>2, <5>2
      <4> QED BY <4>1, <4>2
    <3> QED BY <1>1, <1>4, <2>1, <3>1 DEF Lasting
  <2> QED BY <1>1, <1>3, <1>4, <1>6, <2>4, <2>5, <2>6 DEF SinkInv
<1> QED BY <1>1, <1>8, <1>9

\* A row is built: one that was nowhere.
LEMMA ParseSink ==
  ASSUME SinkInv, NEW w \in Workers, Parse(w)
  PROVE  SinkInv'
<1>1. PICK f, n : f = on[w] /\ n = row[w] + 1
  OBVIOUS
<1>2. /\ SinkTypes /\ files \in Seq(Entry) /\ f \in Nat /\ row[w] \in Nat /\ n \in Nat
      /\ failed \in BOOLEAN /\ fatal \in BOOLEAN
  BY <1>1 DEF SinkInv, SinkTypes
<1>3. /\ UNCHANGED <<files, failed, nextFile, on, queue, inClosed, batcher, rest, cols, block,
                     fatal, inserted, applied>>
      /\ step[w] = "parse" /\ row[w] < files[f].pieces /\ row' = [row EXCEPT ![w] = n]
      /\ slab' = [slab EXCEPT ![w] = Append(slab[w], <<f, n>>)]
      /\ step' \in {[step EXCEPT ![w] = "flush"], [step EXCEPT ![w] = "parse"]}
  BY <1>1 DEF Parse, fileVars, batcherVars, SinkInv
<1>4. Busy(w) /\ f \in DOMAIN files /\ f <= nextFile /\ files[f].pieces \in Nat
  <2>1. Busy(w) /\ f \in DOMAIN files /\ f <= nextFile
    BY <1>1, <1>3 DEF SinkInv, Crew, Busy
  <2>2. files[f] \in Entry
    BY <1>2, <2>1
  <2> QED BY <2>1, <2>2 DEF Entry
<1>5. /\ \A v \in Workers \ {w} : step'[v] = step[v] /\ row'[v] = row[v] /\ slab'[v] = slab[v]
      /\ step'[w] \in {"flush", "parse"} /\ row'[w] = n /\ n <= files[f].pieces /\ row[w] < n
  BY <1>1, <1>2, <1>3, <1>4 DEF SinkTypes
<1>6. \A v \in Workers : Busy(v)' <=> Busy(v)
  BY <1>4, <1>5 DEF Busy
<1>7. ~Somewhere(<<f, n>>)
  <2>1. Somewhere(<<f, n>>) => n <= row[w]
    BY <1>1, <1>2, <1>4 DEF SinkInv, Built
  <2> QED BY <1>1, <1>2, <2>1
<1>8. NoRowTwice' /\ \A q : Somewhere(q)' <=> Somewhere(q) \/ q = <<f, n>>
  <2>1. <<f, n>> \in RowId
    BY <1>2 DEF RowId
  <2> QED BY <1>2, <1>3, <1>7, <2>1, RowBuilt DEF SinkInv
<1>9. SinkTypes'
  <2>1. Append(slab[w], <<f, n>>) \in Seq(RowId)
    <3>1. <<f, n>> \in RowId /\ slab[w] \in Seq(RowId)
      BY <1>2 DEF RowId, SinkTypes
    <3> QED BY <3>1
  <2>2. slab' \in [Workers -> Seq(RowId)]
    BY <1>2, <1>3, <2>1 DEF SinkTypes
  <2>3. row' \in [Workers -> Nat] /\ step' \in [Workers -> Steps]
    BY <1>2, <1>3 DEF SinkTypes, Steps
  <2> QED BY <1>2, <1>3, <2>2, <2>3 DEF SinkTypes
<1>10. Chain' /\ Tally'
  BY <1>3, <1>5, WorkerStep
<1>11. Crew'
  <2>1. ASSUME NEW v \in Workers, Busy(v)'
        PROVE  /\ on[v] \in DOMAIN files /\ on[v] <= nextFile /\ row'[v] <= files[on[v]].pieces
               /\ step'[v] = "last" => failed \/ row'[v] = files[on[v]].pieces
    <3>1. CASE v = w
      BY <1>1, <1>4, <1>5, <3>1
    <3>2. CASE v # w
      BY <1>5, <1>6, <2>1, <3>2 DEF SinkInv, Crew
    <3> QED BY <3>1, <3>2
  <2>2. \A v \in Workers : step'[v] \in {"next", "gone"} => slab'[v] = slab[v] /\ step'[v] = step[v]
    BY <1>5
  <2> QED BY <1>3, <1>6, <2>1, <2>2 DEF SinkInv, Crew
<1>12. Built'
  <2>1. ASSUME NEW g \in Nat, NEW k \in Nat, Somewhere(<<g, k>>)'
        PROVE  /\ g \in DOMAIN files /\ g <= nextFile /\ k \in 1 .. files[g].pieces
               /\ \A v \in Workers : Busy(v) /\ on[v] = g => k <= row'[v]
    <3>1. CASE <<g, k>> = <<f, n>>
      <4>1. g = f /\ k = n
        BY <3>1
      <4>2. \A v \in Workers : Busy(v) /\ on[v] = g => v = w
        BY <1>1, <1>4, <4>1 DEF SinkInv, Crew
      <4> QED BY <1>2, <1>4, <1>5, <1>1, <4>1, <4>2
    <3>2. CASE Somewhere(<<g, k>>)
      <4>1. /\ g \in DOMAIN files /\ g <= nextFile /\ k \in 1 .. files[g].pieces
            /\ \A v \in Workers : Busy(v) /\ on[v] = g => k <= row[v]
        BY <3>2 DEF SinkInv, Built
      <4>2. k <= row[w] => k <= row'[w]
        BY <1>1, <1>2, <1>5
      <4> QED BY <1>5, <4>1, <4>2
    <3> QED BY <1>8, <2>1, <3>1, <3>2
  <2> QED BY <1>3, <1>6, <2>1 DEF Built
<1>13. Lasting'
  <2>1. ASSUME NEW g \in DOMAIN files, g <= nextFile, NEW k \in 1 .. files[g].pieces,
               ~failed, ~fatal
        PROVE  Somewhere(<<g, k>>)' \/ \E v \in Workers : Busy(v) /\ on[v] = g /\ row'[v] < k
    <3>1. CASE Somewhere(<<g, k>>)
      BY <1>8, <3>1
    <3>2. CASE \E v \in Workers : Busy(v) /\ on[v] = g /\ row[v] < k
      <4>1. PICK v \in Workers : Busy(v) /\ on[v] = g /\ row[v] < k
        BY <3>2
      <4>2. CASE v # w
        BY <1>5, <4>1, <4>2
      <4>3. CASE v = w /\ k = n
        BY <1>1, <1>8, <4>1, <4>3
      <4>4. CASE v = w /\ k # n
        <5>1. k \in Int /\ k >= 1
          <6>1. files[g] \in Entry
            BY <1>2
          <6>2. files[g].pieces \in Nat
            BY <6>1 DEF Entry
          <6> QED BY <6>2
        <5>2. n < k
          BY <1>1, <1>2, <4>1, <4>4, <5>1
        <5> QED BY <1>5, <4>1, <4>4, <5>2
      <4> QED BY <4>2, <4>3, <4>4
    <3> QED BY <2>1, <3>1, <3>2 DEF SinkInv, Lasting
  <2> QED BY <1>3, <1>6, <2>1 DEF Lasting
<1> QED BY <1>3, <1>8, <1>9, <1>10, <1>11, <1>12, <1>13 DEF SinkInv

\* A file ends, or breaks off.
LEMMA EndRowsSink ==
  ASSUME SinkInv, NEW w \in Workers, EndRows(w)
  PROVE  SinkInv'
<1>1. /\ UNCHANGED <<files, nextFile, on, row, slab, queue, inClosed, batcher, rest, cols, block,
                     fatal, inserted, applied>>
      /\ step[w] = "parse" /\ step' = [step EXCEPT ![w] = "last"]
      /\ \/ row[w] = files[on[w]].pieces /\ failed' = failed
         \/ failed' = TRUE
  BY DEF EndRows, batcherVars
<1>2. /\ SinkTypes /\ failed \in BOOLEAN /\ failed' \in BOOLEAN /\ (failed => failed')
      /\ fatal \in BOOLEAN /\ (failed' \/ row[w] = files[on[w]].pieces)
  BY <1>1 DEF SinkInv, SinkTypes
<1>3. step'[w] = "last" /\ \A v \in Workers \ {w} : step'[v] = step[v]
  BY <1>1, <1>2 DEF SinkTypes
<1>4. \A v \in Workers : Busy(v)' <=> Busy(v)
  BY <1>1, <1>3 DEF Busy
<1>5. SinkTypes'
  BY <1>1, <1>2 DEF SinkTypes, Steps
<1>6. NoRowTwice' /\ \A r : Somewhere(r)' <=> Somewhere(r)
  BY <1>1, HoldersSame DEF SinkInv
<1>7. Chain' /\ Tally'
  BY <1>1, <1>3, WorkerStep
<1>8. Crew'
  <2>1. ASSUME NEW v \in Workers, Busy(v)'
        PROVE  /\ on[v] \in DOMAIN files /\ on[v] <= nextFile /\ row[v] <= files[on[v]].pieces
               /\ step'[v] = "last" => failed' \/ row[v] = files[on[v]].pieces
    BY <1>2, <1>3, <1>4, <2>1 DEF SinkInv, Crew
  <2>2. \A v \in Workers : step'[v] \in {"next", "gone"} => step'[v] = step[v]
    BY <1>3
  <2> QED BY <1>1, <1>4, <2>1, <2>2 DEF SinkInv, Crew
<1>9. Built' /\ Lasting'
  BY <1>1, <1>2, <1>4, <1>6 DEF SinkInv, Built, Lasting
<1> QED BY <1>1, <1>2, <1>5, <1>6, <1>7, <1>8, <1>9 DEF SinkInv

\* A slab goes into the channel, or the worker leaves after a failed insert.
LEMMA FlushSlabSink ==
  ASSUME SinkInv, NEW w \in Workers, FlushSlab(w)
  PROVE  SinkInv'
<1>1. /\ UNCHANGED <<files, failed, nextFile, on, row, inClosed, batcher, rest, cols, block, fatal,
                     inserted, applied>>
      /\ step[w] \in {"flush", "last"}
      /\ \/ /\ queue' = IF slab[w] = <<>> THEN queue ELSE Append(queue, slab[w])
            /\ slab' = [slab EXCEPT ![w] = <<>>]
            /\ step' = [step EXCEPT ![w] = IF step[w] = "last" THEN "next" ELSE "parse"]
         \/ fatal /\ step' = [step EXCEPT ![w] = "gone"] /\ queue' = queue /\ slab' = slab
  BY DEF FlushSlab, fileVars, batcherVars
<1>2. /\ SinkTypes /\ failed \in BOOLEAN /\ fatal \in BOOLEAN /\ files \in Seq(Entry)
      /\ slab[w] \in Seq(RowId) /\ Busy(w)
  BY <1>1 DEF SinkInv, SinkTypes, Busy
<1>3. /\ \A v \in Workers \ {w} : step'[v] = step[v] /\ slab'[v] = slab[v]
      /\ step'[w] \in {"next", "parse", "gone"}
      /\ step'[w] = "gone" => fatal
      /\ step'[w] = "next" => step[w] = "last" /\ slab'[w] = <<>>
      /\ queue' \in {queue, Append(queue, slab[w])}
  BY <1>1, <1>2 DEF SinkTypes
<1>4. NoRowTwice' /\ \A r : Somewhere(r)' <=> Somewhere(r)
  <2>1. CASE slab' = slab /\ queue' = queue
    BY <1>1, <2>1, HoldersSame DEF SinkInv
  <2>2. CASE slab' = [slab EXCEPT ![w] = <<>>] /\ queue' = Append(queue, slab[w])
    BY <1>1, <2>2, SlabMoves DEF SinkInv
  <2>3. slab[w] = <<>> => [slab EXCEPT ![w] = <<>>] = slab
    BY <1>2 DEF SinkTypes
  <2> QED BY <1>1, <2>1, <2>2, <2>3
<1>5. SinkTypes'
  <2>1. queue' \in Seq(Seq(RowId))
    <3>1. queue \in Seq(Seq(RowId))
      BY <1>2 DEF SinkTypes
    <3>2. Append(queue, slab[w]) \in Seq(Seq(RowId))
      BY <1>2, <3>1
    <3> QED BY <1>3, <3>1, <3>2
  <2>2. slab' \in [Workers -> Seq(RowId)]
    <3>1. <<>> \in Seq(RowId)
      OBVIOUS
    <3> QED BY <1>1, <1>2, <3>1 DEF SinkTypes
  <2>3. step' \in [Workers -> Steps]
    BY <1>1, <1>2 DEF SinkTypes, Steps
  <2> QED BY <1>1, <1>2, <2>1, <2>2, <2>3 DEF SinkTypes
<1>6. Chain' /\ Tally'
  BY <1>1, <1>3, WorkerStep
<1>7. \A v \in Workers : Busy(v)' => Busy(v)
  BY <1>2, <1>3 DEF Busy
<1>8. Crew'
  <2>1. ASSUME NEW v \in Workers, Busy(v)'
        PROVE  /\ on[v] \in DOMAIN files /\ on[v] <= nextFile /\ row[v] <= files[on[v]].pieces
               /\ step'[v] = "last" => failed \/ row[v] = files[on[v]].pieces
    BY <1>3, <1>7, <2>1 DEF SinkInv, Crew
  <2>2. \A v \in Workers : step'[v] = "next" => slab'[v] = <<>>
    BY <1>3 DEF SinkInv, Crew
  <2>3. \A v \in Workers : step'[v] = "gone" =>
          fatal \/ (slab'[v] = <<>> /\ Len(files) <= nextFile)
    BY <1>3 DEF SinkInv, Crew
  <2> QED BY <1>1, <1>7, <2>1, <2>2, <2>3 DEF SinkInv, Crew
<1>9. Built'
  BY <1>1, <1>4, <1>7 DEF SinkInv, Built
<1>10. Lasting'
  <2>1. ASSUME NEW f \in DOMAIN files, f <= nextFile, NEW k \in 1 .. files[f].pieces,
               ~failed, ~fatal
        PROVE  Somewhere(<<f, k>>) \/ \E v \in Workers : Busy(v)' /\ on[v] = f /\ row[v] < k
    <3>1. CASE \E v \in Workers : Busy(v) /\ on[v] = f /\ row[v] < k
      <4>1. PICK v \in Workers : Busy(v) /\ on[v] = f /\ row[v] < k
        BY <3>1
      <4>2. CASE Busy(v)'
        BY <4>1, <4>2
      <4>3. CASE ~Busy(v)'
        <5>1. v = w
          BY <1>3, <4>1, <4>3 DEF Busy
        <5>2. step[w] = "last"
          BY <1>3, <2>1, <4>3, <5>1 DEF Busy
        <5>3. row[w] = files[f].pieces
          BY <2>1, <4>1, <5>1, <5>2 DEF SinkInv, Crew, Busy
        <5>4. files[f].pieces \in Nat
          <6>1. files[f] \in Entry
            BY <1>2
          <6> QED BY <6>1 DEF Entry
        <5> QED BY <4>1, <5>1, <5>3, <5>4
      <4> QED BY <4>2, <4>3
    <3> QED BY <2>1, <3>1 DEF SinkInv, Lasting
  <2> QED BY <1>1, <1>4, <2>1 DEF Lasting
<1> QED BY <1>1, <1>2, <1>4, <1>5, <1>6, <1>8, <1>9, <1>10 DEF SinkInv

-----------------------------------------------------------------------------
(* The batcher and the senders *)

\* Their steps in general.
LEMMA SinkStep ==
  ASSUME SinkInv, UNCHANGED <<files, failed, nextFile, on, row, slab, step>>, fatal => fatal',
         SinkTypes', Chain', Tally', NoRowTwice', \A r : Somewhere(r)' => Somewhere(r),
         ~fatal' => \A r : Somewhere(r) => Somewhere(r)'
  PROVE  SinkInv'
<1>1. failed' \in BOOLEAN /\ (failed => failed')
  BY DEF SinkInv
<1>2. Crew' /\ Built' /\ Lasting'
  BY <1>1, BuiltStays
<1> QED BY <1>1, <1>2 DEF SinkInv

\* Steps that give no row from one to the other.
LEMMA PlainSink ==
  ASSUME SinkInv, CloseIn \/ Flush \/ TakeBuffer \/ EndInput \/ FinishSink
         \/ (Fill /\ rest = <<>>)
  PROVE  SinkInv'
<1>1. UNCHANGED <<files, failed, nextFile, on, row, slab, step, queue, rest, cols, block, fatal,
                  inserted, applied>>
  BY DEF CloseIn, Flush, TakeBuffer, EndInput, FinishSink, Fill, fileVars, workerVars, batcherVars
<1>2. NoRowTwice' /\ \A r : Somewhere(r)' <=> Somewhere(r)
  BY <1>1, HoldersSame DEF SinkInv
<1>3. SinkTypes' /\ Tally'
  BY <1>1 DEF SinkInv, SinkTypes, Tally, ConfirmedAreThere
<1>4. Chain'
  <2>1. CASE CloseIn
    BY <1>1, <2>1 DEF CloseIn, SinkInv, Chain, batcherVars
  <2>2. CASE Flush
    BY <1>1, <2>2 DEF Flush, SinkInv, Chain
  <2>3. CASE TakeBuffer
    BY <1>1, <2>3 DEF TakeBuffer, SinkInv, Chain
  <2>4. CASE EndInput
    BY <1>1, <2>4 DEF EndInput, SinkInv, Chain
  <2>5. CASE FinishSink
    BY <1>1, <2>5 DEF FinishSink, SinkInv, Chain
  <2>6. CASE Fill /\ rest = <<>>
    BY <1>1, <2>6 DEF Fill, SinkInv, Chain
  <2> QED BY <2>1, <2>2, <2>3, <2>4, <2>5, <2>6
<1> QED BY <1>1, <1>2, <1>3, <1>4, SinkStep

\* A slab comes out of the channel; after a failed insert it is thrown away.
LEMMA ReceiveSink ==
  ASSUME SinkInv, Receive
  PROVE  SinkInv'
<1>1. /\ UNCHANGED <<files, failed, nextFile, on, row, slab, step, inClosed, cols, block, fatal,
                     inserted, applied>>
      /\ batcher = "select" /\ queue # <<>> /\ queue' = Tail(queue) /\ rest = <<>>
      /\ \/ fatal /\ rest' = <<>> /\ batcher' = "select"
         \/ ~fatal /\ rest' = Head(queue) /\ batcher' = "fill"
  BY DEF Receive, fileVars, workerVars, batcherVars, SinkInv, Chain
<1>2. /\ SinkTypes /\ NoRowTwice /\ queue \in Seq(Seq(RowId))
  BY DEF SinkInv, SinkTypes
<1>3. /\ NoRowTwice' /\ \A r : Somewhere(r)' => Somewhere(r)
      /\ rest' = Head(queue) => \A r : Somewhere(r) => Somewhere(r)'
  BY <1>1, <1>2, QueueMoves
<1>4. SinkTypes'
  <2>1. Tail(queue) \in Seq(Seq(RowId)) /\ Head(queue) \in Seq(RowId) /\ <<>> \in Seq(RowId)
    BY <1>1, <1>2
  <2> QED BY <1>1, <1>2, <2>1 DEF SinkTypes
<1>5. Chain' /\ Tally'
  BY <1>1 DEF SinkInv, Chain, Tally, ConfirmedAreThere
<1> QED BY <1>1, <1>3, <1>4, <1>5, SinkStep

\* A row goes into the block.
LEMMA FillSink ==
  ASSUME SinkInv, Fill, rest # <<>>
  PROVE  SinkInv'
<1>1. /\ UNCHANGED <<files, failed, nextFile, on, row, slab, step, queue, inClosed, block, fatal,
                     inserted, applied>>
      /\ batcher = "fill" /\ batcher' \in {"hand", "fill"}
      /\ cols' = Append(cols, Head(rest)) /\ rest' = Tail(rest)
  BY DEF Fill, fileVars, workerVars, SinkInv
<1>2. SinkTypes /\ NoRowTwice /\ rest \in Seq(RowId) /\ cols \in Seq(RowId)
  BY DEF SinkInv, SinkTypes
<1>3. NoRowTwice' /\ \A r : Somewhere(r)' <=> Somewhere(r)
  BY <1>1, <1>2, RowMoves
<1>4. /\ Tail(rest) \in Seq(RowId) /\ Head(rest) \in RowId
      /\ Append(cols, Head(rest)) \in Seq(RowId) /\ Append(cols, Head(rest)) # <<>>
  <2>1. PICK e : e = Head(rest)
    OBVIOUS
  <2>2. Tail(rest) \in Seq(RowId)
    BY <1>2
  <2>3. e \in RowId
    BY <1>2, <2>1
  <2>4. Append(cols, e) \in Seq(RowId)
    BY <1>2, <2>3
  <2>5. Append(cols, e) # <<>>
    BY <1>2, <2>3
  <2> QED BY <2>1, <2>2, <2>3, <2>4, <2>5
<1>5. SinkTypes'
  BY <1>1, <1>2, <1>4 DEF SinkTypes
<1>6. Chain' /\ Tally'
  BY <1>1, <1>4 DEF SinkInv, Chain, Tally, ConfirmedAreThere
<1> QED BY <1>1, <1>3, <1>5, <1>6, SinkStep

\* A sender with other contents.
LEMMA BlockExcept ==
  ASSUME SinkTypes, NEW s \in Senders, NEW d \in BOOLEAN, NEW e \in BOOLEAN, NEW q \in Seq(RowId),
         block' = [block EXCEPT ![s] = [has |-> d, sending |-> e, rows |-> q]]
  PROVE  /\ block' \in [Senders -> [has : BOOLEAN, sending : BOOLEAN, rows : Seq(RowId)]]
         /\ \A v \in Senders : block'[v] = IF v = s THEN [has |-> d, sending |-> e, rows |-> q]
                                                     ELSE block[v]
         /\ \A v \in Senders : block'[v].rows = IF v = s THEN q ELSE block[v].rows
<1>1. PICK B : B = [has |-> d, sending |-> e, rows |-> q]
  OBVIOUS
<1>2. B \in [has : BOOLEAN, sending : BOOLEAN, rows : Seq(RowId)] /\ B.rows = q
  BY <1>1
<1>3. block \in [Senders -> [has : BOOLEAN, sending : BOOLEAN, rows : Seq(RowId)]]
  BY DEF SinkTypes
<1>4. block' = [block EXCEPT ![s] = B]
  BY <1>1
<1>5. /\ block' \in [Senders -> [has : BOOLEAN, sending : BOOLEAN, rows : Seq(RowId)]]
      /\ \A v \in Senders : block'[v] = IF v = s THEN B ELSE block[v]
  BY <1>2, <1>3, <1>4
<1> QED BY <1>1, <1>2, <1>5

\* A block goes to a sender.
LEMMA HandSink ==
  ASSUME SinkInv, NEW s \in Senders, Hand(s)
  PROVE  SinkInv'
<1>1. /\ UNCHANGED <<files, failed, nextFile, on, row, slab, step, queue, inClosed, rest, fatal,
                     inserted, applied>>
      /\ batcher = "hand" /\ batcher' = "take" /\ ~block[s].has /\ cols' = <<>>
      /\ block' = [block EXCEPT ![s] = [has |-> TRUE, sending |-> FALSE, rows |-> cols]]
  BY DEF Hand, fileVars, workerVars
<1>2. /\ SinkTypes /\ NoRowTwice /\ cols \in Seq(RowId) /\ cols # <<>> /\ block[s].rows = <<>>
  BY <1>1 DEF SinkInv, SinkTypes, Chain
<1>3. /\ block' \in [Senders -> [has : BOOLEAN, sending : BOOLEAN, rows : Seq(RowId)]]
      /\ \A v \in Senders :
           block'[v] = IF v = s THEN [has |-> TRUE, sending |-> FALSE, rows |-> cols] ELSE block[v]
      /\ \A v \in Senders : block'[v].rows = IF v = s THEN cols ELSE block[v].rows
  BY <1>1, <1>2, BlockExcept
<1>4. NoRowTwice' /\ \A r : Somewhere(r)' <=> Somewhere(r)
  BY <1>1, <1>2, <1>3, ColsMove
<1>5. SinkTypes'
  <2>1. <<>> \in Seq(RowId)
    OBVIOUS
  <2> QED BY <1>1, <1>2, <1>3, <2>1 DEF SinkTypes
<1>6. Chain'
  <2>1. ASSUME NEW v \in Senders
        PROVE  (block'[v].rows # <<>> <=> block'[v].has) /\ (block'[v].sending => block'[v].has)
    BY <1>2, <1>3 DEF SinkInv, Chain
  <2> QED BY <1>1, <2>1 DEF SinkInv, Chain
<1>7. Tally'
  BY <1>1 DEF SinkInv, Tally, ConfirmedAreThere
<1> QED BY <1>1, <1>4, <1>5, <1>6, <1>7, SinkStep

\* A field of a block changes.
LEMMA SendingSet ==
  ASSUME NEW d, NEW e, NEW q, NEW t
  PROVE  [[has |-> d, sending |-> e, rows |-> q] EXCEPT !.sending = t]
           = [has |-> d, sending |-> t, rows |-> q]
OBVIOUS

\* The insert begins; after another one has failed the block is thrown away.
LEMMA BeginSink ==
  ASSUME SinkInv, NEW s \in Senders, Begin(s)
  PROVE  SinkInv'
<1>1. /\ UNCHANGED <<files, failed, nextFile, on, row, slab, step, queue, inClosed, batcher, rest,
                     cols, fatal, inserted, applied>>
      /\ block[s].has
      /\ block' = IF fatal THEN [block EXCEPT ![s] = Idle] ELSE [block EXCEPT ![s].sending = TRUE]
  BY DEF Begin, fileVars, workerVars, batcherVars
<1>2. SinkTypes /\ NoRowTwice /\ fatal \in BOOLEAN
  BY DEF SinkInv, SinkTypes
<1>3. Tally'
  BY <1>1 DEF SinkInv, Tally, ConfirmedAreThere
<1>4. CASE fatal
  <2>1. <<>> \in Seq(RowId)
    OBVIOUS
  <2>2. block' = [block EXCEPT ![s] = [has |-> FALSE, sending |-> FALSE, rows |-> <<>>]]
    BY <1>1, <1>4 DEF Idle
  <2>3. /\ block' \in [Senders -> [has : BOOLEAN, sending : BOOLEAN, rows : Seq(RowId)]]
        /\ \A v \in Senders : block'[v] = IF v = s THEN Idle ELSE block[v]
        /\ \A v \in Senders : block'[v].rows = IF v = s THEN <<>> ELSE block[v].rows
    BY <1>2, <2>1, <2>2, BlockExcept DEF Idle
  <2>4. NoRowTwice' /\ \A r : Somewhere(r)' => Somewhere(r)
    BY <1>1, <1>2, <2>3, BlockMoves
  <2>5. SinkTypes'
    BY <1>1, <1>2, <2>3 DEF SinkTypes
  <2>6. Chain'
    BY <1>1, <2>3 DEF SinkInv, Chain, Idle
  <2> QED BY <1>1, <1>3, <1>4, <2>4, <2>5, <2>6, SinkStep
<1>5. CASE ~fatal
  <2>1. PICK q : q = block[s].rows
    OBVIOUS
  <2>2. q \in Seq(RowId) /\ block[s] \in [has : BOOLEAN, sending : BOOLEAN, rows : Seq(RowId)]
    BY <1>2, <2>1 DEF SinkTypes
  <2>3. block' = [block EXCEPT ![s] = [has |-> TRUE, sending |-> TRUE, rows |-> q]]
    <3>1. PICK b : b = block[s]
      OBVIOUS
    <3>2. [b EXCEPT !.sending = TRUE] = [has |-> TRUE, sending |-> TRUE, rows |-> q]
      <4>1. b \in [has : BOOLEAN, sending : BOOLEAN, rows : Seq(RowId)]
        BY <2>2, <3>1
      <4>2. PICK d, e, r : d \in BOOLEAN /\ b = [has |-> d, sending |-> e, rows |-> r]
        BY <4>1
      <4>3. b.has /\ b.rows = q
        BY <1>1, <2>1, <3>1
      <4>4. d = TRUE /\ r = q
        BY <4>2, <4>3
      <4>5. b = [has |-> TRUE, sending |-> e, rows |-> q]
        BY <4>2, <4>4
      <4> QED BY <4>5, SendingSet
    <3>3. [block EXCEPT ![s].sending = TRUE] = [block EXCEPT ![s] = [b EXCEPT !.sending = TRUE]]
      BY <3>1
    <3> QED BY <1>1, <1>5, <3>2, <3>3
  <2>4. /\ block' \in [Senders -> [has : BOOLEAN, sending : BOOLEAN, rows : Seq(RowId)]]
        /\ \A v \in Senders : block'[v] = IF v = s THEN [has |-> TRUE, sending |-> TRUE, rows |-> q]
                                                    ELSE block[v]
        /\ \A v \in Senders : block'[v].rows = block[v].rows
    BY <1>2, <2>1, <2>2, <2>3, BlockExcept
  <2>5. NoRowTwice' /\ \A r : Somewhere(r)' <=> Somewhere(r)
    <3>1. Holders' = Holders
      BY <1>1 DEF Holders
    <3>2. \A h \in Holders : Held(h)' = Held(h)
      BY <1>1, <2>4 DEF Holders, Held
    <3> QED BY <1>2, <3>1, <3>2 DEF NoRowTwice, Somewhere
  <2>6. SinkTypes'
    BY <1>1, <1>2, <2>4 DEF SinkTypes
  <2>7. Chain'
    BY <1>1, <2>1, <2>4 DEF SinkInv, Chain
  <2> QED BY <1>1, <1>3, <2>5, <2>6, <2>7, SinkStep
<1> QED BY <1>2, <1>4, <1>5

\* The insert ends: confirmed, or not, and then it may have been done all the same.
LEMMA InsertSink ==
  ASSUME SinkInv, NEW s \in Senders, Succeed(s) \/ Fail(s)
  PROVE  SinkInv'
<1>1. PICK b : b = block[s].rows
  OBVIOUS
<1>2. /\ UNCHANGED <<files, failed, nextFile, on, row, slab, step, queue, inClosed, batcher, rest,
                     cols>>
      /\ block[s].has /\ block' = [block EXCEPT ![s] = Idle]
      /\ \/ fatal' = fatal /\ applied' = applied \cup {b} /\ inserted' = inserted + Len(b)
         \/ fatal' = TRUE /\ applied' \in {applied, applied \cup {b}} /\ inserted' = inserted
  BY <1>1 DEF Succeed, Fail, fileVars, workerVars, batcherVars, SinkInv, Chain
<1>3. SinkTypes /\ NoRowTwice /\ fatal \in BOOLEAN /\ fatal' \in BOOLEAN /\ inserted \in Nat
  BY <1>2 DEF SinkInv, SinkTypes
<1>4. /\ block' \in [Senders -> [has : BOOLEAN, sending : BOOLEAN, rows : Seq(RowId)]]
      /\ \A v \in Senders : block'[v] = IF v = s THEN Idle ELSE block[v]
      /\ \A v \in Senders : block'[v].rows = IF v = s THEN <<>> ELSE block[v].rows
  <2>1. <<>> \in Seq(RowId)
    OBVIOUS
  <2>2. block' = [block EXCEPT ![s] = [has |-> FALSE, sending |-> FALSE, rows |-> <<>>]]
    BY <1>2 DEF Idle
  <2> QED BY <1>3, <2>1, <2>2, BlockExcept DEF Idle
<1>5. /\ NoRowTwice' /\ \A r : Somewhere(r)' => Somewhere(r)
      /\ b \in applied' => \A r : Somewhere(r) => Somewhere(r)'
  BY <1>1, <1>2, <1>3, <1>4, BlockMoves
<1>6. PICK A : A = applied \cup {b}
  OBVIOUS
<1>7. /\ A \in SUBSET Seq(RowId) /\ IsFiniteSet(A) /\ IsFiniteSet(Rows(A)) /\ Len(b) \in Nat
      /\ RowsIn(A) = Cardinality(Rows(A)) /\ RowsIn(A) = RowsIn(applied) + Len(b)
      /\ RowsIn(applied) \in Nat
  BY <1>1, <1>2, <1>6, BlockAdds
<1>8. SinkTypes'
  <2>1. inserted' \in Nat
    BY <1>2, <1>3, <1>7
  <2>2. applied' \in SUBSET Seq(RowId) /\ IsFiniteSet(applied')
    BY <1>2, <1>3, <1>6, <1>7 DEF SinkTypes
  <2> QED BY <1>2, <1>3, <1>4, <2>1, <2>2 DEF SinkTypes
<1>9. Chain'
  BY <1>2, <1>4 DEF SinkInv, Chain, Idle
<1>10. Tally'
  <2>1. /\ IsFiniteSet(Rows(applied)) /\ RowsIn(applied) = Cardinality(Rows(applied))
        /\ inserted <= RowsIn(applied) /\ (~fatal => inserted = RowsIn(applied))
    BY DEF SinkInv, Tally, ConfirmedAreThere
  <2>2. PICK n, m, a, c : n = RowsIn(applied) /\ m = RowsIn(A) /\ a = inserted' /\ c = Len(b)
    OBVIOUS
  <2>3. /\ n \in Nat /\ m = n + c /\ c \in Nat /\ inserted <= n /\ (~fatal => inserted = n)
    BY <1>7, <2>1, <2>2
  <2>4. CASE fatal' = fatal /\ applied' = A /\ a = inserted + c
    <3>1. a <= m /\ (~fatal => a = m)
      BY <1>3, <2>3, <2>4
    <3> QED BY <1>7, <2>2, <2>4, <3>1 DEF Tally, ConfirmedAreThere
  <2>5. CASE fatal' = TRUE /\ applied' = A /\ a = inserted
    <3>1. a <= m
      BY <1>3, <2>3, <2>5
    <3> QED BY <1>7, <2>2, <2>5, <3>1 DEF Tally, ConfirmedAreThere
  <2>6. CASE fatal' = TRUE /\ applied' = applied /\ a = inserted
    BY <2>1, <2>2, <2>6 DEF Tally, ConfirmedAreThere
  <2> QED BY <1>2, <1>6, <2>2, <2>4, <2>5, <2>6
<1>11. ~fatal' => b \in applied'
  BY <1>2
<1>12. fatal => fatal'
  BY <1>2, <1>3
<1> QED BY <1>2, <1>5, <1>8, <1>9, <1>10, <1>11, <1>12, SinkStep

-----------------------------------------------------------------------------
(* The sink as a whole *)

\* The start: nobody holds a row.
LEMMA InitSink == BatchInit => SinkInv /\ SinkOver
<1> SUFFICES ASSUME BatchInit PROVE SinkInv /\ SinkOver
  OBVIOUS
<1>1. /\ nextFile = 0 /\ on = [w \in Workers |-> 0] /\ row = [w \in Workers |-> 0]
      /\ slab = [w \in Workers |-> <<>>]
      /\ step = [w \in Workers |-> IF files = <<>> THEN "gone" ELSE "next"]
      /\ queue = <<>> /\ inClosed = FALSE /\ batcher = "select" /\ rest = <<>> /\ cols = <<>>
      /\ block = [s \in Senders |-> Idle] /\ fatal = FALSE /\ inserted = 0 /\ applied = {}
  BY DEF BatchInit, BsInit, Started
<1>2. exit = (IF files = <<>> THEN ReadCode ELSE -1) /\ failed \in BOOLEAN
  BY DEF BatchInit, FilesInit
<1>3. files \in Seq(Entry)
  BY InitCharges DEF Charges
<1>4. DOMAIN <<>> = {} /\ <<>> \in Seq(RowId) /\ <<>> \in Seq(Seq(RowId))
  OBVIOUS
<1>5. SinkTypes
  <2>1. Idle \in [has : BOOLEAN, sending : BOOLEAN, rows : Seq(RowId)]
    BY <1>4 DEF Idle
  <2>2. IsFiniteSet({})
    BY FS_EmptySet
  <2> QED BY <1>1, <1>4, <2>1, <2>2 DEF SinkTypes, Steps
<1>6. \A h \in Holders : DOMAIN Held(h) = {}
  <2>1. ASSUME NEW h \in Holders PROVE Held(h) = <<>>
    <3>1. \A s \in Senders : block[s].rows = <<>>
      BY <1>1 DEF Idle
    <3>2. DOMAIN queue = {}
      BY <1>1, <1>4
    <3> QED BY <1>1, <2>1, <3>1, <3>2, HoldersAre, HeldIs
  <2> QED BY <1>4, <2>1
<1>7. NoRowTwice /\ \A r : ~Somewhere(r)
  BY <1>6 DEF NoRowTwice, Somewhere
<1>8. Crew
  <2>1. ASSUME NEW w \in Workers
        PROVE  /\ step[w] = (IF files = <<>> THEN "gone" ELSE "next") /\ ~Busy(w)
               /\ slab[w] = <<>>
    BY <1>1 DEF Busy
  <2>2. files = <<>> => Len(files) <= nextFile
    BY <1>1
  <2> QED BY <2>1, <2>2 DEF Crew
<1>9. Chain
  <2>1. \A s \in Senders : block[s].rows = <<>> /\ ~block[s].has /\ ~block[s].sending
    BY <1>1 DEF Idle
  <2> QED BY <1>1, <2>1 DEF Chain
<1>10. Built /\ Lasting
  <2>1. \A f \in DOMAIN files : ~(f <= nextFile)
    BY <1>1, <1>3
  <2> QED BY <1>7, <2>1 DEF Built, Lasting
<1>11. Rows(applied) = {} /\ Cardinality({}) = 0 /\ IsFiniteSet({}) /\ RowsIn(applied) = 0
  <2>1. Rows(applied) = {} /\ Cardinality({}) = 0 /\ IsFiniteSet({})
    BY <1>1, FS_EmptySet DEF Rows
  <2>2. RowsIn(applied) = 0
    <3>1. PICK c : c = [b \in applied |-> Len(b)]
      OBVIOUS
    <3>2. DOMAIN c = {} /\ SumFunctionOnSet(c, {}) = 0
      BY <1>1, <3>1, SumEmpty
    <3> QED BY <3>1, <3>2 DEF RowsIn, SumFunction
  <2> QED BY <2>1, <2>2
<1>12. Tally
  <2>1. PICK n, m : n = RowsIn(applied) /\ m = Cardinality(Rows(applied))
    OBVIOUS
  <2>2. n = 0 /\ inserted = 0
    BY <1>1, <1>11, <2>1
  <2>3. m = 0
    BY <1>11, <2>1, Zenon
  <2>4. n = m /\ inserted <= n /\ inserted = n
    BY <2>2, <2>3
  <2>5. IsFiniteSet(Rows(applied))
    BY <1>11, Zenon
  <2> QED BY <2>1, <2>4, <2>5, Zenon DEF Tally, ConfirmedAreThere
<1>13. SinkOver
  <2>1. CASE files = <<>>
    <3>1. \A w \in Workers : step[w] = "gone"
      BY <1>1, <2>1
    <3>2. \A s \in Senders : ~block[s].has
      BY <1>1 DEF Idle
    <3>3. exit = 0 => AllInserted
      <4>1. exit = 0 => ~failed
        BY <1>2, <2>1 DEF ReadCode
      <4>2. UNION {{<<i, k>> : k \in 1..files[i].pieces} : i \in DOMAIN files} = {}
        BY <1>4, <2>1
      <4> QED BY <1>1, <1>11, <4>1, <4>2 DEF AllInserted
    <3> QED BY <1>1, <3>1, <3>2, <3>3 DEF SinkOver
  <2>2. CASE files # <<>>
    BY <1>2, <2>2 DEF SinkOver
  <2> QED BY <2>1, <2>2
<1> QED BY <1>2, <1>3, <1>5, <1>7, <1>8, <1>9, <1>10, <1>12, <1>13 DEF SinkInv

\* Admission, too, forgets no failure.
LEMMA AdmFails == AdmNext /\ failed \in BOOLEAN => UNCHANGED files /\ failed' \in BOOLEAN
                                                   /\ (failed => failed')
<1>1. ASSUME NEW w \in Workers, Worker(w), failed \in BOOLEAN
      PROVE  UNCHANGED files /\ failed' \in BOOLEAN /\ (failed => failed')
  <2>1. UNCHANGED files /\ (failed' = failed \/ failed' = TRUE)
    BY <1>1 DEF Worker, AcquireHead, AcquireFits, AcquireNone, Send, EndFile, fileVars
  <2> QED BY <1>1, <2>1
<1>2. Writer => UNCHANGED <<files, failed>>
  BY DEF Writer, WriteChunk, EndSlot, Broadcast, Finish, fileVars
<1> QED BY <1>1, <1>2 DEF AdmNext

\* Every step keeps the invariant.
LEMMA NextSink ==
  ASSUME SinkInv, [BatchNext]_vars
  PROVE  SinkInv'
<1>1. CASE ToFile
  <2>1. failed \in BOOLEAN
    BY DEF SinkInv
  <2>2. UNCHANGED <<files, bsVars>> /\ failed' \in BOOLEAN /\ (failed => failed')
    BY <1>1, <2>1, AdmFails DEF ToFile
  <2> QED BY <2>2, IdleSink
<1>2. CASE ToClickHouse
  <2>1. ASSUME NEW w \in Workers, ChWorker(w) PROVE SinkInv'
    BY <2>1, NextFileSink, ParseSink, EndRowsSink, FlushSlabSink DEF ChWorker
  <2>2. ASSUME Batcher PROVE SinkInv'
    <3>1. Fill => SinkInv'
      BY PlainSink, FillSink
    <3> QED BY <2>2, <3>1, PlainSink, ReceiveSink, HandSink DEF Batcher
  <2>3. ASSUME NEW s \in Senders, Sender(s) PROVE SinkInv'
    BY <2>3, BeginSink, InsertSink DEF Sender
  <2>4. CloseIn \/ FinishSink => SinkInv'
    BY PlainSink
  <2> QED BY <1>2, <2>1, <2>2, <2>3, <2>4 DEF ToClickHouse, BsNext
<1>3. CASE UNCHANGED vars
  <2>1. UNCHANGED <<files, failed, bsVars>> /\ failed \in BOOLEAN
    BY <1>3 DEF vars, fileVars, SinkInv
  <2> QED BY <2>1, IdleSink
<1> QED BY <1>1, <1>2, <1>3 DEF BatchNext

\* Once the senders have ended, with nothing failed, all rows are in the table.
LEMMA AllArrived ==
  ASSUME SinkInv, batcher = "ended", \A s \in Senders : ~block[s].has, ~fatal, ~failed
  PROVE  AllInserted
<1>1. /\ queue = <<>> /\ cols = <<>> /\ rest = <<>> /\ \A w \in Workers : step[w] = "gone"
      /\ \A s \in Senders : block[s].rows = <<>>
  BY DEF SinkInv, Chain
<1>2. /\ \A w \in Workers : slab[w] = <<>> /\ ~Busy(w)
      /\ files \in Seq(Entry) /\ nextFile \in Nat /\ Len(files) <= nextFile
  BY <1>1, BatchFilesBounds DEF SinkInv, SinkTypes, Crew, Busy
<1>3. \A f \in DOMAIN files : f <= nextFile
  <2>1. \A f \in DOMAIN files : f \in Nat /\ f <= Len(files) /\ Len(files) \in Nat
    BY <1>2
  <2> QED BY <1>2, <2>1
<1>4. \A r : Somewhere(r) <=> \E b \in applied : \E i \in DOMAIN b : b[i] = r
  <2>1. DOMAIN <<>> = {}
    OBVIOUS
  <2>2. \A h \in Holders : DOMAIN Held(h) # {} => \E b \in applied : Held(h) = b
    BY <1>1, <1>2, <2>1, HoldersAre, HeldIs
  <2>3. \A b \in applied : \E h \in Holders : Held(h) = b
    BY HoldersAre, HeldIs
  <2> QED BY <2>2, <2>3 DEF Somewhere
<1>5. \A r : r \in Rows(applied) <=> Somewhere(r)
  BY <1>4 DEF Rows, Range
<1>6. ASSUME NEW r \in Rows(applied)
      PROVE  \E f \in DOMAIN files : \E k \in 1 .. files[f].pieces : r = <<f, k>>
  <2>1. r \in RowId
    <3>1. PICK b \in applied : \E i \in DOMAIN b : b[i] = r
      BY <1>6 DEF Rows, Range
    <3>2. b \in Seq(RowId)
      BY <3>1 DEF SinkInv, SinkTypes
    <3> QED BY <3>1, <3>2
  <2>2. PICK f, k \in Nat : r = <<f, k>>
    BY <2>1 DEF RowId
  <2>3. Somewhere(<<f, k>>)
    BY <1>5, <1>6, <2>2
  <2> QED BY <2>2, <2>3 DEF SinkInv, Built
<1>7. ASSUME NEW f \in DOMAIN files, NEW k \in 1 .. files[f].pieces
      PROVE  <<f, k>> \in Rows(applied)
  BY <1>2, <1>3, <1>5 DEF SinkInv, Lasting
<1>8. Rows(applied) = UNION {{<<i, k>> : k \in 1..files[i].pieces} : i \in DOMAIN files}
  BY <1>6, <1>7
<1>9. inserted = Cardinality(Rows(applied))
  BY DEF SinkInv, Tally, ConfirmedAreThere
<1> QED BY <1>8, <1>9 DEF AllInserted

\* After the exit code nothing happens; the exit code 0 comes when every row is inserted.
LEMMA NextSinkOver ==
  ASSUME SinkInv, SinkOver, [BatchNext]_vars
  PROVE  SinkOver'
<1>1. CASE ToClickHouse /\ exit # -1
  <2>1. /\ \A w \in Workers : step[w] = "gone"
        /\ \A s \in Senders : ~block[s].has
        /\ queue = <<>> /\ cols = <<>>
        /\ batcher = "done" \/ (batcher = "select" /\ ~inClosed)
    BY <1>1 DEF SinkOver, ToClickHouse
  <2>2. \A w \in Workers : ~ChWorker(w)
    BY <2>1 DEF ChWorker, NextFile, Parse, EndRows, FlushSlab
  <2>3. \A s \in Senders : ~Sender(s)
    BY <2>1 DEF Sender, Begin, Succeed, Fail, SinkInv, Chain
  <2>4. ~Batcher
    BY <2>1 DEF Batcher, Receive, Fill, Flush, TakeBuffer, EndInput, Hand
  <2>5. ~CloseIn /\ ~FinishSink
    BY <1>1 DEF CloseIn, FinishSink
  <2> QED BY <1>1, <2>2, <2>3, <2>4, <2>5 DEF ToClickHouse, BsNext
<1>2. CASE ToClickHouse /\ exit = -1 /\ ~FinishSink
  <2>1. \A w \in Workers : ChWorker(w) => exit' = exit
    BY DEF ChWorker, NextFile, Parse, EndRows, FlushSlab, fileVars
  <2>2. \A s \in Senders : Sender(s) => exit' = exit
    BY DEF Sender, Begin, Succeed, Fail, fileVars
  <2>3. Batcher \/ CloseIn => exit' = exit
    BY DEF Batcher, Receive, Fill, Flush, TakeBuffer, EndInput, Hand, CloseIn, fileVars
  <2>4. exit' = -1
    BY <1>2, <2>1, <2>2, <2>3 DEF ToClickHouse, BsNext
  <2> QED BY <2>4 DEF SinkOver
<1>3. CASE ToClickHouse /\ FinishSink
  <2>1. /\ UNCHANGED <<files, failed, step, queue, cols, block, fatal, inserted, applied>>
        /\ batcher = "ended" /\ batcher' = "done" /\ \A s \in Senders : ~block[s].has
        /\ exit' = IF fatal THEN 1 ELSE ReadCode
    BY <1>3 DEF FinishSink, workerVars
  <2>2. queue = <<>> /\ cols = <<>> /\ \A w \in Workers : step[w] = "gone"
    BY <2>1 DEF SinkInv, Chain
  <2>3. exit' = 0 => AllInserted'
    <3>1. exit' = 0 => ~fatal /\ ~failed
      BY <2>1 DEF ReadCode
    <3>2. AllInserted => AllInserted'
      BY <2>1 DEF AllInserted
    <3> QED BY <2>1, <3>1, <3>2, AllArrived
  <2> QED BY <2>1, <2>2, <2>3 DEF SinkOver
<1>4. CASE ToFile
  BY <1>4 DEF ToFile, SinkOver
<1>5. CASE UNCHANGED vars
  <2>1. UNCHANGED <<kind, files, failed, exit, step, queue, inClosed, batcher, cols, block, fatal,
                    inserted, applied>>
    BY <1>5 DEF vars, fileVars, bsVars, workerVars, batcherVars
  <2> QED BY <2>1 DEF SinkOver, AllInserted
<1> QED BY <1>1, <1>2, <1>3, <1>4, <1>5 DEF BatchNext

\* The invariant holds in every reachable state.
LEMMA SinkInvariance == BatchSpec => []SinkInv
<1>1. BatchInit => SinkInv
  BY InitSink
<1>2. SinkInv /\ [BatchNext]_vars => SinkInv'
  BY NextSink
<1> QED BY <1>1, <1>2, PTL DEF BatchSpec

\* For any files, workers, senders and capacities: Inserted() is never more than the
\* rows in the table, and exactly those until an insert fails.
THEOREM ConfirmedThere == BatchSpec => []ConfirmedAreThere
<1>1. SinkInv => ConfirmedAreThere
  BY DEF SinkInv, Tally
<1> QED BY <1>1, SinkInvariance, PTL

\* For any files, workers, senders and capacities: no row is in two places, neither in a
\* buffer that a sender still has nor in two blocks of the table.
THEOREM RowsOnce == BatchSpec => []NoRowTwice
<1>1. SinkInv => NoRowTwice
  BY DEF SinkInv
<1> QED BY <1>1, SinkInvariance, PTL

-----------------------------------------------------------------------------
(* Part 4: the exit code *)

\* For any files and either output: the exit code 0 says that all of it arrived.
THEOREM ExitTrue == BatchSpec => []ExitIsTrue
<1> DEFINE Kinds == kind \in {"file", "clickhouse"}
<1>1. BatchInit => Kinds /\ FileOver /\ Complete /\ SinkOver
  BY InitComplete, InitSink DEF BatchInit
<1>2. Kinds /\ [BatchNext]_vars => Kinds'
  BY DEF BatchNext, ToFile, ToClickHouse, vars
<1>3. AdmInv /\ Charges /\ Complete /\ [BatchNext]_vars => Complete'
  BY NextComplete
<1>4. AdmInv /\ Charges /\ Complete /\ FileOver /\ [BatchNext]_vars => FileOver'
  BY NextFileOver
<1>5. SinkInv /\ SinkOver /\ [BatchNext]_vars => SinkOver'
  BY NextSinkOver
<1>6. Kinds /\ FileOver /\ SinkOver => ExitIsTrue
  BY DEF FileOver, SinkOver, ExitIsTrue
<1> HIDE DEF Kinds
<1> QED BY <1>1, <1>2, <1>3, <1>4, <1>5, <1>6, SinkInvariance, AdmInvariance, ChargesInvariance,
           PTL DEF BatchSpec
================================================================================
