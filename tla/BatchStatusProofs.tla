-------------------------- MODULE BatchStatusProofs --------------------------
(***************************************************************************)
(* Proofs about BatchStatus: what a batch is said to be, for any number of *)
(* batches, items, jobs and threads.  The effect of a step on the rows is  *)
(* JobQueueProofs' (StepRows).                                             *)
(***************************************************************************)
EXTENDS BatchStatus, JobQueueProofs

(* A job of a batch is one of its items.                                   *)
InBatch ==
    \A j \in Jobs : jobs[j].slot # None =>
        /\ batches[jobs[j].slot.batch] # None
        /\ jobs[j].slot.index < batches[jobs[j].slot.batch].size

BatchInvariant == QueueInvariant /\ InBatch

-----------------------------------------------------------------------------
(* What a step does to batches and their jobs *)

LEMMA BatchesStay ==
  ASSUME [Next]_vars, NEW b \in Batch, batches[b] # None
  PROVE  batches'[b] = batches[b]
<1>1. CASE UNCHANGED vars
  BY <1>1 DEF vars
<1>2. CASE Caller
  <2>1. ASSUME NEW u \in User, NEW c \in Batch, NEW n \in 1 .. MaxItems, CreateBatch(u, c, n)
        PROVE  batches'[b] = batches[b]
    <3>1. c # b
      BY <2>1 DEF CreateBatch
    <3>2. batches' = [batches EXCEPT ![c] = [user |-> u, size |-> n]]
      BY <2>1 DEF CreateBatch
    <3> QED
      BY <3>1, <3>2
  <2> QED
    BY <1>2, <2>1 DEF Caller, Submitting, Retrying, Estimating, SubmitCheck,
        SubmitCount, CreateJob, InsertJob, CreateBatchJob, RetryCheck, RetryCount,
        RetryUpdate, CancelJob, CancelBatch, EstimateStart, EstimateSave,
        EstimateFail, DeleteRow, DeleteAccount
<1>3. CASE Working
  BY <1>3 DEF Working, Claim, OwnerCheck, EstimateReject, EstimateReplay,
        EstimateTransient, EstimateInfer, SaveRow, SaveUnsaved, SavePanic,
        FinishSuccess, FinishRetry, FinishFailed, FinishLost, FinishJob, Maintain
<1>4. CASE SetPaused \/ Restart \/ Tick
  BY <1>4 DEF SetPaused, Restart, Tick
<1> QED
  BY <1>1, <1>2, <1>3, <1>4 DEF Next

(* Only create_batch_job adds a job to a batch, and only in an open slot.  *)
LEMMA NewItemIsOpen ==
  ASSUME QueueInvariant, [Next]_vars, NEW j \in Job,
         jobs[j] = None, jobs'[j] # None, jobs'[j].slot # None
  PROVE  /\ batches[jobs'[j].slot.batch] # None
         /\ jobs'[j].slot.index < batches[jobs'[j].slot.batch].size
         /\ ~SlotTaken(jobs'[j].slot)
<1> DEFINE Goal == /\ batches[jobs'[j].slot.batch] # None
                   /\ jobs'[j].slot.index < batches[jobs'[j].slot.batch].size
                   /\ ~SlotTaken(jobs'[j].slot)
<1>0. jobs \in [Job -> JobRow \cup {None}]
  BY DEF QueueInvariant, TypeOK
<1>1. ASSUME NEW h \in Handler, CreateBatchJob(h) PROVE Goal
  <2>1. SlotOpen(handler[h])
    BY <1>1 DEF CreateBatchJob
  <2>2. PICK i \in Job : jobs' = [jobs EXCEPT ![i] = NewJob(handler[h])]
    BY <1>1, <2>1 DEF CreateBatchJob
  <2>3. jobs'[j].slot = handler[h].slot
    BY <1>0, <2>2 DEF NewJob
  <2> QED
    BY <2>1, <2>3 DEF SlotOpen
<1>2. ASSUME NEW h \in Handler, InsertJob(h) PROVE FALSE
  <2>1. handler[h].slot = None
    BY <1>2 DEF InsertJob, QueueInvariant, RequestOK
  <2>2. CASE UNCHANGED jobs
    BY <2>2
  <2>3. CASE \E i \in Job : jobs' = [jobs EXCEPT ![i] = NewJob(handler[h])]
    <3>1. PICK i \in Job : jobs' = [jobs EXCEPT ![i] = NewJob(handler[h])]
      BY <2>3
    <3>2. jobs'[j].slot = handler[h].slot
      BY <1>0, <3>1 DEF NewJob
    <3> QED
      BY <2>1, <3>2
  <2> QED
    BY <1>2, <2>2, <2>3 DEF InsertJob
<1>3. CASE Caller
  <2>1. ASSUME NEW h \in Handler, RetryUpdate(h) PROVE FALSE
    BY <1>0, <2>1 DEF RetryUpdate, Retryable
  <2>2. ASSUME NEW i \in Job, CancelJob(i) PROVE FALSE
    BY <1>0, <2>2 DEF CancelJob, CancelRows, Queued
  <2>3. ASSUME NEW b \in Batch, CancelBatch(b) PROVE FALSE
    BY <1>0, <2>3 DEF CancelBatch, CancelRows, Queued
  <2> QED
    BY <1>1, <1>2, <1>3, <2>1, <2>2, <2>3
       DEF Caller, Submitting, Retrying, Estimating, CreateBatch, SubmitCheck, SubmitCount,
           CreateJob, RetryCheck, RetryCount, EstimateStart, EstimateSave, EstimateFail,
           DeleteRow, DeleteAccount
<1>4. CASE ~Caller
  <2>1. RowsTidied \/ WorkerClaims \/ WorkerFinishes \/ WorkerRuns \/ WorkerLoses
          \/ ProcessRestarts \/ UNCHANGED jobs
    BY <1>4, WorkingRows, RestRows DEF Next, vars
  <2> QED
    BY <2>1 DEF RowsTidied, WorkerClaims, WorkerFinishes, WorkerRuns, WorkerLoses,
       ProcessRestarts, OnlyJob, Rests, SameRun, SameItem, IsStopped, IsPruned, IsClaimed,
       IsFinished, IsRequeued
<1> QED
  BY <1>3, <1>4

(* An item's job stays its job, and what succeeded is not reopened: the    *)
(* only other thing that happens to it is pruning.                         *)
LEMMA ItemStays ==
  ASSUME QueueInvariant, [Next]_vars, NEW j \in Job, jobs[j] # None, jobs'[j] # None
  PROVE  /\ SameItem(j)
         /\ jobs[j].status = "success" => jobs'[j].status = "success"
<1> DEFINE Goal == /\ SameItem(j)
                   /\ jobs[j].status = "success" => jobs'[j].status = "success"
<1>1. CASE jobs'[j] = jobs[j]
  BY <1>1 DEF SameItem
<1>2. CASE RowsTidied
  BY <1>2 DEF RowsTidied, Rests, SameRun, IsStopped, IsPruned
<1>3. CASE JobEnters
  BY <1>1, <1>3 DEF JobEnters, OnlyJob, IsCreated, IsReopened
<1>4. CASE WorkerClaims
  BY <1>1, <1>4 DEF WorkerClaims, OnlyJob, IsClaimed, SameRun
<1>5. CASE WorkerFinishes
  BY <1>1, <1>5 DEF WorkerFinishes, OnlyJob, IsFinished
<1>6. CASE WorkerRuns \/ WorkerLoses
  BY <1>1, <1>6 DEF WorkerRuns, WorkerLoses
<1>7. CASE ProcessRestarts
  BY <1>7 DEF ProcessRestarts, Rests, IsRequeued, SameRun
<1> QED
  BY <1>2, <1>3, <1>4, <1>5, <1>6, <1>7, StepRows

LEMMA InBatchStep ==
  ASSUME BatchInvariant, [Next]_vars
  PROVE  InBatch'
<1>1. SUFFICES ASSUME NEW j \in Job, jobs'[j] # None, jobs'[j].slot # None
               PROVE  /\ batches'[jobs'[j].slot.batch] # None
                      /\ jobs'[j].slot.index < batches'[jobs'[j].slot.batch].size
  BY DEF InBatch, Jobs
<1>2. TypeOK'
  BY InvariantStep DEF BatchInvariant, QueueInvariant
<1>3. jobs'[j].slot.batch \in Batch
  BY <1>1, <1>2, NoneAssumption DEF TypeOK, JobRow, Slot
<1>4. /\ batches[jobs'[j].slot.batch] # None
      /\ jobs'[j].slot.index < batches[jobs'[j].slot.batch].size
  <2>1. CASE jobs[j] = None
    BY <1>1, <2>1, NewItemIsOpen DEF BatchInvariant
  <2>2. CASE jobs[j] # None
    BY <1>1, <2>2, ItemStays DEF BatchInvariant, InBatch, SameItem, Jobs
  <2> QED
    BY <2>1, <2>2
<1> QED
  BY <1>3, <1>4, BatchesStay

THEOREM BatchInvariantHolds == Spec => []BatchInvariant
<1>1. Init => InBatch
  BY DEF Init, InBatch, Jobs
<1>2. QueueInvariant /\ InBatch /\ [Next]_vars => InBatch'
  BY InBatchStep DEF BatchInvariant
<1>3. QueueInvariant /\ InBatch => BatchInvariant
  BY DEF BatchInvariant
<1> QED
  BY <1>1, <1>2, <1>3, QueueInvariantHolds, PTL DEF Spec

-----------------------------------------------------------------------------
(* The status *)

LEMMA CompleteBatch ==
  ASSUME TypeOK, NEW b \in Batch, Reads(b, "complete")
  PROVE  /\ batches[b] # None
         /\ JobsOf(b) # {}
         /\ ~(Submitted(b) < batches[b].size)
         /\ \A j \in JobsOf(b) : jobs[j].status = "success"
<1>1. batches[b] # None /\ BatchState(b) = "complete"
  BY DEF Reads
<1>2. /\ JobsIn(b, Open) = {}
      /\ JobsOf(b) # {}
      /\ ~(Submitted(b) < batches[b].size)
      /\ JobsIn(b, {"failed", "expired", "cancelled"}) = {}
  BY <1>1 DEF BatchState
<1>3. \A j \in JobsOf(b) : jobs[j].status \in Status
  BY DEF TypeOK, JobsOf, Jobs, JobRow
<1>4. \A j \in JobsOf(b) : jobs[j].status = "success"
  BY <1>2, <1>3 DEF JobsIn, Status, Open, Terminal
<1> QED
  BY <1>1, <1>2, <1>4

(* As many jobs as items, each of another item: no item is left out.       *)
LEMMA EveryItemHasJob ==
  ASSUME BatchInvariant, NEW b \in Batch, batches[b] # None,
         ~(Submitted(b) < batches[b].size)
  PROVE  \A i \in 0 .. batches[b].size - 1 : \E j \in JobsOf(b) : jobs[j].slot.index = i
<1> DEFINE items == 0 .. batches[b].size - 1
           index == [j \in JobsOf(b) |-> jobs[j].slot.index]
<1>0. TypeOK /\ OneJobPerItem /\ InBatch
  BY DEF BatchInvariant, QueueInvariant
<1>1. batches[b].size \in Nat
  BY <1>0, QueueAssumption DEF TypeOK, BatchRow
<1>2. IsFiniteSet(items) /\ Cardinality(items) = batches[b].size
  BY <1>1, FS_Interval
<1>3. \A j \in JobsOf(b) : /\ j \in Job /\ jobs[j] # None
                           /\ jobs[j].slot \in Slot
                           /\ jobs[j].slot.batch = b
                           /\ jobs[j].slot.index < batches[b].size
  BY <1>0 DEF TypeOK, JobsOf, Jobs, JobRow, InBatch
<1>4. \A j \in JobsOf(b) : jobs[j].slot.index \in items
  BY <1>1, <1>3, QueueAssumption DEF Slot
<1>5. \A i, j \in JobsOf(b) : jobs[i].slot.index = jobs[j].slot.index => i = j
  <2>1. \A i, j \in JobsOf(b) : i # j => jobs[i].slot # jobs[j].slot
    BY <1>0 DEF OneJobPerItem, JobsOf
  <2>2. \A s, t \in Slot : s.batch = t.batch /\ s.index = t.index => s = t
    BY DEF Slot
  <2> QED
    BY <1>3, <2>1, <2>2
<1>6. index \in Injection(JobsOf(b), items)
  BY <1>4, <1>5 DEF Injection, IsInjective
<1>7. IsFiniteSet(JobsOf(b)) /\ Cardinality(JobsOf(b)) <= Cardinality(items)
  BY <1>2, <1>6, FS_Injection
<1>8. Cardinality(JobsOf(b)) = Cardinality(items)
  BY <1>1, <1>2, <1>7, FS_CardinalityType DEF Submitted
<1>9. index \in Surjection(JobsOf(b), items)
  BY <1>2, <1>6, <1>8, FS_Injection
<1> QED
  BY <1>9 DEF Surjection

(* A batch reads complete only when every item of it has a job that        *)
(* succeeded (batch_json compares two counts, upload_batches.rs 26-34).    *)
THEOREM CompleteMeansEveryItemHolds == Spec => []CompleteMeansEveryItem
<1>1. BatchInvariant => CompleteMeansEveryItem
  BY CompleteBatch, EveryItemHasJob
     DEF CompleteMeansEveryItem, BatchInvariant, QueueInvariant
<1> QED
  BY <1>1, BatchInvariantHolds, PTL

LEMMA CompleteStep ==
  ASSUME BatchInvariant, [Next]_vars, NEW b \in Batch,
         Reads(b, "complete"), ~Reads(b, "complete")'
  PROVE  JobsOf(b)' \subseteq JobsOf(b) /\ Submitted(b)' < Submitted(b)
<1>0. QueueInvariant /\ TypeOK /\ TypeOK'
  BY InvariantStep DEF BatchInvariant, QueueInvariant
<1>1. /\ batches[b] # None
      /\ JobsOf(b) # {}
      /\ ~(Submitted(b) < batches[b].size)
      /\ \A j \in JobsOf(b) : jobs[j].status = "success"
  BY <1>0, CompleteBatch
<1>2. batches'[b] = batches[b]
  BY <1>1, BatchesStay
<1>3. \A i \in 0 .. batches[b].size - 1 : \E j \in JobsOf(b) : jobs[j].slot.index = i
  BY <1>1, EveryItemHasJob
<1>4. ASSUME NEW j \in JobsOf(b)' PROVE j \in JobsOf(b) /\ jobs'[j].status = "success"
  <2>1. j \in Job /\ jobs'[j] # None /\ jobs'[j].slot # None /\ jobs'[j].slot.batch = b
    BY <1>4 DEF JobsOf, Jobs
  <2>2. CASE jobs[j] # None
    <3>1. SameItem(j) /\ (jobs[j].status = "success" => jobs'[j].status = "success")
      BY <1>0, <2>1, <2>2, ItemStays
    <3>2. j \in JobsOf(b)
      BY <2>1, <3>1 DEF SameItem, JobsOf, Jobs
    <3> QED
      BY <1>1, <3>1, <3>2
  <2>3. CASE jobs[j] = None
    <3>1. /\ jobs'[j].slot.index < batches[b].size
          /\ ~SlotTaken(jobs'[j].slot)
      BY <1>0, <2>1, <2>3, NewItemIsOpen
    <3>2. jobs'[j].slot \in Slot
      BY <1>0, <2>1 DEF TypeOK, JobRow
    <3>3. jobs'[j].slot.index \in 0 .. batches[b].size - 1
      BY <1>0, <1>1, <3>1, <3>2, QueueAssumption DEF TypeOK, BatchRow, Slot
    <3>4. PICK i \in JobsOf(b) : jobs[i].slot.index = jobs'[j].slot.index
      BY <1>3, <3>3
    <3>5. i \in Jobs /\ jobs[i].slot \in Slot /\ jobs[i].slot.batch = b
      BY <1>0, <3>4 DEF JobsOf, Jobs, TypeOK, JobRow
    <3>6. jobs[i].slot = jobs'[j].slot
      BY <2>1, <3>2, <3>4, <3>5 DEF Slot
    <3> QED
      BY <3>1, <3>5, <3>6 DEF SlotTaken
  <2> QED
    BY <2>2, <2>3
<1>5. JobsOf(b)' \subseteq JobsOf(b)
  BY <1>4
<1>6. JobsOf(b)' # JobsOf(b)
  <2>1. SUFFICES ASSUME JobsOf(b)' = JobsOf(b) PROVE FALSE
    OBVIOUS
  <2>2. Submitted(b)' = Submitted(b)
    BY <2>1 DEF Submitted
  <2>3. /\ JobsIn(b, Open)' = {}
        /\ JobsIn(b, {"failed", "expired", "cancelled"})' = {}
    BY <1>4 DEF JobsIn, Open
  <2>4. BatchState(b)' = "complete"
    BY <1>1, <1>2, <2>1, <2>2, <2>3 DEF BatchState
  <2> QED
    BY <1>1, <1>2, <2>4 DEF Reads
<1>7. IsFiniteSet(JobsOf(b))
  BY FS_Subset, QueueAssumption DEF JobsOf, Jobs
<1>8. Submitted(b)' < Submitted(b)
  <2> DEFINE rest == JobsOf(b)'
  <2>1. IsFiniteSet(rest) /\ Cardinality(rest) <= Submitted(b) /\ Cardinality(rest) # Submitted(b)
    BY <1>5, <1>6, <1>7, FS_Subset DEF Submitted
  <2>2. Cardinality(rest) \in Nat /\ Submitted(b) \in Nat
    BY <1>7, <2>1, FS_CardinalityType DEF Submitted
  <2> QED
    BY <2>1, <2>2 DEF Submitted
<1> QED
  BY <1>5, <1>8

(* Nothing but pruning takes "complete" back from a batch.                 *)
THEOREM CompleteUndoneByPruningHolds == Spec => CompleteUndoneByPruning
<1>1. ASSUME BatchInvariant, [Next]_vars
      PROVE  [\A b \in Batch : Reads(b, "complete") /\ ~Reads(b, "complete")' =>
                 JobsOf(b)' \subseteq JobsOf(b) /\ Submitted(b)' < Submitted(b)]_vars
  BY <1>1, CompleteStep
<1> QED
  BY <1>1, BatchInvariantHolds, PTL DEF Spec, CompleteUndoneByPruning
=============================================================================
