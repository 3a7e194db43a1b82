--------------------------- MODULE JobQueueProofs ---------------------------
(***************************************************************************)
(* Proofs about JobQueue, for any users, keys, batches, jobs, history      *)
(* rows, handlers and bounds.                                              *)
(***************************************************************************)
EXTENDS JobQueue, FiniteSetTheorems, TLAPS

LEMMA InitInvariant == Init => QueueInvariant
<1> SUFFICES ASSUME Init PROVE QueueInvariant
  OBVIOUS
<1> USE DEF Init, IdleWorker
<1>1. TypeOK
  <2>1. worker \in Worker
    BY DEF Worker
  <2>2. restarts \in 0 .. MaxRestarts /\ retries \in 0 .. MaxRetries
    BY QueueAssumption
  <2> QED
    BY <2>1, <2>2 DEF TypeOK
<1>2. RequestOK /\ WorkerOK
  BY DEF RequestOK, WorkerOK
<1>3. Jobs = {}
  BY DEF Jobs
<1>4. WorkerHoldsActive /\ PayloadErased /\ OneJobPerItem /\ AttemptsBounded
  BY <1>3 DEF WorkerHoldsActive, Active, Held, PayloadErased, OneJobPerItem,
              AttemptsBounded
<1> QED
  BY <1>1, <1>2, <1>4 DEF QueueInvariant

-----------------------------------------------------------------------------
(* Type correctness *)

(* The row updates of the queue yield rows. *)
LEMMA CancelledRow ==
  ASSUME NEW q \in JobRow
  PROVE  [q EXCEPT !.status = "cancelled", !.idle = 0, !.payload = None] \in JobRow
BY DEF JobRow, Status, Terminal

LEMMA ExpiredRow ==
  ASSUME NEW q \in JobRow
  PROVE  [q EXCEPT !.status = "expired", !.idle = 0, !.payload = None] \in JobRow
BY DEF JobRow, Status, Terminal

LEMMA RetriedRow ==
  ASSUME NEW q \in JobRow, NEW p \in Payload \cup {None}
  PROVE  [q EXCEPT !.status = "queued", !.attempts = 0, !.wait = 0, !.idle = 0,
                   !.payload = p] \in JobRow
BY DEF JobRow, Status, Open

(* A request moves on without changing what it asked for. *)
LEMMA RequestMoves ==
  ASSUME TypeOK, NEW h \in Handler, handler[h] # None,
         NEW pc \in {"create", "insert", "retry"}, Goto(h, pc)
  PROVE  handler' \in [Handler -> Request \cup {None}]
<1>1. handler[h] \in Request
  BY DEF TypeOK
<1>2. [handler[h] EXCEPT !.pc = pc] \in Request
  BY <1>1 DEF Request
<1>3. handler' = [handler EXCEPT ![h] = [handler[h] EXCEPT !.pc = pc]]
  BY DEF Goto
<1> QED
  BY <1>2, <1>3 DEF TypeOK

LEMMA NextItemIs ==
  ASSUME TypeOK, NEW h \in Handler, handler[h] # None, handler[h].pc = "estimate",
         NextItem(h)
  PROVE  \E q \in Request : /\ q.pc = "estimate"
                            /\ handler' = [handler EXCEPT ![h] = q]
<1>1. handler[h] \in Request
  BY DEF TypeOK
<1>2. PICK k \in Key : handler' = [handler EXCEPT ![h] = [handler[h] EXCEPT !.key = k]]
  BY DEF NextItem
<1> DEFINE q == [handler[h] EXCEPT !.key = k]
<1>3. q \in Request /\ q.pc = "estimate"
  BY <1>1 DEF Request
<1> QED
  BY <1>2, <1>3

LEMMA CancelType ==
  ASSUME TypeOK, NEW J \in SUBSET Job, \A j \in J : jobs[j] # None, CancelRows(J)
  PROVE  jobs' \in [Job -> JobRow \cup {None}]
<1> DEFINE row(j) == [jobs[j] EXCEPT !.status = "cancelled", !.idle = 0, !.payload = None]
<1>1. \A j \in J : row(j) \in JobRow
  BY CancelledRow DEF TypeOK
<1>2. jobs' = [j \in Job |-> IF j \in J THEN row(j) ELSE jobs[j]]
  BY DEF CancelRows
<1> HIDE DEF row
<1> QED
  BY <1>1, <1>2 DEF TypeOK

LEMMA CallerType ==
  ASSUME QueueInvariant, Caller
  PROVE  TypeOK'
<1> USE QueueAssumption, NoneAssumption DEF QueueInvariant, TypeOK
<1>1. ASSUME NEW h \in Handler, NEW u \in User, NEW k \in Key \cup {None},
             NEW s \in Slot \cup {None}, NEW p \in Payload,
             SubmitCheck(h, u, k, s, p)
      PROVE  TypeOK'
  BY <1>1 DEF SubmitCheck, Request
<1>2. ASSUME NEW h \in Handler, SubmitCount(h) PROVE TypeOK'
  BY <1>2, RequestMoves DEF SubmitCount, Answer
<1>3. ASSUME NEW h \in Handler, CreateJob(h) PROVE TypeOK'
  BY <1>3, RequestMoves DEF CreateJob, Answer
<1>4. ASSUME NEW h \in Handler, handler[h] # None PROVE NewJob(handler[h]) \in JobRow
  BY <1>4 DEF NewJob, JobRow, Request, Status, Open
<1>5. ASSUME NEW h \in Handler, InsertJob(h) PROVE TypeOK'
  BY <1>5, <1>4 DEF InsertJob, Answer
<1>6. ASSUME NEW h \in Handler, CreateBatchJob(h) PROVE TypeOK'
  BY <1>6, <1>4 DEF CreateBatchJob, Answer
<1>7. ASSUME NEW h \in Handler, NEW j \in Job, NEW p \in Payload, RetryCheck(h, j, p)
      PROVE  TypeOK'
  BY <1>7 DEF RetryCheck, Retryable, Request, JobRow
<1>8. ASSUME NEW h \in Handler, RetryCount(h) PROVE TypeOK'
  BY <1>8, RequestMoves DEF RetryCount, Answer
<1>9. ASSUME NEW h \in Handler, RetryUpdate(h) PROVE TypeOK'
  <2> DEFINE i == handler[h].job
  <2>1. handler[h] \in Request
    BY <1>9 DEF RetryUpdate
  <2>2. handler[h].payload \in Payload \cup {None}
    BY <2>1 DEF Request
  <2>3. jobs' \in [Job -> JobRow \cup {None}]
    <3>1. CASE i \in Job /\ Retryable(i)
      <4>1. jobs[i] \in JobRow
        BY <3>1 DEF Retryable
      <4>2. jobs' = [jobs EXCEPT ![i] =
               [jobs[i] EXCEPT !.status = "queued", !.attempts = 0, !.wait = 0,
                               !.idle = 0, !.payload = handler[h].payload]]
        BY <1>9, <3>1 DEF RetryUpdate
      <4> HIDE DEF i
      <4> QED
        BY <4>1, <4>2, <2>2, RetriedRow
    <3>2. CASE ~Retryable(i)
      BY <1>9, <3>2 DEF RetryUpdate
    <3>3. i \in Job
      BY <1>9, <2>1 DEF RetryUpdate, RequestOK, Request
    <3> QED
      BY <3>1, <3>2, <3>3
  <2> QED
    BY <1>9, <2>3 DEF RetryUpdate, Answer
<1>10. ASSUME NEW h \in Handler, Estimating(h) PROVE TypeOK'
  <2>1. ASSUME NEW u \in User, NEW k \in Key, EstimateStart(h, u, k) PROVE TypeOK'
    BY <2>1 DEF EstimateStart, Request
  <2>2. ASSUME EstimateSave(h) \/ EstimateFail(h)
        PROVE  handler' \in [Handler -> Request \cup {None}]
    <3>1. CASE Answer(h)
      BY <3>1 DEF Answer
    <3>2. CASE NextItem(h)
      BY <2>2, <3>2, NextItemIs DEF EstimateSave, EstimateFail
    <3> QED
      BY <2>2, <3>1, <3>2 DEF EstimateSave, EstimateFail
  <2>3. CASE EstimateSave(h)
    BY <2>2, <2>3 DEF EstimateSave, Request, HistoryRow
  <2>4. CASE EstimateFail(h)
    BY <2>2, <2>4 DEF EstimateFail
  <2> QED
    BY <1>10, <2>1, <2>3, <2>4 DEF Estimating
<1>11. ASSUME NEW u \in User, NEW b \in Batch, NEW n \in 1 .. MaxItems, CreateBatch(u, b, n)
       PROVE  TypeOK'
  BY <1>11 DEF CreateBatch, BatchRow
<1>12. ASSUME NEW j \in Job, CancelJob(j) PROVE TypeOK'
  BY <1>12, CancelType DEF CancelJob, Queued
<1>13. ASSUME NEW b \in Batch, CancelBatch(b) PROVE TypeOK'
  BY <1>13, CancelType DEF CancelBatch, Queued
<1>14. ASSUME NEW r \in Row, DeleteRow(r) PROVE TypeOK'
  BY <1>14 DEF DeleteRow
<1>15. ASSUME NEW u \in User, DeleteAccount(u) PROVE TypeOK'
  BY <1>15 DEF DeleteAccount
<1> QED
  BY <1>1, <1>2, <1>3, <1>5, <1>6, <1>7, <1>8, <1>9, <1>10, <1>11, <1>12,
     <1>13, <1>14, <1>15 DEF Caller, Submitting, Retrying
(* While the worker is not idle its job is a row of the table, and active. *)
LEMMA WorkerHasJob ==
  ASSUME QueueInvariant, worker.pc # "idle"
  PROVE  /\ worker.job \in Job
         /\ jobs[worker.job] # None
         /\ jobs[worker.job] \in JobRow
         /\ jobs[worker.job].status = "active"
BY DEF QueueInvariant, TypeOK, WorkerOK, WorkerHoldsActive, Active, Held, Jobs

LEMMA FinishedRow ==
  ASSUME NEW q \in JobRow, NEW status \in Status, NEW wait \in Nat,
         NEW p \in Payload \cup {None}, NEW r \in Row \cup {None}
  PROVE  [q EXCEPT !.status = status, !.attempts = q.attempts + 1, !.wait = wait,
                   !.idle = 0, !.payload = p, !.row = r] \in JobRow
<1>1. q.attempts + 1 \in Nat
  BY DEF JobRow
<1> DEFINE n == q.attempts + 1
<1> HIDE DEF n
<1>2. [q EXCEPT !.status = status, !.attempts = n, !.wait = wait,
                !.idle = 0, !.payload = p, !.row = r] \in JobRow
  BY <1>1 DEF JobRow, n
<1> QED
  BY <1>2 DEF n

(* What finish_job does to the row of the worker's job, and to no other. *)
LEMMA FinishEffect ==
  ASSUME QueueInvariant, worker.pc # "idle",
         NEW status \in Status, NEW wait \in Nat, FinishJob(status, wait)
  PROVE  \E q \in JobRow :
            /\ jobs' = [jobs EXCEPT ![worker.job] = q]
            /\ q.user = jobs[worker.job].user
            /\ q.key = jobs[worker.job].key
            /\ q.slot = jobs[worker.job].slot
            /\ q.status = status
            /\ q.attempts = jobs[worker.job].attempts + 1
            /\ q.payload = IF status \in Terminal THEN None
                                                  ELSE jobs[worker.job].payload
<1> DEFINE old == jobs[worker.job]
           p   == IF status \in Terminal THEN None ELSE old.payload
           r   == IF worker.row # None THEN worker.row ELSE old.row
           q   == [old EXCEPT !.status = status, !.attempts = old.attempts + 1,
                              !.wait = wait, !.idle = 0, !.payload = p, !.row = r]
<1>1. old \in JobRow /\ old # None /\ worker.job \in Job
  BY WorkerHasJob
<1>2. p \in Payload \cup {None} /\ r \in Row \cup {None}
  BY <1>1 DEF QueueInvariant, TypeOK, Worker, JobRow
<1>3. q \in JobRow
  BY <1>1, <1>2, FinishedRow
<1>4. jobs' = [jobs EXCEPT ![worker.job] = q]
  BY <1>1 DEF FinishJob
<1>5. /\ q.user = old.user /\ q.key = old.key /\ q.slot = old.slot
      /\ q.status = status /\ q.attempts = old.attempts + 1 /\ q.payload = p
  BY <1>1 DEF JobRow
<1> QED
  BY <1>3, <1>4, <1>5

LEMMA FinishType ==
  ASSUME QueueInvariant, worker.pc # "idle",
         NEW status \in Status, NEW wait \in Nat, FinishJob(status, wait)
  PROVE  TypeOK'
<1>1. jobs' \in [Job -> JobRow \cup {None}]
  BY FinishEffect DEF QueueInvariant, TypeOK
<1>2. worker' \in Worker
  BY DEF FinishJob, IdleWorker, Worker
<1> QED
  BY <1>1, <1>2 DEF FinishJob, QueueInvariant, TypeOK

LEMMA WorkingType ==
  ASSUME QueueInvariant, Working
  PROVE  TypeOK'
<1> USE QueueAssumption, NoneAssumption DEF QueueInvariant, TypeOK
<1>1. ASSUME NEW j \in Job, Claim(j) PROVE TypeOK'
  <2>1. jobs[j] \in JobRow
    BY <1>1 DEF Claim, Due, Queued
  <2>2. [jobs[j] EXCEPT !.status = "active", !.idle = 0] \in JobRow
    BY <2>1 DEF JobRow, Status, Open
  <2>3. jobs' = [jobs EXCEPT ![j] = [jobs[j] EXCEPT !.status = "active", !.idle = 0]]
    BY <1>1 DEF Claim
  <2>4. worker' \in Worker
    BY <1>1, <2>1 DEF Claim, Worker, JobRow
  <2> QED
    BY <1>1, <2>2, <2>3, <2>4 DEF Claim
<1>2. CASE OwnerCheck
  BY <1>2 DEF OwnerCheck, WorkerGoto, Worker
<1>12. ASSUME NEW pc \in {"estimate", "save", "transient", "rejected"}, WorkerGoto(pc)
      PROVE  worker' \in Worker
  BY <1>12 DEF WorkerGoto, Worker
<1>3. CASE EstimateReject \/ EstimateTransient \/ EstimateInfer
  BY <1>3, <1>12 DEF EstimateReject, EstimateTransient, EstimateInfer
<1>13. /\ Stored \subseteq Row
       /\ \A r \in Row : [worker EXCEPT !.pc = "success", !.row = r] \in Worker
  BY DEF Stored, RowsFor, Rows, Worker
<1>4. CASE EstimateReplay
  <2>1. PICK r \in Stored : worker' = [worker EXCEPT !.pc = "success", !.row = r]
    BY <1>4 DEF EstimateReplay
  <2>2. worker' \in Worker
    BY <1>13, <2>1
  <2> QED
    BY <1>4, <2>2 DEF EstimateReplay
<1>5. CASE SaveRow
  <2>1. jobs[worker.job] \in JobRow /\ worker.job \in Job
    BY <1>5, WorkerHasJob DEF SaveRow
  <2>2. \/ \E r \in Stored : worker' = [worker EXCEPT !.pc = "success", !.row = r]
        \/ \E r \in Row : worker' = [worker EXCEPT !.pc = "success", !.row = r]
    BY <1>5 DEF SaveRow
  <2>3. ASSUME NEW r \in Row, worker' = [worker EXCEPT !.pc = "success", !.row = r]
        PROVE  worker' \in Worker
    BY <1>13, <2>3
  <2>4. worker' \in Worker
    BY <1>13, <2>2, <2>3, Zenon
  <2>5. [user |-> jobs[worker.job].user, key |-> jobs[worker.job].key,
         origin |-> worker.job] \in HistoryRow
    BY <2>1 DEF JobRow, HistoryRow
  <2>6. history' \in [Row -> HistoryRow \cup {None}]
    BY <1>5, <2>5 DEF SaveRow
  <2> QED
    BY <1>5, <2>4, <2>6 DEF SaveRow
<1>6. CASE SaveUnsaved \/ SavePanic
  BY <1>6 DEF SaveUnsaved, SavePanic, WorkerGoto, Worker
<1>7. CASE FinishSuccess
  BY <1>7, FinishType DEF FinishSuccess, Status, Terminal
<1>8. CASE FinishRetry
  <2>1. Backoff[worker.tries] \in Nat
    BY <1>8 DEF FinishRetry, Worker
  <2> QED
    BY <1>8, <2>1, FinishType DEF FinishRetry, Status, Open
<1>9. CASE FinishFailed
  BY <1>9, FinishType DEF FinishFailed, Status, Terminal
<1>10. CASE FinishLost
  <2>1. worker.job \in Job
    BY <1>10, WorkerHasJob DEF FinishLost
  <2> QED
    BY <1>10, <2>1 DEF FinishLost, IdleWorker, Worker
<1>11. CASE Maintain
  <2>1. \A j \in Job : Tidied(j) \in JobRow \cup {None}
    BY ExpiredRow DEF Tidied, Stale, Queued
  <2> QED
    BY <1>11, <2>1 DEF Maintain
<1> QED
  BY <1>1, <1>2, <1>3, <1>4, <1>5, <1>6, <1>7, <1>8, <1>9, <1>10, <1>11 DEF Working

LEMMA OlderIsAge ==
  ASSUME TypeOK, NEW j \in Job, jobs[j] # None
  PROVE  Older(j) \in Nat
<1> DEFINE A == {a \in Expiry .. jobs[j].age - 1 : \E i \in Jobs : jobs[i].age = a}
<1>1. jobs[j].age \in Nat /\ Expiry \in Nat
  BY QueueAssumption DEF TypeOK, JobRow
<1>2. IsFiniteSet(Expiry .. jobs[j].age - 1)
  BY <1>1, FS_Interval
<1>3. IsFiniteSet(A)
  BY <1>2, FS_Subset
<1>4. Cardinality(A) \in Nat
  BY <1>3, FS_CardinalityType
<1> QED
  BY <1>1, <1>4 DEF Older

LEMMA RestartCount ==
  ASSUME TypeOK, Restart
  PROVE  restarts' \in 0 .. MaxRestarts
<1>1. MaxRestarts \in Nat
  BY QueueAssumption
<1>2. restarts \in 0 .. MaxRestarts
  BY DEF TypeOK
<1>3. restarts < MaxRestarts /\ restarts' = restarts + 1
  BY DEF Restart
<1> QED
  BY <1>1, <1>2, <1>3

LEMMA ClaimedRow ==
  ASSUME NEW q \in JobRow
  PROVE  [q EXCEPT !.status = "active", !.idle = 0] \in JobRow
BY DEF JobRow, Status, Open

LEMMA TickedRow ==
  ASSUME TypeOK, Tick, NEW j \in Job, jobs[j] # None
  PROVE  jobs'[j] \in JobRow
<1> DEFINE wait == IF jobs[j].wait = 0 THEN 0 ELSE jobs[j].wait - 1
           idle == IF jobs[j].status \in Terminal
                   THEN Saturate(jobs[j].idle, Ttl + 1) ELSE jobs[j].idle
           age  == Older(j)
<1>1. jobs[j] \in JobRow
  BY DEF TypeOK
<1>2. wait \in Nat
  BY <1>1 DEF JobRow
<1>3. idle \in Nat
  BY <1>1, QueueAssumption DEF JobRow, Saturate
<1>4. age \in Nat
  BY OlderIsAge
<1>5. jobs'[j] = [jobs[j] EXCEPT !.wait = wait, !.age = age, !.idle = idle]
  BY DEF Tick
<1> HIDE DEF wait, idle, age
<1> QED
  BY <1>1, <1>2, <1>3, <1>4, <1>5 DEF JobRow

LEMMA RestType ==
  ASSUME QueueInvariant, SetPaused \/ Restart \/ Tick
  PROVE  TypeOK'
<1> USE QueueAssumption, NoneAssumption DEF QueueInvariant, TypeOK
<1>1. CASE SetPaused
  BY <1>1 DEF SetPaused
<1>2. CASE Restart
  <2>1. \A q \in JobRow : [q EXCEPT !.status = "queued", !.idle = 0] \in JobRow
    BY DEF JobRow, Status, Open
  <2>2. jobs' \in [Job -> JobRow \cup {None}]
    BY <1>2, <2>1 DEF Restart
  <2>3. worker' \in Worker
    BY <1>2 DEF Restart, IdleWorker, Worker
  <2>4. restarts' \in 0 .. MaxRestarts
    BY <1>2, RestartCount
  <2>5. handler' \in [Handler -> Request \cup {None}]
    BY <1>2 DEF Restart
  <2> QED
    BY <1>2, <2>2, <2>3, <2>4, <2>5 DEF Restart
<1>3. CASE Tick
  <2>1. jobs' = [j \in Job |-> jobs'[j]]
    BY <1>3 DEF Tick
  <2>2. \A j \in Job : jobs'[j] \in JobRow \cup {None}
    BY <1>3, TickedRow DEF Tick
  <2> QED
    BY <1>3, <2>1, <2>2 DEF Tick
<1> QED
  BY <1>1, <1>2, <1>3

-----------------------------------------------------------------------------
(* What a step may do to a row of the table, clocks apart *)

SameItem(j) ==
    /\ jobs[j] # None
    /\ jobs'[j] # None
    /\ jobs'[j].user = jobs[j].user
    /\ jobs'[j].key = jobs[j].key
    /\ jobs'[j].slot = jobs[j].slot

SameRun(j) ==
    /\ SameItem(j)
    /\ jobs'[j].attempts = jobs[j].attempts
    /\ jobs'[j].payload = jobs[j].payload

Rests(j) ==
    \/ jobs[j] = None /\ jobs'[j] = None
    \/ SameRun(j) /\ jobs'[j].status = jobs[j].status

IsCreated(j) ==
    /\ jobs[j] = None
    /\ jobs'[j] # None
    /\ jobs'[j].status = "queued"
    /\ jobs'[j].attempts = 0
    /\ jobs'[j].payload # None
    /\ ~KeyTaken(jobs'[j].user, jobs'[j].key)
    /\ jobs'[j].slot # None => ~SlotTaken(jobs'[j].slot)

IsStopped(j) ==
    /\ SameItem(j)
    /\ jobs[j].status = "queued"
    /\ jobs'[j].status \in {"cancelled", "expired"}
    /\ jobs'[j].attempts = jobs[j].attempts
    /\ jobs'[j].payload = None

IsReopened(j) ==
    /\ SameItem(j)
    /\ jobs[j].status \in {"failed", "cancelled", "expired"}
    /\ jobs'[j].status = "queued"
    /\ jobs'[j].attempts = 0
    /\ jobs'[j].payload # None

IsPruned(j) ==
    /\ jobs[j] # None
    /\ jobs[j].status \in Terminal
    /\ jobs'[j] = None

IsClaimed(j) ==
    /\ SameRun(j)
    /\ jobs[j].status = "queued"
    /\ jobs'[j].status = "active"

IsFinished(j, status) ==
    /\ SameItem(j)
    /\ jobs[j].status = "active"
    /\ jobs'[j].status = status
    /\ jobs'[j].attempts = jobs[j].attempts + 1
    /\ jobs'[j].payload = IF status \in Terminal THEN None ELSE jobs[j].payload

IsRequeued(j) ==
    /\ SameRun(j)
    /\ jobs[j].status = "active"
    /\ jobs'[j].status = "queued"

OnlyJob(j) == \A i \in Job \ {j} : jobs'[i] = jobs[i]

LEMMA UnchangedRests ==
  ASSUME UNCHANGED jobs
  PROVE  \A j \in Job : Rests(j)
BY DEF Rests, SameRun, SameItem

LEMMA CancelRests ==
  ASSUME TypeOK, NEW J \in SUBSET Job, \A j \in J : Queued(j), CancelRows(J)
  PROVE  \A j \in Job : Rests(j) \/ IsStopped(j)
<1> TAKE j \in Job
<1>1. CASE j \in J
  <2>1. jobs[j] \in JobRow /\ jobs[j] # None /\ jobs[j].status = "queued"
    BY <1>1 DEF Queued, TypeOK
  <2>2. jobs'[j] = [jobs[j] EXCEPT !.status = "cancelled", !.idle = 0, !.payload = None]
    BY <1>1 DEF CancelRows
  <2>3. jobs'[j] # None
    BY <2>1, <2>2, CancelledRow, NoneAssumption
  <2> QED
    BY <2>1, <2>2, <2>3 DEF IsStopped, SameItem, JobRow
<1>2. CASE j \notin J
  BY <1>2 DEF CancelRows, Rests, SameRun, SameItem
<1> QED
  BY <1>1, <1>2

LEMMA NewJobIsCreated ==
  ASSUME QueueInvariant, NEW h \in Handler, handler[h] # None,
         handler[h].pc # "estimate", NEW j \in Job, FreshJob(j),
         jobs' = [jobs EXCEPT ![j] = NewJob(handler[h])],
         ~KeyTaken(handler[h].user, handler[h].key),
         handler[h].slot # None => ~SlotTaken(handler[h].slot)
  PROVE  IsCreated(j) /\ OnlyJob(j)
<1>1. jobs[j] = None /\ jobs'[j] = NewJob(handler[h])
  BY DEF FreshJob, QueueInvariant, TypeOK
<1>2. handler[h] \in Request /\ handler[h].payload # None
  BY DEF QueueInvariant, TypeOK, RequestOK
<1>3. jobs'[j] # None
  BY <1>1, <1>2, NoneAssumption DEF NewJob, JobRow, Request, Status, Open
<1>4. /\ jobs'[j].user = handler[h].user /\ jobs'[j].key = handler[h].key
      /\ jobs'[j].slot = handler[h].slot /\ jobs'[j].status = "queued"
      /\ jobs'[j].attempts = 0 /\ jobs'[j].payload = handler[h].payload
  BY <1>1 DEF NewJob
<1> QED
  BY <1>1, <1>2, <1>3, <1>4 DEF IsCreated, OnlyJob, QueueInvariant, TypeOK
(* The ways a step changes the table: rows are left alone, stopped or      *)
(* pruned; one row is created or reopened; or one of the worker's and the  *)
(* process's own steps below.                                              *)
RowsTidied ==
    /\ \A j \in Job : Rests(j) \/ IsStopped(j) \/ IsPruned(j)
    /\ UNCHANGED <<worker, stuck>>

JobEnters ==
    /\ \E j \in Job : OnlyJob(j) /\ (IsCreated(j) \/ IsReopened(j))
    /\ UNCHANGED <<worker, stuck>>

LEMMA CallerRows ==
  ASSUME QueueInvariant, Caller
  PROVE  RowsTidied \/ JobEnters
<1>1. ASSUME NEW h \in Handler, NEW u \in User, NEW k \in Key \cup {None},
             NEW s \in Slot \cup {None}, NEW p \in Payload,
             SubmitCheck(h, u, k, s, p)
      PROVE  UNCHANGED <<jobs, worker, stuck>>
  BY <1>1 DEF SubmitCheck
<1>2. ASSUME NEW h \in Handler, SubmitCount(h) \/ CreateJob(h) \/ RetryCount(h) \/ Estimating(h)
      PROVE  UNCHANGED <<jobs, worker, stuck>>
  BY <1>2 DEF SubmitCount, CreateJob, RetryCount, Estimating, EstimateStart,
     EstimateSave, EstimateFail
<1>3. ASSUME NEW h \in Handler, InsertJob(h)
      PROVE  /\ UNCHANGED jobs \/ \E j \in Job : OnlyJob(j) /\ IsCreated(j)
             /\ UNCHANGED <<worker, stuck>>
  <2>1. handler[h].slot = None
    BY <1>3 DEF InsertJob, QueueInvariant, RequestOK
  <2> QED
    BY <1>3, <2>1, NewJobIsCreated DEF InsertJob
<1>4. ASSUME NEW h \in Handler, CreateBatchJob(h)
      PROVE  /\ UNCHANGED jobs \/ \E j \in Job : OnlyJob(j) /\ IsCreated(j)
             /\ UNCHANGED <<worker, stuck>>
  BY <1>4, NewJobIsCreated DEF CreateBatchJob, SlotOpen
<1>5. ASSUME NEW h \in Handler, NEW j \in Job, NEW p \in Payload, RetryCheck(h, j, p)
      PROVE  UNCHANGED <<jobs, worker, stuck>>
  BY <1>5 DEF RetryCheck
<1>6. ASSUME NEW h \in Handler, RetryUpdate(h)
      PROVE  /\ UNCHANGED jobs \/ \E j \in Job : OnlyJob(j) /\ IsReopened(j)
             /\ UNCHANGED <<worker, stuck>>
  <2> DEFINE i == handler[h].job
             q == [jobs[i] EXCEPT !.status = "queued", !.attempts = 0, !.wait = 0,
                                  !.idle = 0, !.payload = handler[h].payload]
  <2>1. /\ i \in Job
        /\ handler[h].payload \in Payload \cup {None}
        /\ handler[h].payload # None
    BY <1>6 DEF RetryUpdate, QueueInvariant, TypeOK, RequestOK, Request
  <2>2. CASE Retryable(i)
    <3>1. jobs[i] \in JobRow /\ jobs[i] # None
      BY <2>1, <2>2 DEF Retryable, QueueInvariant, TypeOK
    <3>2. q \in JobRow
      BY <2>1, <3>1, RetriedRow
    <3>3. jobs' = [jobs EXCEPT ![i] = q]
      BY <1>6, <2>2 DEF RetryUpdate
    <3>4. jobs'[i] = q /\ OnlyJob(i)
      BY <2>1, <3>3 DEF OnlyJob, QueueInvariant, TypeOK
    <3>5. IsReopened(i)
      BY <2>1, <2>2, <3>1, <3>2, <3>4, NoneAssumption
         DEF IsReopened, SameItem, Retryable, JobRow
    <3> QED
      BY <1>6, <2>1, <3>4, <3>5 DEF RetryUpdate
  <2>3. CASE ~Retryable(i)
    BY <1>6, <2>3 DEF RetryUpdate
  <2> QED
    BY <2>2, <2>3
<1>7. ASSUME NEW j \in Job, CancelJob(j)
      PROVE  /\ \A i \in Job : Rests(i) \/ IsStopped(i)
             /\ UNCHANGED <<worker, stuck>>
  BY <1>7, CancelRests DEF CancelJob, QueueInvariant
<1>8. ASSUME NEW b \in Batch, CancelBatch(b)
      PROVE  /\ \A i \in Job : Rests(i) \/ IsStopped(i)
             /\ UNCHANGED <<worker, stuck>>
  BY <1>8, CancelRests DEF CancelBatch, QueueInvariant
<1>9. ASSUME \/ \E u \in User, b \in Batch, n \in 1 .. MaxItems : CreateBatch(u, b, n)
             \/ \E r \in Row : DeleteRow(r)
             \/ \E u \in User : DeleteAccount(u)
      PROVE  UNCHANGED <<jobs, worker, stuck>>
  BY <1>9 DEF CreateBatch, DeleteRow, DeleteAccount
<1> QED
  BY <1>1, <1>2, <1>3, <1>4, <1>5, <1>6, <1>7, <1>8, <1>9, UnchangedRests
     DEF Caller, Submitting, Retrying, RowsTidied, JobEnters

(* What the worker does to the table and to its own state.                 *)
WorkerClaims ==
    /\ worker.pc = "idle"
    /\ worker'.pc # "idle"
    /\ worker'.job \in Job
    /\ IsClaimed(worker'.job)
    /\ OnlyJob(worker'.job)
    /\ worker'.tries = jobs[worker'.job].attempts
    /\ UNCHANGED stuck

WorkerFinishes ==
    /\ worker.pc # "idle"
    /\ worker'.pc = "idle"
    /\ \/ IsFinished(worker.job, "success")
       \/ IsFinished(worker.job, "failed")
       \/ IsFinished(worker.job, "queued") /\ worker.tries + 1 < MaxAttempts
    /\ OnlyJob(worker.job)
    /\ UNCHANGED stuck

WorkerRuns ==
    /\ worker.pc # "idle"
    /\ worker'.pc # "idle"
    /\ worker'.job = worker.job
    /\ worker'.tries = worker.tries
    /\ UNCHANGED <<jobs, stuck>>

WorkerLoses ==
    /\ worker.pc # "idle"
    /\ worker'.pc = "idle"
    /\ stuck' = stuck \cup {worker.job}
    /\ UNCHANGED jobs

ProcessRestarts ==
    /\ \A j \in Job : \/ Rests(j) /\ (jobs[j] # None => jobs[j].status # "active")
                      \/ IsRequeued(j)
    /\ worker'.pc = "idle"
    /\ stuck' = {}

LEMMA FinishIsFinished ==
  ASSUME QueueInvariant, worker.pc # "idle", NEW status \in Status,
         NEW wait \in Nat, FinishJob(status, wait)
  PROVE  /\ IsFinished(worker.job, status)
         /\ OnlyJob(worker.job)
         /\ worker'.pc = "idle"
         /\ UNCHANGED stuck
<1>1. PICK q \in JobRow :
            /\ jobs' = [jobs EXCEPT ![worker.job] = q]
            /\ q.user = jobs[worker.job].user
            /\ q.key = jobs[worker.job].key
            /\ q.slot = jobs[worker.job].slot
            /\ q.status = status
            /\ q.attempts = jobs[worker.job].attempts + 1
            /\ q.payload = IF status \in Terminal THEN None
                                                  ELSE jobs[worker.job].payload
  BY FinishEffect
<1>2. /\ worker.job \in Job
      /\ jobs[worker.job] # None
      /\ jobs[worker.job].status = "active"
  BY WorkerHasJob
<1>3. jobs'[worker.job] = q /\ q # None /\ OnlyJob(worker.job)
  BY <1>1, <1>2, NoneAssumption DEF OnlyJob, QueueInvariant, TypeOK
<1> QED
  BY <1>1, <1>2, <1>3 DEF IsFinished, SameItem, FinishJob, IdleWorker

LEMMA WorkingRows ==
  ASSUME QueueInvariant, Working
  PROVE  WorkerClaims \/ WorkerFinishes \/ WorkerRuns \/ WorkerLoses \/ RowsTidied
<1>1. ASSUME NEW j \in Job, Claim(j) PROVE WorkerClaims
  <2>1. jobs[j] \in JobRow /\ jobs[j] # None /\ jobs[j].status = "queued"
    BY <1>1 DEF Claim, Due, Queued, QueueInvariant, TypeOK
  <2>2. jobs'[j] = [jobs[j] EXCEPT !.status = "active", !.idle = 0] /\ OnlyJob(j)
    BY <1>1 DEF Claim, OnlyJob, QueueInvariant, TypeOK
  <2>3. jobs'[j] \in JobRow
    BY <2>1, <2>2, ClaimedRow
  <2>4. IsClaimed(j)
    BY <2>1, <2>2, <2>3, NoneAssumption DEF IsClaimed, SameRun, SameItem, JobRow
  <2>5. worker'.pc = "claimed" /\ worker'.job = j /\ worker'.tries = jobs[j].attempts
    BY <1>1 DEF Claim
  <2> QED
    BY <1>1, <2>2, <2>4, <2>5 DEF WorkerClaims, Claim
<1>2. CASE OwnerCheck \/ EstimateReject \/ EstimateReplay \/ EstimateTransient
           \/ EstimateInfer \/ SaveRow \/ SaveUnsaved \/ SavePanic
  <2>1. worker \in Worker
    BY DEF QueueInvariant, TypeOK
  <2>2. CASE \E pc \in {"estimate", "rejected", "transient", "save", "success", "dead"} :
                worker' = [worker EXCEPT !.pc = pc]
    BY <1>2, <2>1, <2>2 DEF WorkerRuns, Worker, OwnerCheck, EstimateReject,
       EstimateReplay, EstimateTransient, EstimateInfer, SaveRow, SaveUnsaved, SavePanic
  <2>3. CASE \E r \in Row : worker' = [worker EXCEPT !.pc = "success", !.row = r]
    BY <1>2, <2>1, <2>3 DEF WorkerRuns, Worker, OwnerCheck, EstimateReject,
       EstimateReplay, EstimateTransient, EstimateInfer, SaveRow, SaveUnsaved, SavePanic
  <2> QED
    BY <1>2, <2>2, <2>3 DEF OwnerCheck, EstimateReject, EstimateReplay,
       EstimateTransient, EstimateInfer, SaveRow, SaveUnsaved, SavePanic,
       WorkerGoto, Stored, RowsFor, Rows
<1>3. CASE FinishSuccess
  BY <1>3, FinishIsFinished DEF FinishSuccess, WorkerFinishes, Status, Terminal
<1>4. CASE FinishRetry
  <2>1. Backoff[worker.tries] \in Nat
    BY <1>4, QueueAssumption DEF FinishRetry, Worker, QueueInvariant, TypeOK
  <2> QED
    BY <1>4, <2>1, FinishIsFinished DEF FinishRetry, WorkerFinishes, Status, Open
<1>5. CASE FinishFailed
  BY <1>5, FinishIsFinished DEF FinishFailed, WorkerFinishes, Status, Terminal
<1>6. CASE FinishLost
  BY <1>6 DEF FinishLost, WorkerLoses, IdleWorker
<1>7. CASE Maintain
  <2>1. ASSUME NEW j \in Job, Prunable(j) PROVE IsPruned(j)
    BY <1>7, <2>1 DEF Maintain, Tidied, Prunable, IsPruned
  <2>2. ASSUME NEW j \in Job, ~Prunable(j), Stale(j) PROVE IsStopped(j)
    <3>1. jobs[j] \in JobRow /\ jobs[j] # None /\ jobs[j].status = "queued"
      BY <2>2 DEF Stale, Queued, QueueInvariant, TypeOK
    <3>2. jobs'[j] = [jobs[j] EXCEPT !.status = "expired", !.idle = 0, !.payload = None]
      BY <1>7, <2>2 DEF Maintain, Tidied
    <3>3. jobs'[j] # None
      BY <3>1, <3>2, ExpiredRow, NoneAssumption
    <3> QED
      BY <3>1, <3>2, <3>3 DEF IsStopped, SameItem, JobRow
  <2>3. ASSUME NEW j \in Job, ~Prunable(j), ~Stale(j) PROVE Rests(j)
    BY <1>7, <2>3 DEF Maintain, Tidied, Rests, SameRun, SameItem
  <2> QED
    BY <1>7, <2>1, <2>2, <2>3 DEF RowsTidied, Maintain
<1> QED
  BY <1>1, <1>2, <1>3, <1>4, <1>5, <1>6, <1>7 DEF Working
LEMMA RestRows ==
  ASSUME QueueInvariant, SetPaused \/ Restart \/ Tick
  PROVE  RowsTidied \/ ProcessRestarts
<1>1. CASE SetPaused
  BY <1>1, UnchangedRests DEF SetPaused, RowsTidied
<1>2. CASE Restart
  <2>1. ASSUME NEW j \in Job, jobs[j] # None, jobs[j].status = "active"
        PROVE  IsRequeued(j)
    <3> DEFINE q == [jobs[j] EXCEPT !.status = "queued", !.idle = 0]
    <3>1. jobs[j] \in JobRow
      BY <2>1 DEF QueueInvariant, TypeOK
    <3>2. q \in JobRow
      BY <3>1 DEF JobRow, Status, Open
    <3>3. jobs'[j] = q
      BY <1>2, <2>1 DEF Restart
    <3> QED
      BY <2>1, <3>1, <3>2, <3>3, NoneAssumption DEF IsRequeued, SameRun, SameItem, JobRow
  <2>2. ASSUME NEW j \in Job, ~(jobs[j] # None /\ jobs[j].status = "active")
        PROVE  Rests(j) /\ (jobs[j] # None => jobs[j].status # "active")
    BY <1>2, <2>2 DEF Restart, Rests, SameRun, SameItem
  <2> QED
    BY <1>2, <2>1, <2>2 DEF Restart, ProcessRestarts, IdleWorker
<1>3. CASE Tick
  <2>1. ASSUME NEW j \in Job, jobs[j] # None PROVE Rests(j)
    <3>1. jobs[j] \in JobRow
      BY <2>1 DEF QueueInvariant, TypeOK
    <3>2. PICK w, a, i : jobs'[j] = [jobs[j] EXCEPT !.wait = w, !.age = a, !.idle = i]
      BY <1>3, <2>1 DEF Tick
    <3>3. /\ jobs'[j].user = jobs[j].user /\ jobs'[j].key = jobs[j].key
          /\ jobs'[j].slot = jobs[j].slot /\ jobs'[j].status = jobs[j].status
          /\ jobs'[j].attempts = jobs[j].attempts /\ jobs'[j].payload = jobs[j].payload
      BY <3>1, <3>2 DEF JobRow
    <3>4. jobs'[j] # None
      BY <1>3, <2>1, TickedRow, NoneAssumption DEF QueueInvariant
    <3> QED
      BY <2>1, <3>3, <3>4 DEF Rests, SameRun, SameItem
  <2>2. ASSUME NEW j \in Job, jobs[j] = None PROVE Rests(j)
    BY <1>3, <2>2 DEF Tick, Rests
  <2> QED
    BY <1>3, <2>1, <2>2 DEF Tick, RowsTidied
<1> QED
  BY <1>1, <1>2, <1>3

LEMMA StepRows ==
  ASSUME QueueInvariant, [Next]_vars
  PROVE  \/ RowsTidied \/ JobEnters
         \/ WorkerClaims \/ WorkerFinishes \/ WorkerRuns \/ WorkerLoses
         \/ ProcessRestarts
<1>1. CASE UNCHANGED vars
  BY <1>1, UnchangedRests DEF vars, RowsTidied
<1>2. CASE Next
  BY <1>2, CallerRows, WorkingRows, RestRows DEF Next
<1> QED
  BY <1>1, <1>2

-----------------------------------------------------------------------------
(* The other parts of the invariant *)

LEMMA RequestStep ==
  ASSUME QueueInvariant, [Next]_vars
  PROVE  RequestOK'
<1> USE DEF RequestOK
<1> DEFINE Known(q) == q # None =>
        /\ q.pc # "estimate" => q.payload # None
        /\ q.pc = "insert" => q.slot = None
        /\ q.pc \in {"recount", "retry"} => q.job # None
<1>0. /\ \A h \in Handler : Known(handler[h])
      /\ handler \in [Handler -> Request \cup {None}]
  BY DEF QueueInvariant, TypeOK
<1>1. ASSUME NEW h \in Handler, NEW q, handler' = [handler EXCEPT ![h] = q], Known(q)
      PROVE  RequestOK'
  BY <1>0, <1>1
<1>2. ASSUME NEW h \in Handler, Answer(h) PROVE RequestOK'
  BY <1>1, <1>2 DEF Answer
<1>3. ASSUME NEW h \in Handler, NEW pc \in {"create", "insert", "retry"}, Goto(h, pc),
             handler[h] # None, handler[h].pc # "estimate",
             pc = "insert" => handler[h].slot = None,
             pc = "retry" => handler[h].job # None
      PROVE  RequestOK'
  <2> DEFINE q == [handler[h] EXCEPT !.pc = pc]
  <2>1. handler[h] \in Request
    BY <1>0, <1>3
  <2>2. q.pc = pc /\ q.payload = handler[h].payload /\ q.slot = handler[h].slot
        /\ q.job = handler[h].job
    BY <2>1 DEF Request
  <2>3. Known(q)
    BY <1>0, <1>3, <2>2
  <2>4. handler' = [handler EXCEPT ![h] = q]
    BY <1>3 DEF Goto
  <2> HIDE DEF q, Known
  <2> QED
    BY <1>1, <2>3, <2>4
<1>4. ASSUME UNCHANGED handler PROVE RequestOK'
  BY <1>0, <1>4
<1>5. ASSUME NEW h \in Handler, Submitting(h) PROVE RequestOK'
  <2>1. ASSUME NEW u \in User, NEW k \in Key \cup {None}, NEW s \in Slot \cup {None},
               NEW p \in Payload, SubmitCheck(h, u, k, s, p)
        PROVE  RequestOK'
    BY <1>1, <2>1, NoneAssumption DEF SubmitCheck
  <2>2. CASE SubmitCount(h)
    BY <1>2, <1>3, <2>2 DEF SubmitCount
  <2>3. CASE CreateJob(h)
    BY <1>2, <1>3, <2>3 DEF CreateJob
  <2>4. CASE InsertJob(h) \/ CreateBatchJob(h)
    BY <1>2, <2>4 DEF InsertJob, CreateBatchJob
  <2> QED
    BY <1>5, <2>1, <2>2, <2>3, <2>4 DEF Submitting
<1>6. ASSUME NEW h \in Handler, Retrying(h) PROVE RequestOK'
  <2>1. ASSUME NEW j \in Job, NEW p \in Payload, RetryCheck(h, j, p) PROVE RequestOK'
    BY <1>1, <2>1, NoneAssumption DEF RetryCheck
  <2>2. CASE RetryCount(h)
    BY <1>0, <1>2, <1>3, <2>2 DEF RetryCount
  <2>3. CASE RetryUpdate(h)
    BY <1>2, <2>3 DEF RetryUpdate
  <2> QED
    BY <1>6, <2>1, <2>2, <2>3 DEF Retrying
<1>7. ASSUME NEW h \in Handler, Estimating(h) PROVE RequestOK'
  <2>1. CASE \E u \in User, k \in Key : EstimateStart(h, u, k)
    BY <1>1, <2>1 DEF EstimateStart
  <2>2. CASE EstimateSave(h) \/ EstimateFail(h)
    <3>1. CASE NextItem(h)
      <4>1. PICK q \in Request : /\ q.pc = "estimate"
                                 /\ handler' = [handler EXCEPT ![h] = q]
        BY <2>2, <3>1, NextItemIs DEF EstimateSave, EstimateFail, QueueInvariant
      <4> QED
        BY <1>1, <4>1
    <3>2. CASE Answer(h)
      BY <1>2, <3>2
    <3> QED
      BY <2>2, <3>1, <3>2 DEF EstimateSave, EstimateFail
  <2> QED
    BY <1>7, <2>1, <2>2 DEF Estimating
<1>8. CASE Caller
  BY <1>4, <1>5, <1>6, <1>7, <1>8 DEF Caller, CreateBatch, CancelJob, CancelBatch,
     DeleteRow, DeleteAccount
<1>9. CASE Working
  BY <1>4, <1>9 DEF Working, Claim, OwnerCheck, EstimateReject, EstimateReplay,
     EstimateTransient, EstimateInfer, SaveRow, SaveUnsaved, SavePanic,
     FinishSuccess, FinishRetry, FinishFailed, FinishJob, FinishLost, Maintain
<1>10. CASE SetPaused \/ Tick \/ UNCHANGED vars
  BY <1>4, <1>10 DEF SetPaused, Tick, vars
<1>11. CASE Restart
  BY <1>11 DEF Restart
<1> QED
  BY <1>8, <1>9, <1>10, <1>11 DEF Next
LEMMA HeldStep ==
  ASSUME QueueInvariant, [Next]_vars
  PROVE  WorkerOK' /\ WorkerHoldsActive'
<1> DEFINE On(j)  == jobs[j] # None /\ jobs[j].status = "active"
           On1(j) == jobs'[j] # None /\ jobs'[j].status = "active"
<1>1. /\ worker.pc # "idle" => worker.job \in Job \ stuck
      /\ stuck \subseteq Job
      /\ \A j \in Job : On(j) <=> (worker.pc # "idle" /\ j = worker.job) \/ j \in stuck
  BY DEF QueueInvariant, TypeOK, WorkerOK, WorkerHoldsActive, Active, Held, Jobs
<1>2. SUFFICES
        /\ worker'.pc # "idle" => worker'.job \in Job \ stuck'
        /\ stuck' \subseteq Job
        /\ \A j \in Job : On1(j) <=> (worker'.pc # "idle" /\ j = worker'.job) \/ j \in stuck'
  BY <1>2 DEF WorkerOK, WorkerHoldsActive, Active, Held, Jobs
<1>3. CASE RowsTidied
  BY <1>1, <1>3 DEF RowsTidied, Rests, SameRun, SameItem, IsStopped, IsPruned, Terminal
<1>4. CASE JobEnters
  BY <1>1, <1>4 DEF JobEnters, OnlyJob, IsCreated, IsReopened, SameItem
<1>5. CASE WorkerClaims
  BY <1>1, <1>5 DEF WorkerClaims, OnlyJob, IsClaimed, SameRun, SameItem
<1>6. CASE WorkerFinishes
  BY <1>1, <1>6 DEF WorkerFinishes, OnlyJob, IsFinished, SameItem
<1>7. CASE WorkerRuns \/ WorkerLoses
  BY <1>1, <1>7 DEF WorkerRuns, WorkerLoses
<1>8. CASE ProcessRestarts
  BY <1>1, <1>8 DEF ProcessRestarts, Rests, IsRequeued, SameRun, SameItem
<1> QED
  BY <1>3, <1>4, <1>5, <1>6, <1>7, <1>8, StepRows

LEMMA PayloadStep ==
  ASSUME QueueInvariant, [Next]_vars
  PROVE  PayloadErased'
<1> DEFINE Erased(q) == q # None => (q.status \in Terminal <=> q.payload = None)
<1>1. \A j \in Job : Erased(jobs[j])
  BY DEF QueueInvariant, PayloadErased, Jobs
<1>2. SUFFICES \A j \in Job : Erased(jobs'[j])
  BY <1>2 DEF PayloadErased, Jobs
<1> USE <1>1 DEF Terminal
<1>3. CASE RowsTidied
  BY <1>3 DEF RowsTidied, Rests, SameRun, SameItem, IsStopped, IsPruned
<1>4. CASE JobEnters
  BY <1>4 DEF JobEnters, OnlyJob, IsCreated, IsReopened, SameItem
<1>5. CASE WorkerClaims
  BY <1>5 DEF WorkerClaims, OnlyJob, IsClaimed, SameRun, SameItem
<1>6. CASE WorkerFinishes
  BY <1>6 DEF WorkerFinishes, OnlyJob, IsFinished, SameItem
<1>7. CASE WorkerRuns \/ WorkerLoses
  BY <1>7 DEF WorkerRuns, WorkerLoses
<1>8. CASE ProcessRestarts
  BY <1>8 DEF ProcessRestarts, Rests, IsRequeued, SameRun, SameItem
<1> QED
  BY <1>3, <1>4, <1>5, <1>6, <1>7, <1>8, StepRows

LEMMA ItemStep ==
  ASSUME QueueInvariant, [Next]_vars
  PROVE  OneJobPerItem'
<1> DEFINE Apart(p, q) ==
        /\ p.key # None => ~(p.user = q.user /\ p.key = q.key)
        /\ p.slot # None => p.slot # q.slot
<1>1. \A i, j \in Job : i # j /\ jobs[i] # None /\ jobs[j] # None
                            => Apart(jobs[i], jobs[j])
  BY DEF QueueInvariant, OneJobPerItem, Jobs
<1>2. SUFFICES ASSUME NEW i \in Job, NEW j \in Job, i # j,
                      jobs'[i] # None, jobs'[j] # None
               PROVE  Apart(jobs'[i], jobs'[j])
  BY <1>2 DEF OneJobPerItem, Jobs
<1>3. CASE SameItem(i) /\ SameItem(j)
  BY <1>1, <1>2, <1>3 DEF SameItem
<1>4. CASE IsCreated(i) /\ OnlyJob(i)
  BY <1>2, <1>4 DEF IsCreated, OnlyJob, KeyTaken, SlotTaken, Jobs
<1>5. CASE IsCreated(j) /\ OnlyJob(j)
  BY <1>2, <1>5 DEF IsCreated, OnlyJob, KeyTaken, SlotTaken, Jobs
<1>6. ASSUME \A k \in Job : jobs'[k] # None => SameItem(k)
      PROVE  Apart(jobs'[i], jobs'[j])
  BY <1>2, <1>3, <1>6
<1>7. CASE RowsTidied
  BY <1>6, <1>7 DEF RowsTidied, Rests, SameRun, IsStopped, IsPruned
<1>8. CASE JobEnters
  <2>1. PICK k \in Job : OnlyJob(k) /\ (IsCreated(k) \/ IsReopened(k))
    BY <1>8 DEF JobEnters
  <2>2. CASE IsReopened(k)
    BY <1>6, <2>1, <2>2 DEF IsReopened, OnlyJob, SameItem
  <2>3. CASE IsCreated(k) /\ k \notin {i, j}
    BY <1>2, <1>3, <2>1, <2>3 DEF OnlyJob, SameItem
  <2> QED
    BY <1>4, <1>5, <2>1, <2>2, <2>3
<1>9. CASE WorkerClaims
  BY <1>6, <1>9 DEF WorkerClaims, OnlyJob, IsClaimed, SameRun, SameItem
<1>10. CASE WorkerFinishes
  BY <1>6, <1>10 DEF WorkerFinishes, OnlyJob, IsFinished, SameItem
<1>11. CASE WorkerRuns \/ WorkerLoses
  BY <1>6, <1>11 DEF WorkerRuns, WorkerLoses, SameItem
<1>12. CASE ProcessRestarts
  BY <1>6, <1>12 DEF ProcessRestarts, Rests, IsRequeued, SameRun
<1> QED
  BY <1>7, <1>8, <1>9, <1>10, <1>11, <1>12, StepRows

LEMMA AttemptsStep ==
  ASSUME QueueInvariant, [Next]_vars
  PROVE  AttemptsBounded'
<1> DEFINE Bounded(q) == q # None => /\ q.attempts <= MaxAttempts
                                     /\ q.status \in Open => q.attempts < MaxAttempts
<1>1. /\ \A j \in Job : Bounded(jobs[j])
      /\ worker.pc # "idle" => jobs[worker.job].attempts = worker.tries
  BY DEF QueueInvariant, AttemptsBounded, Jobs
<1>2. SUFFICES /\ \A j \in Job : Bounded(jobs'[j])
               /\ worker'.pc # "idle" => jobs'[worker'.job].attempts = worker'.tries
  BY <1>2 DEF AttemptsBounded, Jobs
<1>3. /\ MaxAttempts \in Nat \ {0}
      /\ \A j \in Job : jobs[j] # None => jobs[j].attempts \in Nat
      /\ worker.pc # "idle" => /\ worker.job \in Job
                               /\ jobs[worker.job] # None
                               /\ jobs[worker.job].status = "active"
  BY QueueAssumption, WorkerHasJob DEF QueueInvariant, TypeOK, JobRow
<1> USE <1>1, <1>3 DEF Open, Terminal
<1>4. CASE RowsTidied
  BY <1>4 DEF RowsTidied, Rests, SameRun, SameItem, IsStopped, IsPruned
<1>5. CASE JobEnters
  BY <1>5 DEF JobEnters, OnlyJob, IsCreated, IsReopened, SameItem
<1>6. CASE WorkerClaims
  BY <1>6 DEF WorkerClaims, OnlyJob, IsClaimed, SameRun, SameItem
<1>7. CASE WorkerFinishes
  BY <1>7 DEF WorkerFinishes, OnlyJob, IsFinished, SameItem
<1>8. CASE WorkerRuns \/ WorkerLoses
  BY <1>8 DEF WorkerRuns, WorkerLoses
<1>9. CASE ProcessRestarts
  BY <1>9 DEF ProcessRestarts, Rests, IsRequeued, SameRun, SameItem
<1> QED
  BY <1>4, <1>5, <1>6, <1>7, <1>8, <1>9, StepRows

LEMMA InvariantStep == QueueInvariant /\ [Next]_vars => QueueInvariant'
<1> SUFFICES ASSUME QueueInvariant, [Next]_vars PROVE QueueInvariant'
  OBVIOUS
<1>1. TypeOK'
  <2>1. CASE UNCHANGED vars
    BY <2>1 DEF vars, QueueInvariant, TypeOK
  <2>2. CASE Next
    BY <2>2, CallerType, WorkingType, RestType DEF Next
  <2> QED
    BY <2>1, <2>2
<1> QED
  BY <1>1, RequestStep, HeldStep, PayloadStep, ItemStep, AttemptsStep
     DEF QueueInvariant
-----------------------------------------------------------------------------
(* Theorems *)

(* The strengthened invariant holds of every behaviour, with any number of *)
(* callers, jobs, restarts, retries and failed last UPDATEs.               *)
THEOREM QueueInvariantHolds == Spec => []QueueInvariant
<1>1. Init => QueueInvariant
  BY InitInvariant
<1>2. QueueInvariant /\ [Next]_vars => QueueInvariant'
  BY InvariantStep
<1> QED
  BY <1>1, <1>2, PTL DEF Spec

(* Every variable keeps its type: no row, request or clock leaves its      *)
(* range, the compressed ages included.                                    *)
THEOREM TypeCorrect == Spec => []TypeOK
<1>1. QueueInvariant => TypeOK
  BY DEF QueueInvariant
<1> QED
  BY <1>1, QueueInvariantHolds, PTL

(* The active jobs are the worker's and the stuck ones (finish_job, which  *)
(* looks at no status, therefore ends only a job the worker is running).   *)
THEOREM WorkerHoldsActiveHolds == Spec => []WorkerHoldsActive
<1>1. QueueInvariant => WorkerHoldsActive
  BY DEF QueueInvariant
<1> QED
  BY <1>1, QueueInvariantHolds, PTL

(* A queued photo is gone exactly when its job has an outcome.             *)
THEOREM PayloadErasedHolds == Spec => []PayloadErased
<1>1. QueueInvariant => PayloadErased
  BY DEF QueueInvariant
<1> QED
  BY <1>1, QueueInvariantHolds, PTL

(* A key and a batch item name one job, although key and slot are checked  *)
(* in a step before the one that inserts.                                  *)
THEOREM OneJobPerItemHolds == Spec => []OneJobPerItem
<1>1. QueueInvariant => OneJobPerItem
  BY DEF QueueInvariant
<1> QED
  BY <1>1, QueueInvariantHolds, PTL

(* No job fails more than MAX_JOB_ATTEMPTS times.                          *)
THEOREM AttemptsBoundedHolds == Spec => []AttemptsBounded
<1>1. QueueInvariant => AttemptsBounded
  BY DEF QueueInvariant
<1> QED
  BY <1>1, QueueInvariantHolds, PTL

-----------------------------------------------------------------------------
(* The queue implements the documented lifecycle *)

Stages == [j \in Job |-> StageOf(jobs[j])]

LEMMA StageOfStatus ==
  ASSUME NEW q
  PROVE  /\ q = None => StageOf(q) = "absent"
         /\ q # None => /\ q.status = "queued"  => StageOf(q) = "waiting"
                        /\ q.status = "active"  => StageOf(q) = "running"
                        /\ q.status = "success" => StageOf(q) = "done"
                        /\ q.status \in {"failed", "cancelled", "expired"}
                              => StageOf(q) = "stopped"
                        /\ q.status \in Status => StageOf(q) \in Lifecycle!Stage
BY DEF StageOf, Lifecycle!Stage, Status, Open, Terminal

LEMMA LifecycleMove ==
  ASSUME NEW j \in Job, OnlyJob(j), NEW from, NEW to,
         StageOf(jobs[j]) = from, StageOf(jobs'[j]) = to
  PROVE  Lifecycle!Move(j, from, to)
BY DEF OnlyJob, Lifecycle!Move

LEMMA LifecycleStep ==
  ASSUME QueueInvariant, QueueInvariant', [Next]_vars
  PROVE  [Lifecycle!Next]_Stages
<1> USE DEF Stages
<1>1. \A j \in Job : /\ jobs[j] # None => jobs[j].status \in Status
                     /\ jobs'[j] # None => jobs'[j].status \in Status
  BY DEF QueueInvariant, TypeOK, JobRow
<1>2. CASE RowsTidied
  <2>1. Stages' \in [Job -> Lifecycle!Stage]
    BY <1>1, StageOfStatus DEF Lifecycle!Stage
  <2>2. \A j \in Job :
           \/ StageOf(jobs'[j]) = StageOf(jobs[j])
           \/ StageOf(jobs[j]) = "waiting" /\ StageOf(jobs'[j]) = "stopped"
           \/ StageOf(jobs[j]) \in {"done", "stopped"} /\ StageOf(jobs'[j]) = "absent"
    BY <1>1, <1>2, StageOfStatus DEF RowsTidied, Rests, SameRun, SameItem, IsStopped,
       IsPruned, Status, Open, Terminal
  <2> QED
    BY <2>1, <2>2 DEF Lifecycle!Next, Lifecycle!Tidy
<1>3. CASE JobEnters
  <2>1. PICK j \in Job : OnlyJob(j) /\ (IsCreated(j) \/ IsReopened(j))
    BY <1>3 DEF JobEnters
  <2>2. CASE IsCreated(j)
    BY <2>1, <2>2, LifecycleMove, StageOfStatus DEF IsCreated, Lifecycle!Next, Lifecycle!Submit
  <2>3. CASE IsReopened(j)
    BY <2>1, <2>3, LifecycleMove, StageOfStatus
       DEF IsReopened, SameItem, Lifecycle!Next, Lifecycle!Reopen
  <2> QED
    BY <2>1, <2>2, <2>3
<1>4. CASE WorkerClaims
  BY <1>4, LifecycleMove, StageOfStatus
     DEF WorkerClaims, IsClaimed, SameRun, SameItem, Lifecycle!Next, Lifecycle!Start
<1>5. CASE WorkerFinishes
  <2>1. worker.job \in Job
    BY <1>5, WorkerHasJob DEF WorkerFinishes
  <2> QED
    BY <1>5, <2>1, LifecycleMove, StageOfStatus
       DEF WorkerFinishes, IsFinished, SameItem, Lifecycle!Next, Lifecycle!Succeed,
           Lifecycle!Fail, Lifecycle!GiveBack
<1>6. CASE WorkerRuns \/ WorkerLoses
  BY <1>6 DEF WorkerRuns, WorkerLoses
<1>7. CASE ProcessRestarts
  <2>1. \A j \in Job : StageOf(jobs'[j]) =
           IF StageOf(jobs[j]) = "running" THEN "waiting" ELSE StageOf(jobs[j])
    BY <1>1, <1>7, StageOfStatus DEF ProcessRestarts, Rests, SameRun, SameItem,
       IsRequeued, Status, Open, Terminal
  <2> QED
    BY <2>1 DEF Lifecycle!Next, Lifecycle!Recover
<1> QED
  BY <1>2, <1>3, <1>4, <1>5, <1>6, <1>7, StepRows

(* The detailed queue implements the abstract lifecycle: however handlers, *)
(* worker, maintenance and restarts interleave, a job moves only as        *)
(* jobs.rs 10-13 says, and no outcome comes from anything but its own run, *)
(* a cancellation or expiry.                                               *)
THEOREM LifecycleImplemented == Spec => ImplementsLifecycle
<1>1. Init => Lifecycle!Init
  BY StageOfStatus DEF Init, Lifecycle!Init
<1>2. QueueInvariant /\ QueueInvariant' /\ [Next]_vars => [Lifecycle!Next]_Stages
  BY LifecycleStep
<1> QED
  BY <1>1, <1>2, QueueInvariantHolds, PTL
     DEF Spec, ImplementsLifecycle, Lifecycle!Spec, Stages


-----------------------------------------------------------------------------
(* A keyed result is in the history once *)

(* What a step does to the history: rows are kept or deleted, or one that  *)
(* is nobody's result yet is added, after a look for its key.              *)
HistoryShrinks == \A r \in Row : history'[r] \in {history[r], None}

RowAdded(r) ==
    /\ FreshRow(r)
    /\ history'[r] # None
    /\ RowsFor(history'[r].user, history'[r].key) = {}
    /\ \A q \in Row \ {r} : history'[q] = history[q]

LEMMA AddedRow ==
  ASSUME TypeOK, NEW r \in Row, FreshRow(r), NEW u \in User, NEW k \in Key \cup {None},
         NEW o \in Job \cup {None}, RowsFor(u, k) = {},
         history' = [history EXCEPT ![r] = [user |-> u, key |-> k, origin |-> o]]
  PROVE  RowAdded(r)
<1>1. history'[r] = [user |-> u, key |-> k, origin |-> o]
  BY DEF TypeOK
<1>2. history'[r] # None
  BY <1>1, NoneAssumption DEF HistoryRow
<1> QED
  BY <1>1, <1>2 DEF RowAdded, TypeOK

LEMMA HistoryStep ==
  ASSUME QueueInvariant, [Next]_vars
  PROVE  HistoryShrinks \/ \E r \in Row : RowAdded(r)
<1>1. CASE UNCHANGED history
  BY <1>1 DEF HistoryShrinks
<1>2. ASSUME NEW h \in Handler, EstimateSave(h)
      PROVE  HistoryShrinks \/ \E r \in Row : RowAdded(r)
  <2>1. handler[h].user \in User /\ handler[h].key \in Key \cup {None}
    BY <1>2 DEF EstimateSave, QueueInvariant, TypeOK, Request
  <2> QED
    BY <1>1, <1>2, <2>1, AddedRow DEF EstimateSave, QueueInvariant
<1>3. CASE SaveRow
  <2>1. jobs[worker.job].user \in User /\ jobs[worker.job].key \in Key \cup {None}
        /\ worker.job \in Job
    BY <1>3, WorkerHasJob DEF SaveRow, JobRow
  <2> QED
    BY <1>1, <1>3, <2>1, AddedRow DEF SaveRow, Stored, QueueInvariant
<1>4. ASSUME NEW r \in Row, DeleteRow(r) PROVE HistoryShrinks
  BY <1>4 DEF DeleteRow, HistoryShrinks, QueueInvariant, TypeOK
<1>5. ASSUME NEW u \in User, DeleteAccount(u) PROVE HistoryShrinks
  BY <1>5 DEF DeleteAccount, HistoryShrinks
<1>6. CASE Caller
  BY <1>1, <1>2, <1>4, <1>5, <1>6 DEF Caller, Submitting, SubmitCheck, SubmitCount,
     CreateJob, InsertJob, CreateBatchJob, Retrying, RetryCheck, RetryCount,
     RetryUpdate, Estimating, EstimateStart, EstimateFail, CreateBatch, CancelJob,
     CancelBatch
<1>7. CASE Working
  BY <1>1, <1>3, <1>7 DEF Working, Claim, OwnerCheck, EstimateReject, EstimateReplay,
     EstimateTransient, EstimateInfer, SaveUnsaved, SavePanic, FinishSuccess,
     FinishRetry, FinishFailed, FinishJob, FinishLost, Maintain
<1>8. CASE SetPaused \/ Restart \/ Tick \/ UNCHANGED vars
  BY <1>1, <1>8 DEF SetPaused, Restart, Tick, vars
<1> QED
  BY <1>6, <1>7, <1>8 DEF Next

LEMMA KeyedStep ==
  ASSUME QueueInvariant, KeyedResultSavedOnce, [Next]_vars
  PROVE  KeyedResultSavedOnce'
<1>1. CASE HistoryShrinks
  BY <1>1 DEF HistoryShrinks, KeyedResultSavedOnce, Rows
<1>2. ASSUME NEW r \in Row, RowAdded(r) PROVE KeyedResultSavedOnce'
  BY <1>2 DEF RowAdded, RowsFor, FreshRow, KeyedResultSavedOnce, Rows
<1> QED
  BY <1>1, <1>2, HistoryStep

(* With a key, a result is in the history at most once: the lookups before *)
(* the inserts (estimate.rs, save_authenticated) are enough, for any number *)
(* of foreground requests, reruns and restarts.                            *)
THEOREM KeyedResultSavedOnceHolds == Spec => []KeyedResultSavedOnce
<1>1. Init => KeyedResultSavedOnce
  BY DEF Init, KeyedResultSavedOnce, Rows
<1>2. QueueInvariant /\ KeyedResultSavedOnce /\ [Next]_vars => KeyedResultSavedOnce'
  BY KeyedStep
<1> QED
  BY <1>1, <1>2, QueueInvariantHolds, PTL DEF Spec

(* Whatever handlers, worker and restarts do, the history under a key is   *)
(* what KeyedHistory says: a key keeps the row it was first given until    *)
(* the owner deletes it.                                                   *)
NamedRows == [n \in User \X Key |-> RowsFor(n[1], n[2])]

LEMMA NamedRowsStep ==
  ASSUME QueueInvariant, QueueInvariant', [Next]_vars
  PROVE  [Keyed!Next]_NamedRows
<1>1. NamedRows' \in [User \X Key -> SUBSET Row]
  BY DEF NamedRows, RowsFor, Rows
<1>2. CASE HistoryShrinks
  <2>1. \A u, k : RowsFor(u, k)' \subseteq RowsFor(u, k)
    BY <1>2 DEF HistoryShrinks, RowsFor, Rows
  <2> QED
    BY <1>1, <2>1 DEF NamedRows, Keyed!Next, Keyed!Forget
<1>3. ASSUME NEW r \in Row, RowAdded(r) PROVE [Keyed!Next]_NamedRows
  <2> DEFINE u == history'[r].user
             k == history'[r].key
  <2>1. u \in User /\ k \in Key \cup {None}
    BY <1>3 DEF RowAdded, QueueInvariant, TypeOK, HistoryRow
  <2>2. \A v, l : RowsFor(v, l)' = IF v = u /\ l = k /\ k # None
                                   THEN RowsFor(v, l) \cup {r}
                                   ELSE RowsFor(v, l)
    BY <1>3 DEF RowAdded, FreshRow, RowsFor, Rows
  <2>3. CASE k = None
    BY <2>2, <2>3 DEF NamedRows
  <2>4. CASE k # None
    <3>1. <<u, k>> \in User \X Key
      BY <2>1, <2>4
    <3>2. RowsFor(u, k) = {}
      BY <1>3 DEF RowAdded
    <3>3. NamedRows' = [NamedRows EXCEPT ![<<u, k>>] = {r}]
      <4>1. \A n \in User \X Key :
               RowsFor(n[1], n[2])' = IF n = <<u, k>> THEN {r} ELSE RowsFor(n[1], n[2])
        BY <2>2, <2>4, <3>2
      <4> QED
        BY <4>1 DEF NamedRows
    <3>4. NamedRows[<<u, k>>] = {}
      BY <3>1, <3>2 DEF NamedRows
    <3> QED
      BY <3>1, <3>3, <3>4 DEF NamedRows, Keyed!Next, Keyed!Save
  <2> QED
    BY <2>3, <2>4
<1> QED
  BY <1>2, <1>3, HistoryStep

(* Runs, reruns, foreground requests and restarts implement the promise of *)
(* an idempotency key: while a user's key has a row it has this row, and   *)
(* no other (db.rs, idx_estimates_idem; jobs.rs 13-16).                    *)
THEOREM KeyedHistoryImplemented == Spec => ImplementsKeyedHistory
<1>1. Init => Keyed!Init
  BY DEF Init, Keyed!Init, RowsFor, Rows
<1>2. QueueInvariant /\ QueueInvariant' /\ [Next]_vars => [Keyed!Next]_NamedRows
  BY NamedRowsStep
<1> QED
  BY <1>1, <1>2, QueueInvariantHolds, PTL
     DEF Spec, ImplementsKeyedHistory, Keyed!Spec, NamedRows

-----------------------------------------------------------------------------
(* The row a job reports is its own *)

Matches(r, j) ==
    history[r] # None => /\ history[r].user = jobs[j].user
                         /\ history[r].key = jobs[j].key

(* What ResultBelongsToJob rests on: the row a run has in hand is its       *)
(* job's too, and no job reports it yet.                                   *)
WorkerRowOK ==
    worker.row # None =>
        /\ worker.pc = "success"
        /\ Matches(worker.row, worker.job)
        /\ \A i \in Jobs : jobs[i].row # worker.row

ResultInvariant == ResultBelongsToJob /\ WorkerRowOK

(* A job that reports a row keeps it, with its user, key and status, until *)
(* it is pruned; no other job gets one.                                    *)
RowsKept ==
    \A j \in Job : jobs'[j] # None /\ jobs'[j].row # None =>
        /\ jobs[j] # None
        /\ jobs'[j].row = jobs[j].row
        /\ jobs'[j].user = jobs[j].user
        /\ jobs'[j].key = jobs[j].key
        /\ jobs'[j].status = jobs[j].status

NoResultYet(q) == q # None /\ q.status # "success" => q.row = None

LEMMA ResultNeedsSuccess ==
  ASSUME ResultBelongsToJob
  PROVE  \A j \in Job : NoResultYet(jobs[j])
BY DEF ResultBelongsToJob, NoResultYet, Jobs

LEMMA UpdateKeepsRows ==
  ASSUME TypeOK, ResultBelongsToJob, NEW j \in Job, NEW q \in JobRow,
         q.row = None, jobs' = [jobs EXCEPT ![j] = q]
  PROVE  RowsKept
BY DEF RowsKept, TypeOK

LEMMA CallerKeepsRows ==
  ASSUME QueueInvariant, ResultBelongsToJob, Caller
  PROVE  RowsKept
<1> USE DEF QueueInvariant, TypeOK
<1>1. CASE UNCHANGED jobs
  BY <1>1 DEF RowsKept
<1>2. ASSUME NEW h \in Handler, handler[h] # None, NEW j \in Job,
             jobs' = [jobs EXCEPT ![j] = NewJob(handler[h])]
      PROVE  RowsKept
  BY <1>2 DEF RowsKept, NewJob
<1>3. ASSUME NEW h \in Handler, InsertJob(h) \/ CreateBatchJob(h) PROVE RowsKept
  BY <1>1, <1>2, <1>3 DEF InsertJob, CreateBatchJob
<1>4. ASSUME NEW h \in Handler, RetryUpdate(h) PROVE RowsKept
  <2> DEFINE i == handler[h].job
             q == [jobs[i] EXCEPT !.status = "queued", !.attempts = 0, !.wait = 0,
                                  !.idle = 0, !.payload = handler[h].payload]
  <2>1. CASE Retryable(i)
    <3>1. /\ i \in Job
          /\ handler[h].payload \in Payload \cup {None}
      BY <1>4 DEF RetryUpdate, RequestOK, Request
    <3>2. jobs[i] \in JobRow /\ jobs[i].row = None
      BY <2>1, <3>1, ResultNeedsSuccess DEF Retryable, NoResultYet
    <3>3. q \in JobRow
      BY <3>1, <3>2, RetriedRow
    <3>5. q.row = None
      BY <3>2 DEF JobRow
    <3>4. jobs' = [jobs EXCEPT ![i] = q]
      BY <1>4, <2>1 DEF RetryUpdate
    <3> QED
      BY <3>1, <3>3, <3>4, <3>5, UpdateKeepsRows
  <2>2. CASE ~Retryable(i)
    BY <1>1, <1>4, <2>2 DEF RetryUpdate
  <2> QED
    BY <2>1, <2>2
<1>5. ASSUME NEW J \in SUBSET Job, \A j \in J : Queued(j), CancelRows(J) PROVE RowsKept
  <2>1. ASSUME NEW j \in J PROVE jobs'[j].row = None
    <3>1. jobs[j] \in JobRow /\ jobs[j].row = None
      BY <1>5, <2>1, ResultNeedsSuccess DEF Queued, NoResultYet
    <3> QED
      BY <1>5, <2>1, <3>1 DEF CancelRows, JobRow
  <2>2. ASSUME NEW j \in Job \ J PROVE jobs'[j] = jobs[j]
    BY <1>5, <2>2 DEF CancelRows
  <2> QED
    BY <2>1, <2>2 DEF RowsKept
<1>6. ASSUME NEW j \in Job, CancelJob(j) PROVE RowsKept
  BY <1>5, <1>6 DEF CancelJob
<1>7. ASSUME NEW b \in Batch, CancelBatch(b) PROVE RowsKept
  BY <1>5, <1>7 DEF CancelBatch
<1> QED
  BY <1>1, <1>3, <1>4, <1>6, <1>7 DEF Caller, Submitting, SubmitCheck, SubmitCount,
     CreateJob, Retrying, RetryCheck, RetryCount, Estimating, EstimateStart,
     EstimateSave, EstimateFail, CreateBatch, DeleteRow, DeleteAccount

LEMMA RestKeepsRows ==
  ASSUME QueueInvariant, ResultBelongsToJob,
         SetPaused \/ Restart \/ Tick \/ Maintain \/ \E j \in Job : Claim(j)
  PROVE  RowsKept
<1> USE DEF QueueInvariant, TypeOK
<1>1. CASE SetPaused
  BY <1>1 DEF SetPaused, RowsKept
<1>2. CASE Restart
  <2>1. ASSUME NEW j \in Job, jobs[j] # None, jobs[j].status = "active"
        PROVE  jobs'[j].row = None
    <3>1. jobs[j] \in JobRow /\ jobs[j].row = None
      BY <2>1, ResultNeedsSuccess DEF NoResultYet
    <3> QED
      BY <1>2, <2>1, <3>1 DEF Restart, JobRow
  <2> QED
    BY <1>2, <2>1 DEF Restart, RowsKept
<1>3. CASE Tick
  <2>1. ASSUME NEW j \in Job, jobs[j] # None
        PROVE  /\ jobs'[j].row = jobs[j].row /\ jobs'[j].user = jobs[j].user
               /\ jobs'[j].key = jobs[j].key /\ jobs'[j].status = jobs[j].status
    <3>1. jobs[j] \in JobRow
      BY <2>1
    <3>2. PICK w, a, i : jobs'[j] = [jobs[j] EXCEPT !.wait = w, !.age = a, !.idle = i]
      BY <1>3, <2>1 DEF Tick
    <3> QED
      BY <3>1, <3>2 DEF JobRow
  <2>2. ASSUME NEW j \in Job, jobs[j] = None PROVE jobs'[j] = None
    BY <1>3, <2>2 DEF Tick
  <2> QED
    BY <2>1, <2>2 DEF RowsKept
<1>4. CASE Maintain
  <2>1. ASSUME NEW j \in Job, ~Prunable(j), Stale(j) PROVE jobs'[j].row = None
    <3>1. jobs[j] \in JobRow /\ jobs[j].row = None
      BY <2>1, ResultNeedsSuccess DEF Stale, Queued, NoResultYet
    <3> QED
      BY <1>4, <2>1, <3>1 DEF Maintain, Tidied, JobRow
  <2> QED
    BY <1>4, <2>1 DEF Maintain, Tidied, RowsKept
<1>5. ASSUME NEW j \in Job, Claim(j) PROVE RowsKept
  <2> DEFINE q == [jobs[j] EXCEPT !.status = "active", !.idle = 0]
  <2>1. jobs[j] \in JobRow /\ jobs[j].row = None
    BY <1>5, ResultNeedsSuccess DEF Claim, Due, Queued, NoResultYet
  <2>2. q \in JobRow /\ q.row = None
    BY <2>1, ClaimedRow DEF JobRow
  <2>3. jobs' = [jobs EXCEPT ![j] = q]
    BY <1>5 DEF Claim
  <2> QED
    BY <2>2, <2>3, UpdateKeepsRows
<1> QED
  BY <1>1, <1>2, <1>3, <1>4, <1>5

(* A table that keeps its rows keeps them each job's own, if the history   *)
(* only loses rows or gains a fresh one.                                   *)
LEMMA KeptResultStep ==
  ASSUME QueueInvariant, ResultBelongsToJob, RowsKept, [Next]_vars
  PROVE  ResultBelongsToJob'
<1>1. \A j \in Job : jobs'[j] # None /\ jobs'[j].row # None =>
         /\ jobs[j] # None /\ jobs[j].row \in Row
         /\ jobs'[j].row = jobs[j].row /\ jobs'[j].user = jobs[j].user
         /\ jobs'[j].key = jobs[j].key /\ jobs'[j].status = jobs[j].status
  BY DEF RowsKept, QueueInvariant, TypeOK, JobRow
<1>2. CASE HistoryShrinks
  BY <1>1, <1>2 DEF HistoryShrinks, ResultBelongsToJob, Jobs
<1>3. ASSUME NEW r \in Row, RowAdded(r) PROVE ResultBelongsToJob'
  <2>1. \A j \in Jobs : jobs[j].row # r
    BY <1>3 DEF RowAdded, FreshRow, Jobs
  <2> QED
    BY <1>1, <1>3, <2>1 DEF RowAdded, ResultBelongsToJob, Jobs
<1> QED
  BY <1>2, <1>3, HistoryStep

(* The last UPDATE of a run writes the row the run has in hand, if any.    *)
LEMMA FinishRow ==
  ASSUME QueueInvariant, ResultBelongsToJob, worker.pc # "idle",
         NEW status \in Status, NEW wait \in Nat, FinishJob(status, wait)
  PROVE  jobs'[worker.job].row = worker.row
<1> DEFINE old == jobs[worker.job]
           p   == IF status \in Terminal THEN None ELSE old.payload
           r   == IF worker.row # None THEN worker.row ELSE old.row
           q   == [old EXCEPT !.status = status, !.attempts = old.attempts + 1,
                              !.wait = wait, !.idle = 0, !.payload = p, !.row = r]
<1>1. old \in JobRow /\ old # None /\ worker.job \in Job /\ old.row = None
  BY WorkerHasJob, ResultNeedsSuccess DEF NoResultYet
<1>2. jobs'[worker.job] = q
  BY <1>1 DEF FinishJob, QueueInvariant, TypeOK
<1>3. q.row = r
  BY <1>1 DEF JobRow
<1> QED
  BY <1>1, <1>2, <1>3

LEMMA FinishKeepsResults ==
  ASSUME QueueInvariant, ResultInvariant, worker.pc # "idle",
         NEW status \in Status, NEW wait \in Nat, FinishJob(status, wait),
         worker.pc = "success" => status = "success"
  PROVE  ResultInvariant'
<1>1. /\ worker.job \in Job /\ jobs[worker.job] # None
      /\ SameItem(worker.job)
      /\ jobs'[worker.job].status = status
      /\ OnlyJob(worker.job)
  BY WorkerHasJob, FinishIsFinished DEF IsFinished
<1>2. jobs'[worker.job].row = worker.row
  BY FinishRow DEF ResultInvariant
<1>3. UNCHANGED history /\ worker'.row = None
  BY DEF FinishJob, IdleWorker
<1> QED
  BY <1>1, <1>2, <1>3 DEF ResultInvariant, ResultBelongsToJob, WorkerRowOK, Matches,
     SameItem, OnlyJob, Jobs

(* No job reports a row the worker's run would replay: it would have the   *)
(* key of the worker's job, and only that job does.                        *)
LEMMA StoredRowIsFree ==
  ASSUME QueueInvariant, ResultBelongsToJob, worker.pc # "idle", NEW r \in Stored
  PROVE  Matches(r, worker.job) /\ \A i \in Jobs : jobs[i].row # r
<1>1. /\ worker.job \in Job /\ jobs[worker.job] # None
      /\ jobs[worker.job].row = None
  BY WorkerHasJob, ResultNeedsSuccess DEF NoResultYet
<1>2. /\ r \in Row /\ history[r] # None
      /\ jobs[worker.job].key # None
      /\ history[r].user = jobs[worker.job].user
      /\ history[r].key = jobs[worker.job].key
  BY DEF Stored, RowsFor, Rows
<1>3. r # None
  BY <1>2, NoneAssumption
<1>4. ASSUME NEW i \in Jobs, jobs[i].row = r PROVE FALSE
  <2>1. jobs[i].user = jobs[worker.job].user /\ jobs[i].key = jobs[worker.job].key
    BY <1>2, <1>3, <1>4 DEF ResultBelongsToJob
  <2>2. i = worker.job
    BY <1>1, <1>2, <2>1 DEF QueueInvariant, OneJobPerItem, Jobs
  <2> QED
    BY <1>1, <1>3, <1>4, <2>2
<1> QED
  BY <1>2, <1>4 DEF Matches

LEMMA WorkingResultStep ==
  ASSUME QueueInvariant, ResultInvariant, Working
  PROVE  ResultInvariant'
<1> USE DEF ResultInvariant
<1>1. ASSUME RowsKept, worker'.row = None PROVE ResultInvariant'
  BY <1>1, KeptResultStep DEF WorkerRowOK, Next
<1>2. CASE Maintain \/ \E j \in Job : Claim(j)
  <2>1. RowsKept
    BY <1>2, RestKeepsRows
  <2>2. ASSUME NEW j \in Job, Claim(j) PROVE worker'.row = None
    BY <2>2 DEF Claim
  <2>3. ASSUME Maintain PROVE worker'.row = None
    BY <2>3 DEF Maintain, WorkerRowOK
  <2> QED
    BY <1>1, <1>2, <2>1, <2>2, <2>3
<1>3. CASE FinishLost
  BY <1>1, <1>3 DEF FinishLost, IdleWorker, RowsKept
<1>4. CASE FinishSuccess
  BY <1>4, FinishKeepsResults DEF FinishSuccess, Status, Terminal
<1>5. CASE FinishRetry
  <2>1. Backoff[worker.tries] \in Nat
    BY <1>5, QueueAssumption DEF FinishRetry, Worker, QueueInvariant, TypeOK
  <2> QED
    BY <1>5, <2>1, FinishKeepsResults DEF FinishRetry, Status, Open
<1>6. CASE FinishFailed
  BY <1>6, FinishKeepsResults DEF FinishFailed, Status, Terminal
<1>7. CASE OwnerCheck \/ EstimateReject \/ EstimateTransient \/ EstimateInfer
           \/ SaveUnsaved \/ SavePanic
  <2>1. worker.row = None
    BY <1>7 DEF WorkerRowOK, OwnerCheck, EstimateReject, EstimateTransient,
       EstimateInfer, SaveUnsaved, SavePanic
  <2>2. worker'.row = worker.row
    BY <1>7 DEF QueueInvariant, TypeOK, Worker, WorkerGoto, OwnerCheck, EstimateReject,
       EstimateTransient, EstimateInfer, SaveUnsaved, SavePanic
  <2>3. UNCHANGED jobs
    BY <1>7 DEF OwnerCheck, EstimateReject, EstimateTransient, EstimateInfer,
       SaveUnsaved, SavePanic
  <2> QED
    BY <1>1, <2>1, <2>2, <2>3, NoneAssumption DEF RowsKept
<1>8. ASSUME NEW r \in Stored, worker.pc # "idle", UNCHANGED <<jobs, history>>,
             worker' = [worker EXCEPT !.pc = "success", !.row = r]
      PROVE  ResultInvariant'
  <2>1. worker'.pc = "success" /\ worker'.row = r /\ worker'.job = worker.job
    BY <1>8 DEF QueueInvariant, TypeOK, Worker
  <2> QED
    BY <1>8, <2>1, StoredRowIsFree DEF WorkerRowOK, Matches, ResultBelongsToJob, Jobs
<1>9. CASE EstimateReplay
  BY <1>8, <1>9 DEF EstimateReplay
<1>10. CASE SaveRow
  <2>1. ASSUME NEW r \in Stored, UNCHANGED history,
               worker' = [worker EXCEPT !.pc = "success", !.row = r]
        PROVE  ResultInvariant'
    BY <1>8, <1>10, <2>1 DEF SaveRow
  <2>2. ASSUME NEW r \in Row, FreshRow(r),
               history' = [history EXCEPT ![r] =
                   [user |-> jobs[worker.job].user, key |-> jobs[worker.job].key,
                    origin |-> worker.job]],
               worker' = [worker EXCEPT !.pc = "success", !.row = r]
        PROVE  ResultInvariant'
    <3>1. worker'.pc = "success" /\ worker'.row = r /\ worker'.job = worker.job
      BY <2>2 DEF QueueInvariant, TypeOK, Worker
    <3>2. /\ history'[r].user = jobs[worker.job].user
          /\ history'[r].key = jobs[worker.job].key
      BY <2>2 DEF QueueInvariant, TypeOK
    <3>3. UNCHANGED jobs /\ \A i \in Jobs : jobs[i].row # r
      BY <1>10, <2>2 DEF SaveRow, FreshRow, Jobs
    <3>4. ResultBelongsToJob'
      BY <3>3, <1>10, KeptResultStep DEF RowsKept, Next
    <3> QED
      BY <3>1, <3>2, <3>3, <3>4 DEF WorkerRowOK, Matches, Jobs
  <2> QED
    BY <1>10, <2>1, <2>2 DEF SaveRow
<1> QED
  BY <1>2, <1>3, <1>4, <1>5, <1>6, <1>7, <1>9, <1>10 DEF Working

LEMMA ResultStep ==
  ASSUME QueueInvariant, ResultInvariant, [Next]_vars
  PROVE  ResultInvariant'
<1>1. CASE Working
  BY <1>1, WorkingResultStep
<1>2. CASE Restart
  <2>1. RowsKept
    BY <1>2, RestKeepsRows DEF ResultInvariant
  <2>2. worker'.row = None
    BY <1>2 DEF Restart, IdleWorker
  <2> QED
    BY <2>1, <2>2, KeptResultStep DEF ResultInvariant, WorkerRowOK
<1>3. CASE Caller \/ SetPaused \/ Tick \/ UNCHANGED vars
  <2>1. RowsKept
    BY <1>3, CallerKeepsRows, RestKeepsRows DEF ResultInvariant, RowsKept, vars
  <2>2. UNCHANGED worker
    BY <1>3, CallerRows DEF SetPaused, Tick, vars, RowsTidied, JobEnters
  <2>3. ASSUME worker.row # None
        PROVE  /\ jobs'[worker.job].user = jobs[worker.job].user
               /\ jobs'[worker.job].key = jobs[worker.job].key
    <3>1. /\ worker.job \in Job /\ jobs[worker.job] # None
          /\ jobs[worker.job].status = "active"
      BY <2>3, WorkerHasJob DEF ResultInvariant, WorkerRowOK
    <3>2. SameItem(worker.job)
      <4>1. CASE RowsTidied
        BY <3>1, <4>1 DEF RowsTidied, Rests, SameRun, IsStopped, IsPruned, Terminal
      <4>2. CASE JobEnters
        BY <3>1, <4>2 DEF JobEnters, OnlyJob, IsCreated, IsReopened, SameItem
      <4>3. CASE SetPaused \/ Tick \/ UNCHANGED vars
        BY <4>1, <4>3, RestRows, UnchangedRests, <2>2, <2>3, <3>1, NoneAssumption
           DEF vars, RowsTidied, ProcessRestarts, ResultInvariant, WorkerRowOK
      <4> QED
        BY <1>3, <4>1, <4>2, <4>3, CallerRows
    <3> QED
      BY <3>2 DEF SameItem
  <2>4. ASSUME worker.row # None, history'[worker.row] # None
        PROVE  history'[worker.row] = history[worker.row]
    <3>1. worker.row \in Row
      BY <2>4 DEF QueueInvariant, TypeOK, Worker
    <3> QED
      BY <2>4, <3>1, HistoryStep DEF HistoryShrinks, RowAdded, FreshRow
  <2>5. WorkerRowOK'
    BY <2>1, <2>2, <2>3, <2>4 DEF ResultInvariant, WorkerRowOK, Matches, RowsKept, Jobs
  <2> QED
    BY <2>1, <2>5, KeptResultStep DEF ResultInvariant
<1> QED
  BY <1>1, <1>2, <1>3 DEF Next

(* The row a job reports is the job's own, whoever wrote it.               *)
THEOREM ResultBelongsToJobHolds == Spec => []ResultBelongsToJob
<1>1. Init => ResultInvariant
  BY DEF Init, IdleWorker, ResultInvariant, ResultBelongsToJob, WorkerRowOK, Jobs
<1>2. QueueInvariant /\ ResultInvariant /\ [Next]_vars => ResultInvariant'
  BY ResultStep
<1>3. ResultInvariant => ResultBelongsToJob
  BY DEF ResultInvariant
<1> QED
  BY <1>1, <1>2, <1>3, QueueInvariantHolds, PTL DEF Spec

-----------------------------------------------------------------------------
(* The cap on open jobs *)

(* The requests that have passed the count and have still to write.        *)
Admitted(u) ==
    {h \in Handler : /\ handler[h] # None
                     /\ handler[h].user = u
                     /\ handler[h].pc \in {"create", "insert", "retry"}}

(* The count may be stale, but a request is counted from then on as if its *)
(* job were open already.  A retry writes a job of the caller's.           *)
AdmittedBounded ==
    \A u \in User :
        Cardinality(OpenJobs(u)) + Cardinality(Admitted(u))
            <= MaxOpen + Cardinality(Handler) - 1

RetryOwner ==
    \A h \in Handler :
        /\ handler[h] # None
        /\ handler[h].pc \in {"recount", "retry"}
        /\ jobs[handler[h].job] # None
        => jobs[handler[h].job].user = handler[h].user

CapInvariant == AdmittedBounded /\ RetryOwner

LEMMA CapSets ==
  ASSUME NEW u
  PROVE  /\ IsFiniteSet(OpenJobs(u)) /\ IsFiniteSet(OpenJobs(u)')
         /\ IsFiniteSet(Admitted(u)) /\ IsFiniteSet(Admitted(u)')
         /\ Cardinality(OpenJobs(u)) \in Nat /\ Cardinality(OpenJobs(u)') \in Nat
         /\ Cardinality(Admitted(u)) \in Nat /\ Cardinality(Admitted(u)') \in Nat
         /\ Cardinality(Admitted(u)') <= Cardinality(Handler)
         /\ Cardinality(Handler) \in Nat
<1>1. IsFiniteSet(Job) /\ IsFiniteSet(Handler)
  BY QueueAssumption
<1>2. /\ OpenJobs(u) \subseteq Job /\ OpenJobs(u)' \subseteq Job
      /\ Admitted(u) \subseteq Handler /\ Admitted(u)' \subseteq Handler
  BY DEF OpenJobs, Jobs, Admitted
<1>3. /\ IsFiniteSet(OpenJobs(u)) /\ IsFiniteSet(OpenJobs(u)')
      /\ IsFiniteSet(Admitted(u)) /\ IsFiniteSet(Admitted(u)')
      /\ Cardinality(Admitted(u)') <= Cardinality(Handler)
  BY <1>1, <1>2, FS_Subset
<1> QED
  BY <1>1, <1>3, FS_CardinalityType

(* A user with fewer open jobs and admitted requests stays within bounds.  *)
LEMMA LoadShrinks ==
  ASSUME AdmittedBounded, NEW u \in User,
         OpenJobs(u)' \subseteq OpenJobs(u), Admitted(u)' \subseteq Admitted(u)
  PROVE  Cardinality(OpenJobs(u)') + Cardinality(Admitted(u)')
             <= MaxOpen + Cardinality(Handler) - 1
<1>1. /\ Cardinality(OpenJobs(u)') <= Cardinality(OpenJobs(u))
      /\ Cardinality(Admitted(u)') <= Cardinality(Admitted(u))
  BY CapSets, FS_Subset
<1> QED
  BY <1>1, CapSets, QueueAssumption DEF AdmittedBounded

(* An admitted request that writes its job only changes places with it.    *)
LEMMA LoadMoves ==
  ASSUME AdmittedBounded, NEW u \in User, NEW j, NEW h \in Admitted(u),
         OpenJobs(u)' \subseteq OpenJobs(u) \cup {j},
         Admitted(u)' \subseteq Admitted(u) \ {h}
  PROVE  Cardinality(OpenJobs(u)') + Cardinality(Admitted(u)')
             <= MaxOpen + Cardinality(Handler) - 1
<1>1. /\ IsFiniteSet(OpenJobs(u) \cup {j})
      /\ Cardinality(OpenJobs(u) \cup {j}) <= Cardinality(OpenJobs(u)) + 1
      /\ Cardinality(OpenJobs(u) \cup {j}) \in Nat
  <2>1. /\ IsFiniteSet(OpenJobs(u) \cup {j})
        /\ Cardinality(OpenJobs(u) \cup {j}) = IF j \in OpenJobs(u)
                                               THEN Cardinality(OpenJobs(u))
                                               ELSE Cardinality(OpenJobs(u)) + 1
    BY CapSets, FS_AddElement
  <2> QED
    BY <2>1, CapSets
<1>2. /\ IsFiniteSet(Admitted(u) \ {h})
      /\ Cardinality(Admitted(u) \ {h}) = Cardinality(Admitted(u)) - 1
  BY CapSets, FS_RemoveElement
<1>3. /\ Cardinality(OpenJobs(u)') <= Cardinality(OpenJobs(u) \cup {j})
      /\ Cardinality(Admitted(u)') <= Cardinality(Admitted(u) \ {h})
  BY <1>1, <1>2, FS_Subset
<1> QED
  BY <1>1, <1>2, <1>3, CapSets, QueueAssumption DEF AdmittedBounded

(* A user below the cap when a request of theirs is admitted.              *)
LEMMA LoadAdmits ==
  ASSUME NEW u \in User, UNCHANGED jobs, ~(Cardinality(OpenJobs(u)) >= MaxOpen)
  PROVE  Cardinality(OpenJobs(u)') + Cardinality(Admitted(u)')
             <= MaxOpen + Cardinality(Handler) - 1
<1>1. OpenJobs(u)' = OpenJobs(u)
  BY DEF OpenJobs, Jobs
<1> QED
  BY <1>1, CapSets, QueueAssumption

(* No job appears, changes hands or opens.                                 *)
OpenKept ==
    \A j \in Job : jobs'[j] # None =>
        /\ jobs[j] # None
        /\ jobs'[j].user = jobs[j].user
        /\ jobs'[j].status \in Open => jobs[j].status \in Open

LEMMA QuietRowsKeepOpen ==
  ASSUME RowsTidied \/ WorkerClaims \/ WorkerFinishes \/ WorkerRuns \/ WorkerLoses
         \/ ProcessRestarts \/ UNCHANGED jobs
  PROVE  OpenKept
<1> USE DEF OpenKept, Open, SameRun, SameItem
<1>1. CASE RowsTidied
  BY <1>1 DEF RowsTidied, Rests, IsStopped, IsPruned
<1>2. CASE WorkerClaims
  BY <1>2 DEF WorkerClaims, OnlyJob, IsClaimed
<1>3. CASE WorkerFinishes
  BY <1>3 DEF WorkerFinishes, OnlyJob, IsFinished
<1>4. CASE WorkerRuns \/ WorkerLoses \/ UNCHANGED jobs
  BY <1>4 DEF WorkerRuns, WorkerLoses
<1>5. CASE ProcessRestarts
  BY <1>5 DEF ProcessRestarts, Rests, IsRequeued
<1> QED
  BY <1>1, <1>2, <1>3, <1>4, <1>5

LEMMA OpenKeptShrinks ==
  ASSUME OpenKept, NEW u
  PROVE  OpenJobs(u)' \subseteq OpenJobs(u)
BY DEF OpenKept, OpenJobs, Jobs

LEMMA RestartKeepsCap ==
  ASSUME AdmittedBounded, OpenKept, handler' = [h \in Handler |-> None]
  PROVE  CapInvariant'
<1>1. RetryOwner'
  BY DEF RetryOwner
<1>2. \A u \in User : Admitted(u)' \subseteq Admitted(u)
  BY DEF Admitted
<1> QED
  BY <1>1, <1>2, OpenKeptShrinks, LoadShrinks DEF CapInvariant, AdmittedBounded

LEMMA SameHandlersKeepCap ==
  ASSUME CapInvariant, QueueInvariant, OpenKept, UNCHANGED handler
  PROVE  CapInvariant'
<1>1. RetryOwner'
  BY DEF CapInvariant, RetryOwner, OpenKept, QueueInvariant, TypeOK, RequestOK, Request
<1>2. \A u \in User : Admitted(u)' \subseteq Admitted(u)
  BY DEF Admitted
<1> QED
  BY <1>1, <1>2, OpenKeptShrinks, LoadShrinks DEF CapInvariant, AdmittedBounded

(* A request begins, moves on or is answered, and is not admitted by it.   *)
LEMMA RequestKeepsCap ==
  ASSUME CapInvariant, QueueInvariant, UNCHANGED jobs, NEW h \in Handler, NEW q,
         handler' = [handler EXCEPT ![h] = q],
         q # None /\ q.pc \in {"create", "insert", "retry"} => h \in Admitted(q.user),
         /\ q # None
         /\ q.pc \in {"recount", "retry"}
         /\ jobs[q.job] # None
         => jobs[q.job].user = q.user
  PROVE  CapInvariant'
<1>1. handler'[h] = q /\ \A i \in Handler \ {h} : handler'[i] = handler[i]
  BY DEF QueueInvariant, TypeOK
<1>2. RetryOwner'
  BY <1>1 DEF CapInvariant, RetryOwner
<1>3. \A u \in User : Admitted(u)' \subseteq Admitted(u)
  BY <1>1 DEF Admitted
<1> QED
  BY <1>2, <1>3, QuietRowsKeepOpen, OpenKeptShrinks, LoadShrinks
     DEF CapInvariant, AdmittedBounded

(* A request below the cap is admitted.                                    *)
LEMMA AdmissionKeepsCap ==
  ASSUME CapInvariant, QueueInvariant, UNCHANGED jobs, NEW h \in Handler,
         handler[h] # None, ~(Cardinality(OpenJobs(handler[h].user)) >= MaxOpen),
         NEW pc \in {"create", "retry"}, Goto(h, pc),
         pc = "retry" => handler[h].pc = "recount"
  PROVE  CapInvariant'
<1> DEFINE q == [handler[h] EXCEPT !.pc = pc]
<1>1. handler[h] \in Request
  BY DEF QueueInvariant, TypeOK
<1>2. q.pc = pc /\ q.user = handler[h].user /\ q.job = handler[h].job
  BY <1>1 DEF Request
<1>3. handler'[h] = q /\ \A i \in Handler \ {h} : handler'[i] = handler[i]
  BY DEF Goto, QueueInvariant, TypeOK
<1> HIDE DEF q
<1>4. RetryOwner'
  BY <1>2, <1>3 DEF CapInvariant, RetryOwner
<1>5. ASSUME NEW u \in User
      PROVE  Cardinality(OpenJobs(u)') + Cardinality(Admitted(u)')
                 <= MaxOpen + Cardinality(Handler) - 1
  <2>1. CASE u = handler[h].user
    BY <2>1, LoadAdmits
  <2>2. CASE u # handler[h].user
    <3>1. Admitted(u)' \subseteq Admitted(u)
      BY <1>2, <1>3, <2>2 DEF Admitted
    <3> QED
      BY <3>1, QuietRowsKeepOpen, OpenKeptShrinks, LoadShrinks DEF CapInvariant
  <2> QED
    BY <2>1, <2>2
<1> QED
  BY <1>4, <1>5 DEF CapInvariant, AdmittedBounded

(* An admitted request writes its one job and is answered.                 *)
LEMMA WriteKeepsCap ==
  ASSUME CapInvariant, QueueInvariant, NEW h \in Handler, Answer(h),
         handler[h] # None, handler[h].pc \in {"create", "insert", "retry"},
         NEW j \in Job, OnlyJob(j), jobs'[j] # None, jobs'[j].user = handler[h].user,
         \/ jobs[j] # None /\ jobs[j].user = handler[h].user
         \/ \A i \in Handler : handler[i] # None => handler[i].job # j
  PROVE  CapInvariant'
<1>1. handler'[h] = None /\ \A i \in Handler \ {h} : handler'[i] = handler[i]
  BY DEF Answer, QueueInvariant, TypeOK
<1>2. RetryOwner'
  BY <1>1 DEF CapInvariant, RetryOwner, OnlyJob, QueueInvariant, TypeOK, RequestOK, Request
<1>3. h \in Admitted(handler[h].user)
  BY DEF Admitted
<1>4. ASSUME NEW u \in User
      PROVE  Cardinality(OpenJobs(u)') + Cardinality(Admitted(u)')
                 <= MaxOpen + Cardinality(Handler) - 1
  <2>1. Admitted(u)' \subseteq Admitted(u) \ {h}
    BY <1>1 DEF Admitted
  <2>2. CASE u = handler[h].user
    <3>1. OpenJobs(u)' \subseteq OpenJobs(u) \cup {j}
      BY DEF OpenJobs, Jobs, OnlyJob
    <3> QED
      BY <1>3, <2>1, <2>2, <3>1, LoadMoves DEF CapInvariant
  <2>3. CASE u # handler[h].user
    <3>1. OpenJobs(u)' \subseteq OpenJobs(u)
      BY <2>3 DEF OpenJobs, Jobs, OnlyJob
    <3> QED
      BY <2>1, <3>1, LoadShrinks DEF CapInvariant
  <2> QED
    BY <2>2, <2>3
<1> QED
  BY <1>2, <1>4 DEF CapInvariant, AdmittedBounded

LEMMA SubmittingKeepsCap ==
  ASSUME CapInvariant, QueueInvariant, NEW h \in Handler, Submitting(h)
  PROVE  CapInvariant'
<1> USE DEF Admitted
<1>1. ASSUME NEW u \in User, NEW k \in Key \cup {None}, NEW s \in Slot \cup {None},
             NEW p \in Payload, SubmitCheck(h, u, k, s, p)
      PROVE  CapInvariant'
  BY <1>1, RequestKeepsCap DEF SubmitCheck
<1>2. ASSUME UNCHANGED jobs, Answer(h) PROVE CapInvariant'
  BY <1>2, RequestKeepsCap DEF Answer
<1>3. CASE SubmitCount(h)
  BY <1>2, <1>3, AdmissionKeepsCap DEF SubmitCount
<1>4. CASE CreateJob(h)
  <2> DEFINE q == [handler[h] EXCEPT !.pc = "insert"]
  <2>1. handler[h] \in Request /\ handler[h] # None /\ handler[h].pc = "create"
    BY <1>4 DEF CreateJob, QueueInvariant, TypeOK
  <2>2. q.pc = "insert" /\ q.user = handler[h].user
    BY <2>1 DEF Request
  <2>3. CASE Goto(h, "insert")
    <3>1. handler' = [handler EXCEPT ![h] = q]
      BY <2>3 DEF Goto
    <3> HIDE DEF q
    <3> QED
      BY <1>4, <2>1, <2>2, <3>1, RequestKeepsCap DEF CreateJob
  <2> QED
    BY <1>2, <1>4, <2>3 DEF CreateJob
<1>5. ASSUME handler[h] # None, handler[h].pc \in {"create", "insert"}, Answer(h),
             NEW j \in Job, FreshJob(j), jobs' = [jobs EXCEPT ![j] = NewJob(handler[h])]
      PROVE  CapInvariant'
  <2>1. handler[h] \in Request /\ handler[h].payload # None
    BY <1>5 DEF QueueInvariant, TypeOK, RequestOK
  <2>2. jobs'[j] = NewJob(handler[h]) /\ OnlyJob(j)
    BY <1>5 DEF OnlyJob, QueueInvariant, TypeOK
  <2>3. jobs'[j] # None
    BY <2>1, <2>2, NoneAssumption DEF NewJob, JobRow, Request, Status, Open
  <2>4. jobs'[j].user = handler[h].user
    BY <2>2 DEF NewJob
  <2> QED
    BY <1>5, <2>2, <2>3, <2>4, WriteKeepsCap DEF FreshJob
<1>6. CASE InsertJob(h) \/ CreateBatchJob(h)
  BY <1>2, <1>5, <1>6 DEF InsertJob, CreateBatchJob
<1> QED
  BY <1>1, <1>3, <1>4, <1>6 DEF Submitting

LEMMA RetryingKeepsCap ==
  ASSUME CapInvariant, QueueInvariant, NEW h \in Handler, Retrying(h)
  PROVE  CapInvariant'
<1>1. ASSUME NEW j \in Job, NEW p \in Payload, RetryCheck(h, j, p) PROVE CapInvariant'
  BY <1>1, RequestKeepsCap DEF RetryCheck
<1>2. ASSUME UNCHANGED jobs, Answer(h) PROVE CapInvariant'
  BY <1>2, RequestKeepsCap DEF Answer
<1>3. CASE RetryCount(h)
  BY <1>2, <1>3, AdmissionKeepsCap DEF RetryCount
<1>4. CASE RetryUpdate(h)
  <2> DEFINE i == handler[h].job
             q == [jobs[i] EXCEPT !.status = "queued", !.attempts = 0, !.wait = 0,
                                  !.idle = 0, !.payload = handler[h].payload]
  <2>1. CASE Retryable(i)
    <3>1. /\ i \in Job
          /\ handler[h].payload \in Payload \cup {None}
          /\ handler[h] # None /\ handler[h].pc = "retry"
      BY <1>4 DEF RetryUpdate, QueueInvariant, TypeOK, RequestOK, Request
    <3>2. jobs[i] \in JobRow /\ jobs[i] # None /\ jobs[i].user = handler[h].user
      BY <2>1, <3>1 DEF Retryable, QueueInvariant, TypeOK, CapInvariant, RetryOwner
    <3>3. q \in JobRow /\ q.user = jobs[i].user
      BY <3>1, <3>2, RetriedRow DEF JobRow
    <3>4. jobs' = [jobs EXCEPT ![i] = q] /\ Answer(h)
      BY <1>4, <2>1 DEF RetryUpdate
    <3>5. jobs'[i] = q /\ OnlyJob(i) /\ q # None
      BY <3>1, <3>3, <3>4, NoneAssumption DEF OnlyJob, QueueInvariant, TypeOK
    <3> HIDE DEF i, q
    <3> QED
      BY <3>1, <3>2, <3>3, <3>4, <3>5, WriteKeepsCap
  <2>2. CASE ~Retryable(i)
    BY <1>2, <1>4, <2>2 DEF RetryUpdate
  <2> QED
    BY <2>1, <2>2
<1> QED
  BY <1>1, <1>3, <1>4 DEF Retrying

LEMMA CapStep ==
  ASSUME CapInvariant, QueueInvariant, [Next]_vars
  PROVE  CapInvariant'
<1>1. ASSUME NEW h \in Handler, Estimating(h) PROVE CapInvariant'
  <2>1. CASE \E u \in User, k \in Key : EstimateStart(h, u, k)
    BY <2>1, RequestKeepsCap DEF EstimateStart
  <2>2. CASE EstimateSave(h) \/ EstimateFail(h)
    <3>1. CASE NextItem(h)
      <4>1. PICK q \in Request : /\ q.pc = "estimate"
                                 /\ handler' = [handler EXCEPT ![h] = q]
        BY <2>2, <3>1, NextItemIs DEF EstimateSave, EstimateFail, QueueInvariant
      <4> QED
        BY <2>2, <4>1, RequestKeepsCap DEF EstimateSave, EstimateFail
    <3>2. CASE Answer(h)
      BY <2>2, <3>2, RequestKeepsCap DEF EstimateSave, EstimateFail, Answer
    <3> QED
      BY <2>2, <3>1, <3>2 DEF EstimateSave, EstimateFail
  <2> QED
    BY <1>1, <2>1, <2>2 DEF Estimating
<1>2. ASSUME NEW J \in SUBSET Job, \A j \in J : Queued(j), CancelRows(J),
             UNCHANGED <<handler, worker, stuck>>
      PROVE  CapInvariant'
  <2>1. RowsTidied
    BY <1>2, CancelRests DEF RowsTidied, QueueInvariant
  <2> QED
    BY <1>2, <2>1, QuietRowsKeepOpen, SameHandlersKeepCap
<1>3. ASSUME NEW j \in Job, CancelJob(j) PROVE CapInvariant'
  BY <1>2, <1>3 DEF CancelJob
<1>4. ASSUME NEW b \in Batch, CancelBatch(b) PROVE CapInvariant'
  BY <1>2, <1>4 DEF CancelBatch
<1>5. ASSUME UNCHANGED <<jobs, handler>> PROVE CapInvariant'
  BY <1>5, QuietRowsKeepOpen, SameHandlersKeepCap
<1>6. CASE Caller
  BY <1>1, <1>3, <1>4, <1>5, <1>6, SubmittingKeepsCap, RetryingKeepsCap
     DEF Caller, CreateBatch, DeleteRow, DeleteAccount
<1>7. CASE Working
  <2>1. OpenKept
    BY <1>7, WorkingRows, QuietRowsKeepOpen
  <2>2. UNCHANGED handler
    BY <1>7 DEF Working, Claim, OwnerCheck, EstimateReject, EstimateReplay,
       EstimateTransient, EstimateInfer, SaveRow, SaveUnsaved, SavePanic,
       FinishSuccess, FinishRetry, FinishFailed, FinishJob, FinishLost, Maintain
  <2> QED
    BY <2>1, <2>2, SameHandlersKeepCap
<1>8. CASE SetPaused \/ Tick \/ Restart
  <2>1. OpenKept
    BY <1>8, RestRows, QuietRowsKeepOpen
  <2>2. CASE Restart
    BY <2>1, <2>2, RestartKeepsCap DEF Restart, CapInvariant
  <2>3. CASE SetPaused \/ Tick
    BY <2>1, <2>3, SameHandlersKeepCap DEF SetPaused, Tick
  <2> QED
    BY <1>8, <2>2, <2>3
<1>9. CASE UNCHANGED vars
  BY <1>5, <1>9 DEF vars
<1> QED
  BY <1>6, <1>7, <1>8, <1>9 DEF Next

(* A user's open jobs exceed the cap by at most one per connection thread  *)
(* that counted before the others wrote, and never by more, whatever else  *)
(* the threads, the worker and restarts do.                                *)
THEOREM OpenBoundedHolds == Spec => []OpenBounded
<1>1. Init => CapInvariant
  <2> SUFFICES ASSUME Init PROVE CapInvariant
    OBVIOUS
  <2>1. \A u \in User : OpenJobs(u) = {} /\ Admitted(u) = {}
    BY DEF Init, OpenJobs, Jobs, Admitted
  <2>2. Cardinality({}) = 0 /\ Cardinality(Handler) \in Nat
    BY FS_EmptySet, FS_CardinalityType, QueueAssumption
  <2>3. AdmittedBounded
    <3> SUFFICES ASSUME NEW u \in User
                 PROVE  Cardinality(OpenJobs(u)) + Cardinality(Admitted(u))
                            <= MaxOpen + Cardinality(Handler) - 1
      BY DEF AdmittedBounded
    <3>1. Cardinality(OpenJobs(u)) = 0 /\ Cardinality(Admitted(u)) = 0
      BY <2>1, <2>2
    <3> QED
      BY <2>2, <3>1, QueueAssumption
  <2>4. RetryOwner
    BY DEF Init, RetryOwner
  <2> QED
    BY <2>3, <2>4 DEF CapInvariant
<1>2. CapInvariant /\ QueueInvariant /\ [Next]_vars => CapInvariant'
  BY CapStep
<1>3. CapInvariant => OpenBounded
  <2> SUFFICES ASSUME CapInvariant, NEW u \in User
               PROVE  Cardinality(OpenJobs(u)) <= MaxOpen + Cardinality(Handler) - 1
    BY DEF OpenBounded
  <2> QED
    BY CapSets, QueueAssumption DEF CapInvariant, AdmittedBounded
<1> QED
  BY <1>1, <1>2, <1>3, QueueInvariantHolds, PTL DEF Spec
=============================================================================
