------------------------------ MODULE JobQueue ------------------------------
(***************************************************************************)
(* The durable estimate-job queue of the web backend: the `jobs',          *)
(* `upload_batches' and `estimates' tables (db.rs), the HTTP handlers that *)
(* submit, retry and cancel jobs (http/jobs.rs, http/upload_batches.rs),   *)
(* foreground estimates that share the idempotency keys                    *)
(* (http/estimate.rs), the single background worker with its maintenance   *)
(* (jobs.rs), account deletion, operator pause and a crash and restart of  *)
(* the process (main.rs).                                                  *)
(*                                                                         *)
(* The database is one connection behind a mutex, so every method of Db is *)
(* one atomic step; a handler that calls several methods can be            *)
(* interleaved between them, and so can the worker.                        *)
(*                                                                         *)
(* Time is kept as ages, compressed past the largest limit the code        *)
(* compares them with, so the model has no clock to bound.  Ids are        *)
(* unique: a model id is used again only when nothing names it any more.   *)
(***************************************************************************)
EXTENDS Naturals, FiniteSets

CONSTANTS
    User,           \* accounts
    Key,            \* idempotency keys a caller may send
    Batch,          \* upload-batch ids
    MaxItems,       \* MAX item_count of a batch
    Payload,        \* request bodies: "photo", or "cut" (see SavePanic)
    Job,            \* job ids
    Row,            \* history (estimates) row ids
    Handler,        \* HTTP connection threads
    None,           \* SQL NULL, or no row
    MaxOpen,        \* MAX_OPEN_JOBS_PER_USER
    MaxAttempts,    \* MAX_JOB_ATTEMPTS
    Backoff,        \* Backoff[n]: ticks until the next run after attempt n
    Expiry,         \* QUEUED_EXPIRY_SECS in ticks
    Ttl,            \* job_ttl_hours in ticks
    Faulty,         \* whether a job's last UPDATE may fail
    MaxRestarts,    \* bound: restarts explored
    MaxRetries      \* bound: retry requests explored

VARIABLES
    jobs,           \* jobs[j]: the row of table jobs, or None
    history,        \* history[r]: the row of table estimates, or None
    batches,        \* batches[b]: the row of table upload_batches, or None
    active,         \* users whose status is 'active'
    handler,        \* handler[h]: the request a thread is serving, or None
    worker,         \* the worker thread's local state
    stuck,          \* jobs left active by a failed UPDATE (history variable)
    paused,         \* operator pause (in memory)
    restarts,       \* restarts so far
    retries         \* retry requests so far

vars == <<jobs, history, batches, active, handler, worker, stuck, paused,
          restarts, retries>>

-----------------------------------------------------------------------------
(* Rows and records *)

Slot     == [batch : Batch, index : 0 .. MaxItems - 1]
Terminal == {"success", "failed", "cancelled", "expired"}
Open     == {"queued", "active"}
Status   == Open \cup Terminal

JobRow ==
    [user     : User,
     key      : Key \cup {None},       \* idempotency_key
     slot     : Slot \cup {None},      \* batch_id, batch_index
     status   : Status,
     attempts : Nat,
     wait     : Nat,                   \* run_after - now, 0 when due
     age      : Nat,                   \* now - created_at, compressed
     idle     : Nat,                   \* now - updated_at, saturated
     payload  : Payload \cup {None},   \* None is the cleared '{}'
     row      : Row \cup {None}]       \* history_id

(* `origin' is a history variable: the job whose run wrote the row. *)
HistoryRow == [user : User, key : Key \cup {None}, origin : Job \cup {None}]
BatchRow   == [user : User, size : 1 .. MaxItems]

Request ==
    [pc      : {"count", "create", "insert",        \* POST /api/jobs
                "recount", "retry",                 \* POST .../retry
                "estimate"},                        \* POST /estimate-weight, -batch
     user    : User,
     key     : Key \cup {None},
     slot    : Slot \cup {None},
     payload : Payload \cup {None},
     job     : Job \cup {None}]

Worker ==
    [pc    : {"idle", "claimed", "estimate", "save",
              "success", "transient", "rejected", "dead"},
     job   : Job \cup {None},
     tries : Nat,                      \* job.attempts as claimed
     row   : Row \cup {None}]          \* history_id of the result

ASSUME QueueAssumption ==
    /\ IsFiniteSet(Job) /\ IsFiniteSet(Handler)
    /\ Faulty \in BOOLEAN
    /\ MaxItems \in Nat \ {0}
    /\ MaxOpen \in Nat \ {0}
    /\ MaxAttempts \in Nat \ {0}
    /\ Expiry \in Nat
    /\ Ttl \in Nat
    /\ MaxRestarts \in Nat
    /\ MaxRetries \in Nat
    /\ Backoff \in [0 .. MaxAttempts - 1 -> Nat]

(* NULL is not a value of any column, nor a row. *)
ASSUME NoneAssumption ==
    /\ None \notin User \cup Key \cup Job \cup Row \cup Batch \cup Payload
    /\ None \notin Slot
    /\ None \notin JobRow
    /\ None \notin HistoryRow
    /\ None \notin BatchRow
    /\ None \notin Request

TypeOK ==
    /\ jobs \in [Job -> JobRow \cup {None}]
    /\ history \in [Row -> HistoryRow \cup {None}]
    /\ batches \in [Batch -> BatchRow \cup {None}]
    /\ active \subseteq User
    /\ handler \in [Handler -> Request \cup {None}]
    /\ worker \in Worker
    /\ stuck \subseteq Job
    /\ paused \in BOOLEAN
    /\ restarts \in 0 .. MaxRestarts
    /\ retries \in 0 .. MaxRetries

IdleWorker == [pc |-> "idle", job |-> None, tries |-> 0, row |-> None]

Init ==
    /\ jobs = [j \in Job |-> None]
    /\ history = [r \in Row |-> None]
    /\ batches = [b \in Batch |-> None]
    /\ active = User
    /\ handler = [h \in Handler |-> None]
    /\ worker = IdleWorker
    /\ stuck = {}
    /\ paused = FALSE
    /\ restarts = 0
    /\ retries = 0

-----------------------------------------------------------------------------
(* Queries *)

Jobs == {j \in Job : jobs[j] # None}
Rows == {r \in Row : history[r] # None}

(* SELECT ... WHERE user_id = u AND idempotency_key = k (NULL matches      *)
(* nothing, and the UNIQUE index lets NULL repeat).                        *)
KeyTaken(u, k) ==
    /\ k # None
    /\ \E j \in Jobs : jobs[j].user = u /\ jobs[j].key = k

SlotTaken(s) == \E j \in Jobs : jobs[j].slot = s

(* Broken variant: NULL keys compared as equal. *)
RowsForNullEqual(u, k) == {r \in Rows : history[r].user = u /\ history[r].key = k}

RowsFor(u, k) ==
    {r \in Rows : k # None /\ history[r].user = u /\ history[r].key = k}

OpenJobs(u) == {j \in Jobs : jobs[j].user = u /\ jobs[j].status \in Open}

(* new_id() for a job and for a history row. *)
FreshJob(j) ==
    /\ jobs[j] = None
    /\ \A h \in Handler : handler[h] # None => handler[h].job # j
    /\ \A r \in Rows : history[r].origin # j

FreshRow(r) ==
    /\ history[r] = None
    /\ worker.row # r
    /\ \A j \in Jobs : jobs[j].row # r

Answer(h) == handler' = [handler EXCEPT ![h] = None]
Goto(h, pc) == handler' = [handler EXCEPT ![h].pc = pc]

-----------------------------------------------------------------------------
(* POST /api/upload-batches *)

CreateBatch(u, b, n) ==
    /\ u \in active
    /\ batches[b] = None
    /\ batches' = [batches EXCEPT ![b] = [user |-> u, size |-> n]]
    /\ UNCHANGED <<jobs, history, active, handler, worker, stuck, paused,
                   restarts, retries>>

-----------------------------------------------------------------------------
(* POST /api/jobs: job_by_idempotency_key, open_job_count and the insert   *)
(* are separate calls.  A caller whose key names an existing job is        *)
(* answered from that row and changes nothing.                             *)

SubmitCheck(h, u, k, s, p) ==
    /\ handler[h] = None
    /\ u \in active
    /\ ~KeyTaken(u, k)
    /\ handler' = [handler EXCEPT ![h] =
           [pc |-> "count", user |-> u, key |-> k, slot |-> s,
            payload |-> p, job |-> None]]
    /\ UNCHANGED <<jobs, history, batches, active, worker, stuck, paused,
                   restarts, retries>>

(* Broken variant: > for >=. *)
SubmitCountOneMore(h) ==
    /\ handler[h] # None
    /\ handler[h].pc = "count"
    /\ IF Cardinality(OpenJobs(handler[h].user)) > MaxOpen
       THEN Answer(h)
       ELSE Goto(h, "create")
    /\ UNCHANGED <<jobs, history, batches, active, worker, stuck, paused,
                   restarts, retries>>

(* The cap is checked here and enforced by nothing later. *)
SubmitCount(h) ==
    /\ handler[h] # None
    /\ handler[h].pc = "count"
    /\ IF Cardinality(OpenJobs(handler[h].user)) >= MaxOpen
       THEN Answer(h)                                           \* 429
       ELSE Goto(h, "create")
    /\ UNCHANGED <<jobs, history, batches, active, worker, stuck, paused,
                   restarts, retries>>

NewJob(q) ==
    [user |-> q.user, key |-> q.key, slot |-> q.slot, status |-> "queued",
     attempts |-> 0, wait |-> 0, age |-> 0, idle |-> 0,
     payload |-> q.payload, row |-> None]

(* create_job looks the key up again, in a call of its own. *)
CreateJob(h) ==
    /\ handler[h] # None
    /\ handler[h].pc = "create"
    /\ handler[h].slot = None
    /\ IF KeyTaken(handler[h].user, handler[h].key)
       THEN Answer(h)                                           \* replayed
       ELSE Goto(h, "insert")
    /\ UNCHANGED <<jobs, history, batches, active, worker, stuck, paused,
                   restarts, retries>>

(* Broken variant: an index that is not UNIQUE. *)
InsertJobAnyway(h) ==
    /\ handler[h] # None
    /\ handler[h].pc = "insert"
    /\ \E j \in Job : /\ FreshJob(j)
                      /\ jobs' = [jobs EXCEPT ![j] = NewJob(handler[h])]
    /\ Answer(h)
    /\ UNCHANGED <<history, batches, active, worker, stuck, paused,
                   restarts, retries>>

(* The INSERT; idx_jobs_idem turns a lost race into an error answer. *)
InsertJob(h) ==
    /\ handler[h] # None
    /\ handler[h].pc = "insert"
    /\ IF KeyTaken(handler[h].user, handler[h].key)
       THEN UNCHANGED jobs                                      \* 502
       ELSE \E j \in Job : /\ FreshJob(j)
                           /\ jobs' = [jobs EXCEPT ![j] = NewJob(handler[h])]
    /\ Answer(h)
    /\ UNCHANGED <<history, batches, active, worker, stuck, paused,
                   restarts, retries>>

(* Broken variant: the item's earlier job is not looked up. *)
SlotOpenAgain(q) ==
    /\ batches[q.slot.batch] # None
    /\ batches[q.slot.batch].user = q.user
    /\ q.slot.index < batches[q.slot.batch].size
    /\ ~KeyTaken(q.user, q.key)

(* create_batch_job does its checks and its INSERT in one transaction. *)
SlotOpen(q) ==
    /\ batches[q.slot.batch] # None
    /\ batches[q.slot.batch].user = q.user
    /\ q.slot.index < batches[q.slot.batch].size
    /\ ~KeyTaken(q.user, q.key)
    /\ ~SlotTaken(q.slot)

CreateBatchJob(h) ==
    /\ handler[h] # None
    /\ handler[h].pc = "create"
    /\ handler[h].slot # None
    /\ IF SlotOpen(handler[h])
       THEN \E j \in Job : /\ FreshJob(j)
                           /\ jobs' = [jobs EXCEPT ![j] = NewJob(handler[h])]
       ELSE UNCHANGED jobs                            \* replayed, 400 or 502
    /\ Answer(h)
    /\ UNCHANGED <<history, batches, active, worker, stuck, paused,
                   restarts, retries>>

-----------------------------------------------------------------------------
(* POST /api/upload-batches/{id}/items/{index}/retry: the item is read,    *)
(* the open jobs are counted, then one guarded UPDATE requeues it.         *)

(* Broken variant: a success may be retried. *)
RetryableAnyOutcome(j) == jobs[j] # None /\ jobs[j].status \in Terminal

Retryable(j) ==
    /\ jobs[j] # None
    /\ jobs[j].status \in {"failed", "cancelled", "expired"}

RetryCheck(h, j, p) ==
    /\ retries < MaxRetries
    /\ handler[h] = None
    /\ Retryable(j)
    /\ jobs[j].slot # None
    /\ jobs[j].user \in active
    /\ retries' = retries + 1
    /\ handler' = [handler EXCEPT ![h] =
           [pc |-> "recount", user |-> jobs[j].user, key |-> jobs[j].key,
            slot |-> jobs[j].slot, payload |-> p, job |-> j]]
    /\ UNCHANGED <<jobs, history, batches, active, worker, stuck, paused,
                   restarts>>

RetryCount(h) ==
    /\ handler[h] # None
    /\ handler[h].pc = "recount"
    /\ IF Cardinality(OpenJobs(handler[h].user)) >= MaxOpen
       THEN Answer(h)                                           \* 429
       ELSE Goto(h, "retry")
    /\ UNCHANGED <<jobs, history, batches, active, worker, stuck, paused,
                   restarts, retries>>

(* created_at and history_id keep their values. *)
RetryUpdate(h) ==
    /\ handler[h] # None
    /\ handler[h].pc = "retry"
    /\ jobs' = IF Retryable(handler[h].job)
               THEN [jobs EXCEPT
                        ![handler[h].job].status   = "queued",
                        ![handler[h].job].attempts = 0,
                        ![handler[h].job].wait     = 0,
                        ![handler[h].job].idle     = 0,
                        ![handler[h].job].payload  = handler[h].payload]
               ELSE jobs                                        \* 409
    /\ Answer(h)
    /\ UNCHANGED <<history, batches, active, worker, stuck, paused,
                   restarts, retries>>

-----------------------------------------------------------------------------
(* Cancelling.  The handlers look the job or batch up first, but the       *)
(* UPDATE is guarded by the status itself, so one step says it all.        *)

CancelRows(J) ==
    jobs' = [j \in Job |-> IF j \in J
                           THEN [jobs[j] EXCEPT !.status  = "cancelled",
                                                !.idle    = 0,
                                                !.payload = None]
                           ELSE jobs[j]]

Queued(j) == jobs[j] # None /\ jobs[j].status = "queued"

(* Broken variant: cancels a running job. *)
CancelJobOpen(j) ==
    /\ jobs[j] # None
    /\ jobs[j].status \in Open
    /\ jobs[j].user \in active
    /\ CancelRows({j})
    /\ UNCHANGED <<history, batches, active, handler, worker, stuck,
                   paused, restarts, retries>>

CancelJob(j) ==
    /\ Queued(j)
    /\ jobs[j].user \in active
    /\ CancelRows({j})
    /\ UNCHANGED <<history, batches, active, handler, worker, stuck,
                   paused, restarts, retries>>

CancelBatch(b) ==
    /\ batches[b] # None
    /\ batches[b].user \in active
    /\ CancelRows({j \in Job : /\ Queued(j)
                               /\ jobs[j].slot # None
                               /\ jobs[j].slot.batch = b
                               /\ jobs[j].user = batches[b].user})
    /\ UNCHANGED <<history, batches, active, handler, worker, stuck,
                   paused, restarts, retries>>

-----------------------------------------------------------------------------
(* POST /estimate-weight, and an item of POST /estimate-batch, with a key: *)
(* the replay lookup, the inference and the insert are separate; a keyless *)
(* foreground estimate writes a row no job can ever name and is left out.  *)

EstimateStart(h, u, k) ==
    /\ handler[h] = None
    /\ u \in active
    /\ RowsFor(u, k) = {}
    /\ handler' = [handler EXCEPT ![h] =
           [pc |-> "estimate", user |-> u, key |-> k, slot |-> None,
            payload |-> None, job |-> None]]
    /\ UNCHANGED <<jobs, history, batches, active, worker, stuck, paused,
                   restarts, retries>>

(* On with the next item of POST /estimate-batch, for the same caller: he  *)
(* is authenticated once.  An item whose key has a row is replayed, and    *)
(* EstimateSave leaves the history as it is.                               *)
NextItem(h) == \E k \in Key : handler' = [handler EXCEPT ![h].key = k]

(* insert_estimate; idx_estimates_idem makes the loser of a race replay    *)
(* the winner's row.                                                       *)
EstimateSave(h) ==
    /\ handler[h] # None
    /\ handler[h].pc = "estimate"
    /\ IF RowsFor(handler[h].user, handler[h].key) # {}
       THEN UNCHANGED history
       ELSE \E r \in Row :
               /\ FreshRow(r)
               /\ history' = [history EXCEPT ![r] =
                      [user |-> handler[h].user, key |-> handler[h].key,
                       origin |-> None]]
    /\ Answer(h) \/ NextItem(h)
    /\ UNCHANGED <<jobs, batches, active, worker, stuck, paused, restarts,
                   retries>>

EstimateFail(h) ==
    /\ handler[h] # None
    /\ handler[h].pc = "estimate"
    /\ Answer(h) \/ NextItem(h)
    /\ UNCHANGED <<jobs, history, batches, active, worker, stuck, paused,
                   restarts, retries>>

-----------------------------------------------------------------------------
(* The owner deletes a history row, or the account. *)

DeleteRow(r) ==
    /\ history[r] # None
    /\ history[r].user \in active
    /\ history' = [history EXCEPT ![r] = None]
    /\ UNCHANGED <<jobs, batches, active, handler, worker, stuck, paused,
                   restarts, retries>>

(* delete_account marks the user and deletes estimates in one transaction; *)
(* the tables jobs and upload_batches are not touched, and neither is a    *)
(* request or a run already under way.                                     *)
DeleteAccount(u) ==
    /\ u \in active
    /\ active' = active \ {u}
    /\ history' = [r \in Row |-> IF history[r] # None /\ history[r].user = u
                                 THEN None
                                 ELSE history[r]]
    /\ UNCHANGED <<jobs, batches, handler, worker, stuck, paused, restarts,
                   retries>>

-----------------------------------------------------------------------------
(* The worker: process_one *)

(* claim_next_job takes the oldest due queued job. *)
Due(j) == Queued(j) /\ jobs[j].wait = 0

Claim(j) ==
    /\ worker.pc = "idle"
    /\ ~paused
    /\ Due(j)
    /\ \A i \in Job : Due(i) => jobs[i].age <= jobs[j].age
    /\ jobs' = [jobs EXCEPT ![j].status = "active", ![j].idle = 0]
    /\ worker' = [pc |-> "claimed", job |-> j, tries |-> jobs[j].attempts,
                  row |-> None]
    /\ UNCHANGED <<history, batches, active, handler, stuck, paused,
                   restarts, retries>>

WorkerGoto(pc) == worker' = [worker EXCEPT !.pc = pc]

(* A job whose owner is no longer active fails without running. *)
OwnerCheck ==
    /\ worker.pc = "claimed"
    /\ WorkerGoto(IF jobs[worker.job].user \in active
                  THEN "estimate"
                  ELSE "rejected")
    /\ UNCHANGED <<jobs, history, batches, active, handler, stuck, paused,
                   restarts, retries>>

(* The rows estimate_one would replay for the claimed job. *)
Stored == RowsFor(jobs[worker.job].user, jobs[worker.job].key)

(* A client error: a bad option, a deleted animal, a bad image. *)
EstimateReject ==
    /\ worker.pc = "estimate"
    /\ WorkerGoto("rejected")
    /\ UNCHANGED <<jobs, history, batches, active, handler, stuck, paused,
                   restarts, retries>>

EstimateReplay ==
    /\ worker.pc = "estimate"
    /\ \E r \in Stored : worker' = [worker EXCEPT !.pc = "success", !.row = r]
    /\ UNCHANGED <<jobs, history, batches, active, handler, stuck, paused,
                   restarts, retries>>

(* 502 lookup of the key failed, 429 quota, 503 paused or busy, 502        *)
(* provider failure.                                                       *)
EstimateTransient ==
    /\ worker.pc = "estimate"
    /\ WorkerGoto("transient")
    /\ UNCHANGED <<jobs, history, batches, active, handler, stuck, paused,
                   restarts, retries>>

EstimateInfer ==
    /\ worker.pc = "estimate"
    /\ Stored = {}
    /\ WorkerGoto("save")
    /\ UNCHANGED <<jobs, history, batches, active, handler, stuck, paused,
                   restarts, retries>>

(* Broken variant: the insert does not notice a row with the same key. *)
SaveRowAgain ==
    /\ worker.pc = "save"
    /\ jobs[worker.job].payload # "cut"
    /\ \E r \in Row :
          /\ FreshRow(r)
          /\ history' = [history EXCEPT ![r] =
                 [user   |-> jobs[worker.job].user,
                  key    |-> jobs[worker.job].key,
                  origin |-> worker.job]]
          /\ worker' = [worker EXCEPT !.pc = "success", !.row = r]
    /\ UNCHANGED <<jobs, batches, active, handler, stuck, paused, restarts,
                   retries>>

(* save_authenticated: the loser of a key race replays the winner's row. *)
SaveRow ==
    /\ worker.pc = "save"
    /\ jobs[worker.job].payload # "cut"
    /\ \/ /\ \E r \in Stored :
                worker' = [worker EXCEPT !.pc = "success", !.row = r]
          /\ UNCHANGED history
       \/ /\ Stored = {}
          /\ \E r \in Row :
                /\ FreshRow(r)
                /\ history' = [history EXCEPT ![r] =
                       [user   |-> jobs[worker.job].user,
                        key    |-> jobs[worker.job].key,
                        origin |-> worker.job]]
                /\ worker' = [worker EXCEPT !.pc = "success", !.row = r]
    /\ UNCHANGED <<jobs, batches, active, handler, stuck, paused, restarts,
                   retries>>

(* No row in the result, another failure of the insert, or of the lookup   *)
(* after it: the estimate is returned, unsaved.                            *)
SaveUnsaved ==
    /\ worker.pc = "save"
    /\ jobs[worker.job].payload # "cut"
    /\ WorkerGoto("success")
    /\ UNCHANGED <<jobs, history, batches, active, handler, stuck, paused,
                   restarts, retries>>

(* A "cut" payload has a prompt of more than 2000 bytes whose byte 2000 is *)
(* inside a character: slicing it panics and the thread is gone.           *)
SavePanic ==
    /\ worker.pc = "save"
    /\ jobs[worker.job].payload = "cut"
    /\ WorkerGoto("dead")
    /\ UNCHANGED <<jobs, history, batches, active, handler, stuck, paused,
                   restarts, retries>>

(* Broken variant: only a success clears the payload. *)
FinishJobKeepPayload(status, wait) ==
    LET done(q) ==
            [q EXCEPT !.status   = status,
                      !.attempts = q.attempts + 1,
                      !.wait     = wait,
                      !.idle     = 0,
                      !.payload  = IF status = "success" THEN None ELSE @,
                      !.row      = IF worker.row # None THEN worker.row
                                                        ELSE @]
    IN  /\ jobs' = [jobs EXCEPT ![worker.job] =
                        IF @ = None THEN None ELSE done(@)]
        /\ worker' = IdleWorker
        /\ UNCHANGED <<history, batches, active, handler, stuck, paused,
                       restarts, retries>>

(* finish_job updates by id alone: nothing in it looks at the status. *)
FinishJob(status, wait) ==
    LET done(q) ==
            [q EXCEPT !.status   = status,
                      !.attempts = q.attempts + 1,
                      !.wait     = wait,
                      !.idle     = 0,
                      !.payload  = IF status \in Terminal THEN None ELSE @,
                      !.row      = IF worker.row # None THEN worker.row
                                                        ELSE @]
    IN  /\ jobs' = [jobs EXCEPT ![worker.job] =
                        IF @ = None THEN None ELSE done(@)]
        /\ worker' = IdleWorker
        /\ UNCHANGED <<history, batches, active, handler, stuck, paused,
                       restarts, retries>>

FinishSuccess == worker.pc = "success" /\ FinishJob("success", 0)

(* Broken variant: <= for <. *)
FinishRetryOneMore ==
    /\ worker.pc = "transient"
    /\ worker.tries + 1 <= MaxAttempts
    /\ FinishJob("queued", Backoff[worker.tries])

FinishRetry ==
    /\ worker.pc = "transient"
    /\ worker.tries + 1 < MaxAttempts
    /\ FinishJob("queued", Backoff[worker.tries])

FinishFailed ==
    /\ \/ worker.pc = "rejected"
       \/ worker.pc = "transient" /\ worker.tries + 1 >= MaxAttempts
    /\ FinishJob("failed", 0)

(* The UPDATE fails (disk full, I/O error) and its error is dropped: the   *)
(* worker goes on to other jobs and this one stays active.                 *)
FinishLost ==
    /\ Faulty
    /\ worker.pc \in {"success", "transient", "rejected"}
    /\ stuck' = stuck \cup {worker.job}
    /\ worker' = IdleWorker
    /\ UNCHANGED <<jobs, history, batches, active, handler, paused,
                   restarts, retries>>

(* prune_jobs and expire_stale_queued. *)
Prunable(j) ==
    /\ jobs[j] # None
    /\ jobs[j].status \in Terminal
    /\ jobs[j].idle > Ttl

Stale(j) == Queued(j) /\ jobs[j].age > Expiry

Tidied(j) ==
    IF Prunable(j) THEN None
    ELSE IF Stale(j) THEN [jobs[j] EXCEPT !.status = "expired", !.idle = 0,
                                          !.payload = None]
    ELSE jobs[j]

(* Broken variant: no maintenance while paused. *)
MaintainUnpaused ==
    /\ worker.pc = "idle"
    /\ ~paused
    /\ \A j \in Job : ~Due(j)
    /\ jobs' = [j \in Job |-> Tidied(j)]
    /\ UNCHANGED <<history, batches, active, handler, worker, stuck,
                   paused, restarts, retries>>

(* run_maintenance, after process_one found nothing to do. *)
Maintain ==
    /\ worker.pc = "idle"
    /\ paused \/ \A j \in Job : ~Due(j)
    /\ jobs' = [j \in Job |-> Tidied(j)]
    /\ UNCHANGED <<history, batches, active, handler, worker, stuck,
                   paused, restarts, retries>>

-----------------------------------------------------------------------------
(* The operator, the process and the clock *)

SetPaused ==
    /\ paused' = ~paused
    /\ UNCHANGED <<jobs, history, batches, active, handler, worker, stuck,
                   restarts, retries>>

(* The process dies and boots: threads and the pause are gone, and         *)
(* requeue_active_jobs puts interrupted jobs back.                         *)
Restart ==
    /\ restarts < MaxRestarts
    /\ restarts' = restarts + 1
    /\ worker' = IdleWorker
    /\ stuck' = {}
    /\ handler' = [h \in Handler |-> None]
    /\ paused' = FALSE
    /\ jobs' = [j \in Job |->
          IF jobs[j] # None /\ jobs[j].status = "active"
          THEN [jobs[j] EXCEPT !.status = "queued", !.idle = 0]
          ELSE jobs[j]]
    /\ UNCHANGED <<history, batches, active, retries>>

Saturate(n, top) == IF n < top THEN n + 1 ELSE top

(* Past Expiry only the order of the created_at values matters, so their   *)
(* differences shrink to one.                                              *)
Older(j) ==
    IF jobs[j].age < Expiry
    THEN jobs[j].age + 1
    ELSE Expiry + 1 + Cardinality({a \in Expiry .. jobs[j].age - 1 :
                                      \E i \in Jobs : jobs[i].age = a})

(* updated_at is read of terminal rows only (prune_jobs), so only they     *)
(* count it.                                                               *)
Tick ==
    /\ jobs' = [j \in Job |->
          IF jobs[j] = None
          THEN None
          ELSE [jobs[j] EXCEPT
                   !.wait = IF @ = 0 THEN 0 ELSE @ - 1,
                   !.age  = Older(j),
                   !.idle = IF jobs[j].status \in Terminal
                            THEN Saturate(@, Ttl + 1)
                            ELSE @]]
    /\ UNCHANGED <<history, batches, active, handler, worker, stuck,
                   paused, restarts, retries>>

-----------------------------------------------------------------------------

Submitting(h) ==
    \/ \E u \in User, k \in Key \cup {None}, s \in Slot \cup {None},
          p \in Payload : SubmitCheck(h, u, k, s, p)
    \/ SubmitCount(h)
    \/ CreateJob(h)
    \/ InsertJob(h)
    \/ CreateBatchJob(h)

Retrying(h) ==
    \/ \E j \in Job, p \in Payload : RetryCheck(h, j, p)
    \/ RetryCount(h)
    \/ RetryUpdate(h)

Estimating(h) ==
    \/ \E u \in User, k \in Key : EstimateStart(h, u, k)
    \/ EstimateSave(h)
    \/ EstimateFail(h)

Caller ==
    \/ \E h \in Handler : Submitting(h) \/ Retrying(h) \/ Estimating(h)
    \/ \E u \in User, b \in Batch, n \in 1 .. MaxItems : CreateBatch(u, b, n)
    \/ \E j \in Job : CancelJob(j)
    \/ \E b \in Batch : CancelBatch(b)
    \/ \E r \in Row : DeleteRow(r)
    \/ \E u \in User : DeleteAccount(u)

(* One iteration of the worker's loop, or one step of the run it is in. *)
Working ==
    \/ \E j \in Job : Claim(j)
    \/ OwnerCheck
    \/ EstimateReject
    \/ EstimateReplay
    \/ EstimateTransient
    \/ EstimateInfer
    \/ SaveRow
    \/ SaveUnsaved
    \/ SavePanic
    \/ FinishSuccess
    \/ FinishRetry
    \/ FinishFailed
    \/ FinishLost
    \/ Maintain

Next == Caller \/ Working \/ SetPaused \/ Restart \/ Tick

Spec == Init /\ [][Next]_vars

(* The worker thread keeps running and time keeps passing; nothing is      *)
(* assumed of callers or of the operator.                                  *)
FairSpec == Spec /\ WF_vars(Working) /\ WF_vars(Tick)
-----------------------------------------------------------------------------
(* Safety *)

Active == {j \in Jobs : jobs[j].status = "active"}
Held   == IF worker.pc = "idle" THEN {} ELSE {worker.job}

(* The active jobs are exactly the one the worker is running and those a   *)
(* failed last UPDATE left behind: no caller, no expiry and no pruning     *)
(* takes a job from under the worker, whose own last UPDATE looks at no    *)
(* status (finish_job, db.rs 1735), and the worker never runs two.         *)
WorkerHoldsActive == Active = Held \cup stuck

(* A queued photo is erased as soon as its job reaches an outcome, on      *)
(* every path that can give it one, and not before: a job that may still   *)
(* run has its payload (web/README.md 96, docs/privacy.md 14).             *)
PayloadErased ==
    \A j \in Jobs : jobs[j].status \in Terminal <=> jobs[j].payload = None

(* However submissions, their replays, retries and pruning interleave, a   *)
(* caller's idempotency key and an item of a batch name one job.           *)
OneJobPerItem ==
    \A i, j \in Jobs : i # j =>
        /\ jobs[i].key # None => ~(/\ jobs[i].user = jobs[j].user
                                  /\ jobs[i].key = jobs[j].key)
        /\ jobs[i].slot # None => jobs[i].slot # jobs[j].slot

(* The history row a job reports is its own: it belongs to the job's user, *)
(* carries the job's key, and no other job reports it, whether the row was *)
(* written by the job's run, replayed, or written by a foreground request  *)
(* or an earlier job with the same key.                                    *)
ResultBelongsToJob ==
    \A j \in Jobs : jobs[j].row # None =>
        /\ jobs[j].status = "success"
        /\ history[jobs[j].row] # None =>
               /\ history[jobs[j].row].user = jobs[j].user
               /\ history[jobs[j].row].key = jobs[j].key
        /\ \A i \in Jobs : jobs[i].row = jobs[j].row => i = j

(* With a key, a result is in the history at most once, across crashes,    *)
(* retries, replays and foreground requests (jobs.rs 13-16).               *)
KeyedResultSavedOnce ==
    \A q, r \in Rows :
        /\ history[q].key # None
        /\ history[q].user = history[r].user
        /\ history[q].key = history[r].key
        => q = r

(* A failing job gives up after MAX_JOB_ATTEMPTS runs, whatever requests,  *)
(* backoff and the worker's remembered attempt count do in between.        *)
AttemptsBounded ==
    /\ \A j \in Jobs :
          /\ jobs[j].attempts <= MaxAttempts
          /\ jobs[j].status \in Open => jobs[j].attempts < MaxAttempts
    /\ worker.pc # "idle" => jobs[worker.job].attempts = worker.tries

(* The cap on open jobs is checked in one step and used in a later one, so *)
(* what holds is not the cap: each other connection thread may add a job   *)
(* to it.                                                                  *)
OpenBounded ==
    \A u \in User :
        Cardinality(OpenJobs(u)) <= MaxOpen + Cardinality(Handler) - 1

(* What the invariants above rest on.  A request that is about to write a  *)
(* job carries a payload, only a request for no batch item reaches the plain   *)
(* INSERT, and a retry names a job; the worker's job is none of the stuck. *)
RequestOK ==
    \A h \in Handler : handler[h] # None =>
        /\ handler[h].pc # "estimate" => handler[h].payload # None
        /\ handler[h].pc = "insert" => handler[h].slot = None
        /\ handler[h].pc \in {"recount", "retry"} => handler[h].job # None

WorkerOK == worker.pc # "idle" => worker.job \in Job \ stuck

(* The inductive invariant of the queue.                                   *)
QueueInvariant ==
    /\ TypeOK
    /\ RequestOK
    /\ WorkerOK
    /\ WorkerHoldsActive
    /\ PayloadErased
    /\ OneJobPerItem
    /\ AttemptsBounded

(* The queue implements the documented lifecycle.                          *)
StageOf(q) ==
    CASE q = None -> "absent"
      [] q # None /\ q.status = "queued"  -> "waiting"
      [] q # None /\ q.status = "active"  -> "running"
      [] q # None /\ q.status = "success" -> "done"
      [] OTHER -> "stopped"

Lifecycle == INSTANCE JobLifecycle WITH stage <- [j \in Job |-> StageOf(jobs[j])]

ImplementsLifecycle == Lifecycle!Spec

(* ... and keeps what an idempotency key promises: while a user's key has  *)
(* a row, no run, rerun, foreground request or restart saves another or    *)
(* puts one in its place.                                                  *)
Keyed == INSTANCE KeyedHistory WITH
            Name <- User \X Key,
            named <- [n \in User \X Key |-> RowsFor(n[1], n[2])]

ImplementsKeyedHistory == Keyed!Spec

-----------------------------------------------------------------------------
(* Liveness *)

IsOpen(j) == jobs[j] # None /\ jobs[j].status \in Open

(* Every job that is queued or running reaches an outcome, even if the     *)
(* operator pauses for good, callers keep submitting and every run fails:  *)
(* it runs, runs out of attempts, is cancelled or expires (jobs.rs 10-13). *)
EveryJobSettles == \A j \in Job : IsOpen(j) ~> ~IsOpen(j)

-----------------------------------------------------------------------------
(* What the documentation claims and the code does not do *)

(* "each completed result is saved exactly once" (jobs.rs 13-16): a job    *)
(* without an idempotency key is saved again by the rerun after a restart. *)
ResultSavedOnce ==
    \A q, r \in Rows :
        /\ history[q].origin # None
        /\ history[q].origin = history[r].origin
        => q = r

(* "deletes all owned rows immediately" (docs/privacy.md 80): queued jobs, *)
(* photos included, and batches stay, and a run under way still saves.     *)
DeletedAccountOwnsNothing ==
    /\ \A j \in Jobs : jobs[j].user \in active
    /\ \A r \in Rows : history[r].user \in active
    /\ \A b \in Batch : batches[b] # None => batches[b].user \in active

(* "Claim one due job and run it to a terminal (or requeued) state"        *)
(* (jobs.rs 73): a run that panics leaves its job active for good, and no  *)
(* other job runs.                                                         *)
ClaimedJobSettles ==
    \A j \in Job : (worker.job = j) ~> (worker.job # j)
=============================================================================
