# Verification of the AIF service

This directory holds TLA+ models of the AIF cattle-weight service (the Rust
backend under `src/web/backend`, and the upload logic of its web client), the
TLC configurations that check them on small instances, and theorems that TLAPS
proves for every instance.  All source paths below are relative to
`src/web/backend/src/` unless they start with `src/`.

## 1. The system

| Component | State it keeps | Operations | Talks to |
|---|---|---|---|
| Job queue (`jobs.rs`, `http/jobs.rs`, `http/upload_batches.rs`) | rows of `jobs` and `upload_batches`; the worker's current job | submit, replay, retry, cancel, cancel a batch, claim, finish, requeue, expire, prune | database, estimate pipeline, operator pause |
| Database (`db.rs`) | one SQLite connection behind a mutex; tables users, invites, sessions, recovery tokens, animals, estimates, photos, usage, jobs, batches, audit | every method is one lock, most are one statement, some one transaction | everybody |
| Estimate pipeline (`http/estimate.rs`, `cache.rs`, `limits.rs`) | result cache, inference gate, daily usage | validate, replay, charge the quota, take a gate slot, infer, save to history, retain the photo | database, provider, cache, photos |
| History and animals (`http/history.rs`, `http/animals.rs`) | rows of `estimates`, `animals` | list, edit, delete | database, photos |
| Accounts (`http/auth_api.rs`, `http/session.rs`, `auth.rs`, `http/account.rs`) | users, invites, sessions, recovery tokens, attempt limiters | login, logout, accept an invite, recover, change the password, delete the account | database, limiters, photos |
| Operator (`http/operator.rs`) | the pause flag | invite, revoke, pause, delete a user | database |
| Photo retention (`photos.rs`, `http/photos.rs`) | files under `data_dir/photos`, rows of `photos` | store, read, delete, sweep | database, file system |
| Connection server (`http/server.rs`) | count of open connections | accept, refuse, read a request, dispatch | all handlers |
| Provider client and estimation (`ollama/`, `parse/`, `validate/`, `tape.rs`, `fallback.rs`) | none | compute an estimate | the provider over HTTP |
| Web client (`src/web/app.js`, `src/web/account.js`) | selection, run in progress, idempotency keys, photos kept for a retry | estimate, retry, cancel, queue in the background, retry a batch item | HTTP API |
| iOS client (`src/ios`), deployment (`src/web/deploy`) | local store; backups | | HTTP API |

One thread per connection serves one request; one worker thread per process
drains the queue; the operator's pause is a flag in memory.  The threads share
nothing but the database handle, the cache, the gate and the counters.  A
handler usually calls several `Db` methods, each atomic by itself, so requests
and the worker interleave *between* these calls.  The command line is another
process on the same database.  The web page is one thread: anything can happen
in it where it awaits something, and nowhere else; what the server has been sent
goes on whether or not the page still waits.

What makes each part correct, and hard to test, is listed as `hazards` in
`PROJECT.json`, at the line where it bites.  In short:

- **Job queue.** A key or a batch item names one job; nothing takes a job from
  under the worker; a photo is erased exactly when its job has an outcome; a
  result is saved once per key across crashes, replays and racing foreground
  requests; attempts are bounded; every open job ends.
- **Batch status.** Derived from the rows that are left, whenever it is asked:
  *complete* means every item, and is not taken back by a late request.
- **Estimate pipeline.** Quota and gate accounting on every path; what the
  provider is asked is bounded by what was charged; the cache stays within its
  bound and drops nothing fresh for something expired.
- **Accounts.** Never more active accounts than the cap; an invite or a recovery
  token works once; revoking all sessions revokes all.
- **Photo retention.** A photo never outlives its history row; a file never
  goes before its row; the quota holds up to the number of concurrent stores;
  whatever is interrupted, every file is removed in the end.
- **Connection server.** Every claimed slot is released; the cap bounds the
  threads; every answer is counted once.
- **Web client.** A photo is saved once however often it is sent; every photo of
  a run is accounted for once; a run ends whatever the server does; the
  selection and the photos kept for a retry agree with what the server accepted.

## 2. Modules

| Module | What it is |
|---|---|
| `JobLifecycle` | the abstract specification: what a job may go through |
| `JobQueue` | the queue as the code implements it, its properties, and the broken variants used to test the properties |
| `MCJobQueue` | constants and symmetry for TLC |
| `KeyedHistory` | the abstract specification of an idempotency key |
| `JobQueueProofs` | theorems about `JobQueue`: its inductive invariant, its two refinements, history rows and the cap on open jobs |
| `PhotoRetention` | files and rows of retained photos, its properties and broken variants |
| `MCPhotoRetention` | symmetry for TLC |
| `PhotoRetentionProofs` | theorems about `PhotoRetention` |
| `BatchStatus` | on top of `JobQueue`: what the web client is told of an upload batch |
| `MCBatchStatus`, `BatchStatusProofs` | the queue's instances with it, and its theorems |
| `Accounts` | users, invites, sessions, recovery; handlers, command line, bootstrap |
| `MCAccounts`, `AccountsProofs` | its instances and theorems |
| `AdmissionCap` | the abstract specification of a server with a cap on connections |
| `ConnectionSlots` | the accept loop, the connection threads and the counter they share |
| `MCConnectionSlots`, `ConnectionSlotsProofs` | its instances; its theorems and the refinement of `AdmissionCap` |
| `EstimatePipeline` | pause, quota, inference gate, result cache, provider calls |
| `MCEstimatePipeline`, `EstimatePipelineProofs` | its instances and theorems |
| `WebUpload` | the page's foreground uploads against a server that answers late, twice or never |
| `MCWebUpload`, `WebUploadProofs` | its instances and theorems |
| `WebQueue` | the page's background uploads and the retry of a batch item |
| `MCWebQueue`, `WebQueueProofs` | its instances and theorems |

The queue and the photos share the tables `estimates` and `users` and are
modelled apart: the queue uses of a history row only its key, the photos only
its owner, and a run of a job is, for the photos, one more thread that
estimates.  `EstimatePipeline` is the part of an estimate between the replay
lookup and the save, which `JobQueue` has as its one action `EstimateInfer`.
The web modules have the server only as far as the page can see it: its races
are the subject of the others.

### 2.1 State of `JobQueue`

| Variable | Code |
|---|---|
| `jobs` | table `jobs` (`db.rs` 144-161, 172-176), one record per row or `None` |
| `history` | table `estimates`; only owner, key, and, as a history variable, the job that wrote the row |
| `batches` | table `upload_batches` |
| `active` | users whose `status` is `'active'` |
| `handler` | for each connection thread, the request it is in the middle of and the values it has read |
| `worker` | the local variables of `process_one` |
| `paused` | `ServerState`'s pause flag |
| `stuck` | history variable: jobs whose last update failed and was dropped |
| `restarts`, `retries` | bounds on exploration only |

Time is kept in the rows, as ages: `wait` is how long until `run_after`, `age`
how long since `created_at`, `idle` how long since `updated_at`.  `Tick` lets a
unit pass.  A comparison such as `created_at < now - 24 h` becomes
`age > Expiry`.  Ages are compressed above the largest limit they are compared
with; for `age`, which also orders the queue, the compression keeps the order
(`Older`).  So the state space is finite without a clock that runs out.

Ids come from `new_id`, 16 random bytes, and are taken to be unique: a model id
is given out again only when no row, request or history row names it.

### 2.2 Actions of `JobQueue`

Each database call is one step.  A handler that makes several calls is several
actions, and its `pc` says which call comes next.

| Actions | Code |
|---|---|
| `CreateBatch` | `http/upload_batches.rs` `handle_create` |
| `SubmitCheck`, `SubmitCount`, then `CreateJob`, `InsertJob` or `CreateBatchJob` | `http/jobs.rs` `handle_create`: key lookup, cap check, and `create_job` (a lookup and an insert, two locks) or `create_batch_job` (one transaction) |
| `RetryCheck`, `RetryCount`, `RetryUpdate` | `http/upload_batches.rs` `handle_retry` |
| `CancelJob`, `CancelBatch` | the two `handle_cancel` |
| `EstimateStart`, `EstimateSave`, `EstimateFail` | a foreground `/estimate-weight` with a key: replay lookup, insert, or any error; and `POST /estimate-batch`, which goes on with its next item (`NextItem`) for the caller it authenticated once |
| `DeleteRow`, `DeleteAccount` | `http/history.rs` `handle_delete`, `Db::delete_account` |
| `Claim`, `OwnerCheck` | `Db::claim_next_job`, `process_one` 84-132 |
| `EstimateReject`, `EstimateReplay`, `EstimateTransient`, `EstimateInfer` | the outcomes of `estimate_one` up to the provider's answer |
| `SaveRow`, `SaveUnsaved`, `SavePanic` | `save_authenticated` |
| `FinishSuccess`, `FinishRetry`, `FinishFailed`, `FinishLost` | the calls of `finish_job`; the last one is its dropped error |
| `Maintain` | `run_maintenance` |
| `SetPaused`, `Restart`, `Tick` | operator, crash and boot, time |

Abstractions, and why they lose nothing the properties look at:

- A caller's authentication and the update it allows are one step when the
  update is guarded in SQL by everything it relies on (cancelling, deleting a
  row).  Submitting, retrying and foreground estimates keep every call apart.
- `estimate_one` is reduced to its outcomes.  Which outcome it has is left
  open, except that a row stored under the job's key keeps it from inferring and
  saving: that row is replayed, or the lookup fails, and the job with it.
- A failing database call is modelled where it changes the outcome: the last
  update of a job (`Faulty`).  In handlers it answers 502 and changes nothing.
- A request body is `"photo"`, or `"cut"`: one whose prompt is longer than 2000
  bytes with byte 2000 inside a character.
- A keyless foreground estimate writes a row that no job can name; it is left
  out.
- A second server process on the same data directory is not modelled: its boot
  would requeue the first one's active job.

### 2.3 The abstract specifications

`JobLifecycle` knows only the stage of a job: absent, waiting, running, done or
stopped.  `JobQueue` implements it under the mapping `StageOf`: no row is
absent, `queued` is waiting, `active` is running, `success` is done, and
`failed`, `cancelled`, `expired` are stopped.  What this says beyond the
invariants is about steps: a job gets an outcome only from a run or while
waiting, a done job is never reopened, only a finished job disappears, and a
restart puts back all running jobs at once.

`KeyedHistory` knows only which rows are saved under a name: a row is saved
while there is none, and rows are forgotten.  `JobQueue` implements it with a
user's key for a name and `RowsFor`, the lookup of the handlers, for its rows.
Beyond `KeyedResultSavedOnce` this says that no step puts one row in the place
of another, so whoever repeats a key gets the row it got before.  The server
that `WebUpload` has for its page implements it too (`RowsOf`), which ties the
two models of that server together: what the page relies on is what the queue
keeps.

### 2.4 `PhotoRetention`

| Variable | Code |
|---|---|
| `estimates` | table `estimates`: the owner of each row |
| `rows` | table `photos`; `left` is what remains until `expires_at` |
| `files`, `temps` | `photos/<id>` and `photos/<id>.tmp-<pid>` |
| `active` | users whose `status` is `'active'` |
| `thread` | the request a connection thread, or the run the worker, is in the middle of |
| `sweep` | the local variables of `sweep_photos` |
| `serving` | whether the boot sweep is over |
| `restarts` | bound on exploration only |

| Actions | Code |
|---|---|
| `BeginEstimate` | `handle_estimate_batch` authenticates a request of 1 to `MaxItems` estimates (`MAX_BATCH_ITEMS`, 20); `handle_estimate` and a run of a job are one of a single item |
| `SaveEstimate`, `EstimateFails` | `save_authenticated` inserts the row, or the item has no row of its own |
| `NextItem` | with the last step of an item: on with the next one, for the caller of the first |
| `CheckQuota`, `WriteTemp`, `RenameTemp`, `InsertRow` | `photos.rs` `store_photo`, call by call, with its failures |
| `DeletePhoto` | `http/photos.rs` `handle_delete` |
| `DeleteHistory`, `ForgetEstimate` | `http/history.rs` `handle_delete`: list the photos, delete the row (the foreign key cascades) |
| `DeleteAccount`, `CloseAccount` | `http/account.rs` `handle_delete`: list at most 500 photos, delete them, then `Db::delete_account` |
| `DropRow`, `UnlinkFile`, `DeleteDone` | `photos.rs` `delete_photo`, for one photo after the other |
| `RemoveUser` | the operator's and the command line's deletion, which remove no file |
| `SweepBegin` ... `SweepDone` | `sweep_photos`: expired rows and their files, orphan files, missing files |
| `Restart`, `Tick` | crash and boot; time |

A call of `Db` and an operation on a file are one step each.  Abstractions:

- `list_photos` returns the newest photos first; which photos are beyond the
  limit is left open.
- A photo's size is a number of units that is chosen at the quota check; the
  sum of a user's sizes is the number of `Units`.
- `remove_file` is taken to succeed, and the sweep's own database calls too.  A
  failing one makes the sweep skip a file that the next sweep tries again; what
  is said about the sweep assumes that this does not go on for ever.
- A photo id is given out again only when no file, row or thread names it.
- Reading a file back changes nothing.

### 2.5 `BatchStatus`

It EXTENDS `JobQueue` and adds no variable and no action: `batch_json`
(`http/upload_batches.rs` 12-56) computes the status from one query on `jobs`.
`BatchState` is that computation (`processing`, `pending`, `partial`,
`complete`), and the properties say what a caller may conclude from it at any
moment between any two steps of the queue.

### 2.6 `Accounts`

| Variable | Code |
|---|---|
| `users`, `invites`, `sessions`, `recoveries` | the tables; a revoked or expired session and a token a day old are not kept, as no code revives one |
| `request` | for each connection thread and each command, the operation it is in the middle of and what it has read |
| `cut` | history variable: the password in force when all sessions were last revoked for a new one |

| Actions | Code |
|---|---|
| `Login`, `OpenSession` | `http/auth_api.rs` `handle_login`, `start_session` |
| `AcceptLookup`, `CreateUser`, `RefuseUser`, `MarkInviteUsed`, `OpenSession` | `handle_accept_invite`: four calls |
| `RecoveryLookup`, `CountRecoveries`, `MintRecovery` | the recovery request of the web (`handle_recovery_request`) and of the command line (`create_recovery`, `cli.rs`) |
| `CompleteLookup`, `ConsumeRecovery` | `handle_recovery_complete`: lookup, then the transaction `consume_recovery` |
| `CheckSession`, `LoadUser`, `Answer`, `Logout` | `http/session.rs`: the two calls by which every request is authenticated |
| `VerifyCurrent`, `SetPassword`, `RevokeAll` | `handle_change_password` |
| `DeleteSelf`, `DeleteAccount` | `http/account.rs` `handle_delete` and `Db::delete_account` |
| `OperatorInvite`, `OperatorRevoke`, `OperatorDelete` | `http/operator.rs` |
| `CliInvite`, `CliRevoke`, `CliDelete`, `Bootstrap` | `cli.rs` |
| `ExpireInvite`, `ExpireSession`, `AgeRecovery` | time |
| `Fail`, `Restart` | a database error ends a request; a crash ends all of them |

A password is the number of times it was written, so a login is the *right*
password of some moment: a wrong one changes nothing.  Hashing is a match or a
mismatch.  The attempt limiters are left out: they only refuse more.

### 2.7 `ConnectionSlots` and `AdmissionCap`

| Variable | Code |
|---|---|
| `active` | `ServerMetrics.active_connections` |
| `accepting`, `seen` | the accept loop's connection, and what its `fetch_add` returned |
| `stage` | how far each connection is |
| `counted` | history variable: how often it was added to `total_requests` |
| `lost` | history variable: slots of threads that ended without a guard |

`Accept`, `Spawn`, `GiveBack`, `Refuse` are the loop (`http/server.rs`), the two
atomic steps of `acquire_slot` apart.  `TimeoutFails`, `Adopt`, `ReadNothing`,
`ReadHead`, `RejectRequest`, `ReadBody`, `Dispatch`, `Reply`, `Release` are a
connection's thread with each early return.  Dispatching is one step: what a
handler does is in the other modules.

`AdmissionCap` knows only who is in, who was turned away, and slots lost for
good: a connection is let in when there is room and turned away when there is
none.  `ConnectionSlots` implements it although the loop decides on a count that
others change before it acts: the mapping takes a connection for turned away
from the moment its own `fetch_add` saw a full house (`Doomed`).

### 2.8 `EstimatePipeline`

| Variable | Code |
|---|---|
| `usage` | table `usage_counters`, per user and day |
| `today`, `paused` | the UTC day; the operator's pause |
| `gate` | `InferenceGate.active` |
| `cache` | `cache.rs`: for each key, the time its entry has left |
| `request` | the estimate each connection thread, or the worker, is in |
| `posts`, `reposts`, `failures` | history variables: provider calls, failed reads of the counter |

`Begin`, `CheckUsage` (or `CheckFails`, which counts as zero), `Charge` (or
`ChargeFails`), then `Offline` or `Acquire` (or `Busy`); with the gate held
`RefuseImage`, `Lookup`, `Post`, `Repost`, `Put`, and `Release` on every path
out.  The check and the charge ask for the day separately (`http/estimate.rs`
573 and 587).  `NewDay` and `Tick` let time pass, `SetPaused` is the operator,
and `Restart` forgets gate and cache.

### 2.9 `WebUpload`

| Variable | Code (`src/web/app.js`) |
|---|---|
| `form` | the fields that become part of a request, as they stand |
| `keys` | `requestKeys` |
| `run` | the locals of `runEstimates` or `retryOne`, while `busy` |
| `cancelRequested` | the flag |
| `picked`, `entries`, `label`, `report` | the last run's photos, its `batchEntries`, and its final line |
| `server`, `rows` | items the server works on, and the user's history rows |

One step is what the page does between two awaits.  `Estimate`, `Retry`,
`Cancel`, `EditForm` are the user; `ReadPhoto`, `ReadFails`, `SendChunk`,
`SendSingle`, `WaitOver`, `EndRun` the loop; `Answered`, `BusyAnswer`,
`TooLarge`, `GivesUp` what an await may bring; `Begin`, `Complete`, `NoResult`
the server, an item at a time.  A request the page gives up goes on at the
server, or never reached it (`Abandon`).

### 2.10 `WebQueue`

`selection` and `form` are the input's files and the other fields;
`queuedBatchIds`, `pending` and `message` the maps of the same name
(`pendingBatchItems`) and the status line; `clicks`
holds the locals of each `runBackground` call under way, of which there may be
several because the page is not busy during one.  The user may edit selection
and form at any time (`AddPhoto`, `RemovePhoto`, `EditForm`).  A photo's profile
is read when the button is pressed (`Press`), its animal and whether it is kept
after the first await (`Count`), and its idempotency key (`KeyOf`,
`stableRequestKey`) is of the photo and of all of them.  So one photo can be
accepted again in another run, after the form has changed: the page finds an
earlier batch by the list of keys (`KeysOf`), and the server, whose index is
`keys`, refuses by key.  `Count`, `CreateBatch`,
`Created`, `Read`, `Accept` or `Refuse`, `Accepted`, `Refused` follow the awaits
of `runBackground`; `GivesUp` is any of them failing, after the server did its
part or before; `RetryItem` and `View` are `retryBatchItem` and the batch view
that lets go of estimated items; `Work` is the server's worker.  No gateway
answers for the server: one that reports an error for what the server accepted
is outside the model.  `wanted` is a history variable: the selection the user
put together, without what was reported as queued since, or `None` from when the
user changes selection or form during a run until the page has been at rest.

## 3. What TLC checks

The backoff of the queue is the code's formula with a tick of one minute.
`Expiry = 0` and `Ttl = 0` mean that one tick is enough to expire or prune; the
limits are only ever compared with ages, so what matters is that a row can be on
either side of each, and that backoff can end before, at and after expiry.

| Run | Instance | Checks |
|---|---|---|
| `JobQueueRequests` | 3 jobs, 2 threads, 1 key, cap 1, 1 restart | `OneJobPerItem`, `OpenBounded` |
| `JobQueueRecovery` | 2 jobs, 2 history rows, 1 thread, 1 key, a batch of 1, 2 attempts, failing updates, 1 restart, 1 retry | the inductive invariant with its parts, `ResultBelongsToJob`, `KeyedResultSavedOnce`, `ImplementsLifecycle` and `ImplementsKeyedHistory` |
| `JobQueueLiveness` | 2 jobs, 1 thread, cap 2, a batch of 2, 2 attempts, 1 retry, `FairSpec` | `EveryJobSettles`, and of the batch `CompleteMeansEveryItem` and `CompleteUndoneByPruning` |
| `JobQueuePanic` | 1 job with a `"cut"` prompt, `FairSpec` | refutes `ClaimedJobSettles` |
| `PhotoSafety` | 2 users, 2 threads, requests of up to 2 estimates, 2 history rows, 3 photos of 1 or 2 units, quota 1, 1 restart, a list limit of 1 | `PhotoHasHistory`, the inductive invariant, `QuotaBounded`, `LeftBehindBounded`, `RowGoesFirst` |
| `PhotoExpiry` | 1 user, 2 threads, requests of up to 2 estimates, 2 photos, 1 restart, `FairSpec` | `PhotosExpire` |
| `AccountsInvites` | 2 users, 2 addresses, 2 invites, 2 threads, 1 command, cap 1 | `ActiveCapped`, `InviteOneAccount` |
| `AccountsSessions` | 1 user, 2 sessions, 2 recovery tokens, 2 threads, 1 command, 2 password writes, limit 1 | `StaleSessionsBounded`, `RecoveriesBounded`, `RecoveryUsesBounded` |
| `Connections` | 4 connections, cap 2, `FairSpec` | `CounterExact`, `HandledBounded`, `AnsweredCounted`, `ImplementsCap`, `EveryConnectionEnds` |
| `Estimates` | 2 threads, 1 user, limit 1, gate 1, 2 days, 1 failed read, 3 keys, cache of 2 with lifetime 1 | `GateExact`, `UsageBounded`, `SpendingBounded`, `CacheBounded`, `ExpiredFirst` |
| `ForegroundUploads` | 3 photos, one turned down, 2 ways to fill in the form, 2 keys, chunks of 2, `FairSpec` | `AccountedOnce`, `SavedOnce`, `RunEnds` |
| `BackgroundUploads` | 3 photos, one too large, 2 links the form may give them, 2 batches, 2 presses at once, room for 2 | `RetryAvailable`, `SelectionKept`, `ReportHonest` |

The inductive invariants of the queue and of the photos contain their type
invariants.  Those of the other modules are proved, and not checked by a run.

Why these bounds are enough to be interesting: two jobs are what a key or a
slot collision and an order in the queue need, and two rows are what a
duplicate needs; two threads and three jobs overrun a cap of one; two attempts
make both a backoff and a final failure happen; one restart and one retry let
either fall between any two steps of a run.  A batch of two can be complete by
count without being complete by item.  `JobQueueLiveness` has no restart: the
others have one, and `WorkerHoldsActive`, which is proved, says that a restart
leaves no active job behind.  Symmetry is used for safety only, over jobs, rows
and threads, which the specification never tells apart.

For photos, two threads are what every race here needs (a store and a deletion,
two stores), the sweep being a third actor; two photos of one user are more
than a list limit of one, which stands for 500, and can be of two owners.  With
a quota of one unit a photo of two is refused, so two photos of two units, four
in all, are what a wrong check would let in and the bound of three forbids.  A
lifetime of one tick puts a row before, at and after its expiry.

In the other modules the bounds follow the same rule.  Two threads are what a
check in one call and its use in the next need; a command is one more actor that
no lock of the server orders.  A cap of one account with two addresses, a limit
of one recovery token with three processes that count, four connections on two
slots, three cache keys on two entries: each limit can be reached, and would be
overrun visibly.  `RecoveriesBounded` and `RecoveryUsesBounded` count those that
are about to act with those that did, so two tokens and two password writes tell
a right count from a wrong one.  Two days and one failed read let both fall
between a check and its charge.  Three photos and chunks of two make a full and
a partial chunk next to a photo that is turned down, and two forms are what a
wrong key needs.  Two keys bound the pairs of a photo and a form that are sent:
a third pair is explored only as a photo that cannot be read.  In `WebQueue` two
presses are two calls at once, and two links let the second one submit the same
photos under other keys.  Two action constraints bound `BackgroundUploads`: the
button is not pressed once the batches are used up (`PressWithBatch`), and the
user leaves the selection alone during a run, though not the form
(`SelectionLeft`).  The theorems of `WebQueueProofs` need neither.

`OpenBounded`, `QuotaBounded`, `LeftBehindBounded`, `UsageBounded`,
`StaleSessionsBounded`, `RecoveriesBounded` and `RecoveryUsesBounded` are of one kind.  Each states what
the code keeps rather than the limit itself: something is checked in one call
and relied on in a later one, so each other thread may go one beyond it.

### Fairness

`FairSpec` assumes weak fairness of `Working`, the loop of the worker thread,
and of `Tick`.  The worker is a thread in an endless loop (`jobs.rs` 45-58) and
blocks on nothing but bounded calls (the database's busy timeout, the
provider's HTTP timeout); time passes.  Nothing is assumed of callers, who need
not finish a request, or of the operator, who may pause for good.  The
assumption does not cover a panic or a failing last update: the first is the
subject of `JobQueuePanic`, the second is recovered only by a restart, which
nothing forces.  Starvation of a job by an endless stream of *older* ones is
impossible; an endless stream of any jobs keeps maintenance from running, which
a finite instance cannot show because its job ids run out.

For `PhotosExpire` the fairness is weak fairness of `Sweep` and of `Tick`.
Boot sweeps, and the worker sweeps after every so many idle polls (`jobs.rs`
53-56), so this assumes that the worker is alive and the queue idle often
enough.  Nothing is assumed of the threads that store and delete: each may stop
for good between any two calls.

`EveryConnectionEnds` assumes that the kernel hands connections over in the
order of their arrival, which is strong fairness of `Accept` for a connection
that waits, and weak fairness of the loop's other steps and of every thread.  A
thread's reads and writes end by the 30 s socket timeouts and the limits on head
and body; its handler makes bounded calls.

`RunEnds` assumes weak fairness of `Page` only: reading a file ends, the wait is
a timer, and every request has a time limit (90 s, and for a batch ten minutes
at most).  Nothing is assumed of the server, nor of the user, who may cancel or
not.  `WebQueue` has no liveness property, because the requests of
`runBackground` have no time limit and may never be answered.

### Where code and documentation disagree

`JobQueuePanic` is a run of its own.  The other promises are written down at the
end of their modules, under "what the repository says, and the code does not
keep".  Each is refuted on the instance of the run named with it: with the
property in place of the run's own, TLC shows the steps.

- **Exactly-once saves** (`ResultSavedOnce`, `JobQueueRecovery`).  `jobs.rs` 13-16 promises that
  each completed result is saved exactly once.  The promise rests on the
  idempotency key, and the key is optional.  What does hold, with a key, is
  `KeyedResultSavedOnce`.
- **Account deletion** (`DeletedAccountOwnsNothing`, `JobQueueRecovery`).  `src/web/docs/privacy.md` 80-82
  promises that all owned rows are deleted immediately; `delete_account` does
  not touch `jobs` and `upload_batches`.
- **A run always ends** (`JobQueuePanic`).  `jobs.rs` 73 says that a claimed job
  is run to a terminal or requeued state; truncating a stored prompt inside a
  character panics and ends the worker thread.
- **A listed photo has a file** (`ListedHasFile`, `PhotoSafety`).  `photos.rs` 232 says that rows
  without files are pruned so that listings never 404.  A sweep that looks
  between the rename and the insert of `store_photo` removes the file of a row
  that is then inserted, and listed until the next sweep.
- **Orphans are cleaned** (`TempsSwept`, `PhotoExpiry`).  `photos.rs` 15 and
  `src/web/docs/privacy.md` 38-39 say that orphans are swept; the sweep looks
  only at names that are photo ids, and a temporary file's is not.
- **An account's photos** (`ClosedAccountHasNoPhotos`, `PhotoSafety`).  `src/web/docs/privacy.md` 40-41 says
  that deleting an account deletes all of its photos; an estimate under way
  saves its history row and its photo afterwards, and a batch, authenticated
  once, those of all its remaining items.  What holds is `LeftBehindBounded`: for
  each thread the rows and photos of one request, `MAX_BATCH_ITEMS` of each at
  most, counting those still to come.
- **Deleting an account and its sessions** (`NoSessionSurvivesDeletion`, `AccountsSessions`).  `db.rs` 507-508
  wants no session to survive a deletion; a login that had verified the password
  opens one afterwards.
- **Changing the password** (`NewPasswordEndsSessions`, `AccountsSessions`).  The change "revokes all
  sessions" (`http/auth_api.rs` 577-578), but a login with the old password that
  was under way keeps the session it then opens.
- **Single use of a recovery token** (`RecoverySingleUse`, `AccountsSessions`).  Two completions that
  both looked the token up both set a password: `consume_recovery` does not look
  at the number of rows it marked.  What holds is `RecoveryUsesBounded`.
- **Three recovery requests a day** (`RecoveriesLimited`, `AccountsSessions`).  Counting and inserting
  are two calls; what holds is `RecoveriesBounded`.
- **Revoked invites** (`RevokedNotRedeemed`, `AccountsInvites`).  An invite revoked between the check
  and the creation of the user still makes an account.
- **Recovery with the operator's help** (`RefusedOnlyWithLink`, `AccountsSessions`).  Requests on the web,
  whose token nobody gets, use up the limit the operator's own link needs.
- **The bootstrap invite** (`BootstrapRedeemable`, `AccountsInvites`).  With the only account deleted
  it is minted for an address that is taken for good.
- **Early returns free the slot** (`SlotsFreed`, `Connections`).  Two socket calls can fail
  before the guard exists.
- **The daily limit** (`DailyLimitKept`, `Estimates`).  Check and charge are two calls; what
  holds is `UsageBounded`.
- **What is charged** (`ChargedIsProviderBound`, `Estimates`).  `http/estimate.rs` 570 speaks of
  provider-bound estimates; one that the gate turns away, or that no provider
  computes, is charged too.
- **"Did not reach the server"** (`AllReachedTheServer`, `JobQueueLiveness`).  `src/web/account.js` 1065 says
  so of a batch whose finished jobs were pruned.
- **Cancel** (`CancelStops`, `ForegroundUploads`).  `src/web/app.js` 1230 says that the loop checks
  the flag; during the wait after a busy answer nothing does, and the photos are
  sent once more.
- **Inference twice** (`InferredOnce`, `ForegroundUploads`).  `src/web/app.js` 477-478 says that a
  retry does not spend inference twice; it does while the first request is
  still being served.  The saved row is single (`SavedOnce`).
- **"Try again"** (`TryAgainWorks`, `BackgroundUploads`).  After a run that queued nothing the page
  remembers the empty batch for that selection and submits nothing any more.
- **A photo added during a run** (`AddedStays`, `BackgroundUploads` without
  `SelectionLeft`).  The page says that it was
  added (`src/web/app.js` 1788); the end of the run overwrites the selection.

What the page makes of a selection or a form changed during a run is no broken
promise, but worth knowing: the end of each run sets the selection from the
files this run began with (`src/web/app.js` 1701).  Two runs with different
fields can each have some of their photos accepted, and the later end brings
back photos the earlier one reported as queued.  `SelectionKept` is therefore
about a user who leaves both alone during runs (`wanted # None`).

## 4. What is proved

For every finite set of jobs, photos, threads, connections and cache keys, every
set of users, invites, tokens, rows, batches and forms, and every limit:

| Module | Theorem | States |
|---|---|---|
| `JobQueueProofs` | `QueueInvariantHolds` | `Spec => []QueueInvariant` |
| | `TypeCorrect` | `Spec => []TypeOK` |
| | `WorkerHoldsActiveHolds` | `Spec => []WorkerHoldsActive` |
| | `PayloadErasedHolds` | `Spec => []PayloadErased` |
| | `OneJobPerItemHolds` | `Spec => []OneJobPerItem` |
| | `AttemptsBoundedHolds` | `Spec => []AttemptsBounded` |
| | `LifecycleImplemented` | `Spec => ImplementsLifecycle` |
| | `KeyedResultSavedOnceHolds` | `Spec => []KeyedResultSavedOnce` |
| | `KeyedHistoryImplemented` | `Spec => ImplementsKeyedHistory` |
| | `ResultBelongsToJobHolds` | `Spec => []ResultBelongsToJob` |
| | `OpenBoundedHolds` | `Spec => []OpenBounded` |
| `PhotoRetentionProofs` | `RetentionInvariantHolds` | `Spec => []RetentionInvariant` |
| | `PhotoTypeCorrect` | `Spec => []TypeOK` |
| | `PhotoHasHistoryHolds` | `Spec => []PhotoHasHistory` |
| | `RowGoesFirstHolds` | `Spec => RowGoesFirst` |
| | `QuotaBoundedHolds` | `Spec => []QuotaBounded` |
| | `LeftBehindBoundedHolds` | `Spec => []LeftBehindBounded` |
| `BatchStatusProofs` | `CompleteMeansEveryItemHolds` | `Spec => []CompleteMeansEveryItem` |
| | `CompleteUndoneByPruningHolds` | `Spec => CompleteUndoneByPruning` |
| `AccountsProofs` | `TypeCorrect` | `Spec => []TypeOK` |
| | `InviteSingleUse` | `Spec => []InviteOneAccount` |
| | `CapHolds` | `Spec => []ActiveCapped` |
| | `StaleSessionsHold` | `Spec => []StaleSessionsBounded` |
| | `RecoveriesHold` | `Spec => []RecoveriesBounded` |
| | `UsesHold` | `Spec => []RecoveryUsesBounded` |
| `ConnectionSlotsProofs` | `TypeCorrect` | `Spec => []TypeOK` |
| | `CounterHolds` | `Spec => []CounterExact` |
| | `HandledHolds` | `Spec => []HandledBounded` |
| | `AnsweredHolds` | `Spec => []AnsweredCounted` |
| | `CapImplemented` | `Spec => ImplementsCap` |
| `EstimatePipelineProofs` | `TypeCorrect` | `Spec => []TypeOK` |
| | `GateHolds` | `Spec => []GateExact` |
| | `UsageHolds` | `Spec => []UsageBounded` |
| | `SpendingHolds` | `Spec => []SpendingBounded` |
| | `CacheHolds` | `Spec => []CacheBounded` |
| | `ExpiredFirstHolds` | `Spec => ExpiredFirst` |
| `WebUploadProofs` | `TypeCorrect` | `Spec => []TypeOK` |
| | `SavedOnceHolds` | `Spec => []SavedOnce` |
| | `KeyedHistoryImplemented` | `Spec => ImplementsKeyedHistory` |
| | `AccountedOnceHolds` | `Spec => []AccountedOnce` |
| `WebQueueProofs` | `TypeCorrect` | `Spec => []TypeOK` |
| | `RetryAvailableHolds` | `Spec => []RetryAvailable` |
| | `ReportHonestHolds` | `Spec => []ReportHonest` |
| | `SelectionKeptHolds` | `Spec => []SelectionKept` |

The assumptions are the named ones of each module: types of the constants,
finite sets where something is counted, at least one thread, and that `None` is
none of the values it stands in for.

**The argument.**  The inductive invariant is `QueueInvariant`.  Its parts need
each other: that `finish_job`, which updates by id alone, writes to an active
row needs `WorkerHoldsActive`; that needs `WorkerOK`, for otherwise the job the
worker holds might be one of the stuck ones; that a new or reopened row has a
payload needs `RequestOK`, which remembers what a request was checked for; that
`attempts` stays below the bound needs the worker's remembered count to be the
stored one, which holds because nobody else touches an active row.

The proof does not go through the actions once per conjunct.  It first shows
(`CallerRows`, `WorkingRows`, `RestRows`) that every action does one of a few
things to the rows: leaves them, adds one, stops waiting ones, reopens one,
claims one, finishes or requeues the worker's one, prunes finished ones, or
only lets time pass.  Each conjunct, and the step simulation of the lifecycle,
is then proved from these kinds of change.

**Results.**  `KeyedResultSavedOnce` and the refinement of `KeyedHistory` need no
more than that every insert into `history` looks the key up in the same call:
each step either shrinks the history or adds one row whose key has none
(`HistoryStep`).  `ResultBelongsToJob` needs to know
what the worker remembers between the save and the last update (`WorkerRowOK`):
the row it saved is its job's owner's, carries its key, and is reported by no
job.  That last part, for a row found by replay, rests on `OneJobPerItem`: a
second job reporting it would have the same user and key.  For `OpenBounded` the
invariant counts, with the jobs that are open, the requests that have passed the
cap and have not yet inserted (`Admitted`): a check that passes leaves room for
one request of every other thread, and an insert turns one into the other.

**Photos.**  The parts of `RetentionInvariant` need each other: a photo's owner
and history row are right when its row is inserted because `ThreadOK` remembers
whose row the thread saved; a row is not there when its file is removed
(`ThreadOK`, `SweptRowsGone`) because nobody else can insert it in between; and
that is `StoredApart`, that a photo being stored is named by no other thread and
no expiry.  As for the queue, the proof first shows what every action does: a
thread takes on only photos that are its own, listed or new (`LocalStep`), and
the tables shrink, gain a history row, or gain a photo (`TablesShrink`,
`HistoryAdded`, `PhotoAdded`).  `QuotaBounded` has the shape of `OpenBounded`,
with sizes: the photos whose check has passed count from then on (`Promised`).
So has `LeftBehindBounded`, with the items of the requests under way: the rows
and photos that are there share a bound of `MaxItems` per thread with those
still to come (`Coming`).  Once an account is closed no request sets out for it
and none gets a further item (`NoNewItems`); an item leaves the set of those to
come with the row it adds (`SharedBound`).  As long as the account is open there
is nothing to show, and closing it deletes its history, photos included, while
no thread has more than `MaxItems` to come.

**Batches.**  `CompleteMeansEveryItem` compares two counts in the code and speaks
of items.  The bridge is a pigeonhole argument: by `OneJobPerItem` a batch's jobs
have different indexes, by `InBatch` these are below its size, so as many jobs as
items leave no item out.

**Accounts.**  That an invite makes one account needs no look at the invite's
own mark, which may fail: a row of `users` or `invites` never changes its
address, an account has the address of its invite (`MadeFromInvite`), and an
address has one account (`OneAccountPerEmail`).  For `StaleSessionsBounded` the
invariant counts, with the sessions opened under an older password, the logins
that may still open one (`StaleCounted`): the thread that revokes is not a
login, so there are fewer than threads.  `RecoveriesBounded` counts the requests
past the check with the tokens.  `RecoveryUsesBounded` needs that a token not
marked used was not used (`UsesCounted`): then each use takes the place of a
request that was on its way, and once the token is marked no other sets out.

**Connections.**  Every step adds to the counter what it adds to the connections
in service and the slots lost.  Only the connection the loop is on can take the
counter beyond the cap (`OneAtATime`, `Capped`), so what `fetch_add` returned is
what the abstract server would have decided at that instant.

**Estimates.**  A thread is in one stage, so each set of threads a counter speaks
of changes by at most the thread that moves.  `UsageCounted` adds to a day's
charges the threads that have passed its check; `PostsCounted` says that a
charged estimate has at most one first request ahead of it, and then at most one
second.

**Web uploads.**  `SavedOnce` rests on `ItemsKeyed`: whatever is on the page, on
its way, at the server, or saved, carries the one key of its photo and its
fields.  `AccountedOnce` rests on `Accounting`: during a run a photo is in the
list exactly when it is neither unread nor in this chunk nor in a later one.

**Background uploads.**  A batch belongs to one call of `runBackground`, and its
jobs are the photos this call made the server keep (`BatchesApart`,
`JobsOwned`); a key has one job, in the batch `keys` names (`JobsPlaced`).
`RetryAvailable` then needs that
the photo under way is kept until its answer (`HeadKept`): what a run drops at
its end, when nothing was queued, are the items of its own batch, which has no
job.  `ReportHonest` needs in addition that a report of failure is about a batch
no call submits to any more (`MessageOK`).  `SelectionKept` is about runs that
overlap and each set the selection from what it was when they began.  While
`wanted` is not `None` they all began with the same form, so a photo has the
same key in each.  Of two
runs that began with the same selection only one is served its first photo of
acceptable size; the other is *overtaken*: it is refused that photo's key, queues
nothing, and leaves the selection as it is (`Overtaken`, `OwnFirst`).  The
invariant is that, until the user changes selection or form, every call under
way is up to date or overtaken (`UpToDate`).
The calls walk over lists, and `Without` is a recursive function on them: what
it returns is proved by induction, for which the least-number principle of
well-founded sets is enough (`InductionOnSet`).

**Only model-checked:** the liveness properties (`EveryJobSettles`,
`PhotosExpire`, `EveryConnectionEnds`, `RunEnds`), which are
outside what TLAPS proves here, and the refuted ones.  Every invariant and every
action property that a passing run checks is also a theorem.

## 5. Plan

What is written: the queue with its lifecycle, the promise of its keys and its
batches, photo retention, accounts, the connection server, the estimate
pipeline, and both kinds of web upload, in this order, because each next one
relies on what the ones before it say of the server.  What a next step would
add:

1. A refinement from `WebQueue`'s server to `JobQueue`'s batch items, as
   `KeyedHistory` links the two models of a foreground request.
2. An abstract account: invited, open, closed for good, implemented by
   `Accounts`.
3. Animals: an estimate that names an animal while it is edited or deleted, and
   the client's assignment of animals to photos, which `WebQueue` has only as a
   link the form gives a photo.
4. The attempt limiters, whose map of addresses is pruned on use.

## 6. Not modelled

- **Estimation itself** (floating-point formulas, prompt building, response
  parsing, image validation) is sequential and pure; the queue and the pipeline
  see it as an outcome.  The provider is external.
- **Attempt limiters** (`limits.rs`, `http/auth_api.rs`): one call under one lock
  per request, and they only refuse more.
- **Rotating a session**, last-login stamps, display names and the audit log:
  single statements that no other state depends on.  Account deletion's usage
  rows: deleted in its transaction, and read afterwards only by an estimate
  already under way.
- **Animals** beyond their disappearance during an estimate; listing, export and
  summary, which read only.
- **Migrations**: two processes that boot on a new database at once fail safe.
- **A never idle queue**: maintenance runs only on an idle poll, so rows
  accumulate.  The model prunes only then, too, but its finitely many ids turn
  accumulation into a submission that has to wait.
- **Demo and tape estimates of the page**, its account views, a reload and a
  logout, which lose the page's state.  `WebQueue` keeps every job of a batch
  while the tab is open; pruning is `BatchStatus`'s subject.
- **Configuration, evaluation tools, asset serving, CSV export**: no state that
  other parts read.  The **iOS client** and the **deployment scripts** are
  outside the service.
