--------------------------- MODULE PhotoRetention ---------------------------
(***************************************************************************)
(* Opt-in photo retention: the files of <data_dir>/photos, the tables      *)
(* `photos' and `estimates' (db.rs), the requests that store and delete    *)
(* them (photos.rs, http/estimate.rs, http/photos.rs, http/history.rs,     *)
(* http/account.rs), the sweep at boot and by the worker (main.rs,         *)
(* jobs.rs), and a crash and restart of the process.                       *)
(*                                                                         *)
(* A call of Db is one atomic step and so is an operation on a file; what  *)
(* a thread does between two of them interleaves with everything else.     *)
(* The worker's own estimates are those of one more thread.  A request for *)
(* several estimates (POST /estimate-batch) is authenticated once and runs *)
(* them one after the other; one for a single estimate has one item.       *)
(***************************************************************************)
EXTENDS Naturals, FiniteSets

CONSTANTS
    User,           \* accounts
    Estimate,       \* history row ids
    Photo,          \* photo ids
    Thread,         \* threads that serve a request or run a job
    None,           \* SQL NULL, or no row
    MaxSize,        \* MAX_IMAGE_BYTES, in units of size
    Quota,          \* photo_quota_mb, in the same units
    Ttl,            \* photo_ttl_days, in ticks
    ListLimit,      \* photos an account deletion lists (500)
    MaxItems,       \* MAX_BATCH_ITEMS, the estimates of one request
    MaxRestarts     \* bound: restarts explored

VARIABLES
    estimates,      \* estimates[e]: owner of row e of table estimates, or None
    rows,           \* rows[p]: the row of table photos, or None
    files,          \* photos/<id>
    temps,          \* photos/<id>.tmp-<pid>
    active,         \* users whose status is 'active'
    thread,         \* thread[t]: local state of a thread
    sweep,          \* local state of sweep_photos
    serving,        \* FALSE from boot to the end of the boot sweep
    restarts        \* restarts so far

vars == <<estimates, rows, files, temps, active, thread, sweep, serving,
          restarts>>

-----------------------------------------------------------------------------

PhotoRow ==
    [user     : User,
     estimate : Estimate,
     size     : 1 .. MaxSize,        \* bytes
     left     : 0 .. Ttl]            \* expires_at - now, 0 when expired

Storing  == {"save", "quota", "write", "rename", "insert"}
Deleting == {"forget", "next", "unlink"}

ThreadState ==
    [pc       : {"idle"} \cup Storing \cup Deleting,
     user     : User \cup {None},
     items    : 0 .. MaxItems - 1,   \* items of the request after this one
     estimate : Estimate \cup {None},
     photo    : Photo \cup {None},
     size     : 0 .. MaxSize,
     doomed   : SUBSET Photo,        \* photos still to delete
     close    : BOOLEAN]             \* delete_account follows

SweepState ==
    [pc    : {"idle", "expired", "check", "unlink", "rows"},
     todo  : SUBSET Photo,
     photo : Photo \cup {None}]

ASSUME RetentionAssumption ==
    /\ IsFiniteSet(Photo)
    /\ IsFiniteSet(Thread) /\ Thread # {}
    /\ MaxSize \in Nat \ {0}
    /\ Quota \in Nat
    /\ Ttl \in Nat
    /\ ListLimit \in Nat
    /\ MaxItems \in Nat \ {0}
    /\ MaxRestarts \in Nat

(* NULL is no id and no row. *)
ASSUME NullAssumption ==
    None \notin User \cup Estimate \cup Photo \cup PhotoRow

TypeOK ==
    /\ estimates \in [Estimate -> User \cup {None}]
    /\ rows \in [Photo -> PhotoRow \cup {None}]
    /\ files \subseteq Photo
    /\ temps \subseteq Photo
    /\ active \subseteq User
    /\ thread \in [Thread -> ThreadState]
    /\ sweep \in SweepState
    /\ serving \in BOOLEAN
    /\ restarts \in 0 .. MaxRestarts

Idle ==
    [pc |-> "idle", user |-> None, items |-> 0, estimate |-> None,
     photo |-> None, size |-> 0, doomed |-> {}, close |-> FALSE]

NoSweep == [pc |-> "idle", todo |-> {}, photo |-> None]

Init ==
    /\ estimates = [e \in Estimate |-> None]
    /\ rows = [p \in Photo |-> None]
    /\ files = {}
    /\ temps = {}
    /\ active = User
    /\ thread = [t \in Thread |-> Idle]
    /\ sweep = NoSweep
    /\ serving = FALSE
    /\ restarts = 0

-----------------------------------------------------------------------------
(* Queries *)

PhotosOf(u) == {p \in Photo : rows[p] # None /\ rows[p].user = u}

(* SELECT SUM(bytes): the units <<p, 1>>, <<p, 2>>, ... of a user's rows.  *)
Units(u) ==
    {b \in Photo \X (1 .. MaxSize) :
        rows[b[1]] # None /\ rows[b[1]].user = u /\ b[2] <= rows[b[1]].size}

Used(u) == Cardinality(Units(u))

Linked(e) == {p \in Photo : rows[p] # None /\ rows[p].estimate = e}

(* new_id(): the model uses an id again only when nothing names it.        *)
FreshPhoto(p) ==
    /\ p \notin files \cup temps \cup sweep.todo \cup {sweep.photo}
    /\ rows[p] = None
    /\ \A t \in Thread : p \notin thread[t].doomed \cup {thread[t].photo}

FreshEstimate(e) ==
    /\ estimates[e] = None
    /\ \A t \in Thread : thread[t].estimate # e

(* DELETE FROM estimates; the foreign key of photos cascades.              *)
DeleteEstimates(E) ==
    /\ estimates' = [e \in Estimate |-> IF e \in E THEN None ELSE estimates[e]]
    /\ rows' = [p \in Photo |->
                   IF rows[p] # None /\ rows[p].estimate \in E THEN None
                                                               ELSE rows[p]]

Answer(t) == thread' = [thread EXCEPT ![t] = Idle]

-----------------------------------------------------------------------------
(* An estimate with retain_photo: save_authenticated, store_photo          *)

(* The request waits for the result of its last n estimates.               *)
Estimating(u, n) ==
    [Idle EXCEPT !.pc = "save", !.user = u, !.items = n - 1]

(* Broken variant: whether the account is still active is not looked at. *)
BeginEstimateUnchecked(t, u) ==
    /\ serving
    /\ thread[t].pc = "idle"
    /\ \E n \in 1 .. MaxItems : thread' = [thread EXCEPT ![t] = Estimating(u, n)]
    /\ UNCHANGED <<estimates, rows, files, temps, active, sweep, serving,
                   restarts>>

(* The caller is authenticated when the request comes in, not when one of  *)
(* its estimates is saved.                                                 *)
BeginEstimate(t, u) ==
    /\ serving
    /\ thread[t].pc = "idle"
    /\ u \in active
    /\ \E n \in 1 .. MaxItems : thread' = [thread EXCEPT ![t] = Estimating(u, n)]
    /\ UNCHANGED <<estimates, rows, files, temps, active, sweep, serving,
                   restarts>>

(* On with the next item, for the caller of the first one, or the answer.  *)
Following(q) == IF q.items = 0 THEN Idle ELSE Estimating(q.user, q.items)

NextItem(t) == thread' = [thread EXCEPT ![t] = Following(@)]

(* No result, a result that is replayed, or one that could not be saved.   *)
EstimateFails(t) ==
    /\ thread[t].pc = "save"
    /\ NextItem(t)
    /\ UNCHANGED <<estimates, rows, files, temps, active, sweep, serving,
                   restarts>>

(* The result's row is saved; its photo is stored next, if the caller      *)
(* asked for it.                                                           *)
SaveEstimate(t) ==
    /\ thread[t].pc = "save"
    /\ \E e \in Estimate :
          /\ FreshEstimate(e)
          /\ estimates' = [estimates EXCEPT ![e] = thread[t].user]
          /\ \/ thread' = [thread EXCEPT ![t].pc = "quota", ![t].estimate = e]
             \/ NextItem(t)
    /\ UNCHANGED <<rows, files, temps, active, sweep, serving, restarts>>

(* Broken variant: the new photo is not counted. *)
CheckQuotaBefore(t) ==
    /\ thread[t].pc = "quota"
    /\ \E n \in 1 .. MaxSize :
          IF Used(thread[t].user) > Quota
          THEN NextItem(t)
          ELSE thread' = [thread EXCEPT ![t].pc = "write", ![t].size = n]
    /\ UNCHANGED <<estimates, rows, files, temps, active, sweep, serving,
                   restarts>>

(* The quota is checked here and by nothing later.                         *)
CheckQuota(t) ==
    /\ thread[t].pc = "quota"
    /\ \E n \in 1 .. MaxSize :
          IF Used(thread[t].user) + n > Quota
          THEN NextItem(t)                                 \* photo_error
          ELSE thread' = [thread EXCEPT ![t].pc = "write", ![t].size = n]
    /\ UNCHANGED <<estimates, rows, files, temps, active, sweep, serving,
                   restarts>>

(* A write that fails leaves what it wrote, or nothing.                    *)
WriteTemp(t) ==
    /\ thread[t].pc = "write"
    /\ \E p \in Photo :
          /\ FreshPhoto(p)
          /\ \/ /\ temps' = temps \cup {p}
                /\ thread' = [thread EXCEPT ![t].pc = "rename", ![t].photo = p]
             \/ /\ temps' \in {temps, temps \cup {p}}
                /\ NextItem(t)
    /\ UNCHANGED <<estimates, rows, files, active, sweep, serving, restarts>>

(* A rename that fails removes the temporary file.                         *)
RenameTemp(t) ==
    /\ thread[t].pc = "rename"
    /\ temps' = temps \ {thread[t].photo}
    /\ \/ /\ files' = files \cup {thread[t].photo}
          /\ thread' = [thread EXCEPT ![t].pc = "insert"]
       \/ /\ UNCHANGED files
          /\ NextItem(t)
    /\ UNCHANGED <<estimates, rows, active, sweep, serving, restarts>>

NewRow(q) == [user |-> q.user, estimate |-> q.estimate, size |-> q.size,
              left |-> Ttl]

(* Broken variant: the foreign key is not enforced. *)
InsertRowUnlinked(t) ==
    /\ thread[t].pc = "insert"
    /\ rows' = [rows EXCEPT ![thread[t].photo] = NewRow(thread[t])]
    /\ NextItem(t)
    /\ UNCHANGED <<estimates, files, temps, active, sweep, serving, restarts>>

(* The insert fails if the history row is gone (foreign key), or on an     *)
(* error of the database; the file is removed then.                        *)
InsertRow(t) ==
    /\ thread[t].pc = "insert"
    /\ \/ /\ estimates[thread[t].estimate] # None
          /\ rows' = [rows EXCEPT ![thread[t].photo] = NewRow(thread[t])]
          /\ UNCHANGED files
       \/ /\ files' = files \ {thread[t].photo}
          /\ UNCHANGED rows
    /\ NextItem(t)
    /\ UNCHANGED <<estimates, temps, active, sweep, serving, restarts>>

-----------------------------------------------------------------------------
(* Deletion by the owner: of a photo, of a history row, of the account     *)

BeginDelete(t, q) ==
    /\ serving
    /\ thread[t].pc = "idle"
    /\ thread' = [thread EXCEPT ![t] = q]
    /\ UNCHANGED <<estimates, rows, files, temps, active, sweep, serving,
                   restarts>>

DeletePhoto(t, p) ==
    /\ rows[p] # None
    /\ rows[p].user \in active
    /\ BeginDelete(t, [Idle EXCEPT !.pc = "next", !.doomed = {p}])

(* photos_for_estimate, before delete_estimate cascades the rows away; an  *)
(* error reads as no photos.                                               *)
DeleteHistory(t, e) ==
    /\ estimates[e] \in active
    /\ \E linked \in {Linked(e), {}} :
          BeginDelete(t, [Idle EXCEPT !.pc = "forget", !.estimate = e,
                                      !.doomed = linked])

(* No row, or an error of the database, is answered 404.                   *)
ForgetEstimate(t) ==
    /\ thread[t].pc = "forget"
    /\ \/ /\ estimates[thread[t].estimate] # None
          /\ DeleteEstimates({thread[t].estimate})
          /\ thread' = [thread EXCEPT ![t].pc = "next", ![t].estimate = None]
       \/ /\ UNCHANGED <<estimates, rows>>
          /\ Answer(t)
    /\ UNCHANGED <<files, temps, active, sweep, serving, restarts>>

(* list_photos: all of the user's photos, or the first ListLimit of them;  *)
(* an error reads as none.                                                 *)
DeleteAccount(t, u) ==
    /\ u \in active
    /\ \E listed \in SUBSET PhotosOf(u) :
          /\ \/ listed = PhotosOf(u) /\ Cardinality(listed) <= ListLimit
             \/ listed # PhotosOf(u) /\ Cardinality(listed) = ListLimit
             \/ listed = {}
          /\ BeginDelete(t, [Idle EXCEPT !.pc = "next", !.user = u,
                                         !.doomed = listed, !.close = TRUE])

(* Broken variant: the file goes first. *)
DropFileFirst(t) ==
    /\ thread[t].pc = "next"
    /\ \E p \in thread[t].doomed :
          /\ files' = files \ {p}
          /\ thread' = [thread EXCEPT ![t].pc = "unlink", ![t].photo = p]
    /\ UNCHANGED <<estimates, rows, temps, active, sweep, serving, restarts>>

(* photos::delete_photo, for one photo after the other: the row (an error  *)
(* is dropped, and photo and file stay) ...                                *)
DropRow(t) ==
    /\ thread[t].pc = "next"
    /\ \E p \in thread[t].doomed :
          \/ /\ rows' = [rows EXCEPT ![p] = None]
             /\ thread' = [thread EXCEPT ![t].pc = "unlink", ![t].photo = p]
          \/ /\ thread' = [thread EXCEPT ![t].doomed = @ \ {p}]
             /\ UNCHANGED rows
    /\ UNCHANGED <<estimates, files, temps, active, sweep, serving, restarts>>

(* ... then the file.                                                      *)
UnlinkFile(t) ==
    /\ thread[t].pc = "unlink"
    /\ files' = files \ {thread[t].photo}
    /\ thread' = [thread EXCEPT ![t].pc = "next", ![t].photo = None,
                                ![t].doomed = @ \ {thread[t].photo}]
    /\ UNCHANGED <<estimates, rows, temps, active, sweep, serving, restarts>>

DeleteDone(t) ==
    /\ thread[t].pc = "next"
    /\ thread[t].doomed = {}
    /\ ~thread[t].close
    /\ Answer(t)
    /\ UNCHANGED <<estimates, rows, files, temps, active, sweep, serving,
                   restarts>>

(* The transaction of Db::delete_account; users are only marked.           *)
RemoveRows(u) ==
    /\ active' = active \ {u}
    /\ DeleteEstimates({e \in Estimate : estimates[e] = u})

CloseAccount(t) ==
    /\ thread[t].pc = "next"
    /\ thread[t].doomed = {}
    /\ thread[t].close
    /\ \/ RemoveRows(thread[t].user)
       \/ UNCHANGED <<active, estimates, rows>>                     \* 502
    /\ Answer(t)
    /\ UNCHANGED <<files, temps, sweep, serving, restarts>>

(* The operator, or the command line, deletes a user and leaves the files. *)
RemoveUser(u) ==
    /\ RemoveRows(u)
    /\ UNCHANGED <<files, temps, thread, sweep, serving, restarts>>

-----------------------------------------------------------------------------
(* sweep_photos *)

Expired == {p \in Photo : rows[p] # None /\ rows[p].left = 0}

(* delete_expired_photos                                                   *)
SweepBegin ==
    /\ sweep.pc = "idle"
    /\ rows' = [p \in Photo |-> IF p \in Expired THEN None ELSE rows[p]]
    /\ sweep' = [pc |-> "expired", todo |-> Expired, photo |-> None]
    /\ UNCHANGED <<estimates, files, temps, active, thread, serving, restarts>>

SweepExpired ==
    /\ sweep.pc = "expired"
    /\ \E p \in sweep.todo :
          /\ files' = files \ {p}
          /\ sweep' = [sweep EXCEPT !.todo = @ \ {p}]
    /\ UNCHANGED <<estimates, rows, temps, active, thread, serving, restarts>>

(* read_dir; a temporary file's name is no photo id and is passed over.    *)
SweepList ==
    /\ sweep.pc = "expired"
    /\ sweep.todo = {}
    /\ sweep' = [sweep EXCEPT !.pc = "check", !.todo = files]
    /\ UNCHANGED <<estimates, rows, files, temps, active, thread, serving,
                   restarts>>

(* Broken variant: a file is never an orphan. *)
SweepCheckNothing ==
    /\ sweep.pc = "check"
    /\ \E p \in sweep.todo : sweep' = [sweep EXCEPT !.todo = @ \ {p}]
    /\ UNCHANGED <<estimates, rows, files, temps, active, thread, serving,
                   restarts>>

SweepCheck ==
    /\ sweep.pc = "check"
    /\ \E p \in sweep.todo :
          sweep' = IF rows[p] = None
                   THEN [pc |-> "unlink", todo |-> sweep.todo \ {p}, photo |-> p]
                   ELSE [sweep EXCEPT !.todo = @ \ {p}]
    /\ UNCHANGED <<estimates, rows, files, temps, active, thread, serving,
                   restarts>>

SweepOrphan ==
    /\ sweep.pc = "unlink"
    /\ files' = files \ {sweep.photo}
    /\ sweep' = [sweep EXCEPT !.pc = "check", !.photo = None]
    /\ UNCHANGED <<estimates, rows, temps, active, thread, serving, restarts>>

(* all_photo_ids                                                           *)
SweepRows ==
    /\ sweep.pc = "check"
    /\ sweep.todo = {}
    /\ sweep' = [sweep EXCEPT !.pc = "rows", !.todo = {p \in Photo : rows[p] # None}]
    /\ UNCHANGED <<estimates, rows, files, temps, active, thread, serving,
                   restarts>>

SweepMissing ==
    /\ sweep.pc = "rows"
    /\ \E p \in sweep.todo :
          /\ rows' = [rows EXCEPT ![p] = IF p \in files THEN @ ELSE None]
          /\ sweep' = [sweep EXCEPT !.todo = @ \ {p}]
    /\ UNCHANGED <<estimates, files, temps, active, thread, serving, restarts>>

(* After the boot sweep the server starts to listen.                       *)
SweepDone ==
    /\ sweep.pc = "rows"
    /\ sweep.todo = {}
    /\ sweep' = NoSweep
    /\ serving' = TRUE
    /\ UNCHANGED <<estimates, rows, files, temps, active, thread, restarts>>

-----------------------------------------------------------------------------

Restart ==
    /\ restarts < MaxRestarts
    /\ restarts' = restarts + 1
    /\ thread' = [t \in Thread |-> Idle]
    /\ sweep' = NoSweep
    /\ serving' = FALSE
    /\ UNCHANGED <<estimates, rows, files, temps, active>>

Tick ==
    /\ rows' = [p \in Photo |->
                   IF rows[p] # None /\ rows[p].left > 0
                   THEN [rows[p] EXCEPT !.left = @ - 1]
                   ELSE rows[p]]
    /\ UNCHANGED <<estimates, files, temps, active, thread, sweep, serving,
                   restarts>>

Store(t) ==
    \/ \E u \in User : BeginEstimate(t, u)
    \/ SaveEstimate(t)
    \/ EstimateFails(t)
    \/ CheckQuota(t)
    \/ WriteTemp(t)
    \/ RenameTemp(t)
    \/ InsertRow(t)

Delete(t) ==
    \/ \E p \in Photo : DeletePhoto(t, p)
    \/ \E e \in Estimate : DeleteHistory(t, e)
    \/ \E u \in User : DeleteAccount(t, u)
    \/ ForgetEstimate(t)
    \/ DropRow(t)
    \/ UnlinkFile(t)
    \/ DeleteDone(t)
    \/ CloseAccount(t)

Sweep ==
    \/ SweepBegin
    \/ SweepExpired
    \/ SweepList
    \/ SweepCheck
    \/ SweepOrphan
    \/ SweepRows
    \/ SweepMissing
    \/ SweepDone

Next ==
    \/ \E t \in Thread : Store(t) \/ Delete(t)
    \/ \E u \in User : RemoveUser(u)
    \/ Sweep
    \/ Restart
    \/ Tick

Spec == Init /\ [][Next]_vars

(* Maintenance comes round again and time passes; nothing is assumed of    *)
(* the threads.                                                            *)
FairSpec == Spec /\ WF_vars(Sweep) /\ WF_vars(Tick)

-----------------------------------------------------------------------------
(* Safety *)

(* A photo's row never outlives the history row it was retained with, and  *)
(* belongs to the same user, although the photo is stored in a step after  *)
(* the history row and the owner may delete that, or the account, between. *)
PhotoHasHistory ==
    \A p \in Photo : rows[p] # None =>
        estimates[rows[p].estimate] = rows[p].user

(* The quota is checked in one step and used in a later one, so what holds *)
(* is not the quota: each other thread may add a photo to it.              *)
QuotaBounded ==
    \A u \in User :
        Used(u) <= Quota + (Cardinality(Thread) - 1) * MaxSize

(* Deleting an account leaves a request that is under way alone, and that  *)
(* one saves and retains afterwards (ClosedAccountHasNoPhotos): the caller *)
(* is authenticated once for all the estimates of a request.  What is left *)
(* of a closed account that way is, for each thread, the rows and photos   *)
(* of one request at most, counting those still to come: no other request  *)
(* begins for it, and none gets a further item.                            *)
HistoryOf(u) == {e \in Estimate : estimates[e] = u}

(* The items to come of the requests under way for a user: those after the *)
(* current one, and this one where it is at one of the given places.       *)
Coming(u, places) ==
    {w \in Thread \X (1 .. MaxItems) :
        LET q == thread[w[1]] IN
        /\ q.user = u
        /\ q.pc \in Storing
        /\ w[2] <= q.items \/ (w[2] = q.items + 1 /\ q.pc \in places)}

LeftBehindBounded ==
    \A u \in User \ active :
        /\ Cardinality(HistoryOf(u)) + Cardinality(Coming(u, {"save"}))
              <= Cardinality(Thread) * MaxItems
        /\ Cardinality(PhotosOf(u)) + Cardinality(Coming(u, Storing))
              <= Cardinality(Thread) * MaxItems

(* The file of a photo that is still listed is removed by nothing but an   *)
(* orphan check that looked before the row was inserted: every deletion    *)
(* takes the row first, so one that is interrupted leaves a file that no   *)
(* listing names and the next sweep removes.                               *)
RowGoesFirst ==
    [][\A p \in files \ files' :
          rows'[p] # None => sweep.pc = "unlink" /\ sweep.photo = p]_vars

(* What these rest on.  A thread that stores knows its user and history    *)
(* row, and the photo it names is nobody else's and in no table; a file is *)
(* removed after its row.                                                  *)
ThreadOK ==
    \A t \in Thread :
        /\ thread[t].pc \in Storing => thread[t].user \in User
        /\ thread[t].pc \in Storing \ {"save"} =>
              /\ thread[t].estimate \in Estimate
              /\ estimates[thread[t].estimate] \in {None, thread[t].user}
        /\ thread[t].pc \in {"write", "rename", "insert"} => thread[t].size # 0
        /\ thread[t].pc = "forget" => thread[t].estimate \in Estimate
        /\ thread[t].pc \in {"rename", "insert", "unlink"} =>
              /\ thread[t].photo \in Photo
              /\ rows[thread[t].photo] = None

StoredApart ==
    \A t \in Thread : thread[t].pc \in {"rename", "insert"} =>
        /\ sweep.pc = "expired" => thread[t].photo \notin sweep.todo
        /\ \A s \in Thread \ {t} :
              thread[t].photo \notin thread[s].doomed \cup {thread[s].photo}

SweptRowsGone ==
    sweep.pc = "expired" => \A p \in sweep.todo : rows[p] = None

(* The inductive invariant of photo retention.                             *)
RetentionInvariant ==
    /\ TypeOK
    /\ ThreadOK
    /\ StoredApart
    /\ SweptRowsGone
    /\ PhotoHasHistory

-----------------------------------------------------------------------------
(* Liveness *)

(* Whatever is deleted, interrupted or forgotten in between, no photo      *)
(* stays on disk for ever: it expires, or loses its row and is swept       *)
(* (docs/privacy.md 37-39, 64-65).                                         *)
PhotosExpire == \A p \in Photo : p \in files ~> p \notin files

-----------------------------------------------------------------------------
(* What the documentation claims and the code does not do *)

(* "Rows whose files vanished are pruned so listings never 404"            *)
(* (photos.rs 232): the sweep takes a file whose row is about to be        *)
(* inserted for an orphan.                                                 *)
ListedHasFile == \A p \in Photo : rows[p] # None => p \in files

(* "orphans in either direction are cleaned on sweep" (photos.rs 15): a    *)
(* temporary file left by a crash or a failed write is never removed.      *)
TempsSwept == \A p \in Photo : p \in temps ~> p \notin temps

(* "deleting an account deletes all of its photos" (docs/privacy.md 40):   *)
(* a request that was under way saves and retains afterwards.              *)
ClosedAccountHasNoPhotos ==
    \A p \in Photo : rows[p] # None => rows[p].user \in active
=============================================================================
