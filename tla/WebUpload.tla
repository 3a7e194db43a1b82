------------------------------ MODULE WebUpload ------------------------------
(***************************************************************************)
(* The browser's foreground uploads (web/app.js): the Estimate button,     *)
(* which reads the selected photos, sends them in chunks, repeats a busy   *)
(* answer once and falls back to single requests; the Retry button of one  *)
(* photo; and Cancel.  The page is one thread: an event can come only      *)
(* while it awaits something, so every stretch between two awaits is one   *)
(* step.  The server goes on with a request the page has given up.         *)
(*                                                                         *)
(* The server is an item at a time: a lookup of the idempotency key, an    *)
(* inference if there is no row, and an insert that the unique index turns *)
(* into a replay (estimate.rs, db.rs; the races of these are JobQueue's).  *)
(***************************************************************************)
EXTENDS Naturals, FiniteSets

CONSTANTS
    Photo,          \* files the user may select, in their order
    Unusable,       \* those fileProblem turns down
    Form,           \* the animal and tape fields that may be filled in
    Key,            \* idempotency keys
    None,           \* no key, or no run
    MaxChunk        \* items in one POST /estimate-batch

VARIABLES
    form,           \* the fields as they stand
    keys,           \* requestKeys: the key of a photo with its fields
    run,            \* the run under way while busy, or None
    cancelRequested,
    picked,         \* the photos of the last run
    entries,        \* batchEntries: how often a photo is in the list
    label,          \* ... and what it says of it
    report,         \* the final status line: "none", "done", "cancelled"
    server,         \* items the server has received and not answered
    rows            \* history rows of the user

vars == <<form, keys, run, cancelRequested, picked, entries, label, report,
          server, rows>>

page == <<form, keys, picked>>
list == <<entries, label, report>>

-----------------------------------------------------------------------------
(* Records *)

Item == [photo : Photo, form : Form, key : Key]

(* An item on the server; `live' while the page still waits for it.        *)
Work == [item : Item, stage : {"received", "inferring"}, live : BOOLEAN]

Run ==
    [kind   : {"run", "retry"},       \* runEstimates or retryOne
     pc     : {"reading", "loop", "flight", "waiting"},
     unread : SUBSET Photo,           \* photos not read yet
     ready  : SUBSET Item,            \* validItems of the chunks to come
     chunk  : SUBSET Item,            \* the current chunk
     single : BOOLEAN,                \* sent one by one
     sent   : SUBSET Item,            \* the items of the request
     again  : BOOLEAN,                \* the request is the second attempt
     good   : SUBSET Photo]           \* items answered with 200

ASSUME UploadAssumption ==
    /\ Photo \subseteq Nat /\ IsFiniteSet(Photo)
    /\ Unusable \subseteq Photo
    /\ MaxChunk \in Nat \ {0}
    /\ None \notin Key \cup Run

TypeOK ==
    /\ form \in Form
    /\ keys \in [Photo \X Form -> Key \cup {None}]
    /\ run \in Run \cup {None}
    /\ cancelRequested \in BOOLEAN
    /\ picked \subseteq Photo
    /\ entries \in [Photo -> Nat]
    /\ label \in [Photo -> {"none", "problem", "failed", "ok"}]
    /\ report \in {"none", "done", "cancelled"}
    /\ server \subseteq Work
    /\ rows \subseteq Item

Init ==
    /\ form \in Form
    /\ keys = [x \in Photo \X Form |-> None]
    /\ run = None
    /\ cancelRequested = FALSE
    /\ picked = {}
    /\ entries = [p \in Photo |-> 0]
    /\ label = [p \in Photo |-> "none"]
    /\ report = "none"
    /\ server = {}
    /\ rows = {}

Busy == run # None
At(pc) == Busy /\ run.pc = pc
Photos(items) == {i.photo : i \in items}

(* Whether p is the first of some photos: the page takes them in order.    *)
First(p, photos) == p \in photos /\ \A q \in photos : p <= q

-----------------------------------------------------------------------------
(* The list of results *)

(* batchEntries.push for some photos, those in `good' as estimated.        *)
Push(photos, good) ==
    /\ entries' = [p \in Photo |-> entries[p] + (IF p \in photos THEN 1 ELSE 0)]
    /\ label' = [p \in Photo |->
           CASE p \notin photos -> label[p]
             [] p \in photos /\ p \in good -> "ok"
             [] OTHER -> "failed"]

(* setBusy(false), and after a run its final line.                         *)
Finish(cancelled) ==
    /\ run' = None
    /\ report' = IF run.kind = "retry" THEN report
                 ELSE IF cancelled THEN "cancelled" ELSE "done"

-----------------------------------------------------------------------------
(* The user *)

(* Some of the fields can be changed during a run (animal, keep photo).    *)
EditForm(f) ==
    /\ ~At("loop")
    /\ form' = f
    /\ UNCHANGED <<keys, run, cancelRequested, picked, list, server, rows>>

NewRun(kind, photos) ==
    [kind |-> kind, pc |-> "reading", unread |-> photos, ready |-> {},
     chunk |-> {}, single |-> kind = "retry", sent |-> {}, again |-> FALSE,
     good |-> {}]

(* runEstimates: photos with a problem are listed at once.                 *)
Estimate(photos) ==
    /\ ~Busy
    /\ photos # {}
    /\ cancelRequested' = FALSE
    /\ picked' = photos
    /\ run' = [NewRun("run", photos \ Unusable) EXCEPT
                   !.pc = IF photos \subseteq Unusable THEN "loop" ELSE @]
    /\ entries' = [p \in Photo |-> IF p \in photos \cap Unusable THEN 1 ELSE 0]
    /\ label' = [p \in Photo |->
                    IF p \in photos \cap Unusable THEN "problem" ELSE "none"]
    /\ report' = "none"
    /\ UNCHANGED <<form, keys, server, rows>>

(* retryOne, on a photo the list shows as failed.                          *)
Retry(p) ==
    /\ ~Busy
    /\ label[p] = "failed"
    /\ cancelRequested' = FALSE
    /\ run' = NewRun("retry", {p})
    /\ UNCHANGED <<page, list, server, rows>>

(* What becomes of a request the page has given up: the server has it and  *)
(* goes on, or what it has not begun never reached it.                     *)
Abandon ==
    \E lost \in {{}, {w \in server : w.live /\ w.stage = "received"}} :
        server' = {[w EXCEPT !.live = FALSE] : w \in server \ lost}

(* requestCancel sets the flag and aborts the request in flight, if there  *)
(* is one; the aborted request then ends the run.                          *)
Cancel ==
    /\ Busy
    /\ run.pc # "loop"
    /\ cancelRequested' = TRUE
    /\ IF run.pc = "flight"
       THEN /\ Abandon
            /\ Finish(TRUE)
       ELSE UNCHANGED <<run, report, server>>
    /\ UNCHANGED <<page, entries, label, rows>>

-----------------------------------------------------------------------------
(* Reading the photos: fileToDataUrl, then stableRequestKey *)

(* Broken variant: a new key for every attempt. *)
StableKeyNew(x, k) == k \in Key /\ \A i \in rows : i.key # k

StableKey(x, k) ==
    IF keys[x] # None THEN k = keys[x]
    ELSE k \in Key /\ \A y \in DOMAIN keys : keys[y] # k

AfterReading(unread) == IF unread = {} THEN "loop" ELSE "reading"

(* The photo is ready to send; a retry has nothing else to send.           *)
Add(i) ==
    LET unread == run.unread \ {i.photo} IN
    [run EXCEPT !.unread = unread,
                !.pc     = AfterReading(unread),
                !.ready  = IF run.single THEN @ ELSE @ \cup {i},
                !.chunk  = IF run.single THEN {i} ELSE @]

ReadPhoto(p) ==
    /\ At("reading")
    /\ First(p, run.unread)
    /\ IF cancelRequested
       THEN Finish(cancelRequested) /\ UNCHANGED keys
       ELSE \E k \in Key :
              /\ StableKey(<<p, form>>, k)
              /\ keys' = [keys EXCEPT ![<<p, form>>] = k]
              /\ run' = Add([photo |-> p, form |-> form, key |-> k])
              /\ UNCHANGED report
    /\ UNCHANGED <<form, cancelRequested, picked, entries, label, server, rows>>

(* The photo cannot be read, or is still too large.  A run lists it as     *)
(* failed; a retry ends with the list as it was.                           *)
ReadFails(p) ==
    /\ At("reading")
    /\ First(p, run.unread)
    /\ IF run.kind = "run" THEN Push({p}, {}) ELSE UNCHANGED <<entries, label>>
    /\ IF run.kind = "retry" \/ cancelRequested
       THEN Finish(cancelRequested)
       ELSE /\ run' = [run EXCEPT !.unread = @ \ {p},
                                  !.pc = AfterReading(run.unread \ {p})]
            /\ UNCHANGED report
    /\ UNCHANGED <<page, cancelRequested, server, rows>>

-----------------------------------------------------------------------------
(* Sending *)

Sending(items) ==
    server' = server \cup [item : items, stage : {"received"}, live : {TRUE}]

(* The next chunk: a stretch of validItems, as many as fit.                *)
SendChunk ==
    /\ At("loop")
    /\ ~cancelRequested
    /\ run.chunk = {}
    /\ \E items \in SUBSET run.ready :
         /\ items # {}
         /\ Cardinality(items) <= MaxChunk
         /\ \A i \in items, j \in run.ready \ items : i.photo < j.photo
         /\ run' = [run EXCEPT !.pc = "flight", !.ready = @ \ items,
                               !.chunk = items, !.single = FALSE,
                               !.sent = items, !.again = FALSE, !.good = {}]
         /\ Sending(items)
    /\ UNCHANGED <<page, cancelRequested, list, rows>>

(* One item by itself: a retry, or a chunk that was too large.             *)
SendSingle ==
    /\ At("loop")
    /\ ~cancelRequested
    /\ run.single
    /\ \E i \in run.chunk :
         /\ First(i.photo, Photos(run.chunk))
         /\ run' = [run EXCEPT !.pc = "flight", !.sent = {i},
                               !.again = FALSE, !.good = {}]
         /\ Sending({i})
    /\ UNCHANGED <<page, cancelRequested, list, rows>>

EndRun ==
    /\ At("loop")
    /\ cancelRequested \/ (run.ready = {} /\ run.chunk = {})
    /\ Finish(cancelRequested)
    /\ UNCHANGED <<page, cancelRequested, entries, label, server, rows>>

(* sleepMs is over.  The flag was read before it, and not since.           *)
WaitOver ==
    /\ At("waiting")
    /\ run' = [run EXCEPT !.pc = "flight", !.again = TRUE]
    /\ Sending(run.sent)
    /\ UNCHANGED <<page, cancelRequested, list, rows>>

-----------------------------------------------------------------------------
(* Answers *)

(* The results of the items sent are entered, and the loop goes on; a      *)
(* retry only changes the label of a photo that is now estimated.          *)
Enter(good) ==
    IF run.kind = "retry"
    THEN /\ label' = [p \in Photo |-> IF p \in good THEN "ok" ELSE label[p]]
         /\ UNCHANGED entries
         /\ Finish(cancelRequested)
    ELSE /\ Push(Photos(run.sent), good)
         /\ run' = [run EXCEPT !.pc = "loop", !.chunk = @ \ run.sent]
         /\ UNCHANGED report

(* The catch blocks: a cancelled run stops, any other lists the failures.  *)
Failed ==
    IF cancelRequested
    THEN Finish(cancelRequested) /\ UNCHANGED <<entries, label>>
    ELSE Enter({})

Live == {w \in server : w.live}
NotBegun == \A w \in Live : w.stage = "received"
WholeRequest == Live = [item : run.sent, stage : {"received"}, live : {TRUE}]

(* 200.  The loop over a batch's results looks at the flag first, the      *)
(* answer to a single request is entered whatever it says.                 *)
Answered ==
    /\ At("flight")
    /\ Live = {}
    /\ IF run.good = {} \/ (cancelRequested /\ ~run.single)
       THEN Failed
       ELSE Enter(run.good)
    /\ UNCHANGED <<page, cancelRequested, server, rows>>

(* Broken variant: every busy answer is repeated. *)
BusyAnswerAlways ==
    /\ At("flight")
    /\ WholeRequest
    /\ server' = server \ Live
    /\ IF cancelRequested
       THEN Failed
       ELSE /\ run' = [run EXCEPT !.pc = "waiting"]
            /\ UNCHANGED list
    /\ UNCHANGED <<page, cancelRequested, rows>>

(* 503 server_busy, before anything was begun: wait and send once more.    *)
BusyAnswer ==
    /\ At("flight")
    /\ WholeRequest
    /\ server' = server \ Live
    /\ IF run.again \/ cancelRequested
       THEN Failed
       ELSE /\ run' = [run EXCEPT !.pc = "waiting"]
            /\ UNCHANGED list
    /\ UNCHANGED <<page, cancelRequested, rows>>

(* Broken variant: the chunk is listed as failed, and sent one by one.     *)
TooLargeListed ==
    /\ At("flight")
    /\ ~run.single
    /\ WholeRequest
    /\ server' = server \ Live
    /\ IF cancelRequested
       THEN Failed
       ELSE /\ run' = [run EXCEPT !.pc = "loop", !.single = TRUE]
            /\ Push(Photos(run.chunk), {})
            /\ UNCHANGED report
    /\ UNCHANGED <<page, cancelRequested, rows>>

(* 400 too large for a batch: its items are sent one by one.               *)
TooLarge ==
    /\ At("flight")
    /\ ~run.single
    /\ WholeRequest
    /\ server' = server \ Live
    /\ IF cancelRequested
       THEN Failed
       ELSE /\ run' = [run EXCEPT !.pc = "loop", !.single = TRUE]
            /\ UNCHANGED list
    /\ UNCHANGED <<page, cancelRequested, rows>>

(* The time limit, a network failure, or a refusal of the whole request.   *)
GivesUp ==
    /\ At("flight")
    /\ Abandon
    /\ Failed
    /\ UNCHANGED <<page, cancelRequested, rows>>

-----------------------------------------------------------------------------
(* The server *)

HasRow(k) == \E r \in rows : r.key = k

(* An item is answered; the page sees it if it still waits.                *)
Reply(w, ok) ==
    /\ server' = server \ {w}
    /\ run' = IF w.live /\ ok
              THEN [run EXCEPT !.good = @ \cup {w.item.photo}] ELSE run

(* The lookup of the key: a replay, or an inference.  The items of a       *)
(* request are taken one after the other.                                  *)
Begin(w) ==
    /\ w.stage = "received"
    /\ w.live => NotBegun
    /\ IF HasRow(w.item.key)
       THEN Reply(w, TRUE)
       ELSE /\ server' = (server \ {w}) \cup {[w EXCEPT !.stage = "inferring"]}
            /\ UNCHANGED run
    /\ UNCHANGED <<page, cancelRequested, list, rows>>

(* The inference has a result and the insert follows; the unique index     *)
(* makes it a replay when another request was faster.                      *)
Complete(w) ==
    /\ w.stage = "inferring"
    /\ rows' = IF HasRow(w.item.key) THEN rows ELSE rows \cup {w.item}
    /\ Reply(w, TRUE)
    /\ UNCHANGED <<page, cancelRequested, list>>

(* No result: a refusal before the inference, or its failure.              *)
NoResult(w) ==
    /\ w.live /\ w.stage = "received" => NotBegun
    /\ Reply(w, FALSE)
    /\ UNCHANGED <<page, cancelRequested, list, rows>>

-----------------------------------------------------------------------------
User ==
    \/ \E f \in Form : EditForm(f)
    \/ \E photos \in SUBSET Photo : Estimate(photos)
    \/ \E p \in Photo : Retry(p)
    \/ Cancel

Page ==
    \/ \E p \in Photo : ReadPhoto(p) \/ ReadFails(p)
    \/ SendChunk
    \/ SendSingle
    \/ EndRun
    \/ WaitOver
    \/ Answered
    \/ BusyAnswer
    \/ TooLarge
    \/ GivesUp

Server == \E w \in server : Begin(w) \/ Complete(w) \/ NoResult(w)

Next == User \/ Page \/ Server

Spec == Init /\ [][Next]_vars

(* Reading a file ends, and so does the wait; every request has a time     *)
(* limit (90 s, or 10 minutes at most for a batch).  Nothing is assumed of *)
(* the server, nor of the user.                                            *)
FairSpec == Spec /\ WF_vars(Page)

-----------------------------------------------------------------------------
(* Properties *)

(* However often a photo is sent, by the one automatic retry, by the Retry *)
(* button, or in a new run after a timeout or a cancel while the server    *)
(* goes on with the old request, the same photo with the same fields is    *)
(* saved once (stableRequestKey).                                          *)
SavedOnce ==
    \A r, s \in rows : r.photo = s.photo /\ r.form = s.form => r = s

(* The promise of the key behind it (KeyedHistory): while a key has a row, *)
(* no request saves another one under it.                                  *)
RowsOf(k) == {i \in rows : i.key = k}

History == INSTANCE KeyedHistory WITH
              Name <- Key, Row <- Item, named <- [k \in Key |-> RowsOf(k)]

ImplementsKeyedHistory == History!Spec

(* A run that was not cancelled lists every photo it was given once,       *)
(* whatever mix of unreadable files, chunks, busy answers and single       *)
(* requests it went through: "Done - n estimated, m failed" adds up.       *)
AccountedOnce ==
    report = "done" => \A p \in Photo : entries[p] = IF p \in picked THEN 1 ELSE 0

(* Whatever the server does, the page becomes usable again.                *)
RunEnds == Busy ~> ~Busy

-----------------------------------------------------------------------------
(* What the repository says, and the code does not keep *)

(* app.js:1230: "Abort is best-effort; the loop also checks the flag": no  *)
(* photo is sent after Cancel.                                             *)
CancelStops ==
    [][cancelRequested /\ cancelRequested' =>
           \A w \in server' \ server : w.live => w.stage # "received"]_vars

(* app.js:477: "a retried upload returns the stored result instead of      *)
(* spending inference twice".                                              *)
InferredOnce ==
    \A v, w \in server :
        v.stage = "inferring" /\ w.stage = "inferring" /\ v.item = w.item => v = w
=============================================================================
