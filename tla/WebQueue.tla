------------------------------- MODULE WebQueue -------------------------------
(***************************************************************************)
(* The browser's background uploads (web/app.js): the button that turns    *)
(* the selection into an upload batch and posts its photos one after the   *)
(* other, the photos kept in the tab so that a failed item can be retried, *)
(* and the user, who may change the selection and press the button again   *)
(* at any time: runBackground awaits several answers and never sets busy.  *)
(*                                                                         *)
(* The form stays editable as well.  A photo is sent with the profile read *)
(* when the button was pressed and with the links (its animal, and whether *)
(* it is retained) read after the first await; its idempotency key is of   *)
(* the photo and of both (stableRequestKey).  An item of a batch is named  *)
(* by its photo.  The server answers a submission in one step (the races   *)
(* inside it are JobQueue's), prunes nothing while the tab is open, and    *)
(* may answer anything with a refusal; no gateway answers for it.          *)
(***************************************************************************)
EXTENDS Naturals, FiniteSets, Sequences

CONSTANTS
    Photo,          \* files the user may select
    Large,          \* those still too large after resizing
    Profile,        \* breed, sex and age, as the form has them
    Link,           \* animal and retention of a photo
    Links,          \* what the form may give the photos
    Batch,          \* upload-batch ids
    Click,          \* presses of the button that may be under way at once
    None,           \* no batch, no links yet, no click, or nothing
    MaxOpen         \* open jobs the server allows (and the page counts with)

VARIABLES
    selection,      \* input.files
    form,           \* the other fields
    queuedBatchIds, \* batch of a list of photos, by the list of their keys
    pending,        \* pendingBatchItems: photos kept for a retry
    clicks,         \* runBackground calls under way, or None
    message,        \* the status line, and the batch it is about
    batches,        \* batches the server has
    jobs,           \* the server's job for an item, or "none"
    keys,           \* batch of the job that has a key, or None
    wanted          \* what the user put together, without what was reported
                    \* as queued, or None once the user has changed it or the
                    \* form while a call was under way (history variable)

input   == <<selection, form>>
server  == <<batches, jobs, keys>>
page    == <<input, queuedBatchIds, pending, message, wanted>>

vars == <<page, clicks, server>>

-----------------------------------------------------------------------------
Item == Batch \X Photo
Key  == Photo \X Profile \X Link
Form == [profile : Profile, links : Links]

(* Lists of different photos.                                              *)
Selections == {s \in Seq(Photo) : \A i, j \in DOMAIN s : s[i] = s[j] => i = j}

Run ==
    [pc       : {"count", "create", "created", "reading", "posted",
                 "accepted", "refused"},
     files    : Selections,           \* the selection when it was pressed
     profile  : Profile,              \* and the profile
     links    : Links \cup {None},
     prepared : Selections,           \* those there was room for
     batch    : Batch \cup {None},
     rest     : Selections,           \* prepared photos not done yet
     accepted : SUBSET Photo]

Message ==
    [text  : {"none", "full", "already", "failed", "queued", "try again"},
     batch : Batch \cup {None}]

ASSUME WebQueueAssumption ==
    /\ Large \subseteq Photo
    /\ MaxOpen \in Nat
    /\ Links \subseteq [Photo -> Link]
    /\ None \notin Batch \cup Run

TypeOK ==
    /\ selection \in Selections
    /\ form \in Form
    /\ DOMAIN queuedBatchIds \subseteq Seq(Key)
    /\ \A s \in DOMAIN queuedBatchIds : queuedBatchIds[s] \in Batch
    /\ pending \subseteq Item
    /\ clicks \in [Click -> Run \cup {None}]
    /\ message \in Message
    /\ batches \subseteq Batch
    /\ jobs \in [Item -> {"none", "queued", "success", "failed"}]
    /\ keys \in [Key -> Batch \cup {None}]
    /\ wanted \in Selections \cup {None}

Init ==
    /\ selection = <<>>
    /\ form \in Form
    /\ queuedBatchIds = << >>
    /\ pending = {}
    /\ clicks = [c \in Click |-> None]
    /\ message = [text |-> "none", batch |-> None]
    /\ batches = {}
    /\ jobs = [i \in Item |-> "none"]
    /\ keys = [k \in Key |-> None]
    /\ wanted = <<>>

At(c, pc) == clicks[c] # None /\ clicks[c].pc = pc
Goto(c, pc) == clicks' = [clicks EXCEPT ![c].pc = pc]

(* files.filter: those that are not among the given photos, in order.      *)
Without(s, photos) ==
    LET kept[n \in 0 .. Len(s)] ==
            IF n = 0 THEN <<>>
            ELSE IF s[n] \in photos THEN kept[n - 1]
            ELSE Append(kept[n - 1], s[n])
    IN  kept[Len(s)]

Photos(s) == {s[i] : i \in DOMAIN s}

(* stableRequestKey, for a photo sent with these fields.                   *)
KeyOf(f, p)  == <<p, f.profile, f.links[p]>>
KeysOf(f, s) == [i \in DOMAIN s |-> KeyOf(f, s[i])]

(* setStatus and the end of the call.                                      *)
End(c, text, b) ==
    /\ clicks' = [clicks EXCEPT ![c] = None]
    /\ message' = [text |-> text, batch |-> b]

-----------------------------------------------------------------------------
(* The user *)

Idle == \A c \in Click : clicks[c] = None

Edit ==
    /\ wanted' = IF Idle THEN selection' ELSE None
    /\ UNCHANGED <<queuedBatchIds, pending, clicks, message, server>>

(* Drag and drop, paste, or the file dialog; a second copy is never ready. *)
AddPhoto(p) ==
    /\ p \notin Photos(selection)
    /\ selection' = Append(selection, p)
    /\ UNCHANGED form
    /\ Edit

RemovePhoto(p) ==
    /\ p \in Photos(selection)
    /\ selection' = Without(selection, {p})
    /\ UNCHANGED form
    /\ Edit

EditForm ==
    /\ form' \in Form \ {form}
    /\ UNCHANGED selection
    /\ Edit

Press(c) ==
    /\ clicks[c] = None
    /\ selection # <<>>
    /\ clicks' = [clicks EXCEPT ![c] =
           [pc |-> "count", files |-> selection, profile |-> form.profile,
            links |-> None, prepared |-> <<>>, batch |-> None, rest |-> <<>>,
            accepted |-> {}]]
    /\ wanted' = IF Idle THEN selection ELSE wanted
    /\ UNCHANGED <<input, queuedBatchIds, pending, message, server>>

(* loadUploadBatch lets go of the items it shows as estimated.             *)
View(b) ==
    /\ pending' = {i \in pending : i[1] = b => jobs[i] # "success"}
    /\ UNCHANGED <<input, queuedBatchIds, clicks, message, wanted, server>>

(* retryBatchItem, answered with success.                                  *)
RetryItem(i) ==
    /\ i \in pending
    /\ jobs[i] = "failed"
    /\ jobs' = [jobs EXCEPT ![i] = "queued"]
    /\ UNCHANGED <<page, clicks, batches, keys>>

-----------------------------------------------------------------------------
(* The call of runBackground, from one await to the next *)

Open == {i \in Item : jobs[i] = "queued"}

(* GET /api/jobs has an answer; one that is not a list counts as none.  A  *)
(* list of the same photos with the same fields has its batch.             *)
Count(c) ==
    /\ At(c, "count")
    /\ \E open \in {0, Cardinality(Open)} :
         IF open >= MaxOpen
         THEN /\ End(c, "full", None)
              /\ UNCHANGED <<input, queuedBatchIds, pending, wanted>>
         ELSE LET files == clicks[c].files
                  room  == MaxOpen - open
                  some  == SubSeq(files, 1, IF room < Len(files) THEN room ELSE Len(files))
                  r     == [clicks[c] EXCEPT !.pc = "create", !.links = form.links,
                                             !.prepared = some]
                  key   == KeysOf(r, some)
              IN  IF key \in DOMAIN queuedBatchIds
                  THEN /\ End(c, "already", queuedBatchIds[key])
                       /\ UNCHANGED <<input, queuedBatchIds, pending, wanted>>
                  ELSE /\ clicks' = [clicks EXCEPT ![c] = r]
                       /\ UNCHANGED page
    /\ UNCHANGED server

(* The server creates the batch.                                           *)
CreateBatch(c) ==
    /\ At(c, "create")
    /\ \E b \in Batch \ batches :
         /\ batches' = batches \cup {b}
         /\ clicks' = [clicks EXCEPT ![c].pc = "created", ![c].batch = b]
    /\ UNCHANGED <<page, jobs, keys>>

(* To the next photo, which is kept for a retry before it is read; after   *)
(* the last one the accepted photos leave the selection.                   *)
Continue(c, rest, accepted, kept, stopped) ==
    LET r == clicks[c] IN
    /\ IF rest # <<>> /\ ~stopped
       THEN /\ clicks' = [clicks EXCEPT ![c].pc = "reading", ![c].rest = rest,
                                        ![c].accepted = accepted]
            /\ pending' = kept \cup {<<r.batch, Head(rest)>>}
            /\ UNCHANGED <<selection, message, wanted>>
       ELSE IF accepted # {}
       THEN /\ End(c, "queued", r.batch)
            /\ selection' = Without(r.files, accepted)
            /\ wanted' = IF wanted = None THEN None ELSE Without(wanted, accepted)
            /\ pending' = kept
       ELSE /\ End(c, "try again", r.batch)
            /\ pending' = {i \in kept : i[1] # r.batch}
            /\ UNCHANGED <<selection, wanted>>
    /\ UNCHANGED form

Created(c) ==
    /\ At(c, "created")
    /\ LET key == KeysOf(clicks[c], clicks[c].prepared) IN
       queuedBatchIds' = [s \in DOMAIN queuedBatchIds \cup {key} |->
                             IF s = key THEN clicks[c].batch ELSE queuedBatchIds[s]]
    /\ Continue(c, clicks[c].prepared, {}, pending, FALSE)
    /\ UNCHANGED server

(* fileToDataUrl has an image; one that is too large is left out.          *)
Read(c) ==
    /\ At(c, "reading")
    /\ LET r == clicks[c]
           p == Head(r.rest)
       IN  IF p \in Large
           THEN Continue(c, Tail(r.rest), r.accepted, pending \ {<<r.batch, p>>}, FALSE)
           ELSE /\ Goto(c, "posted")
                /\ UNCHANGED <<input, pending, message, wanted>>
    /\ UNCHANGED <<queuedBatchIds, server>>

(* POST /api/jobs, at the server: a key names one job.                     *)
Accept(c) ==
    /\ At(c, "posted")
    /\ LET r == clicks[c]
           p == Head(r.rest)
       IN  /\ keys[KeyOf(r, p)] = None
           /\ jobs' = [jobs EXCEPT ![<<r.batch, p>>] = "queued"]
           /\ keys' = [keys EXCEPT ![KeyOf(r, p)] = r.batch]
    /\ Cardinality(Open) < MaxOpen
    /\ Goto(c, "accepted")
    /\ UNCHANGED <<page, batches>>

Refuse(c) ==
    /\ At(c, "posted")
    /\ Goto(c, "refused")
    /\ UNCHANGED <<page, server>>

Accepted(c) ==
    /\ At(c, "accepted")
    /\ LET r == clicks[c] IN
       Continue(c, Tail(r.rest), r.accepted \cup {Head(r.rest)}, pending, FALSE)
    /\ UNCHANGED <<queuedBatchIds, server>>

(* Broken variant: any answer counts as an accepted photo. *)
RefusedCounted(c) ==
    /\ At(c, "refused")
    /\ LET r == clicks[c] IN
       Continue(c, Tail(r.rest), r.accepted \cup {Head(r.rest)}, pending, TRUE)
    /\ UNCHANGED <<queuedBatchIds, server>>

(* Broken variant: the other photos are still submitted. *)
RefusedGoesOn(c) ==
    /\ At(c, "refused")
    /\ LET r == clicks[c] IN
       Continue(c, Tail(r.rest), r.accepted, pending \ {<<r.batch, Head(r.rest)>>}, FALSE)
    /\ UNCHANGED <<queuedBatchIds, server>>

(* A refusal ends the loop, whatever its reason.                           *)
Refused(c) ==
    /\ At(c, "refused")
    /\ LET r == clicks[c] IN
       Continue(c, Tail(r.rest), r.accepted, pending \ {<<r.batch, Head(r.rest)>>}, TRUE)
    /\ UNCHANGED <<queuedBatchIds, server>>

(* Broken variant: the item is taken for refused. *)
GivesUpForgets(c) ==
    /\ clicks[c] # None
    /\ End(c, "failed", clicks[c].batch)
    /\ pending' = {i \in pending : i[1] # clicks[c].batch}
    /\ UNCHANGED <<input, queuedBatchIds, wanted, server>>

(* Any await may fail: no connection, an answer that got lost, a file that *)
(* cannot be read, a batch that was not created.  What the server has done *)
(* is done.                                                                *)
GivesUp(c) ==
    /\ clicks[c] # None
    /\ End(c, "failed", clicks[c].batch)
    /\ UNCHANGED <<input, queuedBatchIds, pending, wanted, server>>

-----------------------------------------------------------------------------
(* The job ends; "failed" stands for cancelled and expired as well.        *)
Work(i) ==
    /\ jobs[i] = "queued"
    /\ \E outcome \in {"success", "failed"} : jobs' = [jobs EXCEPT ![i] = outcome]
    /\ UNCHANGED <<page, clicks, batches, keys>>

User ==
    \/ \E p \in Photo : AddPhoto(p) \/ RemovePhoto(p)
    \/ EditForm
    \/ \E c \in Click : Press(c)
    \/ \E b \in Batch : View(b)
    \/ \E i \in Item : RetryItem(i)

Background(c) ==
    \/ Count(c)
    \/ CreateBatch(c)
    \/ Created(c)
    \/ Read(c)
    \/ Accept(c)
    \/ Refuse(c)
    \/ Accepted(c)
    \/ Refused(c)
    \/ GivesUp(c)

Next == User \/ (\E c \in Click : Background(c)) \/ \E i \in Item : Work(i)

Spec == Init /\ [][Next]_vars

-----------------------------------------------------------------------------
(* Properties *)

(* Every item the server accepted from this tab and has not estimated can  *)
(* be retried from it, also when the answer to its submission got lost, a  *)
(* second press of the button submitted the same photos, or a run ended    *)
(* with nothing queued and dropped what it had kept (app.js 33-35).        *)
RetryAvailable ==
    \A i \in Item : jobs[i] \in {"queued", "failed"} => i \in pending

(* While the user leaves the selection and the form alone, the selection   *)
(* is what it was when the button was pressed, without the photos that     *)
(* were reported as queued since: none of these comes back, though runs    *)
(* that overlap each set the selection from what it was when they began.   *)
SelectionKept == wanted # None => selection = wanted

(* The page says that photos were queued only if the server has a job of   *)
(* that batch, and that none was only if it has none: a photo left out, a  *)
(* refusal and an answer that got lost are told apart (app.js 1675-1715).  *)
ReportHonest ==
    LET queued == \E p \in Photo : jobs[<<message.batch, p>>] # "none" IN
    /\ message.text = "queued" => queued
    /\ message.text = "try again" => ~queued

-----------------------------------------------------------------------------
(* What the page says, and does not keep *)

(* app.js:1710: "No photos were queued.  Review the selection and try      *)
(* again."  Trying again is not answered with a batch that has no photo.   *)
TryAgainWorks ==
    message.text = "already" => \E p \in Photo : jobs[<<message.batch, p>>] # "none"

(* app.js:1788: "1 file added - press Estimate Weight."  What a run takes  *)
(* out of the selection when it ends was there when it began.              *)
AddedStays ==
    [][\A c \in Click : clicks[c] # None /\ clicks'[c] = None =>
           Photos(selection) \ Photos(selection') \subseteq Photos(clicks[c].files)]_vars
=============================================================================
