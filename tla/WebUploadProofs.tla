--------------------------- MODULE WebUploadProofs ---------------------------
(***************************************************************************)
(* Proofs about WebUpload, for any photos, fields, keys and chunk size:    *)
(* its type invariant, SavedOnce and AccountedOnce, and that its server    *)
(* implements KeyedHistory.  SavedOnce rests on ItemsKeyed: whatever is on *)
(* its way, or saved, carries the one key of its photo and fields.         *)
(* AccountedOnce rests on Accounting: during a run a photo is in the list  *)
(* exactly when the run is through with it.                                *)
(***************************************************************************)
EXTENDS WebUpload, TLAPS

-----------------------------------------------------------------------------
(* Type correctness *)

LEMMA PushType ==
    ASSUME TypeOK, NEW photos, NEW good, Push(photos, good)
    PROVE  /\ entries' \in [Photo -> Nat]
           /\ label' \in [Photo -> {"none", "problem", "failed", "ok"}]
BY DEF TypeOK, Push

LEMMA AbandonType ==
    ASSUME TypeOK, Abandon
    PROVE  server' \subseteq Work
<1>1. PICK lost : server' = {[w EXCEPT !.live = FALSE] : w \in server \ lost}
    BY DEF Abandon
<1>2. \A w \in Work : [w EXCEPT !.live = FALSE] \in Work
    BY DEF Work
<1> QED BY <1>1, <1>2 DEF TypeOK

LEMMA FinishType ==
    ASSUME TypeOK, NEW c \in BOOLEAN, Finish(c)
    PROVE  /\ run' \in Run \cup {None}
           /\ report' \in {"none", "done", "cancelled"}
BY DEF TypeOK, Finish

(* The parts of a run that an answer changes. *)
LEMMA RunType ==
    ASSUME TypeOK, Busy
    PROVE  /\ run \in Run
           /\ \A x \in SUBSET Item : [run EXCEPT !.pc = "loop", !.chunk = x] \in Run
           /\ [run EXCEPT !.pc = "waiting"] \in Run
           /\ [run EXCEPT !.pc = "loop", !.single = TRUE] \in Run
           /\ [run EXCEPT !.pc = "flight", !.again = TRUE] \in Run
           /\ \A g \in SUBSET Photo : [run EXCEPT !.good = g] \in Run
<1>1. run \in Run
    BY DEF TypeOK, Busy
<1> QED BY <1>1 DEF Run

LEMMA EnterType ==
    ASSUME TypeOK, Busy, NEW good \in SUBSET Photo, Enter(good)
    PROVE  /\ entries' \in [Photo -> Nat]
           /\ label' \in [Photo -> {"none", "problem", "failed", "ok"}]
           /\ run' \in Run \cup {None}
           /\ report' \in {"none", "done", "cancelled"}
<1>1. CASE run.kind = "retry"
    <2>1. Finish(cancelRequested)
        BY <1>1 DEF Enter
    <2>2. run' \in Run \cup {None} /\ report' \in {"none", "done", "cancelled"}
        BY <2>1, FinishType DEF TypeOK
    <2> QED BY <1>1, <2>2 DEF Enter, TypeOK
<1>2. CASE run.kind # "retry"
    <2>1. Push(Photos(run.sent), good) /\ UNCHANGED report
        BY <1>2 DEF Enter
    <2>2. run' = [run EXCEPT !.pc = "loop", !.chunk = run.chunk \ run.sent]
        BY <1>2 DEF Enter
    <2>3. run.chunk \ run.sent \in SUBSET Item
        BY RunType DEF Run
    <2>4. run' \in Run
        BY <2>2, <2>3, RunType
    <2> QED BY <2>1, <2>4, PushType DEF TypeOK
<1> QED BY <1>1, <1>2

LEMMA FailedType ==
    ASSUME TypeOK, Busy, Failed
    PROVE  /\ entries' \in [Photo -> Nat]
           /\ label' \in [Photo -> {"none", "problem", "failed", "ok"}]
           /\ run' \in Run \cup {None}
           /\ report' \in {"none", "done", "cancelled"}
<1>1. CASE cancelRequested
    BY <1>1, FinishType DEF Failed, TypeOK
<1>2. CASE ~cancelRequested
    BY <1>2, EnterType DEF Failed
<1> QED BY <1>1, <1>2

LEMMA SendingType ==
    ASSUME TypeOK, NEW items \in SUBSET Item, Sending(items)
    PROVE  server' \subseteq Work
<1>1. [item : items, stage : {"received"}, live : {TRUE}] \subseteq Work
    BY DEF Work
<1> QED BY <1>1 DEF Sending, TypeOK

LEMMA ReplyType ==
    ASSUME TypeOK, NEW w \in server, NEW ok \in BOOLEAN, Reply(w, ok),
           w.live => Busy
    PROVE  server' \subseteq Work /\ run' \in Run \cup {None}
<1>1. server' \subseteq Work
    BY DEF Reply, TypeOK
<1>2. CASE w.live /\ ok
    <2>1. w.item.photo \in Photo
        BY DEF TypeOK, Work, Item
    <2>2. run.good \cup {w.item.photo} \in SUBSET Photo
        BY <1>2, <2>1, RunType DEF Run
    <2>3. run' = [run EXCEPT !.good = run.good \cup {w.item.photo}]
        BY <1>2 DEF Reply
    <2> QED BY <1>1, <1>2, <2>2, <2>3, RunType
<1>3. CASE ~(w.live /\ ok)
    BY <1>1, <1>3 DEF Reply, TypeOK
<1> QED BY <1>2, <1>3

(* The page waits for an item only while its request is in flight. *)
Waiting == \A w \in server : w.live => At("flight")

LEMMA NewRunType ==
    ASSUME NEW kind \in {"run", "retry"}, NEW photos \in SUBSET Photo
    PROVE  NewRun(kind, photos) \in Run /\ [NewRun(kind, photos) EXCEPT !.pc = "loop"] \in Run
BY DEF NewRun, Run

LEMMA UserType ==
    ASSUME TypeOK, User
    PROVE  TypeOK'
<1>1. CASE \E f \in Form : EditForm(f)
    BY <1>1 DEF EditForm, TypeOK, list
<1>2. ASSUME NEW photos \in SUBSET Photo, Estimate(photos) PROVE TypeOK'
    <2>1. photos \ Unusable \in SUBSET Photo
        OBVIOUS
    <2>2. run' \in {NewRun("run", photos \ Unusable),
                    [NewRun("run", photos \ Unusable) EXCEPT !.pc = "loop"]}
        BY <1>2 DEF Estimate, NewRun
    <2>3. run' \in Run
        BY <2>1, <2>2, NewRunType
    <2>4. /\ entries' \in [Photo -> Nat]
          /\ label' \in [Photo -> {"none", "problem", "failed", "ok"}]
        BY <1>2 DEF Estimate
    <2> QED BY <1>2, <2>3, <2>4 DEF Estimate, TypeOK
<1>3. ASSUME NEW p \in Photo, Retry(p) PROVE TypeOK'
    <2>1. run' \in Run
        BY <1>3, NewRunType DEF Retry
    <2> QED BY <1>3, <2>1 DEF Retry, TypeOK, page, list
<1>4. CASE Cancel
    <2>1. CASE run.pc = "flight"
        <3>1. Abandon /\ Finish(TRUE)
            BY <1>4, <2>1 DEF Cancel
        <3>2. server' \subseteq Work
            BY <3>1, AbandonType
        <3>3. run' \in Run \cup {None} /\ report' \in {"none", "done", "cancelled"}
            BY <3>1, FinishType
        <3> QED BY <1>4, <3>2, <3>3 DEF Cancel, TypeOK, page
    <2>2. CASE run.pc # "flight"
        BY <1>4, <2>2 DEF Cancel, TypeOK, page
    <2> QED BY <2>1, <2>2
<1> QED BY <1>1, <1>2, <1>3, <1>4 DEF User

LEMMA AddType ==
    ASSUME TypeOK, Busy, NEW i \in Item
    PROVE  Add(i) \in Run
<1>1. run \in Run
    BY RunType
<1>2. run.ready \cup {i} \in SUBSET Item /\ {i} \in SUBSET Item
    BY <1>1 DEF Run
<1>3. run.unread \ {i.photo} \in SUBSET Photo
    BY <1>1 DEF Run
<1> QED BY <1>1, <1>2, <1>3 DEF Add, AfterReading, Run

LEMMA ReadPhotoType ==
    ASSUME TypeOK, NEW p \in Photo, ReadPhoto(p)
    PROVE  TypeOK'
<1>1. CASE cancelRequested
    <2>1. Finish(cancelRequested) /\ UNCHANGED keys
        BY <1>1 DEF ReadPhoto
    <2>2. run' \in Run \cup {None} /\ report' \in {"none", "done", "cancelled"}
        BY <2>1, FinishType DEF TypeOK
    <2> QED BY <2>1, <2>2 DEF ReadPhoto, TypeOK
<1>2. CASE ~cancelRequested
    <2>1. PICK k \in Key :
             /\ keys' = [keys EXCEPT ![<<p, form>>] = k]
             /\ run' = Add([photo |-> p, form |-> form, key |-> k])
             /\ UNCHANGED report
        BY <1>2 DEF ReadPhoto
    <2>2. [photo |-> p, form |-> form, key |-> k] \in Item
        BY DEF Item, TypeOK
    <2>3. run' \in Run
        BY <2>1, <2>2, AddType DEF ReadPhoto, At
    <2>4. keys' \in [Photo \X Form -> Key \cup {None}]
        BY <2>1 DEF TypeOK
    <2> QED BY <2>1, <2>3, <2>4 DEF ReadPhoto, TypeOK
<1> QED BY <1>1, <1>2

LEMMA ReadFailsType ==
    ASSUME TypeOK, NEW p \in Photo, ReadFails(p)
    PROVE  TypeOK'
<1>1. /\ entries' \in [Photo -> Nat]
      /\ label' \in [Photo -> {"none", "problem", "failed", "ok"}]
    <2>1. CASE run.kind = "run"
        BY <2>1, PushType DEF ReadFails
    <2>2. CASE run.kind # "run"
        BY <2>2 DEF ReadFails, TypeOK
    <2> QED BY <2>1, <2>2
<1>2. run' \in Run \cup {None} /\ report' \in {"none", "done", "cancelled"}
    <2>1. CASE run.kind = "retry" \/ cancelRequested
        BY <2>1, FinishType DEF ReadFails, TypeOK
    <2>2. CASE ~(run.kind = "retry" \/ cancelRequested)
        <3>1. run \in Run
            BY RunType DEF ReadFails, At
        <3>2. run' = [run EXCEPT !.unread = run.unread \ {p},
                                 !.pc = AfterReading(run.unread \ {p})]
            BY <2>2 DEF ReadFails
        <3>3. run' \in Run
            <4>1. AfterReading(run.unread \ {p}) \in {"reading", "loop"}
                BY DEF AfterReading
            <4>2. run.unread \ {p} \in SUBSET Photo
                BY <3>1 DEF Run
            <4> QED BY <3>1, <3>2, <4>1, <4>2 DEF Run
        <3> QED BY <2>2, <3>3 DEF ReadFails, TypeOK
    <2> QED BY <2>1, <2>2
<1> QED BY <1>1, <1>2 DEF ReadFails, TypeOK, page

LEMMA SendChunkType ==
    ASSUME TypeOK, SendChunk
    PROVE  TypeOK'
<1>1. run \in Run
    BY RunType DEF SendChunk, At
<1>2. PICK items \in SUBSET run.ready :
         /\ run' = [run EXCEPT !.pc = "flight", !.ready = run.ready \ items,
                               !.chunk = items, !.single = FALSE,
                               !.sent = items, !.again = FALSE, !.good = {}]
         /\ Sending(items)
    BY DEF SendChunk
<1>3. items \in SUBSET Item /\ run.ready \ items \in SUBSET Item
    BY <1>1 DEF Run
<1>4. run' \in Run
    BY <1>1, <1>2, <1>3 DEF Run
<1>5. server' \subseteq Work
    BY <1>2, <1>3, SendingType
<1> QED BY <1>4, <1>5 DEF SendChunk, TypeOK, page, list

LEMMA SendSingleType ==
    ASSUME TypeOK, SendSingle
    PROVE  TypeOK'
<1>1. run \in Run
    BY RunType DEF SendSingle, At
<1>2. PICK i \in run.chunk :
         /\ run' = [run EXCEPT !.pc = "flight", !.sent = {i},
                               !.again = FALSE, !.good = {}]
         /\ Sending({i})
    BY DEF SendSingle
<1>3. {i} \in SUBSET Item
    BY <1>1 DEF Run
<1>4. run' \in Run
    BY <1>1, <1>2, <1>3 DEF Run
<1>5. server' \subseteq Work
    BY <1>2, <1>3, SendingType
<1> QED BY <1>4, <1>5 DEF SendSingle, TypeOK, page, list

LEMMA WaitOverType ==
    ASSUME TypeOK, WaitOver
    PROVE  TypeOK'
<1>1. run' \in Run
    BY RunType DEF WaitOver, At
<1>2. run.sent \in SUBSET Item
    BY RunType DEF WaitOver, At, Run
<1>3. server' \subseteq Work
    BY <1>2, SendingType DEF WaitOver
<1> QED BY <1>1, <1>3 DEF WaitOver, TypeOK, page, list

LEMMA EndRunType ==
    ASSUME TypeOK, EndRun
    PROVE  TypeOK'
BY FinishType DEF EndRun, TypeOK, page

LEMMA AnswerType ==
    ASSUME TypeOK, Answered \/ BusyAnswer \/ TooLarge \/ GivesUp
    PROVE  TypeOK'
<1> USE DEF page, list
<1>1. Busy
    BY DEF Answered, BusyAnswer, TooLarge, GivesUp, At
<1>2. server' \subseteq Work
    <2>1. CASE GivesUp
        BY <2>1, AbandonType DEF GivesUp
    <2>2. CASE ~GivesUp
        BY <2>2 DEF Answered, BusyAnswer, TooLarge, TypeOK
    <2> QED BY <2>1, <2>2
<1>3. /\ entries' \in [Photo -> Nat]
      /\ label' \in [Photo -> {"none", "problem", "failed", "ok"}]
      /\ run' \in Run \cup {None}
      /\ report' \in {"none", "done", "cancelled"}
    <2>1. CASE Failed
        BY <1>1, <2>1, FailedType
    <2>2. CASE Answered /\ Enter(run.good)
        <3>1. run.good \in SUBSET Photo
            BY <1>1, RunType DEF Run
        <3> QED BY <1>1, <2>2, <3>1, EnterType
    <2>3. CASE BusyAnswer /\ ~Failed
        BY <1>1, <2>3, RunType DEF BusyAnswer, TypeOK
    <2>4. CASE TooLarge /\ ~Failed
        BY <1>1, <2>4, RunType DEF TooLarge, TypeOK
    <2> QED BY <2>1, <2>2, <2>3, <2>4 DEF Answered, GivesUp
<1> QED BY <1>2, <1>3 DEF Answered, BusyAnswer, TooLarge, GivesUp, TypeOK

LEMMA ServerType ==
    ASSUME TypeOK, Waiting, Server
    PROVE  TypeOK'
<1> USE DEF page, list
<1>1. PICK w \in server : Begin(w) \/ Complete(w) \/ NoResult(w)
    BY DEF Server
<1>2. w.live => Busy
    BY DEF Waiting, At
<1>3. CASE Begin(w)
    <2>1. CASE HasRow(w.item.key)
        <3>1. Reply(w, TRUE)
            BY <1>3, <2>1 DEF Begin
        <3>2. server' \subseteq Work /\ run' \in Run \cup {None}
            BY <1>2, <3>1, ReplyType
        <3> QED BY <1>3, <3>2 DEF Begin, TypeOK
    <2>2. CASE ~HasRow(w.item.key)
        <3>1. [w EXCEPT !.stage = "inferring"] \in Work
            BY DEF TypeOK, Work
        <3>2. server' \subseteq Work
            BY <1>3, <2>2, <3>1 DEF Begin, TypeOK
        <3> QED BY <1>3, <2>2, <3>2 DEF Begin, TypeOK
    <2> QED BY <2>1, <2>2
<1>4. CASE Complete(w)
    <2>1. server' \subseteq Work /\ run' \in Run \cup {None}
        BY <1>2, <1>4, ReplyType DEF Complete
    <2>2. w.item \in Item
        BY DEF TypeOK, Work
    <2>3. rows' \subseteq Item
        BY <1>4, <2>2 DEF Complete, TypeOK
    <2> QED BY <1>4, <2>1, <2>3 DEF Complete, TypeOK
<1>5. CASE NoResult(w)
    <2>1. server' \subseteq Work /\ run' \in Run \cup {None}
        BY <1>2, <1>5, ReplyType DEF NoResult
    <2> QED BY <1>5, <2>1 DEF NoResult, TypeOK
<1> QED BY <1>1, <1>3, <1>4, <1>5

LEMMA TypeStep ==
    ASSUME TypeOK, Waiting, [Next]_vars
    PROVE  TypeOK'
<1>1. CASE Page
    <2>1. CASE \E p \in Photo : ReadPhoto(p) \/ ReadFails(p)
        BY <2>1, ReadPhotoType, ReadFailsType
    <2> QED BY <1>1, <2>1, SendChunkType, SendSingleType, WaitOverType, AnswerType,
               EndRunType DEF Page
<1>2. CASE UNCHANGED vars
    BY <1>2 DEF vars, TypeOK
<1> QED BY <1>1, <1>2, UserType, ServerType DEF Next

-----------------------------------------------------------------------------
(* Waiting *)

LEMMA AbandonedAll ==
    ASSUME TypeOK, Abandon
    PROVE  \A w \in server' : ~w.live
<1>1. PICK lost : server' = {[w EXCEPT !.live = FALSE] : w \in server \ lost}
    BY DEF Abandon
<1>2. \A w \in server : [w EXCEPT !.live = FALSE].live = FALSE
    BY DEF TypeOK, Work
<1> QED BY <1>1, <1>2

LEMMA ReplyPc ==
    ASSUME TypeOK, NEW w \in server, NEW ok \in BOOLEAN, Reply(w, ok),
           At("flight")
    PROVE  At("flight")'
<1>1. run \in Run
    BY RunType DEF At
<1>2. [run EXCEPT !.good = run.good \cup {w.item.photo}] # None
    <2>1. CASE w.live
        <3>1. run.good \cup {w.item.photo} \in SUBSET Photo
            BY <1>1 DEF TypeOK, Work, Item, Run
        <3> QED BY <1>1, <3>1, RunType, UploadAssumption DEF At
    <2>2. CASE ~w.live
        <3>1. w.item.photo \in Photo
            BY DEF TypeOK, Work, Item
        <3>2. run.good \cup {w.item.photo} \in SUBSET Photo
            BY <1>1, <3>1 DEF Run
        <3> QED BY <1>1, <3>2, RunType, UploadAssumption DEF At
    <2> QED BY <2>1, <2>2
<1> QED BY <1>1, <1>2 DEF Reply, At, Busy, Run

LEMMA WaitingStep ==
    ASSUME TypeOK, Waiting, [Next]_vars
    PROVE  Waiting'
<1> USE DEF page, list
<1>1. CASE UNCHANGED vars
    BY <1>1 DEF vars, Waiting, At, Busy
<1>2. CASE User
    <2>1. CASE \E f \in Form : EditForm(f)
        BY <2>1 DEF EditForm, Waiting, At, Busy
    <2>2. CASE \/ \E photos \in SUBSET Photo : Estimate(photos)
               \/ \E p \in Photo : Retry(p)
        <3>1. ~Busy /\ server' = server
            BY <2>2 DEF Estimate, Retry
        <3> QED BY <3>1 DEF Waiting, At
    <2>3. CASE Cancel /\ run.pc = "flight"
        BY <2>3, AbandonedAll DEF Cancel, Waiting
    <2>4. CASE Cancel /\ run.pc # "flight"
        BY <2>4 DEF Cancel, Waiting, At
    <2> QED BY <1>2, <2>1, <2>2, <2>3, <2>4 DEF User
<1>3. CASE Page
    <2>1. CASE \/ \E p \in Photo : ReadPhoto(p) \/ ReadFails(p)
               \/ EndRun
        <3>1. server' = server /\ ~At("flight")
            BY <2>1 DEF ReadPhoto, ReadFails, EndRun, At
        <3> QED BY <3>1 DEF Waiting
    <2>2. CASE SendChunk \/ SendSingle \/ WaitOver
        <3>1. run \in Run
            BY <2>2, RunType DEF SendChunk, SendSingle, WaitOver, At
        <3>2. run'.pc = "flight"
            BY <2>2, <3>1 DEF SendChunk, SendSingle, WaitOver, Run
        <3>3. run' \in Run
            <4>1. CASE WaitOver
                BY <4>1, RunType DEF WaitOver, At
            <4>2. CASE SendChunk
                <5>1. PICK items \in SUBSET run.ready :
                         run' = [run EXCEPT !.pc = "flight", !.ready = run.ready \ items,
                               !.chunk = items, !.single = FALSE,
                               !.sent = items, !.again = FALSE, !.good = {}]
                    BY <4>2 DEF SendChunk
                <5> QED BY <3>1, <5>1 DEF Run
            <4>3. CASE SendSingle
                <5>1. PICK i \in run.chunk :
                         run' = [run EXCEPT !.pc = "flight", !.sent = {i},
                               !.again = FALSE, !.good = {}]
                    BY <4>3 DEF SendSingle
                <5> QED BY <3>1, <5>1 DEF Run
            <4> QED BY <2>2, <4>1, <4>2, <4>3
        <3>4. run' # None
            BY <3>3, UploadAssumption
        <3> QED BY <3>2, <3>4 DEF Waiting, At, Busy
    <2>3. CASE Answered
        BY <2>3 DEF Answered, Live, Waiting
    <2>4. CASE BusyAnswer \/ TooLarge
        BY <2>4 DEF BusyAnswer, TooLarge, Live, Waiting
    <2>5. CASE GivesUp
        BY <2>5, AbandonedAll DEF GivesUp, Waiting
    <2> QED BY <1>3, <2>1, <2>2, <2>3, <2>4, <2>5 DEF Page
<1>4. CASE Server
    <2>1. PICK w \in server : Begin(w) \/ Complete(w) \/ NoResult(w)
        BY <1>4 DEF Server
    <2>2. CASE \E ok \in BOOLEAN : Reply(w, ok)
        <3>1. server' \subseteq server
            BY <2>2 DEF Reply
        <3>2. At("flight") => At("flight")'
            BY <2>2, ReplyPc
        <3> QED BY <3>1, <3>2 DEF Waiting
    <2>3. CASE Begin(w) /\ ~HasRow(w.item.key)
        <3>1. server' = (server \ {w}) \cup {[w EXCEPT !.stage = "inferring"]}
            BY <2>3 DEF Begin
        <3>2. [w EXCEPT !.stage = "inferring"].live = w.live
            BY DEF TypeOK, Work
        <3>3. At("flight")' = At("flight")
            BY <2>3 DEF Begin, At, Busy
        <3> QED BY <3>1, <3>2, <3>3 DEF Waiting
    <2> QED BY <2>1, <2>2, <2>3 DEF Begin, Complete, NoResult
<1> QED BY <1>1, <1>2, <1>3, <1>4 DEF Next

-----------------------------------------------------------------------------
(* Keys *)

OnPage == IF Busy THEN run.ready \cup run.chunk \cup run.sent ELSE {}
OnServer == {w.item : w \in server}
Keyed(i) == i.key = keys[<<i.photo, i.form>>]

(* Every item on the page, on the server or in the history carries the key *)
(* the page keeps for its photo and fields.                                *)
ItemsKeyed == \A i \in OnPage \cup OnServer \cup rows : Keyed(i)

LEMMA ItemsTyped ==
    ASSUME TypeOK
    PROVE  OnPage \cup OnServer \cup rows \subseteq Item
<1>1. OnPage \subseteq Item
    BY RunType DEF OnPage, Run
<1> QED BY <1>1 DEF OnServer, TypeOK, Work

LEMMA NoRunType == None \notin Run
BY UploadAssumption

(* Where the items of the next state come from. *)
LEMMA EnterItems ==
    ASSUME TypeOK, Busy, NEW good, Enter(good)
    PROVE  OnPage' \subseteq OnPage
<1>1. run \in Run
    BY RunType
<1> QED BY <1>1 DEF Enter, Finish, OnPage, Busy, Run

LEMMA FailedItems ==
    ASSUME TypeOK, Busy, Failed
    PROVE  OnPage' \subseteq OnPage
BY EnterItems DEF Failed, Finish, OnPage, Busy

LEMMA AbandonItems ==
    ASSUME TypeOK, Abandon
    PROVE  OnServer' \subseteq OnServer
<1>1. PICK lost : server' = {[w EXCEPT !.live = FALSE] : w \in server \ lost}
    BY DEF Abandon
<1>2. \A w \in server : [w EXCEPT !.live = FALSE].item = w.item
    BY DEF TypeOK, Work
<1> QED BY <1>1, <1>2 DEF OnServer

LEMMA ReplyItems ==
    ASSUME TypeOK, Waiting, NEW w \in server, NEW ok \in BOOLEAN, Reply(w, ok)
    PROVE  OnPage' \subseteq OnPage /\ OnServer' \subseteq OnServer
<1>1. OnServer' \subseteq OnServer
    BY DEF Reply, OnServer
<1>2. CASE w.live /\ ok
    <2>1. run \in Run
        BY <1>2, RunType DEF Waiting, At
    <2> QED BY <1>1, <1>2, <2>1 DEF Reply, OnPage, Busy, Run, Waiting, At
<1>3. CASE ~(w.live /\ ok)
    BY <1>1, <1>3 DEF Reply, OnPage, Busy
<1> QED BY <1>2, <1>3

LEMMA UserItems ==
    ASSUME TypeOK, User
    PROVE  OnPage' \subseteq OnPage /\ OnServer' \subseteq OnServer
<1>1. CASE \E f \in Form : EditForm(f)
    BY <1>1 DEF EditForm, OnPage, OnServer, Busy
<1>2. CASE \E photos \in SUBSET Photo : Estimate(photos)
    BY <1>2 DEF Estimate, NewRun, OnPage, OnServer, Busy
<1>3. CASE \E p \in Photo : Retry(p)
    BY <1>3 DEF Retry, NewRun, OnPage, OnServer, Busy
<1>4. CASE Cancel
    BY <1>4, AbandonItems DEF Cancel, Finish, OnPage, OnServer, Busy
<1> QED BY <1>1, <1>2, <1>3, <1>4 DEF User

LEMMA SendItems ==
    ASSUME TypeOK, SendChunk \/ SendSingle \/ WaitOver
    PROVE  OnPage' \subseteq OnPage /\ OnServer' \subseteq OnServer \cup OnPage
<1>1. run \in Run /\ Busy
    BY RunType DEF SendChunk, SendSingle, WaitOver, At
<1>2. \A items : Sending(items) => OnServer' \subseteq OnServer \cup items
    BY DEF Sending, OnServer
<1>3. CASE SendChunk
    <2>1. PICK items \in SUBSET run.ready :
             /\ run' = [run EXCEPT !.pc = "flight", !.ready = run.ready \ items,
                                   !.chunk = items, !.single = FALSE,
                                   !.sent = items, !.again = FALSE, !.good = {}]
             /\ Sending(items)
        BY <1>3 DEF SendChunk
    <2>2. run'.ready \cup run'.chunk \cup run'.sent \subseteq run.ready
        BY <1>1, <2>1 DEF Run
    <2> QED BY <1>1, <1>2, <2>1, <2>2 DEF OnPage
<1>4. CASE SendSingle
    <2>1. PICK i \in run.chunk :
             /\ run' = [run EXCEPT !.pc = "flight", !.sent = {i},
                                   !.again = FALSE, !.good = {}]
             /\ Sending({i})
        BY <1>4 DEF SendSingle
    <2>2. run'.ready \cup run'.chunk \cup run'.sent \subseteq run.ready \cup run.chunk
        BY <1>1, <2>1 DEF Run
    <2> QED BY <1>1, <1>2, <2>1, <2>2 DEF OnPage
<1>5. CASE WaitOver
    <2>1. run'.ready \cup run'.chunk \cup run'.sent
              \subseteq run.ready \cup run.chunk \cup run.sent
        BY <1>1, <1>5 DEF WaitOver, Run
    <2> QED BY <1>1, <1>2, <1>5, <2>1 DEF WaitOver, OnPage
<1> QED BY <1>3, <1>4, <1>5

LEMMA AnswerItems ==
    ASSUME TypeOK, Answered \/ BusyAnswer \/ TooLarge \/ GivesUp
    PROVE  OnPage' \subseteq OnPage /\ OnServer' \subseteq OnServer
<1>1. run \in Run /\ Busy
    BY RunType DEF Answered, BusyAnswer, TooLarge, GivesUp, At
<1>2. OnServer' \subseteq OnServer
    <2>1. CASE GivesUp
        BY <2>1, AbandonItems DEF GivesUp
    <2>2. CASE ~GivesUp
        BY <2>2 DEF Answered, BusyAnswer, TooLarge, OnServer
    <2> QED BY <2>1, <2>2
<1>3. OnPage' \subseteq OnPage
    <2>1. CASE Failed
        BY <1>1, <2>1, FailedItems
    <2>2. CASE Enter(run.good)
        BY <1>1, <2>2, EnterItems
    <2>3. CASE /\ BusyAnswer \/ TooLarge
               /\ ~Failed
        BY <1>1, <2>3 DEF BusyAnswer, TooLarge, OnPage, Busy, Run
    <2> QED BY <2>1, <2>2, <2>3 DEF Answered, GivesUp
<1> QED BY <1>2, <1>3

LEMMA ServerItems ==
    ASSUME TypeOK, Waiting, Server
    PROVE  /\ OnPage' \subseteq OnPage
           /\ OnServer' \subseteq OnServer
           /\ rows' \subseteq rows \cup OnServer
<1>1. PICK w \in server : Begin(w) \/ Complete(w) \/ NoResult(w)
    BY DEF Server
<1>2. CASE Begin(w) /\ ~HasRow(w.item.key)
    <2>1. [w EXCEPT !.stage = "inferring"].item = w.item
        BY DEF TypeOK, Work
    <2> QED BY <1>2, <2>1 DEF Begin, OnServer, OnPage, Busy
<1>3. CASE \E ok \in BOOLEAN : Reply(w, ok)
    BY <1>1, <1>3, ReplyItems DEF Begin, Complete, NoResult, OnServer
<1> QED BY <1>1, <1>2, <1>3 DEF Begin, Complete, NoResult

(* The one step that gives keys, and makes an item. *)
LEMMA ReadPhotoKeyed ==
    ASSUME TypeOK, ItemsKeyed, NEW p \in Photo, ReadPhoto(p)
    PROVE  ItemsKeyed'
<1>1. CASE cancelRequested
    BY <1>1 DEF ReadPhoto, Finish, ItemsKeyed, OnPage, OnServer, Keyed, Busy
<1>2. CASE ~cancelRequested
    <2> DEFINE x == <<p, form>>
    <2>1. PICK k \in Key :
             /\ StableKey(x, k)
             /\ keys' = [keys EXCEPT ![x] = k]
             /\ run' = Add([photo |-> p, form |-> form, key |-> k])
        BY <1>2 DEF ReadPhoto
    <2>i. PICK i \in Item : i = [photo |-> p, form |-> form, key |-> k]
        BY DEF Item, TypeOK
    <2>2. run \in Run /\ Busy
        BY RunType DEF ReadPhoto, At
    <2>3. OnPage' \subseteq OnPage \cup {i}
        <3>1. run' = Add(i)
            BY <2>i, <2>1
        <3> QED BY <2>2, <3>1 DEF Add, OnPage, Run
    <2>4. OnServer' = OnServer /\ rows' = rows
        BY DEF ReadPhoto, OnServer
    <2>5. x \in Photo \X Form /\ keys \in [Photo \X Form -> Key \cup {None}]
        BY DEF TypeOK
    <2>6. Keyed(i)'
        <3>1. <<i.photo, i.form>> = x /\ i.key = k
            BY <2>i
        <3>2. keys'[x] = k
            BY <2>1, <2>5
        <3> QED BY <3>1, <3>2 DEF Keyed
    <2>7. ASSUME NEW j \in OnPage \cup OnServer \cup rows
          PROVE  Keyed(j)'
        <3>1. j \in Item /\ Keyed(j)
            BY ItemsTyped DEF ItemsKeyed
        <3>2. <<j.photo, j.form>> \in Photo \X Form /\ j.key \in Key
            BY <3>1 DEF Item
        <3>3. keys[<<j.photo, j.form>>] # None
            BY <3>1, <3>2, UploadAssumption DEF Keyed
        <3>4. keys'[<<j.photo, j.form>>] = keys[<<j.photo, j.form>>]
            <4>1. CASE <<j.photo, j.form>> = x
                BY <2>1, <2>5, <3>3, <4>1 DEF StableKey
            <4>2. CASE <<j.photo, j.form>> # x
                BY <2>1, <2>5, <3>2, <4>2
            <4> QED BY <4>1, <4>2
        <3> QED BY <3>1, <3>4 DEF Keyed
    <2> QED BY <2>3, <2>4, <2>6, <2>7 DEF ItemsKeyed
<1> QED BY <1>1, <1>2

LEMMA KeyedStep ==
    ASSUME TypeOK, Waiting, ItemsKeyed, [Next]_vars
    PROVE  ItemsKeyed'
<1>1. CASE \E p \in Photo : ReadPhoto(p)
    BY <1>1, ReadPhotoKeyed
<1>2. CASE /\ UNCHANGED keys
           /\ OnPage' \cup OnServer' \cup rows' \subseteq OnPage \cup OnServer \cup rows
    BY <1>2 DEF ItemsKeyed, Keyed
<1>3. CASE UNCHANGED vars
    BY <1>2, <1>3 DEF vars, OnPage, OnServer, Busy
<1>4. CASE User
    <2>1. UNCHANGED <<keys, rows>>
        BY <1>4 DEF User, EditForm, Estimate, Retry, Cancel, page
    <2> QED BY <1>2, <1>4, <2>1, UserItems
<1>5. CASE Server
    <2>1. UNCHANGED keys
        BY <1>5 DEF Server, Begin, Complete, NoResult, page
    <2> QED BY <1>2, <1>5, <2>1, ServerItems
<1>6. CASE Page /\ ~\E p \in Photo : ReadPhoto(p)
    <2>1. UNCHANGED <<keys, rows>>
        BY <1>6 DEF Page, ReadFails, SendChunk, SendSingle, EndRun, WaitOver, Answered,
                    BusyAnswer, TooLarge, GivesUp, page
    <2>2. CASE \E p \in Photo : ReadFails(p)
        <3>1. OnPage' \subseteq OnPage /\ OnServer' = OnServer
            <4>1. run \in Run /\ Busy /\ server' = server
                BY <2>2, RunType DEF ReadFails, At
            <4>2. \/ run' = None
                  \/ \E u, pc : run' = [run EXCEPT !.unread = u, !.pc = pc]
                BY <2>2 DEF ReadFails, Finish
            <4> QED BY <4>1, <4>2 DEF OnPage, OnServer, Busy, Run
        <3> QED BY <1>2, <2>1, <3>1
    <2>3. CASE EndRun
        <3>1. OnPage' \subseteq OnPage /\ OnServer' = OnServer
            BY <2>3 DEF EndRun, Finish, OnPage, OnServer, Busy
        <3> QED BY <1>2, <2>1, <3>1
    <2> QED BY <1>2, <1>6, <2>1, <2>2, <2>3, SendItems, AnswerItems DEF Page
<1> QED BY <1>1, <1>3, <1>4, <1>5, <1>6 DEF Next

(* A row is added only when none has its key, and its key is that of its   *)
(* photo and fields.                                                       *)
LEMMA SavedStep ==
    ASSUME TypeOK, ItemsKeyed, SavedOnce, [Next]_vars
    PROVE  SavedOnce'
<1>1. CASE UNCHANGED rows
    BY <1>1 DEF SavedOnce
<1>2. CASE \E w \in server : Complete(w) /\ ~HasRow(w.item.key)
    <2>1. PICK w \in server : Complete(w) /\ ~HasRow(w.item.key)
        BY <1>2
    <2>2. rows' = rows \cup {w.item} /\ w.item \in OnServer
        BY <2>1 DEF Complete, OnServer
    <2>3. ASSUME NEW r \in rows, r.photo = w.item.photo, r.form = w.item.form
          PROVE  FALSE
        <3>1. Keyed(r) /\ Keyed(w.item)
            BY <2>2 DEF ItemsKeyed
        <3>2. r.key = w.item.key
            BY <2>3, <3>1 DEF Keyed
        <3> QED BY <2>1, <3>2 DEF HasRow
    <2> QED BY <2>2, <2>3 DEF SavedOnce
<1> QED BY <1>1, <1>2 DEF Next, vars, User, EditForm, Estimate, Retry, Cancel,
           Page, ReadPhoto, ReadFails, SendChunk, SendSingle, EndRun, WaitOver, Answered,
           BusyAnswer, TooLarge, GivesUp, Server, Begin, Complete, NoResult

KeyInv == TypeOK /\ Waiting /\ ItemsKeyed /\ SavedOnce

LEMMA InitKeyInv == Init => KeyInv
<1> SUFFICES ASSUME Init PROVE KeyInv
    OBVIOUS
<1>1. /\ keys \in [Photo \X Form -> Key \cup {None}]
      /\ entries \in [Photo -> Nat]
      /\ label \in [Photo -> {"none", "problem", "failed", "ok"}]
    BY DEF Init
<1>2. TypeOK
    BY <1>1 DEF Init, TypeOK
<1> QED BY <1>2 DEF Init, KeyInv, Waiting, ItemsKeyed, SavedOnce, OnPage,
           OnServer, Busy

THEOREM KeyInvHolds == Spec => []KeyInv
<1>1. KeyInv /\ [Next]_vars => KeyInv'
    BY TypeStep, WaitingStep, KeyedStep, SavedStep DEF KeyInv
<1> QED BY <1>1, InitKeyInv, PTL DEF Spec

(* Every variable of the page and every item on the server keeps its type. *)
THEOREM TypeCorrect == Spec => []TypeOK
<1>1. KeyInv => TypeOK
    BY DEF KeyInv
<1> QED BY <1>1, KeyInvHolds, PTL

(* Whatever is repeated, retried, timed out or cancelled, a photo with     *)
(* unchanged fields is saved once: stableRequestKey with the unique index  *)
(* of the history (app.js, db.rs).                                         *)
THEOREM SavedOnceHolds == Spec => []SavedOnce
<1>1. KeyInv => SavedOnce
    BY DEF KeyInv
<1> QED BY <1>1, KeyInvHolds, PTL

-----------------------------------------------------------------------------
(* The promise of an idempotency key *)

NamedRows == [k \in Key |-> RowsOf(k)]

LEMMA HistoryStep ==
    ASSUME TypeOK, [Next]_vars
    PROVE  [History!Next]_NamedRows
<1>1. CASE UNCHANGED rows
    BY <1>1 DEF NamedRows, RowsOf
<1>2. CASE \E w \in server : Complete(w) /\ ~HasRow(w.item.key)
    <2>1. PICK w \in server : Complete(w) /\ ~HasRow(w.item.key)
        BY <1>2
    <2>2. w.item \in Item /\ w.item.key \in Key
        BY DEF TypeOK, Work, Item
    <2>3. rows' = rows \cup {w.item}
        BY <2>1 DEF Complete
    <2>4. RowsOf(w.item.key) = {}
        BY <2>1 DEF HasRow, RowsOf
    <2>5. NamedRows' = [NamedRows EXCEPT ![w.item.key] = {w.item}]
        <3>1. \A k \in Key : RowsOf(k)' = IF k = w.item.key THEN {w.item} ELSE RowsOf(k)
            BY <2>3, <2>4 DEF RowsOf
        <3> QED BY <3>1 DEF NamedRows
    <2> QED BY <2>2, <2>4, <2>5 DEF NamedRows, History!Next, History!Save
<1> QED BY <1>1, <1>2 DEF Next, vars, User, EditForm, Estimate, Retry, Cancel,
           Page, ReadPhoto, ReadFails, SendChunk, SendSingle, EndRun, WaitOver, Answered,
           BusyAnswer, TooLarge, GivesUp, Server, Begin, Complete, NoResult

(* However requests are repeated, abandoned or answered late, a key keeps  *)
(* the row it was first given (db.rs, idx_estimates_idem).                 *)
THEOREM KeyedHistoryImplemented == Spec => ImplementsKeyedHistory
<1>1. Init => History!Init
    BY DEF Init, History!Init, RowsOf
<1>2. TypeOK /\ [Next]_vars => [History!Next]_NamedRows
    BY HistoryStep
<1> QED BY <1>1, <1>2, TypeCorrect, PTL
        DEF Spec, ImplementsKeyedHistory, History!Spec, NamedRows

-----------------------------------------------------------------------------
(* The list of results *)

Running == Busy /\ run.kind = "run"
Outstanding == run.unread \cup Photos(run.ready) \cup Photos(run.chunk)

(* The photos of a run are in one place each, and what is sent is part of  *)
(* the current chunk.                                                      *)
Shape ==
    Running =>
        /\ run.pc = "reading" => ~run.single
        /\ run.pc # "reading" => run.unread = {}
        /\ run.pc \in {"flight", "waiting"} => run.sent \subseteq run.chunk
        /\ \A i, j \in run.ready \cup run.chunk : i.photo = j.photo => i = j
        /\ \A i \in run.ready \cup run.chunk : i.photo \notin run.unread
        /\ run.ready \cap run.chunk = {}

(* The photos the run is through with are in the list once, the others     *)
(* not.                                                                    *)
Accounting ==
    Running =>
        /\ report # "done"
        /\ Outstanding \subseteq picked
        /\ \A p \in Photo :
               entries[p] = IF p \in picked \ Outstanding THEN 1 ELSE 0

ListInv == Shape /\ Accounting /\ AccountedOnce

(* Steps that leave the list, and the photos outstanding, as they are. *)
LEMMA ListKept ==
    ASSUME ListInv, UNCHANGED <<run, picked, entries, report>>
    PROVE  ListInv'
BY DEF ListInv, Shape, Accounting, AccountedOnce, Running, Outstanding, Busy,
       Photos

LEMMA OutstandingKept ==
    ASSUME TypeOK, ListInv, Running, Running', Shape',
           Outstanding' = Outstanding, UNCHANGED <<picked, entries, report>>
    PROVE  ListInv'
BY DEF ListInv, Accounting, AccountedOnce

(* A run that is cancelled, and a retry, end without "done". *)
LEMMA Stopped ==
    ASSUME TypeOK, ListInv, Busy, NEW c \in BOOLEAN, Finish(c),
           picked' = picked,
           c \/ run.kind = "retry",
           run.kind = "retry" => entries' = entries
    PROVE  ListInv'
<1>1. ~Busy'
    BY DEF Finish, Busy
<1>2. CASE run.kind = "retry"
    <2>1. AccountedOnce'
        BY <1>2 DEF Finish, ListInv, AccountedOnce
    <2> QED BY <1>1, <2>1 DEF ListInv, Shape, Accounting, Running
<1>3. CASE run.kind # "retry"
    <2>1. AccountedOnce'
        BY <1>3 DEF Finish, AccountedOnce
    <2> QED BY <1>1, <2>1 DEF ListInv, Shape, Accounting, Running
<1> QED BY <1>2, <1>3

(* Photos the run is through with are pushed once. *)
LEMMA Entered ==
    ASSUME TypeOK, ListInv, Running, Running', Shape',
           NEW photos, NEW good, Push(photos, good),
           photos \subseteq Outstanding,
           Outstanding' = Outstanding \ photos,
           UNCHANGED <<picked, report>>
    PROVE  ListInv'
<1>1. Outstanding' \subseteq picked' /\ report' # "done"
    BY DEF ListInv, Accounting
<1>2. ASSUME NEW p \in Photo
      PROVE  entries'[p] = IF p \in picked' \ Outstanding' THEN 1 ELSE 0
    <2>1. entries'[p] = entries[p] + (IF p \in photos THEN 1 ELSE 0)
        BY DEF Push
    <2>2. entries[p] = IF p \in picked \ Outstanding THEN 1 ELSE 0
        BY DEF ListInv, Accounting
    <2>3. CASE p \in photos
        <3>1. p \in Outstanding /\ p \in picked /\ p \notin Outstanding'
            BY <2>3 DEF ListInv, Accounting
        <3> QED BY <2>1, <2>2, <2>3, <3>1
    <2>4. CASE p \notin photos
        <3>1. (p \in Outstanding') <=> (p \in Outstanding)
            BY <2>4
        <3> QED BY <2>1, <2>2, <2>4, <3>1
    <2> QED BY <2>3, <2>4
<1>3. Accounting'
    BY <1>1, <1>2 DEF Accounting
<1> QED BY <1>1, <1>3 DEF ListInv, AccountedOnce

LEMMA RetryOnly ==
    ASSUME TypeOK, ListInv, Busy, run.kind = "retry",
           run' = None \/ run'.kind = "retry",
           UNCHANGED <<picked, entries, report>>
    PROVE  ListInv'
BY DEF ListInv, Shape, Accounting, AccountedOnce, Running, Busy

LEMMA EnterList ==
    ASSUME TypeOK, ListInv, Busy, run.pc = "flight", NEW good, Enter(good),
           picked' = picked
    PROVE  ListInv'
<1>1. run \in Run
    BY RunType
<1>2. CASE run.kind = "retry"
    BY <1>2, Stopped DEF Enter, TypeOK
<1>3. CASE run.kind # "retry"
    <2>1. Running
        BY <1>1, <1>3 DEF Running, Run
    <2>2. /\ Push(Photos(run.sent), good)
          /\ run' = [run EXCEPT !.pc = "loop", !.chunk = run.chunk \ run.sent]
          /\ UNCHANGED report
        BY <1>3 DEF Enter
    <2>3. run' \in Run
        <3>1. run.chunk \ run.sent \in SUBSET Item
            BY <1>1 DEF Run
        <3> QED BY <2>2, <3>1, RunType
    <2>4. Running'
        BY <1>1, <2>1, <2>2, <2>3, UploadAssumption DEF Running, Busy, Run
    <2>5. /\ run'.pc = "loop" /\ run'.unread = run.unread /\ run'.ready = run.ready
          /\ run'.chunk = run.chunk \ run.sent
        BY <1>1, <2>2 DEF Run
    <2>6. /\ run.unread = {} /\ run.sent \subseteq run.chunk
          /\ \A i, j \in run.ready \cup run.chunk : i.photo = j.photo => i = j
          /\ run.ready \cap run.chunk = {}
        BY <2>1 DEF ListInv, Shape
    <2>7. Shape'
        BY <2>4, <2>5, <2>6 DEF Shape
    <2>8. Photos(run.sent) \subseteq Outstanding
        BY <2>6 DEF Outstanding, Photos
    <2>9. Outstanding' = Outstanding \ Photos(run.sent)
        <3>1. Outstanding' = Photos(run.ready) \cup Photos(run.chunk \ run.sent)
            BY <2>5, <2>6 DEF Outstanding, Photos
        <3>2. Outstanding = Photos(run.ready) \cup Photos(run.chunk)
            BY <2>6 DEF Outstanding
        <3>3. Photos(run.chunk \ run.sent) = Photos(run.chunk) \ Photos(run.sent)
            BY <2>6 DEF Photos
        <3>4. Photos(run.ready) \cap Photos(run.sent) = {}
            BY <2>6 DEF Photos
        <3> QED BY <3>1, <3>2, <3>3, <3>4
    <2> QED BY <2>1, <2>2, <2>4, <2>7, <2>8, <2>9, Entered
<1> QED BY <1>2, <1>3

LEMMA FailedList ==
    ASSUME TypeOK, ListInv, Busy, run.pc = "flight", Failed, picked' = picked
    PROVE  ListInv'
<1>1. CASE cancelRequested
    BY <1>1, Stopped DEF Failed, TypeOK
<1>2. CASE ~cancelRequested
    BY <1>2, EnterList DEF Failed
<1> QED BY <1>1, <1>2

LEMMA UserList ==
    ASSUME TypeOK, ListInv, User
    PROVE  ListInv'
<1>1. CASE \E f \in Form : EditForm(f)
    BY <1>1, ListKept DEF EditForm, list
<1>2. ASSUME NEW photos \in SUBSET Photo, Estimate(photos) PROVE ListInv'
    <2>1. /\ run' \in {NewRun("run", photos \ Unusable),
                       [NewRun("run", photos \ Unusable) EXCEPT !.pc = "loop"]}
          /\ run'.pc = IF photos \subseteq Unusable THEN "loop" ELSE "reading"
        BY <1>2 DEF Estimate, NewRun
    <2>2. /\ run'.kind = "run" /\ run'.unread = photos \ Unusable
          /\ run'.ready = {} /\ run'.chunk = {} /\ ~run'.single
        <3> DEFINE new == NewRun("run", photos \ Unusable)
        <3>1. /\ new.kind = "run" /\ new.unread = photos \ Unusable
              /\ new.ready = {} /\ new.chunk = {} /\ ~new.single
            BY DEF NewRun
        <3>2. new \in Run
            BY NewRunType
        <3>3. run' \in {new, [new EXCEPT !.pc = "loop"]}
            BY <2>1
        <3> HIDE DEF new
        <3> QED BY <3>1, <3>2, <3>3 DEF Run
    <2>3. run' # None
        BY <2>1, NewRunType, UploadAssumption
    <2>4. Shape'
        BY <2>1, <2>2 DEF Shape
    <2>5. Outstanding' = photos \ Unusable /\ Running'
        BY <2>2, <2>3 DEF Outstanding, Photos, Running, Busy
    <2>6. /\ picked' = photos /\ report' = "none"
          /\ entries' = [p \in Photo |-> IF p \in photos \cap Unusable THEN 1 ELSE 0]
        BY <1>2 DEF Estimate
    <2>7. Accounting'
        BY <2>5, <2>6 DEF Accounting
    <2> QED BY <2>4, <2>6, <2>7 DEF ListInv, AccountedOnce
<1>3. ASSUME NEW p \in Photo, Retry(p) PROVE ListInv'
    <2>1. run'.kind = "retry" /\ UNCHANGED <<picked, entries, report>>
        BY <1>3 DEF Retry, NewRun, page, list
    <2> QED BY <2>1 DEF ListInv, Shape, Accounting, AccountedOnce, Running
<1>4. CASE Cancel
    <2>1. CASE run.pc = "flight"
        BY <1>4, <2>1, Stopped DEF Cancel, page
    <2>2. CASE run.pc # "flight"
        BY <1>4, <2>2, ListKept DEF Cancel, page
    <2> QED BY <2>1, <2>2
<1> QED BY <1>1, <1>2, <1>3, <1>4 DEF User

LEMMA ReadPhotoList ==
    ASSUME TypeOK, ListInv, NEW p \in Photo, ReadPhoto(p)
    PROVE  ListInv'
<1>1. run \in Run /\ Busy /\ run.pc = "reading" /\ p \in run.unread
    BY RunType DEF ReadPhoto, At, First
<1>2. CASE cancelRequested
    BY <1>1, <1>2, Stopped DEF ReadPhoto, TypeOK
<1>3. CASE ~cancelRequested
    <2>1. PICK i \in Item : i.photo = p /\ run' = Add(i)
        <3>1. PICK k \in Key : run' = Add([photo |-> p, form |-> form, key |-> k])
            BY <1>3 DEF ReadPhoto
        <3> QED BY <3>1 DEF Item, TypeOK
    <2>2. run' \in Run
        BY <1>1, <2>1, AddType
    <2>3. UNCHANGED <<picked, entries, report>>
        BY <1>3 DEF ReadPhoto
    <2>4. /\ run'.kind = run.kind /\ run'.unread = run.unread \ {p}
          /\ run'.single = run.single
          /\ run'.pc = IF run'.unread = {} THEN "loop" ELSE "reading"
          /\ run'.ready = IF run.single THEN run.ready ELSE run.ready \cup {i}
          /\ run'.chunk = IF run.single THEN {i} ELSE run.chunk
        BY <1>1, <2>1 DEF Add, AfterReading, Run
    <2>5. CASE run.kind = "retry"
        BY <1>1, <2>3, <2>4, <2>5, RetryOnly
    <2>6. CASE run.kind # "retry"
        <3>1. Running /\ Running'
            BY <1>1, <2>2, <2>4, <2>6, UploadAssumption DEF Running, Busy, Run
        <3>2. /\ ~run.single
              /\ \A j, l \in run.ready \cup run.chunk : j.photo = l.photo => j = l
              /\ \A j \in run.ready \cup run.chunk : j.photo \notin run.unread
              /\ run.ready \cap run.chunk = {}
            BY <1>1, <3>1 DEF ListInv, Shape
        <3>3. run'.ready = run.ready \cup {i} /\ run'.chunk = run.chunk
            BY <2>4, <3>2
        <3>4. i \notin run.chunk /\ \A j \in run.ready \cup run.chunk : j.photo # p
            BY <1>1, <2>1, <3>2
        <3>5. Shape'
            <4>1. \A j, l \in run'.ready \cup run'.chunk : j.photo = l.photo => j = l
                BY <2>1, <3>2, <3>3, <3>4
            <4>2. \A j \in run'.ready \cup run'.chunk : j.photo \notin run'.unread
                BY <2>1, <2>4, <3>2, <3>3
            <4>3. run'.ready \cap run'.chunk = {}
                BY <3>2, <3>3, <3>4
            <4> QED BY <2>4, <3>2, <4>1, <4>2, <4>3 DEF Shape
        <3>6. Outstanding' = Outstanding
            BY <1>1, <2>1, <2>4, <3>3 DEF Outstanding, Photos
        <3> QED BY <2>3, <3>1, <3>5, <3>6, OutstandingKept
    <2> QED BY <2>5, <2>6
<1> QED BY <1>2, <1>3

LEMMA ReadFailsList ==
    ASSUME TypeOK, ListInv, NEW p \in Photo, ReadFails(p)
    PROVE  ListInv'
<1>1. run \in Run /\ Busy /\ run.pc = "reading" /\ p \in run.unread
    BY RunType DEF ReadFails, At, First
<1>2. picked' = picked
    BY DEF ReadFails, page
<1>3. CASE run.kind = "retry"
    BY <1>1, <1>2, <1>3, Stopped DEF ReadFails, TypeOK
<1>4. CASE run.kind # "retry" /\ cancelRequested
    BY <1>1, <1>2, <1>4, Stopped DEF ReadFails, TypeOK
<1>5. CASE run.kind # "retry" /\ ~cancelRequested
    <2>1. /\ run' = [run EXCEPT !.unread = run.unread \ {p},
                                !.pc = AfterReading(run.unread \ {p})]
          /\ UNCHANGED report
        BY <1>5 DEF ReadFails
    <2>2. /\ run'.kind = run.kind /\ run'.unread = run.unread \ {p}
          /\ run'.pc = IF run'.unread = {} THEN "loop" ELSE "reading"
          /\ run'.ready = run.ready /\ run'.chunk = run.chunk
          /\ run'.single = run.single
        BY <1>1, <2>1 DEF AfterReading, Run
    <2>3. run' \in Run
        BY <1>1, <2>1 DEF AfterReading, Run
    <2>4. Running /\ Running'
        BY <1>1, <1>5, <2>2, <2>3, UploadAssumption DEF Running, Busy, Run
    <2>5. Push({p}, {})
        BY <2>4 DEF ReadFails, Running
    <2>6. /\ ~run.single
          /\ \A j, l \in run.ready \cup run.chunk : j.photo = l.photo => j = l
          /\ \A j \in run.ready \cup run.chunk : j.photo \notin run.unread
          /\ run.ready \cap run.chunk = {}
        BY <1>1, <2>4 DEF ListInv, Shape
    <2>7. Shape'
        BY <2>2, <2>6 DEF Shape
    <2>8. {p} \subseteq Outstanding /\ Outstanding' = Outstanding \ {p}
        BY <1>1, <2>2, <2>6 DEF Outstanding, Photos
    <2> QED BY <1>2, <2>1, <2>4, <2>5, <2>7, <2>8, Entered
<1> QED BY <1>3, <1>4, <1>5

LEMMA SendList ==
    ASSUME TypeOK, ListInv, SendChunk \/ SendSingle \/ WaitOver
    PROVE  ListInv'
<1>1. run \in Run /\ Busy /\ UNCHANGED <<picked, entries, report>>
    BY RunType DEF SendChunk, SendSingle, WaitOver, At, page, list
<1>2. /\ run' \in Run /\ run'.kind = run.kind /\ run'.pc = "flight"
      /\ run'.unread = run.unread
      /\ \/ /\ SendChunk
            /\ run'.chunk \subseteq run.ready
            /\ run'.ready = run.ready \ run'.chunk
            /\ run'.sent = run'.chunk
         \/ /\ ~SendChunk
            /\ run'.ready = run.ready
            /\ run'.chunk = run.chunk
            /\ run'.sent \subseteq run.chunk \/ (WaitOver /\ run'.sent = run.sent)
    <2>1. CASE SendChunk
        <3>1. PICK items \in SUBSET run.ready :
                 run' = [run EXCEPT !.pc = "flight", !.ready = run.ready \ items,
                                   !.chunk = items, !.single = FALSE,
                                   !.sent = items, !.again = FALSE, !.good = {}]
            BY <2>1 DEF SendChunk
        <3>2. items \in SUBSET Item /\ run.ready \ items \in SUBSET Item
            BY <1>1 DEF Run
        <3> QED BY <1>1, <2>1, <3>1, <3>2 DEF Run
    <2>2. CASE ~SendChunk /\ SendSingle
        <3>1. PICK i \in run.chunk :
                 run' = [run EXCEPT !.pc = "flight", !.sent = {i},
                                   !.again = FALSE, !.good = {}]
            BY <2>2 DEF SendSingle
        <3>2. {i} \in SUBSET Item
            BY <1>1 DEF Run
        <3> QED BY <1>1, <2>2, <3>1, <3>2 DEF Run
    <2>3. CASE ~SendChunk /\ WaitOver
        <3>1. run' = [run EXCEPT !.pc = "flight", !.again = TRUE]
            BY <2>3 DEF WaitOver
        <3> QED BY <1>1, <2>3, <3>1 DEF Run
    <2> QED BY <2>1, <2>2, <2>3
<1>3. CASE run.kind = "retry"
    BY <1>1, <1>2, <1>3, RetryOnly
<1>4. CASE run.kind # "retry"
    <2>1. Running /\ Running'
        BY <1>1, <1>2, <1>4, UploadAssumption DEF Running, Busy, Run
    <2>2. /\ run.unread = {}
          /\ WaitOver => run.sent \subseteq run.chunk
          /\ \A j, l \in run.ready \cup run.chunk : j.photo = l.photo => j = l
          /\ run.ready \cap run.chunk = {}
        BY <2>1 DEF ListInv, Shape, SendChunk, SendSingle, WaitOver, At
    <2>3. run'.ready \cup run'.chunk \subseteq run.ready \cup run.chunk
        BY <1>2
    <2>4. run'.ready \cap run'.chunk = {} /\ run'.sent \subseteq run'.chunk
        BY <1>2, <2>2
    <2>5. Shape'
        BY <1>2, <2>2, <2>3, <2>4 DEF Shape
    <2>6. Outstanding' = Outstanding
        <3>1. CASE SendChunk
            <4>1. run.chunk = {}
                BY <3>1 DEF SendChunk
            <4>2. run'.ready \cup run'.chunk = run.ready
                BY <1>2, <3>1
            <4> QED BY <1>2, <4>1, <4>2 DEF Outstanding, Photos
        <3>2. CASE ~SendChunk
            BY <1>2, <3>2 DEF Outstanding
        <3> QED BY <3>1, <3>2
    <2> QED BY <1>1, <2>1, <2>5, <2>6, OutstandingKept
<1> QED BY <1>3, <1>4

(* The only step that says "done": nothing is outstanding. *)
LEMMA EndRunList ==
    ASSUME TypeOK, ListInv, EndRun
    PROVE  ListInv'
<1>1. /\ run \in Run /\ Busy /\ run.pc = "loop" /\ Finish(cancelRequested)
      /\ UNCHANGED <<picked, entries>>
    BY RunType DEF EndRun, At, page
<1>2. CASE cancelRequested \/ run.kind = "retry"
    BY <1>1, <1>2, Stopped DEF TypeOK
<1>3. CASE ~(cancelRequested \/ run.kind = "retry")
    <2>1. Running
        BY <1>1, <1>3 DEF Running, Run
    <2>2. run.unread = {} /\ run.ready = {} /\ run.chunk = {}
        BY <1>1, <1>3, <2>1 DEF EndRun, ListInv, Shape
    <2>3. Outstanding = {}
        BY <2>2 DEF Outstanding, Photos
    <2>4. AccountedOnce'
        BY <1>1, <2>1, <2>3 DEF ListInv, Accounting, AccountedOnce
    <2>5. ~Busy'
        BY <1>1 DEF Finish, Busy
    <2> QED BY <2>4, <2>5 DEF ListInv, Shape, Accounting, Running
<1> QED BY <1>2, <1>3

(* Changes of pc, single and good between two entries. *)
LEMMA SameParts ==
    ASSUME TypeOK, ListInv, Busy, run' \in Run,
           run'.kind = run.kind, run'.unread = run.unread,
           run'.ready = run.ready, run'.chunk = run.chunk,
           run'.sent = run.sent,
           run.pc = "flight",
           run'.pc \in {"flight", "waiting", "loop"},
           UNCHANGED <<picked, entries, report>>
    PROVE  ListInv'
<1>1. CASE run.kind = "retry"
    BY <1>1, RetryOnly
<1>2. CASE run.kind # "retry"
    <2>1. run.kind = "run"
        BY <1>2, RunType DEF Run
    <2>2. Running /\ Running'
        BY <2>1, UploadAssumption DEF Running, Busy
    <2>3. Shape'
        BY <2>2 DEF ListInv, Shape
    <2>4. Outstanding' = Outstanding
        BY DEF Outstanding
    <2> QED BY <2>2, <2>3, <2>4, OutstandingKept
<1> QED BY <1>1, <1>2

LEMMA AnswerList ==
    ASSUME TypeOK, ListInv, Answered \/ BusyAnswer \/ TooLarge \/ GivesUp
    PROVE  ListInv'
<1>1. run \in Run /\ Busy /\ run.pc = "flight" /\ picked' = picked
    BY RunType DEF Answered, BusyAnswer, TooLarge, GivesUp, At, page
<1>2. CASE Failed
    BY <1>1, <1>2, FailedList
<1>3. CASE Enter(run.good)
    BY <1>1, <1>3, EnterList
<1>4. CASE BusyAnswer /\ ~Failed
    <2>1. run' = [run EXCEPT !.pc = "waiting"] /\ UNCHANGED list
        BY <1>4 DEF BusyAnswer
    <2>2. run' \in Run
        BY <1>1, <2>1, RunType
    <2>3. /\ run'.kind = run.kind /\ run'.unread = run.unread
          /\ run'.ready = run.ready /\ run'.chunk = run.chunk
          /\ run'.sent = run.sent /\ run'.pc = "waiting"
        BY <1>1, <2>1 DEF Run
    <2> QED BY <1>1, <2>1, <2>2, <2>3, SameParts DEF list
<1>5. CASE TooLarge /\ ~Failed
    <2>1. run' = [run EXCEPT !.pc = "loop", !.single = TRUE] /\ UNCHANGED list
        BY <1>5 DEF TooLarge
    <2>2. run' \in Run
        BY <1>1, <2>1, RunType
    <2>3. /\ run'.kind = run.kind /\ run'.unread = run.unread
          /\ run'.ready = run.ready /\ run'.chunk = run.chunk
          /\ run'.sent = run.sent /\ run'.pc = "loop"
        BY <1>1, <2>1 DEF Run
    <2> QED BY <1>1, <2>1, <2>2, <2>3, SameParts DEF list
<1> QED BY <1>2, <1>3, <1>4, <1>5 DEF Answered, GivesUp

LEMMA ServerList ==
    ASSUME TypeOK, Waiting, ListInv, Server
    PROVE  ListInv'
<1>1. PICK w \in server : Begin(w) \/ Complete(w) \/ NoResult(w)
    BY DEF Server
<1>2. UNCHANGED <<picked, entries, report>>
    BY <1>1 DEF Begin, Complete, NoResult, page, list
<1>3. CASE run' = run
    BY <1>2, <1>3, ListKept
<1>4. CASE run' # run
    <2>1. w.live /\ run' = [run EXCEPT !.good = run.good \cup {w.item.photo}]
        BY <1>1, <1>4 DEF Begin, Complete, NoResult, Reply
    <2>2. run \in Run /\ Busy /\ run.pc = "flight"
        BY <2>1, RunType DEF Waiting, At
    <2>3. run.good \cup {w.item.photo} \in SUBSET Photo
        BY <2>2 DEF TypeOK, Work, Item, Run
    <2>4. run' \in Run
        BY <2>1, <2>2, <2>3, RunType
    <2>5. /\ run'.kind = run.kind /\ run'.unread = run.unread
          /\ run'.ready = run.ready /\ run'.chunk = run.chunk
          /\ run'.sent = run.sent /\ run'.pc = "flight"
        BY <2>1, <2>2 DEF Run
    <2> QED BY <1>2, <2>2, <2>4, <2>5, SameParts
<1> QED BY <1>3, <1>4

LEMMA ListStep ==
    ASSUME TypeOK, Waiting, ListInv, [Next]_vars
    PROVE  ListInv'
<1>1. CASE Page
    BY <1>1, ReadPhotoList, ReadFailsList, SendList, EndRunList, AnswerList
       DEF Page
<1>2. CASE UNCHANGED vars
    BY <1>2, ListKept DEF vars
<1> QED BY <1>1, <1>2, UserList, ServerList DEF Next

(* A run that says "Done" has listed each of its photos once, whatever     *)
(* mix of chunks, repeated and single requests they went through           *)
(* (runEstimates in app.js).                                               *)
THEOREM AccountedOnceHolds == Spec => []AccountedOnce
<1>1. Init => ListInv
    BY DEF Init, ListInv, Shape, Accounting, AccountedOnce, Running, Busy
<1>2. KeyInv /\ ListInv /\ [Next]_vars => ListInv'
    BY ListStep DEF KeyInv
<1>3. ListInv => AccountedOnce
    BY DEF ListInv
<1> QED BY <1>1, <1>2, <1>3, KeyInvHolds, PTL DEF Spec
=============================================================================
