------------------------ MODULE PhotoRetentionProofs ------------------------
(***************************************************************************)
(* Proofs about PhotoRetention, for any users, photos, threads and bounds. *)
(***************************************************************************)
EXTENDS PhotoRetention, FiniteSetTheorems, TLAPS

LEMMA InitRetention == Init => RetentionInvariant
<1> SUFFICES ASSUME Init PROVE RetentionInvariant
  OBVIOUS
<1>1. Idle \in ThreadState /\ Idle.pc = "idle"
  BY RetentionAssumption DEF Idle, ThreadState
<1>2. NoSweep \in SweepState /\ NoSweep.pc = "idle"
  BY DEF NoSweep, SweepState
<1>3. TypeOK
  <2>1. restarts \in 0 .. MaxRestarts
    BY RetentionAssumption DEF Init
  <2> QED
    BY <1>1, <1>2, <2>1 DEF Init, TypeOK
<1>4. ThreadOK /\ StoredApart /\ SweptRowsGone /\ PhotoHasHistory
  BY <1>1, <1>2 DEF Init, ThreadOK, Storing, StoredApart, SweptRowsGone, PhotoHasHistory
<1> QED
  BY <1>3, <1>4 DEF RetentionInvariant

-----------------------------------------------------------------------------
(* Type correctness *)

LEMMA IdleIsThread == Idle \in ThreadState
BY RetentionAssumption DEF Idle, ThreadState

LEMMA EstimatingIs ==
  ASSUME NEW u \in User \cup {None}, NEW n \in 1 .. MaxItems
  PROVE  /\ Estimating(u, n) \in ThreadState
         /\ Estimating(u, n).pc = "save" /\ Estimating(u, n).user = u
         /\ Estimating(u, n).items = n - 1
         /\ Estimating(u, n).doomed = {} /\ Estimating(u, n).photo = None
         /\ Estimating(u, n).size = 0
<1>1. n - 1 \in 0 .. MaxItems - 1
  BY RetentionAssumption
<1> QED
  BY <1>1, IdleIsThread DEF Estimating, Idle, ThreadState, Storing

(* After an item, the thread is idle or at the next item for its user.     *)
LEMMA FollowingIs ==
  ASSUME NEW q \in ThreadState
  PROVE  /\ Following(q) \in ThreadState
         /\ Following(q).doomed = {} /\ Following(q).photo = None
         /\ Following(q).pc \in {"idle", "save"}
         /\ Following(q).pc = "save" =>
               /\ Following(q).user = q.user
               /\ Following(q).items = q.items - 1
<1>1. CASE q.items = 0
  BY <1>1, IdleIsThread DEF Following, Idle
<1>2. CASE q.items # 0
  <2>1. q.items \in 1 .. MaxItems /\ q.user \in User \cup {None}
    BY <1>2, RetentionAssumption DEF ThreadState
  <2>2. Following(q) = Estimating(q.user, q.items)
    BY <1>2 DEF Following
  <2> QED
    BY <2>1, <2>2, EstimatingIs
<1> QED
  BY <1>1, <1>2

LEMMA NextItemType ==
  ASSUME TypeOK, NEW t \in Thread, NextItem(t)
  PROVE  thread' \in [Thread -> ThreadState]
BY FollowingIs DEF NextItem, TypeOK

LEMMA StoreType ==
  ASSUME RetentionInvariant, NEW t \in Thread, Store(t)
  PROVE  TypeOK'
<1> USE IdleIsThread, RetentionAssumption, NullAssumption DEF RetentionInvariant, TypeOK
<1>1. thread[t] \in ThreadState
  OBVIOUS
<1>2. ASSUME NEW u \in User, BeginEstimate(t, u) PROVE TypeOK'
  <2>1. \A n \in 1 .. MaxItems : Estimating(u, n) \in ThreadState
    BY EstimatingIs
  <2> QED
    BY <1>2, <2>1 DEF BeginEstimate
<1>8. CASE EstimateFails(t)
  BY <1>8, NextItemType DEF EstimateFails
<1>3. CASE SaveEstimate(t)
  <2>1. PICK e \in Estimate :
          /\ estimates' = [estimates EXCEPT ![e] = thread[t].user]
          /\ \/ thread' = [thread EXCEPT ![t] =
                              [thread[t] EXCEPT !.pc = "quota", !.estimate = e]]
             \/ NextItem(t)
    BY <1>3 DEF SaveEstimate
  <2>2. [thread[t] EXCEPT !.pc = "quota", !.estimate = e] \in ThreadState
    BY <1>1 DEF ThreadState, Storing
  <2>3. thread[t].user \in User
    BY <1>3 DEF SaveEstimate, ThreadOK, Storing
  <2>4. thread' \in [Thread -> ThreadState]
    BY <2>1, <2>2, NextItemType
  <2> QED
    BY <1>3, <2>1, <2>3, <2>4 DEF SaveEstimate
<1>4. CASE CheckQuota(t)
  <2>1. PICK n \in 1 .. MaxSize :
          \/ NextItem(t)
          \/ thread' = [thread EXCEPT ![t] =
                           [thread[t] EXCEPT !.pc = "write", !.size = n]]
    BY <1>4 DEF CheckQuota
  <2>2. [thread[t] EXCEPT !.pc = "write", !.size = n] \in ThreadState
    <3>1. n \in 0 .. MaxSize
      OBVIOUS
    <3> QED
      BY <1>1, <3>1 DEF ThreadState, Storing
  <2>3. thread' \in [Thread -> ThreadState]
    BY <2>1, <2>2, NextItemType
  <2> QED
    BY <1>4, <2>3 DEF CheckQuota
<1>5. CASE WriteTemp(t)
  <2>1. PICK p \in Photo :
          /\ temps' \in {temps, temps \cup {p}}
          /\ \/ NextItem(t)
             \/ thread' = [thread EXCEPT ![t] =
                              [thread[t] EXCEPT !.pc = "rename", !.photo = p]]
    BY <1>5 DEF WriteTemp
  <2>2. [thread[t] EXCEPT !.pc = "rename", !.photo = p] \in ThreadState
    BY <1>1 DEF ThreadState, Storing
  <2>3. thread' \in [Thread -> ThreadState]
    BY <2>1, <2>2, NextItemType
  <2> QED
    BY <1>5, <2>1, <2>3 DEF WriteTemp
<1>6. CASE RenameTemp(t)
  <2>1. [thread[t] EXCEPT !.pc = "insert"] \in ThreadState
    BY <1>1 DEF ThreadState, Storing
  <2>2. thread' \in [Thread -> ThreadState]
    BY <1>6, <2>1, NextItemType DEF RenameTemp
  <2>3. thread[t].photo \in Photo
    BY <1>6 DEF RenameTemp, ThreadOK
  <2>4. files' \subseteq Photo /\ temps' \subseteq Photo
    BY <1>6, <2>3 DEF RenameTemp
  <2> QED
    BY <1>6, <2>2, <2>4 DEF RenameTemp
<1>7. CASE InsertRow(t)
  <2>1. /\ thread[t].user \in User /\ thread[t].estimate \in Estimate
        /\ thread[t].size # 0
    BY <1>7 DEF InsertRow, ThreadOK, Storing
  <2>2. NewRow(thread[t]) \in PhotoRow
    BY <1>1, <2>1 DEF NewRow, PhotoRow, ThreadState
  <2>3. rows' \in [Photo -> PhotoRow \cup {None}]
    BY <1>7, <2>2 DEF InsertRow
  <2>4. files' \subseteq Photo /\ thread' \in [Thread -> ThreadState]
    BY <1>7, NextItemType DEF InsertRow
  <2> QED
    BY <1>7, <2>3, <2>4 DEF InsertRow
<1> QED
  BY <1>2, <1>3, <1>4, <1>5, <1>6, <1>7, <1>8 DEF Store

LEMMA DeleteType ==
  ASSUME RetentionInvariant, NEW t \in Thread, Delete(t)
  PROVE  TypeOK'
<1> USE IdleIsThread, RetentionAssumption, NullAssumption DEF RetentionInvariant, TypeOK
<1>1. thread[t] \in ThreadState
  OBVIOUS
<1>2. ASSUME NEW q \in ThreadState, BeginDelete(t, q) PROVE TypeOK'
  BY <1>2 DEF BeginDelete
<1>3. ASSUME NEW p \in Photo, DeletePhoto(t, p) PROVE TypeOK'
  <2>1. [Idle EXCEPT !.pc = "next", !.doomed = {p}] \in ThreadState
    BY DEF ThreadState, Deleting
  <2> QED
    BY <1>2, <1>3, <2>1 DEF DeletePhoto
<1>4. ASSUME NEW e \in Estimate, DeleteHistory(t, e) PROVE TypeOK'
  <2>1. PICK linked \in {Linked(e), {}} :
          BeginDelete(t, [Idle EXCEPT !.pc = "forget", !.estimate = e, !.doomed = linked])
    BY <1>4 DEF DeleteHistory
  <2>2. [Idle EXCEPT !.pc = "forget", !.estimate = e, !.doomed = linked] \in ThreadState
    BY DEF ThreadState, Deleting, Linked
  <2> QED
    BY <1>2, <2>1, <2>2
<1>5. ASSUME NEW u \in User, DeleteAccount(t, u) PROVE TypeOK'
  <2>1. PICK listed \in SUBSET Photo :
          BeginDelete(t, [Idle EXCEPT !.pc = "next", !.user = u, !.doomed = listed,
                                      !.close = TRUE])
    BY <1>5 DEF DeleteAccount, PhotosOf
  <2>2. [Idle EXCEPT !.pc = "next", !.user = u, !.doomed = listed, !.close = TRUE]
            \in ThreadState
    BY DEF ThreadState, Deleting
  <2> QED
    BY <1>2, <2>1, <2>2
<1>6. ASSUME NEW E, DeleteEstimates(E)
      PROVE  /\ estimates' \in [Estimate -> User \cup {None}]
             /\ rows' \in [Photo -> PhotoRow \cup {None}]
  BY <1>6 DEF DeleteEstimates
<1>7. CASE ForgetEstimate(t)
  <2>1. [thread[t] EXCEPT !.pc = "next", !.estimate = None] \in ThreadState
    BY <1>1 DEF ThreadState, Deleting
  <2>2. thread' \in [Thread -> ThreadState]
    BY <1>7, <2>1 DEF ForgetEstimate, Answer
  <2> QED
    BY <1>6, <1>7, <2>2 DEF ForgetEstimate
<1>8. CASE DropRow(t)
  <2>1. PICK p \in thread[t].doomed :
          \/ /\ rows' = [rows EXCEPT ![p] = None]
             /\ thread' = [thread EXCEPT ![t] =
                              [thread[t] EXCEPT !.pc = "unlink", !.photo = p]]
          \/ /\ thread' = [thread EXCEPT ![t] =
                              [thread[t] EXCEPT !.doomed = thread[t].doomed \ {p}]]
             /\ UNCHANGED rows
    BY <1>8 DEF DropRow
  <2>2. /\ p \in Photo
        /\ [thread[t] EXCEPT !.pc = "unlink", !.photo = p] \in ThreadState
        /\ [thread[t] EXCEPT !.doomed = thread[t].doomed \ {p}] \in ThreadState
    BY <1>1 DEF ThreadState, Deleting
  <2>3. thread' \in [Thread -> ThreadState]
    BY <2>1, <2>2
  <2>4. rows' \in [Photo -> PhotoRow \cup {None}]
    BY <2>1, <2>2
  <2>5. UNCHANGED <<estimates, files, temps, active, sweep, serving, restarts>>
    BY <1>8 DEF DropRow
  <2> QED
    BY <2>3, <2>4, <2>5
<1>9. CASE UnlinkFile(t)
  <2> DEFINE D == thread[t].doomed \ {thread[t].photo}
  <2>1. D \in SUBSET Photo
    BY <1>1 DEF ThreadState
  <2>2. [thread[t] EXCEPT !.pc = "next", !.photo = None, !.doomed = D] \in ThreadState
    BY <1>1, <2>1 DEF ThreadState, Deleting
  <2>3. thread' = [thread EXCEPT ![t] =
                      [thread[t] EXCEPT !.pc = "next", !.photo = None, !.doomed = D]]
    BY <1>9 DEF UnlinkFile
  <2> QED
    BY <1>9, <2>2, <2>3 DEF UnlinkFile
<1>10. CASE DeleteDone(t)
  BY <1>10 DEF DeleteDone, Answer
<1>11. CASE CloseAccount(t)
  BY <1>6, <1>11 DEF CloseAccount, RemoveRows, Answer
<1> QED
  BY <1>3, <1>4, <1>5, <1>7, <1>8, <1>9, <1>10, <1>11 DEF Delete

LEMMA SweepType ==
  ASSUME RetentionInvariant, Sweep
  PROVE  TypeOK'
<1> USE RetentionAssumption, NullAssumption DEF RetentionInvariant, TypeOK
<1>1. sweep \in SweepState
  OBVIOUS
<1>2. CASE SweepBegin
  BY <1>2 DEF SweepBegin, Expired, SweepState
<1>3. CASE SweepExpired
  BY <1>3 DEF SweepExpired, SweepState
<1>4. ASSUME NEW pc \in {"check", "rows"}, NEW P \in SUBSET Photo,
             sweep' = [sweep EXCEPT !.pc = pc, !.todo = P]
      PROVE  sweep' \in SweepState
  BY <1>1, <1>4 DEF SweepState
<1>9. CASE SweepList
  BY <1>4, <1>9 DEF SweepList
<1>10. CASE SweepRows
  <2>1. {p \in Photo : rows[p] # None} \in SUBSET Photo
    OBVIOUS
  <2> QED
    BY <1>4, <1>10, <2>1 DEF SweepRows
<1>5. CASE SweepCheck
  BY <1>5 DEF SweepCheck, SweepState
<1>6. CASE SweepOrphan
  BY <1>6 DEF SweepOrphan, SweepState
<1>7. CASE SweepMissing
  BY <1>7 DEF SweepMissing, SweepState
<1>8. CASE SweepDone
  BY <1>8 DEF SweepDone, NoSweep, SweepState
<1> QED
  BY <1>2, <1>3, <1>5, <1>6, <1>7, <1>8, <1>9, <1>10 DEF Sweep

LEMMA RestType ==
  ASSUME RetentionInvariant, Restart \/ Tick \/ \E u \in User : RemoveUser(u)
  PROVE  TypeOK'
<1> USE IdleIsThread, RetentionAssumption, NullAssumption DEF RetentionInvariant, TypeOK
<1>1. CASE Restart
  <2>1. restarts' \in 0 .. MaxRestarts
    BY <1>1 DEF Restart
  <2> QED
    BY <1>1, <2>1 DEF Restart, NoSweep, SweepState
<1>2. CASE Tick
  <2>1. ASSUME NEW q \in PhotoRow, q.left > 0 PROVE [q EXCEPT !.left = q.left - 1] \in PhotoRow
    BY <2>1 DEF PhotoRow
  <2> QED
    BY <1>2, <2>1 DEF Tick
<1>3. ASSUME NEW u \in User, RemoveUser(u) PROVE TypeOK'
  <2>1. /\ estimates' \in [Estimate -> User \cup {None}]
        /\ rows' \in [Photo -> PhotoRow \cup {None}]
    BY <1>3 DEF RemoveUser, RemoveRows, DeleteEstimates
  <2> QED
    BY <1>3, <2>1 DEF RemoveUser, RemoveRows
<1> QED
  BY <1>1, <1>2, <1>3

-----------------------------------------------------------------------------
(* A thread's local step *)

(* A step that sets the local state of one thread.                         *)
Sets(t, q) ==
    /\ q \in ThreadState
    /\ thread'[t] = q
    /\ \A s \in Thread \ {t} : thread'[s] = thread[s]

(* What ThreadOK says of one thread.                                       *)
Knows(q, est, tab) ==
    /\ q.pc \in Storing => q.user \in User
    /\ q.pc \in Storing \ {"save"} =>
          q.estimate \in Estimate /\ est[q.estimate] \in {None, q.user}
    /\ q.pc \in {"write", "rename", "insert"} => q.size # 0
    /\ q.pc = "forget" => q.estimate \in Estimate
    /\ q.pc \in {"rename", "insert", "unlink"} =>
          q.photo \in Photo /\ tab[q.photo] = None

LEMMA IdleKnows ==
  ASSUME NEW est, NEW tab
  PROVE  Knows(Idle, est, tab)
BY DEF Idle, Knows, Storing

LEMMA ThreadOKIsKnows ==
  /\ ThreadOK <=> \A t \in Thread : Knows(thread[t], estimates, rows)
  /\ ThreadOK' <=> \A t \in Thread : Knows(thread'[t], estimates', rows')
BY DEF ThreadOK, Knows

LEMMA AnswerSets ==
  ASSUME TypeOK, NEW t \in Thread, Answer(t)
  PROVE  Sets(t, Idle)
BY IdleIsThread DEF Answer, Sets, TypeOK

(* The photos a thread comes to hold were its own, are listed or are new;  *)
(* the one it comes to store was its own or is new.                        *)
Takes(t, q) ==
    /\ \A p \in Photo \cap (q.doomed \cup {q.photo}) :
          \/ p \in thread[t].doomed \cup {thread[t].photo}
          \/ rows[p] # None
          \/ FreshPhoto(p)
    /\ q.pc \in {"rename", "insert"} =>
          \/ FreshPhoto(q.photo)
          \/ thread[t].pc \in {"rename", "insert"} /\ q.photo = thread[t].photo

LocalStep(t) ==
    \E q : Sets(t, q) /\ Takes(t, q) /\ Knows(q, estimates', rows')

LEMMA AnswerIsLocal ==
  ASSUME TypeOK, NEW t \in Thread, Answer(t)
  PROVE  LocalStep(t)
<1>1. Takes(t, Idle)
  BY NullAssumption DEF Takes, Idle
<1> QED
  BY <1>1, AnswerSets, IdleKnows DEF LocalStep

(* The thread's next state, once its type and its fields are known.        *)
LEMMA UpdateIsLocal ==
  ASSUME TypeOK, NEW t \in Thread, NEW q \in ThreadState,
         thread' = [thread EXCEPT ![t] = q],
         Takes(t, q), Knows(q, estimates', rows')
  PROVE  LocalStep(t)
<1>1. Sets(t, q)
  BY DEF Sets, TypeOK
<1> QED
  BY <1>1 DEF LocalStep

LEMMA NextItemIsLocal ==
  ASSUME RetentionInvariant, NEW t \in Thread, thread[t].pc \in Storing, NextItem(t)
  PROVE  LocalStep(t)
<1> USE NullAssumption DEF RetentionInvariant
<1> DEFINE q == Following(thread[t])
<1>1. thread[t] \in ThreadState /\ thread[t].user \in User
  BY DEF TypeOK, ThreadOK
<1>2. /\ q \in ThreadState /\ q.doomed = {} /\ q.photo = None
      /\ q.pc \in {"idle", "save"}
      /\ q.pc = "save" => q.user = thread[t].user
  BY <1>1, FollowingIs
<1>3. thread' = [thread EXCEPT ![t] = q]
  BY DEF NextItem
<1> HIDE DEF q
<1>4. Takes(t, q) /\ Knows(q, estimates', rows')
  BY <1>1, <1>2 DEF Takes, Knows, Storing
<1> QED
  BY <1>2, <1>3, <1>4, UpdateIsLocal

LEMMA StoreIsLocal ==
  ASSUME RetentionInvariant, NEW t \in Thread, Store(t)
  PROVE  LocalStep(t)
<1> USE NullAssumption DEF RetentionInvariant
<1>1. thread[t] \in ThreadState /\ Knows(thread[t], estimates, rows)
  BY ThreadOKIsKnows DEF TypeOK
<1>2. ASSUME NEW u \in User, BeginEstimate(t, u) PROVE LocalStep(t)
  <2>0. PICK n \in 1 .. MaxItems : thread' = [thread EXCEPT ![t] = Estimating(u, n)]
    BY <1>2 DEF BeginEstimate
  <2> DEFINE q == Estimating(u, n)
  <2>1. q \in ThreadState /\ q.pc = "save" /\ q.user = u /\ q.doomed = {} /\ q.photo = None
    BY EstimatingIs
  <2>2. thread' = [thread EXCEPT ![t] = q]
    BY <2>0
  <2> HIDE DEF q
  <2>3. Takes(t, q) /\ Knows(q, estimates', rows')
    BY <2>1 DEF Takes, Knows
  <2> QED
    BY <2>1, <2>2, <2>3, UpdateIsLocal
<1>8. CASE EstimateFails(t)
  BY <1>8, NextItemIsLocal DEF EstimateFails, Storing
<1>3. CASE SaveEstimate(t)
  <2>0. CASE NextItem(t)
    BY <1>3, <2>0, NextItemIsLocal DEF SaveEstimate, Storing
  <2> SUFFICES ASSUME ~NextItem(t) PROVE LocalStep(t)
    BY <2>0
  <2>1. PICK e \in Estimate :
          /\ FreshEstimate(e)
          /\ estimates' = [estimates EXCEPT ![e] = thread[t].user]
          /\ thread' = [thread EXCEPT ![t] =
                           [thread[t] EXCEPT !.pc = "quota", !.estimate = e]]
    BY <1>3 DEF SaveEstimate
  <2> DEFINE q == [thread[t] EXCEPT !.pc = "quota", !.estimate = e]
  <2>2. /\ q \in ThreadState /\ q.pc = "quota" /\ q.user = thread[t].user
        /\ q.estimate = e /\ q.doomed = thread[t].doomed /\ q.photo = thread[t].photo
    BY <1>1 DEF ThreadState, Storing
  <2>3. thread' = [thread EXCEPT ![t] = q]
    BY <2>1
  <2> HIDE DEF q
  <2>4. thread[t].user \in User /\ estimates'[e] = thread[t].user
    BY <1>1, <1>3, <2>1 DEF SaveEstimate, Knows, Storing, TypeOK
  <2>5. Takes(t, q) /\ Knows(q, estimates', rows')
    BY <2>2, <2>4 DEF Takes, Knows
  <2> QED
    BY <2>2, <2>3, <2>5, UpdateIsLocal
<1>4. CASE CheckQuota(t)
  <2>1. PICK n \in 1 .. MaxSize :
          \/ NextItem(t)
          \/ thread' = [thread EXCEPT ![t] =
                           [thread[t] EXCEPT !.pc = "write", !.size = n]]
    BY <1>4 DEF CheckQuota
  <2> DEFINE q == [thread[t] EXCEPT !.pc = "write", !.size = n]
  <2>2. n \in 0 .. MaxSize /\ n # 0
    BY RetentionAssumption
  <2>3. /\ q \in ThreadState /\ q.pc = "write" /\ q.user = thread[t].user
        /\ q.estimate = thread[t].estimate /\ q.size = n
        /\ q.doomed = thread[t].doomed /\ q.photo = thread[t].photo
    BY <1>1, <2>2 DEF ThreadState, Storing
  <2>4. thread[t].pc = "quota" /\ UNCHANGED <<estimates, rows>>
    BY <1>4 DEF CheckQuota
  <2> HIDE DEF q
  <2>5. Takes(t, q) /\ Knows(q, estimates', rows')
    BY <1>1, <2>2, <2>3, <2>4 DEF Takes, Knows, Storing
  <2> QED
    BY <2>1, <2>3, <2>4, <2>5, UpdateIsLocal, NextItemIsLocal DEF q, Storing
<1>5. CASE WriteTemp(t)
  <2>1. PICK p \in Photo :
          /\ FreshPhoto(p)
          /\ \/ NextItem(t)
             \/ thread' = [thread EXCEPT ![t] =
                              [thread[t] EXCEPT !.pc = "rename", !.photo = p]]
    BY <1>5 DEF WriteTemp
  <2> DEFINE q == [thread[t] EXCEPT !.pc = "rename", !.photo = p]
  <2>2. /\ q \in ThreadState /\ q.pc = "rename" /\ q.user = thread[t].user
        /\ q.estimate = thread[t].estimate /\ q.size = thread[t].size
        /\ q.doomed = thread[t].doomed /\ q.photo = p
    BY <1>1 DEF ThreadState, Storing
  <2>3. thread[t].pc = "write" /\ UNCHANGED <<estimates, rows>> /\ rows[p] = None
    BY <1>5, <2>1 DEF WriteTemp, FreshPhoto
  <2> HIDE DEF q
  <2>4. Takes(t, q) /\ Knows(q, estimates', rows')
    BY <1>1, <2>1, <2>2, <2>3 DEF Takes, Knows, Storing
  <2> QED
    BY <2>1, <2>2, <2>3, <2>4, UpdateIsLocal, NextItemIsLocal DEF q, Storing
<1>6. CASE RenameTemp(t)
  <2> DEFINE q == [thread[t] EXCEPT !.pc = "insert"]
  <2>1. /\ q \in ThreadState /\ q.pc = "insert" /\ q.user = thread[t].user
        /\ q.estimate = thread[t].estimate /\ q.size = thread[t].size
        /\ q.doomed = thread[t].doomed /\ q.photo = thread[t].photo
    BY <1>1 DEF ThreadState, Storing
  <2>2. thread[t].pc = "rename" /\ UNCHANGED <<estimates, rows>>
    BY <1>6 DEF RenameTemp
  <2>3. NextItem(t) \/ thread' = [thread EXCEPT ![t] = q]
    BY <1>6 DEF RenameTemp
  <2> HIDE DEF q
  <2>4. Takes(t, q) /\ Knows(q, estimates', rows')
    BY <1>1, <2>1, <2>2 DEF Takes, Knows, Storing
  <2> QED
    BY <2>1, <2>2, <2>3, <2>4, UpdateIsLocal, NextItemIsLocal DEF Storing
<1>7. CASE InsertRow(t)
  BY <1>7, NextItemIsLocal DEF InsertRow, Storing
<1> QED
  BY <1>2, <1>3, <1>4, <1>5, <1>6, <1>7, <1>8 DEF Store

LEMMA DeleteIsLocal ==
  ASSUME RetentionInvariant, NEW t \in Thread, Delete(t)
  PROVE  LocalStep(t)
<1> USE NullAssumption DEF RetentionInvariant
<1>1. thread[t] \in ThreadState /\ Knows(thread[t], estimates, rows)
  BY ThreadOKIsKnows DEF TypeOK
<1>2. ASSUME NEW q \in ThreadState, BeginDelete(t, q), q.photo = None,
             q.pc \in {"next", "forget"}, q.pc = "forget" => q.estimate \in Estimate,
             \A p \in q.doomed : rows[p] # None
      PROVE  LocalStep(t)
  <2>1. Takes(t, q) /\ Knows(q, estimates', rows')
    BY <1>2 DEF Takes, Knows, Storing
  <2> QED
    BY <1>2, <2>1, UpdateIsLocal DEF BeginDelete
<1>3. ASSUME NEW p \in Photo, DeletePhoto(t, p) PROVE LocalStep(t)
  <2> DEFINE q == [Idle EXCEPT !.pc = "next", !.doomed = {p}]
  <2>1. q \in ThreadState /\ q.pc = "next" /\ q.photo = None /\ q.doomed = {p}
    BY IdleIsThread DEF ThreadState, Deleting, Idle
  <2>2. BeginDelete(t, q) /\ rows[p] # None
    BY <1>3 DEF DeletePhoto
  <2> HIDE DEF q
  <2> QED
    BY <1>2, <2>1, <2>2
<1>4. ASSUME NEW e \in Estimate, DeleteHistory(t, e) PROVE LocalStep(t)
  <2>1. PICK linked \in {Linked(e), {}} :
          BeginDelete(t, [Idle EXCEPT !.pc = "forget", !.estimate = e, !.doomed = linked])
    BY <1>4 DEF DeleteHistory
  <2> DEFINE q == [Idle EXCEPT !.pc = "forget", !.estimate = e, !.doomed = linked]
  <2>2. linked \in SUBSET Photo /\ \A p \in linked : rows[p] # None
    BY DEF Linked
  <2>3. /\ q \in ThreadState /\ q.pc = "forget" /\ q.photo = None
        /\ q.estimate = e /\ q.doomed = linked
    BY <2>2, IdleIsThread DEF ThreadState, Deleting, Idle
  <2>4. BeginDelete(t, q)
    BY <2>1
  <2> HIDE DEF q
  <2> QED
    BY <1>2, <2>2, <2>3, <2>4
<1>5. ASSUME NEW u \in User, DeleteAccount(t, u) PROVE LocalStep(t)
  <2>1. PICK listed \in SUBSET PhotosOf(u) :
          BeginDelete(t, [Idle EXCEPT !.pc = "next", !.user = u, !.doomed = listed,
                                      !.close = TRUE])
    BY <1>5 DEF DeleteAccount
  <2> DEFINE q == [Idle EXCEPT !.pc = "next", !.user = u, !.doomed = listed,
                               !.close = TRUE]
  <2>2. listed \in SUBSET Photo /\ \A p \in listed : rows[p] # None
    BY DEF PhotosOf
  <2>3. q \in ThreadState /\ q.pc = "next" /\ q.photo = None /\ q.doomed = listed
    BY <2>2, IdleIsThread DEF ThreadState, Deleting, Idle
  <2>4. BeginDelete(t, q)
    BY <2>1
  <2> HIDE DEF q
  <2> QED
    BY <1>2, <2>2, <2>3, <2>4
<1>6. CASE ForgetEstimate(t)
  <2> DEFINE q == [thread[t] EXCEPT !.pc = "next", !.estimate = None]
  <2>1. /\ q \in ThreadState /\ q.pc = "next" /\ q.doomed = thread[t].doomed
        /\ q.photo = thread[t].photo
    BY <1>1 DEF ThreadState, Deleting
  <2>2. Answer(t) \/ thread' = [thread EXCEPT ![t] = q]
    BY <1>6 DEF ForgetEstimate
  <2> HIDE DEF q
  <2>3. Takes(t, q) /\ Knows(q, estimates', rows')
    BY <2>1 DEF Takes, Knows, Storing
  <2> QED
    BY <2>1, <2>2, <2>3, UpdateIsLocal, AnswerIsLocal
<1>7. CASE DropRow(t)
  <2>1. PICK p \in thread[t].doomed :
          \/ /\ rows' = [rows EXCEPT ![p] = None]
             /\ thread' = [thread EXCEPT ![t] =
                              [thread[t] EXCEPT !.pc = "unlink", !.photo = p]]
          \/ thread' = [thread EXCEPT ![t] =
                              [thread[t] EXCEPT !.doomed = thread[t].doomed \ {p}]]
    BY <1>7 DEF DropRow
  <2>2. p \in Photo
    BY <1>1 DEF ThreadState
  <2>3. ASSUME rows' = [rows EXCEPT ![p] = None],
               thread' = [thread EXCEPT ![t] =
                             [thread[t] EXCEPT !.pc = "unlink", !.photo = p]]
        PROVE  LocalStep(t)
    <3> DEFINE q == [thread[t] EXCEPT !.pc = "unlink", !.photo = p]
    <3>1. /\ q \in ThreadState /\ q.pc = "unlink" /\ q.doomed = thread[t].doomed
          /\ q.photo = p
      BY <1>1, <2>2 DEF ThreadState, Deleting
    <3>2. rows'[p] = None
      BY <2>2, <2>3 DEF TypeOK
    <3>3. thread' = [thread EXCEPT ![t] = q]
      BY <2>3
    <3> HIDE DEF q
    <3>4. Takes(t, q) /\ Knows(q, estimates', rows')
      BY <2>1, <2>2, <3>1, <3>2 DEF Takes, Knows, Storing
    <3> QED
      BY <3>1, <3>3, <3>4, UpdateIsLocal
  <2>4. ASSUME thread' = [thread EXCEPT ![t] =
                             [thread[t] EXCEPT !.doomed = thread[t].doomed \ {p}]]
        PROVE  LocalStep(t)
    <3> DEFINE q == [thread[t] EXCEPT !.doomed = thread[t].doomed \ {p}]
    <3>1. /\ q \in ThreadState /\ q.pc = "next" /\ q.photo = thread[t].photo
          /\ q.doomed = thread[t].doomed \ {p}
      BY <1>1, <1>7 DEF ThreadState, Deleting, DropRow
    <3> HIDE DEF q
    <3>2. Takes(t, q) /\ Knows(q, estimates', rows')
      BY <3>1 DEF Takes, Knows, Storing
    <3> QED
      BY <2>4, <3>1, <3>2, UpdateIsLocal DEF q
  <2> QED
    BY <2>1, <2>3, <2>4
<1>8. CASE UnlinkFile(t)
  <2> DEFINE D == thread[t].doomed \ {thread[t].photo}
             q == [thread[t] EXCEPT !.pc = "next", !.photo = None, !.doomed = D]
  <2>1. D \in SUBSET Photo /\ D \subseteq thread[t].doomed
    BY <1>1 DEF ThreadState
  <2>2. thread' = [thread EXCEPT ![t] = q]
    BY <1>8 DEF UnlinkFile
  <2> HIDE DEF D
  <2>3. q \in ThreadState /\ q.pc = "next" /\ q.photo = None /\ q.doomed = D
    BY <1>1, <2>1 DEF ThreadState, Deleting
  <2> HIDE DEF q
  <2>4. Takes(t, q) /\ Knows(q, estimates', rows')
    BY <2>1, <2>3 DEF Takes, Knows, Storing
  <2> QED
    BY <2>2, <2>3, <2>4, UpdateIsLocal
<1>9. CASE DeleteDone(t) \/ CloseAccount(t)
  BY <1>9, AnswerIsLocal DEF DeleteDone, CloseAccount
<1> QED
  BY <1>3, <1>4, <1>5, <1>6, <1>7, <1>8, <1>9 DEF Delete

-----------------------------------------------------------------------------
(* What a step does to the tables *)

(* Rows are kept, clocks apart, or deleted, a history row with its photos. *)
TablesShrink ==
    /\ \A p \in Photo : rows'[p] # None =>
          /\ rows[p] # None
          /\ rows'[p].user = rows[p].user
          /\ rows'[p].estimate = rows[p].estimate
          /\ rows'[p].size = rows[p].size
          /\ estimates'[rows[p].estimate] = estimates[rows[p].estimate]
    /\ \A e \in Estimate : estimates'[e] \in {estimates[e], None}

HistoryAdded ==
    /\ \E e \in Estimate :
          /\ FreshEstimate(e)
          /\ \A f \in Estimate \ {e} : estimates'[f] = estimates[f]
    /\ UNCHANGED rows

PhotoAdded(t) ==
    /\ thread[t].pc = "insert"
    /\ thread'[t] = Following(thread[t])
    /\ estimates[thread[t].estimate] # None
    /\ rows' = [rows EXCEPT ![thread[t].photo] = NewRow(thread[t])]
    /\ UNCHANGED estimates

LEMMA UnchangedShrink ==
  ASSUME UNCHANGED <<estimates, rows>>
  PROVE  TablesShrink
BY DEF TablesShrink

LEMMA DroppedShrink ==
  ASSUME UNCHANGED estimates, \A p \in Photo : rows'[p] \in {rows[p], None}
  PROVE  TablesShrink
BY DEF TablesShrink

LEMMA ForgottenShrink ==
  ASSUME TypeOK, NEW E, DeleteEstimates(E)
  PROVE  TablesShrink
<1>1. ASSUME NEW p \in Photo, rows'[p] # None
      PROVE  /\ rows[p] # None /\ rows'[p] = rows[p]
             /\ estimates'[rows[p].estimate] = estimates[rows[p].estimate]
  <2>1. rows[p] # None /\ rows'[p] = rows[p] /\ rows[p].estimate \notin E
    BY <1>1 DEF DeleteEstimates
  <2>2. rows[p].estimate \in Estimate
    BY <2>1 DEF TypeOK, PhotoRow
  <2> QED
    BY <2>1, <2>2 DEF DeleteEstimates
<1>2. \A e \in Estimate : estimates'[e] \in {estimates[e], None}
  BY DEF DeleteEstimates
<1> QED
  BY <1>1, <1>2 DEF TablesShrink

LEMMA StoreTables ==
  ASSUME RetentionInvariant, NEW t \in Thread, Store(t)
  PROVE  TablesShrink \/ HistoryAdded \/ PhotoAdded(t)
<1>1. CASE SaveEstimate(t)
  BY <1>1 DEF SaveEstimate, HistoryAdded, RetentionInvariant, TypeOK
<1>2. CASE InsertRow(t)
  BY <1>2, UnchangedShrink DEF InsertRow, PhotoAdded, NextItem, RetentionInvariant, TypeOK
<1>3. CASE \/ \E u \in User : BeginEstimate(t, u)
           \/ EstimateFails(t) \/ CheckQuota(t) \/ WriteTemp(t) \/ RenameTemp(t)
  BY <1>3, UnchangedShrink
     DEF BeginEstimate, EstimateFails, CheckQuota, WriteTemp, RenameTemp
<1> QED
  BY <1>1, <1>2, <1>3 DEF Store

LEMMA DeleteTables ==
  ASSUME RetentionInvariant, NEW t \in Thread, Delete(t)
  PROVE  TablesShrink
<1>1. CASE ForgetEstimate(t) \/ CloseAccount(t)
  BY <1>1, UnchangedShrink, ForgottenShrink
     DEF ForgetEstimate, CloseAccount, RemoveRows, RetentionInvariant
<1>2. CASE DropRow(t)
  BY <1>2, DroppedShrink DEF DropRow, RetentionInvariant, TypeOK
<1>3. CASE \/ \E p \in Photo : DeletePhoto(t, p)
           \/ \E e \in Estimate : DeleteHistory(t, e)
           \/ \E u \in User : DeleteAccount(t, u)
           \/ UnlinkFile(t) \/ DeleteDone(t)
  BY <1>3, UnchangedShrink
     DEF DeletePhoto, DeleteHistory, DeleteAccount, BeginDelete, UnlinkFile, DeleteDone
<1> QED
  BY <1>1, <1>2, <1>3 DEF Delete

LEMMA OtherTables ==
  ASSUME RetentionInvariant,
         \/ \E u \in User : RemoveUser(u)
         \/ Sweep \/ Restart \/ Tick \/ UNCHANGED vars
  PROVE  TablesShrink
<1>1. CASE SweepBegin \/ SweepMissing
  BY <1>1, DroppedShrink DEF SweepBegin, SweepMissing, RetentionInvariant, TypeOK
<1>2. CASE SweepExpired \/ SweepList \/ SweepCheck \/ SweepOrphan \/ SweepRows
           \/ SweepDone \/ Restart \/ UNCHANGED vars
  BY <1>2, UnchangedShrink DEF SweepExpired, SweepList, SweepCheck, SweepOrphan,
     SweepRows, SweepDone, Restart, vars
<1>3. CASE Tick
  <2>1. ASSUME NEW p \in Photo, rows'[p] # None
        PROVE  /\ rows[p] # None /\ rows'[p].user = rows[p].user
               /\ rows'[p].estimate = rows[p].estimate /\ rows'[p].size = rows[p].size
    <3>1. rows'[p] = rows[p] \/ /\ rows[p] # None
                                /\ rows'[p] = [rows[p] EXCEPT !.left = rows[p].left - 1]
      BY <1>3 DEF Tick
    <3>2. rows[p] # None => rows[p] \in PhotoRow
      BY DEF RetentionInvariant, TypeOK
    <3> QED
      BY <2>1, <3>1, <3>2 DEF PhotoRow
  <2> QED
    BY <1>3, <2>1 DEF Tick, TablesShrink
<1>4. CASE \E u \in User : RemoveUser(u)
  BY <1>4, ForgottenShrink DEF RemoveUser, RemoveRows, RetentionInvariant
<1> QED
  BY <1>1, <1>2, <1>3, <1>4 DEF Sweep

-----------------------------------------------------------------------------
(* The invariant is inductive *)

(* A step of one thread leaves true what the others know.                  *)
LEMMA KnowsKept ==
  ASSUME RetentionInvariant, NEW t \in Thread, NEW s \in Thread,
         \/ TablesShrink
         \/ HistoryAdded
         \/ PhotoAdded(t) /\ s # t
  PROVE  Knows(thread[s], estimates', rows')
<1> USE DEF RetentionInvariant
<1>1. Knows(thread[s], estimates, rows)
  BY ThreadOKIsKnows
<1>2. CASE TablesShrink
  BY <1>1, <1>2 DEF TablesShrink, Knows
<1>3. CASE HistoryAdded
  BY <1>1, <1>3 DEF HistoryAdded, FreshEstimate, Knows
<1>4. CASE PhotoAdded(t) /\ s # t
  <2>1. thread[t].photo # thread[s].photo
    BY <1>4 DEF PhotoAdded, StoredApart
  <2> QED
    BY <1>1, <1>4, <2>1 DEF PhotoAdded, Knows, TypeOK
<1> QED
  BY <1>2, <1>3, <1>4

LEMMA ThreadOKLocal ==
  ASSUME RetentionInvariant, NEW t \in Thread, LocalStep(t),
         TablesShrink \/ HistoryAdded \/ PhotoAdded(t)
  PROVE  ThreadOK'
<1> SUFFICES ASSUME NEW s \in Thread PROVE Knows(thread'[s], estimates', rows')
  BY ThreadOKIsKnows
<1>1. CASE s = t
  BY <1>1 DEF LocalStep, Sets
<1>2. CASE s # t
  <2>1. thread'[s] = thread[s]
    BY <1>2 DEF LocalStep, Sets
  <2> QED
    BY <1>2, <2>1, KnowsKept
<1> QED
  BY <1>1, <1>2

LEMMA StoredApartLocal ==
  ASSUME RetentionInvariant, NEW t \in Thread, LocalStep(t), UNCHANGED sweep
  PROVE  StoredApart'
<1> USE DEF RetentionInvariant
<1>1. PICK q : Sets(t, q) /\ Takes(t, q)
  BY DEF LocalStep
<1> SUFFICES ASSUME NEW r \in Thread, thread'[r].pc \in {"rename", "insert"}
             PROVE  /\ sweep.pc = "expired" => thread'[r].photo \notin sweep.todo
                    /\ \A s \in Thread \ {r} :
                          thread'[r].photo \notin thread'[s].doomed \cup {thread'[s].photo}
  BY DEF StoredApart
<1>2. CASE r = t
  <2>1. \/ FreshPhoto(q.photo)
        \/ thread[t].pc \in {"rename", "insert"} /\ q.photo = thread[t].photo
    BY <1>1, <1>2 DEF Sets, Takes
  <2>2. thread'[t].photo = q.photo /\ \A s \in Thread \ {t} : thread'[s] = thread[s]
    BY <1>1 DEF Sets
  <2>3. CASE FreshPhoto(q.photo)
    BY <1>2, <2>2, <2>3 DEF FreshPhoto
  <2>4. CASE thread[t].pc \in {"rename", "insert"} /\ q.photo = thread[t].photo
    BY <1>2, <2>2, <2>4 DEF StoredApart
  <2> QED
    BY <2>1, <2>3, <2>4
<1>3. CASE r # t
  <2>1. thread'[r] = thread[r] /\ thread[r].pc \in {"rename", "insert"}
    BY <1>1, <1>3 DEF Sets
  <2>2. /\ thread[r].photo \in Photo
        /\ rows[thread[r].photo] = None
    BY <2>1 DEF ThreadOK
  <2>3. thread[r].photo \notin q.doomed \cup {q.photo}
    <3>1. ~FreshPhoto(thread[r].photo)
      BY DEF FreshPhoto
    <3>2. thread[r].photo \notin thread[t].doomed \cup {thread[t].photo}
      BY <1>3, <2>1 DEF StoredApart
    <3> QED
      BY <1>1, <2>2, <3>1, <3>2 DEF Takes
  <2>4. ASSUME NEW s \in Thread \ {r}
        PROVE  thread[r].photo \notin thread'[s].doomed \cup {thread'[s].photo}
    <3>1. CASE s = t
      BY <1>1, <2>3, <3>1 DEF Sets
    <3>2. CASE s # t
      <4>1. thread'[s] = thread[s]
        BY <1>1, <3>2 DEF Sets
      <4> QED
        BY <2>1, <4>1 DEF StoredApart
    <3> QED
      BY <3>1, <3>2
  <2> QED
    BY <2>1, <2>4 DEF StoredApart
<1> QED
  BY <1>2, <1>3

(* Only its first two steps leave the sweep at the expired photos.         *)
LEMMA SweepMovesOn ==
  ASSUME TypeOK,
         \/ SweepList \/ SweepCheck \/ SweepOrphan
         \/ SweepRows \/ SweepMissing \/ SweepDone
  PROVE  sweep'.pc # "expired"
<1>1. sweep \in SweepState
  BY DEF TypeOK
<1>2. CASE SweepList \/ SweepRows
  BY <1>1, <1>2 DEF SweepList, SweepRows, SweepState
<1>3. CASE SweepCheck
  <2>1. PICK p \in sweep.todo :
          \/ sweep' = [pc |-> "unlink", todo |-> sweep.todo \ {p}, photo |-> p]
          \/ sweep' = [sweep EXCEPT !.todo = sweep.todo \ {p}]
    BY <1>3 DEF SweepCheck
  <2>2. sweep.pc = "check"
    BY <1>3 DEF SweepCheck
  <2> QED
    BY <1>1, <2>1, <2>2 DEF SweepState
<1>4. CASE SweepOrphan
  BY <1>1, <1>4 DEF SweepOrphan, SweepState
<1>5. CASE SweepMissing
  BY <1>1, <1>5 DEF SweepMissing, SweepState
<1>6. CASE SweepDone
  BY <1>6 DEF SweepDone, NoSweep
<1> QED
  BY <1>2, <1>3, <1>4, <1>5, <1>6

(* A photo about to be stored has no row, so an expiry does not take it.   *)
LEMMA StoredApartSweep ==
  ASSUME RetentionInvariant, Sweep
  PROVE  StoredApart'
<1> USE DEF RetentionInvariant
<1>1. UNCHANGED thread
  BY DEF Sweep, SweepBegin, SweepExpired, SweepList, SweepCheck, SweepOrphan,
         SweepRows, SweepMissing, SweepDone
<1>2. CASE SweepBegin
  <2>1. sweep'.todo = Expired
    BY <1>2 DEF SweepBegin
  <2>2. \A t \in Thread : thread[t].pc \in {"rename", "insert"} =>
            thread[t].photo \notin Expired
    BY DEF Expired, ThreadOK
  <2> QED
    BY <1>1, <2>1, <2>2 DEF StoredApart
<1>3. CASE SweepExpired
  <2>1. sweep.pc = "expired" /\ sweep'.todo \subseteq sweep.todo
    BY <1>3 DEF SweepExpired, TypeOK, SweepState
  <2> QED
    BY <1>1, <2>1 DEF StoredApart
<1>4. CASE SweepList \/ SweepCheck \/ SweepOrphan \/ SweepRows \/ SweepMissing \/ SweepDone
  <2>1. sweep'.pc # "expired"
    BY <1>4, SweepMovesOn
  <2> QED
    BY <1>1, <2>1 DEF StoredApart
<1> QED
  BY <1>2, <1>3, <1>4 DEF Sweep

LEMMA SweptRowsGoneLocal ==
  ASSUME RetentionInvariant, NEW t \in Thread, UNCHANGED sweep,
         TablesShrink \/ HistoryAdded \/ PhotoAdded(t)
  PROVE  SweptRowsGone'
<1> USE DEF RetentionInvariant
<1>1. \A p \in sweep.todo : p \in Photo
  BY DEF TypeOK, SweepState
<1>2. CASE TablesShrink
  BY <1>1, <1>2 DEF TablesShrink, SweptRowsGone
<1>3. CASE HistoryAdded
  BY <1>3 DEF HistoryAdded, SweptRowsGone
<1>4. CASE PhotoAdded(t)
  <2>1. sweep.pc = "expired" => thread[t].photo \notin sweep.todo
    BY <1>4 DEF PhotoAdded, StoredApart
  <2> QED
    BY <1>1, <1>4, <2>1 DEF PhotoAdded, SweptRowsGone, TypeOK
<1> QED
  BY <1>2, <1>3, <1>4

LEMMA SweptRowsGoneSweep ==
  ASSUME RetentionInvariant, Sweep
  PROVE  SweptRowsGone'
<1> USE DEF RetentionInvariant
<1>1. CASE SweepBegin
  BY <1>1 DEF SweepBegin, SweptRowsGone, Expired
<1>2. CASE SweepExpired
  <2>1. sweep.pc = "expired" /\ sweep'.todo \subseteq sweep.todo /\ UNCHANGED rows
    BY <1>2 DEF SweepExpired, TypeOK, SweepState
  <2> QED
    BY <2>1 DEF SweptRowsGone
<1>3. CASE SweepList \/ SweepCheck \/ SweepOrphan \/ SweepRows \/ SweepMissing \/ SweepDone
  BY <1>3, SweepMovesOn DEF SweptRowsGone
<1> QED
  BY <1>1, <1>2, <1>3 DEF Sweep

LEMMA HistoryKept ==
  ASSUME RetentionInvariant, NEW t \in Thread,
         TablesShrink \/ HistoryAdded \/ PhotoAdded(t)
  PROVE  PhotoHasHistory'
<1> USE DEF RetentionInvariant
<1>1. \A p \in Photo : rows[p] # None => rows[p] \in PhotoRow
  BY DEF TypeOK
<1>2. CASE TablesShrink
  BY <1>2 DEF TablesShrink, PhotoHasHistory
<1>3. CASE HistoryAdded
  <2>1. PICK e \in Estimate :
          estimates[e] = None /\ \A f \in Estimate \ {e} : estimates'[f] = estimates[f]
    BY <1>3 DEF HistoryAdded, FreshEstimate
  <2>2. ASSUME NEW p \in Photo, rows[p] # None
        PROVE  estimates'[rows[p].estimate] = rows[p].user
    <3>1. /\ estimates[rows[p].estimate] = rows[p].user
          /\ rows[p].user # None /\ rows[p].estimate \in Estimate
      BY <1>1, <2>2, NullAssumption DEF PhotoHasHistory, PhotoRow
    <3> QED
      BY <2>1, <3>1
  <2> QED
    BY <1>3, <2>2 DEF HistoryAdded, PhotoHasHistory
<1>4. CASE PhotoAdded(t)
  <2>1. estimates[thread[t].estimate] = thread[t].user
    BY <1>4 DEF PhotoAdded, ThreadOK, Storing
  <2>2. ASSUME NEW p \in Photo, rows'[p] # None
        PROVE  estimates'[rows'[p].estimate] = rows'[p].user
    <3>1. CASE p = thread[t].photo
      <4>1. rows'[p] = NewRow(thread[t])
        BY <1>4, <3>1 DEF PhotoAdded, TypeOK
      <4> QED
        BY <1>4, <2>1, <4>1 DEF PhotoAdded, NewRow
    <3>2. CASE p # thread[t].photo
      BY <1>4, <2>2, <3>2 DEF PhotoAdded, TypeOK, PhotoHasHistory
    <3> QED
      BY <3>1, <3>2
  <2> QED
    BY <2>2 DEF PhotoHasHistory
<1> QED
  BY <1>2, <1>3, <1>4

LEMMA RetentionStep ==
  ASSUME RetentionInvariant, [Next]_vars
  PROVE  RetentionInvariant'
<1>1. ASSUME NEW t \in Thread, Store(t) \/ Delete(t) PROVE RetentionInvariant'
  <2>1. TypeOK'
    BY <1>1, StoreType, DeleteType
  <2>2. LocalStep(t)
    BY <1>1, StoreIsLocal, DeleteIsLocal
  <2>3. TablesShrink \/ HistoryAdded \/ PhotoAdded(t)
    BY <1>1, StoreTables, DeleteTables
  <2>4. UNCHANGED sweep
    <3>1. CASE Store(t)
      BY <3>1 DEF Store, BeginEstimate, SaveEstimate, EstimateFails, CheckQuota, WriteTemp,
                  RenameTemp,
                  InsertRow
    <3>2. CASE Delete(t)
      BY <3>2 DEF Delete, BeginDelete, DeletePhoto, DeleteHistory, DeleteAccount,
                  ForgetEstimate, DropRow, UnlinkFile, DeleteDone, CloseAccount
    <3> QED
      BY <1>1, <3>1, <3>2
  <2> QED
    BY <2>1, <2>2, <2>3, <2>4, ThreadOKLocal, StoredApartLocal, SweptRowsGoneLocal,
       HistoryKept DEF RetentionInvariant
<1>2. ASSUME TablesShrink PROVE PhotoHasHistory'
  BY <1>2 DEF TablesShrink, RetentionInvariant, PhotoHasHistory
<1>3. ASSUME TablesShrink, UNCHANGED thread PROVE ThreadOK'
  BY <1>3, KnowsKept, ThreadOKIsKnows
<1>4. CASE Sweep
  <2>1. UNCHANGED thread
    BY <1>4 DEF Sweep, SweepBegin, SweepExpired, SweepList, SweepCheck, SweepOrphan,
           SweepRows, SweepMissing, SweepDone
  <2> QED
    BY <1>2, <1>3, <1>4, <2>1, SweepType, OtherTables, StoredApartSweep,
       SweptRowsGoneSweep DEF RetentionInvariant
<1>5. CASE Restart
  <2>1. ThreadOK'
    BY <1>5, ThreadOKIsKnows, IdleKnows DEF Restart
  <2>2. StoredApart' /\ SweptRowsGone'
    BY <1>5 DEF Restart, Idle, NoSweep, StoredApart, SweptRowsGone
  <2> QED
    BY <1>2, <1>5, <2>1, <2>2, RestType, OtherTables DEF RetentionInvariant
<1>6. CASE Tick \/ UNCHANGED vars \/ \E u \in User : RemoveUser(u)
  <2>1. TypeOK'
    BY <1>6, RestType DEF RetentionInvariant, TypeOK, vars
  <2>2. TablesShrink /\ UNCHANGED <<thread, sweep>>
    BY <1>6, OtherTables DEF Tick, RemoveUser, vars
  <2>3. StoredApart' /\ SweptRowsGone'
    <3>1. StoredApart /\ SweptRowsGone /\ \A p \in sweep.todo : p \in Photo
      BY DEF RetentionInvariant, TypeOK, SweepState
    <3> QED
      BY <2>2, <3>1 DEF StoredApart, SweptRowsGone, TablesShrink
  <2> QED
    BY <1>2, <1>3, <2>1, <2>2, <2>3 DEF RetentionInvariant
<1> QED
  BY <1>1, <1>4, <1>5, <1>6 DEF Next

(* The inductive invariant of photo retention holds of every behaviour,    *)
(* whatever sweeps, deletions and restarts fall between the steps of       *)
(* store_photo.                                                            *)
THEOREM RetentionInvariantHolds == Spec => []RetentionInvariant
<1>1. Init => RetentionInvariant
  BY InitRetention
<1>2. RetentionInvariant /\ [Next]_vars => RetentionInvariant'
  BY RetentionStep
<1> QED
  BY <1>1, <1>2, PTL DEF Spec

(* No photo's row outlives the history row it was retained with, or is     *)
(* another user's.                                                         *)
THEOREM PhotoHasHistoryHolds == Spec => []PhotoHasHistory
<1>1. RetentionInvariant => PhotoHasHistory
  BY DEF RetentionInvariant
<1> QED
  BY <1>1, RetentionInvariantHolds, PTL

(* Rows, files and every thread's and the sweep's local state keep their   *)
(* types.                                                                  *)
THEOREM PhotoTypeCorrect == Spec => []TypeOK
<1>1. RetentionInvariant => TypeOK
  BY DEF RetentionInvariant
<1> QED
  BY <1>1, RetentionInvariantHolds, PTL

-----------------------------------------------------------------------------
(* The row goes first *)

LEMMA FileRowsGone ==
  ASSUME RetentionInvariant, [Next]_vars, NEW p \in files \ files', rows'[p] # None
  PROVE  sweep.pc = "unlink" /\ sweep.photo = p
<1> USE DEF RetentionInvariant
<1>1. p \notin files'
  OBVIOUS
<1>2. ASSUME NEW t \in Thread, Store(t) PROVE FALSE
  <2>1. InsertRow(t)
    BY <1>1, <1>2 DEF Store, BeginEstimate, SaveEstimate, EstimateFails, CheckQuota, WriteTemp,
                  RenameTemp
  <2>2. p = thread[t].photo /\ UNCHANGED rows /\ thread[t].pc = "insert"
    BY <1>1, <2>1 DEF InsertRow
  <2> QED
    BY <2>2 DEF ThreadOK
<1>3. ASSUME NEW t \in Thread, Delete(t) PROVE FALSE
  <2>1. UnlinkFile(t)
    BY <1>1, <1>3 DEF Delete, BeginDelete, DeletePhoto, DeleteHistory, DeleteAccount,
       ForgetEstimate, DropRow, DeleteDone, CloseAccount
  <2>2. p = thread[t].photo /\ UNCHANGED rows /\ thread[t].pc = "unlink"
    BY <1>1, <2>1 DEF UnlinkFile
  <2> QED
    BY <2>2 DEF ThreadOK
<1>4. CASE Sweep
  <2>1. SweepExpired \/ SweepOrphan
    BY <1>1, <1>4 DEF Sweep, SweepBegin, SweepList, SweepCheck, SweepRows, SweepMissing,
       SweepDone
  <2>2. CASE SweepExpired
    BY <1>1, <2>2 DEF SweepExpired, SweptRowsGone
  <2>3. CASE SweepOrphan
    BY <1>1, <2>3 DEF SweepOrphan
  <2> QED
    BY <2>1, <2>2, <2>3
<1>5. CASE Restart \/ Tick \/ UNCHANGED vars \/ \E u \in User : RemoveUser(u)
  BY <1>1, <1>5 DEF Restart, Tick, RemoveUser, vars
<1> QED
  BY <1>2, <1>3, <1>4, <1>5 DEF Next

(* A file whose row is still there is removed by nothing but an orphan     *)
(* check that looked before the row was inserted.                          *)
THEOREM RowGoesFirstHolds == Spec => RowGoesFirst
<1>1. ASSUME RetentionInvariant, [Next]_vars
      PROVE  [\A p \in files \ files' :
                rows'[p] # None => sweep.pc = "unlink" /\ sweep.photo = p]_vars
  BY <1>1, FileRowsGone
<1> QED
  BY <1>1, RetentionInvariantHolds, PTL DEF Spec, RowGoesFirst

-----------------------------------------------------------------------------
(* The quota, with what was promised under it *)

Promising == {"write", "rename", "insert"}

(* The units of photos whose quota is checked and whose rows are to come.  *)
Promised(u) ==
    {b \in Thread \X (1 .. MaxSize) :
        /\ thread[b[1]].pc \in Promising
        /\ thread[b[1]].user = u
        /\ b[2] <= thread[b[1]].size}

Slack == (Cardinality(Thread) - 1) * MaxSize

(* What a check admits counts from the check on.                           *)
QuotaPromised ==
    \A u \in User : Cardinality(Units(u)) + Cardinality(Promised(u)) <= Quota + Slack

NoNewPromise ==
    \A s \in Thread : thread'[s].pc \in Promising =>
        /\ thread[s].pc \in Promising
        /\ thread'[s].user = thread[s].user
        /\ thread'[s].size = thread[s].size

LEMMA SlackIsNat ==
  /\ Cardinality(Thread) \in Nat \ {0}
  /\ Slack \in Nat
<1>1. Cardinality(Thread) \in Nat \ {0}
  BY RetentionAssumption, FS_CardinalityType, FS_EmptySet
<1> DEFINE k == Cardinality(Thread) - 1
<1>2. k \in Nat
  BY <1>1
<1> HIDE DEF k
<1>3. k * MaxSize \in Nat
  BY <1>2, RetentionAssumption
<1> QED
  BY <1>1, <1>3 DEF Slack, k

LEMMA UnitSets ==
  /\ \A U \in SUBSET (Photo \X (1 .. MaxSize)) : IsFiniteSet(U) /\ Cardinality(U) \in Nat
  /\ \A P \in SUBSET (Thread \X (1 .. MaxSize)) : IsFiniteSet(P) /\ Cardinality(P) \in Nat
<1>1. IsFiniteSet(1 .. MaxSize)
  BY RetentionAssumption, FS_Interval
<1>2. IsFiniteSet(Photo \X (1 .. MaxSize)) /\ IsFiniteSet(Thread \X (1 .. MaxSize))
  BY <1>1, RetentionAssumption, FS_Product
<1>3. \A S : IsFiniteSet(S) => Cardinality(S) \in Nat
  BY FS_CardinalityType
<1> QED
  BY <1>2, <1>3, FS_Subset

LEMMA ColumnSize ==
  ASSUME NEW a, NEW n \in Nat
  PROVE  IsFiniteSet({a} \X (1 .. n)) /\ Cardinality({a} \X (1 .. n)) = n
<1>1. IsFiniteSet({a}) /\ Cardinality({a}) = 1
  BY FS_Singleton
<1>2. IsFiniteSet(1 .. n) /\ Cardinality(1 .. n) = n
  BY FS_Interval
<1>3. /\ IsFiniteSet({a} \X (1 .. n))
      /\ Cardinality({a} \X (1 .. n)) = Cardinality({a}) * Cardinality(1 .. n)
  BY <1>1, <1>2, FS_Product, Zenon
<1> QED
  BY <1>1, <1>2, <1>3

(* All threads but one can promise the slack.                              *)
LEMMA OthersPromise ==
  ASSUME NEW t \in Thread, NEW P \in SUBSET ((Thread \ {t}) \X (1 .. MaxSize))
  PROVE  Cardinality(P) <= Slack
<1>1. IsFiniteSet(Thread \ {t}) /\ Cardinality(Thread \ {t}) = Cardinality(Thread) - 1
  BY RetentionAssumption, FS_RemoveElement
<1>2. IsFiniteSet(1 .. MaxSize) /\ Cardinality(1 .. MaxSize) = MaxSize
  BY RetentionAssumption, FS_Interval
<1>3. /\ IsFiniteSet((Thread \ {t}) \X (1 .. MaxSize))
      /\ Cardinality((Thread \ {t}) \X (1 .. MaxSize)) =
            Cardinality(Thread \ {t}) * Cardinality(1 .. MaxSize)
  BY <1>1, <1>2, FS_Product, Zenon
<1>4. Cardinality((Thread \ {t}) \X (1 .. MaxSize)) = Slack
  BY <1>1, <1>2, <1>3, Zenon DEF Slack
<1> QED
  BY <1>3, <1>4, FS_Subset

LEMMA NextItemPromises ==
  ASSUME TypeOK, NEW t \in Thread, NextItem(t)
  PROVE  NoNewPromise
<1>1. Following(thread[t]).pc \in {"idle", "save"}
  BY FollowingIs DEF TypeOK
<1>2. /\ thread'[t].pc \notin Promising
      /\ \A s \in Thread \ {t} : thread'[s] = thread[s]
  BY <1>1 DEF NextItem, Promising, TypeOK
<1> QED
  BY <1>2 DEF NoNewPromise

LEMMA StorePromises ==
  ASSUME RetentionInvariant, NEW t \in Thread, Store(t), ~CheckQuota(t)
  PROVE  NoNewPromise
<1>1. thread[t] \in ThreadState /\ thread \in [Thread -> ThreadState] /\ TypeOK
  BY DEF RetentionInvariant, TypeOK
<1>2. ASSUME NEW u \in User, BeginEstimate(t, u) PROVE NoNewPromise
  <2>1. \A n \in 1 .. MaxItems : Estimating(u, n).pc = "save"
    BY EstimatingIs
  <2> QED
    BY <1>1, <1>2, <2>1 DEF BeginEstimate, NoNewPromise, Promising
<1>6. CASE InsertRow(t) \/ EstimateFails(t)
  BY <1>1, <1>6, NextItemPromises DEF InsertRow, EstimateFails
<1>3. CASE SaveEstimate(t)
  <2>1. CASE NextItem(t)
    BY <1>1, <2>1, NextItemPromises
  <2>2. CASE ~NextItem(t)
    BY <1>1, <1>3, <2>2 DEF SaveEstimate, NoNewPromise, Promising, ThreadState
  <2> QED
    BY <2>1, <2>2
<1>4. CASE WriteTemp(t)
  <2>1. CASE NextItem(t)
    BY <1>1, <2>1, NextItemPromises
  <2>2. CASE ~NextItem(t)
    BY <1>1, <1>4, <2>2 DEF WriteTemp, NoNewPromise, Promising, ThreadState
  <2> QED
    BY <2>1, <2>2
<1>5. CASE RenameTemp(t)
  <2>1. CASE NextItem(t)
    BY <1>1, <2>1, NextItemPromises
  <2>2. CASE ~NextItem(t)
    BY <1>1, <1>5, <2>2 DEF RenameTemp, NoNewPromise, Promising, ThreadState
  <2> QED
    BY <2>1, <2>2
<1> QED
  BY <1>2, <1>3, <1>4, <1>5, <1>6 DEF Store

LEMMA DeletePromises ==
  ASSUME RetentionInvariant, NEW t \in Thread, Delete(t)
  PROVE  NoNewPromise
<1>1. thread[t] \in ThreadState /\ thread \in [Thread -> ThreadState]
  BY DEF RetentionInvariant, TypeOK
<1>2. ASSUME thread'[t].pc \notin Promising,
             \A s \in Thread \ {t} : thread'[s] = thread[s]
      PROVE  NoNewPromise
  BY <1>2 DEF NoNewPromise
<1>7. ASSUME NEW p \in Photo, DeletePhoto(t, p) PROVE NoNewPromise
  <2>1. thread'[t].pc = "next" /\ \A s \in Thread \ {t} : thread'[s] = thread[s]
    BY <1>1, <1>7 DEF DeletePhoto, BeginDelete, Idle
  <2> QED
    BY <1>2, <2>1 DEF Promising
<1>8. ASSUME NEW e \in Estimate, DeleteHistory(t, e) PROVE NoNewPromise
  <2>1. thread'[t].pc = "forget" /\ \A s \in Thread \ {t} : thread'[s] = thread[s]
    BY <1>1, <1>8 DEF DeleteHistory, BeginDelete, Idle
  <2> QED
    BY <1>2, <2>1 DEF Promising
<1>9. ASSUME NEW u \in User, DeleteAccount(t, u) PROVE NoNewPromise
  <2>1. thread'[t].pc = "next" /\ \A s \in Thread \ {t} : thread'[s] = thread[s]
    BY <1>1, <1>9 DEF DeleteAccount, BeginDelete, Idle
  <2> QED
    BY <1>2, <2>1 DEF Promising
<1>3. CASE ForgetEstimate(t)
  BY <1>1, <1>3 DEF ForgetEstimate, Answer, Idle, NoNewPromise, Promising, ThreadState
<1>4. CASE DropRow(t)
  BY <1>1, <1>4 DEF DropRow, NoNewPromise, Promising, ThreadState
<1>5. CASE UnlinkFile(t)
  BY <1>1, <1>5 DEF UnlinkFile, NoNewPromise, Promising, ThreadState
<1>6. CASE DeleteDone(t) \/ CloseAccount(t)
  BY <1>1, <1>6 DEF DeleteDone, CloseAccount, Answer, Idle, NoNewPromise, Promising
<1> QED
  BY <1>3, <1>4, <1>5, <1>6, <1>7, <1>8, <1>9 DEF Delete

LEMMA OtherPromises ==
  ASSUME \/ \E u \in User : RemoveUser(u)
         \/ Sweep \/ Restart \/ Tick \/ UNCHANGED vars
  PROVE  NoNewPromise
<1>1. CASE Sweep
  BY <1>1 DEF Sweep, SweepBegin, SweepExpired, SweepList, SweepCheck, SweepOrphan,
     SweepRows, SweepMissing, SweepDone, NoNewPromise
<1>2. CASE Restart \/ Tick \/ UNCHANGED vars \/ \E u \in User : RemoveUser(u)
  BY <1>2 DEF Restart, Idle, Tick, RemoveUser, vars, NoNewPromise, Promising
<1> QED
  BY <1>1, <1>2

LEMMA UnitsShrink ==
  ASSUME RetentionInvariant, TablesShrink \/ UNCHANGED rows, NEW u \in User
  PROVE  Units(u)' \subseteq Units(u)
<1>1. CASE TablesShrink
  BY <1>1 DEF TablesShrink, Units
<1>2. CASE UNCHANGED rows
  BY <1>2 DEF Units
<1> QED
  BY <1>1, <1>2

LEMMA ShrinkKeepsQuota ==
  ASSUME QuotaPromised, NEW u \in User,
         Units(u)' \subseteq Units(u), Promised(u)' \subseteq Promised(u)
  PROVE  Cardinality(Units(u)') + Cardinality(Promised(u)') <= Quota + Slack
<1> DEFINE U == Units(u)  U2 == Units(u)'  P == Promised(u)  P2 == Promised(u)'
<1>1. /\ U \in SUBSET (Photo \X (1 .. MaxSize))
      /\ P \in SUBSET (Thread \X (1 .. MaxSize))
  BY DEF Units, Promised
<1>2. Cardinality(U) + Cardinality(P) <= Quota + Slack
  BY DEF QuotaPromised
<1>3. U2 \in SUBSET U /\ P2 \in SUBSET P
  OBVIOUS
<1> HIDE DEF U, U2, P, P2
<1>4. Cardinality(U2) <= Cardinality(U) /\ Cardinality(P2) <= Cardinality(P)
  BY <1>1, <1>3, UnitSets, FS_Subset
<1>5. /\ Cardinality(U) \in Nat /\ Cardinality(P) \in Nat
      /\ Cardinality(U2) \in Nat /\ Cardinality(P2) \in Nat
  BY <1>1, <1>3, UnitSets
<1>6. Cardinality(U2) + Cardinality(P2) <= Quota + Slack
  BY <1>2, <1>4, <1>5, SlackIsNat, RetentionAssumption
<1> QED
  BY <1>6 DEF U2, P2

(* A check that fits leaves room for what the other threads promised.      *)
LEMMA CheckKeepsQuota ==
  ASSUME RetentionInvariant, QuotaPromised, NEW t \in Thread, CheckQuota(t),
         NEW u \in User
  PROVE  Cardinality(Units(u)') + Cardinality(Promised(u)') <= Quota + Slack
<1>1. thread[t] \in ThreadState /\ thread \in [Thread -> ThreadState]
  BY DEF RetentionInvariant, TypeOK
<1>2. UNCHANGED rows /\ Units(u)' = Units(u)
  BY DEF CheckQuota, Units
<1>3. ASSUME Promised(u)' \subseteq Promised(u)
      PROVE  Cardinality(Units(u)') + Cardinality(Promised(u)') <= Quota + Slack
  BY <1>2, <1>3, ShrinkKeepsQuota
<1>4. CASE NextItem(t)
  <2>1. NoNewPromise
    BY <1>4, NextItemPromises DEF RetentionInvariant
  <2> QED
    BY <1>3, <2>1 DEF NoNewPromise, Promised
<1>5. ASSUME NEW n \in 1 .. MaxSize,
             ~(Used(thread[t].user) + n > Quota),
             thread' = [thread EXCEPT ![t] = [thread[t] EXCEPT !.pc = "write", !.size = n]]
      PROVE  Cardinality(Units(u)') + Cardinality(Promised(u)') <= Quota + Slack
  <2>1. /\ thread'[t].user = thread[t].user /\ thread'[t].size = n
        /\ \A s \in Thread \ {t} : thread'[s] = thread[s]
    BY <1>1, <1>5 DEF ThreadState
  <2>2. CASE u # thread[t].user
    BY <1>3, <2>1, <2>2 DEF Promised
  <2>3. CASE u = thread[t].user
    <3> DEFINE P == Promised(u)'
               C == {t} \X (1 .. n)
               O == P \cap ((Thread \ {t}) \X (1 .. MaxSize))
               N == Cardinality(Units(u))
    <3>1. n \in Nat /\ MaxSize \in Nat
      BY RetentionAssumption
    <3>2. P \in SUBSET (Thread \X (1 .. MaxSize)) /\ O \in SUBSET P
      BY DEF Promised
    <3>3. P \subseteq O \cup C
      <4> SUFFICES ASSUME NEW b \in P, b[1] = t PROVE b \in C
        BY <3>2 DEF Promised
      <4>1. b \in Thread \X (1 .. MaxSize) /\ b[2] <= n
        BY <2>1 DEF Promised
      <4> QED
        BY <3>1, <4>1
    <3>4. Cardinality(O) <= Slack
      BY OthersPromise
    <3>5. N + n <= Quota /\ N \in Nat
      <4>1. Units(u) \in SUBSET (Photo \X (1 .. MaxSize))
        BY DEF Units
      <4>2. N \in Nat
        BY <4>1, UnitSets
      <4> QED
        BY <1>5, <2>3, <3>1, <4>2, RetentionAssumption DEF Used
    <3>6. IsFiniteSet(C) /\ Cardinality(C) = n
      BY <3>1, ColumnSize
    <3> HIDE DEF P, C, O, N
    <3>7. IsFiniteSet(O) /\ Cardinality(O) \in Nat /\ IsFiniteSet(P) /\ Cardinality(P) \in Nat
      BY <3>2, UnitSets
    <3>8. IsFiniteSet(O \cup C) /\ Cardinality(O \cup C) <= Cardinality(O) + n
      <4>1. /\ IsFiniteSet(O \cup C)
            /\ Cardinality(O \cup C) =
                  Cardinality(O) + Cardinality(C) - Cardinality(O \cap C)
        BY <3>6, <3>7, FS_Union
      <4>2. Cardinality(O \cap C) \in Nat
        BY <3>6, FS_Subset, FS_CardinalityType
      <4> QED
        BY <3>1, <3>6, <3>7, <4>1, <4>2
    <3>9. Cardinality(P) <= Cardinality(O \cup C) /\ Cardinality(O \cup C) \in Nat
      BY <3>3, <3>8, FS_Subset, FS_CardinalityType
    <3>10. N + Cardinality(P) <= Quota + Slack
      BY <3>1, <3>4, <3>5, <3>7, <3>8, <3>9, SlackIsNat, RetentionAssumption
    <3> QED
      BY <1>2, <3>10 DEF N, P
  <2> QED
    BY <2>2, <2>3
<1>6. \/ NextItem(t)
      \/ \E n \in 1 .. MaxSize :
            /\ ~(Used(thread[t].user) + n > Quota)
            /\ thread' = [thread EXCEPT ![t] =
                             [thread[t] EXCEPT !.pc = "write", !.size = n]]
  BY DEF CheckQuota
<1> QED
  BY <1>4, <1>5, <1>6

(* The row makes true what was promised.                                   *)
LEMMA InsertKeepsQuota ==
  ASSUME RetentionInvariant, QuotaPromised, NEW t \in Thread, PhotoAdded(t), NoNewPromise,
         NEW u \in User
  PROVE  Cardinality(Units(u)') + Cardinality(Promised(u)') <= Quota + Slack
<1> DEFINE n == thread[t].size
           p == thread[t].photo
<1>0. thread'[t].pc \notin Promising
  BY FollowingIs DEF PhotoAdded, Promising, RetentionInvariant, TypeOK
<1>1. /\ thread[t].pc = "insert"
      /\ n \in 1 .. MaxSize /\ n \in Nat /\ p \in Photo /\ rows[p] = None
  BY RetentionAssumption
     DEF PhotoAdded, RetentionInvariant, TypeOK, ThreadState, ThreadOK
<1>2. /\ \A r \in Photo \ {p} : rows'[r] = rows[r]
      /\ rows'[p] = NewRow(thread[t])
      /\ rows'[p].user = thread[t].user /\ rows'[p].size = n
  BY <1>1 DEF PhotoAdded, NewRow, RetentionInvariant, TypeOK
<1>3. CASE u # thread[t].user
  <2>1. Units(u)' \subseteq Units(u)
    BY <1>2, <1>3 DEF Units
  <2>2. Promised(u)' \subseteq Promised(u)
    BY DEF NoNewPromise, Promised
  <2> QED
    BY <2>1, <2>2, ShrinkKeepsQuota
<1>4. CASE u = thread[t].user
  <2> DEFINE U == Units(u)  U2 == Units(u)'  P == Promised(u)  P2 == Promised(u)'
             C == {p} \X (1 .. n)
             D == {t} \X (1 .. n)
  <2>1. U \in SUBSET (Photo \X (1 .. MaxSize)) /\ P \in SUBSET (Thread \X (1 .. MaxSize))
    BY DEF Units, Promised
  <2>2. U2 \subseteq U \cup C
    <3> SUFFICES ASSUME NEW b \in U2, b[1] = p PROVE b \in C
      BY <1>2 DEF Units
    <3>1. b \in Photo \X (1 .. MaxSize) /\ b[2] <= n
      BY <1>2 DEF Units
    <3> QED
      BY <1>1, <3>1, RetentionAssumption
  <2>3. P2 \subseteq P \ D
    <3>1. P2 \subseteq P
      BY DEF NoNewPromise, Promised
    <3>2. \A b \in P2 : b[1] # t
      BY <1>0 DEF Promised
    <3> QED
      BY <3>1, <3>2
  <2>4. D \subseteq P
    <3> SUFFICES ASSUME NEW b \in D PROVE b \in P
      OBVIOUS
    <3>1. b = <<b[1], b[2]>> /\ b[1] = t /\ b[2] \in 1 .. n
      OBVIOUS
    <3>2. b[2] \in 1 .. MaxSize /\ b[2] <= n
      BY <1>1, <3>1, RetentionAssumption
    <3> QED
      BY <1>1, <1>4, <3>1, <3>2 DEF Promised, Promising
  <2>5. Cardinality(U) + Cardinality(P) <= Quota + Slack
    BY DEF QuotaPromised
  <2>6. /\ IsFiniteSet(C) /\ Cardinality(C) = n
        /\ IsFiniteSet(D) /\ Cardinality(D) = n
    BY <1>1, ColumnSize
  <2>7. n \in Nat
    BY <1>1
  <2> HIDE DEF U, U2, P, P2, C, D, n
  <2>8. /\ IsFiniteSet(U) /\ Cardinality(U) \in Nat
        /\ IsFiniteSet(P) /\ Cardinality(P) \in Nat
    BY <2>1, UnitSets
  <2>9. Cardinality(U2) <= Cardinality(U) + n /\ Cardinality(U2) \in Nat
    <3>1. /\ IsFiniteSet(U \cup C)
          /\ Cardinality(U \cup C) = Cardinality(U) + Cardinality(C) - Cardinality(U \cap C)
      BY <2>6, <2>8, FS_Union
    <3>2. Cardinality(U \cap C) \in Nat
      BY <2>6, FS_Subset, FS_CardinalityType
    <3>3. /\ Cardinality(U2) <= Cardinality(U \cup C)
          /\ Cardinality(U2) \in Nat /\ Cardinality(U \cup C) \in Nat
      BY <2>2, <3>1, FS_Subset, FS_CardinalityType
    <3> QED
      BY <2>6, <2>7, <2>8, <3>1, <3>2, <3>3
  <2>10. Cardinality(P2) <= Cardinality(P) - n /\ Cardinality(P2) \in Nat
    <3>1. P \cap D = D
      BY <2>4
    <3>2. IsFiniteSet(P \ D) /\ Cardinality(P \ D) = Cardinality(P) - n
      <4>1. /\ IsFiniteSet(P \ D)
            /\ Cardinality(P \ D) = Cardinality(P) - Cardinality(P \cap D)
        BY <2>8, FS_Difference
      <4> QED
        BY <2>6, <3>1, <4>1
    <3> QED
      BY <2>3, <3>2, FS_Subset, FS_CardinalityType
  <2>11. Cardinality(U2) + Cardinality(P2) <= Quota + Slack
    BY <2>5, <2>7, <2>8, <2>9, <2>10, SlackIsNat, RetentionAssumption
  <2> QED
    BY <2>11 DEF U2, P2
<1> QED
  BY <1>3, <1>4

LEMMA QuotaStep ==
  ASSUME RetentionInvariant, QuotaPromised, [Next]_vars
  PROVE  QuotaPromised'
<1> SUFFICES ASSUME NEW u \in User
             PROVE  Cardinality(Units(u)') + Cardinality(Promised(u)') <= Quota + Slack
  BY DEF QuotaPromised, Slack
<1>1. ASSUME NoNewPromise, TablesShrink \/ HistoryAdded
      PROVE  Cardinality(Units(u)') + Cardinality(Promised(u)') <= Quota + Slack
  <2>1. Units(u)' \subseteq Units(u)
    BY <1>1, UnitsShrink DEF HistoryAdded
  <2>2. Promised(u)' \subseteq Promised(u)
    BY <1>1 DEF NoNewPromise, Promised
  <2> QED
    BY <2>1, <2>2, ShrinkKeepsQuota
<1>2. ASSUME NEW t \in Thread, Store(t)
      PROVE  Cardinality(Units(u)') + Cardinality(Promised(u)') <= Quota + Slack
  <2>1. CASE CheckQuota(t)
    BY <2>1, CheckKeepsQuota
  <2>2. CASE ~CheckQuota(t)
    BY <1>1, <1>2, <2>2, StorePromises, StoreTables, InsertKeepsQuota
  <2> QED
    BY <2>1, <2>2
<1>3. ASSUME NEW t \in Thread, Delete(t)
      PROVE  Cardinality(Units(u)') + Cardinality(Promised(u)') <= Quota + Slack
  BY <1>1, <1>3, DeletePromises, DeleteTables
<1>4. CASE Sweep \/ Restart \/ Tick \/ UNCHANGED vars \/ \E v \in User : RemoveUser(v)
  BY <1>1, <1>4, OtherPromises, OtherTables
<1> QED
  BY <1>2, <1>3, <1>4 DEF Next

LEMMA QuotaInit == Init => QuotaPromised
<1> SUFFICES ASSUME Init, NEW u \in User
             PROVE  Cardinality(Units(u)) + Cardinality(Promised(u)) <= Quota + Slack
  BY DEF QuotaPromised
<1>1. Units(u) = {}
  BY DEF Init, Units
<1>2. Promised(u) = {}
  BY DEF Init, Idle, Promised, Promising
<1>3. Cardinality({}) = 0
  BY FS_EmptySet
<1> QED
  BY <1>1, <1>2, <1>3, SlackIsNat, RetentionAssumption

(* The photos kept for a user exceed the quota by what the other threads   *)
(* may have checked against it at the same time, and by no more.           *)
THEOREM QuotaBoundedHolds == Spec => []QuotaBounded
<1>1. Init => RetentionInvariant /\ QuotaPromised
  BY InitRetention, QuotaInit
<1>2. (RetentionInvariant /\ QuotaPromised) /\ [Next]_vars
        => (RetentionInvariant /\ QuotaPromised)'
  BY RetentionStep, QuotaStep
<1>3. QuotaPromised => QuotaBounded
  <2> SUFFICES ASSUME QuotaPromised, NEW u \in User
               PROVE  Used(u) <= Quota + Slack
    BY DEF QuotaBounded, Slack
  <2>1. /\ Units(u) \in SUBSET (Photo \X (1 .. MaxSize))
        /\ Promised(u) \in SUBSET (Thread \X (1 .. MaxSize))
    BY DEF Units, Promised
  <2>2. Cardinality(Units(u)) \in Nat /\ Cardinality(Promised(u)) \in Nat
    BY <2>1, UnitSets
  <2> QED
    BY <2>2, SlackIsNat, RetentionAssumption DEF QuotaPromised, Used
<1> QED
  BY <1>1, <1>2, <1>3, PTL DEF Spec

-----------------------------------------------------------------------------
(* What is left of a closed account *)

(* A thread has no item to come for the user but those it had, and it does *)
(* not go back to the saving of one.                                       *)
NoNewItems(u) ==
    \A t \in Thread : thread'[t].user = u /\ thread'[t].pc \in Storing =>
        /\ thread[t].user = u /\ thread[t].pc \in Storing
        /\ \/ /\ thread'[t].items = thread[t].items
              /\ thread'[t].pc = "save" => thread[t].pc = "save"
           \/ thread'[t].items = thread[t].items - 1

Room == Cardinality(Thread) * MaxItems

(* Two sets that share a bound: an element of the second may make room for *)
(* one of the first.                                                       *)
LEMMA SharedBound ==
  ASSUME NEW A, NEW B, IsFiniteSet(A), IsFiniteSet(B), NEW n \in Nat,
         Cardinality(A) + Cardinality(B) <= n
  PROVE  /\ \A C \in SUBSET A, D \in SUBSET B :
               IsFiniteSet(C) /\ Cardinality(C) + Cardinality(D) <= n
         /\ \A a : \A b \in B :
               /\ IsFiniteSet(A \cup {a})
               /\ Cardinality(A \cup {a}) + Cardinality(B \ {b}) <= n
<1>1. Cardinality(A) \in Nat /\ Cardinality(B) \in Nat
  BY FS_CardinalityType
<1>2. ASSUME NEW C \in SUBSET A, NEW D \in SUBSET B
      PROVE  IsFiniteSet(C) /\ Cardinality(C) + Cardinality(D) <= n
  <2>1. /\ IsFiniteSet(C) /\ Cardinality(C) <= Cardinality(A)
        /\ IsFiniteSet(D) /\ Cardinality(D) <= Cardinality(B)
    BY FS_Subset
  <2>2. Cardinality(C) \in Nat /\ Cardinality(D) \in Nat
    BY <2>1, FS_CardinalityType
  <2> QED BY <1>1, <2>1, <2>2
<1>3. ASSUME NEW a, NEW b \in B
      PROVE  /\ IsFiniteSet(A \cup {a})
             /\ Cardinality(A \cup {a}) + Cardinality(B \ {b}) <= n
  <2>1. /\ IsFiniteSet(A \cup {a})
        /\ Cardinality(A \cup {a}) \in {Cardinality(A), Cardinality(A) + 1}
    BY FS_AddElement
  <2>2. Cardinality(B \ {b}) = Cardinality(B) - 1
    BY FS_RemoveElement
  <2> QED BY <1>1, <2>1, <2>2
<1> QED BY <1>2, <1>3

LEMMA RoomIsThere ==
  ASSUME NEW C, C \subseteq Thread \X (1 .. MaxItems)
  PROVE  IsFiniteSet(C) /\ Cardinality(C) \in Nat /\ Cardinality(C) <= Room /\ Room \in Nat
<1>1. IsFiniteSet(1 .. MaxItems) /\ Cardinality(1 .. MaxItems) = MaxItems
  BY RetentionAssumption, FS_Interval
<1>2. /\ IsFiniteSet(Thread \X (1 .. MaxItems))
      /\ Cardinality(Thread \X (1 .. MaxItems)) =
            Cardinality(Thread) * Cardinality(1 .. MaxItems)
  BY <1>1, RetentionAssumption, FS_Product, Zenon
<1>3. Cardinality(Thread \X (1 .. MaxItems)) = Room
  BY <1>1, <1>2, Zenon DEF Room
<1> QED
  BY <1>2, <1>3, FS_Subset, FS_CardinalityType

(* Without new items, nothing more is to come.                             *)
LEMMA ComingShrinks ==
  ASSUME RetentionInvariant, NEW u \in User, NoNewItems(u), NEW P, P \in {{"save"}, Storing}
  PROVE  Coming(u, P)' \subseteq Coming(u, P)
<1> SUFFICES ASSUME NEW w \in Coming(u, P)' PROVE w \in Coming(u, P)
  OBVIOUS
<1>1. w \in Thread \X (1 .. MaxItems) /\ w[1] \in Thread /\ w[2] \in Nat
  BY RetentionAssumption DEF Coming
<1>2. /\ thread'[w[1]].user = u /\ thread'[w[1]].pc \in Storing
      /\ \/ w[2] <= thread'[w[1]].items
         \/ w[2] = thread'[w[1]].items + 1 /\ thread'[w[1]].pc \in P
  BY DEF Coming
<1>3. thread[w[1]].items \in Nat
  BY <1>1, RetentionAssumption DEF RetentionInvariant, TypeOK, ThreadState
<1>4. thread[w[1]].user = u /\ thread[w[1]].pc \in Storing
  BY <1>1, <1>2 DEF NoNewItems
<1>5. \/ w[2] <= thread[w[1]].items
      \/ w[2] = thread[w[1]].items + 1 /\ thread[w[1]].pc \in P
  <2>1. CASE /\ thread'[w[1]].items = thread[w[1]].items
             /\ thread'[w[1]].pc = "save" => thread[w[1]].pc = "save"
    BY <1>2, <1>4, <2>1
  <2>2. CASE thread'[w[1]].items = thread[w[1]].items - 1
    BY <1>1, <1>2, <1>3, <2>2
  <2> QED
    BY <1>1, <1>2, <2>1, <2>2 DEF NoNewItems
<1> QED
  BY <1>1, <1>4, <1>5 DEF Coming

(* A thread's current item is among those to come.                         *)
LEMMA CurrentIsComing ==
  ASSUME RetentionInvariant, NEW t \in Thread, NEW u \in User, NEW P,
         thread[t].user = u, thread[t].pc \in Storing, thread[t].pc \in P
  PROVE  /\ thread[t].items \in Nat
         /\ <<t, thread[t].items + 1>> \in Coming(u, P)
<1>1. thread[t].items \in 0 .. MaxItems - 1
  BY DEF RetentionInvariant, TypeOK, ThreadState
<1>2. thread[t].items \in Nat /\ thread[t].items + 1 \in 1 .. MaxItems
  BY <1>1, RetentionAssumption
<1> QED
  BY <1>2 DEF Coming

(* The next item of a request is none that is new.                         *)
LEMMA NextItemServes ==
  ASSUME RetentionInvariant, NEW t \in Thread, NEW u \in User,
         thread[t].pc \in Storing, NextItem(t)
  PROVE  NoNewItems(u)
<1>1. /\ Following(thread[t]).pc \in {"idle", "save"}
      /\ Following(thread[t]).pc = "save" =>
            /\ Following(thread[t]).user = thread[t].user
            /\ Following(thread[t]).items = thread[t].items - 1
  BY FollowingIs DEF RetentionInvariant, TypeOK
<1>2. /\ thread'[t] = Following(thread[t])
      /\ \A s \in Thread \ {t} : thread'[s] = thread[s]
  BY DEF NextItem, RetentionInvariant, TypeOK
<1>3. ASSUME thread'[t].user = u, thread'[t].pc \in Storing
      PROVE  thread[t].user = u /\ thread'[t].items = thread[t].items - 1
  BY <1>1, <1>2, <1>3 DEF Storing
<1> QED
  BY <1>2, <1>3 DEF NoNewItems

(* No step makes a thread serve a closed account.                          *)
LEMMA NoNewServers ==
  ASSUME RetentionInvariant, [Next]_vars, NEW u \in User \ active
  PROVE  NoNewItems(u)
<1>0. thread \in [Thread -> ThreadState] /\ u # None
  BY NullAssumption DEF RetentionInvariant, TypeOK
<1> USE DEF Storing
<1>1. ASSUME NEW t \in Thread, \A s \in Thread \ {t} : thread'[s] = thread[s],
             thread'[t].user # u \/ thread'[t].pc \notin Storing
      PROVE  NoNewItems(u)
  BY <1>1 DEF NoNewItems
<1>2. ASSUME NEW t \in Thread, Store(t) PROVE NoNewItems(u)
  <2>0. thread[t] \in ThreadState
    BY <1>0
  <2>1. ASSUME NEW v \in User, BeginEstimate(t, v) PROVE NoNewItems(u)
    <3>1. \A n \in 1 .. MaxItems : Estimating(v, n).user = v
      BY EstimatingIs
    <3>2. thread'[t].user = v /\ v # u /\ \A s \in Thread \ {t} : thread'[s] = thread[s]
      BY <1>0, <2>1, <3>1 DEF BeginEstimate
    <3> QED BY <1>1, <3>2
  <2>7. CASE NextItem(t) /\ thread[t].pc \in Storing
    BY <2>7, NextItemServes
  <2>2. CASE SaveEstimate(t) /\ ~NextItem(t)
    BY <1>0, <2>0, <2>2 DEF SaveEstimate, NoNewItems, ThreadState
  <2>3. CASE CheckQuota(t) /\ ~NextItem(t)
    BY <1>0, <2>0, <2>3 DEF CheckQuota, NoNewItems, ThreadState
  <2>4. CASE WriteTemp(t) /\ ~NextItem(t)
    BY <1>0, <2>0, <2>4 DEF WriteTemp, NoNewItems, ThreadState
  <2>5. CASE RenameTemp(t) /\ ~NextItem(t)
    BY <1>0, <2>0, <2>5 DEF RenameTemp, NoNewItems, ThreadState
  <2>6. \/ \E v \in User : BeginEstimate(t, v)
        \/ thread[t].pc \in Storing /\ NextItem(t)
        \/ (SaveEstimate(t) \/ CheckQuota(t) \/ WriteTemp(t) \/ RenameTemp(t))
              /\ ~NextItem(t)
    BY <1>2 DEF Store, SaveEstimate, EstimateFails, CheckQuota, WriteTemp, RenameTemp,
                InsertRow
  <2> QED BY <2>1, <2>2, <2>3, <2>4, <2>5, <2>6, <2>7
<1>3. ASSUME NEW t \in Thread, Delete(t) PROVE NoNewItems(u)
  <2>0. thread[t] \in ThreadState
    BY <1>0
  <2>1. ASSUME NEW q, q.pc \notin Storing, BeginDelete(t, q) PROVE NoNewItems(u)
    BY <1>0, <1>1, <2>1 DEF BeginDelete
  <2>2. ASSUME NEW p \in Photo, DeletePhoto(t, p) PROVE NoNewItems(u)
    BY <2>1, <2>2 DEF DeletePhoto, Idle
  <2>3. ASSUME NEW e \in Estimate, DeleteHistory(t, e) PROVE NoNewItems(u)
    BY <2>1, <2>3 DEF DeleteHistory, Idle
  <2>4. ASSUME NEW v \in User, DeleteAccount(t, v) PROVE NoNewItems(u)
    BY <2>1, <2>4 DEF DeleteAccount, Idle
  <2>5. CASE ForgetEstimate(t)
    BY <1>0, <2>0, <2>5 DEF ForgetEstimate, Answer, Idle, NoNewItems, ThreadState
  <2>6. CASE DropRow(t)
    BY <1>0, <2>0, <2>6 DEF DropRow, NoNewItems, ThreadState
  <2>7. CASE UnlinkFile(t)
    BY <1>0, <2>0, <2>7 DEF UnlinkFile, NoNewItems, ThreadState
  <2>8. CASE DeleteDone(t) \/ CloseAccount(t)
    BY <1>0, <2>8 DEF DeleteDone, CloseAccount, Answer, Idle, NoNewItems
  <2> QED BY <1>3, <2>2, <2>3, <2>4, <2>5, <2>6, <2>7, <2>8 DEF Delete
<1>4. CASE Sweep
  BY <1>4 DEF Sweep, SweepBegin, SweepExpired, SweepList, SweepCheck, SweepOrphan,
     SweepRows, SweepMissing, SweepDone, NoNewItems
<1>5. CASE Restart \/ Tick \/ UNCHANGED vars \/ \E v \in User : RemoveUser(v)
  BY <1>5 DEF Restart, Idle, Tick, RemoveUser, vars, NoNewItems
<1> QED BY <1>2, <1>3, <1>4, <1>5 DEF Next

(* A step that closes an account leaves nothing of it in the tables.       *)
LEMMA ClosingRemoves ==
  ASSUME RetentionInvariant, [Next]_vars
  PROVE  /\ active' \subseteq active
         /\ \A u \in active \ active' : HistoryOf(u)' = {} /\ PhotosOf(u)' = {}
<1>1. ASSUME NEW v \in User, RemoveRows(v), NEW u \in active \ active'
      PROVE  HistoryOf(u)' = {} /\ PhotosOf(u)' = {}
  <2>1. u = v /\ u \in User /\ u # None
    BY <1>1, NullAssumption DEF RemoveRows, RetentionInvariant, TypeOK
  <2>2. HistoryOf(u)' = {}
    BY <1>1, <2>1 DEF RemoveRows, DeleteEstimates, HistoryOf
  <2>3. ASSUME NEW p \in Photo, rows'[p] # None PROVE rows'[p].user # u
    <3>1. rows[p] # None /\ rows'[p] = rows[p] /\ estimates[rows[p].estimate] # u
      <4>1. rows[p] # None /\ rows'[p] = rows[p]
            /\ rows[p].estimate \notin {e \in Estimate : estimates[e] = u}
        BY <1>1, <2>1, <2>3 DEF RemoveRows, DeleteEstimates
      <4>2. rows[p].estimate \in Estimate
        BY <4>1 DEF RetentionInvariant, TypeOK, PhotoRow
      <4> QED BY <4>1, <4>2
    <3> QED BY <3>1 DEF RetentionInvariant, PhotoHasHistory
  <2> QED BY <2>2, <2>3 DEF PhotosOf
<1>2. ASSUME NEW v, RemoveRows(v) PROVE active' \subseteq active
  BY <1>2 DEF RemoveRows
<1>3. ASSUME NEW t \in Thread, Store(t) PROVE active' = active
  BY <1>3 DEF Store, BeginEstimate, SaveEstimate, EstimateFails, CheckQuota, WriteTemp,
                  RenameTemp,
              InsertRow
<1>4. ASSUME NEW t \in Thread, Delete(t)
      PROVE  \/ active' = active
             \/ CloseAccount(t) /\ RemoveRows(thread[t].user)
  BY <1>4 DEF Delete, BeginDelete, DeletePhoto, DeleteHistory, DeleteAccount,
              ForgetEstimate, DropRow, UnlinkFile, DeleteDone, CloseAccount
<1>5. ASSUME NEW t \in Thread, CloseAccount(t), RemoveRows(thread[t].user),
             NEW u \in active \ active'
      PROVE  thread[t].user \in User
  BY <1>5 DEF RemoveRows, RetentionInvariant, TypeOK
<1>6. CASE Sweep \/ Restart \/ Tick \/ UNCHANGED vars
  <2>1. active' = active
    BY <1>6 DEF Sweep, SweepBegin, SweepExpired, SweepList, SweepCheck, SweepOrphan,
       SweepRows, SweepMissing, SweepDone, Restart, Tick, vars
  <2> QED BY <2>1
<1> QED BY <1>1, <1>2, <1>3, <1>4, <1>5, <1>6 DEF Next, RemoveUser

(* What the invariant says of one account.                                 *)
LeftBehind(u) ==
    /\ IsFiniteSet(HistoryOf(u))
    /\ Cardinality(HistoryOf(u)) + Cardinality(Coming(u, {"save"}))
          <= Room
    /\ Cardinality(PhotosOf(u)) + Cardinality(Coming(u, Storing))
          <= Room

Saving(u) == Coming(u, {"save"})

LEMMA LeftBehindShared ==
  ASSUME NEW u \in User, LeftBehind(u),
         \/ HistoryOf(u)' \subseteq HistoryOf(u) /\ Saving(u)' \subseteq Saving(u)
         \/ \E e : \E t \in Saving(u) :
               /\ HistoryOf(u)' \subseteq HistoryOf(u) \cup {e}
               /\ Saving(u)' \subseteq Saving(u) \ {t},
         \/ /\ PhotosOf(u)' \subseteq PhotosOf(u)
            /\ Coming(u, Storing)' \subseteq Coming(u, Storing)
         \/ \E p : \E t \in Coming(u, Storing) :
               /\ PhotosOf(u)' \subseteq PhotosOf(u) \cup {p}
               /\ Coming(u, Storing)' \subseteq Coming(u, Storing) \ {t}
  PROVE  LeftBehind(u)'
<1>2. /\ Coming(u, Storing) \subseteq Thread \X (1 .. MaxItems)
      /\ Saving(u) \subseteq Thread \X (1 .. MaxItems)
      /\ PhotosOf(u) \subseteq Photo
  BY DEF Coming, Saving, PhotosOf
<1>1. Room \in Nat
  BY <1>2, RoomIsThere
<1>3. IsFiniteSet(Coming(u, Storing)) /\ IsFiniteSet(Saving(u))
      /\ IsFiniteSet(PhotosOf(u))
  BY <1>2, RoomIsThere, RetentionAssumption, FS_Subset
<1>4. /\ IsFiniteSet(HistoryOf(u))
      /\ Cardinality(HistoryOf(u)) + Cardinality(Saving(u)) <= Room
      /\ Cardinality(PhotosOf(u)) + Cardinality(Coming(u, Storing)) <= Room
  BY DEF LeftBehind, Saving
<1>5. IsFiniteSet(HistoryOf(u)')
      /\ Cardinality(HistoryOf(u)') + Cardinality(Saving(u)') <= Room
  <2> DEFINE A == HistoryOf(u)
             B == Saving(u)
             C == HistoryOf(u)'
             D == Saving(u)'
  <2>1. /\ IsFiniteSet(A) /\ IsFiniteSet(B)
        /\ Cardinality(A) + Cardinality(B) <= Room
        /\ \/ C \subseteq A /\ D \subseteq B
           \/ \E a : \E b \in B : C \subseteq A \cup {a} /\ D \subseteq B \ {b}
    BY <1>3, <1>4
  <2> HIDE DEF A, B, C, D
  <2>2. CASE C \subseteq A /\ D \subseteq B
    BY <1>1, <2>1, <2>2, SharedBound DEF C, D
  <2>3. ASSUME NEW a, NEW b \in B, C \subseteq A \cup {a}, D \subseteq B \ {b}
        PROVE  IsFiniteSet(C) /\ Cardinality(C) + Cardinality(D) <= Room
    <3>1. /\ IsFiniteSet(A \cup {a})
          /\ Cardinality(A \cup {a}) + Cardinality(B \ {b}) <= Room
      BY <1>1, <2>1, SharedBound
    <3>2. IsFiniteSet(B \ {b})
      BY <2>1, FS_RemoveElement
    <3> QED BY <1>1, <2>3, <3>1, <3>2, SharedBound
  <2> QED BY <2>1, <2>2, <2>3 DEF C, D
<1>6. Cardinality(PhotosOf(u)') + Cardinality(Coming(u, Storing)')
          <= Room
  <2> DEFINE A == PhotosOf(u)
             B == Coming(u, Storing)
             C == PhotosOf(u)'
             D == Coming(u, Storing)'
  <2>1. /\ IsFiniteSet(A) /\ IsFiniteSet(B)
        /\ Cardinality(A) + Cardinality(B) <= Room
        /\ \/ C \subseteq A /\ D \subseteq B
           \/ \E a : \E b \in B : C \subseteq A \cup {a} /\ D \subseteq B \ {b}
    BY <1>3, <1>4
  <2> HIDE DEF A, B, C, D
  <2>2. CASE C \subseteq A /\ D \subseteq B
    BY <1>1, <2>1, <2>2, SharedBound DEF C, D
  <2>3. ASSUME NEW a, NEW b \in B, C \subseteq A \cup {a}, D \subseteq B \ {b}
        PROVE  IsFiniteSet(C) /\ Cardinality(C) + Cardinality(D) <= Room
    <3>1. /\ IsFiniteSet(A \cup {a})
          /\ Cardinality(A \cup {a}) + Cardinality(B \ {b}) <= Room
      BY <1>1, <2>1, SharedBound
    <3>2. IsFiniteSet(B \ {b})
      BY <2>1, FS_RemoveElement
    <3> QED BY <1>1, <2>3, <3>1, <3>2, SharedBound
  <2> QED BY <2>1, <2>2, <2>3 DEF C, D
<1> QED BY <1>5, <1>6 DEF LeftBehind, Saving

LEMMA LeftBehindStep ==
  ASSUME RetentionInvariant, \A u \in User \ active : LeftBehind(u), [Next]_vars
  PROVE  \A u \in User \ active' : LeftBehind(u)'
<1> SUFFICES ASSUME NEW u \in User \ active' PROVE LeftBehind(u)'
  OBVIOUS
<1>1. CASE u \in active
  <2>1. HistoryOf(u)' = {} /\ PhotosOf(u)' = {}
    BY <1>1, ClosingRemoves
  <2>2. /\ Coming(u, Storing)' \subseteq Thread \X (1 .. MaxItems)
        /\ Coming(u, {"save"})' \subseteq Thread \X (1 .. MaxItems)
    BY DEF Coming
  <2>3. /\ Cardinality(Coming(u, Storing)') <= Room
        /\ Cardinality(Coming(u, {"save"})') <= Room
        /\ Cardinality(Coming(u, Storing)') \in Nat
        /\ Cardinality(Coming(u, {"save"})') \in Nat
        /\ Room \in Nat
    BY <2>2, RoomIsThere
  <2>4. Room' = Room
    BY DEF Room
  <2> QED BY <2>1, <2>3, <2>4, FS_EmptySet DEF LeftBehind
<1>2. CASE u \notin active
  <2>1. LeftBehind(u) /\ u # None
    BY <1>2, NullAssumption
  <2>2. NoNewItems(u)
    BY <1>2, NoNewServers
  <2>3. Coming(u, Storing)' \subseteq Coming(u, Storing)
        /\ Saving(u)' \subseteq Saving(u)
    BY <2>2, ComingShrinks DEF Saving
  <2>4. CASE TablesShrink
    <3>1. HistoryOf(u)' \subseteq HistoryOf(u) /\ PhotosOf(u)' \subseteq PhotosOf(u)
      BY <2>1, <2>4 DEF TablesShrink, HistoryOf, PhotosOf
    <3> QED BY <2>1, <2>3, <3>1, LeftBehindShared
  <2>5. ASSUME NEW t \in Thread, SaveEstimate(t) PROVE LeftBehind(u)'
    <3>1. PICK e \in Estimate : estimates' = [estimates EXCEPT ![e] = thread[t].user]
      BY <2>5 DEF SaveEstimate
    <3>2. thread[t].pc = "save" /\ UNCHANGED rows
      BY <2>5 DEF SaveEstimate
    <3>3. thread[t] \in ThreadState /\ thread \in [Thread -> ThreadState]
          /\ estimates \in [Estimate -> User \cup {None}]
      BY DEF RetentionInvariant, TypeOK
    <3>4. PhotosOf(u)' \subseteq PhotosOf(u)
      BY <3>2 DEF PhotosOf
    <3>5. \/ thread'[t].pc = "quota" /\ thread'[t].items = thread[t].items
          \/ thread'[t] = Following(thread[t])
      BY <2>5, <3>3 DEF SaveEstimate, NextItem, ThreadState
    <3>6. CASE thread[t].user = u
      <4>1. /\ thread[t].items \in Nat
            /\ <<t, thread[t].items + 1>> \in Saving(u)
        BY <3>2, <3>6, CurrentIsComing DEF Saving, Storing
      <4>2. <<t, thread[t].items + 1>> \notin Saving(u)'
        <5>1. \/ thread'[t].pc = "quota" /\ thread'[t].items = thread[t].items
              \/ thread'[t].pc = "idle"
              \/ thread'[t].items = thread[t].items - 1
          BY <3>3, <3>5, FollowingIs
        <5> QED BY <4>1, <5>1 DEF Saving, Coming, Storing
      <4>3. HistoryOf(u)' \subseteq HistoryOf(u) \cup {e}
        BY <3>1, <3>3 DEF HistoryOf
      <4>4. Saving(u)' \subseteq Saving(u) \ {<<t, thread[t].items + 1>>}
        BY <2>3, <4>2
      <4> QED BY <2>1, <2>3, <3>4, <4>1, <4>3, <4>4, LeftBehindShared
    <3>7. CASE thread[t].user # u
      <4>1. HistoryOf(u)' \subseteq HistoryOf(u)
        BY <3>1, <3>3, <3>7 DEF HistoryOf
      <4> QED BY <2>1, <2>3, <3>4, <4>1, LeftBehindShared
    <3> QED BY <3>6, <3>7
  <2>6. ASSUME NEW t \in Thread, PhotoAdded(t) PROVE LeftBehind(u)'
    <3> DEFINE q == thread[t]
    <3>1. /\ q.pc = "insert" /\ thread'[t] = Following(q) /\ UNCHANGED estimates
          /\ q \in ThreadState
          /\ rows' = [rows EXCEPT ![q.photo] = NewRow(q)]
          /\ rows \in [Photo -> PhotoRow \cup {None}]
      BY <2>6 DEF PhotoAdded, RetentionInvariant, TypeOK
    <3>2. HistoryOf(u)' \subseteq HistoryOf(u)
      BY <3>1 DEF HistoryOf
    <3>3. NewRow(q).user = q.user
      BY DEF NewRow
    <3>4. CASE q.user = u
      <4>1. q.items \in Nat /\ <<t, q.items + 1>> \in Coming(u, Storing)
        BY <3>1, <3>4, CurrentIsComing DEF Storing
      <4>2. Coming(u, Storing)' \subseteq Coming(u, Storing) \ {<<t, q.items + 1>>}
        <5>1. thread'[t].pc = "idle" \/ thread'[t].items = q.items - 1
          BY <3>1, FollowingIs
        <5>2. <<t, q.items + 1>> \notin Coming(u, Storing)'
          BY <4>1, <5>1 DEF Coming, Storing
        <5> QED BY <2>3, <5>2
      <4>3. PhotosOf(u)' \subseteq PhotosOf(u) \cup {q.photo}
        BY <3>1 DEF PhotosOf
      <4> QED BY <2>1, <2>3, <3>2, <4>1, <4>2, <4>3, LeftBehindShared
    <3>5. CASE q.user # u
      <4>1. PhotosOf(u)' \subseteq PhotosOf(u)
        BY <3>1, <3>3, <3>5 DEF PhotosOf
      <4> QED BY <2>1, <2>3, <3>2, <4>1, LeftBehindShared
    <3> QED BY <3>4, <3>5
  <2>7. ASSUME NEW t \in Thread, Store(t) PROVE LeftBehind(u)'
    <3>1. CASE SaveEstimate(t)
      BY <2>5, <3>1
    <3>2. CASE ~SaveEstimate(t)
      <4>1. TablesShrink \/ PhotoAdded(t)
        BY <2>7, <3>2, UnchangedShrink
           DEF Store, BeginEstimate, EstimateFails, CheckQuota, WriteTemp, RenameTemp,
               InsertRow, PhotoAdded, NextItem, RetentionInvariant, TypeOK
      <4> QED BY <2>4, <2>6, <4>1
    <3> QED BY <3>1, <3>2
  <2>8. ASSUME NEW t \in Thread, Delete(t) PROVE LeftBehind(u)'
    BY <2>4, <2>8, DeleteTables
  <2>9. CASE Sweep \/ Restart \/ Tick \/ UNCHANGED vars \/ \E v \in User : RemoveUser(v)
    BY <2>4, <2>9, OtherTables
  <2> QED BY <2>7, <2>8, <2>9 DEF Next
<1> QED BY <1>1, <1>2

(* What requests and runs that outlive the account they work for leave of  *)
(* it is bounded by the items of one request per thread, in the history    *)
(* and in the photos: a request is authenticated once for all its items    *)
(* (handle_estimate_batch), delete_account (db.rs) waits for none, and     *)
(* nothing removes afterwards what they save.                              *)
THEOREM LeftBehindBoundedHolds == Spec => []LeftBehindBounded
<1> DEFINE I == RetentionInvariant /\ \A u \in User \ active : LeftBehind(u)
<1>1. Init => I
  <2>1. Init => \A u \in User \ active : LeftBehind(u)
    BY DEF Init
  <2> QED BY <2>1, InitRetention
<1>2. I /\ [Next]_vars => I'
  BY RetentionStep, LeftBehindStep
<1>3. I => LeftBehindBounded
  BY DEF LeftBehindBounded, LeftBehind, Room
<1> QED BY <1>1, <1>2, <1>3, PTL DEF Spec
=============================================================================
