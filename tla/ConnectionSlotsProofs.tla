------------------------ MODULE ConnectionSlotsProofs ------------------------
(***************************************************************************)
(* The invariants of ConnectionSlots and the refinement of AdmissionCap,   *)
(* for any number of connections and any cap.                              *)
(*                                                                         *)
(* The argument: every step adds to the counter what it adds to the        *)
(* connections in service and the lost slots, so the counter is exact; the *)
(* loop is on one connection at a time, and only that one can take the     *)
(* counter beyond the cap, so that what fetch_add returned decides as the  *)
(* abstract server does at that instant.                                   *)
(***************************************************************************)
EXTENDS ConnectionSlots, FiniteSetTheorems, TLAPS

-----------------------------------------------------------------------------
(* The inductive invariant *)

(* The loop is on exactly the connection it has not decided about. *)
OneAtATime ==
    /\ \A c \in Conn : stage[c] \in Deciding <=> accepting = c
    /\ \A c \in Conn : stage[c] = "refused" => ~HasRoom

(* Only a connection about to be refused takes the counter past the cap. *)
Capped ==
    active <= MaxConn + (IF \E c \in Doomed : stage[c] = "claimed" THEN 1 ELSE 0)

Uncounted == {"waiting"} \cup Deciding \cup Unguarded \cup {"head", "body"}
Counted == {"dispatch", "reply", "sent", "answered"}

CountedByStage ==
    \A c \in Conn : /\ counted[c] <= 1
                    /\ stage[c] \in Uncounted => counted[c] = 0
                    /\ stage[c] \in Counted => counted[c] = 1

Inv == TypeOK /\ OneAtATime /\ Capped /\ CounterExact /\ CountedByStage

-----------------------------------------------------------------------------
(* The connections in service *)

LEMMA ServedFinite ==
    /\ IsFiniteSet(Served)
    /\ Cardinality(Served) \in Nat
<1>1. Served \in SUBSET Conn /\ IsFiniteSet(Conn)
  BY ConnAssumption DEF Served
<1>2. IsFiniteSet(Served)
  BY <1>1, FS_Subset
<1> QED
  BY <1>2, FS_CardinalityType

LEMMA MoveEffect ==
    ASSUME TypeOK, NEW c \in Conn, NEW s \in Stage, Move(c, s)
    PROVE  /\ stage' \in [Conn -> Stage]
           /\ stage'[c] = s
           /\ \A d \in Conn : d # c => stage'[d] = stage[d]
           /\ Served' = IF s \in InService THEN Served \cup {c}
                                           ELSE Served \ {c}
BY DEF TypeOK, Move, Served

LEMMA ServedGains ==
    ASSUME NEW c \in Conn, c \notin Served, Served' = Served \cup {c}
    PROVE  Cardinality(Served') = Cardinality(Served) + 1
BY ServedFinite, FS_AddElement

LEMMA ServedLoses ==
    ASSUME NEW c \in Served, Served' = Served \ {c}
    PROVE  Cardinality(Served') = Cardinality(Served) - 1
BY ServedFinite, FS_RemoveElement

LEMMA ServedKeeps ==
    ASSUME NEW c \in Conn,
           \/ c \in Served /\ Served' = Served \cup {c}
           \/ c \notin Served /\ Served' = Served \ {c}
    PROVE  Served' = Served
OBVIOUS

LEMMA ServedPositive ==
    ASSUME NEW c \in Served
    PROVE  Cardinality(Served) >= 1
<1>1. Cardinality(Served) # 0
  BY ServedFinite, FS_EmptySet
<1> QED
  BY <1>1, ServedFinite

-----------------------------------------------------------------------------
(* One step *)

(* What a step of connection c does to the counter and to the sets. *)
LEMMA Entering ==
    ASSUME Inv, NEW c \in Conn, Accept(c)
    PROVE  /\ stage' \in [Conn -> Stage]
           /\ stage'[c] = "claimed"
           /\ \A d \in Conn : d # c => stage'[d] = stage[d]
           /\ Served' = Served \cup {c}
           /\ c \notin Served
           /\ CounterExact'
<1>1. "claimed" \in Stage /\ "claimed" \in InService
  BY DEF Stage, InService, Deciding
<1>2. Move(c, "claimed") /\ TypeOK
  BY DEF Accept, Inv
<1>3. c \notin Served
  BY DEF Served, Accept, InService, Unguarded, Guarded
<1>4. Served' = Served \cup {c}
  BY <1>1, <1>2, MoveEffect
<1>5. CounterExact'
  BY <1>3, <1>4, ServedGains, ServedFinite DEF CounterExact, Accept, Inv, TypeOK
<1> QED
  BY <1>1, <1>2, <1>3, <1>4, <1>5, MoveEffect

LEMMA Leaving ==
    ASSUME Inv, NEW c \in Conn, GiveBack(c) \/ Release(c) \/ TimeoutFails(c)
    PROVE  /\ stage' \in [Conn -> Stage]
           /\ stage'[c] \in {"refused", "answered", "dropped"}
           /\ \A d \in Conn : d # c => stage'[d] = stage[d]
           /\ Served' = Served \ {c}
           /\ c \in Served
           /\ active >= 1
           /\ CounterExact'
<1>1. PICK s \in {"refused", "answered", "dropped"} : Move(c, s)
  BY DEF GiveBack, Release, TimeoutFails
<1>2. s \in Stage /\ s \notin InService
  BY DEF Stage, InService, Deciding, Unguarded, Guarded, Ended
<1>3. c \in Served
  BY DEF Served, GiveBack, Release, TimeoutFails, InService, Unguarded, Guarded
<1>4. Served' = Served \ {c}
  BY <1>1, <1>2, MoveEffect DEF Inv
<1>5. Cardinality(Served') = Cardinality(Served) - 1
  BY <1>3, <1>4, ServedLoses
<1>6. active >= 1
  BY <1>3, ServedPositive, ServedFinite DEF Inv, CounterExact, TypeOK
<1>7. CounterExact'
  BY <1>5, ServedFinite
  DEF CounterExact, GiveBack, Release, TimeoutFails, Inv, TypeOK
<1> QED
  BY <1>1, <1>2, <1>3, <1>4, <1>6, <1>7, MoveEffect DEF Inv

Staying(c) ==
    \/ Connect(c) \/ Spawn(c) \/ Refuse(c) \/ Adopt(c)
    \/ ReadNothing(c) \/ ReadHead(c) \/ RejectRequest(c) \/ ReadBody(c)
    \/ Dispatch(c) \/ Reply(c)

LEMMA StayingEffect ==
    ASSUME Inv, NEW c \in Conn, Staying(c)
    PROVE  /\ stage' \in [Conn -> Stage]
           /\ \A d \in Conn : d # c => stage'[d] = stage[d]
           /\ Served' = Served
           /\ active' = active /\ seen' = seen /\ lost' = lost
           /\ CounterExact'
<1>1. PICK s \in Stage :
          /\ Move(c, s)
          /\ c \in Served <=> s \in InService
  <2>1. CASE Spawn(c)
    <3>1. stage[c] \in Deciding /\ stage[c] # "refused"
      BY <2>1 DEF Inv, OneAtATime, Spawn
    <3>2. stage[c] = "claimed"
      BY <3>1 DEF Deciding
    <3> QED
      BY <2>1, <3>2
      DEF Spawn, Served, Stage, InService, Deciding, Unguarded, Guarded, Ended
  <2>2. CASE ~Spawn(c)
    BY <2>2
    DEF Staying, Connect, Refuse, Adopt, ReadNothing, ReadHead, RejectRequest,
        ReadBody, Dispatch, Reply, Served, Stage, InService, Deciding,
        Unguarded, Guarded, Ended
  <2> QED
    BY <2>1, <2>2
<1>2. Served' = Served
  BY <1>1, MoveEffect, ServedKeeps DEF Inv
<1>3. active' = active /\ seen' = seen /\ lost' = lost
  BY DEF Staying, Connect, Spawn, Refuse, Adopt, ReadNothing, ReadHead,
         RejectRequest, ReadBody, Dispatch, Reply
<1>4. CounterExact'
  BY <1>2, <1>3 DEF CounterExact, Inv
<1> QED
  BY <1>1, <1>2, <1>3, <1>4, MoveEffect DEF Inv

LEMMA RestartEffect ==
    ASSUME Inv, Restart
    PROVE  /\ stage' \in [Conn -> Stage]
           /\ \A c \in Conn : stage'[c] \in {"idle"} \cup Ended
           /\ Served' = {}
           /\ CounterExact'
<1>1. \A c \in Conn : stage'[c] \in {"idle"} \cup Ended
  BY DEF Restart, Inv, TypeOK, Ended
<1>2. stage' \in [Conn -> Stage]
  <2>1. stage' = [c \in Conn |-> stage'[c]]
    BY DEF Restart
  <2>2. {"idle"} \cup Ended \subseteq Stage
    BY DEF Stage
  <2> QED
    BY <1>1, <2>1, <2>2
<1>3. Served' = {}
  BY <1>1 DEF Served, InService, Unguarded, Guarded, Ended
<1>4. Cardinality(Served') = 0
  BY <1>3, FS_EmptySet
<1>5. CounterExact'
  BY <1>4 DEF Restart, CounterExact
<1> QED
  BY <1>1, <1>2, <1>3, <1>5

-----------------------------------------------------------------------------
(* The invariant is kept *)

LEMMA TypePreserved ==
    ASSUME Inv, Next
    PROVE  TypeOK'
<1> USE DEF Inv, TypeOK
<1>1. CASE Restart
  BY <1>1, RestartEffect DEF Restart
<1>2. ASSUME NEW c \in Conn, Accept(c)
      PROVE  TypeOK'
  BY <1>2, Entering DEF Accept
<1>3. ASSUME NEW c \in Conn, GiveBack(c) \/ Release(c) \/ TimeoutFails(c)
      PROVE  TypeOK'
  BY <1>3, Leaving DEF GiveBack, Release, TimeoutFails
<1>4. ASSUME NEW c \in Conn, Staying(c)
      PROVE  TypeOK'
  <2>1. counted' \in [Conn -> Nat] /\ accepting' \in Conn \cup {None}
    BY <1>4
    DEF Staying, Connect, Spawn, Refuse, Adopt, ReadNothing, ReadHead,
        RejectRequest, ReadBody, Dispatch, Reply, RecordRequest
  <2> QED
    BY <1>4, <2>1, StayingEffect
<1> QED
  BY <1>1, <1>2, <1>3, <1>4 DEF Next, LoopStep, ThreadStep, Staying

LEMMA OneAtATimePreserved ==
    ASSUME Inv, Next
    PROVE  OneAtATime'
<1> USE DEF Inv, OneAtATime, HasRoom
<1>1. CASE Restart
  BY <1>1, RestartEffect, ConnAssumption DEF Restart, Deciding, Ended
<1>2. ASSUME NEW c \in Conn, Accept(c)
      PROVE  OneAtATime'
  BY <1>2, Entering, ConnAssumption DEF Accept, Deciding
<1>3. ASSUME NEW c \in Conn, GiveBack(c)
      PROVE  OneAtATime'
  BY <1>3 DEF GiveBack, Move, Deciding, TypeOK
<1>4. ASSUME NEW c \in Conn, Spawn(c) \/ Refuse(c)
      PROVE  OneAtATime'
  BY <1>4, ConnAssumption DEF Spawn, Refuse, Move, Deciding, Ended, TypeOK
<1>5. ASSUME NEW c \in Conn,
             Connect(c) \/ (ThreadStep(c) /\ stage[c] \notin Deciding)
      PROVE  OneAtATime'
  <2>1. accepting' = accepting /\ seen' = seen
    BY <1>5
    DEF Connect, ThreadStep, Adopt, TimeoutFails, ReadNothing, ReadHead,
        RejectRequest, ReadBody, Dispatch, Reply, Release
  <2>2. PICK s \in Stage \ Deciding : Move(c, s)
    BY <1>5
    DEF Connect, ThreadStep, Adopt, TimeoutFails, ReadNothing, ReadHead,
        RejectRequest, ReadBody, Dispatch, Reply, Release, Stage, Deciding,
        Guarded, Unguarded, Ended
  <2>3. stage[c] \notin Deciding
    BY <1>5 DEF Connect, Deciding, Ended
  <2> QED
    BY <2>1, <2>2, <2>3, MoveEffect DEF Deciding
<1>6. \A c \in Conn : ThreadStep(c) => stage[c] \notin Deciding
  BY DEF ThreadStep, Adopt, TimeoutFails, ReadNothing, ReadHead,
         RejectRequest, ReadBody, Dispatch, Reply, Release, Deciding
<1> QED
  BY <1>1, <1>2, <1>3, <1>4, <1>5, <1>6 DEF Next, LoopStep

(* Past the cap, the loop is on a connection that it will refuse. *)
LEMMA CappedPreserved ==
    ASSUME Inv, Next
    PROVE  Capped'
<1> USE MaxConnAssumption DEF Inv, TypeOK, Capped, HasRoom, Doomed
<1>1. CASE Restart
  BY <1>1 DEF Restart
<1>2. ASSUME NEW c \in Conn, Accept(c)
      PROVE  Capped'
  <2>1. active <= MaxConn
    BY <1>2, ConnAssumption DEF Accept
  <2>2. stage'[c] = "claimed"
    BY <1>2, Entering
  <2> QED
    BY <1>2, <2>1, <2>2 DEF Accept
<1>3. ASSUME NEW c \in Conn, GiveBack(c)
      PROVE  Capped'
  <2>1. active' <= MaxConn
    BY <1>3 DEF GiveBack
  <2> QED
    BY <2>1, TypePreserved
<1>4. ASSUME NEW c \in Conn, LoopStep(c) \/ Connect(c) \/ ThreadStep(c),
             ~Accept(c), ~GiveBack(c)
      PROVE  Capped'
  <2>1. active' <= active
    BY <1>4
    DEF LoopStep, Connect, ThreadStep, Spawn, Refuse, Adopt, TimeoutFails,
        ReadNothing, ReadHead, RejectRequest, ReadBody, Dispatch, Reply,
        Release
  <2>2. ASSUME NEW d \in Doomed, stage[d] = "claimed"
        PROVE  d \in Doomed' /\ stage'[d] = "claimed"
    <3>1. accepting = d /\ ~HasRoom /\ d \in Conn
      BY <2>2
    <3>2. ~Spawn(c) /\ ~Refuse(c)
      BY <2>2, <3>1 DEF Spawn, Refuse
    <3>3. c # d
      BY <1>4, <2>2, <3>2
      DEF LoopStep, Connect, ThreadStep, Adopt, TimeoutFails, ReadNothing,
          ReadHead, RejectRequest, ReadBody, Dispatch, Reply, Release, Ended
    <3>4. stage'[d] = stage[d] /\ accepting' = accepting /\ seen' = seen
      BY <1>4, <3>1, <3>2, <3>3
      DEF LoopStep, Connect, ThreadStep, Adopt, TimeoutFails, ReadNothing,
          ReadHead, RejectRequest, ReadBody, Dispatch, Reply, Release, Move
    <3> QED
      BY <2>2, <3>1, <3>4
  <2>3. active' \in Nat
    BY TypePreserved
  <2> QED
    BY <2>1, <2>2, <2>3
<1> QED
  BY <1>1, <1>2, <1>3, <1>4 DEF Next, LoopStep

LEMMA CountedPreserved ==
    ASSUME Inv, Next
    PROVE  CountedByStage'
<1> USE DEF Inv, TypeOK, CountedByStage, Uncounted, Counted, Deciding,
            Unguarded, Ended
<1>1. CASE Restart
  BY <1>1 DEF Restart
<1>2. ASSUME NEW c \in Conn, LoopStep(c)
      PROVE  CountedByStage'
  BY <1>2
  DEF LoopStep, Accept, Spawn, GiveBack, Refuse, Move, RecordRequest, OneAtATime
<1>3. ASSUME NEW c \in Conn, Connect(c)
      PROVE  CountedByStage'
  BY <1>3 DEF Connect, Move
<1>4. ASSUME NEW c \in Conn, ThreadStep(c)
      PROVE  CountedByStage'
  BY <1>4
  DEF ThreadStep, Adopt, TimeoutFails, ReadNothing, ReadHead, RejectRequest,
      ReadBody, Dispatch, Reply, Release, Move, RecordRequest
<1> QED
  BY <1>1, <1>2, <1>3, <1>4 DEF Next

LEMMA CounterPreserved ==
    ASSUME Inv, Next
    PROVE  CounterExact'
BY Entering, Leaving, StayingEffect, RestartEffect
DEF Next, LoopStep, ThreadStep, Staying

LEMMA InvInit ==
    ASSUME Init
    PROVE  Inv
<1>1. Served = {}
  BY DEF Init, Served, InService, Unguarded, Guarded
<1>2. CounterExact
  BY <1>1, FS_EmptySet DEF Init, CounterExact
<1> QED
  BY <1>2, MaxConnAssumption, ConnAssumption
  DEF Inv, Init, TypeOK, OneAtATime, Capped, CountedByStage, Stage, Deciding,
      Uncounted, Counted, Unguarded

LEMMA InvStep ==
    ASSUME Inv, [Next]_vars
    PROVE  Inv'
<1>1. CASE Next
  BY <1>1, TypePreserved, OneAtATimePreserved, CappedPreserved,
     CounterPreserved, CountedPreserved DEF Inv
<1>2. CASE UNCHANGED vars
  BY <1>2
  DEF vars, Inv, TypeOK, OneAtATime, Capped, CounterExact, CountedByStage,
      HasRoom, Doomed, Served
<1> QED
  BY <1>1, <1>2

THEOREM InvariantHolds == Spec => []Inv
BY InvInit, InvStep, PTL DEF Spec

-----------------------------------------------------------------------------
(* The invariants of the runs *)

(* The counter never goes below zero and every stage is a known one.       *)
THEOREM TypeCorrect == Spec => []TypeOK
<1>1. Inv => TypeOK
  BY DEF Inv
<1> QED
  BY <1>1, InvariantHolds, PTL

(* active_connections is exactly the connections in service and the lost   *)
(* slots, in every interleaving of the loop's two steps with the guards.   *)
THEOREM CounterHolds == Spec => []CounterExact
<1>1. Inv => CounterExact
  BY DEF Inv
<1> QED
  BY <1>1, InvariantHolds, PTL

(* Threads and lost slots together never exceed the cap.                   *)
THEOREM HandledHolds == Spec => []HandledBounded
<1>1. ASSUME Inv
      PROVE  HandledBounded
  <2> DEFINE handled == {c \in Conn : stage[c] \in Unguarded \cup Guarded}
  <2>1. handled \in SUBSET Served
    BY DEF Served, InService
  <2>2. IsFiniteSet(handled) /\ Cardinality(handled) <= Cardinality(Served)
    BY <2>1, ServedFinite, FS_Subset
  <2>3. Cardinality(handled) \in Nat
    BY <2>2, FS_CardinalityType
  <2>4. active = Cardinality(Served) + lost /\ active \in Nat /\ lost \in Nat
    BY <1>1 DEF Inv, CounterExact, TypeOK
  <2>5. CASE ~ \E c \in Doomed : stage[c] = "claimed"
    <3>1. active <= MaxConn
      BY <1>1, <2>5, MaxConnAssumption DEF Inv, Capped
    <3> QED
      BY <2>2, <2>3, <2>4, <3>1, ServedFinite, MaxConnAssumption
      DEF HandledBounded
  <2>6. CASE \E c \in Doomed : stage[c] = "claimed"
    <3>1. PICK c \in Conn : stage[c] = "claimed"
      BY <2>6 DEF Doomed
    <3>2. c \in Served \ handled
      BY <3>1 DEF Served, InService, Unguarded, Guarded
    <3>3. handled \cup {c} \in SUBSET Served
      BY <2>1, <3>2
    <3>4. Cardinality(handled \cup {c}) <= Cardinality(Served)
      BY <3>3, ServedFinite, FS_Subset
    <3>5. Cardinality(handled \cup {c}) = Cardinality(handled) + 1
      BY <2>2, <3>2, FS_AddElement
    <3>6. active <= MaxConn + 1
      BY <1>1, <2>6, MaxConnAssumption DEF Inv, Capped
    <3> QED
      BY <2>3, <2>4, <3>4, <3>5, <3>6, ServedFinite, MaxConnAssumption
      DEF HandledBounded
  <2> QED
    BY <2>5, <2>6
<1> QED
  BY <1>1, InvariantHolds, PTL

(* Every response written was counted once, whichever return wrote it.     *)
THEOREM AnsweredHolds == Spec => []AnsweredCounted
<1>1. Inv => AnsweredCounted
  BY DEF Inv, CountedByStage, AnsweredCounted, Counted
<1> QED
  BY <1>1, InvariantHolds, PTL

-----------------------------------------------------------------------------
(* The refinement *)

(* The abstract module's instance of Cardinality is the same operator. *)
LEMMA SameCardinality ==
    ASSUME NEW S
    PROVE  Cap!Cardinality(S) = Cardinality(S)
BY Zenon DEF Cap!Cardinality, Cardinality

LEMMA InitRefines ==
    ASSUME Init
    PROVE  Cap!Init
BY ConnAssumption
DEF Init, Cap!Init, Served, Doomed, InService, Unguarded, Guarded

(* Claiming a slot is the abstract server's decision. *)
LEMMA AcceptRefines ==
    ASSUME Inv, NEW c \in Conn, Accept(c)
    PROVE  Cap!Admit(c) \/ Cap!TurnAway(c)
<1>1. Served' = Served \cup {c} /\ c \notin Served
  BY Entering
<1>2. Doomed = {} /\ Doomed' = IF HasRoom' THEN {} ELSE {c}
  BY ConnAssumption DEF Accept, Doomed
<1>3. HasRoom' <=> active < MaxConn
  BY DEF Accept, HasRoom
<1>4. Cap!Free <=> HasRoom'
  <2>1. Served \ Doomed = Served
    BY <1>2
  <2>2. Cap!Free <=> Cardinality(Served) + lost < MaxConn
    BY <2>1, SameCardinality DEF Cap!Free
  <2> QED
    BY <1>3, <2>2 DEF Inv, CounterExact
<1>5. lost' = lost
  BY DEF Accept
<1>6. CASE HasRoom'
  BY <1>1, <1>2, <1>4, <1>5, <1>6 DEF Cap!Admit
<1>7. CASE ~HasRoom'
  BY <1>1, <1>2, <1>4, <1>5, <1>7 DEF Cap!TurnAway
<1> QED
  BY <1>6, <1>7

LEMMA LeavingRefines ==
    ASSUME Inv, NEW c \in Conn, Release(c) \/ TimeoutFails(c)
    PROVE  Cap!Close(c) \/ Cap!Lose(c)
<1>1. Served' = Served \ {c} /\ c \in Served
  BY Leaving
<1>2. accepting # c
  BY DEF Release, TimeoutFails, Inv, OneAtATime, Deciding
<1>3. Doomed' = Doomed /\ c \notin Doomed
  BY <1>2 DEF Release, TimeoutFails, Doomed, HasRoom
<1>4. CASE Release(c)
  BY <1>1, <1>3, <1>4 DEF Release, Cap!Close
<1>5. CASE TimeoutFails(c)
  BY <1>1, <1>3, <1>5 DEF TimeoutFails, Cap!Lose
<1> QED
  BY <1>4, <1>5

LEMMA GiveBackRefines ==
    ASSUME Inv, NEW c \in Conn, GiveBack(c)
    PROVE  UNCHANGED <<Served \ Doomed, Doomed, lost>>
<1>1. Served' = Served \ {c}
  BY Leaving
<1>2. Doomed' = Doomed /\ c \in Doomed
  BY DEF GiveBack, Doomed, HasRoom
<1> QED
  BY <1>1, <1>2 DEF GiveBack

LEMMA StayingRefines ==
    ASSUME Inv, NEW c \in Conn, Staying(c)
    PROVE  Cap!Close(c) \/ UNCHANGED <<Served \ Doomed, Doomed, lost>>
<1>1. Served' = Served /\ lost' = lost /\ seen' = seen
  BY StayingEffect
<1>2. CASE Refuse(c)
  <2>1. ~HasRoom
    BY <1>2 DEF Refuse, Inv, OneAtATime
  <2>2. Doomed = {c} /\ Doomed' = {}
    BY <1>2, <2>1, ConnAssumption DEF Refuse, Doomed
  <2>3. c \notin Served
    BY <1>2 DEF Refuse, Served, InService, Unguarded, Guarded
  <2> QED
    BY <1>1, <2>2, <2>3 DEF Cap!Close
<1>3. CASE Spawn(c)
  BY <1>1, <1>3, ConnAssumption DEF Spawn, Doomed, HasRoom
<1>4. CASE ~Refuse(c) /\ ~Spawn(c)
  <2>1. accepting' = accepting
    BY <1>4
    DEF Staying, Connect, Adopt, ReadNothing, ReadHead, RejectRequest,
        ReadBody, Dispatch, Reply
  <2> QED
    BY <1>1, <2>1 DEF Doomed, HasRoom
<1> QED
  BY <1>2, <1>3, <1>4

LEMMA RestartRefines ==
    ASSUME Inv, Restart
    PROVE  Cap!Reset
<1>1. Served' = {}
  BY RestartEffect
<1>2. Doomed' = {}
  BY ConnAssumption DEF Restart, Doomed
<1> QED
  BY <1>1, <1>2 DEF Restart, Cap!Reset

LEMMA StepRefines ==
    ASSUME Inv, [Next]_vars
    PROVE  [Cap!Next]_(Cap!vars)
<1>1. CASE UNCHANGED vars
  BY <1>1 DEF vars, Cap!vars, Served, Doomed, HasRoom
<1>2. CASE Restart
  BY <1>2, RestartRefines DEF Cap!Next
<1>3. ASSUME NEW c \in Conn, Connect(c) \/ LoopStep(c) \/ ThreadStep(c)
      PROVE  [Cap!Next]_(Cap!vars)
  <2>1. \/ Accept(c) \/ GiveBack(c) \/ Release(c) \/ TimeoutFails(c)
        \/ Staying(c)
    BY <1>3 DEF LoopStep, ThreadStep, Staying
  <2> QED
    BY <2>1, AcceptRefines, LeavingRefines, GiveBackRefines, StayingRefines
    DEF Cap!Next, Cap!vars
<1> QED
  BY <1>1, <1>2, <1>3 DEF Next

(* The server implements the cap: whatever the threads release between the *)
(* loop's steps, a connection is refused only when there was no free slot. *)
THEOREM CapImplemented == Spec => ImplementsCap
<1>1. Spec => Cap!Init
  BY InitRefines DEF Spec
<1>2. Inv /\ [Next]_vars => [Cap!Next]_(Cap!vars)
  BY StepRefines
<1> QED
  BY <1>1, <1>2, InvariantHolds, PTL DEF Spec, ImplementsCap, Cap!Spec
=============================================================================
