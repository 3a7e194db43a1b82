----------------------- MODULE EstimatePipelineProofs -----------------------
(***************************************************************************)
(* The invariants of EstimatePipeline, for any numbers of accounts,        *)
(* threads, cache keys and days, and any limits.                           *)
(*                                                                         *)
(* The argument: every thread is in one stage, so each set of threads that *)
(* a counter speaks of changes by at most the thread that moves; the gate  *)
(* counts the threads that hold a slot, and the usage of a day plus the    *)
(* threads that passed its check exceeds the limit by no more than there   *)
(* are threads.  A charged estimate has one first request to the provider  *)
(* ahead of it until it makes it, and then at most one second request.     *)
(***************************************************************************)
EXTENDS EstimatePipeline, FiniteSetTheorems, TLAPS

-----------------------------------------------------------------------------
(* The inductive invariant *)

(* Who is charged, and when. *)
ChargedInTime ==
    \A t \in Thread : request[t] # None =>
        /\ request[t].stage \in {"check", "charge"} => request[t].user # None
        /\ request[t].stage \notin {"check", "charge"} =>
               (request[t].user # None => request[t].day \in Day)

(* Threads of u past the check and not yet charged. *)
Pending(u) == {t \in Thread : At(t, "charge") /\ request[t].user = u}

UsageLimit == DailyLimit - 1 + Cardinality(Thread) + failures

UsageCounted ==
    /\ \A u \in User, d \in Day : d > today => usage[u][d] = 0
    /\ \A u \in User, d \in Day : d < today => usage[u][d] <= UsageLimit
    /\ \A u \in User :
         usage[u][today] + Cardinality(Pending(u)) <= UsageLimit

Charged(t, u, d) == request[t] # None /\ request[t].user = u /\ request[t].day = d

(* Threads with their first, and with their second, request ahead. *)
ToPost(u, d) ==
    {t \in Thread : Charged(t, u, d) /\ request[t].stage \in {"gate", "lookup", "post"}}
ToRepost(u, d) ==
    {t \in Thread : Charged(t, u, d) /\ request[t].stage = "repost"}

PostsCounted ==
    \A u \in User, d \in Day :
        /\ posts[u][d] + Cardinality(ToPost(u, d)) <= usage[u][d]
        /\ reposts[u][d] + Cardinality(ToRepost(u, d)) <= posts[u][d]

Inv ==
    /\ TypeOK
    /\ ChargedInTime
    /\ GateExact
    /\ UsageCounted
    /\ PostsCounted
    /\ CacheBounded

-----------------------------------------------------------------------------
(* Sets of threads *)

LEMMA ThreadSets ==
    ASSUME NEW S \in SUBSET Thread
    PROVE  /\ IsFiniteSet(S)
           /\ Cardinality(S) \in Nat
           /\ Cardinality(S) <= Cardinality(Thread)
           /\ Cardinality(Thread) \in Nat
<1>1. IsFiniteSet(Thread)
  BY SetsAssumption
<1>2. IsFiniteSet(S) /\ Cardinality(S) <= Cardinality(Thread)
  BY <1>1, FS_Subset
<1> QED
  BY <1>1, <1>2, FS_CardinalityType

(* Two sets that differ by t at most. *)
LEMMA CountMove ==
    ASSUME NEW S \in SUBSET Thread, NEW T \in SUBSET Thread, NEW t \in Thread,
           \A x \in Thread : x # t => (x \in S <=> x \in T)
    PROVE  Cardinality(T) = Cardinality(S) + (IF t \in T THEN 1 ELSE 0)
                                           - (IF t \in S THEN 1 ELSE 0)
<1>1. IsFiniteSet(S) /\ Cardinality(S) \in Nat
  BY ThreadSets
<1>2. CASE (t \in S) = (t \in T)
  <2>1. S = T
    BY <1>2
  <2> QED
    BY <1>1, <2>1
<1>3. CASE t \in S /\ t \notin T
  <2>1. T = S \ {t}
    BY <1>3
  <2>2. Cardinality(T) = Cardinality(S) - 1
    BY <1>1, <1>3, <2>1, FS_RemoveElement
  <2> QED
    BY <1>1, <1>3, <2>2
<1>4. CASE t \notin S /\ t \in T
  <2>1. T = S \cup {t}
    BY <1>4
  <2>2. Cardinality(T) = Cardinality(S) + 1
    BY <1>1, <1>4, <2>1, FS_AddElement
  <2> QED
    BY <1>1, <1>4, <2>2
<1> QED
  BY <1>2, <1>3, <1>4

LEMMA SetsOfThreads ==
    ASSUME NEW u, NEW d
    PROVE  /\ HoldingThreads \in SUBSET Thread
           /\ Pending(u) \in SUBSET Thread
           /\ ToPost(u, d) \in SUBSET Thread
           /\ ToRepost(u, d) \in SUBSET Thread
           /\ HoldingThreads' \in SUBSET Thread
           /\ Pending(u)' \in SUBSET Thread
           /\ ToPost(u, d)' \in SUBSET Thread
           /\ ToRepost(u, d)' \in SUBSET Thread
BY DEF HoldingThreads, Pending, ToPost, ToRepost

-----------------------------------------------------------------------------
(* The thread that moves *)

Moves(t) ==
    \/ \E u \in User \cup {None}, k \in Key, provider \in BOOLEAN :
         Begin(t, u, k, provider)
    \/ Step(t)

LEMMA OnlyOneMoves ==
    ASSUME TypeOK, NEW t \in Thread, Moves(t)
    PROVE  /\ request' \in [Thread -> Request \cup {None}]
           /\ \A x \in Thread : x # t => request'[x] = request[x]
           /\ today' = today /\ paused' = paused
<1>1. ASSUME NEW u \in User \cup {None}, NEW k \in Key,
             NEW provider \in BOOLEAN, Begin(t, u, k, provider)
      PROVE  /\ request' \in [Thread -> Request \cup {None}]
             /\ \A x \in Thread : x # t => request'[x] = request[x]
             /\ today' = today /\ paused' = paused
  <2> DEFINE new == [stage    |-> IF u # None THEN "check"
                                  ELSE IF provider THEN "gate" ELSE "offline",
                     user     |-> u,
                     key      |-> k,
                     provider |-> provider,
                     day      |-> None]
  <2>1. new \in Request
    BY DEF Request, Stage
  <2>2. request' = [request EXCEPT ![t] = new]
    BY <1>1 DEF Begin
  <2> HIDE DEF new
  <2> QED
    BY <1>1, <2>1, <2>2 DEF Begin, TypeOK
<1>2. ASSUME NEW s \in Stage, Goto(t, s), request[t] # None
      PROVE  /\ request' \in [Thread -> Request \cup {None}]
             /\ \A x \in Thread : x # t => request'[x] = request[x]
  BY <1>2 DEF Goto, TypeOK, Request
<1>3. ASSUME Finish(t)
      PROVE  /\ request' \in [Thread -> Request \cup {None}]
             /\ \A x \in Thread : x # t => request'[x] = request[x]
  BY <1>3 DEF Finish, TypeOK
<1>4. ASSUME Charge(t)
      PROVE  /\ request' \in [Thread -> Request \cup {None}]
             /\ \A x \in Thread : x # t => request'[x] = request[x]
  <2> DEFINE new == [stage    |-> IF request[t].provider
                                  THEN "gate" ELSE "offline",
                     user     |-> request[t].user,
                     key      |-> request[t].key,
                     provider |-> request[t].provider,
                     day      |-> today]
  <2>1. request[t] \in Request
    BY <1>4 DEF Charge, At, TypeOK
  <2>2. new \in Request
    BY <2>1 DEF Request, Stage, TypeOK
  <2>3. request' = [request EXCEPT ![t] = new]
    BY <1>4 DEF Charge
  <2> HIDE DEF new
  <2> QED
    BY <2>2, <2>3 DEF TypeOK
<1>5. ASSUME Step(t)
      PROVE  /\ today' = today /\ paused' = paused
             /\ \/ Charge(t)
                \/ Finish(t)
                \/ request[t] # None /\ \E s \in Stage : Goto(t, s)
  BY <1>5
  DEF Step, CheckUsage, CheckFails, Charge, ChargeFails, Offline, Acquire,
      Busy, RefuseImage, Lookup, Post, Repost, Put, Release, At, Stage, Holding
<1> QED
  BY <1>1, <1>2, <1>3, <1>4, <1>5 DEF Moves

(* The sets change by that thread at most. *)
LEMMA SetsMove ==
    ASSUME TypeOK, NEW t \in Thread, Moves(t), NEW u, NEW d
    PROVE  \A x \in Thread : x # t =>
             /\ x \in HoldingThreads <=> x \in HoldingThreads'
             /\ x \in Pending(u) <=> x \in Pending(u)'
             /\ x \in ToPost(u, d) <=> x \in ToPost(u, d)'
             /\ x \in ToRepost(u, d) <=> x \in ToRepost(u, d)'
BY OnlyOneMoves
DEF HoldingThreads, Pending, ToPost, ToRepost, At, Charged

LEMMA CountsMove ==
    ASSUME TypeOK, NEW t \in Thread, Moves(t), NEW u, NEW d
    PROVE  /\ Cardinality(HoldingThreads') = Cardinality(HoldingThreads)
                + (IF t \in HoldingThreads' THEN 1 ELSE 0)
                - (IF t \in HoldingThreads THEN 1 ELSE 0)
           /\ Cardinality(Pending(u)') = Cardinality(Pending(u))
                + (IF t \in Pending(u)' THEN 1 ELSE 0)
                - (IF t \in Pending(u) THEN 1 ELSE 0)
           /\ Cardinality(ToPost(u, d)') = Cardinality(ToPost(u, d))
                + (IF t \in ToPost(u, d)' THEN 1 ELSE 0)
                - (IF t \in ToPost(u, d) THEN 1 ELSE 0)
           /\ Cardinality(ToRepost(u, d)') = Cardinality(ToRepost(u, d))
                + (IF t \in ToRepost(u, d)' THEN 1 ELSE 0)
                - (IF t \in ToRepost(u, d) THEN 1 ELSE 0)
<1>1. Cardinality(HoldingThreads') = Cardinality(HoldingThreads)
        + (IF t \in HoldingThreads' THEN 1 ELSE 0)
        - (IF t \in HoldingThreads THEN 1 ELSE 0)
  <2>1. HoldingThreads \in SUBSET Thread /\ HoldingThreads' \in SUBSET Thread
    BY SetsOfThreads
  <2>2. \A x \in Thread : x # t => (x \in HoldingThreads <=> x \in HoldingThreads')
    BY SetsMove
  <2> QED
    BY <2>1, <2>2, CountMove
<1>2. Cardinality(Pending(u)') = Cardinality(Pending(u))
        + (IF t \in Pending(u)' THEN 1 ELSE 0)
        - (IF t \in Pending(u) THEN 1 ELSE 0)
  <2>1. Pending(u) \in SUBSET Thread /\ Pending(u)' \in SUBSET Thread
    BY SetsOfThreads
  <2>2. \A x \in Thread : x # t => (x \in Pending(u) <=> x \in Pending(u)')
    BY SetsMove
  <2> QED
    BY <2>1, <2>2, CountMove
<1>3. Cardinality(ToPost(u, d)') = Cardinality(ToPost(u, d))
        + (IF t \in ToPost(u, d)' THEN 1 ELSE 0)
        - (IF t \in ToPost(u, d) THEN 1 ELSE 0)
  <2>1. ToPost(u, d) \in SUBSET Thread /\ ToPost(u, d)' \in SUBSET Thread
    BY SetsOfThreads
  <2>2. \A x \in Thread : x # t => (x \in ToPost(u, d) <=> x \in ToPost(u, d)')
    BY SetsMove
  <2> QED
    BY <2>1, <2>2, CountMove
<1>4. Cardinality(ToRepost(u, d)') = Cardinality(ToRepost(u, d))
        + (IF t \in ToRepost(u, d)' THEN 1 ELSE 0)
        - (IF t \in ToRepost(u, d) THEN 1 ELSE 0)
  <2>1. ToRepost(u, d) \in SUBSET Thread /\ ToRepost(u, d)' \in SUBSET Thread
    BY SetsOfThreads
  <2>2. \A x \in Thread : x # t => (x \in ToRepost(u, d) <=> x \in ToRepost(u, d)')
    BY SetsMove
  <2> QED
    BY <2>1, <2>2, CountMove
<1> QED
  BY <1>1, <1>2, <1>3, <1>4

(* What the moving thread's request is before and after. *)
LEMMA NextRequest ==
    ASSUME TypeOK, NEW t \in Thread, NEW s \in Stage, request[t] # None, Goto(t, s)
    PROVE  /\ request'[t] \in Request /\ request'[t] # None
           /\ request'[t].stage = s
           /\ request'[t].user = request[t].user
           /\ request'[t].day = request[t].day
<1>1. request[t] \in Request
  BY DEF TypeOK
<1>2. request'[t] = [request[t] EXCEPT !.stage = s]
  BY DEF Goto, TypeOK
<1>3. request'[t] \in Request
  BY <1>1, <1>2 DEF Request
<1>4. request'[t] # None
  BY <1>3, NoneAssumption
<1> QED
  BY <1>1, <1>2, <1>3, <1>4 DEF Request

LEMMA AtRequest ==
    ASSUME TypeOK, NEW t \in Thread, NEW s, At(t, s)
    PROVE  /\ request[t] \in Request /\ request[t] # None
           /\ request[t].stage = s
           /\ request[t].user \in User \cup {None}
           /\ request[t].day \in Day \cup {None}
           /\ request[t].key \in Key
BY DEF At, TypeOK, Request

-----------------------------------------------------------------------------
(* Types *)

LEMMA CountingType ==
    ASSUME Inv, NEW t \in Thread, NEW s \in {"post", "repost"}, At(t, s),
           NEW counter \in [User -> [Day -> Nat]]
    PROVE  Counting(counter, t) \in [User -> [Day -> Nat]]
<1>1. request[t].user # None => request[t].user \in User /\ request[t].day \in Day
  BY AtRequest DEF Inv, ChargedInTime
<1> QED
  BY <1>1 DEF Counting

LEMMA CacheTyped ==
    ASSUME TypeOK, NEW t \in Thread, Step(t)
    PROVE  cache' \in [Key -> Nat \cup {None}]
<1>1. CASE Lookup(t)
  BY <1>1 DEF Lookup, Get, TypeOK
<1>2. CASE Put(t)
  <2>1. ASSUME NEW k \in Key, Insert(k)
        PROVE  cache' \in [Key -> Nat \cup {None}]
    BY <2>1, LimitsAssumption DEF Insert, TypeOK
  <2>2. request[t].key \in Key
    BY <1>2, AtRequest DEF Put
  <2> QED
    BY <1>2, <2>1, <2>2 DEF Put, TypeOK
<1>3. CASE ~Lookup(t) /\ ~Put(t)
  <2>1. cache' = cache
    BY <1>3
    DEF Step, CheckUsage, CheckFails, Charge, ChargeFails, Offline, Acquire,
        Busy, RefuseImage, Post, Repost, Release
  <2> QED
    BY <2>1 DEF TypeOK
<1> QED
  BY <1>1, <1>2, <1>3

LEMMA HolderCounted ==
    ASSUME Inv, NEW t \in HoldingThreads
    PROVE  gate >= 1
<1>1. IsFiniteSet(HoldingThreads) /\ Cardinality(HoldingThreads) \in Nat
  BY ThreadSets, SetsOfThreads
<1>2. Cardinality(HoldingThreads) # 0
  BY <1>1, FS_EmptySet
<1> QED
  BY <1>1, <1>2 DEF Inv, GateExact

LEMMA TypeKept ==
    ASSUME Inv, Next
    PROVE  TypeOK'
<1>1. ASSUME NEW t \in Thread, NEW u \in User \cup {None}, NEW k \in Key,
             NEW provider \in BOOLEAN, Begin(t, u, k, provider)
      PROVE  TypeOK'
  <2>1. Moves(t)
    BY <1>1 DEF Moves
  <2> QED
    BY <1>1, <2>1, OnlyOneMoves DEF Inv, Begin, TypeOK
<1>2. ASSUME NEW t \in Thread, Step(t)
      PROVE  TypeOK'
  <2>1. /\ request' \in [Thread -> Request \cup {None}]
        /\ today' = today /\ paused' = paused
    BY <1>2, OnlyOneMoves DEF Moves, Inv
  <2>2. cache' \in [Key -> Nat \cup {None}]
    BY <1>2, CacheTyped DEF Inv
  <2>3. usage' \in [User -> [Day -> Nat]]
    <3>1. CASE Charge(t)
      <4>1. request[t].user \in User
        BY <3>1, AtRequest DEF Charge, Inv, ChargedInTime
      <4> QED
        BY <3>1, <4>1 DEF Charge, Inv, TypeOK
    <3>2. CASE ~Charge(t)
      BY <1>2, <3>2
      DEF Step, CheckUsage, CheckFails, ChargeFails, Offline, Acquire, Busy,
          RefuseImage, Lookup, Post, Repost, Put, Release, Inv, TypeOK
    <3> QED
      BY <3>1, <3>2
  <2>4. gate' \in Nat
    <3>1. CASE Release(t)
      <4>1. t \in HoldingThreads
        BY <3>1 DEF Release, At, HoldingThreads, Holding
      <4>2. gate >= 1
        BY <4>1, HolderCounted
      <4> QED
        BY <3>1, <4>2 DEF Release, Inv, TypeOK
    <3>2. CASE ~Release(t)
      BY <1>2, <3>2
      DEF Step, CheckUsage, CheckFails, Charge, ChargeFails, Offline, Acquire,
          Busy, RefuseImage, Lookup, Post, Repost, Put, Inv, TypeOK
    <3> QED
      BY <3>1, <3>2
  <2>5. posts' \in [User -> [Day -> Nat]] /\ reposts' \in [User -> [Day -> Nat]]
    <3>1. CASE Post(t)
      BY <3>1, CountingType DEF Post, Inv, TypeOK
    <3>2. CASE Repost(t)
      BY <3>2, CountingType DEF Repost, Inv, TypeOK
    <3>3. CASE ~Post(t) /\ ~Repost(t)
      BY <1>2, <3>3
      DEF Step, CheckUsage, CheckFails, Charge, ChargeFails, Offline, Acquire,
          Busy, RefuseImage, Lookup, Put, Release, Inv, TypeOK
    <3> QED
      BY <3>1, <3>2, <3>3
  <2>6. failures' \in Nat
    BY <1>2
    DEF Step, CheckUsage, CheckFails, Charge, ChargeFails, Offline, Acquire,
        Busy, RefuseImage, Lookup, Post, Repost, Put, Release, Inv, TypeOK
  <2> QED
    BY <2>1, <2>2, <2>3, <2>4, <2>5, <2>6 DEF Inv, TypeOK
<1>3. CASE SetPaused
  BY <1>3 DEF SetPaused, Inv, TypeOK
<1>4. CASE Tick
  BY <1>4 DEF Tick, Live, Held, Inv, TypeOK
<1>5. CASE NewDay
  BY <1>5, LimitsAssumption DEF NewDay, Day, Inv, TypeOK
<1>6. CASE Restart
  BY <1>6 DEF Restart, Inv, TypeOK
<1> QED
  BY <1>1, <1>2, <1>3, <1>4, <1>5, <1>6 DEF Next

LEMMA ChargedInTimeKept ==
    ASSUME Inv, Next
    PROVE  ChargedInTime'
<1> USE DEF ChargedInTime
<1>1. ASSUME NEW t \in Thread, Moves(t),
             request'[t] # None =>
               /\ request'[t].stage \in {"check", "charge"} => request'[t].user # None
               /\ request'[t].stage \notin {"check", "charge"} =>
                    (request'[t].user # None => request'[t].day \in Day)
      PROVE  ChargedInTime'
  BY <1>1, OnlyOneMoves DEF Inv
<1>2. ASSUME NEW t \in Thread, NEW u \in User \cup {None}, NEW k \in Key,
             NEW provider \in BOOLEAN, Begin(t, u, k, provider)
      PROVE  ChargedInTime'
  <2>1. request'[t] = [stage    |-> IF u # None THEN "check"
                                    ELSE IF provider THEN "gate" ELSE "offline",
                       user     |-> u,
                       key      |-> k,
                       provider |-> provider,
                       day      |-> None]
    BY <1>2 DEF Begin, Inv, TypeOK
  <2>2. Moves(t)
    BY <1>2 DEF Moves
  <2> QED
    BY <1>1, <2>1, <2>2
<1>3. ASSUME NEW t \in Thread, Charge(t)
      PROVE  ChargedInTime'
  <2>1. request'[t] = [stage    |-> IF request[t].provider
                                    THEN "gate" ELSE "offline",
                       user     |-> request[t].user,
                       key      |-> request[t].key,
                       provider |-> request[t].provider,
                       day      |-> today]
    BY <1>3 DEF Charge, Inv, TypeOK
  <2>2. Moves(t)
    BY <1>3 DEF Moves, Step
  <2>3. today \in Day
    BY DEF Inv, TypeOK
  <2> QED
    BY <1>1, <2>1, <2>2, <2>3
<1>4. ASSUME NEW t \in Thread, Step(t), ~Charge(t)
      PROVE  ChargedInTime'
  <2>1. Moves(t)
    BY <1>4 DEF Moves
  <2>2. CASE Finish(t)
    BY <1>1, <2>1, <2>2 DEF Finish, Inv, TypeOK
  <2>3. CASE CheckUsage(t) \/ CheckFails(t)
    <3>1. request[t] # None /\ request[t].user # None
      BY <2>3 DEF CheckUsage, CheckFails, At, Inv
    <3>2. Goto(t, "charge") \/ Finish(t)
      BY <2>3 DEF CheckUsage, CheckFails
    <3>3. CASE Goto(t, "charge")
      <4>1. "charge" \in Stage
        BY DEF Stage
      <4>2. request'[t].stage = "charge" /\ request'[t].user = request[t].user
        BY <3>1, <3>3, <4>1, NextRequest DEF Inv
      <4> QED
        BY <1>1, <2>1, <3>1, <4>2
    <3> QED
      BY <2>2, <3>2, <3>3
  <2>4. CASE ~Finish(t) /\ ~CheckUsage(t) /\ ~CheckFails(t)
    <3>1. /\ request[t] # None
          /\ request[t].stage \notin {"check", "charge"}
          /\ \E s \in Stage \ {"check", "charge"} : Goto(t, s)
      BY <1>4, <2>4
      DEF Step, ChargeFails, Offline, Acquire, Busy, RefuseImage, Lookup, Post,
          Repost, Put, Release, At, Stage, Holding
    <3>2. PICK s \in Stage \ {"check", "charge"} : Goto(t, s)
      BY <3>1
    <3>3. /\ request'[t].stage = s
          /\ request'[t].user = request[t].user
          /\ request'[t].day = request[t].day
      BY <3>1, <3>2, NextRequest DEF Inv
    <3> QED
      BY <1>1, <2>1, <3>1, <3>3 DEF Inv
  <2> QED
    BY <2>2, <2>3, <2>4
<1>5. CASE SetPaused \/ Tick \/ NewDay
  BY <1>5 DEF SetPaused, Tick, NewDay, Inv
<1>6. CASE Restart
  BY <1>6 DEF Restart
<1> QED
  BY <1>2, <1>3, <1>4, <1>5, <1>6 DEF Next

-----------------------------------------------------------------------------
(* The gate *)

LEMMA GateKept ==
    ASSUME Inv, Next
    PROVE  GateExact'
<1>1. ASSUME NEW t \in Thread, Moves(t),
             \/ /\ t \in HoldingThreads <=> t \in HoldingThreads'
                /\ gate' = gate
             \/ /\ t \notin HoldingThreads /\ t \in HoldingThreads'
                /\ gate' = gate + 1 /\ gate < MaxInference
             \/ /\ t \in HoldingThreads /\ t \notin HoldingThreads'
                /\ gate' = gate - 1
      PROVE  GateExact'
  <2>1. Cardinality(HoldingThreads') = Cardinality(HoldingThreads)
          + (IF t \in HoldingThreads' THEN 1 ELSE 0)
          - (IF t \in HoldingThreads THEN 1 ELSE 0)
    BY <1>1, CountsMove DEF Inv
  <2>2. Cardinality(HoldingThreads) \in Nat
    BY ThreadSets, SetsOfThreads
  <2> QED
    BY <1>1, <2>1, <2>2, LimitsAssumption DEF Inv, GateExact, TypeOK
<1>2. ASSUME NEW t \in Thread, NEW u \in User \cup {None}, NEW k \in Key,
             NEW provider \in BOOLEAN, Begin(t, u, k, provider)
      PROVE  GateExact'
  <2>1. request'[t].stage \in {"check", "gate", "offline"} /\ gate' = gate
    BY <1>2 DEF Begin, Inv, TypeOK
  <2>2. t \notin HoldingThreads /\ t \notin HoldingThreads'
    BY <1>2, <2>1 DEF Begin, HoldingThreads, Holding
  <2> QED
    BY <1>1, <1>2, <2>1, <2>2 DEF Moves
<1>3. ASSUME NEW t \in Thread, Step(t)
      PROVE  GateExact'
  <2> USE DEF HoldingThreads, Holding, At
  <2>1. CASE Acquire(t)
    <3>1. "lookup" \in Stage /\ request[t] # None
      BY <2>1 DEF Stage, Acquire
    <3>2. request'[t] # None /\ request'[t].stage = "lookup"
      BY <2>1, <3>1, NextRequest DEF Acquire, Inv
    <3> QED
      BY <1>1, <1>3, <2>1, <3>2 DEF Acquire, Moves
  <2>2. CASE Release(t)
    <3>1. request'[t] = None
      BY <2>2 DEF Release, Finish, Inv, TypeOK
    <3> QED
      BY <1>1, <1>3, <2>2, <3>1 DEF Release, Moves
  <2>3. CASE RefuseImage(t) \/ Lookup(t) \/ Post(t) \/ Repost(t) \/ Put(t)
    <3>1. /\ request[t] # None /\ request[t].stage \in Holding
          /\ \E s \in Holding : Goto(t, s)
      BY <2>3 DEF RefuseImage, Lookup, Post, Repost, Put
    <3>2. Holding \subseteq Stage
      BY DEF Stage
    <3>3. request'[t] # None /\ request'[t].stage \in Holding
      BY <3>1, <3>2, NextRequest DEF Inv
    <3>4. gate' = gate
      BY <2>3 DEF RefuseImage, Lookup, Post, Repost, Put
    <3> QED
      BY <1>1, <1>3, <3>1, <3>3, <3>4 DEF Moves
  <2>4. CASE CheckUsage(t) \/ CheckFails(t) \/ ChargeFails(t) \/ Offline(t) \/ Busy(t)
    <3>1. /\ request[t] # None /\ request[t].stage \notin Holding
          /\ Finish(t) \/ Goto(t, "charge")
          /\ gate' = gate
      BY <2>4 DEF CheckUsage, CheckFails, ChargeFails, Offline, Busy
    <3>2. "charge" \in Stage
      BY DEF Stage
    <3>3. request'[t] = None \/ request'[t].stage = "charge"
      BY <3>1, <3>2, NextRequest DEF Inv, Finish, TypeOK
    <3> QED
      BY <1>1, <1>3, <3>1, <3>3 DEF Moves
  <2>5. CASE Charge(t)
    <3>1. request'[t].stage \in {"gate", "offline"} /\ gate' = gate
      BY <2>5 DEF Charge, Inv, TypeOK
    <3> QED
      BY <1>1, <1>3, <2>5, <3>1 DEF Moves, Charge
  <2> QED
    BY <1>3, <2>1, <2>2, <2>3, <2>4, <2>5 DEF Step
<1>4. CASE SetPaused \/ Tick \/ NewDay
  BY <1>4 DEF SetPaused, Tick, NewDay, HoldingThreads, GateExact, Inv
<1>5. CASE Restart
  <2>1. HoldingThreads' = {} /\ gate' = 0
    BY <1>5 DEF Restart, HoldingThreads
  <2> QED
    BY <2>1, FS_EmptySet, LimitsAssumption DEF GateExact
<1> QED
  BY <1>2, <1>3, <1>4, <1>5 DEF Next

-----------------------------------------------------------------------------
(* The quota *)

LEMMA UsageKept ==
    ASSUME Inv, Next
    PROVE  UsageCounted'
<1> USE DEF UsageLimit
<1>1. Cardinality(Thread) \in Nat /\ failures \in Nat /\ DailyLimit \in Nat \ {0}
  BY ThreadSets, LimitsAssumption DEF Inv, TypeOK
<1>2. \A u : Cardinality(Pending(u)) \in Nat
  BY ThreadSets, SetsOfThreads
<1>3. \A u : /\ Cardinality(Pending(u)') \in Nat
             /\ Cardinality(Pending(u)') <= Cardinality(Thread)
  BY ThreadSets, SetsOfThreads
<1>4. /\ today \in Day /\ Day \subseteq Nat
      /\ \A u \in User, d \in Day : usage[u][d] \in Nat
  <2>1. Day \subseteq Nat
    BY LimitsAssumption DEF Day
  <2> QED
    BY <2>1 DEF Inv, TypeOK
(* Nobody new is past the check. *)
<1>5. ASSUME usage' = usage, failures' = failures, today' = today,
             \A u \in User : Cardinality(Pending(u)') <= Cardinality(Pending(u))
      PROVE  UsageCounted'
  BY <1>1, <1>2, <1>3, <1>4, <1>5 DEF Inv, UsageCounted
<1>6. ASSUME NEW t \in Thread, Moves(t), usage' = usage, failures' = failures,
             \A u \in User : t \notin Pending(u)'
      PROVE  UsageCounted'
  <2>1. today' = today
    BY <1>6, OnlyOneMoves DEF Inv
  <2>2. ASSUME NEW u \in User
        PROVE  Cardinality(Pending(u)') <= Cardinality(Pending(u))
    BY <1>2, <1>6, CountsMove DEF Inv
  <2> QED
    BY <1>5, <1>6, <2>1, <2>2
<1>7. ASSUME NEW t \in Thread, NEW u \in User \cup {None}, NEW k \in Key,
             NEW provider \in BOOLEAN, Begin(t, u, k, provider)
      PROVE  UsageCounted'
  <2>1. request'[t].stage \in {"check", "gate", "offline"}
    BY <1>7 DEF Begin, Inv, TypeOK
  <2>2. \A v \in User : t \notin Pending(v)'
    BY <2>1 DEF Pending, At
  <2> QED
    BY <1>6, <1>7, <2>2 DEF Moves, Begin
<1>8. ASSUME NEW t \in Thread, CheckUsage(t)
      PROVE  UsageCounted'
  <2>1. Moves(t) /\ usage' = usage /\ failures' = failures /\ today' = today
    BY <1>8 DEF Moves, Step, CheckUsage
  <2>2. CASE UnderLimit(t)
    <3>1. /\ request[t] # None /\ request[t].user \in User
      BY <1>8, AtRequest DEF CheckUsage, Inv, ChargedInTime
    <3>2. "charge" \in Stage /\ Goto(t, "charge")
      BY <1>8, <2>2 DEF Stage, CheckUsage
    <3>3. request'[t].user = request[t].user
      BY <3>1, <3>2, NextRequest DEF Inv
    <3>4. ASSUME NEW u \in User, u # request[t].user
          PROVE  Cardinality(Pending(u)') <= Cardinality(Pending(u))
      <4>1. t \notin Pending(u)'
        BY <3>3, <3>4 DEF Pending
      <4> QED
        BY <1>2, <2>1, <4>1, CountsMove DEF Inv
    <3>5. usage[request[t].user][today] <= DailyLimit - 1
      BY <1>1, <1>4, <2>2, <3>1 DEF UnderLimit
    <3>6. \A u \in User :
             usage'[u][today'] + Cardinality(Pending(u)') <= UsageLimit'
      BY <1>1, <1>2, <1>3, <1>4, <2>1, <3>1, <3>4, <3>5 DEF Inv, UsageCounted
    <3> QED
      BY <1>1, <2>1, <3>6 DEF Inv, UsageCounted
  <2>3. CASE ~UnderLimit(t)
    <3>1. request'[t] = None
      BY <1>8, <2>3 DEF CheckUsage, Finish, Inv, TypeOK
    <3> QED
      BY <1>6, <2>1, <3>1 DEF Pending, At
  <2> QED
    BY <2>2, <2>3
<1>9. ASSUME NEW t \in Thread, CheckFails(t)
      PROVE  UsageCounted'
  <2>1. /\ Moves(t) /\ usage' = usage /\ today' = today
        /\ failures' = failures + 1
    BY <1>9 DEF Moves, Step, CheckFails
  <2>2. \A u \in User : Cardinality(Pending(u)') <= Cardinality(Pending(u)) + 1
    BY <1>2, <2>1, CountsMove DEF Inv
  <2> QED
    BY <1>1, <1>2, <1>3, <1>4, <2>1, <2>2 DEF Inv, UsageCounted
<1>10. ASSUME NEW t \in Thread, Charge(t)
       PROVE  UsageCounted'
  <2>1. Moves(t) /\ failures' = failures /\ today' = today
    BY <1>10 DEF Moves, Step, Charge
  <2>2. PICK v \in User : v = request[t].user /\ t \in Pending(v)
    BY <1>10, AtRequest DEF Charge, Inv, ChargedInTime, Pending
  <2>3. request'[t].stage \in {"gate", "offline"}
    BY <1>10 DEF Charge, Inv, TypeOK
  <2>4. \A u \in User : t \notin Pending(u)'
    BY <2>3 DEF Pending, At
  <2>5. /\ Cardinality(Pending(v)') = Cardinality(Pending(v)) - 1
        /\ \A u \in User : Cardinality(Pending(u)') <= Cardinality(Pending(u))
    <3>1. ASSUME NEW u \in User
          PROVE  Cardinality(Pending(u)')
                   = Cardinality(Pending(u)) - (IF t \in Pending(u) THEN 1 ELSE 0)
      BY <1>2, <2>1, <2>4, CountsMove DEF Inv
    <3>2. Cardinality(Pending(v)') = Cardinality(Pending(v)) - 1
      BY <2>2, <3>1
    <3>3. \A u \in User : Cardinality(Pending(u)') <= Cardinality(Pending(u))
      BY <1>2, <1>3, <3>1
    <3> QED
      BY <3>2, <3>3
  <2>6. \A u \in User, d \in Day :
           usage'[u][d] = IF u = v /\ d = today
                          THEN usage[u][d] + 1 ELSE usage[u][d]
    BY <1>10, <2>2 DEF Charge, Inv, TypeOK
  <2>7. \A u \in User, d \in Day : d # today => usage'[u][d] = usage[u][d]
    BY <2>6
  <2>8. \A u \in User :
           usage'[u][today'] + Cardinality(Pending(u)') <= UsageLimit'
    <3>1. ASSUME NEW u \in User
          PROVE  usage'[u][today] + Cardinality(Pending(u)')
                   <= usage[u][today] + Cardinality(Pending(u))
      BY <1>2, <1>3, <1>4, <2>2, <2>5, <2>6
    <3>2. ASSUME NEW u \in User
          PROVE  usage'[u][today'] + Cardinality(Pending(u)') <= UsageLimit'
      <4>1. usage'[u][today] \in Nat
        BY <1>4, <2>6
      <4>2. usage[u][today] + Cardinality(Pending(u)) <= UsageLimit
        BY DEF Inv, UsageCounted
      <4>3. UsageLimit' = UsageLimit
        BY <2>1
      <4>4. usage'[u][today] + Cardinality(Pending(u)') <= UsageLimit
        BY <1>1, <1>2, <1>3, <1>4, <3>1, <4>1, <4>2
      <4> QED
        BY <2>1, <4>3, <4>4
    <3> QED
      BY <3>2
  <2> QED
    BY <1>1, <1>4, <2>1, <2>7, <2>8 DEF Inv, UsageCounted
<1>11. ASSUME NEW t \in Thread, Step(t), ~CheckUsage(t), ~CheckFails(t), ~Charge(t)
       PROVE  UsageCounted'
  <2>1. Moves(t) /\ usage' = usage /\ failures' = failures
    BY <1>11
    DEF Moves, Step, ChargeFails, Offline, Acquire, Busy, RefuseImage, Lookup,
        Post, Repost, Put, Release
  <2>2. Finish(t) \/ (request[t] # None /\ \E s \in Holding : Goto(t, s))
    BY <1>11
    DEF Step, ChargeFails, Offline, Acquire, Busy, RefuseImage, Lookup, Post,
        Repost, Put, Release, At, Holding
  <2>3. request'[t] = None \/ request'[t].stage \in Holding
    <3>1. CASE Finish(t)
      BY <3>1 DEF Finish, Inv, TypeOK
    <3>2. ASSUME NEW s \in Holding, Goto(t, s), request[t] # None
          PROVE  request'[t].stage \in Holding
      <4>1. s \in Stage
        BY DEF Stage
      <4> QED
        BY <3>2, <4>1, NextRequest DEF Inv
    <3> QED
      BY <2>2, <3>1, <3>2
  <2>4. \A u \in User : t \notin Pending(u)'
    BY <2>3 DEF Pending, At, Holding
  <2> QED
    BY <1>6, <2>1, <2>4
<1>12. CASE SetPaused \/ Tick
  BY <1>12 DEF SetPaused, Tick, Inv, UsageCounted, Pending, At
<1>13. CASE NewDay
  <2>1. /\ usage' = usage /\ failures' = failures /\ today' = today + 1
        /\ today' \in Day
    BY <1>13, TypeKept DEF NewDay, TypeOK, Next
  <2>2. \A u \in User : usage[u][today'] = 0
    BY <1>4, <2>1 DEF Inv, UsageCounted
  <2>3. \A u \in User : usage[u][today] <= UsageLimit
    BY <1>1, <1>2, <1>4 DEF Inv, UsageCounted
  <2>4. \A u \in User :
           usage'[u][today'] + Cardinality(Pending(u)') <= UsageLimit'
    BY <1>1, <1>3, <2>1, <2>2
  <2>5. \A u \in User, d \in Day : d < today' => usage'[u][d] <= UsageLimit'
    <3>1. ASSUME NEW u \in User, NEW d \in Day, d < today'
          PROVE  usage[u][d] <= UsageLimit
      <4>1. d < today \/ d = today
        BY <1>4, <2>1, <3>1
      <4> QED
        BY <2>3, <4>1 DEF Inv, UsageCounted
    <3> QED
      BY <2>1, <3>1
  <2>6. \A u \in User, d \in Day : d > today' => usage'[u][d] = 0
    BY <1>4, <2>1 DEF Inv, UsageCounted
  <2> QED
    BY <2>4, <2>5, <2>6 DEF UsageCounted
<1>14. CASE Restart
  <2>1. \A u \in User : Pending(u)' = {}
    BY <1>14 DEF Restart, Pending, At
  <2>2. \A u \in User : Cardinality(Pending(u)') <= Cardinality(Pending(u))
    BY <1>2, <2>1, FS_EmptySet
  <2> QED
    BY <1>5, <1>14, <2>2 DEF Restart
<1> QED
  BY <1>7, <1>8, <1>9, <1>10, <1>11, <1>12, <1>13, <1>14 DEF Next, Step

-----------------------------------------------------------------------------
(* The requests to the provider *)

LEMMA PostsKept ==
    ASSUME Inv, Next
    PROVE  PostsCounted'
<1>1. \A u, d : /\ Cardinality(ToPost(u, d)) \in Nat
                /\ Cardinality(ToRepost(u, d)) \in Nat
                /\ Cardinality(ToPost(u, d)') \in Nat
                /\ Cardinality(ToRepost(u, d)') \in Nat
  BY ThreadSets, SetsOfThreads
<1>2. \A u \in User, d \in Day :
         usage[u][d] \in Nat /\ posts[u][d] \in Nat /\ reposts[u][d] \in Nat
  BY DEF Inv, TypeOK
(* Nobody new has a request ahead. *)
<1>3. ASSUME NEW t \in Thread, Moves(t),
             usage' = usage, posts' = posts, reposts' = reposts,
             \A u \in User, d \in Day :
               /\ t \in ToPost(u, d)' => t \in ToPost(u, d)
               /\ t \in ToRepost(u, d)' => t \in ToRepost(u, d)
      PROVE  PostsCounted'
  <2>1. ASSUME NEW u \in User, NEW d \in Day
        PROVE  /\ Cardinality(ToPost(u, d)') <= Cardinality(ToPost(u, d))
               /\ Cardinality(ToRepost(u, d)') <= Cardinality(ToRepost(u, d))
    BY <1>1, <1>3, CountsMove DEF Inv
  <2>2. ASSUME NEW u \in User, NEW d \in Day
        PROVE  /\ posts[u][d] + Cardinality(ToPost(u, d)') <= usage[u][d]
               /\ reposts[u][d] + Cardinality(ToRepost(u, d)') <= posts[u][d]
    BY <1>1, <1>2, <2>1 DEF Inv, PostsCounted
  <2> QED
    BY <1>3, <2>2 DEF PostsCounted
<1>4. ASSUME NEW t \in Thread, NEW u \in User \cup {None}, NEW k \in Key,
             NEW provider \in BOOLEAN, Begin(t, u, k, provider)
      PROVE  PostsCounted'
  <2>1. request'[t].day = None
    BY <1>4 DEF Begin, Inv, TypeOK
  <2>2. \A v \in User, d \in Day : t \notin ToPost(v, d)' /\ t \notin ToRepost(v, d)'
    BY <2>1, NoneAssumption DEF ToPost, ToRepost, Charged, Day
  <2> QED
    BY <1>3, <1>4, <2>2 DEF Moves, Begin
<1>5. ASSUME NEW t \in Thread, Charge(t)
      PROVE  PostsCounted'
  <2>1. Moves(t) /\ posts' = posts /\ reposts' = reposts
    BY <1>5 DEF Moves, Step, Charge
  <2>2. PICK v \in User : v = request[t].user
    BY <1>5, AtRequest DEF Charge, Inv, ChargedInTime
  <2>3. /\ request'[t].user = v /\ request'[t].day = today
        /\ request'[t].stage \in {"gate", "offline"}
    BY <1>5, <2>2 DEF Charge, Inv, TypeOK
  <2>4. \A u \in User, d \in Day :
           usage'[u][d] = IF u = v /\ d = today
                          THEN usage[u][d] + 1 ELSE usage[u][d]
    BY <1>5, <2>2 DEF Charge, Inv, TypeOK
  <2>5. ASSUME NEW u \in User, NEW d \in Day
        PROVE  /\ Cardinality(ToPost(u, d)') <= Cardinality(ToPost(u, d))
                    + (IF u = v /\ d = today THEN 1 ELSE 0)
               /\ Cardinality(ToRepost(u, d)') <= Cardinality(ToRepost(u, d))
    <3>1. t \in ToPost(u, d)' => u = v /\ d = today
      BY <2>3 DEF ToPost, Charged
    <3>2. t \notin ToRepost(u, d)'
      BY <2>3 DEF ToRepost
    <3> QED
      BY <1>1, <2>1, <3>1, <3>2, CountsMove DEF Inv
  <2>6. ASSUME NEW u \in User, NEW d \in Day
        PROVE  /\ posts[u][d] + Cardinality(ToPost(u, d)') <= usage'[u][d]
               /\ reposts[u][d] + Cardinality(ToRepost(u, d)') <= posts[u][d]
    BY <1>1, <1>2, <2>4, <2>5 DEF Inv, PostsCounted
  <2> QED
    BY <2>1, <2>6 DEF PostsCounted
<1>6. ASSUME NEW t \in Thread, Post(t) \/ Repost(t)
      PROVE  PostsCounted'
  <2>1. Moves(t) /\ usage' = usage
    BY <1>6 DEF Moves, Step, Post, Repost
  <2>2. PICK v, e : v = request[t].user /\ e = request[t].day
    OBVIOUS
  <2>3. /\ request[t] # None
        /\ request[t].stage = IF Post(t) THEN "post" ELSE "repost"
    BY <1>6 DEF Post, Repost, At
  <2>4. v # None => v \in User /\ e \in Day
    BY <2>2, <2>3, <1>6, AtRequest DEF Post, Repost, Inv, ChargedInTime
  <2>5. \E s \in {"put", "release", "repost"} :
           /\ Goto(t, s)
           /\ ~Post(t) => s # "repost"
    BY <1>6 DEF Post, Repost
  <2>6. /\ request'[t].user = v /\ request'[t].day = e
        /\ request'[t].stage \in {"put", "release", "repost"}
        /\ ~Post(t) => request'[t].stage # "repost"
    <3>1. {"put", "release", "repost"} \subseteq Stage
      BY DEF Stage, Holding
    <3> QED
      BY <2>2, <2>3, <2>5, <3>1, NextRequest DEF Inv
  <2>7. \A u \in User, d \in Day :
           /\ posts'[u][d] = posts[u][d]
                + (IF Post(t) /\ u = v /\ d = e THEN 1 ELSE 0)
           /\ reposts'[u][d] = reposts[u][d]
                + (IF ~Post(t) /\ u = v /\ d = e THEN 1 ELSE 0)
    <3>1. CASE Post(t)
      BY <1>2, <2>2, <2>4, <3>1, NoneAssumption DEF Post, Counting, Inv, TypeOK
    <3>2. CASE ~Post(t)
      BY <1>2, <1>6, <2>2, <2>4, <3>2, NoneAssumption
      DEF Repost, Counting, Inv, TypeOK
    <3> QED
      BY <3>1, <3>2
  <2>8. ASSUME NEW u \in User, NEW d \in Day
        PROVE  /\ Cardinality(ToPost(u, d)') = Cardinality(ToPost(u, d))
                    - (IF Post(t) /\ u = v /\ d = e THEN 1 ELSE 0)
               /\ Cardinality(ToRepost(u, d)') <= Cardinality(ToRepost(u, d))
                    + (IF Post(t) /\ u = v /\ d = e THEN 1 ELSE 0)
                    - (IF ~Post(t) /\ u = v /\ d = e THEN 1 ELSE 0)
    <3>1. t \in ToPost(u, d) <=> Post(t) /\ u = v /\ d = e
      BY <2>2, <2>3 DEF ToPost, Charged
    <3>2. t \notin ToPost(u, d)'
      BY <2>6 DEF ToPost
    <3>3. t \in ToRepost(u, d) <=> ~Post(t) /\ u = v /\ d = e
      BY <2>2, <2>3 DEF ToRepost, Charged
    <3>4. t \in ToRepost(u, d)' => Post(t) /\ u = v /\ d = e
      BY <2>6 DEF ToRepost, Charged
    <3>5. /\ Cardinality(ToPost(u, d)') = Cardinality(ToPost(u, d))
               - (IF t \in ToPost(u, d) THEN 1 ELSE 0)
          /\ Cardinality(ToRepost(u, d)') = Cardinality(ToRepost(u, d))
               + (IF t \in ToRepost(u, d)' THEN 1 ELSE 0)
               - (IF t \in ToRepost(u, d) THEN 1 ELSE 0)
      BY <1>1, <2>1, <3>2, CountsMove DEF Inv
    <3> QED
      BY <1>1, <3>1, <3>3, <3>4, <3>5
  <2>9. ASSUME NEW u \in User, NEW d \in Day
        PROVE  /\ posts'[u][d] + Cardinality(ToPost(u, d)') <= usage[u][d]
               /\ reposts'[u][d] + Cardinality(ToRepost(u, d)') <= posts'[u][d]
    BY <1>1, <1>2, <2>7, <2>8 DEF Inv, PostsCounted
  <2> QED
    BY <2>1, <2>9 DEF PostsCounted
<1>7. ASSUME NEW t \in Thread, Step(t), ~Charge(t), ~Post(t), ~Repost(t)
      PROVE  PostsCounted'
  <2>1. Moves(t) /\ usage' = usage /\ posts' = posts /\ reposts' = reposts
    BY <1>7
    DEF Moves, Step, CheckUsage, CheckFails, ChargeFails, Offline, Acquire,
        Busy, RefuseImage, Lookup, Put, Release
  <2>2. \/ Finish(t)
        \/ /\ request[t] # None
           /\ \/ \E s \in {"charge", "release"} : Goto(t, s)
              \/ /\ request[t].stage \in {"gate", "lookup"}
                 /\ \E s \in {"lookup", "post"} : Goto(t, s)
    BY <1>7
    DEF Step, CheckUsage, CheckFails, ChargeFails, Offline, Acquire, Busy,
        RefuseImage, Lookup, Put, Release, At
  <2>3. \A u \in User, d \in Day :
           /\ t \in ToPost(u, d)' => t \in ToPost(u, d)
           /\ t \notin ToRepost(u, d)'
    <3>1. CASE Finish(t)
      <4>1. request'[t] = None
        BY <3>1 DEF Finish, Inv, TypeOK
      <4> QED
        BY <4>1 DEF ToPost, ToRepost, Charged
    <3>2. ASSUME NEW s \in {"charge", "release", "lookup", "post"}, Goto(t, s),
                 request[t] # None,
                 s \in {"lookup", "post"} => request[t].stage \in {"gate", "lookup"}
          PROVE  \A u \in User, d \in Day :
                   /\ t \in ToPost(u, d)' => t \in ToPost(u, d)
                   /\ t \notin ToRepost(u, d)'
      <4>1. s \in Stage
        BY DEF Stage, Holding
      <4>2. /\ request'[t].stage = s
            /\ request'[t].user = request[t].user
            /\ request'[t].day = request[t].day
        BY <3>2, <4>1, NextRequest DEF Inv
      <4> QED
        BY <3>2, <4>2 DEF ToPost, ToRepost, Charged
    <3> QED
      BY <2>2, <3>1, <3>2
  <2> QED
    BY <1>3, <2>1, <2>3
<1>8. CASE SetPaused \/ Tick \/ NewDay
  BY <1>8 DEF SetPaused, Tick, NewDay, Inv, PostsCounted, ToPost, ToRepost, Charged
<1>9. CASE Restart
  <2>1. \A u \in User, d \in Day : ToPost(u, d)' = {} /\ ToRepost(u, d)' = {}
    BY <1>9 DEF Restart, ToPost, ToRepost, Charged
  <2>2. \A u \in User, d \in Day :
           Cardinality(ToPost(u, d)') = 0 /\ Cardinality(ToRepost(u, d)') = 0
    BY <2>1, FS_EmptySet
  <2>3. ASSUME NEW u \in User, NEW d \in Day
        PROVE  posts[u][d] <= usage[u][d] /\ reposts[u][d] <= posts[u][d]
    BY <1>1, <1>2 DEF Inv, PostsCounted
  <2> QED
    BY <1>2, <1>9, <2>2, <2>3 DEF Restart, PostsCounted
<1> QED
  BY <1>4, <1>5, <1>6, <1>7, <1>8, <1>9 DEF Next, Step

-----------------------------------------------------------------------------
(* The cache *)

LEMMA KeySets ==
    ASSUME NEW S \in SUBSET Key
    PROVE  IsFiniteSet(S) /\ Cardinality(S) \in Nat
<1>1. IsFiniteSet(S)
  BY SetsAssumption, FS_Subset
<1> QED
  BY <1>1, FS_CardinalityType

LEMMA InsertBounded ==
    ASSUME Inv, NEW k \in Key, Insert(k)
    PROVE  CacheBounded'
<1>1. Held \in SUBSET Key /\ Live \in SUBSET Key /\ Held' \in SUBSET Key
  BY DEF Held, Live
<1>2. PICK kept \in Room(k) :
          cache' = [e \in Key |-> IF e = k THEN Ttl
                                  ELSE IF e \in kept THEN cache[e] ELSE None]
  BY DEF Insert
<1>3. kept \in SUBSET Key
  BY <1>1 DEF Room
<1>4. Held' \subseteq kept \cup {k}
  BY <1>2 DEF Held
<1>5. IsFiniteSet(kept) /\ Cardinality(kept) \in Nat
  BY <1>3, KeySets
<1>6. /\ IsFiniteSet(kept \cup {k})
      /\ Cardinality(kept \cup {k}) = IF k \in kept THEN Cardinality(kept)
                                                    ELSE Cardinality(kept) + 1
  BY <1>5, FS_AddElement
<1>7. Cardinality(Held') <= Cardinality(kept \cup {k})
  BY <1>4, <1>6, FS_Subset
<1>8. Cardinality(Held') \in Nat /\ Cardinality(Held) \in Nat
  BY <1>1, KeySets
<1>9. CASE k \in Held
  <2>1. kept = Held
    BY <1>9 DEF Room
  <2> QED
    BY <1>6, <1>7, <1>8, <1>9, <2>1, LimitsAssumption DEF Inv, CacheBounded
<1>10. CASE k \notin Held
  <2>1. Cardinality(kept) < MaxEntries
    <3>1. CASE Cardinality(Held) < MaxEntries
      BY <3>1 DEF Room
    <3>2. CASE ~(Cardinality(Held) < MaxEntries) /\ Cardinality(Live) < MaxEntries
      BY <1>10, <3>2 DEF Room
    <3>3. CASE ~(Cardinality(Held) < MaxEntries) /\ ~(Cardinality(Live) < MaxEntries)
      <4>1. PICK e \in Live : kept = Live \ {e}
        BY <1>10, <3>3 DEF Room
      <4>2. IsFiniteSet(Live) /\ Cardinality(Live) \in Nat
        BY <1>1, KeySets
      <4>3. Cardinality(kept) = Cardinality(Live) - 1
        BY <4>1, <4>2, FS_RemoveElement
      <4>4. Live \subseteq Held /\ IsFiniteSet(Held)
        BY <1>1, KeySets DEF Live
      <4>5. Cardinality(Live) <= Cardinality(Held)
        BY <4>4, FS_Subset
      <4> QED
        BY <1>8, <4>2, <4>3, <4>5, LimitsAssumption DEF Inv, CacheBounded
    <3> QED
      BY <3>1, <3>2, <3>3
  <2> QED
    BY <1>5, <1>6, <1>7, <1>8, <2>1, LimitsAssumption DEF CacheBounded
<1> QED
  BY <1>9, <1>10

LEMMA CacheKept ==
    ASSUME Inv, Next
    PROVE  CacheBounded'
<1>1. ASSUME Held' \subseteq Held
      PROVE  CacheBounded'
  <2>1. IsFiniteSet(Held)
    BY KeySets DEF Held
  <2>2. /\ Cardinality(Held') <= Cardinality(Held)
        /\ Cardinality(Held') \in Nat /\ Cardinality(Held) \in Nat
    BY <1>1, <2>1, FS_Subset, FS_CardinalityType
  <2> QED
    BY <2>2, LimitsAssumption DEF Inv, CacheBounded
<1>2. ASSUME NEW t \in Thread, Lookup(t)
      PROVE  CacheBounded'
  <2>1. Held' \subseteq Held
    BY <1>2 DEF Lookup, Get, Held, Live, Inv, TypeOK
  <2> QED
    BY <1>1, <2>1
<1>3. ASSUME NEW t \in Thread, Put(t)
      PROVE  CacheBounded'
  <2>1. request[t].key \in Key
    BY <1>3, AtRequest DEF Put, Inv
  <2>2. CASE Ttl > 0
    BY <1>3, <2>1, <2>2, InsertBounded DEF Put
  <2>3. CASE ~(Ttl > 0)
    BY <1>1, <1>3, <2>3 DEF Put, Held
  <2> QED
    BY <2>2, <2>3
<1>4. CASE Tick
  <2>1. Held' \subseteq Held
    BY <1>4 DEF Tick, Held, Live, Inv, TypeOK
  <2> QED
    BY <1>1, <2>1
<1>5. CASE Restart
  <2>1. Held' \subseteq Held
    BY <1>5 DEF Restart, Held
  <2> QED
    BY <1>1, <2>1
<1>6. CASE cache' = cache
  BY <1>1, <1>6 DEF Held
<1> QED
  BY <1>2, <1>3, <1>4, <1>5, <1>6
  DEF Next, Begin, Step, CheckUsage, CheckFails, Charge, ChargeFails, Offline,
      Acquire, Busy, RefuseImage, Post, Repost, Release, SetPaused, NewDay

(* What a put displaces. *)
LEMMA InsertEvicts ==
    ASSUME Inv, NEW k \in Key, Insert(k), NEW e \in Live, cache'[e] = None
    PROVE  /\ Held = Live /\ Cardinality(Live) = MaxEntries
           /\ Live \ Held' = {e}
<1>1. PICK kept \in Room(k) :
          cache' = [x \in Key |-> IF x = k THEN Ttl
                                  ELSE IF x \in kept THEN cache[x] ELSE None]
  BY DEF Insert
<1>2. /\ Held \in SUBSET Key /\ Live \in SUBSET Held
      /\ \A x \in Held : cache[x] # None
      /\ Ttl # None
  BY LimitsAssumption, NoneAssumption DEF Held, Live
<1>3. e # k /\ e \notin kept
  BY <1>1, <1>2
<1>4. kept # Held /\ kept # Live
  BY <1>2, <1>3
<1>5. /\ k \notin Held
      /\ ~(Cardinality(Held) < MaxEntries) /\ ~(Cardinality(Live) < MaxEntries)
      /\ \E x \in Live : kept = Live \ {x}
  BY <1>4 DEF Room
<1>6. kept = Live \ {e}
  BY <1>3, <1>5
<1>7. /\ IsFiniteSet(Held)
      /\ Cardinality(Held) \in Nat /\ Cardinality(Live) \in Nat
  BY <1>2, KeySets
<1>8. Cardinality(Live) <= Cardinality(Held)
  BY <1>2, <1>7, FS_Subset
<1>9. Cardinality(Live) = MaxEntries /\ Cardinality(Held) = MaxEntries
  BY <1>5, <1>7, <1>8, LimitsAssumption DEF Inv, CacheBounded
<1>10. Held = Live
  BY <1>2, <1>7, <1>9, FS_Subset
<1>11. Live \ Held' = {e}
  BY <1>1, <1>2, <1>3, <1>6 DEF Held
<1> QED
  BY <1>9, <1>10, <1>11

-----------------------------------------------------------------------------
(* The theorems *)

LEMMA InvInit ==
    ASSUME Init
    PROVE  Inv
<1>1. TypeOK
  BY LimitsAssumption DEF Init, TypeOK, Day
<1>2. /\ HoldingThreads = {} /\ Held = {}
      /\ \A u, d : Pending(u) = {} /\ ToPost(u, d) = {} /\ ToRepost(u, d) = {}
  BY DEF Init, HoldingThreads, Held, Pending, ToPost, ToRepost, At, Charged
<1>3. Cardinality({}) = 0
  BY FS_EmptySet
<1>4. ChargedInTime
  BY DEF Init, ChargedInTime
<1>5. GateExact /\ CacheBounded
  BY <1>2, <1>3, LimitsAssumption DEF Init, GateExact, CacheBounded
<1>6. UsageCounted
  <2>1. Cardinality(Thread) \in Nat
    BY ThreadSets
  <2>2. \A u \in User, d \in Day : usage[u][d] = 0
    BY DEF Init
  <2>3. UsageLimit \in Nat /\ today \in Day /\ \A d \in Day : ~(d < today)
    BY <1>1, <2>1, LimitsAssumption DEF UsageLimit, TypeOK, Init, Day
  <2>4. \A u \in User : usage[u][today] + Cardinality(Pending(u)) <= UsageLimit
    <3>1. ASSUME NEW u \in User
          PROVE  usage[u][today] + Cardinality(Pending(u)) <= UsageLimit
      <4>1. usage[u][today] = 0
        BY <2>2, <2>3
      <4>2. Cardinality(Pending(u)) = 0
        BY <1>2, <1>3
      <4> QED
        BY <2>3, <4>1, <4>2
    <3> QED
      BY <3>1
  <2>5. \A u \in User, d \in Day : usage[u][d] <= UsageLimit
    BY <2>2, <2>3
  <2>6. \A u \in User, d \in Day : d > today => usage[u][d] = 0
    BY <2>2, Zenon
  <2>7. \A u \in User, d \in Day : d < today => usage[u][d] <= UsageLimit
    BY <2>5, Zenon
  <2> QED
    BY <2>4, <2>6, <2>7, Zenon DEF UsageCounted
<1>7. PostsCounted
  <2>1. \A u \in User, d \in Day :
           usage[u][d] = 0 /\ posts[u][d] = 0 /\ reposts[u][d] = 0
    BY DEF Init
  <2> QED
    BY <1>2, <1>3, <2>1 DEF PostsCounted
<1> QED
  BY <1>1, <1>4, <1>5, <1>6, <1>7 DEF Inv

LEMMA InvStep ==
    ASSUME Inv, [Next]_vars
    PROVE  Inv'
<1>1. CASE Next
  BY <1>1, TypeKept, ChargedInTimeKept, GateKept, UsageKept, PostsKept, CacheKept
  DEF Inv
<1>2. CASE UNCHANGED vars
  BY <1>2
  DEF vars, Inv, TypeOK, ChargedInTime, GateExact, HoldingThreads,
      UsageCounted, UsageLimit, Pending, PostsCounted, ToPost, ToRepost, At,
      Charged, CacheBounded, Held
<1> QED
  BY <1>1, <1>2

THEOREM InvariantHolds == Spec => []Inv
BY InvInit, InvStep, PTL DEF Spec

(* Every counter, cache entry and request keeps its type; the gate does    *)
(* not go below zero.                                                      *)
THEOREM TypeCorrect == Spec => []TypeOK
<1>1. Inv => TypeOK
  BY DEF Inv
<1> QED
  BY <1>1, InvariantHolds, PTL

(* The gate counts exactly the estimates that hold a slot, and no more of  *)
(* them run than configured.                                               *)
THEOREM GateHolds == Spec => []GateExact
<1>1. Inv => GateExact
  BY DEF Inv
<1> QED
  BY <1>1, InvariantHolds, PTL

(* The daily quota is overrun by at most one per other thread and failed   *)
(* read.                                                                   *)
THEOREM UsageHolds == Spec => []UsageBounded
<1>1. ASSUME Inv, NEW u \in User, NEW d \in Day
      PROVE  usage[u][d] <= UsageLimit
  <2>1. Cardinality(Pending(u)) \in Nat /\ Cardinality(Thread) \in Nat
    BY ThreadSets, SetsOfThreads
  <2>2. /\ Day \subseteq Nat /\ today \in Day /\ usage[u][d] \in Nat
        /\ UsageLimit \in Nat
    BY <1>1, <2>1, LimitsAssumption DEF Inv, TypeOK, Day, UsageLimit
  <2>3. CASE d = today
    BY <1>1, <2>1, <2>2, <2>3 DEF Inv, UsageCounted
  <2>4. CASE d # today
    BY <1>1, <2>2, <2>4 DEF Inv, UsageCounted
  <2> QED
    BY <2>3, <2>4
<1>2. Inv => UsageBounded
  BY <1>1 DEF UsageBounded, UsageLimit
<1> QED
  BY <1>2, InvariantHolds, PTL

(* The provider is asked at most twice for each unit of the quota.         *)
THEOREM SpendingHolds == Spec => []SpendingBounded
<1>1. ASSUME Inv, NEW u \in User, NEW d \in Day
      PROVE  posts[u][d] + reposts[u][d] <= 2 * usage[u][d]
  <2>1. /\ Cardinality(ToPost(u, d)) \in Nat
        /\ Cardinality(ToRepost(u, d)) \in Nat
    BY ThreadSets, SetsOfThreads
  <2>2. usage[u][d] \in Nat /\ posts[u][d] \in Nat /\ reposts[u][d] \in Nat
    BY <1>1 DEF Inv, TypeOK
  <2> QED
    BY <1>1, <2>1, <2>2 DEF Inv, PostsCounted
<1>2. Inv => SpendingBounded
  BY <1>1 DEF SpendingBounded
<1> QED
  BY <1>2, InvariantHolds, PTL

(* The cache never exceeds its capacity.                                   *)
THEOREM CacheHolds == Spec => []CacheBounded
<1>1. Inv => CacheBounded
  BY DEF Inv
<1> QED
  BY <1>1, InvariantHolds, PTL

(* A result still of use is displaced only from a cache full of such.      *)
THEOREM ExpiredFirstHolds == Spec => ExpiredFirst
<1> DEFINE Displaced ==
        \A k \in Live : cache'[k] = None =>
           \/ Held' = {}
           \/ Held = Live /\ Cardinality(Live) = MaxEntries /\ Live \ Held' = {k}
<1>1. ASSUME cache' = cache
      PROVE  Displaced
  BY <1>1 DEF Live, Held
<1>2. ASSUME Inv, NEW t \in Thread, Lookup(t)
      PROVE  Displaced
  BY <1>2 DEF Lookup, Get, Live, Held, Inv, TypeOK
<1>3. ASSUME Inv, NEW t \in Thread, Put(t)
      PROVE  Displaced
  <2>1. request[t].key \in Key
    BY <1>3, AtRequest DEF Put, Inv
  <2>2. CASE Ttl > 0
    BY <1>3, <2>1, <2>2, InsertEvicts DEF Put
  <2>3. CASE ~(Ttl > 0)
    BY <1>1, <1>3, <2>3 DEF Put
  <2> QED
    BY <2>2, <2>3
<1>4. ASSUME Inv, Tick
      PROVE  Displaced
  <2>1. ASSUME NEW k \in Live
        PROVE  cache'[k] # None
    BY <1>4, <2>1, NoneAssumption DEF Tick, Live, Held, Inv, TypeOK
  <2> QED
    BY <2>1
<1>5. ASSUME Restart
      PROVE  Displaced
  BY <1>5 DEF Restart, Held
<1>6. Inv /\ [Next]_vars => [Displaced]_vars
  <2> HIDE DEF Displaced
  <2>1. ASSUME Inv, Next
        PROVE  Displaced
    BY <1>1, <1>2, <1>3, <1>4, <1>5, <2>1
    DEF Next, Begin, Step, CheckUsage, CheckFails, Charge, ChargeFails,
        Offline, Acquire, Busy, RefuseImage, Post, Repost, Release, SetPaused,
        NewDay
  <2> QED
    BY <2>1 DEF vars
<1> QED
  BY <1>6, InvariantHolds, PTL DEF Spec, ExpiredFirst
=============================================================================
