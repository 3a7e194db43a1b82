-------------------------- MODULE EstimatePipeline --------------------------
(***************************************************************************)
(* The way of a photo estimate to the AI provider (http/estimate.rs,       *)
(* limits.rs, cache.rs, ollama/): the operator's pause, the daily quota,   *)
(* the inference gate, the result cache, the provider's one retry.         *)
(*                                                                         *)
(* Connection threads and the job worker run it alike, and a batch runs it *)
(* once per item.  The quota is two calls to the database, so another      *)
(* request may come between them, and both ask for the day anew.  The gate *)
(* and each operation of the cache are atomic: each holds its mutex.       *)
(*                                                                         *)
(* Left to JobQueue and PhotoRetention: the replay of an idempotency key,  *)
(* which ends a request before it comes here, and what is saved after.     *)
(* Requests with tape measures only, and those that a validation refuses,  *)
(* end before they touch any of this state.                                *)
(***************************************************************************)
EXTENDS Naturals, FiniteSets

CONSTANTS
    User,           \* accounts
    Thread,         \* connection threads, and the job worker
    Key,            \* cache keys: image, model, URL and prompt
    None,           \* no account (an anonymous caller), no request, no entry
    DailyLimit,     \* AIF_DAILY_LIMIT
    MaxInference,   \* AIF_MAX_INFERENCE
    MaxEntries,     \* MAX_CACHE_ENTRIES
    Ttl,            \* AIF_CACHE_TTL, in ticks; 0 disables the cache
    MaxDay,         \* bound: days explored
    MaxFailures     \* bound: failed reads of the usage counter explored

ASSUME LimitsAssumption ==
    /\ DailyLimit \in Nat \ {0}
    /\ MaxInference \in Nat \ {0}
    /\ MaxEntries \in Nat \ {0}
    /\ Ttl \in Nat /\ MaxDay \in Nat /\ MaxFailures \in Nat

ASSUME SetsAssumption == IsFiniteSet(Thread) /\ IsFiniteSet(Key)

VARIABLES
    usage,      \* usage[u][d]: row of table usage_counters
    today,      \* the UTC day
    paused,     \* ServerState.paused
    gate,       \* InferenceGate.active
    cache,      \* cache[k]: ticks until the entry expires (0: expired, still
                \* held), or None
    request,    \* request[t]: the estimate thread t works on, or None
    posts,      \* posts[u][d]: first requests to the provider for estimates
                \* charged to u on day d (history variable)
    reposts,    \* the same for second requests (history variable)
    failures    \* failed reads of the usage counter (history variable)

vars == <<usage, today, paused, gate, cache, request, posts, reposts, failures>>

Day == 0 .. MaxDay

-----------------------------------------------------------------------------
(* Requests *)

(* The stages that hold a slot of the inference gate. *)
Holding == {"lookup", "post", "repost", "put", "release"}

Stage == {"check", "charge", "gate", "offline"} \cup Holding

(* `provider' is false for backend `none'; `day' is the day the estimate   *)
(* was charged to, None when it was not.                                   *)
Request ==
    [stage    : Stage,
     user     : User \cup {None},
     key      : Key,
     provider : BOOLEAN,
     day      : Day \cup {None}]

ASSUME NoneAssumption == None \notin User \cup Nat \cup Request

At(t, s) == request[t] # None /\ request[t].stage = s

Goto(t, s) == request' = [request EXCEPT ![t].stage = s]

(* The response is sent, or the job gets its outcome. *)
Finish(t) == request' = [request EXCEPT ![t] = None]

HoldingThreads == {t \in Thread : request[t] # None /\ request[t].stage \in Holding}

TypeOK ==
    /\ usage \in [User -> [Day -> Nat]]
    /\ today \in Day
    /\ paused \in BOOLEAN
    /\ gate \in Nat
    /\ cache \in [Key -> Nat \cup {None}]
    /\ request \in [Thread -> Request \cup {None}]
    /\ posts \in [User -> [Day -> Nat]]
    /\ reposts \in [User -> [Day -> Nat]]
    /\ failures \in Nat

Init ==
    /\ usage = [u \in User |-> [d \in Day |-> 0]]
    /\ today = 0
    /\ paused \in BOOLEAN
    /\ gate = 0
    /\ cache = [k \in Key |-> None]
    /\ request = [t \in Thread |-> None]
    /\ posts = [u \in User |-> [d \in Day |-> 0]]
    /\ reposts = [u \in User |-> [d \in Day |-> 0]]
    /\ failures = 0

-----------------------------------------------------------------------------
(* The result cache *)

Held == {k \in Key : cache[k] # None}
Live == {k \in Held : cache[k] > 0}

(* Cache::get drops an expired entry. *)
Get(k) == cache' = IF k \in Held \ Live THEN [cache EXCEPT ![k] = None] ELSE cache

(* Broken variant: expired entries are not dropped first. *)
RoomArbitrary(k) ==
    IF k \in Held \/ Cardinality(Held) < MaxEntries THEN {Held}
    ELSE {Held \ {e} : e \in Held}

(* Broken variant: dropping the expired entries is taken to be enough. *)
RoomExpiredOnly(k) ==
    IF k \in Held \/ Cardinality(Held) < MaxEntries THEN {Held} ELSE {Live}

(* Cache::put: at the capacity, and only for a new key, the expired        *)
(* entries go first, then one arbitrary entry.                             *)
Room(k) ==
    IF k \in Held \/ Cardinality(Held) < MaxEntries THEN {Held}
    ELSE IF Cardinality(Live) < MaxEntries THEN {Live}
    ELSE {Live \ {e} : e \in Live}

Insert(k) ==
    \E kept \in Room(k) :
        cache' = [e \in Key |-> IF e = k THEN Ttl
                                ELSE IF e \in kept THEN cache[e] ELSE None]

-----------------------------------------------------------------------------
(* estimate_one *)

(* A photo estimate that passed the validation.  The pause concerns those  *)
(* that need the provider, the quota those of an account.                  *)
Begin(t, u, k, provider) ==
    /\ request[t] = None
    /\ provider => ~paused
    /\ request' = [request EXCEPT ![t] =
                     [stage    |-> IF u # None THEN "check"
                                   ELSE IF provider THEN "gate" ELSE "offline",
                      user     |-> u,
                      key      |-> k,
                      provider |-> provider,
                      day      |-> None]]
    /\ UNCHANGED <<usage, today, paused, gate, cache, posts, reposts, failures>>

(* Broken variant: > for >=. *)
UnderLimitOneMore(t) == usage[request[t].user][today] <= DailyLimit

(* daily_usage below the limit. *)
UnderLimit(t) == usage[request[t].user][today] < DailyLimit

CheckUsage(t) ==
    /\ At(t, "check")
    /\ IF UnderLimit(t) THEN Goto(t, "charge") ELSE Finish(t)
    /\ UNCHANGED <<usage, today, paused, gate, cache, posts, reposts, failures>>

(* A usage that cannot be read counts as 0. *)
CheckFails(t) ==
    /\ At(t, "check")
    /\ failures < MaxFailures
    /\ failures' = failures + 1
    /\ Goto(t, "charge")
    /\ UNCHANGED <<usage, today, paused, gate, cache, posts, reposts>>

(* bump_usage *)
Charge(t) ==
    /\ At(t, "charge")
    /\ usage' = [usage EXCEPT ![request[t].user][today] = @ + 1]
    /\ request' = [request EXCEPT ![t] =
                     [stage    |-> IF request[t].provider THEN "gate" ELSE "offline",
                      user     |-> request[t].user,
                      key      |-> request[t].key,
                      provider |-> request[t].provider,
                      day      |-> today]]
    /\ UNCHANGED <<today, paused, gate, cache, posts, reposts, failures>>

ChargeFails(t) ==
    /\ At(t, "charge")
    /\ Finish(t)
    /\ UNCHANGED <<usage, today, paused, gate, cache, posts, reposts, failures>>

(* Backend `none': no slot, no provider, no cache. *)
Offline(t) ==
    /\ At(t, "offline")
    /\ Finish(t)
    /\ UNCHANGED <<usage, today, paused, gate, cache, posts, reposts, failures>>

(* InferenceGate::try_acquire *)
Acquire(t) ==
    /\ At(t, "gate")
    /\ gate < MaxInference
    /\ gate' = gate + 1
    /\ Goto(t, "lookup")
    /\ UNCHANGED <<usage, today, paused, cache, posts, reposts, failures>>

(* 503 server_busy; the charge stays. *)
Busy(t) ==
    /\ At(t, "gate")
    /\ gate >= MaxInference
    /\ Finish(t)
    /\ UNCHANGED <<usage, today, paused, gate, cache, posts, reposts, failures>>

-----------------------------------------------------------------------------
(* estimate_via_ollama *)

(* No API key, or no valid image. *)
RefuseImage(t) ==
    /\ At(t, "lookup")
    /\ Goto(t, "release")
    /\ UNCHANGED <<usage, today, paused, gate, cache, posts, reposts, failures>>

(* Broken variant: the early return of a hit leaves the slot taken. *)
LookupKeepingSlot(t) ==
    /\ At(t, "lookup")
    /\ Get(request[t].key)
    /\ IF request[t].key \in Live THEN Finish(t) ELSE Goto(t, "post")
    /\ UNCHANGED <<usage, today, paused, gate, posts, reposts, failures>>

Lookup(t) ==
    /\ At(t, "lookup")
    /\ Get(request[t].key)
    /\ Goto(t, IF request[t].key \in Live THEN "release" ELSE "post")
    /\ UNCHANGED <<usage, today, paused, gate, posts, reposts, failures>>

(* One more post for the account and the day t was charged to. *)
Counting(counter, t) ==
    IF request[t].user = None THEN counter
    ELSE [counter EXCEPT ![request[t].user][request[t].day] = @ + 1]

(* A reply with a weight, one that is of no use (4xx, not JSON, no text,   *)
(* no valid weight), or a transient failure (5xx, transport, unreadable),  *)
(* which is tried again after a second.                                    *)
Post(t) ==
    /\ At(t, "post")
    /\ posts' = Counting(posts, t)
    /\ \E s \in {"put", "release", "repost"} : Goto(t, s)
    /\ UNCHANGED <<usage, today, paused, gate, cache, reposts, failures>>

(* Broken variant: the retry is not counted down. *)
RepostAgain(t) ==
    /\ At(t, "repost")
    /\ reposts' = Counting(reposts, t)
    /\ \E s \in {"put", "release", "repost"} : Goto(t, s)
    /\ UNCHANGED <<usage, today, paused, gate, cache, posts, failures>>

(* OLLAMA_MAX_RETRIES is 1. *)
Repost(t) ==
    /\ At(t, "repost")
    /\ reposts' = Counting(reposts, t)
    /\ \E s \in {"put", "release"} : Goto(t, s)
    /\ UNCHANGED <<usage, today, paused, gate, cache, posts, failures>>

Put(t) ==
    /\ At(t, "put")
    /\ IF Ttl > 0 THEN Insert(request[t].key) ELSE UNCHANGED cache
    /\ Goto(t, "release")
    /\ UNCHANGED <<usage, today, paused, gate, posts, reposts, failures>>

(* The guard is dropped at the end of estimate_one, after the result is    *)
(* saved, or by a panic on the way.                                        *)
Release(t) ==
    /\ At(t, "release")
    /\ gate' = gate - 1
    /\ Finish(t)
    /\ UNCHANGED <<usage, today, paused, cache, posts, reposts, failures>>

-----------------------------------------------------------------------------
(* The surroundings *)

(* POST /api/operator/pause *)
SetPaused ==
    /\ paused' = ~paused
    /\ UNCHANGED <<usage, today, gate, cache, request, posts, reposts, failures>>

Tick ==
    /\ cache' = [k \in Key |-> IF k \in Live THEN cache[k] - 1 ELSE cache[k]]
    /\ UNCHANGED <<usage, today, paused, gate, request, posts, reposts, failures>>

NewDay ==
    /\ today < MaxDay
    /\ today' = today + 1
    /\ UNCHANGED <<usage, paused, gate, cache, request, posts, reposts, failures>>

(* Only the database survives; AIF_INFERENCE_PAUSED sets the pause. *)
Restart ==
    /\ paused' \in BOOLEAN
    /\ gate' = 0
    /\ cache' = [k \in Key |-> None]
    /\ request' = [t \in Thread |-> None]
    /\ UNCHANGED <<usage, today, posts, reposts, failures>>

-----------------------------------------------------------------------------
Step(t) ==
    \/ CheckUsage(t) \/ CheckFails(t) \/ Charge(t) \/ ChargeFails(t)
    \/ Offline(t) \/ Acquire(t) \/ Busy(t)
    \/ RefuseImage(t) \/ Lookup(t) \/ Post(t) \/ Repost(t) \/ Put(t)
    \/ Release(t)

Next ==
    \/ \E t \in Thread :
         \/ \E u \in User \cup {None}, k \in Key, provider \in BOOLEAN :
              Begin(t, u, k, provider)
         \/ Step(t)
    \/ SetPaused \/ Tick \/ NewDay \/ Restart

Spec == Init /\ [][Next]_vars

-----------------------------------------------------------------------------
(* Properties *)

(* The gate counts the estimates that hold a slot, those of the worker     *)
(* included, and there are never more than the operator configured: no     *)
(* path out of an estimate keeps its slot or gives it back twice.          *)
GateExact == gate = Cardinality(HoldingThreads) /\ gate <= MaxInference

(* The racy quota (estimate.rs:573) is overrun by at most one estimate per *)
(* other thread, and by one per failed read of the counter; so also when   *)
(* the day changes between the check and the charge.                       *)
UsageBounded ==
    \A u \in User, d \in Day :
        usage[u][d] <= DailyLimit - 1 + Cardinality(Thread) + failures

(* What the provider is asked is paid for: at most two requests for each   *)
(* unit of the quota, whatever fails or restarts on the way.               *)
SpendingBounded ==
    \A u \in User, d \in Day : posts[u][d] + reposts[u][d] <= 2 * usage[u][d]

(* The cache never holds more than its capacity. *)
CacheBounded == Cardinality(Held) <= MaxEntries

(* A result still of use gives way only when every entry is: expired ones  *)
(* go first, and a replaced entry displaces none (cache.rs:17).            *)
ExpiredFirst ==
    [][\A k \in Live : cache'[k] = None =>
           \/ Held' = {}
           \/ Held = Live /\ Cardinality(Live) = MaxEntries /\ Live \ Held' = {k}]_vars

-----------------------------------------------------------------------------
(* What the repository says, and the code does not keep *)

(* docs/security.md:57: AIF_DAILY_LIMIT is the number of photo estimates   *)
(* per user and UTC day.                                                   *)
DailyLimitKept == \A u \in User, d \in Day : usage[u][d] <= DailyLimit

(* estimate.rs:571: "Quotas count provider-bound photo estimates per user  *)
(* per day": a request that was charged does not end, by a step of its own *)
(* thread, without having had a slot of the gate.                          *)
ChargedIsProviderBound ==
    [][\A t \in Thread :
         (Step(t) /\ request[t].day # None /\ request'[t] = None)
             => request[t].stage = "release"]_vars
=============================================================================
