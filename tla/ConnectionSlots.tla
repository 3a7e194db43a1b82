--------------------------- MODULE ConnectionSlots ---------------------------
(***************************************************************************)
(* The connection server of the web backend (http/server.rs): one accept   *)
(* loop that claims a slot for each connection, and one thread per         *)
(* connection that reads a request, dispatches it, answers and frees the   *)
(* slot.                                                                   *)
(*                                                                         *)
(* The loop and the threads share one atomic counter.  The loop adds one   *)
(* and looks at what was there before; when that was the cap it takes the  *)
(* one back, in a second atomic step.  A thread takes its one back when    *)
(* its guard is dropped: the guard exists only after two socket calls that *)
(* can fail.                                                               *)
(*                                                                         *)
(* What a handler does between the head and the answer is one step here:   *)
(* JobQueue, PhotoRetention and Accounts model the handlers.               *)
(***************************************************************************)
EXTENDS Naturals, FiniteSets

CONSTANTS
    Conn,       \* sockets clients connect with, each used again and again
    MaxConn,    \* MAX_CONCURRENT_CONNECTIONS
    None        \* the accept loop is between two connections

ASSUME MaxConnAssumption == MaxConn \in Nat \ {0}
ASSUME ConnAssumption == IsFiniteSet(Conn) /\ None \notin Conn

VARIABLES
    active,     \* ServerMetrics.active_connections
    stage,      \* stage[c]: how far connection c is
    counted,    \* counted[c]: times c was added to ServerMetrics.total_requests
                \* (history variable)
    accepting,  \* the connection the accept loop is on, or None
    seen,       \* what acquire_slot's fetch_add returned
    lost        \* slots claimed by threads that ended without a guard
                \* (history variable)

vars == <<active, stage, counted, accepting, seen, lost>>

-----------------------------------------------------------------------------
(* Stages of a connection *)

(* The accept loop has counted the connection and not yet acted on it. *)
Deciding == {"claimed", "refused"}

(* A thread of its own runs: before and after the guard is made. *)
Unguarded == {"spawned"}
Guarded == {"head", "body", "dispatch", "reply", "sent", "silent"}

(* Over for the server: with a response written, or without one. *)
Ended == {"answered", "dropped"}

Stage == {"idle", "waiting"} \cup Deciding \cup Unguarded \cup Guarded \cup Ended

InService == {"claimed"} \cup Unguarded \cup Guarded

Served == {c \in Conn : stage[c] \in InService}

TypeOK ==
    /\ active \in Nat
    /\ stage \in [Conn -> Stage]
    /\ counted \in [Conn -> Nat]
    /\ accepting \in Conn \cup {None}
    /\ seen \in Nat
    /\ lost \in Nat

Init ==
    /\ active = 0
    /\ stage = [c \in Conn |-> "idle"]
    /\ counted = [c \in Conn |-> 0]
    /\ accepting = None
    /\ seen = 0
    /\ lost = 0

Move(c, s) == stage' = [stage EXCEPT ![c] = s]

(* ServerMetrics::record_request *)
RecordRequest(c) == counted' = [counted EXCEPT ![c] = @ + 1]

-----------------------------------------------------------------------------
(* The accept loop *)

(* A client connects; the kernel queues the connection. *)
Connect(c) ==
    /\ stage[c] \in {"idle"} \cup Ended
    /\ Move(c, "waiting")
    /\ counted' = [counted EXCEPT ![c] = 0]
    /\ UNCHANGED <<active, accepting, seen, lost>>

(* acquire_slot, first step: the connection is counted whether or not      *)
(* there is room.                                                          *)
Accept(c) ==
    /\ accepting = None
    /\ stage[c] = "waiting"
    /\ active' = active + 1
    /\ seen' = active
    /\ accepting' = c
    /\ Move(c, "claimed")
    /\ UNCHANGED <<counted, lost>>

(* Broken variant: the cap is compared with one more. *)
HasRoomOneMore == seen <= MaxConn

HasRoom == seen < MaxConn

Spawn(c) ==
    /\ accepting = c
    /\ HasRoom
    /\ Move(c, "spawned")
    /\ accepting' = None
    /\ UNCHANGED <<active, counted, seen, lost>>

(* Broken variant: the refusal does not take its count back. *)
GiveBackNothing(c) ==
    /\ accepting = c
    /\ stage[c] = "claimed"
    /\ ~HasRoom
    /\ Move(c, "refused")
    /\ UNCHANGED <<active, counted, accepting, seen, lost>>

(* acquire_slot, second step. *)
GiveBack(c) ==
    /\ accepting = c
    /\ stage[c] = "claimed"
    /\ ~HasRoom
    /\ active' = active - 1
    /\ Move(c, "refused")
    /\ UNCHANGED <<counted, accepting, seen, lost>>

(* Broken variant: the refusal is written by the loop only when a slot is  *)
(* free again.                                                             *)
RefuseWhenFree(c) ==
    /\ accepting = c
    /\ stage[c] = "refused"
    /\ active = 0
    /\ RecordRequest(c)
    /\ \E end \in Ended : Move(c, end)
    /\ accepting' = None
    /\ UNCHANGED <<active, seen, lost>>

(* 503 server_busy, written by the loop itself. *)
Refuse(c) ==
    /\ accepting = c
    /\ stage[c] = "refused"
    /\ RecordRequest(c)
    /\ \E end \in Ended : Move(c, end)
    /\ accepting' = None
    /\ UNCHANGED <<active, seen, lost>>

-----------------------------------------------------------------------------
(* handle_connection, in the connection's thread *)

(* Both socket timeouts are set and the guard adopts the slot. *)
Adopt(c) ==
    /\ stage[c] = "spawned"
    /\ Move(c, "head")
    /\ UNCHANGED <<active, counted, accepting, seen, lost>>

(* Broken variant: the guard is made when the thread starts and again      *)
(* released by a failing socket call: the slot is freed and counted lost.  *)
TimeoutFailsReleasing(c) ==
    /\ stage[c] = "spawned"
    /\ Move(c, "silent")
    /\ lost' = lost + 1
    /\ UNCHANGED <<active, counted, accepting, seen>>

(* set_read_timeout or set_write_timeout fails: the function returns       *)
(* before the guard is made.                                               *)
TimeoutFails(c) ==
    /\ stage[c] = "spawned"
    /\ Move(c, "dropped")
    /\ lost' = lost + 1
    /\ UNCHANGED <<active, counted, accepting, seen>>

(* The client closed or a read failed: no answer. *)
ReadNothing(c) ==
    /\ stage[c] = "head"
    /\ Move(c, "silent")
    /\ UNCHANGED <<active, counted, accepting, seen, lost>>

(* The head is complete and acceptable. *)
ReadHead(c) ==
    /\ stage[c] = "head"
    /\ Move(c, "body")
    /\ UNCHANGED <<active, counted, accepting, seen, lost>>

(* Broken variant: an answer without dispatch is not counted. *)
RejectUncounted(c) ==
    /\ stage[c] \in {"head", "body"}
    /\ Move(c, "reply")
    /\ UNCHANGED <<active, counted, accepting, seen, lost>>

(* Answered without dispatch: a malformed head, a chunked or oversized     *)
(* body, and later a truncated body.                                       *)
RejectRequest(c) ==
    /\ stage[c] \in {"head", "body"}
    /\ RecordRequest(c)
    /\ Move(c, "reply")
    /\ UNCHANGED <<active, accepting, seen, lost>>

(* The body is complete; dispatch counts the request first. *)
ReadBody(c) ==
    /\ stage[c] = "body"
    /\ RecordRequest(c)
    /\ Move(c, "dispatch")
    /\ UNCHANGED <<active, accepting, seen, lost>>

(* The handler returns a response, or panics. *)
Dispatch(c) ==
    /\ stage[c] = "dispatch"
    /\ \E s \in {"reply", "silent"} : Move(c, s)
    /\ UNCHANGED <<active, counted, accepting, seen, lost>>

(* write_response succeeds, or the client is gone. *)
Reply(c) ==
    /\ stage[c] = "reply"
    /\ \E s \in {"sent", "silent"} : Move(c, s)
    /\ UNCHANGED <<active, counted, accepting, seen, lost>>

(* The guard is dropped, by a return or by the unwinding of a panic. *)
Release(c) ==
    /\ stage[c] \in {"sent", "silent"}
    /\ active' = active - 1
    /\ Move(c, IF stage[c] = "sent" THEN "answered" ELSE "dropped")
    /\ UNCHANGED <<counted, accepting, seen, lost>>

(* The process ends (also when thread::spawn panics in the loop) and is    *)
(* started again: every connection is gone, and so are the counters.       *)
Restart ==
    /\ stage' = [c \in Conn |->
                   IF stage[c] \in {"idle"} \cup Ended THEN stage[c]
                                                       ELSE "dropped"]
    /\ active' = 0
    /\ counted' = counted
    /\ accepting' = None
    /\ seen' = 0
    /\ lost' = 0

-----------------------------------------------------------------------------
LoopStep(c) == Accept(c) \/ Spawn(c) \/ GiveBack(c) \/ Refuse(c)

ThreadStep(c) ==
    \/ Adopt(c) \/ TimeoutFails(c)
    \/ ReadNothing(c) \/ ReadHead(c) \/ RejectRequest(c) \/ ReadBody(c)
    \/ Dispatch(c) \/ Reply(c) \/ Release(c)

Next == Restart \/ \E c \in Conn : Connect(c) \/ LoopStep(c) \/ ThreadStep(c)

Spec == Init /\ [][Next]_vars

(* The kernel hands connections over in their order of arrival, so one     *)
(* that waits is accepted if the loop comes back to accept again and       *)
(* again.  The loop's other steps do not wait: the refusal is shorter than *)
(* a socket's send buffer.  A thread's reads and writes end by the 30 s    *)
(* timeouts and the caps on head and body, and its handler returns.        *)
FairSpec ==
    /\ Spec
    /\ \A c \in Conn :
         /\ SF_vars(Accept(c))
         /\ WF_vars(Spawn(c) \/ GiveBack(c) \/ Refuse(c))
         /\ WF_vars(ThreadStep(c))

-----------------------------------------------------------------------------
(* Properties *)

(* The counter is exact at every instant: the connections in service, the  *)
(* slots lost, and nothing else (the excess one of a connection the loop   *)
(* is about to refuse is that connection's own).                           *)
CounterExact == active = Cardinality(Served) + lost

(* A burst cannot spawn more threads than the cap allows (the comment of   *)
(* acquire_slot), whatever the threads release between the two steps of    *)
(* the loop.                                                               *)
HandledBounded ==
    Cardinality({c \in Conn : stage[c] \in Unguarded \cup Guarded}) + lost
        <= MaxConn

(* A response that was written was counted in total_requests exactly once, *)
(* whichever of the early returns wrote it.                                *)
AnsweredCounted ==
    \A c \in Conn : /\ counted[c] <= 1
                    /\ stage[c] \in {"sent", "answered"} => counted[c] = 1

(* server.rs:35: "every early return still frees its connection count".    *)
SlotsFreed == active = Cardinality(Served)

(* Every connection a client makes ends, answered or not: no thread waits  *)
(* for another, and neither the cap nor a lost slot blocks the loop.       *)
EveryConnectionEnds ==
    \A c \in Conn : (stage[c] = "waiting") ~> (stage[c] \in Ended)

(* The server implements the cap: a connection is admitted only into a     *)
(* free slot, and refused only when there is none, as decided at the first *)
(* step of acquire_slot.                                                   *)
Doomed == {c \in Conn : accepting = c /\ ~HasRoom}

Cap == INSTANCE AdmissionCap
           WITH open <- Served \ Doomed, turned <- Doomed, lost <- lost

ImplementsCap == Cap!Spec
=============================================================================
