----------------------------- MODULE MCJobQueue -----------------------------
(* Small instances of JobQueue. *)
EXTENDS JobQueue, TLC

CONSTANTS Doublings     \* the code's cap on the exponent of the backoff

(* (60 << min(attempts, 6)).min(3600) in minutes, a tick being a minute.   *)
MinOf(a, b) == IF a < b THEN a ELSE b
MCBackoff == [n \in 0 .. MaxAttempts - 1 |-> MinOf(2 ^ MinOf(n, Doublings), 60)]

Interchangeable ==
    Permutations(Job) \cup Permutations(Row) \cup Permutations(Handler)
=============================================================================
