---------------------------- MODULE KeyedHistory ----------------------------
(***************************************************************************)
(* What an idempotency key promises its caller, without requests, workers  *)
(* or a database: a result is saved under a name (a user's key) only while *)
(* there is none, so that as long as it is not deleted every request with  *)
(* that name gets this result and no other.                                *)
(***************************************************************************)

CONSTANTS
    Name,           \* what results are saved under
    Row             \* the results

VARIABLE named      \* named[n]: the rows saved under n

Init == named = [n \in Name |-> {}]

(* The insert behind the unique index. *)
Save(n, r) ==
    /\ named[n] = {}
    /\ named' = [named EXCEPT ![n] = {r}]

(* The owner deletes a row, or the account with all of them. *)
Forget ==
    /\ named' \in [Name -> SUBSET Row]
    /\ \A n \in Name : named'[n] \subseteq named[n]

Next == Forget \/ \E n \in Name, r \in Row : Save(n, r)

Spec == Init /\ [][Next]_named
=============================================================================
