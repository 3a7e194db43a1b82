---------------------------- MODULE JobLifecycle ----------------------------
(***************************************************************************)
(* What the job queue promises its callers, without attempts, clocks,      *)
(* handlers or a database: every accepted job is in one stage of the       *)
(* documented lifecycle, and a job reaches success or failure only from a  *)
(* run that was started for it.                                            *)
(*                                                                         *)
(*   absent -> waiting -> running -> done | stopped -> absent              *)
(*                                                                         *)
(* A running job may go back to waiting (a transient failure, a restart),  *)
(* a waiting job may be stopped (cancelled, expired), and a stopped job    *)
(* may be reopened by its owner.  A job that is done is never reopened.    *)
(***************************************************************************)

CONSTANT Job            \* the job ids

VARIABLE stage          \* stage[j] is where job j is in its life

Stage == {"absent", "waiting", "running", "done", "stopped"}

TypeOK == stage \in [Job -> Stage]

Init == stage = [j \in Job |-> "absent"]

-----------------------------------------------------------------------------

(* Move job j, and no other, from one stage to another. *)
Move(j, from, to) ==
    /\ stage[j] = from
    /\ stage' = [stage EXCEPT ![j] = to]

Submit(j)   == Move(j, "absent", "waiting")
Start(j)    == Move(j, "waiting", "running")

Succeed(j)  == Move(j, "running", "done")
Fail(j)     == Move(j, "running", "stopped")
GiveBack(j) == Move(j, "running", "waiting")
Reopen(j)   == Move(j, "stopped", "waiting")

(* A restart puts every interrupted job back. *)
Recover ==
    stage' = [j \in Job |-> IF stage[j] = "running" THEN "waiting"
                                                   ELSE stage[j]]

(* Cancelling a batch, expiry and pruning act on many jobs in one step. *)
Tidy ==
    /\ stage' \in [Job -> Stage]
    /\ \A j \in Job :
          \/ stage'[j] = stage[j]
          \/ stage[j] = "waiting" /\ stage'[j] = "stopped"
          \/ stage[j] \in {"done", "stopped"} /\ stage'[j] = "absent"

Next ==
    \/ Tidy
    \/ Recover
    \/ \E j \in Job : \/ Submit(j)
                      \/ Start(j)
                      \/ Succeed(j)
                      \/ Fail(j)
                      \/ GiveBack(j)
                      \/ Reopen(j)

Spec == Init /\ [][Next]_stage
=============================================================================
