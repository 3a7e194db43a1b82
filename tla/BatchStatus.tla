----------------------------- MODULE BatchStatus -----------------------------
(***************************************************************************)
(* What the web client is told of an upload batch.  Nothing of it is       *)
(* stored: batch_json (http/upload_batches.rs) derives the status from the *)
(* jobs that are left, whenever it is asked, while requests, the worker    *)
(* and the maintenance of JobQueue go on changing and deleting them.       *)
(***************************************************************************)
EXTENDS JobQueue

(* upload_batch_jobs is one query, so the answer is of one moment.         *)
JobsOf(b) == {j \in Jobs : jobs[j].slot # None /\ jobs[j].slot.batch = b}

JobsIn(b, statuses) == {j \in JobsOf(b) : jobs[j].status \in statuses}

(* submitted_count *)
Submitted(b) == Cardinality(JobsOf(b))

BatchState(b) ==
    CASE JobsIn(b, Open) # {} -> "processing"
      [] JobsOf(b) = {} -> "pending"
      [] JobsIn(b, Open) = {} /\ JobsOf(b) # {} ->
           IF \/ Submitted(b) < batches[b].size
              \/ JobsIn(b, {"failed", "expired", "cancelled"}) # {}
           THEN "partial" ELSE "complete"

Reads(b, state) == batches[b] # None /\ BatchState(b) = state

-----------------------------------------------------------------------------
(* Properties *)

(* "complete" is said of a batch only when each of its items has a job and *)
(* that job succeeded, although the code only compares two counts and      *)
(* looks for failures: no item may have two jobs, whatever is submitted    *)
(* again, retried, cancelled or pruned in between.                         *)
CompleteMeansEveryItem ==
    \A b \in Batch : Reads(b, "complete") =>
        \A i \in 0 .. batches[b].size - 1 :
            \E j \in JobsOf(b) : jobs[j].slot.index = i /\ jobs[j].status = "success"

(* A batch that was complete is never seen at work, cancelled or failed    *)
(* again: no retry, late cancel, restart or lost update reopens an item    *)
(* that succeeded.  The one thing that takes the status back is pruning.   *)
CompleteUndoneByPruning ==
    [][\A b \in Batch : Reads(b, "complete") /\ ~Reads(b, "complete")' =>
           JobsOf(b)' \subseteq JobsOf(b) /\ Submitted(b)' < Submitted(b)]_vars

-----------------------------------------------------------------------------
(* What the repository says, and the code does not keep *)

(* account.js:1065, shown when submitted_count is below expected_count:    *)
(* "Some selected photos did not reach the server.  Select those photos    *)
(* again to submit them."  Once all have reached it, it is not said again. *)
AllReachedTheServer ==
    [][\A b \in Batch : batches[b] # None /\ Submitted(b) = batches[b].size =>
           Submitted(b)' = batches[b].size]_vars
=============================================================================
