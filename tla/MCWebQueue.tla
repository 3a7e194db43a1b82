------------------------------ MODULE MCWebQueue ------------------------------
(* Small instances of WebQueue.  Batches, presses, links and the photos     *)
(* that are not too large are interchangeable.  The form links every photo  *)
(* to the same animal, or none to any.                                      *)
EXTENDS WebQueue, TLC

MCLinks == {[p \in Photo |-> link] : link \in Link}

Interchangeable ==
    Permutations(Batch) \cup Permutations(Click) \cup Permutations(Link)
        \cup Permutations(Photo \ Large)

(* Bounds: the button is not pressed once all batches are used up, and the  *)
(* user changes the form during a run, but not the selection.               *)
PressWithBatch ==
    batches = Batch => \A c \in Click : clicks'[c] # None => clicks[c] # None
SelectionLeft == ~Idle /\ clicks' = clicks => UNCHANGED selection
=============================================================================
