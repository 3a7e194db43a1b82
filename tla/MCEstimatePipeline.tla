------------------------- MODULE MCEstimatePipeline -------------------------
(* Small instances of EstimatePipeline. *)
EXTENDS EstimatePipeline, TLC

Interchangeable ==
    Permutations(User) \cup Permutations(Thread) \cup Permutations(Key)
=============================================================================
