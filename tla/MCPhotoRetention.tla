-------------------------- MODULE MCPhotoRetention --------------------------
(***************************************************************************)
(* PhotoRetention for TLC.                                                 *)
(***************************************************************************)
EXTENDS PhotoRetention, TLC

Symmetric == Permutations(User) \cup Permutations(Estimate)
             \cup Permutations(Photo) \cup Permutations(Thread)
=============================================================================
