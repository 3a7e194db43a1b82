-------------------------- MODULE MCConnectionSlots --------------------------
(* Small instances of ConnectionSlots. *)
EXTENDS ConnectionSlots, TLC

Interchangeable == Permutations(Conn)
=============================================================================
