---------------------------- MODULE MCUserEvents ----------------------------
(* Instances of UserEvents for TLC. *)
EXTENDS UserEvents, TLC

Symmetry == Permutations(Writers) \cup Permutations(Owners) \cup Permutations(Regs)
=============================================================================
