-------------------------- MODULE MCOutputReplace ---------------------------
(* Instances of OutputReplace for TLC. *)
EXTENDS OutputReplace, TLC

\* Enough edits for a rollback that races (Linux) or is exhausted (Windows).
MCMaxEdits == [linux |-> 2, windows |-> 3, other |-> 1]

MCThreeEdits == [linux |-> 3]

Symmetry == Permutations(Procs) \cup Permutations(Versions) \cup Permutations(Inodes)
=============================================================================
