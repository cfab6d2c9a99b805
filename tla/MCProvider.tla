----------------------------- MODULE MCProvider -----------------------------
(* Instances of Provider for TLC. *)
EXTENDS Provider, TLC

CONSTANTS u1, u2, u3 \* the three goroutines

\* A writer in flight, and Close calls of three kinds that may overlap: a user's
\* EventSet.Close, Provider.EventSet that replaces a closed set, Provider.Close.
MCCalls ==
  (u1 :> {"generated", "write", "bind"}) @@ (u2 :> {"event", "user"}) @@ (u3 :> {"event", "close"})

Symmetry == Permutations(Keys) \cup Permutations(Sets)
=============================================================================
