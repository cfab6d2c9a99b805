----------------------------- MODULE SafeRelease -----------------------------
(***************************************************************************)
(* What a user_events File promises about the kernel objects it owns,      *)
(* without locks, counters or condition variables: a registration's        *)
(* resources are given back only when nobody uses them, unregister before  *)
(* unmap, and the descriptor is closed last.                               *)
(***************************************************************************)
CONSTANTS Users, Items

VARIABLES
  held,       \* "none", "live", "unregistered" or "released", per item
  accepting,  \* new operations may start on the item
  using,      \* the users inside an operation, per item
  descOpen    \* the shared descriptor is open

vars == <<held, accepting, using, descOpen>>

Init ==
  /\ held = [i \in Items |-> "none"]
  /\ accepting = [i \in Items |-> FALSE]
  /\ using = [i \in Items |-> {}]
  /\ descOpen = TRUE

Create(i) ==
  /\ descOpen /\ held[i] = "none"
  /\ held' = [held EXCEPT ![i] = "live"]
  /\ accepting' = [accepting EXCEPT ![i] = TRUE]
  /\ UNCHANGED <<using, descOpen>>

Enter(u, i) ==
  /\ accepting[i]
  /\ \A j \in Items : u \notin using[j]
  /\ using' = [using EXCEPT ![i] = @ \cup {u}]
  /\ UNCHANGED <<held, accepting, descOpen>>

Leave(u, i) ==
  /\ u \in using[i]
  /\ using' = [using EXCEPT ![i] = @ \ {u}]
  /\ UNCHANGED <<held, accepting, descOpen>>

\* A close begins, or is given up because the kernel refused to unregister.
Refuse(i) ==
  /\ accepting[i]
  /\ accepting' = [accepting EXCEPT ![i] = FALSE]
  /\ UNCHANGED <<held, using, descOpen>>

Resume(i) ==
  /\ held[i] = "live" /\ using[i] = {}
  /\ accepting' = [accepting EXCEPT ![i] = TRUE]
  /\ UNCHANGED <<held, using, descOpen>>

Unregister(i) ==
  /\ held[i] = "live" /\ ~accepting[i] /\ using[i] = {}
  /\ held' = [held EXCEPT ![i] = "unregistered"]
  /\ UNCHANGED <<accepting, using, descOpen>>

Unmap(i) ==
  /\ held[i] = "unregistered"
  /\ held' = [held EXCEPT ![i] = "released"]
  /\ UNCHANGED <<accepting, using, descOpen>>

CloseDescriptor ==
  /\ descOpen
  /\ \A i \in Items : held[i] \in {"none", "released"}
  /\ descOpen' = FALSE
  /\ UNCHANGED <<held, accepting, using>>

Next ==
  \/ \E i \in Items : Create(i) \/ Refuse(i) \/ Resume(i) \/ Unregister(i) \/ Unmap(i)
  \/ \E u \in Users, i \in Items : Enter(u, i) \/ Leave(u, i)
  \/ CloseDescriptor

Spec == Init /\ [][Next]_vars
=============================================================================
