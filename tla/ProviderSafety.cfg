SPECIFICATION Spec
CONSTANTS
  u1 = u1
  u2 = u2
  u3 = u3
  Users = {u1, u2, u3}
  Calls <- MCCalls
  Keys = {k1, k2}
  Sets = {s1, s2}
  OwnFile = TRUE
  MaxFaults = 1
  None = None
SYMMETRY Symmetry
INVARIANTS NoLeak CloseComplete SharedSet HonestErrors
CHECK_DEADLOCK FALSE
