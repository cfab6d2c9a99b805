SPECIFICATION FairSpec
CONSTANTS
  u1 = u1
  u2 = u2
  u3 = u3
  Users = {u1, u2, u3}
  Calls <- MCCalls
  Keys = {k1}
  Sets = {s1}
  OwnFile = FALSE
  MaxFaults = 1
  None = None
PROPERTY CallsReturn
CHECK_DEADLOCK FALSE
