SPECIFICATION Spec
CONSTANTS
  Platforms = {"linux"}
  Procs = {p1, p2}
  Versions = {v1, v2}
  Inodes = {i1, i2, i3, i4}
  Absent = Absent
  RaceLimit = 2
  MaxEdits <- MCThreeEdits
  MaxFaults = 0
  MaxKills = 0
SYMMETRY Symmetry
INVARIANT LatestSurvives
CHECK_DEADLOCK FALSE
