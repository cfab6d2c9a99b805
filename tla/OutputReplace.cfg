SPECIFICATION Spec
CONSTANTS
  Platforms = {"linux", "windows", "other"}
  Procs = {p1, p2}
  Versions = {v1, v2}
  Inodes = {i1, i2, i3, i4}
  Absent = Absent
  RaceLimit = 2
  MaxEdits <- MCMaxEdits
  MaxFaults = 1
  MaxKills = 1
SYMMETRY Symmetry
INVARIANTS LatestSurvives RolledBack NoFalseAlarm ExhaustedByRaces
CHECK_DEADLOCK FALSE
