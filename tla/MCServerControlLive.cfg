\* Two windows and one launch: every wait has its deadline.
SPECIFICATION ControlFairSpec
CONSTANTS
  Commands = {c1, c2}
  NoOne = NoOne
  Pids = {p1, p2}
  MaxRuns = 1
  MaxCrashes = 1
  MaxSetups = 1
PROPERTIES LockIsReleased RequestIsHonoured
