\* Two windows, two launches, one command closed at any point.
SPECIFICATION ControlSpec
CONSTANTS
  Commands = {c1, c2}
  NoOne = NoOne
  Pids = {p1, p2}
  MaxRuns = 2
  MaxCrashes = 1
  MaxSetups = 1
SYMMETRY Symmetry
INVARIANTS OneServer CopyOfStoppedWorld
PROPERTIES CleanMeansSaved
