\* Two commands record, replay, promote and delete runs of two sessions; either
\* may die or fail at any point.
CONSTANTS
  p1 = p1
  p2 = p2
  b1 = b1
  Commands = {p1, p2}
  Sessions = {"s1", "s2"}
  Baselines = {b1}
  Faults = TRUE
  MaxRuns = 2
  MaxCapture = 2
SPECIFICATION Spec
SYMMETRY Symmetry
INVARIANTS TypeOK OneSalt CompleteIsWhole ReplaysWholeRun BaselineComplete
PROPERTIES OneWay
CHECK_DEADLOCK FALSE
