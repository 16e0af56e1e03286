\* One command at a time and nothing fails: a replay still leaves a run running.
CONSTANTS
  p1 = p1
  b1 = b1
  Commands = {p1}
  Sessions = {"s1"}
  Baselines = {b1}
  Faults = FALSE
  MaxRuns = 2
  MaxCapture = 1
SPECIFICATION Spec
INVARIANTS NoRunLeftRunning
CHECK_DEADLOCK FALSE
