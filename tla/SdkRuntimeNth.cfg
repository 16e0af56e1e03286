\* Two threads make calls that a rule for the second call counts.
CONSTANTS
  t1 = t1
  t2 = t2
  Threads = {t1, t2}
  Tools = {"outer", "inner"}
  Live = {"outer"}
  Requests = {"exact", "other"}
  Streamed = {"other"}
  Keys = {"both", "one", "another"}
  Tried <- Keyed
  Score <- Near2
  Operation <- Labels
  Rules <- SecondOuter
  Seeds <- Recorded
  MaxNumber = 3
  MaxCalls = 3
  MaxOpen = 1
SPECIFICATION Spec
INVARIANTS NthCallInjected
CHECK_DEADLOCK FALSE
