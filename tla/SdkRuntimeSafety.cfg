\* Two threads record or replay tools and HTTP calls, injected errors included.
CONSTANTS
  t1 = t1
  t2 = t2
  Threads = {t1, t2}
  Tools = {"outer", "inner"}
  Live = {"outer"}
  Requests = {"exact", "other"}
  Streamed = {"other"}
  Keys = {"both", "one", "another"}
  Tried <- Keyed
  Score <- Near2
  Operation <- Labels
  Rules <- SecondOuter
  Seeds <- Recorded
  MaxNumber = 3
  MaxCalls = 4
  MaxOpen = 1
SPECIFICATION Spec
SYMMETRY Symmetry
INVARIANTS TypeOK OneOwner Importable ReplayedOnce InRecordedOrder NthUnlessRaced
CHECK_DEADLOCK FALSE
