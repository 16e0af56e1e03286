\* Two callers race on two events: a call that conflicts over one of them leaves
\* the other pending, and it still gets through.
CONSTANTS
  s1 = s1
  c1 = c1
  c2 = c2
  e1 = e1
  e2 = e2
  NoSession = NoSession
  Sessions = {s1}
  Destroyable = {}
  Clients = {c1, c2}
  EventIds = {e1, e2}
  Durations = {0}
  MaxTime = 0
SPECIFICATION FairSpec
PROPERTIES EventuallyDelivered
CHECK_DEADLOCK FALSE
