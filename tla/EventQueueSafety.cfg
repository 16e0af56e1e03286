\* Two callers race on two events of two sessions, one of which may be destroyed
\* and created again at any point of a call.
CONSTANTS
  s1 = s1
  s2 = s2
  c1 = c1
  c2 = c2
  e1 = e1
  e2 = e2
  NoSession = NoSession
  Sessions = {s1, s2}
  Destroyable = {s1}
  Clients = {c1, c2}
  EventIds = {e1, e2}
  Durations <- Steps
  MaxTime = 1
SPECIFICATION Spec
SYMMETRY Symmetry
INVARIANTS TypeOK AtMostOnce NoSilentDelivery DeliveredWhenDue
PROPERTIES DeliveredIsFinal ImplementsContract
CHECK_DEADLOCK FALSE
