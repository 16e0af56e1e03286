\* Two callers on two session names, one of which is used again after it is
\* destroyed.
CONSTANTS
  a = a
  b = b
  c1 = c1
  c2 = c2
  x1 = x1
  x2 = x2
  x3 = x3
  v1 = v1
  v2 = v2
  None = None
  Sessions = {a, b}
  Reusable = {b}
  Recording = {b}
  Clients = {c1, c2}
  SnapshotIds = {x1, x2, x3}
  States = {v1, v2}
SPECIFICATION Spec
SYMMETRY Symmetry
INVARIANTS TypeOK PointerOwned ForkCopiesState FailedForkCleansUp LineageSound
PROPERTIES Isolation
CHECK_DEADLOCK FALSE
