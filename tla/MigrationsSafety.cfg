\* Three processes, one of an older build, open one new database again and
\* again, with two faults.
CONSTANTS
  p1 = p1
  p2 = p2
  p3 = p3
  Processes = {p1, p2, p3}
  Count = 6
  Knows <- MCKnows
  Needs <- MCNeeds
  MaxFaults = 2
SPECIFICATION FairSpec
INVARIANTS TypeOK SchemaAsListed ReadyIsCurrent
PROPERTIES EventuallyOpen
