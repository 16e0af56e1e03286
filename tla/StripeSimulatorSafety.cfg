\* Two simulators race on one session, whose snapshots may be restored.
CONSTANTS
  i1 = i1
  i2 = i2
  Simulators = {i1, i2}
  Amounts = {1, 2}
  Restorable = TRUE
  MaxCustomers = 2
  MaxMethods = 1
  MaxIntents = 1
  MaxRefunds = 3
  MaxSnapshots = 3
  Seeds <- AllSeeds
SPECIFICATION Spec
SYMMETRY Symmetry
INVARIANTS TypeOK RefundsAddUp IntentsConsistent TerminalIsFinal WebhookOnce WebhookTruthful
CHECK_DEADLOCK FALSE
