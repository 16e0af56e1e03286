\* One simulator, called in order: an intent whose payment method is attached
\* to another customer than its own.
CONSTANTS
  i1 = i1
  i2 = i2
  Simulators = {i1}
  Amounts = {1, 2}
  Restorable = FALSE
  MaxCustomers = 2
  MaxMethods = 1
  MaxIntents = 1
  MaxRefunds = 2
  MaxSnapshots = 3
  Seeds <- Fresh
SPECIFICATION Spec
SYMMETRY Symmetry
INVARIANTS IntentCustomerOwnsMethod
CHECK_DEADLOCK FALSE
