SPECIFICATION Spec
CONSTANTS
  MaxRetries = 2
  MaxTimers = 2
  MaxChecks = 1
INVARIANTS TypeOK NotStranded
CHECK_DEADLOCK FALSE
PROPERTIES Settles Quiesces
