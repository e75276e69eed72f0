SPECIFICATION Spec
CONSTANTS
  Half = 3
  MaxAge = 1
  Skews = {0, 1}
  MaxSent = 5
  MaxTime = 2
  MaxInFlight = 2
INVARIANTS TypeOK FreshAccepted TakenInOrder
CHECK_DEADLOCK FALSE
