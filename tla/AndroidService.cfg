SPECIFICATION Spec
CONSTANTS
  MaxCalls = 3
  MaxAnswers = 2
INVARIANTS TypeOK OneClient Disconnectable
PROPERTIES ConnectSettles
CHECK_DEADLOCK FALSE
