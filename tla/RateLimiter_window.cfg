SPECIFICATION Spec
CONSTANTS
  a = a
  b = b
  Keys = {a, b}
  MaxRequests = 2
  WindowMs = 2
  NoEnd = NoEnd
  MaxTime = 4
  MaxResets = 1
INVARIANTS TypeOK TwoWindowsAtMost
PROPERTIES ImplementsWindow
CHECK_DEADLOCK FALSE
