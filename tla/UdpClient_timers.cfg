SPECIFICATION Spec
CONSTANTS
  c1 = c1
  c2 = c2
  c3 = c3
  p1 = p1
  p2 = p2
  ClientIDs = {c1, c2, c3}
  NoID = NoID
  Ports = {p1, p2}
  NoPort = NoPort
  MaxRetries = 2
  MaxLeaked = 2
INVARIANTS TypeOK HandshakeOwned PortlessIsQuiet
PROPERTIES StartSettles
CHECK_DEADLOCK FALSE
