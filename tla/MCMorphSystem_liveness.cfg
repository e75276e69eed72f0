SPECIFICATION Spec
CONSTANTS
  c1 = c1
  c2 = c2
  r1 = r1
  r2 = r2
  p1 = p1
  p2 = p2
  ClientIDs = {c1, c2}
  NoID = NoID
  Ports = {p1}
  NoPort = NoPort
  MaxRetries = 1
  MaxLeaked = 1
  Remotes = {r1}
  NoUser = NoUser
  Users = {NoUser}
  quic = quic
  Templates = {quic}
  HeaderID <- MCHeaderID
  Timeout = 2
  TimerSlack = 0
  PacketLengths = {1}
  MaxBytes = 1
  MaxRestarts = 1
  MaxInFlight = 2
PROPERTIES AbandonedExpires LossNoticed
CHECK_DEADLOCK FALSE
