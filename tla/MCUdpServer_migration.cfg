SPECIFICATION Spec
CONSTANTS
  c1 = c1
  r1 = r1
  r2 = r2
  p1 = p1
  ClientIDs = {c1}
  Remotes = {r1, r2}
  Ports = {p1}
  NoPort = NoPort
  NoUser = NoUser
  Users = {NoUser}
  quic = quic
  Templates = {quic}
  HeaderID <- MCHeaderID
  Timeout = 2
  TimerSlack = 0
  PacketLengths = {1}
  MaxBytes = 1
  MaxRestarts = 0
PROPERTIES UplinkMigrates
CHECK_DEADLOCK FALSE
