SPECIFICATION Spec
CONSTANTS
  c1 = c1
  c2 = c2
  r1 = r1
  r2 = r2
  p1 = p1
  p2 = p2
  alice = alice
  ClientIDs = {c1, c2}
  Remotes = {r1, r2}
  Ports = {p1, p2}
  NoPort = NoPort
  NoUser = NoUser
  Users = {NoUser, alice}
  quic = quic
  Templates = {quic}
  HeaderID <- MCHeaderID
  Timeout = 2
  TimerSlack = 0
  PacketLengths = {1}
  MaxBytes = 1
  MaxRestarts = 1
SYMMETRY Symmetry
INVARIANTS TypeOK IndexesAgree SocketsAgree BindsAgree OrderAgrees IdleBounded ClientNumAgrees TrafficConserved
PROPERTIES RepliesUsable
CHECK_DEADLOCK FALSE
