SPECIFICATION Spec
CONSTANTS
  SequenceModulus = 2
  Handshakes = {1, 2, 3, 4, 5, 6}
  Proposed <- MCProposed
  WireGuard <- MCWireGuard
  RandomBytes <- MCRandomBytes
  Paddings <- MCPaddings
  NoiseOf <- MCNoise
  ReceiveBuffer = 32
  MaxSessions = 2
  MaxInFlight = 1
INVARIANTS TypeOK ArrivesAsSent HeaderRecognised
CHECK_DEADLOCK FALSE
