--------------------------- MODULE UdpClientProofs ---------------------------
(* Theorems about UdpClient, for every value of its constants. *)
EXTENDS UdpClient, FiniteSetTheorems, TLAPS

(* The parts of the invariant.  Beyond TypeOK, an open socket has a message *)
(* handler, so an answer never lowers the number of leaked intervals, and   *)
(* an identifier, so what is sent is a message; and no handshake goes on    *)
(* while a stop is under way, so closing the socket cuts none off.          *)

Flags ==
  /\ stopping \in BOOLEAN /\ alive \in BOOLEAN /\ silent \in BOOLEAN
  /\ handshaking \in BOOLEAN /\ heartbeating \in BOOLEAN /\ checking \in BOOLEAN
  /\ stopping => ~handshaking

Counts ==
  /\ IsFiniteSet(handlers) /\ retries \in 0..MaxRetries /\ leaked \in 0..MaxLeaked
  /\ socket = "open" => handlers # {}

Names ==
  /\ clientID \in ClientIDs \cup {NoID} /\ drawn \subseteq ClientIDs
  /\ handlers \subseteq drawn
  /\ newServerPort \in Ports \cup {NoPort}
  /\ socket = "open" => clientID \in ClientIDs

Stages ==
  /\ socket \in {"none", "open", "closed"}
  /\ promise \in [ClientIDs -> {"none", "pending", "resolved", "rejected"}]

Inv ==
  /\ Flags /\ Counts /\ Names /\ Stages /\ sent \subseteq Message
  /\ HandshakeOwned /\ PortlessIsQuiet

\* The initial state satisfies the invariant.
LEMMA InitInv == Init => Inv
<1> SUFFICES ASSUME Init PROVE Inv
  OBVIOUS
<1>1. Flags
  BY DEF Init, Flags
<1>2. Counts
  BY ClientAssumption, FS_EmptySet DEF Init, Counts
<1>3. Names /\ Stages /\ sent \subseteq Message
  BY DEF Init, NoStart, Names, Stages
<1>4. HandshakeOwned /\ PortlessIsQuiet
  BY DEF Init, HandshakeOwned, PortlessIsQuiet
<1> QED
  BY <1>1, <1>2, <1>3, <1>4 DEF Inv

\* What the actions send are messages.
LEMMA Messages ==
  /\ CloseTag \in Message
  /\ \A c \in ClientIDs : HandshakeData(c) \in Message
  /\ \A c \in ClientIDs, p \in Ports, kind \in {"heartbeat", "data"} :
       [kind |-> kind, clientID |-> c, port |-> p] \in Message
BY DEF Message, CloseTag, HandshakeData

\* An exception changes only whether the process lives.
LEMMA ThrowsInv ==
  ASSUME Inv, Throws
  PROVE  Inv'
<1> USE DEF Throws, Inv, identity, peer, timers
<1>1. Flags' /\ Counts' /\ Names'
  BY DEF Flags, Counts, Names
<1>2. Stages' /\ sent' \subseteq Message
  BY DEF Stages
<1>3. HandshakeOwned' /\ PortlessIsQuiet'
  BY DEF HandshakeOwned, PortlessIsQuiet
<1> QED
  BY <1>1, <1>2, <1>3

\* A start on a new socket keeps the invariant.
LEMMA FreshInv ==
  ASSUME Inv, NEW c \in ClientIDs, StartFresh(c), ~stopping
  PROVE  Inv'
<1>1. Flags'
  BY DEF StartFresh, Draw, peer, Inv, Flags
<1>2. Counts'
  BY ClientAssumption, FS_Singleton DEF StartFresh, Draw, peer, Inv, Counts
<1>3. Names'
  BY DEF StartFresh, Draw, peer, Inv, Names
<1>4. Stages'
  BY DEF StartFresh, Draw, peer, Inv, Stages
<1>5. sent' \subseteq Message
  BY Messages DEF StartFresh, Draw, peer, Inv, Names
<1>6. HandshakeOwned'
  <2>1. socket' = "open" /\ handlers' = {c} /\ retries' = 0
    BY DEF StartFresh
  <2>2. promise'[c] = "pending"
    BY DEF StartFresh, Inv, Stages
  <2> QED
    BY <2>1, <2>2, ClientAssumption DEF HandshakeOwned
<1>7. PortlessIsQuiet'
  BY DEF StartFresh, Draw, peer, Inv, PortlessIsQuiet
<1> QED
  BY <1>1, <1>2, <1>3, <1>4, <1>5, <1>6, <1>7 DEF Inv

\* A start on a socket that is left over keeps the invariant.
LEMMA AgainInv ==
  ASSUME Inv, NEW c \in ClientIDs, StartAgain(c), ~stopping
  PROVE  Inv'
<1>1. Flags'
  BY DEF StartAgain, Draw, peer, Inv, Flags
<1>2. Counts'
  <2>1. IsFiniteSet(handlers')
    BY FS_AddElement DEF StartAgain, Inv, Counts
  <2> QED
    BY <2>1 DEF StartAgain, Draw, peer, Inv, Counts
<1>3. Names'
  BY DEF StartAgain, Draw, peer, Inv, Names
<1>4. Stages'
  BY DEF StartAgain, Draw, peer, Inv, Stages
<1>5. sent' \subseteq Message
  BY Messages DEF StartAgain, Draw, peer, Inv, Names
<1>6. HandshakeOwned'
  BY DEF StartAgain, Draw, peer, Inv, HandshakeOwned, Flags, Counts
<1>7. PortlessIsQuiet'
  BY DEF StartAgain, Draw, peer, Inv, PortlessIsQuiet
<1> QED
  BY <1>1, <1>2, <1>3, <1>4, <1>5, <1>6, <1>7 DEF Inv

\* A repeated handshake keeps the invariant.
LEMMA RetryInv ==
  ASSUME Inv, Retry
  PROVE  Inv'
<1>1. Flags'
  BY DEF Retry, identity, peer, Inv, Flags
<1>2. Counts'
  BY ClientAssumption DEF Retry, identity, peer, Inv, Counts, HandshakeOwned
<1>3. Names'
  BY DEF Retry, identity, peer, Inv, Names
<1>4. Stages'
  BY DEF Retry, identity, peer, Inv, Stages
<1>5. sent' \subseteq Message
  BY Messages DEF Retry, identity, peer, Inv, Names, HandshakeOwned
<1>6. HandshakeOwned'
  BY DEF Retry, identity, peer, Inv, HandshakeOwned, Flags, Counts
<1>7. PortlessIsQuiet'
  BY DEF Retry, identity, peer, Inv, PortlessIsQuiet
<1> QED
  BY <1>1, <1>2, <1>3, <1>4, <1>5, <1>6, <1>7 DEF Inv

\* The last firing of the interval settles the start and ends the repetition.
LEMMA GiveUpInv ==
  ASSUME Inv, GiveUp
  PROVE  Inv'
<1>1. Flags'
  BY DEF GiveUp, Settle, identity, peer, Inv, Flags
<1>2. Counts'
  BY ClientAssumption DEF GiveUp, Settle, identity, peer, Inv, Counts, HandshakeOwned
<1>3. Names'
  BY DEF GiveUp, Settle, identity, peer, Inv, Names
<1>4. Stages'
  BY DEF GiveUp, Settle, identity, peer, Inv, Stages
<1>5. sent' \subseteq Message
  BY Messages DEF GiveUp, Settle, identity, peer, Inv, Names, HandshakeOwned
<1>6. HandshakeOwned'
  BY DEF GiveUp, Settle, identity, peer, Inv, HandshakeOwned, Flags, Counts
<1>7. PortlessIsQuiet'
  BY DEF GiveUp, Settle, identity, peer, Inv, PortlessIsQuiet
<1> QED
  BY <1>1, <1>2, <1>3, <1>4, <1>5, <1>6, <1>7 DEF Inv

\* An answer keeps the invariant: it ends the repetition and brings a port.
LEMMA ResponseInv ==
  ASSUME Inv, NEW p \in Ports, ServerResponse(p)
  PROVE  Inv'
<1>1. Flags'
  BY DEF ServerResponse, Answered, Settle, identity, Inv, Flags
<1>2. Counts'
  <2>1. Cardinality(handlers) \in Nat \ {0}
    BY FS_CardinalityType, FS_EmptySet DEF ServerResponse, Inv, Counts
  <2>2. leaked' \in 0..MaxLeaked
    BY <2>1, ClientAssumption DEF ServerResponse, Inv, Counts
  <2> QED
    BY <2>2 DEF ServerResponse, Answered, Settle, identity, Inv, Counts
<1>3. Names'
  BY DEF ServerResponse, Answered, Settle, identity, Inv, Names
<1>4. Stages'
  BY DEF ServerResponse, Answered, Settle, identity, Inv, Stages
<1>5. sent' \subseteq Message
  BY Messages DEF ServerResponse, Answered, Settle, identity, Inv, Names
<1>6. HandshakeOwned'
  BY DEF ServerResponse, Answered, Settle, identity, Inv, HandshakeOwned, Flags, Counts
<1>7. PortlessIsQuiet'
  BY ClientAssumption DEF ServerResponse, Answered, Settle, identity, Inv, PortlessIsQuiet
<1> QED
  BY <1>1, <1>2, <1>3, <1>4, <1>5, <1>6, <1>7 DEF Inv

\* A close by the server keeps the invariant.
LEMMA ClosesInv ==
  ASSUME Inv, NEW kind \in {"inactivity", "server_full"}, ServerCloses(kind), ~Throws
  PROVE  Inv'
<1>1. Flags'
  BY DEF ServerCloses, Answered, Settle, identity, peer, Inv, Flags
<1>2. Counts'
  BY DEF ServerCloses, Answered, Settle, identity, peer, Inv, Counts
<1>3. Names'
  BY DEF ServerCloses, Answered, Settle, identity, peer, Inv, Names
<1>4. Stages'
  BY DEF ServerCloses, Answered, Settle, identity, peer, Inv, Stages
<1>5. sent' \subseteq Message
  BY Messages DEF ServerCloses, Answered, Settle, identity, peer, Inv, Names
<1>6. HandshakeOwned'
  BY DEF ServerCloses, Answered, Settle, identity, peer, Inv, HandshakeOwned, Flags, Counts
<1>7. PortlessIsQuiet'
  BY DEF ServerCloses, Answered, Settle, identity, peer, Inv, PortlessIsQuiet
<1> QED
  BY <1>1, <1>2, <1>3, <1>4, <1>5, <1>6, <1>7 DEF Inv

\* A packet from the local WireGuard keeps the invariant.
LEMMA LocalInv ==
  ASSUME Inv, FromLocalWG
  PROVE  Inv'
<1>1. Flags'
  BY DEF FromLocalWG, identity, peer, timers, Inv, Flags
<1>2. Counts'
  BY DEF FromLocalWG, identity, peer, timers, Inv, Counts
<1>3. Names'
  BY DEF FromLocalWG, identity, peer, timers, Inv, Names
<1>4. Stages'
  BY DEF FromLocalWG, identity, peer, timers, Inv, Stages
<1>5. sent' \subseteq Message
  BY Messages DEF FromLocalWG, identity, peer, timers, Inv, Names
<1>6. HandshakeOwned'
  BY DEF FromLocalWG, identity, peer, timers, Inv, HandshakeOwned, Flags, Counts
<1>7. PortlessIsQuiet'
  BY DEF FromLocalWG, identity, peer, timers, Inv, PortlessIsQuiet
<1> QED
  BY <1>1, <1>2, <1>3, <1>4, <1>5, <1>6, <1>7 DEF Inv

\* A packet from the session keeps the invariant.
LEMMA NewServerInv ==
  ASSUME Inv, NEW p \in Ports, NEW own \in BOOLEAN, FromNewServer(p, own), ~Throws
  PROVE  Inv'
<1>0. /\ socket = "open" /\ silent' = FALSE /\ sent' = {}
      /\ UNCHANGED <<identity, socket, handlers, stopping, promise, newServerPort,
                     timers, alive>>
  BY DEF FromNewServer
<1>1. Flags'
  BY <1>0 DEF identity, timers, Inv, Flags
<1>2. Counts'
  BY <1>0 DEF identity, timers, Inv, Counts
<1>3. Names'
  BY <1>0 DEF identity, timers, Inv, Names
<1>4. Stages'
  BY <1>0 DEF identity, timers, Inv, Stages
<1>5. sent' \subseteq Message
  BY <1>0, Messages DEF identity, timers, Inv, Names
<1>6. HandshakeOwned'
  BY <1>0 DEF identity, timers, Inv, HandshakeOwned, Flags, Counts
<1>7. PortlessIsQuiet'
  BY <1>0 DEF identity, timers, Inv, PortlessIsQuiet
<1> QED
  BY <1>1, <1>2, <1>3, <1>4, <1>5, <1>6, <1>7 DEF Inv

\* A heartbeat keeps the invariant.
LEMMA HeartBeatInv ==
  ASSUME Inv, HeartBeatInterval, ~Throws
  PROVE  Inv'
<1>1. Flags'
  BY DEF HeartBeatInterval, identity, peer, timers, Inv, Flags
<1>2. Counts'
  BY DEF HeartBeatInterval, identity, peer, timers, Inv, Counts
<1>3. Names'
  BY DEF HeartBeatInterval, identity, peer, timers, Inv, Names
<1>4. Stages'
  BY DEF HeartBeatInterval, identity, peer, timers, Inv, Stages
<1>5. sent' \subseteq Message
  <2>1. clientID \in ClientIDs /\ newServerPort \in Ports
    BY DEF HeartBeatInterval, Inv, Names
  <2>2. sent' = {[kind |-> "heartbeat", clientID |-> clientID, port |-> newServerPort]}
    BY DEF HeartBeatInterval
  <2> QED
    BY <2>1, <2>2, Messages
<1>6. HandshakeOwned'
  BY DEF HeartBeatInterval, identity, peer, timers, Inv, HandshakeOwned, Flags, Counts
<1>7. PortlessIsQuiet'
  BY DEF HeartBeatInterval, identity, peer, timers, Inv, PortlessIsQuiet
<1> QED
  BY <1>1, <1>2, <1>3, <1>4, <1>5, <1>6, <1>7 DEF Inv

\* checkInactivity keeps the invariant: it clears the heartbeat with the port.
LEMMA CheckInv ==
  ASSUME Inv, NEW c \in ClientIDs, CheckInactivity(c), ~Throws
  PROVE  Inv'
<1>1. Flags'
  BY DEF CheckInactivity, StopHeartbeat, Draw, Inv, Flags
<1>2. Counts'
  BY DEF CheckInactivity, StopHeartbeat, Draw, Inv, Counts
<1>3. Names'
  BY DEF CheckInactivity, StopHeartbeat, Draw, Inv, Names
<1>4. Stages'
  BY DEF CheckInactivity, StopHeartbeat, Draw, Inv, Stages
<1>5. sent' \subseteq Message
  <2>1. sent' = {HandshakeData(c)}
    BY DEF CheckInactivity
  <2> QED
    BY <2>1, Messages
<1>6. HandshakeOwned'
  BY DEF CheckInactivity, StopHeartbeat, Draw, Inv, HandshakeOwned, Flags, Counts
<1>7. PortlessIsQuiet'
  BY DEF CheckInactivity, StopHeartbeat, Draw, Inv, PortlessIsQuiet
<1> QED
  BY <1>1, <1>2, <1>3, <1>4, <1>5, <1>6, <1>7 DEF Inv

\* Time keeps the invariant.
LEMMA SilenceInv ==
  ASSUME Inv, Silence
  PROVE  Inv'
<1>1. Flags'
  BY DEF Silence, identity, timers, Inv, Flags
<1>2. Counts'
  BY DEF Silence, identity, timers, Inv, Counts
<1>3. Names'
  BY DEF Silence, identity, timers, Inv, Names
<1>4. Stages'
  BY DEF Silence, identity, timers, Inv, Stages
<1>5. sent' \subseteq Message
  BY Messages DEF Silence, identity, timers, Inv, Names
<1>6. HandshakeOwned'
  BY DEF Silence, identity, timers, Inv, HandshakeOwned, Flags, Counts
<1>7. PortlessIsQuiet'
  BY DEF Silence, identity, timers, Inv, PortlessIsQuiet
<1> QED
  BY <1>1, <1>2, <1>3, <1>4, <1>5, <1>6, <1>7 DEF Inv

\* stopUdpClient keeps the invariant.
LEMMA StopInv ==
  ASSUME Inv, StopUdpClient
  PROVE  Inv'
<1>1. Flags'
  BY DEF StopUdpClient, identity, peer, Inv, Flags
<1>2. Counts'
  BY FS_EmptySet DEF StopUdpClient, identity, peer, Inv, Counts
<1>3. Names'
  BY DEF StopUdpClient, identity, peer, Inv, Names
<1>4. Stages'
  BY DEF StopUdpClient, NoStart, identity, peer, Inv, Stages
<1>5. sent' \subseteq Message
  BY Messages DEF StopUdpClient, identity, peer, Inv, Names
<1>6. HandshakeOwned'
  BY DEF StopUdpClient, identity, peer, Inv, HandshakeOwned, Flags, Counts
<1>7. PortlessIsQuiet'
  BY DEF StopUdpClient, identity, peer, Inv, PortlessIsQuiet
<1> QED
  BY <1>1, <1>2, <1>3, <1>4, <1>5, <1>6, <1>7 DEF Inv

\* The callback of the close tag keeps the invariant.
LEMMA SentInv ==
  ASSUME Inv, NEW ok \in BOOLEAN, CloseTagSent(ok), ~Throws
  PROVE  Inv'
<1>1. Flags'
  BY DEF CloseTagSent, identity, peer, timers, Inv, Flags
<1>2. Counts'
  BY FS_EmptySet DEF CloseTagSent, identity, peer, timers, Inv, Counts
<1>3. Names'
  BY DEF CloseTagSent, identity, peer, timers, Inv, Names
<1>4. Stages'
  BY DEF CloseTagSent, NoStart, identity, peer, timers, Inv, Stages
<1>5. sent' \subseteq Message
  BY Messages DEF CloseTagSent, identity, peer, timers, Inv, Names
<1>6. HandshakeOwned'
  BY DEF CloseTagSent, identity, peer, timers, Inv, HandshakeOwned, Flags, Counts
<1>7. PortlessIsQuiet'
  BY DEF CloseTagSent, identity, peer, timers, Inv, PortlessIsQuiet
<1> QED
  BY <1>1, <1>2, <1>3, <1>4, <1>5, <1>6, <1>7 DEF Inv

\* Every step keeps the invariant.
LEMMA NextInv == Inv /\ [Next]_cvars => Inv'
<1> SUFFICES ASSUME Inv, [Next]_cvars PROVE Inv'
  OBVIOUS
<1>1. CASE Throws
  BY <1>1, ThrowsInv
<1>2. CASE ~Throws /\ Timers
  BY <1>2, RetryInv, GiveUpInv, HeartBeatInv, CheckInv, SilenceInv, SentInv, LocalInv
     DEF Timers, HandshakeInterval
<1>3. CASE Calls
  BY <1>3, FreshInv, AgainInv, StopInv DEF Calls, StartUdpClient
<1>4. CASE ~Throws /\ Datagrams
  BY <1>4, ResponseInv, NewServerInv, ClosesInv DEF Datagrams, Undecryptable
<1>5. CASE UNCHANGED cvars
  <2> USE <1>5 DEF cvars, identity, peer, timers, Inv
  <2>1. Flags' /\ Counts' /\ Names'
    BY DEF Flags, Counts, Names
  <2>2. Stages' /\ sent' \subseteq Message
    BY DEF Stages
  <2>3. HandshakeOwned' /\ PortlessIsQuiet'
    BY DEF HandshakeOwned, PortlessIsQuiet
  <2> QED
    BY <2>1, <2>2, <2>3
<1> QED
  BY <1>1, <1>2, <1>3, <1>4, <1>5 DEF Next

\* The invariant holds in every reachable state.
LEMMA Invariance == Spec => []Inv
BY InitInv, NextInv, PTL DEF Spec

\* Every reachable state is well typed.
THEOREM TypeCorrect == Spec => []TypeOK
<1>1. Inv => TypeOK
  BY DEF Inv, TypeOK, Flags, Counts, Names, Stages
<1> QED
  BY <1>1, Invariance, PTL

\* Whatever order timers, datagrams and calls come in, the handshake is only
\* repeated on an open socket, for a caller that waits, within MAX_RETRIES.
THEOREM HandshakeAlwaysOwned == Spec => []HandshakeOwned
<1>1. Inv => HandshakeOwned
  BY DEF Inv
<1> QED
  BY <1>1, Invariance, PTL

\* Without a session port the current heartbeat is off.
THEOREM PortlessAlwaysQuiet == Spec => []PortlessIsQuiet
<1>1. Inv => PortlessIsQuiet
  BY DEF Inv
<1> QED
  BY <1>1, Invariance, PTL
=============================================================================
