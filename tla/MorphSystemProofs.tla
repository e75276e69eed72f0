-------------------------- MODULE MorphSystemProofs --------------------------
(***************************************************************************)
(* Theorems about MorphSystem, for every value of its constants: each side *)
(* of the composed system runs as its own module says, so what was proved  *)
(* of the client and of the server alone holds when they run together.     *)
(***************************************************************************)
EXTENDS MorphSystem, TLAPS

ServerAlone == INSTANCE UdpServerProofs
ClientAlone == INSTANCE UdpClientProofs

-----------------------------------------------------------------------------
(* The server's side. *)

\* A delivery to the server is one of its handlers.
LEMMA ServerDelivery ==
  ASSUME DeliverToServer
  PROVE  Server!Next
<1>1. PICK m \in network \cap ToServer :
        \/ \E t \in Templates, u \in Users : Asked(m, t, u)
        \/ Closed(m) \/ Unreadable(m) \/ Tunnelled(m)
  BY DEF DeliverToServer
<1>2. m.from \in Remotes /\ m.msg \in Client!Message
  BY <1>1 DEF ToServer
<1>3. /\ m.msg.kind = "handshake" => m.msg.clientID \in ClientIDs
      /\ m.msg.kind \in {"heartbeat", "data"} => m.msg.port \in Ports
  BY <1>2 DEF Client!Message
<1>4. CASE \E t \in Templates, u \in Users : Asked(m, t, u)
  BY <1>2, <1>3, <1>4 DEF Asked, ServerStep, Server!Next, Server!Serve
<1>5. CASE Closed(m)
  BY <1>2, <1>5 DEF Closed, ServerStep, Server!Next, Server!Serve
<1>6. CASE Unreadable(m)
  BY <1>6 DEF Unreadable, ServerStep, Server!Next, Server!Serve
<1>7. CASE Tunnelled(m)
  <2>1. running /\ Server!FromClient(m.msg.port, m.from, m.msg.kind = "data")
    BY <1>7 DEF Tunnelled, ServerStep
  <2>2. m.msg.port \in Ports /\ (m.msg.kind = "data") \in BOOLEAN
    BY <1>3, <1>7 DEF Tunnelled
  <2> QED
    BY <1>2, <2>1, <2>2 DEF Server!Next, Server!Serve
<1> QED
  BY <1>1, <1>4, <1>5, <1>6, <1>7

\* Every step of the system is one of the server, or leaves it alone.
LEMMA StepOfServer == [Next]_vars => [Server!Next]_svars
<1> SUFFICES ASSUME [Next]_vars PROVE [Server!Next]_svars
  OBVIOUS
<1>1. CASE \E c \in ClientIDs, r \in Remotes : Starts(c, r)
  BY <1>1 DEF Starts
<1>2. CASE ClientActs
  BY <1>2 DEF ClientActs, ClientStep
<1>3. CASE DeliverToClient
  BY <1>3 DEF DeliverToClient, ToldPort, ToldInactive, Garbled, Relayed, ClientStep
<1>4. CASE DeliverToServer
  BY <1>4, ServerDelivery
<1>5. CASE Binds
  BY <1>5 DEF Binds, ServerStep, Server!Next, Server!Serve
<1>6. CASE LocalWireGuard
  BY <1>6 DEF LocalWireGuard, ServerStep, Server!Next, Server!Serve
<1>7. CASE ServerIntervals
  BY <1>7 DEF ServerIntervals, ServerStep, Server!Next, Server!Serve
<1>8. CASE TenMinutesPass
  BY <1>8 DEF TenMinutesPass, ServerStep, Server!Next, Server!Serve
<1>9. CASE ServerExits \/ ServerRestarts
  BY <1>9 DEF ServerExits, ServerRestarts, ServerStep, Server!Next
<1>10. CASE Lose \/ \E r \in Remotes : Rebind(r)
  BY <1>10 DEF Lose, Rebind
<1>11. CASE UNCHANGED vars
  BY <1>11 DEF vars
<1> QED
  BY <1>1, <1>2, <1>3, <1>4, <1>5, <1>6, <1>7, <1>8, <1>9, <1>10, <1>11 DEF Next

\* The server of the composed system runs as UdpServer says.
THEOREM ServerInSystem == SafetySpec => Server!Init /\ [][Server!Next]_svars
<1>1. Init => Server!Init
  BY DEF Init
<1> QED
  BY <1>1, StepOfServer, PTL DEF SafetySpec

-----------------------------------------------------------------------------
(* The server of UdpServerProofs is the server of MorphSystem: two          *)
(* instances of the same module with the same parameters.                  *)

LEMMA SameServerStep == Server!Next <=> ServerAlone!Next
<1> USE DEF Server!tables, ServerAlone!tables, Server!ledger, ServerAlone!ledger,
            Server!process, ServerAlone!process, Server!NoLedgerEntry,
            ServerAlone!NoLedgerEntry, Server!Active, ServerAlone!Active
<1>1. \A f, K : Server!Without(f, K) = ServerAlone!Without(f, K)
  BY DEF Server!Without, ServerAlone!Without, Server!Restrict, ServerAlone!Restrict
<1>2. \A S : Server!Cardinality(S) = ServerAlone!Cardinality(S)
  BY DEF Server!Cardinality, ServerAlone!Cardinality
<1>3. \A S : Server!Report(S) <=> ServerAlone!Report(S)
  BY DEF Server!Report, ServerAlone!Report, Server!Unreported, ServerAlone!Unreported,
         Server!Accounts, ServerAlone!Accounts
<1>4. \A S : Server!EndSessions(S) <=> ServerAlone!EndSessions(S)
  BY <1>1, <1>2, <1>3 DEF Server!EndSessions, ServerAlone!EndSessions,
     Server!CloseSockets, ServerAlone!CloseSockets, Server!Forget, ServerAlone!Forget,
     Server!IpKey, ServerAlone!IpKey
<1>5. \A c, r, t, u : Server!Handshake(c, r, t, u) <=> ServerAlone!Handshake(c, r, t, u)
  <2>1. \A c, r : Server!Reindexed(c, r) = ServerAlone!Reindexed(c, r)
    BY <1>1 DEF Server!Reindexed, ServerAlone!Reindexed, Server!Put, ServerAlone!Put,
       Server!IpKey, ServerAlone!IpKey
  <2>2. \A c, r : Server!Reconnect(c, r) <=> ServerAlone!Reconnect(c, r)
    BY <2>1 DEF Server!Reconnect, ServerAlone!Reconnect
  <2>3. \A c, r, t, u : Server!NewSession(c, r, t, u) <=> ServerAlone!NewSession(c, r, t, u)
    BY DEF Server!NewSession, ServerAlone!NewSession, Server!Put, ServerAlone!Put
  <2> QED
    BY <2>2, <2>3 DEF Server!Handshake, ServerAlone!Handshake
<1>6. \A r : Server!HandleCloseMessage(r) <=> ServerAlone!HandleCloseMessage(r)
  BY <1>4 DEF Server!HandleCloseMessage, ServerAlone!HandleCloseMessage,
     Server!FirstAt, ServerAlone!FirstAt
<1>7. /\ \A b, p : Server!Listening(b, p) <=> ServerAlone!Listening(b, p)
      /\ \A b : Server!BindFails(b) <=> ServerAlone!BindFails(b)
  BY DEF Server!Listening, ServerAlone!Listening, Server!BindFails, ServerAlone!BindFails,
     Server!Put, ServerAlone!Put
<1>8. /\ \A p, n : Server!FromWireGuard(p, n) <=> ServerAlone!FromWireGuard(p, n)
      /\ \A p, r, f : Server!FromClient(p, r, f) <=> ServerAlone!FromClient(p, r, f)
  <2>1. \A p, n : Server!FromWireGuard(p, n) <=> ServerAlone!FromWireGuard(p, n)
    BY DEF Server!FromWireGuard, ServerAlone!FromWireGuard
  <2>2. \A p, r, f : Server!FromClient(p, r, f) <=> ServerAlone!FromClient(p, r, f)
    BY DEF Server!FromClient, ServerAlone!FromClient
  <2> QED
    BY <2>1, <2>2
<1>9. /\ Server!Ignored <=> ServerAlone!Ignored
      /\ Server!TrafficInterval <=> ServerAlone!TrafficInterval
  BY <1>3 DEF Server!Ignored, ServerAlone!Ignored,
     Server!TrafficInterval, ServerAlone!TrafficInterval
<1>10. /\ Server!InactivityInterval <=> ServerAlone!InactivityInterval
       /\ Server!Tick <=> ServerAlone!Tick
  BY <1>4 DEF Server!InactivityInterval, ServerAlone!InactivityInterval,
     Server!Expired, ServerAlone!Expired, Server!CheckInterval, ServerAlone!CheckInterval,
     Server!Tick, ServerAlone!Tick
<1>11. /\ Server!Exit <=> ServerAlone!Exit
       /\ Server!Restart <=> ServerAlone!Restart
  BY <1>2 DEF Server!Exit, ServerAlone!Exit, Server!Restart, ServerAlone!Restart,
     Server!Unreported, ServerAlone!Unreported, Server!Accounts, ServerAlone!Accounts,
     Server!EmptyMap, ServerAlone!EmptyMap
<1> QED
  BY <1>5, <1>6, <1>7, <1>8, <1>9, <1>10, <1>11
     DEF Server!Next, ServerAlone!Next, Server!Serve, ServerAlone!Serve

LEMMA ServerAloneInSystem == SafetySpec => ServerAlone!Spec
<1>1. Server!Init => ServerAlone!Init
  BY DEF Server!Init, ServerAlone!Init, Server!EmptyMap, ServerAlone!EmptyMap,
     Server!Accounts, ServerAlone!Accounts
<1>2. [Server!Next]_svars => [ServerAlone!Next]_(ServerAlone!vars)
  BY SameServerStep DEF svars, ServerAlone!vars, ServerAlone!tables, ServerAlone!ledger,
     ServerAlone!process
<1> QED
  BY <1>1, <1>2, ServerInSystem, PTL DEF ServerAlone!Spec

\* Every session has the fields of its type, and the clock of the check is a number.
Sessions ==
  activeSessions \in [DOMAIN activeSessions -> ServerAlone!Session] /\ sinceCheck \in Nat

LEMMA SessionsTyped == SafetySpec => []Sessions
<1>1. ServerAlone!Spec => []ServerAlone!TypeOK
  BY ServerAlone!TypeCorrect, SystemAssumption
<1>2. ServerAlone!TypeOK => Sessions
  BY DEF ServerAlone!TypeOK, ServerAlone!IsMap, Sessions
<1> QED
  BY <1>1, <1>2, ServerAloneInSystem, PTL

\* Likewise the client.
LEMMA SameClientStep == Client!Next <=> ClientAlone!Next
<1> USE DEF Client!timers, ClientAlone!timers, Client!identity, ClientAlone!identity,
            Client!peer, ClientAlone!peer, Client!Throws, ClientAlone!Throws,
            Client!Draw, ClientAlone!Draw, Client!Settle, ClientAlone!Settle,
            Client!NoStart, ClientAlone!NoStart,
            Client!HandshakeData, ClientAlone!HandshakeData, Client!CloseTag,
            ClientAlone!CloseTag
<1>1. Client!HandshakeInterval <=> ClientAlone!HandshakeInterval
  BY DEF Client!HandshakeInterval, ClientAlone!HandshakeInterval, Client!Retry,
     ClientAlone!Retry, Client!GiveUp, ClientAlone!GiveUp
<1>2. /\ Client!HeartBeatInterval <=> ClientAlone!HeartBeatInterval
      /\ Client!Silence <=> ClientAlone!Silence
      /\ Client!FromLocalWG <=> ClientAlone!FromLocalWG
  BY DEF Client!HeartBeatInterval, ClientAlone!HeartBeatInterval, Client!Silence,
     ClientAlone!Silence, Client!FromLocalWG, ClientAlone!FromLocalWG
<1>3. \A c : Client!CheckInactivity(c) <=> ClientAlone!CheckInactivity(c)
  BY DEF Client!CheckInactivity, ClientAlone!CheckInactivity, Client!StopHeartbeat,
     ClientAlone!StopHeartbeat
<1>4. \A ok : Client!CloseTagSent(ok) <=> ClientAlone!CloseTagSent(ok)
  BY DEF Client!CloseTagSent, ClientAlone!CloseTagSent
<1>5. Client!Calls <=> ClientAlone!Calls
  BY DEF Client!Calls, ClientAlone!Calls, Client!StopUdpClient, ClientAlone!StopUdpClient,
     Client!StartUdpClient, ClientAlone!StartUdpClient, Client!StartFresh,
     ClientAlone!StartFresh, Client!StartAgain, ClientAlone!StartAgain
<1>6. Client!Datagrams <=> ClientAlone!Datagrams
  BY DEF Client!Cardinality, ClientAlone!Cardinality, Client!Datagrams, ClientAlone!Datagrams, Client!ServerResponse,
     ClientAlone!ServerResponse, Client!FromNewServer, ClientAlone!FromNewServer,
     Client!ServerCloses, ClientAlone!ServerCloses, Client!Undecryptable,
     ClientAlone!Undecryptable, Client!Answered, ClientAlone!Answered
<1> QED
  BY <1>1, <1>2, <1>3, <1>4, <1>5, <1>6
     DEF Client!Next, ClientAlone!Next, Client!Timers, ClientAlone!Timers

-----------------------------------------------------------------------------
(* The client's side.  Its module assumes that "inactivity" never reaches   *)
(* a client that is still shaking hands.  While it does, no Tick passes,    *)
(* so any session at its address is fresh, and what was sent to that        *)
(* address before cannot be there: the address was new when it began.       *)

FreshAt(a) ==
  \A c \in DOMAIN activeSessions :
    activeSessions[c].remote = a => activeSessions[c].idle = 0

NotTold(a) == \A m \in network : m.msg.kind = "inactivity" => m.msg.to # a

HandshakeInv == alive /\ handshaking => FreshAt(at) /\ NotTold(at)

\* What the client sends is no "inactivity", and no timer or datagram starts a
\* handshake.
LEMMA ClientSends ==
  ASSUME Client!Next
  PROVE  \A m \in sent' : m.kind # "inactivity"
<1>1. CASE Client!Timers
  BY <1>1 DEF Client!Timers, Client!HandshakeInterval, Client!Retry, Client!GiveUp,
     Client!HeartBeatInterval, Client!CheckInactivity, Client!Silence, Client!CloseTagSent,
     Client!FromLocalWG, Client!Throws, Client!HandshakeData, Client!CloseTag
<1>2. CASE Client!Calls
  BY <1>2 DEF Client!Calls, Client!StopUdpClient, Client!StartUdpClient, Client!StartFresh,
     Client!StartAgain, Client!HandshakeData, Client!CloseTag
<1>3. CASE Client!Datagrams
  BY <1>3 DEF Client!Datagrams, Client!ServerResponse, Client!FromNewServer,
     Client!ServerCloses, Client!Undecryptable, Client!Throws, Client!CloseTag
<1> QED
  BY <1>1, <1>2, <1>3 DEF Client!Next

LEMMA NoneStartsByItself ==
  ASSUME Client!Timers \/ Client!StopUdpClient \/ Client!Datagrams, alive', handshaking'
  PROVE  handshaking
BY DEF Client!Timers, Client!Datagrams, Client!HandshakeInterval,
   Client!Retry, Client!GiveUp, Client!HeartBeatInterval, Client!CheckInactivity,
   Client!Silence, Client!CloseTagSent, Client!FromLocalWG, Client!StopUdpClient,
   Client!ServerResponse, Client!FromNewServer, Client!ServerCloses, Client!Undecryptable,
   Client!Throws, Client!Answered, Client!timers

\* A delivery to the client is one of its handlers.
LEMMA ClientDelivery ==
  ASSUME HandshakeInv, DeliverToClient
  PROVE  /\ alive /\ Client!Datagrams /\ UNCHANGED <<svars, host>>
         /\ \E m \in network :
              Carry(network \ {m}, {[key |-> key, from |-> at, msg |-> d] : d \in sent'})
<1>1. PICK m \in network \cap ToClient :
        m.msg.to = at /\ (ToldPort(m) \/ ToldInactive(m) \/ Garbled(m) \/ Relayed(m))
  BY DEF DeliverToClient
<1>2. m.msg.kind \in {"connected", "reconnected", "downlink"} => m.msg.port \in Ports
  BY <1>1 DEF ToClient, Server!Datagram
<1>3. CASE ToldPort(m)
  BY <1>2, <1>3 DEF ToldPort, ClientStep, Client!Datagrams
<1>4. CASE ToldInactive(m)
  <2>1. alive /\ m.msg.kind = "inactivity" /\ Client!ServerCloses("inactivity")
    BY <1>4 DEF ToldInactive, ClientStep
  <2>2. ~handshaking
    BY <1>1, <2>1 DEF HandshakeInv, NotTold
  <2> QED
    BY <1>4, <2>1, <2>2 DEF ToldInactive, ClientStep, Client!Datagrams
<1>5. CASE Garbled(m)
  BY <1>5 DEF Garbled, ClientStep, Client!Datagrams
<1>6. CASE Relayed(m)
  <2>1. m.msg.port \in Ports /\ (m.msg.clientID = clientID) \in BOOLEAN
    BY <1>2, <1>6 DEF Relayed
  <2> QED
    BY <1>6, <2>1 DEF Relayed, ClientStep, Client!Datagrams
<1> QED
  BY <1>1, <1>3, <1>4, <1>5, <1>6

\* Every step of the system is one of the client, or leaves it alone.
LEMMA StepOfClient == HandshakeInv /\ [Next]_vars => [Client!Next]_cvars
<1> SUFFICES ASSUME HandshakeInv, [Next]_vars PROVE [Client!Next]_cvars
  OBVIOUS
<1>1. CASE \E c \in ClientIDs, r \in Remotes : Starts(c, r)
  BY <1>1 DEF Starts, Client!Next, Client!Calls
<1>2. CASE ClientActs
  BY <1>2 DEF ClientActs, ClientStep, Client!Next, Client!Calls
<1>3. CASE DeliverToClient
  BY <1>3, ClientDelivery DEF Client!Next
<1>4. CASE DeliverToServer
  BY <1>4 DEF DeliverToServer, Asked, Closed, Unreadable, Tunnelled, ServerStep
<1>5. CASE Binds \/ LocalWireGuard \/ ServerIntervals \/ TenMinutesPass \/ ServerExits
  BY <1>5 DEF Binds, LocalWireGuard, ServerIntervals, TenMinutesPass, ServerExits, ServerStep
<1>6. CASE ServerRestarts \/ Lose \/ \E r \in Remotes : Rebind(r)
  BY <1>6 DEF ServerRestarts, Lose, Rebind
<1>7. CASE UNCHANGED vars
  BY <1>7 DEF vars
<1> QED
  BY <1>1, <1>2, <1>3, <1>4, <1>5, <1>6, <1>7 DEF Next

\* A server's step other than a Tick leaves sessions at an address fresh, and
\* it tells nobody there: only sessions past the time-out are told.
LEMMA ServerKeepsFresh ==
  ASSUME Sessions, NEW a, FreshAt(a), Server!Next, ~Server!Tick
  PROVE  /\ \A c \in DOMAIN activeSessions' :
              activeSessions'[c].remote = a => activeSessions'[c].idle = 0
         /\ \A d \in out' : d.kind = "inactivity" => d.to # a
<1> DEFINE Fresh == \A c \in DOMAIN activeSessions' :
                      activeSessions'[c].remote = a => activeSessions'[c].idle = 0
           Goal == Fresh /\ \A d \in out' : d.kind = "inactivity" => d.to # a
<1> USE DEF Server!tables, Server!Active, FreshAt
<1>1. \A c \in DOMAIN activeSessions : activeSessions[c] \in ServerAlone!Session
  BY DEF Sessions
<1>2. CASE Server!Ignored \/ Server!Restart
  BY <1>2 DEF Server!Ignored, Server!Restart
<1>3. ASSUME NEW c \in ClientIDs, NEW r \in Remotes, Server!Reconnect(c, r)
      PROVE  Goal
  BY <1>1, <1>3 DEF Server!Reconnect, ServerAlone!Session
<1>4. ASSUME NEW c \in ClientIDs, NEW r \in Remotes, NEW t \in Templates, NEW u \in Users,
             Server!NewSession(c, r, t, u)
      PROVE  Goal
  BY <1>4 DEF Server!NewSession, Server!Put
<1>5. ASSUME NEW S, Server!EndSessions(S)
      PROVE  Fresh
  BY <1>5 DEF Server!EndSessions, Server!Forget, Server!Without, Server!Restrict
<1>6. ASSUME NEW r \in Remotes, Server!HandleCloseMessage(r)
      PROVE  Goal
  BY <1>5, <1>6 DEF Server!HandleCloseMessage
<1>7. ASSUME NEW b \in binding, NEW p \in Ports, Server!Listening(b, p)
      PROVE  Goal
  BY <1>1, <1>7 DEF Server!Listening, ServerAlone!Session
<1>8. ASSUME NEW b \in binding, Server!BindFails(b)
      PROVE  Goal
  BY <1>8 DEF Server!BindFails
<1>9. ASSUME NEW p \in Ports, NEW n \in PacketLengths, Server!FromWireGuard(p, n)
      PROVE  Goal
  BY <1>1, <1>9 DEF Server!FromWireGuard, ServerAlone!Session
<1>10. ASSUME NEW p \in Ports, NEW r \in Remotes, NEW forwarded \in BOOLEAN,
              Server!FromClient(p, r, forwarded)
       PROVE  Goal
  BY <1>1, <1>10 DEF Server!FromClient, ServerAlone!Session
<1>11. CASE Server!TrafficInterval
  BY <1>1, <1>11 DEF Server!TrafficInterval, ServerAlone!Session
<1>12. CASE Server!InactivityInterval
  BY <1>5, <1>12, SystemAssumption DEF Server!InactivityInterval, Server!Expired
<1>13. CASE Server!Exit
  BY <1>13 DEF Server!Exit, Server!EmptyMap
<1> QED
  BY <1>2, <1>3, <1>4, <1>6, <1>7, <1>8, <1>9, <1>10, <1>11, <1>12, <1>13
     DEF Server!Next, Server!Serve, Server!Handshake

\* A step of the client that starts no handshake.
LEMMA ClientStepInv ==
  ASSUME HandshakeInv, Client!Next, alive, alive' /\ handshaking' => handshaking,
         UNCHANGED <<svars, host>>, NEW rest \in SUBSET network,
         Carry(rest, {[key |-> key, from |-> at, msg |-> d] : d \in sent'})
  PROVE  HandshakeInv'
<1>1. \A m \in network' : m \in network \/ \E d \in sent' : m.msg = d
  BY DEF Carry
<1>2. NotTold(at) => NotTold(at)'
  BY <1>1, ClientSends DEF NotTold, host
<1>3. FreshAt(at) => FreshAt(at)'
  BY DEF FreshAt, svars, host
<1> QED
  BY <1>2, <1>3 DEF HandshakeInv

\* A step of the server, while a Tick waits for the end of the handshake.
LEMMA ServerStepInv ==
  ASSUME HandshakeInv, Sessions, Server!Next, UNCHANGED <<cvars, host>>,
         Server!Tick => ~(alive /\ handshaking), NEW rest \in SUBSET network,
         Carry(rest, {[key |-> restarts, msg |-> d] : d \in {d \in out' : d.kind # "uplink"}})
  PROVE  HandshakeInv'
<1> SUFFICES ASSUME alive, handshaking
             PROVE  FreshAt(at)' /\ NotTold(at)'
  BY DEF HandshakeInv, cvars
<1>1. FreshAt(at) /\ NotTold(at) /\ at' = at
  BY DEF HandshakeInv, host
<1>2. /\ \A c \in DOMAIN activeSessions' :
           activeSessions'[c].remote = at => activeSessions'[c].idle = 0
      /\ \A d \in out' : d.kind = "inactivity" => d.to # at
  BY <1>1, ServerKeepsFresh
<1>3. \A m \in network' : m \in network \/ \E d \in out' : m.msg = d
  BY DEF Carry
<1>4. NotTold(at)'
  BY <1>1, <1>2, <1>3 DEF NotTold
<1> QED
  BY <1>1, <1>2, <1>4 DEF FreshAt

\* Nothing in the network is for an address that nobody uses.
LEMMA UnusedIsFresh ==
  ASSUME NEW r, Unused(r)
  PROVE  FreshAt(r) /\ NotTold(r)
<1>1. \A m \in network : m.msg.kind = "inactivity" => m \notin ToServer
  BY DEF ToServer, Client!Message
<1> QED
  BY <1>1 DEF Unused, FreshAt, NotTold

\* A start on a new socket has a new address; one on a socket that is left over
\* begins no handshake.
LEMMA StartInv ==
  ASSUME HandshakeInv, NEW c \in ClientIDs, NEW r \in Remotes, Starts(c, r)
  PROVE  HandshakeInv'
<1> SUFFICES ASSUME handshaking'
             PROVE  FreshAt(at)' /\ NotTold(at)'
  BY DEF HandshakeInv
<1>1. Client!Next /\ at' = r /\ activeSessions' = activeSessions
  BY DEF Starts, Client!Next, Client!Calls, svars
<1>2. Unused(r)
  BY DEF Starts, Client!StartUdpClient, Client!StartFresh, Client!StartAgain
<1>3. \A m \in network' : m \in network \/ \E d \in sent' : m.msg = d
  BY DEF Starts, Carry
<1>4. FreshAt(r) /\ NotTold(r)
  BY <1>2, UnusedIsFresh
<1>5. FreshAt(at)'
  BY <1>1, <1>4 DEF FreshAt
<1>6. NotTold(at)'
  BY <1>1, <1>3, <1>4, ClientSends DEF NotTold
<1> QED
  BY <1>5, <1>6

\* Another address is a new one, too.
LEMMA RebindInv ==
  ASSUME HandshakeInv, NEW r \in Remotes, Rebind(r)
  PROVE  HandshakeInv'
<1>1. FreshAt(r) /\ NotTold(r)
  BY UnusedIsFresh DEF Rebind
<1>2. at' = r /\ activeSessions' = activeSessions /\ network' = network
  BY DEF Rebind, svars
<1> QED
  BY <1>1, <1>2 DEF HandshakeInv, FreshAt, NotTold

\* Every step keeps the handshake's invariant.
LEMMA NextHandshake == HandshakeInv /\ Sessions /\ [Next]_vars => HandshakeInv'
<1> SUFFICES ASSUME HandshakeInv, Sessions, [Next]_vars PROVE HandshakeInv'
  OBVIOUS
<1>1. CASE \E c \in ClientIDs, r \in Remotes : Starts(c, r)
  BY <1>1, StartInv
<1>2. CASE ClientActs
  <2>1. Client!Timers \/ Client!StopUdpClient
    BY <1>2 DEF ClientActs, ClientStep
  <2>2. alive /\ Client!Next /\ UNCHANGED <<svars, host>>
    BY <1>2 DEF ClientActs, ClientStep, Client!Next, Client!Calls
  <2>3. Carry(network, {[key |-> key, from |-> at, msg |-> d] : d \in sent'})
    BY <1>2 DEF ClientActs, ClientStep
  <2> QED
    BY <2>1, <2>2, <2>3, NoneStartsByItself, ClientStepInv
<1>3. CASE DeliverToClient
  <2>1. alive /\ Client!Datagrams /\ UNCHANGED <<svars, host>>
    BY <1>3, ClientDelivery
  <2>2. PICK m \in network :
          Carry(network \ {m}, {[key |-> key, from |-> at, msg |-> d] : d \in sent'})
    BY <1>3, ClientDelivery
  <2>3. Client!Next
    BY <2>1 DEF Client!Next
  <2> QED
    BY <2>1, <2>2, <2>3, NoneStartsByItself, ClientStepInv
<1>4. CASE DeliverToServer
  <2>1. Server!Next /\ UNCHANGED <<cvars, host>>
    BY <1>4, ServerDelivery
       DEF DeliverToServer, Asked, Closed, Unreadable, Tunnelled, ServerStep
  <2>2. PICK m \in network :
          Carry(network \ {m}, {[key |-> restarts, msg |-> d] : d \in {d \in out' : d.kind # "uplink"}})
    BY <1>4 DEF DeliverToServer, Asked, Closed, Unreadable, Tunnelled, ServerStep
  <2>3. sinceCheck' = sinceCheck
    BY <1>4 DEF DeliverToServer, Asked, Closed, Unreadable, Tunnelled, ServerStep,
       Server!Handshake, Server!Reconnect, Server!NewSession, Server!HandleCloseMessage,
       Server!Ignored, Server!FromClient
  <2>4. ~Server!Tick
    BY <2>3 DEF Server!Tick, Sessions
  <2> QED
    BY <2>1, <2>2, <2>4, ServerStepInv
<1>5. CASE Binds \/ LocalWireGuard \/ ServerIntervals \/ TenMinutesPass \/ ServerExits
  <2>1. Server!Next /\ UNCHANGED <<cvars, host>>
    BY <1>5, StepOfServer DEF Binds, LocalWireGuard, ServerIntervals, TenMinutesPass,
       ServerExits, ServerStep, Server!Next, Server!Serve
  <2>2. Carry(network, {[key |-> restarts, msg |-> d] : d \in {d \in out' : d.kind # "uplink"}})
    BY <1>5 DEF Binds, LocalWireGuard, ServerIntervals, TenMinutesPass, ServerExits, ServerStep
  <2>3. CASE TenMinutesPass
    BY <2>1, <2>2, <2>3, ServerStepInv DEF TenMinutesPass
  <2>4. CASE ~TenMinutesPass
    <3>1. sinceCheck' = sinceCheck \/ sinceCheck' = 0
      BY <1>5, <2>4 DEF Binds, LocalWireGuard, ServerIntervals, ServerExits, ServerStep,
         Server!Listening, Server!BindFails, Server!FromWireGuard, Server!TrafficInterval,
         Server!InactivityInterval, Server!Exit
    <3>2. ~Server!Tick
      BY <3>1 DEF Server!Tick, Sessions
    <3> QED
      BY <2>1, <2>2, <3>2, ServerStepInv
  <2> QED
    BY <2>3, <2>4
<1>6. CASE ServerRestarts \/ Lose
  BY <1>6 DEF ServerRestarts, Server!Restart, Lose, HandshakeInv, FreshAt, NotTold, cvars,
     svars, host, Server!tables
<1>7. CASE \E r \in Remotes : Rebind(r)
  BY <1>7, RebindInv
<1>8. CASE UNCHANGED vars
  BY <1>8 DEF vars, HandshakeInv, FreshAt, NotTold, cvars, svars, host
<1> QED
  BY <1>1, <1>2, <1>3, <1>4, <1>5, <1>6, <1>7, <1>8 DEF Next

LEMMA HandshakeAlways == SafetySpec => []HandshakeInv
<1>1. Init => HandshakeInv
  BY DEF Init, Client!Init, HandshakeInv
<1> QED
  BY <1>1, NextHandshake, SessionsTyped, PTL DEF SafetySpec

\* The client of the composed system runs as UdpClient says: "inactivity" never
\* reaches it before its start is settled, whatever is lost or late, and
\* however often its address changes or the server is restarted.
THEOREM ClientInSystem == SafetySpec => ImplementsClient
<1>1. Init => Client!Init
  BY DEF Init
<1> QED
  BY <1>1, StepOfClient, HandshakeAlways, PTL DEF SafetySpec, ImplementsClient

-----------------------------------------------------------------------------
(* What was proved of each side alone holds when they run together. *)

\* While the client repeats its handshake, its socket is open, its caller waits
\* and a retry is left; without a port no heartbeat runs: also with the server
\* and the network as they are.
THEOREM ClientSafeInSystem ==
  SafetySpec => [](Client!HandshakeOwned /\ Client!PortlessIsQuiet)
<1>1. Client!Init => ClientAlone!Init
  BY DEF Client!Init, ClientAlone!Init, Client!NoStart, ClientAlone!NoStart
<1>2. [Client!Next]_cvars => [ClientAlone!Next]_(ClientAlone!cvars)
  BY SameClientStep DEF cvars, ClientAlone!cvars, ClientAlone!timers, ClientAlone!identity,
     ClientAlone!peer
<1>3. ClientAlone!Init => ClientAlone!Inv
  BY ClientAlone!InitInv, SystemAssumption
<1>4. ClientAlone!Inv /\ [ClientAlone!Next]_(ClientAlone!cvars) => ClientAlone!Inv'
  BY ClientAlone!NextInv, SystemAssumption
<1>5. ClientAlone!Inv => Client!HandshakeOwned /\ Client!PortlessIsQuiet
  BY DEF ClientAlone!Inv, ClientAlone!HandshakeOwned, ClientAlone!PortlessIsQuiet,
     Client!HandshakeOwned, Client!PortlessIsQuiet
<1> QED
  BY <1>1, <1>2, <1>3, <1>4, <1>5, ClientInSystem, PTL DEF ImplementsClient

\* Tables, sockets, binds and order of the server agree, sessions end in time,
\* and bytes and clients are accounted for, when the datagrams are those of the
\* client and the network.
THEOREM ServerSafeInSystem ==
  SafetySpec => [](/\ Server!IndexesAgree /\ Server!SocketsAgree /\ Server!BindsAgree
                   /\ Server!OrderAgrees /\ Server!IdleBounded
                   /\ Server!TrafficConserved /\ Server!ClientNumAgrees)
<1>1. ServerAlone!Spec => []ServerAlone!IndexesAgree
  BY ServerAlone!IndexesAlwaysAgree, SystemAssumption
<1>2. ServerAlone!Spec => []ServerAlone!SocketsAgree
  BY ServerAlone!SocketsAlwaysAgree, SystemAssumption
<1>3. ServerAlone!Spec => []ServerAlone!BindsAgree
  BY ServerAlone!BindsAlwaysAgree, SystemAssumption
<1>4. ServerAlone!Spec => []ServerAlone!OrderAgrees
  BY ServerAlone!OrderAlwaysAgrees, SystemAssumption
<1>5. ServerAlone!Spec => []ServerAlone!IdleBounded
  BY ServerAlone!IdleAlwaysBounded, SystemAssumption
<1>6. ServerAlone!Spec => []ServerAlone!TrafficConserved
  BY ServerAlone!TrafficAlwaysConserved, SystemAssumption
<1>7. ServerAlone!Spec => []ServerAlone!ClientNumAgrees
  BY ServerAlone!ClientNumAlwaysAgrees, SystemAssumption
<1> USE DEF Server!Active, ServerAlone!Active, Server!IpKey, ServerAlone!IpKey
<1>8. /\ ServerAlone!IndexesAgree => Server!IndexesAgree
      /\ ServerAlone!SocketsAgree => Server!SocketsAgree
      /\ ServerAlone!BindsAgree => Server!BindsAgree
      /\ ServerAlone!OrderAgrees => Server!OrderAgrees
  BY DEF Server!IndexesAgree, ServerAlone!IndexesAgree, Server!SocketsAgree,
     ServerAlone!SocketsAgree, Server!BindsAgree, ServerAlone!BindsAgree,
     Server!OrderAgrees, ServerAlone!OrderAgrees
<1>9. /\ ServerAlone!IdleBounded => Server!IdleBounded
      /\ ServerAlone!ClientNumAgrees => Server!ClientNumAgrees
  BY DEF Server!IdleBounded, ServerAlone!IdleBounded, Server!CheckInterval,
     ServerAlone!CheckInterval, Server!ClientNumAgrees, ServerAlone!ClientNumAgrees,
     Server!Cardinality, ServerAlone!Cardinality
<1>10. ServerAlone!TrafficConserved => Server!TrafficConserved
  BY DEF Server!TrafficConserved, ServerAlone!TrafficConserved, Server!Accounts,
     ServerAlone!Accounts, Server!Unreported, ServerAlone!Unreported
<1> QED
  BY <1>1, <1>2, <1>3, <1>4, <1>5, <1>6, <1>7, <1>8, <1>9, <1>10, ServerAloneInSystem, PTL
=============================================================================
