----------------------------- MODULE MorphSystem -----------------------------
(***************************************************************************)
(* One client, the server and the UDP network between them: UdpClient and  *)
(* UdpServer composed.  What one side sends in a step enters the network;  *)
(* the network delays, reorders and loses it; its delivery is the handler  *)
(* of the other side.  A NAT may give the client another public address.   *)
(*                                                                         *)
(* One Tick of the server is TIMEOUT_DURATION / 2, ten minutes by default. *)
(* A datagram does not live that long, a handshake is settled in           *)
(* MAX_RETRIES times five seconds, and a silent client checks every 90     *)
(* seconds, so a Tick waits for all three.                                 *)
(*                                                                         *)
(* The server may be restarted.  A process draws a new key for handshakes, *)
(* their answers, "close" and "inactivity"; a client has the key that it   *)
(* was started with.  Keys are numbered like the processes, by restarts.   *)
(***************************************************************************)
EXTENDS Integers, FiniteSets

CONSTANTS
  ClientIDs, NoID, Ports, NoPort, MaxRetries, MaxLeaked,
  Remotes, Users, NoUser, Templates, HeaderID(_, _), Timeout, TimerSlack,
  PacketLengths, MaxBytes, MaxRestarts,
  MaxInFlight  \* bound: datagrams in the network

\* What UdpClient and UdpServer assume of their parameters.
ASSUME SystemAssumption ==
  /\ NoID \notin ClientIDs /\ NoPort \notin Ports
  /\ MaxRetries \in Nat \ {0} /\ MaxLeaked \in Nat
  /\ Timeout \in Nat /\ Timeout >= 2 /\ TimerSlack \in Nat
  /\ PacketLengths \subseteq Nat \ {0} /\ MaxBytes \in Nat /\ MaxRestarts \in Nat
  /\ NoUser \in Users
  /\ \A c, d \in ClientIDs, t, u \in Templates : HeaderID(c, t) = HeaderID(d, u) => c = d

VARIABLES
  (* the client *)
  clientID, drawn, socket, handlers, stopping, promise, newServerPort, silent,
  handshaking, retries, heartbeating, leaked, checking, alive, sent,
  (* the server *)
  activeSessions, older, ipIndex, sockets, binding, sinceCheck, running,
  restarts, out, relayed, billed, forfeited, clientNum, orphaned,
  (* the network *)
  at,     \* the client's public "address:port"
  key,    \* encryptionKey, the argument of the latest startUdpClient
  network \* datagrams in flight, with the key their sender has

Client == INSTANCE UdpClient
Server == INSTANCE UdpServer

cvars == <<clientID, drawn, socket, handlers, stopping, promise, newServerPort, silent,
           handshaking, retries, heartbeating, leaked, checking, alive, sent>>
svars == <<activeSessions, older, ipIndex, sockets, binding, sinceCheck, running,
           restarts, out, relayed, billed, forfeited, clientNum, orphaned>>
host == <<at, key>>
vars == <<cvars, svars, host, network>>

Keys == 0..MaxRestarts
ToServer == [key : Keys, from : Remotes, msg : Client!Message]
ToClient == [key : Keys, msg : {d \in Server!Datagram : d.kind # "uplink"}]

-----------------------------------------------------------------------------
(* A step of one side: the other side does not move, the network carries   *)
(* what the step sends.                                                    *)

\* What does not fit is lost.
Carry(rest, messages) ==
  network' = IF Cardinality(rest \cup messages) <= MaxInFlight
             THEN rest \cup messages ELSE rest

ClientStep(A, rest) ==
  /\ alive /\ A
  /\ Carry(rest, {[key |-> key, from |-> at, msg |-> m] : m \in sent'})
  /\ UNCHANGED <<svars, host>>

ServerStep(A, rest) ==
  /\ running /\ A
  /\ Carry(rest, {[key |-> restarts, msg |-> d] : d \in {d \in out' : d.kind # "uplink"}})
  /\ UNCHANGED <<cvars, host>>

-----------------------------------------------------------------------------
(* Deliveries to the client, at the address it has now. *)

ToldPort(m) ==
  /\ m.msg.kind \in {"connected", "reconnected"} /\ m.key = key
  /\ ClientStep(Client!ServerResponse(m.msg.port), network \ {m})

ToldInactive(m) ==
  /\ m.msg.kind = "inactivity" /\ m.key = key
  /\ ClientStep(Client!ServerCloses("inactivity"), network \ {m})

Garbled(m) ==
  /\ m.msg.kind # "downlink" /\ m.key # key
  /\ ClientStep(Client!Undecryptable, network \ {m})

Relayed(m) ==
  /\ m.msg.kind = "downlink"
  /\ ClientStep(Client!FromNewServer(m.msg.port, m.msg.clientID = clientID), network \ {m})

DeliverToClient ==
  \E m \in network \cap ToClient :
    m.msg.to = at /\ (ToldPort(m) \/ ToldInactive(m) \/ Garbled(m) \/ Relayed(m))

(* Deliveries to the server's main port, and to a session's.  A session    *)
(* accepts its own client's packets; another's it may refuse, as if lost.  *)

Asked(m, t, u) ==
  /\ m.msg.kind = "handshake" /\ m.key = restarts
  /\ ServerStep(Server!Handshake(m.msg.clientID, m.from, t, u), network \ {m})

Closed(m) ==
  /\ m.msg.kind = "close" /\ m.key = restarts
  /\ ServerStep(Server!HandleCloseMessage(m.from), network \ {m})

Unreadable(m) ==
  /\ m.msg.kind \in {"handshake", "close"} /\ m.key # restarts
  /\ ServerStep(Server!Ignored, network \ {m})

Tunnelled(m) ==
  /\ m.msg.kind \in {"heartbeat", "data"}
  /\ ServerStep(Server!FromClient(m.msg.port, m.from, m.msg.kind = "data"), network \ {m})

DeliverToServer ==
  \E m \in network \cap ToServer :
    \/ \E t \in Templates, u \in Users : Asked(m, t, u)
    \/ Closed(m)
    \/ Unreadable(m)
    \/ Tunnelled(m)

\* A datagram is lost, or arrives where nobody handles it.
Lose ==
  /\ \E m \in network : network' = network \ {m}
  /\ UNCHANGED <<cvars, svars, host>>

-----------------------------------------------------------------------------
(* Steps that no datagram causes. *)

ClientActs == ClientStep(Client!Timers \/ Client!StopUdpClient, network)

\* An address that no session, bind or datagram knows.
Unused(r) ==
  /\ \A c \in DOMAIN activeSessions : activeSessions[c].remote # r
  /\ \A b \in binding : b.remote # r
  /\ \A m \in network : r # IF m \in ToServer THEN m.from ELSE m.msg.to

\* A new socket has a new port, and so a new address.  The caller passes the
\* key of the process that runs, or ran last.
Starts(c, r) ==
  /\ alive /\ Client!StartUdpClient(c)
  /\ IF socket = "none" THEN Unused(r) ELSE r = at
  /\ at' = r /\ key' = restarts
  /\ Carry(network, {[key |-> restarts, from |-> r, msg |-> m] : m \in sent'})
  /\ UNCHANGED svars

Binds ==
  \/ \E b \in binding, p \in Ports : ServerStep(Server!Listening(b, p), network)
  \/ \E b \in binding : ServerStep(Server!BindFails(b), network)

LocalWireGuard ==
  \E p \in Ports, n \in PacketLengths : ServerStep(Server!FromWireGuard(p, n), network)

ServerIntervals ==
  ServerStep(Server!TrafficInterval \/ Server!InactivityInterval, network)

\* Nothing is left that takes less time than a Tick.
TenMinutesPass ==
  /\ network = {} /\ binding = {}
  /\ alive => ~handshaking /\ ~stopping
  /\ alive /\ checking => newServerPort = NoPort \/ ~silent
  /\ ServerStep(Server!Tick, network)

\* The NAT gives the client another address.
Rebind(r) ==
  /\ r # at /\ Unused(r)
  /\ at' = r
  /\ UNCHANGED <<cvars, svars, key, network>>

\* A deployment step: the sessions are lost, and what is sent meanwhile.
ServerExits == restarts < MaxRestarts /\ ServerStep(Server!Exit, network)

ServerRestarts == Server!Restart /\ UNCHANGED <<cvars, host, network>>

Init ==
  /\ Client!Init /\ Server!Init
  /\ at \in Remotes /\ key = 0
  /\ network = {}

Next ==
  \/ \E c \in ClientIDs, r \in Remotes : Starts(c, r)
  \/ ClientActs \/ DeliverToClient
  \/ DeliverToServer \/ Binds \/ LocalWireGuard \/ ServerIntervals \/ TenMinutesPass
  \/ ServerExits \/ ServerRestarts
  \/ Lose
  \/ \E r \in Remotes : Rebind(r)

\* Running intervals fire and time passes on both sides; a bind calls back;
\* a datagram does not stay in flight.  Nothing says that one arrives, or that
\* a server that exited is started again.
Fairness ==
  /\ WF_vars(ClientStep(Client!HandshakeInterval, network))
  /\ WF_vars(\E c \in ClientIDs : ClientStep(Client!CheckInactivity(c), network))
  /\ WF_vars(ClientStep(Client!Silence, network))
  /\ WF_vars(\E ok \in BOOLEAN : ClientStep(Client!CloseTagSent(ok), network))
  /\ WF_vars(Binds)
  /\ WF_vars(ServerStep(Server!InactivityInterval, network))
  /\ WF_vars(TenMinutesPass)
  /\ WF_vars(Lose)

\* Of the datagrams sent again and again some arrive.
FairLossy == SF_vars(DeliverToServer) /\ SF_vars(DeliverToClient)

SafetySpec == Init /\ [][Next]_vars
Spec == SafetySpec /\ Fairness
SpecFairLossy == Spec /\ FairLossy

-----------------------------------------------------------------------------
(* Properties. *)

\* The client runs as UdpClient says, its assumption on the server included:
\* "inactivity" never reaches a client whose start is not settled.
ImplementsClient == Client!Init /\ [][Client!Next]_cvars

\* A client that closed its socket, stopped or crashed leaves no session
\* behind for good, although its close may be lost or end another session.
\* (WireGuard sends a session finitely many packets, by MaxBytes.)
AbandonedExpires ==
  (socket # "open" \/ ~alive) ~> (activeSessions = Server!EmptyMap \/ (alive /\ socket = "open"))

Unserved ==
  /\ newServerPort \notin DOMAIN sockets
  /\ newServerPort # NoPort

\* A connected client that no session serves any more finds out: it gives the
\* port up, unless its timers were stopped or no identifier is left to draw.
LossNoticed ==
  (alive /\ socket = "open" /\ checking /\ Unserved)
    ~> ~(alive /\ socket = "open" /\ checking /\ Unserved) \/ drawn = ClientIDs

\* architecture.md:74: "Auto-reconnection".  A client that gave up its port
\* gets another, unless it is stopped or its socket closed.
Reconnects ==
  (alive /\ socket = "open" /\ checking /\ newServerPort = NoPort)
    ~> (newServerPort # NoPort \/ ~alive \/ socket # "open" \/ ~checking)

\* server.ts:60: "Find session by IP:port (since close message doesn't have
\* clientID)".  A close that finds the sender's live session at that address
\* ends that session.
CloseEndsOwn ==
  [][\A m \in network \cap ToServer :
       Closed(m) /\ clientID \in DOMAIN activeSessions
                 /\ activeSessions[clientID].remote = m.from
         => clientID \notin DOMAIN activeSessions']_vars
=============================================================================
