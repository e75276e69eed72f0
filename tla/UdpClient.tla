------------------------------ MODULE UdpClient ------------------------------
(***************************************************************************)
(* The TypeScript client: src/src/transport/udp/client.ts.                 *)
(*                                                                         *)
(* startUdpClient opens one socket, sends a handshake every five seconds   *)
(* until an answer or MAX_RETRIES, then keeps three kinds of timers.  The  *)
(* module's globals survive a stop; a timer that touches a socket that is  *)
(* gone, or a port that is 0, throws, and nothing in the client process    *)
(* catches it.                                                             *)
(*                                                                         *)
(* Time appears only as "silent": INACTIVITY_TIMEOUT has passed since the  *)
(* last packet.  Timers fire in any order.  bind() and its callback belong *)
(* to startUdpClient, and a caller waits for a stop before the next call.  *)
(***************************************************************************)
EXTENDS Integers, FiniteSets

CONSTANTS
  ClientIDs,  \* the identifiers crypto.randomBytes(16) may draw
  NoID,       \* the identifier before the first start
  Ports,      \* the ports of session sockets, as the server names them
  NoPort,     \* newServerPort when it is unset or 0
  MaxRetries, \* MAX_RETRIES
  MaxLeaked   \* bound: heartbeat intervals that no variable refers to

ASSUME ClientAssumption ==
  /\ NoID \notin ClientIDs /\ NoPort \notin Ports
  /\ MaxRetries \in Nat \ {0} /\ MaxLeaked \in Nat

VARIABLES
  clientID,      \* the current identifier
  drawn,         \* history: identifiers drawn so far; none is drawn twice
  socket,        \* "none" (client = null), "open" or "closed" but kept in client
  handlers,      \* whose message handlers are on the open socket: the starts, by the
                 \* identifier each of them drew
  stopping,      \* stopUdpClient waits for its close datagram to be sent
  promise,       \* what each start on this socket returned has come to, by the
                 \* identifier it drew
  newServerPort, \* the port of the server's session socket
  silent,        \* Date.now() - lastReceivedTime > INACTIVITY_TIMEOUT
  handshaking,   \* handshakeInterval is running
  retries,       \* clientRetry
  heartbeating,  \* the interval in heartBeatInterval is running
  leaked,        \* running heartbeat intervals that were overwritten
  checking,      \* inactivityCheckInterval is running
  alive,         \* no exception has ended the process
  sent           \* the datagrams the current callback sends to the server

timers == <<handshaking, retries, heartbeating, leaked, checking>>
identity == <<clientID, drawn>>
peer == <<newServerPort, silent>>
cvars == <<identity, socket, handlers, stopping, promise, peer, timers, alive, sent>>

Message ==
  [kind : {"handshake"}, clientID : ClientIDs] \cup [kind : {"close"}]
    \cup [kind : {"heartbeat", "data"}, clientID : ClientIDs, port : Ports]

HandshakeData(c) == [kind |-> "handshake", clientID |-> c]
CloseTag == [kind |-> "close"]

\* A handler settles the promise of its own start; a second time has no effect.
Settle(outcome) ==
  promise' = [c \in ClientIDs |-> IF c \in handlers /\ promise[c] = "pending"
                                  THEN outcome ELSE promise[c]]

\* An exception nobody catches ends the process.
Throws ==
  /\ alive' = FALSE
  /\ sent' = {}
  /\ UNCHANGED <<identity, socket, handlers, stopping, promise, peer, timers>>

\* Without its handler nothing settles a promise any more.
NoStart == [c \in ClientIDs |-> "none"]

Draw(c) ==
  /\ c \notin drawn
  /\ clientID' = c
  /\ drawn' = drawn \cup {c}

-----------------------------------------------------------------------------
(* startUdpClient and the handshake. *)

\* After a stop, or for the first time: a new socket.
StartFresh(c) ==
  /\ socket = "none"
  /\ Draw(c)
  /\ socket' = "open" /\ handlers' = {c}
  /\ promise' = [promise EXCEPT ![c] = "pending"]
  /\ handshaking' = TRUE /\ retries' = 0
  /\ heartbeating' = FALSE /\ checking' = FALSE
  /\ sent' = {HandshakeData(c)}
  /\ UNCHANGED <<stopping, peer, leaked, alive>>

\* With a socket left over: the intervals are cleared and a second handler is
\* registered before bind throws, because the socket is bound or closed.  That
\* rejects this start's promise; an earlier one keeps waiting.
StartAgain(c) ==
  /\ socket # "none"
  /\ Draw(c)
  /\ handlers' = IF socket = "open" THEN handlers \cup {c} ELSE handlers
  /\ promise' = [promise EXCEPT ![c] = "rejected"]
  /\ handshaking' = FALSE /\ heartbeating' = FALSE /\ checking' = FALSE
  /\ sent' = {}
  /\ UNCHANGED <<socket, stopping, peer, retries, leaked, alive>>

StartUdpClient(c) == ~stopping /\ (StartFresh(c) \/ StartAgain(c))

\* Mutant: the handshake interval goes on after an answer.
AnsweredKeepsAsking == UNCHANGED <<handshaking, retries>>

Answered == handshaking' = FALSE /\ UNCHANGED retries

Retry ==
  /\ handshaking /\ retries + 1 < MaxRetries
  /\ retries' = retries + 1
  /\ sent' = {HandshakeData(clientID)}
  /\ UNCHANGED <<identity, socket, handlers, stopping, promise, peer,
                 handshaking, heartbeating, leaked, checking, alive>>

\* Mutant: the interval is cleared and the promise forgotten.
GiveUpSilently ==
  /\ handshaking /\ retries + 1 >= MaxRetries
  /\ retries' = retries + 1
  /\ handshaking' = FALSE
  /\ socket' = "closed"
  /\ sent' = {HandshakeData(clientID), CloseTag}
  /\ UNCHANGED <<identity, handlers, stopping, promise, peer,
                 heartbeating, leaked, checking, alive>>

\* The interval rejects its own start, the only one with a handler.
GiveUp ==
  /\ handshaking /\ retries + 1 >= MaxRetries
  /\ retries' = retries + 1
  /\ handshaking' = FALSE
  /\ socket' = "closed"
  /\ Settle("rejected")
  /\ sent' = {HandshakeData(clientID), CloseTag}
  /\ UNCHANGED <<identity, handlers, stopping, peer,
                 heartbeating, leaked, checking, alive>>

HandshakeInterval == Retry \/ GiveUp

-----------------------------------------------------------------------------
(* Datagrams.  Each is handled once by every registered handler. *)

\* {port, clientID, status}: a clientID other than the current one is logged.
ServerResponse(p) ==
  /\ socket = "open"
  /\ newServerPort' = p
  /\ Answered
  /\ heartbeating' = TRUE
  /\ leaked' = leaked + (Cardinality(handlers) - 1) + (IF heartbeating THEN 1 ELSE 0)
  /\ leaked' <= MaxLeaked
  /\ checking' = TRUE
  /\ silent' = FALSE
  /\ Settle("resolved")
  /\ sent' = {}
  /\ UNCHANGED <<identity, socket, handlers, stopping, alive>>

\* "inactivity" or "server_full"; the second of two handlers sends on the
\* socket that the first one closed.
ServerCloses(kind) ==
  /\ socket = "open"
  /\ IF Cardinality(handlers) > 1 THEN Throws
     ELSE /\ Answered
          /\ heartbeating' = FALSE
          /\ socket' = "closed"
          /\ IF kind = "server_full" THEN Settle("rejected") ELSE UNCHANGED promise
          /\ sent' = {CloseTag}
          /\ UNCHANGED <<identity, handlers, stopping, peer, leaked, checking, alive>>

\* From the main port, encrypted under another key than this client's:
\* simpleDecrypt throws.
Undecryptable == socket = "open" /\ Throws

\* Mutant: a packet is sent before a session port is known.
FromLocalWGAtOnce ==
  /\ socket = "open"
  /\ sent' = {[kind |-> "data", clientID |-> clientID, port |-> newServerPort]}
  /\ UNCHANGED <<identity, socket, handlers, stopping, promise, peer, timers, alive>>

\* From the local WireGuard, once a session port is known.
FromLocalWG ==
  /\ socket = "open"
  /\ newServerPort # NoPort
  /\ sent' = {[kind |-> "data", clientID |-> clientID, port |-> newServerPort]}
  /\ UNCHANGED <<identity, socket, handlers, stopping, promise, peer, timers, alive>>

\* From the port of the session; decapsulate may refuse it.  A packet that was
\* not wrapped for the current identifier may also make deobfuscation throw.
FromNewServer(p, own) ==
  /\ socket = "open"
  /\ p = newServerPort
  /\ \/ /\ silent' = FALSE
        /\ sent' = {}
        /\ UNCHANGED <<identity, socket, handlers, stopping, promise, newServerPort,
                       timers, alive>>
     \/ ~own /\ Throws

-----------------------------------------------------------------------------
(* The timers of a connected client. *)

\* Mutant: sending counts as activity.
HeartBeatIntervalRefreshes ==
  /\ heartbeating \/ leaked > 0
  /\ IF socket # "open" \/ newServerPort = NoPort THEN Throws
     ELSE /\ sent' = {[kind |-> "heartbeat", clientID |-> clientID, port |-> newServerPort]}
          /\ silent' = FALSE
          /\ UNCHANGED <<identity, socket, handlers, stopping, promise, newServerPort,
                         timers, alive>>

\* send throws without a socket, on a closed one, and for port 0.
HeartBeatInterval ==
  /\ heartbeating \/ leaked > 0
  /\ IF socket # "open" \/ newServerPort = NoPort THEN Throws
     ELSE /\ sent' = {[kind |-> "heartbeat", clientID |-> clientID, port |-> newServerPort]}
          /\ UNCHANGED <<identity, socket, handlers, stopping, promise, peer, timers, alive>>

\* Mutant: the heartbeat of the old session is not cleared.
StopHeartbeatForgotten == UNCHANGED heartbeating

StopHeartbeat == heartbeating' = FALSE

\* A new identity and one handshake, which no interval repeats.
CheckInactivity(c) ==
  /\ checking
  /\ newServerPort # NoPort /\ silent
  /\ IF socket # "open" THEN Throws
     ELSE /\ StopHeartbeat
          /\ newServerPort' = NoPort
          /\ Draw(c)
          /\ sent' = {HandshakeData(c)}
          /\ UNCHANGED <<socket, handlers, stopping, promise, silent,
                         handshaking, retries, leaked, checking, alive>>

\* Nothing came for INACTIVITY_TIMEOUT, longer than a send takes to call back.
Silence ==
  /\ ~silent /\ newServerPort # NoPort /\ ~stopping
  /\ silent' = TRUE
  /\ sent' = {}
  /\ UNCHANGED <<identity, socket, handlers, stopping, promise, newServerPort, timers, alive>>

-----------------------------------------------------------------------------
(* stopUdpClient. *)

StopUdpClient ==
  /\ ~stopping
  /\ handshaking' = FALSE /\ heartbeating' = FALSE /\ checking' = FALSE
  /\ IF socket = "open"
     THEN /\ stopping' = TRUE /\ sent' = {CloseTag} /\ UNCHANGED <<socket, handlers>>
          /\ UNCHANGED promise
     ELSE /\ socket' = "none" /\ handlers' = {} /\ promise' = NoStart
          /\ sent' = {} /\ UNCHANGED stopping
  /\ UNCHANGED <<identity, peer, retries, leaked, alive>>

\* The callback of send: on an error nothing more happens; otherwise the
\* socket is closed, and closing it a second time throws.
CloseTagSent(ok) ==
  /\ stopping
  /\ IF ok /\ socket = "closed" THEN Throws
     ELSE /\ stopping' = FALSE
          /\ IF ok THEN socket' = "none" /\ handlers' = {} /\ promise' = NoStart
             ELSE UNCHANGED <<socket, handlers, promise>>
          /\ sent' = {}
          /\ UNCHANGED <<identity, peer, timers, alive>>

-----------------------------------------------------------------------------
Init ==
  /\ clientID = NoID /\ drawn = {}
  /\ socket = "none" /\ handlers = {} /\ stopping = FALSE
  /\ promise = NoStart
  /\ newServerPort = NoPort /\ silent = FALSE
  /\ handshaking = FALSE /\ retries = 0
  /\ heartbeating = FALSE /\ leaked = 0 /\ checking = FALSE
  /\ alive = TRUE /\ sent = {}

\* What the client does by itself.
Timers ==
  \/ HandshakeInterval
  \/ HeartBeatInterval
  \/ \E c \in ClientIDs : CheckInactivity(c)
  \/ Silence
  \/ \E ok \in BOOLEAN : CloseTagSent(ok)
  \/ FromLocalWG

\* What its callers do.
Calls == StopUdpClient \/ \E c \in ClientIDs : StartUdpClient(c)

\* What a server may send.  A refusal answers a handshake; a session is ended
\* after minutes of silence, when no handshake goes on any more.
Datagrams ==
  \/ \E p \in Ports : ServerResponse(p)
  \/ \E p \in Ports, own \in BOOLEAN : FromNewServer(p, own)
  \/ ServerCloses("server_full")
  \/ ~handshaking /\ ServerCloses("inactivity")
  \/ Undecryptable

Next == alive /\ (Timers \/ Calls \/ Datagrams)

\* setInterval keeps firing until it is cleared.
Fairness == WF_cvars(alive /\ HandshakeInterval)

Spec == Init /\ [][Next]_cvars /\ Fairness

-----------------------------------------------------------------------------
(* Properties. *)

\* Every variable keeps to its type.
TypeOK ==
  /\ clientID \in ClientIDs \cup {NoID} /\ drawn \subseteq ClientIDs
  /\ socket \in {"none", "open", "closed"} /\ handlers \subseteq drawn
  /\ stopping \in BOOLEAN /\ alive \in BOOLEAN
  /\ promise \in [ClientIDs -> {"none", "pending", "resolved", "rejected"}]
  /\ newServerPort \in Ports \cup {NoPort} /\ silent \in BOOLEAN
  /\ handshaking \in BOOLEAN /\ retries \in 0..MaxRetries
  /\ heartbeating \in BOOLEAN /\ leaked \in 0..MaxLeaked /\ checking \in BOOLEAN
  /\ sent \subseteq Message

\* While the handshake is repeated, the socket is open, a retry is left, and one
\* start alone waits for it: answers, refusals, stops and second starts all end
\* the repetition.
HandshakeOwned ==
  handshaking =>
    /\ socket = "open" /\ retries < MaxRetries
    /\ \E c \in ClientIDs : handlers = {c} /\ promise[c] = "pending"

\* Without a session port the current heartbeat is off: checkInactivity clears
\* it before it clears the port, and only an answer that brings a port starts it.
PortlessIsQuiet == newServerPort = NoPort => ~heartbeating

\* A start that asks for a session is settled: by an answer, a refusal or
\* MAX_RETRIES.  Three things may come first and leave its promise pending: the
\* end of the process, a stop, and a second start, which clears the interval of
\* the first (client.ts:85) and rejects only its own promise (line 389).
StartSettles ==
  \A c \in ClientIDs :
    (promise[c] = "pending" /\ handshaking)
      ~> (promise[c] \in {"resolved", "rejected"} \/ ~alive \/ stopping \/ handlers # {c})
=============================================================================
