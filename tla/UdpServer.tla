------------------------------ MODULE UdpServer ------------------------------
(***************************************************************************)
(* The UDP server of MorphProtocol: src/src/transport/udp/server.ts.       *)
(*                                                                         *)
(* A handshake on the main port opens a session with a socket of its own;  *)
(* the session's socket relays between the client and the local WireGuard. *)
(* Sessions live in the Map activeSessions and are listed a second time in *)
(* ipIndex.  They end by a close datagram, by the inactivity timer or with *)
(* the process.  Every callback of the event loop is one action.           *)
(*                                                                         *)
(* "out" holds the datagrams the current callback sends.  Decryption, the  *)
(* obfuscator and the packet formats appear only through what they make    *)
(* the handler do: a packet that they refuse changes nothing, or only the  *)
(* session's idle time.  Both rate limiters appear as datagrams that are   *)
(* Ignored (see RateLimiter for what they admit).                          *)
(***************************************************************************)
EXTENDS Integers, FiniteSets, Functions

CONSTANTS
  ClientIDs,      \* the 16-byte identifiers clients choose at random
  Remotes,        \* the "address:port" pairs datagrams come from
  Ports,          \* the ports the system can give to session sockets
  NoPort,         \* the port of a socket that is not bound
  Users,          \* the user identifiers found in handshakes
  NoUser,         \* the empty user identifier, which api/client.ts skips
  Templates,      \* the protocol templates
  HeaderID(_, _), \* the prefix of a client identifier a template puts in headers
  Timeout,        \* TIMEOUT_DURATION, in clock units
  TimerSlack,     \* how late, in clock units, the event loop may run a timer
  PacketLengths,  \* lengths of the packets relayed from WireGuard
  MaxBytes,       \* bound: bytes relayed for one client identifier and user
  MaxRestarts     \* bound: how often the process is restarted

ASSUME PortAssumption == NoPort \notin Ports
ASSUME TimeAssumption == Timeout \in Nat /\ Timeout >= 2 /\ TimerSlack \in Nat
ASSUME LengthAssumption ==
  PacketLengths \subseteq Nat \ {0} /\ MaxBytes \in Nat /\ MaxRestarts \in Nat
ASSUME UserAssumption == NoUser \in Users
\* Client identifiers are random; no two of them share a header prefix.
ASSUME HeaderAssumption ==
  \A c, d \in ClientIDs, t, u \in Templates :
    HeaderID(c, t) = HeaderID(d, u) => c = d

VARIABLES
  activeSessions, \* clientID -> session, on the identifiers of the live sessions
  older,          \* the Map's insertion order: <<c, d>> if c was inserted before d
  ipIndex,        \* <<remote, headerID>> -> clientID
  sockets,        \* bound port -> the clientID its message handler closes over
  binding,        \* bind() calls whose callback is still to come
  sinceCheck,     \* time since the inactivity timer last ran
  running,        \* whether the process is up
  restarts,       \* how often it was restarted
  out,            \* the datagrams sent by the latest callback
  relayed,        \* history: bytes sent to a client, by <<clientID, user>>
  billed,         \* history: bytes passed to subTraffic, by <<clientID, user>>
  forfeited,      \* history: bytes unreported when the process ended
  clientNum,      \* history: calls of addClientNum less calls of subClientNum
  orphaned        \* history: sessions that ended with the process

tables == <<activeSessions, older, ipIndex, sockets, binding>>
ledger == <<relayed, billed, forfeited, clientNum, orphaned>>
process == <<running, restarts>>
vars == <<tables, ledger, process, sinceCheck, out>>

Active == DOMAIN activeSessions
HeaderIDs == {HeaderID(c, t) : c \in ClientIDs, t \in Templates}
Accounts == ClientIDs \X Users
CheckInterval == Timeout \div 2

Session ==
  [headerID : HeaderIDs, remote : Remotes, port : Ports \cup {NoPort},
   user : Users, traffic : Nat, idle : Nat]
Bind == [clientID : ClientIDs, remote : Remotes]

Datagram ==
  [kind : {"connected", "reconnected", "downlink"}, to : Remotes,
   clientID : ClientIDs, port : Ports]
    \cup [kind : {"inactivity"}, to : Remotes]
    \cup [kind : {"uplink"}, clientID : ClientIDs]

(* Partial functions, for the Maps of the code. *)
IsMap(f, S, T) == f \in [DOMAIN f -> T] /\ DOMAIN f \subseteq S
EmptyMap == [x \in {} |-> {}]
Put(f, k, v) == [x \in DOMAIN f \cup {k} |-> IF x = k THEN v ELSE f[x]]
Without(f, K) == Restrict(f, DOMAIN f \ K)

-----------------------------------------------------------------------------
(* The pieces of the handlers. *)

IpKey(c) == <<activeSessions[c].remote, activeSessions[c].headerID>>

\* Bytes counted in a live session and not yet reported for an account.
Unreported(a) ==
  IF a[1] \in Active /\ activeSessions[a[1]].user = a[2]
  THEN activeSessions[a[1]].traffic ELSE 0

\* subTraffic for the sessions in S; the call does nothing for the empty user.
Report(S) ==
  billed' = [a \in Accounts |->
               IF a[1] \in S /\ a[2] # NoUser THEN billed[a] + Unreported(a)
                                              ELSE billed[a]]

\* Mutants: the socket stays open; the pending bind still calls back.
CloseSocketsLeaked(S) ==
  /\ sockets' = sockets
  /\ binding' = {b \in binding : b.clientID \notin S}

CloseSocketsLateCallback(S) ==
  /\ sockets' = Without(sockets, {activeSessions[c].port : c \in S})
  /\ binding' = binding

\* session.socket.close(): a bind that is still pending never calls back.
CloseSockets(S) ==
  /\ sockets' = Without(sockets, {activeSessions[c].port : c \in S})
  /\ binding' = {b \in binding : b.clientID \notin S}

\* Mutant: the removed session keeps its place in the order.
ForgetKeepsOrder(S) ==
  /\ activeSessions' = Without(activeSessions, S)
  /\ older' = older
  /\ ipIndex' = Without(ipIndex, {IpKey(c) : c \in S})

\* Both maps forget the sessions in S.
Forget(S) ==
  /\ activeSessions' = Without(activeSessions, S)
  /\ older' = {p \in older : p[1] \notin S /\ p[2] \notin S}
  /\ ipIndex' = Without(ipIndex, {IpKey(c) : c \in S})

\* Mutant: subClientNum is not called.
EndSessionsUncounted(S) ==
  /\ Report(S)
  /\ CloseSockets(S)
  /\ Forget(S)
  /\ UNCHANGED <<clientNum, relayed, forfeited, orphaned>>

\* The clean-up shared by handleCloseMessage and shutdownInactiveSession.
EndSessions(S) ==
  /\ Report(S)
  /\ CloseSockets(S)
  /\ Forget(S)
  /\ clientNum' = clientNum - Cardinality(S)
  /\ UNCHANGED <<relayed, forfeited, orphaned>>

\* Mutants: the old key stays; the new key has its parts swapped.
ReindexedKeepsOld(c, r) ==
  Put(ipIndex, <<r, activeSessions[c].headerID>>, c)

ReindexedSwapped(c, r) ==
  Put(Without(ipIndex, {IpKey(c)}), <<activeSessions[c].headerID, r>>, c)

\* ipIndex after session c moved to remote r.
Reindexed(c, r) ==
  IF activeSessions[c].remote = r THEN ipIndex
  ELSE Put(Without(ipIndex, {IpKey(c)}), <<r, activeSessions[c].headerID>>, c)

NoLedgerEntry == UNCHANGED ledger

-----------------------------------------------------------------------------
(* Datagrams on the main port. *)

\* Over the rate limit, undecryptable, unparsable, invalid fnInitor, or
\* refused by the Obfuscator's constructor or createTemplate: all of this
\* happens before the first assignment.
Ignored ==
  /\ out' = {}
  /\ UNCHANGED <<tables, ledger, process, sinceCheck>>

\* A handshake for a live session.  While its socket is not bound,
\* socket.address() throws after the session was updated.
Reconnect(c, r) ==
  /\ c \in Active
  /\ activeSessions' = [activeSessions EXCEPT ![c].remote = r, ![c].idle = 0]
  /\ ipIndex' = Reindexed(c, r)
  /\ out' = IF activeSessions[c].port = NoPort THEN {}
            ELSE {[kind |-> "reconnected", to |-> r, clientID |-> c,
                   port |-> activeSessions[c].port]}
  /\ NoLedgerEntry
  /\ UNCHANGED <<older, sockets, binding, process, sinceCheck>>

\* A handshake for an unknown client identifier.
NewSession(c, r, t, u) ==
  /\ c \notin Active
  /\ activeSessions' =
       Put(activeSessions, c,
           [headerID |-> HeaderID(c, t), remote |-> r, port |-> NoPort,
            user |-> u, traffic |-> 0, idle |-> 0])
  /\ older' = older \cup (Active \X {c})
  /\ ipIndex' = Put(ipIndex, <<r, HeaderID(c, t)>>, c)
  /\ binding' = binding \cup {[clientID |-> c, remote |-> r]}
  /\ clientNum' = clientNum + 1
  /\ out' = {}
  /\ UNCHANGED <<sockets, process, sinceCheck, relayed, billed, forfeited, orphaned>>

Handshake(c, r, t, u) == Reconnect(c, r) \/ NewSession(c, r, t, u)

\* The sessions handleCloseMessage may pick: the first in the Map's order.
FirstAt(r) ==
  LET here == {c \in Active : activeSessions[c].remote = r}
  IN  {c \in here : \A d \in here \ {c} : <<c, d>> \in older}

HandleCloseMessage(r) ==
  /\ out' = {}
  /\ UNCHANGED <<process, sinceCheck>>
  /\ IF FirstAt(r) = {} THEN UNCHANGED <<tables, ledger>>
     ELSE EndSessions(FirstAt(r))

-----------------------------------------------------------------------------
(* The session's socket. *)

\* The bind callback answers the remote of the first handshake.
Listening(b, p) ==
  /\ b \in binding
  /\ p \in Ports \ DOMAIN sockets
  /\ sockets' = Put(sockets, p, b.clientID)
  /\ activeSessions' = [activeSessions EXCEPT ![b.clientID].port = p]
  /\ binding' = binding \ {b}
  /\ out' = {[kind |-> "connected", to |-> b.remote, clientID |-> b.clientID, port |-> p]}
  /\ NoLedgerEntry
  /\ UNCHANGED <<older, ipIndex, process, sinceCheck>>

\* No free port: the error reaches uncaughtException and the session stays.
BindFails(b) ==
  /\ b \in binding
  /\ Ports \subseteq DOMAIN sockets
  /\ binding' = binding \ {b}
  /\ out' = {}
  /\ NoLedgerEntry
  /\ UNCHANGED <<activeSessions, older, ipIndex, sockets, process, sinceCheck>>

\* messageHandler on a packet of n bytes (once wrapped) from WireGuard.
FromWireGuard(p, n) ==
  /\ p \in DOMAIN sockets
  /\ sockets[p] \in Active
  /\ LET c == sockets[p]
         account == <<c, activeSessions[c].user>>
     IN  /\ relayed[account] + n <= MaxBytes
         /\ activeSessions' = [activeSessions EXCEPT ![c].traffic = @ + n, ![c].idle = 0]
         /\ relayed' = [relayed EXCEPT ![account] = @ + n]
         /\ out' = {[kind |-> "downlink", to |-> activeSessions[c].remote, clientID |-> c,
                      port |-> p]}
  /\ UNCHANGED <<older, ipIndex, sockets, binding, process, sinceCheck,
                 billed, forfeited, clientNum, orphaned>>

\* messageHandler on a packet from remote r that decapsulate accepts.  A
\* heartbeat, or a packet deobfuscation throws on, is not forwarded.
FromClient(p, r, forwarded) ==
  /\ p \in DOMAIN sockets
  /\ sockets[p] \in Active
  /\ activeSessions' = [activeSessions EXCEPT ![sockets[p]].idle = 0]
  /\ out' = IF forwarded THEN {[kind |-> "uplink", clientID |-> sockets[p]]} ELSE {}
  /\ NoLedgerEntry
  /\ UNCHANGED <<older, ipIndex, sockets, binding, process, sinceCheck>>

-----------------------------------------------------------------------------
(* Timers, the clock and the process. *)

\* Mutants: the counters are reported and not reset; a report counts as
\* activity.
TrafficIntervalNoReset ==
  /\ Report(Active)
  /\ out' = {}
  /\ UNCHANGED <<tables, process, sinceCheck, relayed, forfeited, clientNum, orphaned>>

TrafficIntervalTouches ==
  /\ Report(Active)
  /\ activeSessions' = [c \in Active |-> [activeSessions[c] EXCEPT !.traffic = 0, !.idle = 0]]
  /\ out' = {}
  /\ UNCHANGED <<older, ipIndex, sockets, binding, process, sinceCheck,
                 relayed, forfeited, clientNum, orphaned>>

TrafficInterval ==
  /\ Report(Active)
  /\ activeSessions' = [c \in Active |-> [activeSessions[c] EXCEPT !.traffic = 0]]
  /\ out' = {}
  /\ UNCHANGED <<older, ipIndex, sockets, binding, process, sinceCheck,
                 relayed, forfeited, clientNum, orphaned>>

\* Mutants: lastSeen is not set at first; strictly older than the time-out.
ExpiredAtOnce == {c \in Active : activeSessions[c].idle >= 0}

ExpiredStrict == {c \in Active : activeSessions[c].idle > Timeout}

Expired == {c \in Active : activeSessions[c].idle >= Timeout}

InactivityInterval ==
  /\ sinceCheck >= CheckInterval
  /\ sinceCheck' = 0
  /\ out' = {[kind |-> "inactivity", to |-> activeSessions[c].remote] : c \in Expired}
  /\ EndSessions(Expired)
  /\ UNCHANGED process

\* One unit of time; the event loop runs a due timer within TimerSlack.
Tick ==
  /\ sinceCheck < CheckInterval + TimerSlack
  /\ sinceCheck' = sinceCheck + 1
  /\ activeSessions' = [c \in Active |-> [activeSessions[c] EXCEPT !.idle = @ + 1]]
  /\ out' = {}
  /\ NoLedgerEntry
  /\ UNCHANGED <<older, ipIndex, sockets, binding, process>>

\* SIGTERM or SIGINT: the first handler registered calls process.exit(0), so
\* gracefulShutdown, registered after it, does not run.
Exit ==
  /\ running' = FALSE
  /\ forfeited' = [a \in Accounts |-> forfeited[a] + Unreported(a)]
  /\ orphaned' = orphaned + Cardinality(Active)
  /\ activeSessions' = EmptyMap /\ ipIndex' = EmptyMap /\ sockets' = EmptyMap
  /\ older' = {} /\ binding' = {} /\ out' = {}
  /\ sinceCheck' = 0
  /\ UNCHANGED <<restarts, relayed, billed, clientNum>>

\* The service manager starts a new process.
Restart ==
  /\ ~running
  /\ restarts < MaxRestarts
  /\ running' = TRUE
  /\ restarts' = restarts + 1
  /\ out' = {}
  /\ UNCHANGED <<tables, ledger, sinceCheck>>

-----------------------------------------------------------------------------
Init ==
  /\ activeSessions = EmptyMap /\ ipIndex = EmptyMap /\ sockets = EmptyMap
  /\ older = {} /\ binding = {} /\ out = {}
  /\ sinceCheck = 0 /\ running = TRUE /\ restarts = 0
  /\ relayed = [a \in Accounts |-> 0]
  /\ billed = [a \in Accounts |-> 0]
  /\ forfeited = [a \in Accounts |-> 0]
  /\ clientNum = 0 /\ orphaned = 0

\* What the datagrams and timers of one process do.
Serve ==
  \/ Ignored
  \/ \E c \in ClientIDs, r \in Remotes, t \in Templates, u \in Users : Handshake(c, r, t, u)
  \/ \E r \in Remotes : HandleCloseMessage(r)
  \/ \E b \in binding, p \in Ports : Listening(b, p)
  \/ \E b \in binding : BindFails(b)
  \/ \E p \in Ports, n \in PacketLengths : FromWireGuard(p, n)
  \/ \E p \in Ports, r \in Remotes, forwarded \in BOOLEAN : FromClient(p, r, forwarded)
  \/ TrafficInterval
  \/ InactivityInterval
  \/ Tick

Next == (running /\ (Serve \/ Exit)) \/ Restart

Spec == Init /\ [][Next]_vars

-----------------------------------------------------------------------------
(* Properties. *)

\* Every variable keeps to its type.
TypeOK ==
  /\ IsMap(activeSessions, ClientIDs, Session)
  /\ older \subseteq ClientIDs \X ClientIDs
  /\ IsMap(ipIndex, Remotes \X HeaderIDs, ClientIDs)
  /\ IsMap(sockets, Ports, ClientIDs)
  /\ binding \subseteq Bind
  /\ sinceCheck \in Nat /\ running \in BOOLEAN /\ restarts \in Nat
  /\ out \subseteq Datagram
  /\ relayed \in [Accounts -> Nat] /\ billed \in [Accounts -> Nat]
  /\ forfeited \in [Accounts -> Nat]
  /\ clientNum \in Int /\ orphaned \in Nat

\* The two indexes agree (server.ts "DUAL INDEXING"): ipIndex holds the key of
\* every live session, mapped to that session, and no other key, whatever
\* reconnects, closes and time-outs did to either map.
IndexesAgree ==
  /\ DOMAIN ipIndex = {IpKey(c) : c \in Active}
  /\ \A c \in Active : ipIndex[IpKey(c)] = c

\* No session socket leaks and none is shared: every bound port is the port
\* of the live session its handler closes over, and every session's port is
\* bound.  Close, time-out and a late bind callback all touch both sides.
SocketsAgree ==
  /\ \A p \in DOMAIN sockets :
       sockets[p] \in Active /\ activeSessions[sockets[p]].port = p
  /\ \A c \in Active :
       activeSessions[c].port # NoPort =>
         activeSessions[c].port \in DOMAIN sockets /\ sockets[activeSessions[c].port] = c

\* A bind callback still to come belongs to a live session that has no port
\* yet, and a session has at most one: removing a session while its bind is
\* pending leaves no callback behind.
BindsAgree ==
  /\ \A b \in binding : b.clientID \in Active /\ activeSessions[b.clientID].port = NoPort
  /\ \A b, d \in binding : b.clientID = d.clientID => b = d

\* The insertion order that handleCloseMessage scans is a strict total order
\* of the live sessions, so a close has exactly one session to end.
OrderAgrees ==
  /\ older \subseteq Active \X Active
  /\ \A c, d \in Active : c # d => (<<c, d>> \in older <=> <<d, c>> \notin older)
  /\ \A c \in Active : <<c, c>> \notin older
  /\ \A c, d, e \in Active :
       <<c, d>> \in older /\ <<d, e>> \in older => <<c, e>> \in older

\* No session outlives its last packet by more than the time-out, one check
\* interval and the timer's slack (server.ts: "Check twice as often as
\* timeout to ensure timely detection").
IdleBounded ==
  \A c \in Active : activeSessions[c].idle < Timeout + CheckInterval + TimerSlack

\* Every byte relayed to a client is reported once: by the traffic interval,
\* or when its session ends; otherwise it is still counted in the live
\* session, or was lost when the process ended.
TrafficConserved ==
  \A a \in Accounts :
    a[2] # NoUser => relayed[a] = billed[a] + Unreported(a) + forfeited[a]

\* The client count the server reports, addClientNum less subClientNum, is the
\* number of live sessions plus those that ended with a process.
ClientNumAgrees == clientNum = Cardinality(Active) + orphaned

\* A reply to a handshake names a port where, after the step, the session of
\* that client identifier listens.
RepliesUsable ==
  [][\A m \in out' :
       m.kind \in {"connected", "reconnected"} =>
         /\ m.clientID \in Active'
         /\ m.port \in DOMAIN sockets' /\ sockets'[m.port] = m.clientID]_vars

\* README.md: "seamless IP address changes without reconnection".  After the
\* client's data was accepted from an address, its session answers there.
UplinkMigrates ==
  [][\A p \in Ports, r \in Remotes :
       running /\ FromClient(p, r, TRUE) => activeSessions'[sockets[p]].remote = r]_vars
=============================================================================
