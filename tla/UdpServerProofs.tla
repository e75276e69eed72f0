--------------------------- MODULE UdpServerProofs ---------------------------
(* Theorems about UdpServer, for every value of its constants. *)
EXTENDS UdpServer, FiniteSetTheorems, TLAPS

\* What Put and Without do to a partial function.
LEMMA PutFacts ==
  ASSUME NEW f, NEW k, NEW v
  PROVE  /\ DOMAIN Put(f, k, v) = DOMAIN f \cup {k}
         /\ Put(f, k, v)[k] = v
         /\ \A x \in DOMAIN f \ {k} : Put(f, k, v)[x] = f[x]
BY DEF Put

LEMMA WithoutFacts ==
  ASSUME NEW f, NEW K
  PROVE  /\ DOMAIN Without(f, K) = DOMAIN f \ K
         /\ \A x \in DOMAIN f \ K : Without(f, K)[x] = f[x]
BY DEF Without, Restrict

\* A map that gains an entry, or loses some, is still a map.
LEMMA PutType ==
  ASSUME NEW S, NEW T, NEW f, IsMap(f, S, T), NEW k \in S, NEW v \in T
  PROVE  IsMap(Put(f, k, v), S, T)
BY DEF Put, IsMap

LEMMA WithoutType ==
  ASSUME NEW S, NEW T, NEW f, IsMap(f, S, T), NEW K
  PROVE  IsMap(Without(f, K), S, T)
BY DEF Without, Restrict, IsMap

\* The bytes a session still has to report are a number.
LEMMA UnreportedType ==
  ASSUME TypeOK, NEW a \in Accounts
  PROVE  Unreported(a) \in Nat
BY DEF TypeOK, IsMap, Unreported, Active, Accounts, Session

\* Reporting the sessions in S keeps the ledger's type.
LEMMA ReportType ==
  ASSUME TypeOK, NEW S, Report(S)
  PROVE  billed' \in [Accounts -> Nat]
BY UnreportedType DEF TypeOK, Report

-----------------------------------------------------------------------------
(* Type correctness.  clientNum is an integer only because the set of live *)
(* sessions is finite, so the invariant says that too.                     *)

TypeInv == TypeOK /\ IsFiniteSet(Active)

\* The clean-up keeps the types of everything it touches.
LEMMA EndSessionsType ==
  ASSUME TypeInv, NEW S \in SUBSET Active, EndSessions(S),
         UNCHANGED <<process>>, sinceCheck' \in Nat, out' \subseteq Datagram
  PROVE  TypeInv'
<1> USE DEF TypeInv
<1>1. IsFiniteSet(S) /\ Cardinality(S) \in Nat
  BY FS_Subset, FS_CardinalityType
<1>2. IsMap(activeSessions, ClientIDs, Session)' /\ IsFiniteSet(Active)'
  <2>1. activeSessions' = Without(activeSessions, S)
    BY DEF EndSessions, Forget
  <2>2. Active' = Active \ S
    BY <2>1, WithoutFacts DEF Active
  <2>3. IsFiniteSet(Active')
    BY <2>2, FS_Subset
  <2> QED BY <2>1, <2>3, WithoutType DEF TypeOK
<1>3. IsMap(ipIndex, Remotes \X HeaderIDs, ClientIDs)'
  BY WithoutType DEF TypeOK, EndSessions, Forget
<1>4. IsMap(sockets, Ports, ClientIDs)'
  BY WithoutType DEF TypeOK, EndSessions, CloseSockets
<1>5. (older \subseteq ClientIDs \X ClientIDs)' /\ (binding \subseteq Bind)'
  BY DEF TypeOK, EndSessions, CloseSockets, Forget
<1>6. billed' \in [Accounts -> Nat]
  BY ReportType DEF EndSessions
<1>7. clientNum' \in Int
  BY <1>1 DEF TypeOK, EndSessions
<1> QED
  BY <1>2, <1>3, <1>4, <1>5, <1>6, <1>7 DEF TypeOK, EndSessions, process

\* A step that changes fields of live sessions keeps their map's type.
LEMMA UpdateType ==
  ASSUME TypeInv, NEW c, NEW s \in Session,
         activeSessions' = [activeSessions EXCEPT ![c] = s]
  PROVE  IsMap(activeSessions, ClientIDs, Session)' /\ Active' = Active
BY DEF TypeInv, TypeOK, IsMap, Active

\* The fields of a live session.
LEMMA SessionFields ==
  ASSUME TypeOK, NEW c \in Active
  PROVE  /\ activeSessions[c] \in Session /\ c \in ClientIDs
         /\ activeSessions[c].headerID \in HeaderIDs /\ activeSessions[c].remote \in Remotes
         /\ activeSessions[c].port \in Ports \cup {NoPort} /\ activeSessions[c].user \in Users
         /\ activeSessions[c].traffic \in Nat /\ activeSessions[c].idle \in Nat
BY DEF TypeOK, IsMap, Active, Session

\* The initial state is well typed.
LEMMA InitTypeInv == Init => TypeInv
<1> SUFFICES ASSUME Init PROVE TypeInv OBVIOUS
<1>1. Active = {}
  BY DEF Init, EmptyMap, Active
<1> QED
  BY <1>1, FS_EmptySet DEF Init, EmptyMap, TypeInv, TypeOK, IsMap

LEMMA ReconnectType ==
  ASSUME TypeInv, NEW c \in ClientIDs, NEW r \in Remotes, Reconnect(c, r)
  PROVE  TypeInv'
<1> USE DEF TypeInv
<1> DEFINE s == activeSessions[c]
           moved == [s EXCEPT !.remote = r, !.idle = 0]
<1>1. c \in Active
  BY DEF Reconnect
<1>2. moved \in Session
  BY <1>1, SessionFields DEF Session
<1>3. activeSessions' = [activeSessions EXCEPT ![c] = moved]
  BY <1>1 DEF Reconnect, TypeOK, IsMap, Active
<1>4. IsMap(activeSessions, ClientIDs, Session)' /\ Active' = Active
  BY <1>2, <1>3, UpdateType
<1>5. IsMap(ipIndex, Remotes \X HeaderIDs, ClientIDs)'
  <2>1. <<r, s.headerID>> \in Remotes \X HeaderIDs
    BY <1>1, SessionFields
  <2> QED BY <2>1, PutType, WithoutType DEF Reconnect, Reindexed, TypeOK
<1>6. out' \subseteq Datagram
  BY <1>1, SessionFields DEF Reconnect, Datagram
<1> QED
  BY <1>4, <1>5, <1>6 DEF TypeOK, Reconnect, NoLedgerEntry, ledger, process

LEMMA NewSessionType ==
  ASSUME TypeInv, NEW c \in ClientIDs, NEW r \in Remotes, NEW t \in Templates,
         NEW u \in Users, NewSession(c, r, t, u)
  PROVE  TypeInv'
<1> USE DEF TypeInv
<1> DEFINE s == [headerID |-> HeaderID(c, t), remote |-> r, port |-> NoPort,
                 user |-> u, traffic |-> 0, idle |-> 0]
<1>1. HeaderID(c, t) \in HeaderIDs
  BY DEF HeaderIDs
<1>2. s \in Session
  BY <1>1 DEF Session
<1>3. activeSessions' = Put(activeSessions, c, s)
  BY DEF NewSession
<1>4. IsMap(activeSessions, ClientIDs, Session)'
  BY <1>2, <1>3, PutType DEF TypeOK
<1>5. IsFiniteSet(Active')
  <2>1. Active' = Active \cup {c}
    BY <1>3, PutFacts DEF Active
  <2> QED BY <2>1, FS_AddElement
<1>6. IsMap(ipIndex, Remotes \X HeaderIDs, ClientIDs)'
  BY <1>1, PutType DEF NewSession, TypeOK
<1>7. (older \subseteq ClientIDs \X ClientIDs)' /\ (binding \subseteq Bind)'
  BY DEF NewSession, TypeOK, IsMap, Active, Bind
<1> QED
  BY <1>4, <1>5, <1>6, <1>7 DEF TypeOK, NewSession, process

LEMMA ListeningType ==
  ASSUME TypeInv, NEW b \in binding, NEW p \in Ports, Listening(b, p)
  PROVE  TypeInv'
<1> USE DEF TypeInv
<1>1. b.clientID \in ClientIDs /\ b.remote \in Remotes
  BY DEF TypeOK, Bind
<1>2. IsMap(activeSessions, ClientIDs, Session)' /\ Active' = Active
  BY DEF Listening, TypeOK, IsMap, Active, Session
<1>3. IsMap(sockets, Ports, ClientIDs)'
  BY <1>1, PutType DEF Listening, TypeOK
<1>4. out' \subseteq Datagram
  BY <1>1 DEF Listening, Datagram
<1> QED
  BY <1>2, <1>3, <1>4 DEF TypeOK, Listening, NoLedgerEntry, ledger, process

LEMMA FromWireGuardType ==
  ASSUME TypeInv, NEW p \in Ports, NEW n \in PacketLengths, FromWireGuard(p, n)
  PROVE  TypeInv'
<1> USE DEF TypeInv
<1> DEFINE c == sockets[p]
           s == activeSessions[c]
           counted == [s EXCEPT !.traffic = @ + n, !.idle = 0]
<1>1. c \in Active /\ n \in Nat
  BY LengthAssumption DEF FromWireGuard
<1>2. counted \in Session
  <2>1. s \in Session /\ s.traffic \in Nat
    BY <1>1, SessionFields
  <2>2. s.traffic + n \in Nat
    BY <1>1, <2>1
  <2> QED BY <2>1, <2>2 DEF Session
<1>3. activeSessions' = [activeSessions EXCEPT ![c] = counted]
  BY <1>1 DEF FromWireGuard, TypeOK, IsMap, Active
<1>4. IsMap(activeSessions, ClientIDs, Session)' /\ Active' = Active
  BY <1>2, <1>3, UpdateType
<1>5. relayed' \in [Accounts -> Nat]
  BY <1>1, SessionFields DEF FromWireGuard, TypeOK, Accounts
<1>6. out' \subseteq Datagram
  BY <1>1, SessionFields DEF FromWireGuard, Datagram
<1> QED
  BY <1>4, <1>5, <1>6 DEF TypeOK, FromWireGuard, process

LEMMA FromClientType ==
  ASSUME TypeInv, NEW p \in Ports, NEW r \in Remotes, NEW forwarded \in BOOLEAN,
         FromClient(p, r, forwarded)
  PROVE  TypeInv'
<1> USE DEF TypeInv
<1> DEFINE c == sockets[p]
           s == activeSessions[c]
           heard == [s EXCEPT !.idle = 0]
<1>1. c \in Active
  BY DEF FromClient
<1>2. heard \in Session
  BY <1>1, SessionFields DEF Session
<1>3. activeSessions' = [activeSessions EXCEPT ![c] = heard]
  BY <1>1 DEF FromClient, TypeOK, IsMap, Active
<1>4. IsMap(activeSessions, ClientIDs, Session)' /\ Active' = Active
  BY <1>2, <1>3, UpdateType
<1>5. out' \subseteq Datagram
  BY <1>1, SessionFields DEF FromClient, Datagram
<1> QED
  BY <1>4, <1>5 DEF TypeOK, FromClient, NoLedgerEntry, ledger, process

LEMMA TrafficIntervalType ==
  ASSUME TypeInv, TrafficInterval
  PROVE  TypeInv'
<1> USE DEF TypeInv
<1>1. IsMap(activeSessions, ClientIDs, Session)' /\ Active' = Active
  BY SessionFields DEF TrafficInterval, TypeOK, IsMap, Active, Session
<1>2. billed' \in [Accounts -> Nat]
  BY ReportType DEF TrafficInterval
<1> QED
  BY <1>1, <1>2 DEF TypeOK, TrafficInterval, process

LEMMA TickType ==
  ASSUME TypeInv, Tick
  PROVE  TypeInv'
<1> USE DEF TypeInv
<1>1. IsMap(activeSessions, ClientIDs, Session)' /\ Active' = Active
  BY SessionFields DEF Tick, TypeOK, IsMap, Active, Session
<1> QED
  BY <1>1 DEF TypeOK, Tick, NoLedgerEntry, ledger, process

LEMMA ExitType ==
  ASSUME TypeInv, Exit
  PROVE  TypeInv'
<1> USE DEF TypeInv
<1>1. Active' = {} /\ IsFiniteSet(Active')
  BY FS_EmptySet DEF Exit, EmptyMap, Active
<1>2. forfeited' \in [Accounts -> Nat]
  BY UnreportedType DEF Exit, TypeOK
<1>3. orphaned' \in Nat
  BY FS_CardinalityType DEF Exit, TypeOK
<1>4. /\ IsMap(activeSessions, ClientIDs, Session)'
      /\ IsMap(ipIndex, Remotes \X HeaderIDs, ClientIDs)'
      /\ IsMap(sockets, Ports, ClientIDs)'
  BY DEF Exit, EmptyMap, IsMap
<1> QED
  BY <1>1, <1>2, <1>3, <1>4 DEF TypeOK, Exit

\* Every step keeps the variables in their types.
LEMMA NextTypeInv == TypeInv /\ [Next]_vars => TypeInv'
<1> SUFFICES ASSUME TypeInv, [Next]_vars PROVE TypeInv'
  OBVIOUS
<1>1. CASE Ignored
  BY <1>1 DEF TypeInv, TypeOK, Ignored, tables, ledger, process, Active
<1>2. ASSUME NEW c \in ClientIDs, NEW r \in Remotes, NEW t \in Templates, NEW u \in Users,
             Handshake(c, r, t, u)
      PROVE  TypeInv'
  BY <1>2, ReconnectType, NewSessionType DEF Handshake
<1>3. ASSUME NEW r \in Remotes, HandleCloseMessage(r)
      PROVE  TypeInv'
  <2>1. CASE FirstAt(r) = {}
    BY <1>3, <2>1
       DEF HandleCloseMessage, TypeInv, TypeOK, tables, ledger, process, Active
  <2>2. CASE FirstAt(r) # {}
    <3>1. FirstAt(r) \in SUBSET Active /\ EndSessions(FirstAt(r))
      BY <1>3, <2>2 DEF HandleCloseMessage, FirstAt
    <3>2. UNCHANGED <<process>> /\ sinceCheck' \in Nat /\ out' \subseteq Datagram
      BY <1>3 DEF HandleCloseMessage, TypeInv, TypeOK
    <3> QED BY <3>1, <3>2, EndSessionsType
  <2> QED BY <2>1, <2>2
<1>4. ASSUME NEW b \in binding, NEW p \in Ports, Listening(b, p)
      PROVE  TypeInv'
  BY <1>4, ListeningType
<1>5. ASSUME NEW b \in binding, BindFails(b)
      PROVE  TypeInv'
  BY <1>5 DEF BindFails, TypeInv, TypeOK, NoLedgerEntry, ledger, process, Active
<1>6. ASSUME NEW p \in Ports, NEW n \in PacketLengths, FromWireGuard(p, n)
      PROVE  TypeInv'
  BY <1>6, FromWireGuardType
<1>7. ASSUME NEW p \in Ports, NEW r \in Remotes, NEW forwarded \in BOOLEAN,
             FromClient(p, r, forwarded)
      PROVE  TypeInv'
  BY <1>7, FromClientType
<1>8. CASE TrafficInterval
  BY <1>8, TrafficIntervalType
<1>9. CASE InactivityInterval
  <2>1. Expired \in SUBSET Active /\ EndSessions(Expired) /\ UNCHANGED <<process>>
    BY <1>9 DEF InactivityInterval, Expired
  <2>2. sinceCheck' \in Nat
    BY <1>9 DEF InactivityInterval
  <2>3. out' \subseteq Datagram
    BY <1>9, <2>1, SessionFields DEF InactivityInterval, Datagram, TypeInv
  <2> QED BY <2>1, <2>2, <2>3, EndSessionsType
<1>10. CASE Tick
  BY <1>10, TickType
<1>11. CASE Exit
  BY <1>11, ExitType
<1>12. CASE Restart
  BY <1>12 DEF Restart, TypeInv, TypeOK, tables, ledger, Active
<1>13. CASE UNCHANGED vars
  BY <1>13 DEF vars, TypeInv, TypeOK, tables, ledger, process, Active
<1> QED
  BY <1>1, <1>2, <1>3, <1>4, <1>5, <1>6, <1>7, <1>8, <1>9, <1>10, <1>11, <1>12, <1>13
     DEF Next, Serve

\* The typing invariant holds in every reachable state of the server.
LEMMA TypeInvariance == Spec => []TypeInv
BY InitTypeInv, NextTypeInv, PTL DEF Spec

\* TypeOK holds in every reachable state of the server.
THEOREM TypeCorrect == Spec => []TypeOK
<1>1. TypeInv => TypeOK
  BY DEF TypeInv
<1> QED
  BY <1>1, TypeInvariance, PTL

-----------------------------------------------------------------------------
(* The two indexes agree.  A key identifies its session because the header *)
(* of a session is a prefix of its own client identifier.                  *)

HeadersOwned ==
  \A c \in Active : \E t \in Templates : activeSessions[c].headerID = HeaderID(c, t)

IndexInv == IndexesAgree /\ HeadersOwned

\* A step that leaves every session's remote and header alone, and ipIndex.
LEMMA IndexUnchanged ==
  ASSUME IndexInv, Active' = Active, ipIndex' = ipIndex,
         \A c \in Active : /\ activeSessions'[c].remote = activeSessions[c].remote
                           /\ activeSessions'[c].headerID = activeSessions[c].headerID
  PROVE  IndexInv'
<1>1. \A c \in Active : IpKey(c)' = IpKey(c)
  BY DEF IpKey
<1> QED
  BY <1>1 DEF IndexInv, IndexesAgree, HeadersOwned

\* Ending sessions removes exactly their keys.
LEMMA IndexEndSessions ==
  ASSUME IndexInv, NEW S \in SUBSET Active, EndSessions(S)
  PROVE  IndexInv'
<1> DEFINE K == {IpKey(c) : c \in S}
<1>1. activeSessions' = Without(activeSessions, S) /\ ipIndex' = Without(ipIndex, K)
  BY DEF EndSessions, Forget
<1>2. Active' = Active \ S /\ \A c \in Active' : activeSessions'[c] = activeSessions[c]
  BY <1>1 DEF Active, Without, Restrict
<1>3. \A c \in Active' : IpKey(c)' = IpKey(c)
  BY <1>2 DEF IpKey
<1>4. \A c, d \in Active : IpKey(c) = IpKey(d) => c = d
  BY DEF IndexInv, IndexesAgree
<1>5. DOMAIN ipIndex' = DOMAIN ipIndex \ K
  BY <1>1, WithoutFacts
<1>6. \A k \in DOMAIN ipIndex \ K : ipIndex'[k] = ipIndex[k]
  BY <1>1, WithoutFacts
<1>7. \A c \in Active' : IpKey(c) \in DOMAIN ipIndex \ K /\ ipIndex[IpKey(c)] = c
  BY <1>2, <1>4 DEF IndexInv, IndexesAgree
<1>8. DOMAIN ipIndex \ K = {IpKey(c) : c \in Active \ S}
  BY <1>4 DEF IndexInv, IndexesAgree
<1>9. IndexesAgree'
  <2>1. DOMAIN ipIndex' = {IpKey(c)' : c \in Active'}
    BY <1>2, <1>3, <1>5, <1>8
  <2>2. \A c \in Active' : ipIndex'[IpKey(c)'] = c
    BY <1>3, <1>6, <1>7
  <2> QED BY <2>1, <2>2 DEF IndexesAgree
<1>10. HeadersOwned'
  BY <1>2 DEF IndexInv, HeadersOwned
<1> QED
  BY <1>9, <1>10 DEF IndexInv

\* A reconnect moves the session's key with the session.
LEMMA IndexReconnect ==
  ASSUME TypeInv, IndexInv, NEW c \in ClientIDs, NEW r \in Remotes, Reconnect(c, r)
  PROVE  IndexInv'
<1> DEFINE s == activeSessions[c]
           newKey == <<r, s.headerID>>
<1>1. c \in Active /\ s \in Session
  BY SessionFields DEF Reconnect, TypeInv
<1>2. Active' = Active
  BY DEF Reconnect, Active
<1>3. \A d \in Active \ {c} : activeSessions'[d] = activeSessions[d]
  BY DEF Reconnect, Active, TypeInv, TypeOK, IsMap
<1>4. activeSessions'[c].remote = r /\ activeSessions'[c].headerID = s.headerID
  BY <1>1 DEF Reconnect, Active, TypeInv, TypeOK, IsMap, Session
<1>5. IpKey(c)' = newKey /\ \A d \in Active \ {c} : IpKey(d)' = IpKey(d)
  BY <1>3, <1>4 DEF IpKey
<1>6. HeadersOwned'
  BY <1>2, <1>3, <1>4 DEF IndexInv, HeadersOwned
<1>7. CASE s.remote = r
  BY <1>1, <1>2, <1>3, <1>4, <1>7, IndexUnchanged DEF Reconnect, Reindexed
<1>8. CASE s.remote # r
  <2>1. ipIndex' = Put(Without(ipIndex, {IpKey(c)}), newKey, c)
    BY <1>8 DEF Reconnect, Reindexed
  <2>2. \A d \in Active \ {c} : IpKey(d) # newKey /\ IpKey(d) # IpKey(c)
    BY <1>1, HeaderAssumption DEF IpKey, IndexInv, HeadersOwned, TypeInv, TypeOK, IsMap, Active
  <2>3. DOMAIN ipIndex' = (DOMAIN ipIndex \ {IpKey(c)}) \cup {newKey}
    BY <2>1 DEF Put, Without, Restrict
  <2>4. ipIndex'[newKey] = c
    BY <2>1 DEF Put, Without, Restrict
  <2>5. \A k \in DOMAIN ipIndex \ {IpKey(c), newKey} : ipIndex'[k] = ipIndex[k]
    BY <2>1 DEF Put, Without, Restrict
  <2>6. DOMAIN ipIndex' = {IpKey(d)' : d \in Active'}
    <3>1. DOMAIN ipIndex \ {IpKey(c)} = {IpKey(d) : d \in Active \ {c}}
      BY <2>2 DEF IndexInv, IndexesAgree
    <3> QED BY <1>1, <1>2, <1>5, <2>3, <3>1
  <2>7. \A d \in Active' : ipIndex'[IpKey(d)'] = d
    BY <1>2, <1>5, <2>2, <2>4, <2>5 DEF IndexInv, IndexesAgree
  <2> QED BY <1>6, <2>6, <2>7 DEF IndexInv, IndexesAgree
<1> QED
  BY <1>7, <1>8

\* A new session's key is new.
LEMMA IndexNewSession ==
  ASSUME TypeInv, IndexInv, NEW c \in ClientIDs, NEW r \in Remotes, NEW t \in Templates,
         NEW u \in Users, NewSession(c, r, t, u)
  PROVE  IndexInv'
<1> DEFINE newKey == <<r, HeaderID(c, t)>>
<1>1. /\ c \notin Active /\ Active' = Active \cup {c}
      /\ activeSessions'[c].remote = r /\ activeSessions'[c].headerID = HeaderID(c, t)
      /\ \A d \in Active : activeSessions'[d] = activeSessions[d]
  BY DEF NewSession, Active, Put
<1>2. IpKey(c)' = newKey /\ \A d \in Active : IpKey(d)' = IpKey(d)
  BY <1>1 DEF IpKey
<1>3. \A d \in Active : IpKey(d) # newKey
  BY <1>1, HeaderAssumption DEF IpKey, IndexInv, HeadersOwned, TypeInv, TypeOK, IsMap, Active
<1>4. /\ DOMAIN ipIndex' = DOMAIN ipIndex \cup {newKey}
      /\ ipIndex'[newKey] = c
      /\ \A k \in DOMAIN ipIndex \ {newKey} : ipIndex'[k] = ipIndex[k]
  BY DEF NewSession, Put
<1>5. DOMAIN ipIndex' = {IpKey(d)' : d \in Active'}
  BY <1>1, <1>2, <1>4 DEF IndexInv, IndexesAgree
<1>6. \A d \in Active' : ipIndex'[IpKey(d)'] = d
  BY <1>1, <1>2, <1>3, <1>4 DEF IndexInv, IndexesAgree
<1>7. HeadersOwned'
  BY <1>1 DEF IndexInv, HeadersOwned
<1> QED
  BY <1>5, <1>6, <1>7 DEF IndexInv, IndexesAgree

\* Every step keeps the indexes in agreement.
LEMMA NextIndexInv == TypeInv /\ IndexInv /\ [Next]_vars => IndexInv'
<1> SUFFICES ASSUME TypeInv, IndexInv, [Next]_vars PROVE IndexInv'
  OBVIOUS
<1>1. ASSUME UNCHANGED <<activeSessions, ipIndex>>
      PROVE  IndexInv'
  BY <1>1, IndexUnchanged DEF Active
<1>2. CASE Ignored
  BY <1>1, <1>2 DEF Ignored, tables
<1>3. ASSUME NEW c \in ClientIDs, NEW r \in Remotes, NEW t \in Templates, NEW u \in Users,
             Handshake(c, r, t, u)
      PROVE  IndexInv'
  BY <1>3, IndexReconnect, IndexNewSession DEF Handshake
<1>4. ASSUME NEW r \in Remotes, HandleCloseMessage(r)
      PROVE  IndexInv'
  <2>1. FirstAt(r) \in SUBSET Active
    BY DEF FirstAt
  <2> QED BY <1>1, <1>4, <2>1, IndexEndSessions DEF HandleCloseMessage, tables
<1>5. ASSUME NEW b \in binding, NEW p \in Ports, Listening(b, p)
      PROVE  IndexInv'
  BY <1>5, IndexUnchanged DEF Listening, Active, TypeInv, TypeOK, IsMap, Session
<1>6. ASSUME NEW b \in binding, BindFails(b)
      PROVE  IndexInv'
  BY <1>1, <1>6 DEF BindFails
<1>7. ASSUME NEW p \in Ports, NEW n \in PacketLengths, FromWireGuard(p, n)
      PROVE  IndexInv'
  BY <1>7, IndexUnchanged DEF FromWireGuard, Active, TypeInv, TypeOK, IsMap, Session
<1>8. ASSUME NEW p \in Ports, NEW r \in Remotes, NEW forwarded \in BOOLEAN,
             FromClient(p, r, forwarded)
      PROVE  IndexInv'
  BY <1>8, IndexUnchanged DEF FromClient, Active, TypeInv, TypeOK, IsMap, Session
<1>9. CASE TrafficInterval
  BY <1>9, IndexUnchanged DEF TrafficInterval, Active, TypeInv, TypeOK, IsMap, Session
<1>10. CASE InactivityInterval
  <2>1. Expired \in SUBSET Active
    BY DEF Expired
  <2> QED BY <1>10, <2>1, IndexEndSessions DEF InactivityInterval
<1>11. CASE Tick
  BY <1>11, IndexUnchanged DEF Tick, Active, TypeInv, TypeOK, IsMap, Session
<1>12. CASE Exit
  BY <1>12 DEF Exit, EmptyMap, IndexInv, IndexesAgree, HeadersOwned, Active
<1>13. CASE Restart
  BY <1>1, <1>13 DEF Restart, tables
<1>14. CASE UNCHANGED vars
  BY <1>1, <1>14 DEF vars, tables
<1> QED
  BY <1>2, <1>3, <1>4, <1>5, <1>6, <1>7, <1>8, <1>9, <1>10, <1>11, <1>12, <1>13, <1>14
     DEF Next, Serve

\* ipIndex mirrors activeSessions in every reachable state.
THEOREM IndexesAlwaysAgree == Spec => []IndexesAgree
<1>1. Init => IndexInv
  BY DEF Init, EmptyMap, IndexInv, IndexesAgree, HeadersOwned, Active
<1>2. IndexInv => IndexesAgree
  BY DEF IndexInv
<1> QED
  BY <1>1, <1>2, NextIndexInv, TypeInvariance, PTL DEF Spec

-----------------------------------------------------------------------------
(* Sockets, pending binds and sessions agree.  Neither half is inductive   *)
(* alone: a bind callback gives a port to the session of its identifier,   *)
(* so that session must be there and must not hold a port already.         *)

SocketInv == SocketsAgree /\ BindsAgree

\* A step that changes no session's port, no socket and no pending bind.
LEMMA SocketUnchanged ==
  ASSUME SocketInv, Active' = Active, UNCHANGED <<sockets, binding>>,
         \A c \in Active : activeSessions'[c].port = activeSessions[c].port
  PROVE  SocketInv'
BY DEF SocketInv, SocketsAgree, BindsAgree

\* Ending sessions closes exactly their sockets and cancels their binds.
LEMMA SocketEndSessions ==
  ASSUME TypeInv, SocketInv, NEW S \in SUBSET Active, EndSessions(S)
  PROVE  SocketInv'
<1> DEFINE P == {activeSessions[c].port : c \in S}
<1>1. Active' = Active \ S /\ \A c \in Active' : activeSessions'[c] = activeSessions[c]
  BY DEF EndSessions, Forget, Active, Without, Restrict
<1>2. DOMAIN sockets' = DOMAIN sockets \ P /\ \A p \in DOMAIN sockets' : sockets'[p] = sockets[p]
  BY DEF EndSessions, CloseSockets, Without, Restrict
<1>3. binding' = {b \in binding : b.clientID \notin S}
  BY DEF EndSessions, CloseSockets
<1>4. SocketsAgree'
  <2>1. ASSUME NEW p \in DOMAIN sockets'
        PROVE  sockets'[p] \in Active' /\ activeSessions'[sockets'[p]].port = p
    <3>1. sockets[p] \in Active /\ activeSessions[sockets[p]].port = p /\ p \notin P
      BY <1>2 DEF SocketInv, SocketsAgree
    <3>2. sockets[p] \notin S
      BY <3>1
    <3> QED BY <1>1, <1>2, <3>1, <3>2
  <2>2. ASSUME NEW c \in Active', activeSessions'[c].port # NoPort
        PROVE  /\ activeSessions'[c].port \in DOMAIN sockets'
               /\ sockets'[activeSessions'[c].port] = c
    <3> DEFINE p == activeSessions[c].port
    <3>1. p \in DOMAIN sockets /\ sockets[p] = c /\ c \notin S
      BY <1>1, <2>2 DEF SocketInv, SocketsAgree
    <3>2. p \notin P
      BY <3>1, <1>1, <2>2 DEF SocketInv, SocketsAgree
    <3> QED BY <1>1, <1>2, <2>2, <3>1, <3>2
  <2> QED BY <2>1, <2>2 DEF SocketsAgree
<1>5. BindsAgree'
  BY <1>1, <1>3 DEF SocketInv, BindsAgree
<1> QED
  BY <1>4, <1>5 DEF SocketInv

\* A new session waits for its one bind and holds no port.
LEMMA SocketNewSession ==
  ASSUME TypeInv, SocketInv, NEW c \in ClientIDs, NEW r \in Remotes, NEW t \in Templates,
         NEW u \in Users, NewSession(c, r, t, u)
  PROVE  SocketInv'
<1>1. /\ c \notin Active /\ Active' = Active \cup {c}
      /\ activeSessions'[c].port = NoPort
      /\ \A d \in Active : activeSessions'[d] = activeSessions[d]
  BY DEF NewSession, Active, Put
<1>2. sockets' = sockets /\ binding' = binding \cup {[clientID |-> c, remote |-> r]}
  BY DEF NewSession
<1>3. SocketsAgree'
  BY <1>1, <1>2 DEF SocketInv, SocketsAgree
<1>4. BindsAgree'
  BY <1>1, <1>2 DEF SocketInv, BindsAgree
<1> QED
  BY <1>3, <1>4 DEF SocketInv

\* The bind callback links a free port to the session that waits for it.
LEMMA SocketListening ==
  ASSUME TypeInv, SocketInv, NEW b \in binding, NEW p \in Ports, Listening(b, p)
  PROVE  SocketInv'
<1> DEFINE c == b.clientID
<1>1. c \in Active /\ activeSessions[c].port = NoPort /\ p \notin DOMAIN sockets /\ p # NoPort
  BY PortAssumption DEF SocketInv, BindsAgree, Listening
<1>2. Active' = Active /\ \A d \in Active \ {c} : activeSessions'[d] = activeSessions[d]
  BY DEF Listening, Active, TypeInv, TypeOK, IsMap
<1>3. activeSessions'[c].port = p
  BY <1>1 DEF Listening, Active, TypeInv, TypeOK, IsMap, Session
<1>4. /\ DOMAIN sockets' = DOMAIN sockets \cup {p} /\ sockets'[p] = c
      /\ \A q \in DOMAIN sockets : sockets'[q] = sockets[q]
  BY <1>1 DEF Listening, Put
<1>5. SocketsAgree'
  <2>1. \A q \in DOMAIN sockets : sockets[q] # c
    BY <1>1, PortAssumption DEF SocketInv, SocketsAgree, TypeInv, TypeOK, IsMap
  <2>2. \A q \in DOMAIN sockets' :
          sockets'[q] \in Active' /\ activeSessions'[sockets'[q]].port = q
    BY <1>1, <1>2, <1>3, <1>4, <2>1 DEF SocketInv, SocketsAgree
  <2>3. \A d \in Active' :
          activeSessions'[d].port # NoPort =>
            activeSessions'[d].port \in DOMAIN sockets' /\ sockets'[activeSessions'[d].port] = d
    BY <1>1, <1>2, <1>3, <1>4 DEF SocketInv, SocketsAgree
  <2> QED BY <2>2, <2>3 DEF SocketsAgree
<1>6. BindsAgree'
  <2>1. binding' = binding \ {b}
    BY DEF Listening
  <2>2. \A d \in binding' : d.clientID # c
    BY <2>1 DEF SocketInv, BindsAgree
  <2> QED BY <1>2, <2>1, <2>2 DEF SocketInv, BindsAgree
<1> QED
  BY <1>5, <1>6 DEF SocketInv

\* Every step keeps sockets, binds and sessions in agreement.
LEMMA NextSocketInv == TypeInv /\ SocketInv /\ [Next]_vars => SocketInv'
<1> SUFFICES ASSUME TypeInv, SocketInv, [Next]_vars PROVE SocketInv'
  OBVIOUS
<1>1. ASSUME UNCHANGED <<activeSessions, sockets, binding>>
      PROVE  SocketInv'
  BY <1>1, SocketUnchanged DEF Active
<1>2. CASE Ignored
  BY <1>1, <1>2 DEF Ignored, tables
<1>3. ASSUME NEW c \in ClientIDs, NEW r \in Remotes, NEW t \in Templates, NEW u \in Users,
             Handshake(c, r, t, u)
      PROVE  SocketInv'
  <2>1. CASE Reconnect(c, r)
    BY <2>1, SocketUnchanged DEF Reconnect, Active, TypeInv, TypeOK, IsMap, Session
  <2> QED BY <1>3, <2>1, SocketNewSession DEF Handshake
<1>4. ASSUME NEW r \in Remotes, HandleCloseMessage(r)
      PROVE  SocketInv'
  <2>1. FirstAt(r) \in SUBSET Active
    BY DEF FirstAt
  <2> QED BY <1>1, <1>4, <2>1, SocketEndSessions DEF HandleCloseMessage, tables
<1>5. ASSUME NEW b \in binding, NEW p \in Ports, Listening(b, p)
      PROVE  SocketInv'
  BY <1>5, SocketListening
<1>6. ASSUME NEW b \in binding, BindFails(b)
      PROVE  SocketInv'
  BY <1>6 DEF BindFails, SocketInv, SocketsAgree, BindsAgree, Active
<1>7. ASSUME NEW p \in Ports, NEW n \in PacketLengths, FromWireGuard(p, n)
      PROVE  SocketInv'
  BY <1>7, SocketUnchanged DEF FromWireGuard, Active, TypeInv, TypeOK, IsMap, Session
<1>8. ASSUME NEW p \in Ports, NEW r \in Remotes, NEW forwarded \in BOOLEAN,
             FromClient(p, r, forwarded)
      PROVE  SocketInv'
  BY <1>8, SocketUnchanged DEF FromClient, Active, TypeInv, TypeOK, IsMap, Session
<1>9. CASE TrafficInterval
  BY <1>9, SocketUnchanged DEF TrafficInterval, Active, TypeInv, TypeOK, IsMap, Session
<1>10. CASE InactivityInterval
  <2>1. Expired \in SUBSET Active
    BY DEF Expired
  <2> QED BY <1>10, <2>1, SocketEndSessions DEF InactivityInterval
<1>11. CASE Tick
  BY <1>11, SocketUnchanged DEF Tick, Active, TypeInv, TypeOK, IsMap, Session
<1>12. CASE Exit
  BY <1>12 DEF Exit, EmptyMap, SocketInv, SocketsAgree, BindsAgree, Active
<1>13. CASE Restart
  BY <1>1, <1>13 DEF Restart, tables
<1>14. CASE UNCHANGED vars
  BY <1>1, <1>14 DEF vars, tables
<1> QED
  BY <1>2, <1>3, <1>4, <1>5, <1>6, <1>7, <1>8, <1>9, <1>10, <1>11, <1>12, <1>13, <1>14
     DEF Next, Serve

\* Sockets, binds and sessions agree in every reachable state.
LEMMA SocketInvariance == Spec => []SocketInv
<1>1. Init => SocketInv
  BY DEF Init, EmptyMap, SocketInv, SocketsAgree, BindsAgree, Active
<1> QED
  BY <1>1, NextSocketInv, TypeInvariance, PTL DEF Spec

\* No session socket leaks and none is shared, in every reachable state.
THEOREM SocketsAlwaysAgree == Spec => []SocketsAgree
<1>1. SocketInv => SocketsAgree
  BY DEF SocketInv
<1> QED
  BY <1>1, SocketInvariance, PTL

\* A pending bind belongs to a live session without a port, always.
THEOREM BindsAlwaysAgree == Spec => []BindsAgree
<1>1. SocketInv => BindsAgree
  BY DEF SocketInv
<1> QED
  BY <1>1, SocketInvariance, PTL

\* No callback ever answers for a session that is gone: the port in a reply
\* is one where the session of the reply's client identifier listens.
THEOREM RepliesAlwaysUsable == Spec => RepliesUsable
<1> DEFINE Usable == \A m \in out' :
             m.kind \in {"connected", "reconnected"} =>
               /\ m.clientID \in Active'
               /\ m.port \in DOMAIN sockets' /\ sockets'[m.port] = m.clientID
<1>1. TypeInv /\ SocketInv /\ SocketInv' /\ [Next]_vars => [Usable]_vars
  <2> SUFFICES ASSUME TypeInv, SocketInv, SocketInv', Next PROVE Usable
    OBVIOUS
  <2>1. ASSUME NEW c \in ClientIDs, NEW r \in Remotes, Reconnect(c, r)
        PROVE  Usable
    <3>1. c \in Active /\ c \in Active'
      BY <2>1 DEF Reconnect, Active
    <3>2. CASE activeSessions[c].port = NoPort
      BY <2>1, <3>2 DEF Reconnect
    <3>3. CASE activeSessions[c].port # NoPort
      <4>1. out' = {[kind |-> "reconnected", to |-> r, clientID |-> c,
                     port |-> activeSessions[c].port]}
        BY <2>1, <3>3 DEF Reconnect
      <4>2. sockets' = sockets
        BY <2>1 DEF Reconnect
      <4> QED BY <3>1, <3>3, <4>1, <4>2 DEF SocketInv, SocketsAgree
    <3> QED BY <3>2, <3>3
  <2>2. ASSUME NEW b \in binding, NEW p \in Ports, Listening(b, p)
        PROVE  Usable
    BY <2>2 DEF Listening, Put, Active, SocketInv, BindsAgree
  <2>3. ASSUME NEW p \in Ports, NEW n \in PacketLengths, FromWireGuard(p, n)
        PROVE  Usable
    BY <2>3 DEF FromWireGuard
  <2>4. ASSUME NEW p \in Ports, NEW r \in Remotes, NEW forwarded \in BOOLEAN,
               FromClient(p, r, forwarded)
        PROVE  Usable
    BY <2>4 DEF FromClient
  <2>5. CASE InactivityInterval
    BY <2>5 DEF InactivityInterval
  <2>6. CASE out' = {}
    BY <2>6
  <2> QED
    BY <2>1, <2>2, <2>3, <2>4, <2>5, <2>6
       DEF Next, Serve, Handshake, NewSession, Ignored, HandleCloseMessage, BindFails,
           TrafficInterval, Tick, Exit, Restart
<1> QED
  BY <1>1, SocketInvariance, TypeInvariance, PTL DEF Spec, RepliesUsable

-----------------------------------------------------------------------------
(* The idle bound.  The bound alone is not inductive: what a step keeps is *)
(* that no session was silent for Timeout when the timer last looked.      *)

IdleInv ==
  /\ sinceCheck <= CheckInterval + TimerSlack
  /\ \A c \in Active : activeSessions[c].idle < Timeout + sinceCheck

\* The check interval is a number of clock units.
LEMMA IntervalType == CheckInterval \in Nat
BY TimeAssumption DEF CheckInterval

\* A step outside the clock that lets no session's idle time grow.
LEMMA IdleUnchanged ==
  ASSUME IdleInv, sinceCheck' = sinceCheck, sinceCheck \in Nat,
         \A c \in Active' : \/ activeSessions'[c].idle = 0
                            \/ c \in Active /\ activeSessions'[c].idle = activeSessions[c].idle
  PROVE  IdleInv'
BY TimeAssumption, IntervalType DEF IdleInv, CheckInterval

\* Every step keeps the idle invariant.
LEMMA NextIdleInv == TypeInv /\ IdleInv /\ [Next]_vars => IdleInv'
<1> SUFFICES ASSUME TypeInv, IdleInv, [Next]_vars PROVE IdleInv'
  OBVIOUS
<1>0. sinceCheck \in Nat
  BY DEF TypeInv, TypeOK
<1>1. ASSUME UNCHANGED <<activeSessions, sinceCheck>>
      PROVE  IdleInv'
  BY <1>0, <1>1, IdleUnchanged DEF Active
<1>2. CASE Ignored
  BY <1>1, <1>2 DEF Ignored, tables
<1>3. ASSUME NEW c \in ClientIDs, NEW r \in Remotes, NEW t \in Templates, NEW u \in Users,
             Handshake(c, r, t, u)
      PROVE  IdleInv'
  <2>1. CASE Reconnect(c, r)
    BY <1>0, <2>1, IdleUnchanged DEF Reconnect, Active, TypeInv, TypeOK, IsMap, Session
  <2>2. CASE NewSession(c, r, t, u)
    BY <1>0, <2>2, IdleUnchanged DEF NewSession, Active, Put
  <2> QED BY <1>3, <2>1, <2>2 DEF Handshake
<1>4. ASSUME NEW r \in Remotes, HandleCloseMessage(r)
      PROVE  IdleInv'
  <2>1. CASE FirstAt(r) = {}
    BY <1>1, <1>4, <2>1 DEF HandleCloseMessage, tables
  <2>2. CASE FirstAt(r) # {}
    BY <1>0, <1>4, <2>2, IdleUnchanged
       DEF HandleCloseMessage, EndSessions, Forget, Active, Without, Restrict
  <2> QED BY <2>1, <2>2
<1>5. ASSUME NEW b \in binding, NEW p \in Ports, Listening(b, p)
      PROVE  IdleInv'
  BY <1>0, <1>5, IdleUnchanged DEF Listening, Active, TypeInv, TypeOK, IsMap, Session
<1>6. ASSUME NEW b \in binding, BindFails(b)
      PROVE  IdleInv'
  BY <1>1, <1>6 DEF BindFails
<1>7. ASSUME NEW p \in Ports, NEW n \in PacketLengths, FromWireGuard(p, n)
      PROVE  IdleInv'
  BY <1>0, <1>7, IdleUnchanged DEF FromWireGuard, Active, TypeInv, TypeOK, IsMap, Session
<1>8. ASSUME NEW p \in Ports, NEW r \in Remotes, NEW forwarded \in BOOLEAN,
             FromClient(p, r, forwarded)
      PROVE  IdleInv'
  BY <1>0, <1>8, IdleUnchanged DEF FromClient, Active, TypeInv, TypeOK, IsMap, Session
<1>9. CASE TrafficInterval
  BY <1>0, <1>9, IdleUnchanged DEF TrafficInterval, Active, TypeInv, TypeOK, IsMap, Session
<1>10. CASE InactivityInterval
  <2>1. Active' = Active \ Expired /\ \A c \in Active' : activeSessions'[c] = activeSessions[c]
    BY <1>10 DEF InactivityInterval, EndSessions, Forget, Active, Without, Restrict
  <2>2. sinceCheck' = 0
    BY <1>10 DEF InactivityInterval
  <2>3. \A c \in Active' : activeSessions'[c].idle < Timeout
    BY <2>1, SessionFields, TimeAssumption DEF Expired, TypeInv
  <2> QED BY <2>2, <2>3, TimeAssumption, IntervalType DEF IdleInv, CheckInterval
<1>11. CASE Tick
  <2>1. sinceCheck < CheckInterval + TimerSlack /\ sinceCheck' = sinceCheck + 1
    BY <1>11 DEF Tick
  <2>2. \A c \in Active' : c \in Active /\ activeSessions'[c].idle = activeSessions[c].idle + 1
    BY <1>11, SessionFields DEF Tick, Active, TypeInv, Session
  <2>3. \A c \in Active : activeSessions[c].idle \in Nat
    BY SessionFields DEF TypeInv
  <2>4. \A c \in Active' : activeSessions'[c].idle < Timeout + sinceCheck'
    BY <1>0, <2>1, <2>2, <2>3, TimeAssumption DEF IdleInv
  <2>5. sinceCheck' <= CheckInterval + TimerSlack
    BY <1>0, <2>1, TimeAssumption, IntervalType
  <2>6. (CheckInterval + TimerSlack)' = CheckInterval + TimerSlack
    BY DEF CheckInterval
  <2> QED BY <2>4, <2>5, <2>6 DEF IdleInv
<1>12. CASE Exit
  BY <1>12, TimeAssumption, IntervalType DEF Exit, EmptyMap, IdleInv, Active, CheckInterval
<1>13. CASE Restart
  BY <1>1, <1>13 DEF Restart, tables
<1>14. CASE UNCHANGED vars
  BY <1>1, <1>14 DEF vars, tables
<1> QED
  BY <1>2, <1>3, <1>4, <1>5, <1>6, <1>7, <1>8, <1>9, <1>10, <1>11, <1>12, <1>13, <1>14
     DEF Next, Serve

\* No session outlives its last packet by Timeout, a check interval and the
\* timer's slack.
THEOREM IdleAlwaysBounded == Spec => []IdleBounded
<1>1. Init => IdleInv
  BY TimeAssumption, IntervalType DEF Init, EmptyMap, IdleInv, Active, CheckInterval
<1>2. TypeInv /\ IdleInv => IdleBounded
  <2> SUFFICES ASSUME TypeInv, IdleInv, NEW c \in Active
               PROVE  activeSessions[c].idle < Timeout + CheckInterval + TimerSlack
    BY DEF IdleBounded
  <2>1. activeSessions[c].idle \in Nat /\ sinceCheck \in Nat
    BY SessionFields DEF TypeInv, TypeOK
  <2> QED BY <2>1, TimeAssumption, IntervalType DEF IdleInv
<1> QED
  BY <1>1, <1>2, NextIdleInv, TypeInvariance, PTL DEF Spec

-----------------------------------------------------------------------------
(* Traffic accounting. *)

\* A step that touches neither the traffic counters nor the ledger.
LEMMA TrafficUnchanged ==
  ASSUME TrafficConserved, UNCHANGED <<relayed, billed, forfeited>>,
         \A a \in Accounts : Unreported(a)' = Unreported(a)
  PROVE  TrafficConserved'
BY DEF TrafficConserved

\* Live sessions that keep user and traffic keep what is unreported.
LEMMA UnreportedUnchanged ==
  ASSUME Active' = Active,
         \A c \in Active : /\ activeSessions'[c].user = activeSessions[c].user
                           /\ activeSessions'[c].traffic = activeSessions[c].traffic
  PROVE  \A a \in Accounts : Unreported(a)' = Unreported(a)
BY DEF Unreported

\* What an ended session had not reported yet is reported as it ends.
LEMMA TrafficEndSessions ==
  ASSUME TypeInv, TrafficConserved, NEW S \in SUBSET Active, EndSessions(S)
  PROVE  TrafficConserved'
<1> SUFFICES ASSUME NEW a \in Accounts, a[2] # NoUser
             PROVE  relayed'[a] = billed'[a] + Unreported(a)' + forfeited'[a]
  BY DEF TrafficConserved
<1>1. Active' = Active \ S /\ \A c \in Active' : activeSessions'[c] = activeSessions[c]
  BY DEF EndSessions, Forget, Active, Without, Restrict
<1>2. relayed[a] = billed[a] + Unreported(a) + forfeited[a]
  BY DEF TrafficConserved
<1>3. /\ Unreported(a) \in Nat /\ relayed[a] \in Nat /\ billed[a] \in Nat /\ forfeited[a] \in Nat
  BY UnreportedType DEF TypeInv, TypeOK
<1>4. UNCHANGED <<relayed, forfeited>>
  BY DEF EndSessions
<1>5. CASE a[1] \in S
  <2>1. Unreported(a)' = 0
    BY <1>1, <1>5 DEF Unreported
  <2>2. billed'[a] = billed[a] + Unreported(a)
    BY <1>5 DEF EndSessions, Report
  <2> QED BY <1>2, <1>3, <1>4, <2>1, <2>2
<1>6. CASE a[1] \notin S
  <2>1. Unreported(a)' = Unreported(a)
    BY <1>1, <1>6 DEF Unreported
  <2>2. billed'[a] = billed[a]
    BY <1>6 DEF EndSessions, Report
  <2> QED BY <1>2, <1>4, <2>1, <2>2
<1> QED
  BY <1>5, <1>6

\* A relayed packet is counted once, for the session's own account.
LEMMA TrafficFromWireGuard ==
  ASSUME TypeInv, TrafficConserved, NEW p \in Ports, NEW n \in PacketLengths,
         FromWireGuard(p, n)
  PROVE  TrafficConserved'
<1> DEFINE c == sockets[p]
           account == <<c, activeSessions[c].user>>
<1>1. c \in Active /\ account \in Accounts /\ n \in Nat
  BY SessionFields, LengthAssumption DEF FromWireGuard, Accounts, TypeInv
<1>2. Active' = Active /\ \A d \in Active \ {c} : activeSessions'[d] = activeSessions[d]
  BY DEF FromWireGuard, Active, TypeInv, TypeOK, IsMap
<1>3. /\ activeSessions'[c].user = activeSessions[c].user
      /\ activeSessions'[c].traffic = activeSessions[c].traffic + n
  BY <1>1 DEF FromWireGuard, Active, TypeInv, TypeOK, IsMap, Session
<1>4. UNCHANGED <<billed, forfeited>> /\ relayed' = [relayed EXCEPT ![account] = @ + n]
  BY DEF FromWireGuard
<1> SUFFICES ASSUME NEW a \in Accounts, a[2] # NoUser
             PROVE  relayed'[a] = billed'[a] + Unreported(a)' + forfeited'[a]
  BY DEF TrafficConserved
<1>5. relayed[a] = billed[a] + Unreported(a) + forfeited[a]
  BY DEF TrafficConserved
<1>6. /\ Unreported(a) \in Nat /\ relayed[a] \in Nat /\ billed[a] \in Nat /\ forfeited[a] \in Nat
  BY UnreportedType DEF TypeInv, TypeOK
<1>7. CASE a = account
  <2>1. Unreported(a)' = Unreported(a) + n
    BY <1>1, <1>2, <1>3, <1>7 DEF Unreported
  <2>2. relayed'[a] = relayed[a] + n
    BY <1>4, <1>7 DEF TypeInv, TypeOK
  <2> QED BY <1>1, <1>4, <1>5, <1>6, <2>1, <2>2
<1>8. CASE a # account
  <2>1. Unreported(a)' = Unreported(a)
    BY <1>1, <1>2, <1>3, <1>8 DEF Unreported, Accounts
  <2>2. relayed'[a] = relayed[a]
    BY <1>4, <1>8 DEF TypeInv, TypeOK
  <2> QED BY <1>4, <1>5, <2>1, <2>2
<1> QED
  BY <1>7, <1>8

\* The traffic interval moves every counter to the report.
LEMMA TrafficReported ==
  ASSUME TypeInv, TrafficConserved, TrafficInterval
  PROVE  TrafficConserved'
<1> SUFFICES ASSUME NEW a \in Accounts, a[2] # NoUser
             PROVE  relayed'[a] = billed'[a] + Unreported(a)' + forfeited'[a]
  BY DEF TrafficConserved
<1>1. relayed[a] = billed[a] + Unreported(a) + forfeited[a]
  BY DEF TrafficConserved
<1>2. /\ Unreported(a) \in Nat /\ relayed[a] \in Nat /\ billed[a] \in Nat /\ forfeited[a] \in Nat
  BY UnreportedType DEF TypeInv, TypeOK
<1>3. UNCHANGED <<relayed, forfeited>>
  BY DEF TrafficInterval
<1>4. Active' = Active /\ \A c \in Active : activeSessions'[c].traffic = 0
  BY DEF TrafficInterval, Active, TypeInv, TypeOK, IsMap, Session
<1>5. Unreported(a)' = 0
  BY <1>4 DEF Unreported
<1>6. billed'[a] = billed[a] + Unreported(a)
  BY <1>2 DEF TrafficInterval, Report, Unreported
<1> QED
  BY <1>1, <1>2, <1>3, <1>5, <1>6

\* What the end of the process leaves unreported is forfeited.
LEMMA TrafficExit ==
  ASSUME TypeInv, TrafficConserved, Exit
  PROVE  TrafficConserved'
<1> SUFFICES ASSUME NEW a \in Accounts, a[2] # NoUser
             PROVE  relayed'[a] = billed'[a] + Unreported(a)' + forfeited'[a]
  BY DEF TrafficConserved
<1>1. relayed[a] = billed[a] + Unreported(a) + forfeited[a]
  BY DEF TrafficConserved
<1>2. /\ Unreported(a) \in Nat /\ relayed[a] \in Nat /\ billed[a] \in Nat /\ forfeited[a] \in Nat
  BY UnreportedType DEF TypeInv, TypeOK
<1>3. UNCHANGED <<relayed, billed>> /\ forfeited'[a] = forfeited[a] + Unreported(a)
  BY DEF Exit
<1>4. Unreported(a)' = 0
  BY DEF Exit, EmptyMap, Unreported, Active
<1> QED
  BY <1>1, <1>2, <1>3, <1>4

\* Every step conserves traffic.
LEMMA NextTraffic == TypeInv /\ TrafficConserved /\ [Next]_vars => TrafficConserved'
<1> SUFFICES ASSUME TypeInv, TrafficConserved, [Next]_vars PROVE TrafficConserved'
  OBVIOUS
<1>0. ASSUME UNCHANGED <<relayed, billed, forfeited>>, Active' = Active,
             \A c \in Active : /\ activeSessions'[c].user = activeSessions[c].user
                               /\ activeSessions'[c].traffic = activeSessions[c].traffic
      PROVE  TrafficConserved'
  BY <1>0, UnreportedUnchanged, TrafficUnchanged
<1>1. ASSUME UNCHANGED <<activeSessions, relayed, billed, forfeited>>
      PROVE  TrafficConserved'
  BY <1>0, <1>1 DEF Active
<1>2. CASE Ignored
  BY <1>1, <1>2 DEF Ignored, tables, ledger
<1>3. ASSUME NEW c \in ClientIDs, NEW r \in Remotes, NEW t \in Templates, NEW u \in Users,
             Handshake(c, r, t, u)
      PROVE  TrafficConserved'
  <2>1. CASE Reconnect(c, r)
    BY <1>0, <2>1 DEF Reconnect, NoLedgerEntry, ledger, Active, TypeInv, TypeOK, IsMap, Session
  <2>2. CASE NewSession(c, r, t, u)
    <3>1. \A a \in Accounts : Unreported(a)' = Unreported(a)
      BY <2>2 DEF NewSession, Unreported, Active, Put
    <3> QED BY <2>2, <3>1, TrafficUnchanged DEF NewSession
  <2> QED BY <1>3, <2>1, <2>2 DEF Handshake
<1>4. ASSUME NEW r \in Remotes, HandleCloseMessage(r)
      PROVE  TrafficConserved'
  <2>1. FirstAt(r) \in SUBSET Active
    BY DEF FirstAt
  <2> QED BY <1>1, <1>4, <2>1, TrafficEndSessions DEF HandleCloseMessage, tables, ledger
<1>5. ASSUME NEW b \in binding, NEW p \in Ports, Listening(b, p)
      PROVE  TrafficConserved'
  BY <1>0, <1>5 DEF Listening, NoLedgerEntry, ledger, Active, TypeInv, TypeOK, IsMap, Session
<1>6. ASSUME NEW b \in binding, BindFails(b)
      PROVE  TrafficConserved'
  BY <1>1, <1>6 DEF BindFails, NoLedgerEntry, ledger
<1>7. ASSUME NEW p \in Ports, NEW n \in PacketLengths, FromWireGuard(p, n)
      PROVE  TrafficConserved'
  BY <1>7, TrafficFromWireGuard
<1>8. ASSUME NEW p \in Ports, NEW r \in Remotes, NEW forwarded \in BOOLEAN,
             FromClient(p, r, forwarded)
      PROVE  TrafficConserved'
  BY <1>0, <1>8 DEF FromClient, NoLedgerEntry, ledger, Active, TypeInv, TypeOK, IsMap, Session
<1>9. CASE TrafficInterval
  BY <1>9, TrafficReported
<1>10. CASE InactivityInterval
  <2>1. Expired \in SUBSET Active
    BY DEF Expired
  <2> QED BY <1>10, <2>1, TrafficEndSessions DEF InactivityInterval
<1>11. CASE Tick
  BY <1>0, <1>11 DEF Tick, NoLedgerEntry, ledger, Active, TypeInv, TypeOK, IsMap, Session
<1>12. CASE Exit
  BY <1>12, TrafficExit
<1>13. CASE Restart
  BY <1>1, <1>13 DEF Restart, tables, ledger
<1>14. CASE UNCHANGED vars
  BY <1>1, <1>14 DEF vars, tables, ledger
<1> QED
  BY <1>2, <1>3, <1>4, <1>5, <1>6, <1>7, <1>8, <1>9, <1>10, <1>11, <1>12, <1>13, <1>14
     DEF Next, Serve

\* Every byte relayed is reported once, still counted, or forfeited.
THEOREM TrafficAlwaysConserved == Spec => []TrafficConserved
<1>1. Init => TrafficConserved
  BY DEF Init, EmptyMap, TrafficConserved, Unreported, Active, Accounts
<1> QED
  BY <1>1, NextTraffic, TypeInvariance, PTL DEF Spec

-----------------------------------------------------------------------------
(* The client count. *)

\* Every step changes the count by as much as the number of live sessions.
LEMMA NextClientNum == TypeInv /\ ClientNumAgrees /\ [Next]_vars => ClientNumAgrees'
<1> SUFFICES ASSUME TypeInv, ClientNumAgrees, [Next]_vars PROVE ClientNumAgrees'
  OBVIOUS
<1>0. clientNum \in Int /\ orphaned \in Nat /\ Cardinality(Active) \in Nat /\ IsFiniteSet(Active)
  BY FS_CardinalityType DEF TypeInv, TypeOK
<1>1. ASSUME Active' = Active, UNCHANGED <<clientNum, orphaned>>
      PROVE  ClientNumAgrees'
  BY <1>1 DEF ClientNumAgrees
<1>2. ASSUME NEW S \in SUBSET Active, EndSessions(S)
      PROVE  ClientNumAgrees'
  <2>1. Active' = Active \ S
    BY <1>2 DEF EndSessions, Forget, Active, Without, Restrict
  <2>2. IsFiniteSet(S) /\ Cardinality(S) \in Nat /\ Active \cap S = S
    BY <1>0, FS_Subset, FS_CardinalityType
  <2>3. Cardinality(Active') = Cardinality(Active) - Cardinality(S)
    BY <1>0, <2>1, <2>2, FS_Difference
  <2> QED BY <1>0, <1>2, <2>2, <2>3 DEF ClientNumAgrees, EndSessions
<1>3. ASSUME NEW c \in ClientIDs, NEW r \in Remotes, NEW t \in Templates, NEW u \in Users,
             NewSession(c, r, t, u)
      PROVE  ClientNumAgrees'
  <2>1. c \notin Active /\ Active' = Active \cup {c}
    BY <1>3 DEF NewSession, Active, Put
  <2>2. Cardinality(Active') = Cardinality(Active) + 1
    BY <1>0, <2>1, FS_AddElement
  <2> QED BY <1>0, <1>3, <2>2 DEF NewSession, ClientNumAgrees
<1>4. ASSUME NEW c \in ClientIDs, NEW r \in Remotes, Reconnect(c, r)
      PROVE  ClientNumAgrees'
  BY <1>1, <1>4 DEF Reconnect, NoLedgerEntry, ledger, Active
<1>5. ASSUME NEW r \in Remotes, HandleCloseMessage(r)
      PROVE  ClientNumAgrees'
  <2>1. FirstAt(r) \in SUBSET Active
    BY DEF FirstAt
  <2> QED BY <1>1, <1>2, <1>5, <2>1 DEF HandleCloseMessage, tables, ledger, Active
<1>6. CASE InactivityInterval
  <2>1. Expired \in SUBSET Active
    BY DEF Expired
  <2> QED BY <1>2, <1>6, <2>1 DEF InactivityInterval
<1>7. CASE Exit
  <2>1. Active' = {} /\ Cardinality(Active') = 0
    BY <1>7, FS_EmptySet DEF Exit, EmptyMap, Active
  <2> QED BY <1>0, <1>7, <2>1 DEF Exit, ClientNumAgrees
<1>8. ASSUME NEW b \in binding, NEW p \in Ports, Listening(b, p)
      PROVE  ClientNumAgrees'
  BY <1>1, <1>8 DEF Listening, NoLedgerEntry, ledger, Active
<1>9. ASSUME NEW p \in Ports, NEW n \in PacketLengths, FromWireGuard(p, n)
      PROVE  ClientNumAgrees'
  BY <1>1, <1>9 DEF FromWireGuard, Active
<1>10. ASSUME NEW p \in Ports, NEW r \in Remotes, NEW forwarded \in BOOLEAN,
              FromClient(p, r, forwarded)
       PROVE  ClientNumAgrees'
  BY <1>1, <1>10 DEF FromClient, NoLedgerEntry, ledger, Active
<1>11. CASE TrafficInterval \/ Tick
  BY <1>1, <1>11 DEF TrafficInterval, Tick, NoLedgerEntry, ledger, Active
<1>12. ASSUME UNCHANGED <<activeSessions, ledger>>
       PROVE  ClientNumAgrees'
  BY <1>1, <1>12 DEF ledger, Active
<1>13. ASSUME NEW b \in binding, BindFails(b)
       PROVE  ClientNumAgrees'
  BY <1>12, <1>13 DEF BindFails, NoLedgerEntry
<1>14. CASE Ignored \/ Restart \/ UNCHANGED vars
  BY <1>12, <1>14 DEF Ignored, Restart, vars, tables
<1> QED
  BY <1>3, <1>4, <1>5, <1>6, <1>7, <1>8, <1>9, <1>10, <1>11, <1>13, <1>14
     DEF Next, Serve, Handshake

\* The reported client count is the number of live sessions plus those that
\* ended with their process.
THEOREM ClientNumAlwaysAgrees == Spec => []ClientNumAgrees
<1>1. Init => ClientNumAgrees
  BY FS_EmptySet DEF Init, EmptyMap, ClientNumAgrees, Active
<1> QED
  BY <1>1, NextClientNum, TypeInvariance, PTL DEF Spec

-----------------------------------------------------------------------------
(* The insertion order. *)

\* Ending sessions restricts the order to those that stay.
LEMMA OrderEndSessions ==
  ASSUME OrderAgrees, NEW S \in SUBSET Active, EndSessions(S)
  PROVE  OrderAgrees'
<1>1. Active' = Active \ S
  BY DEF EndSessions, Forget, Active, Without, Restrict
<1>2. older' = {p \in older : p[1] \notin S /\ p[2] \notin S}
  BY DEF EndSessions, Forget
<1>3. \A c, d \in Active' : <<c, d>> \in older' <=> <<c, d>> \in older
  BY <1>1, <1>2
<1>4. older' \subseteq Active' \X Active'
  BY <1>1, <1>2 DEF OrderAgrees
<1> QED
  BY <1>1, <1>3, <1>4 DEF OrderAgrees

\* A new session comes after all the others.
LEMMA OrderNewSession ==
  ASSUME OrderAgrees, NEW c, NEW r, NEW t, NEW u, NewSession(c, r, t, u)
  PROVE  OrderAgrees'
<1>1. c \notin Active /\ Active' = Active \cup {c}
  BY DEF NewSession, Active, Put
<1>2. older' = older \cup (Active \X {c})
  BY DEF NewSession
<1>3. \A d, e \in Active : <<d, e>> \in older' <=> <<d, e>> \in older
  BY <1>1, <1>2
<1>4. \A d \in Active : <<d, c>> \in older' /\ <<c, d>> \notin older'
  BY <1>1, <1>2 DEF OrderAgrees
<1>5. <<c, c>> \notin older'
  BY <1>1, <1>2 DEF OrderAgrees
<1>6. older' \subseteq Active' \X Active'
  BY <1>1, <1>2 DEF OrderAgrees
<1>7. \A d, e, f \in Active' :
        <<d, e>> \in older' /\ <<e, f>> \in older' => <<d, f>> \in older'
  <2> SUFFICES ASSUME NEW d \in Active', NEW e \in Active', NEW f \in Active',
                      <<d, e>> \in older', <<e, f>> \in older'
               PROVE  <<d, f>> \in older'
    OBVIOUS
  <2>1. d \in Active /\ e \in Active
    BY <1>1, <1>4, <1>5
  <2>2. CASE f = c
    BY <1>4, <2>1, <2>2
  <2>3. CASE f \in Active
    BY <1>3, <2>1, <2>3 DEF OrderAgrees
  <2> QED BY <1>1, <2>2, <2>3
<1>8. \A d, e \in Active' : d # e => (<<d, e>> \in older' <=> <<e, d>> \notin older')
  BY <1>1, <1>3, <1>4 DEF OrderAgrees
<1>9. \A d \in Active' : <<d, d>> \notin older'
  BY <1>1, <1>3, <1>5 DEF OrderAgrees
<1> QED
  BY <1>6, <1>7, <1>8, <1>9 DEF OrderAgrees

\* Every step keeps the order strict and total on the live sessions.
LEMMA NextOrder == TypeInv /\ OrderAgrees /\ [Next]_vars => OrderAgrees'
<1> SUFFICES ASSUME TypeInv, OrderAgrees, [Next]_vars PROVE OrderAgrees'
  OBVIOUS
<1>1. ASSUME Active' = Active, older' = older
      PROVE  OrderAgrees'
  BY <1>1 DEF OrderAgrees
<1>2. ASSUME NEW r \in Remotes, HandleCloseMessage(r)
      PROVE  OrderAgrees'
  <2>1. FirstAt(r) \in SUBSET Active
    BY DEF FirstAt
  <2> QED BY <1>1, <1>2, <2>1, OrderEndSessions DEF HandleCloseMessage, tables, Active
<1>3. CASE InactivityInterval
  <2>1. Expired \in SUBSET Active
    BY DEF Expired
  <2> QED BY <1>3, <2>1, OrderEndSessions DEF InactivityInterval
<1>4. ASSUME NEW c \in ClientIDs, NEW r \in Remotes, NEW t \in Templates, NEW u \in Users,
             Handshake(c, r, t, u)
      PROVE  OrderAgrees'
  BY <1>1, <1>4, OrderNewSession DEF Handshake, Reconnect, Active
<1>5. ASSUME NEW b \in binding, NEW p \in Ports, Listening(b, p)
      PROVE  OrderAgrees'
  BY <1>1, <1>5 DEF Listening, Active
<1>6. ASSUME NEW p \in Ports, NEW n \in PacketLengths, FromWireGuard(p, n)
      PROVE  OrderAgrees'
  BY <1>1, <1>6 DEF FromWireGuard, Active
<1>7. ASSUME NEW p \in Ports, NEW r \in Remotes, NEW forwarded \in BOOLEAN,
             FromClient(p, r, forwarded)
      PROVE  OrderAgrees'
  BY <1>1, <1>7 DEF FromClient, Active
<1>8. CASE TrafficInterval \/ Tick
  BY <1>1, <1>8 DEF TrafficInterval, Tick, Active
<1>9. CASE Exit
  BY <1>9 DEF Exit, EmptyMap, OrderAgrees, Active
<1>10. ASSUME NEW b \in binding, BindFails(b)
       PROVE  OrderAgrees'
  BY <1>1, <1>10 DEF BindFails, Active
<1>11. CASE Ignored \/ Restart \/ UNCHANGED vars
  BY <1>1, <1>11 DEF Ignored, Restart, vars, tables, Active
<1> QED
  BY <1>2, <1>3, <1>4, <1>5, <1>6, <1>7, <1>8, <1>9, <1>10, <1>11 DEF Next, Serve

\* The order handleCloseMessage scans is strict and total in every
\* reachable state, so the session a close ends is determined.
THEOREM OrderAlwaysAgrees == Spec => []OrderAgrees
<1>1. Init => OrderAgrees
  BY DEF Init, EmptyMap, OrderAgrees, Active
<1> QED
  BY <1>1, NextOrder, TypeInvariance, PTL DEF Spec
=============================================================================
