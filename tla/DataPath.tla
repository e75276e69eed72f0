------------------------------ MODULE DataPath ------------------------------
(***************************************************************************)
(* The way of a WireGuard packet: obfuscated and encapsulated at one end,  *)
(* decapsulated and deobfuscated at the other; messageHandler in           *)
(* src/src/transport/udp/server.ts and, for the TypeScript client,         *)
(* sendToNewServer, sendToLocalWG and getHeartbeatData in client.ts, for   *)
(* the Android client handleWireGuardPacket, handleServerPacket and        *)
(* sendHeartbeat in MorphUdpClient.kt.                                     *)
(*                                                                         *)
(* A client opens sessions one after the other, each with an identifier, a *)
(* template and an obfuscator of its own; the server keeps the earlier     *)
(* ones, each on its port.  Session n's port is n, and no port is given    *)
(* to a second session.  Datagrams, answers to handshakes among them, are  *)
(* lost, repeated and arrive in any order, so that an answer may come when *)
(* the client has moved on.                                                *)
(***************************************************************************)
EXTENDS AndroidObfuscator, FiniteSets

\* The part of handshakeData that both ends work with, and who sends it.
Agreement ==
  [clientID : Identifier, obfuscator : Parameters, template : Templates,
   client : {"TypeScript", "Android"}]

CONSTANTS
  Handshakes,    \* the handshakes a client may send
  Proposed,      \* what each of them proposes
  WireGuard,     \* the packets of the two WireGuards
  RandomBytes,   \* pairs that start an obfuscated packet
  Paddings,      \* what may end it
  ReceiveBuffer, \* 2048: what the Android client reads of a datagram
  NoiseOf(_),    \* noise that occurs in headers of a template
  MaxSessions,   \* bound: sessions a client opens
  MaxInFlight    \* bound: datagrams in the network

\* What a UDP datagram holds, and what the longest header, the obfuscator's
\* three bytes and the padding add to a packet.
MaxDatagram == 65507
Overhead == 24 + 3 + MaxPadding

\* The length of a WireGuard message is 148, 92, 64 or a multiple of 16.
ASSUME DataPathAssumption ==
  /\ Proposed \in [Handshakes -> Agreement]
  /\ \A p \in WireGuard :
       p \in Packet /\ p # <<>> /\ Len(p) % 2 = 0 /\ Len(p) + Overhead <= MaxDatagram
  /\ ReceiveBuffer \in Nat \ {0} /\ ReceiveBuffer % 2 = 0
  /\ RandomBytes \subseteq Byte \X Byte
  /\ \A q \in Paddings : q \in Packet /\ Len(q) \in 1..MaxPadding
  /\ \A t \in Templates : NoiseOf(t) \subseteq Noise(t)
  /\ MaxSessions \in Nat \ {0} /\ MaxInFlight \in Nat

VARIABLES
  agreed,    \* the handshake of each session, in order
  port,      \* newServerPort: the session whose port it is, or 0
  clientSeq, \* sequence number of the client's present template
  serverSeq, \* sequence numbers of the sessions' templates
  wire,      \* datagrams in flight
  alive,     \* no exception has ended the client
  arrival,   \* history: what the last delivery carried, what came of it, and
             \* whether the Android client's buffer had held it
  misled     \* history: an answer for an earlier session was accepted

vars == <<agreed, port, clientSeq, serverSeq, wire, alive, arrival, misled>>

current == Len(agreed)
Sessions == 1..current
Agreed(n) == Proposed[agreed[n]]

\* "packet" is what was wrapped, <<>> for a heartbeat; the program sees only
\* the bytes and the two ends.
Datagram ==
  [to : {"server", "client"}, port : 1..MaxSessions, bytes : Packet,
   packet : WireGuard \cup {<<>>}]

-----------------------------------------------------------------------------
(* Wrapping and unwrapping with the parameters of one session. *)

\* messageHandler and the TypeScript client's sendToNewServer
Wrap(a, seq, r, padding, noise, p) ==
  Encapsulate(a.template, a.clientID, seq, noise, Obfuscate(a.obfuscator, r[1], r[2], padding, p))

\* handleWireGuardPacket
AndroidWrap(a, seq, r, padding, noise, p) ==
  AndroidEncapsulate(a.template, a.clientID, seq, noise,
                     AndroidObfuscate(a.obfuscator, r[1], r[2], padding, p))

WrapAtClient(a, seq, r, padding, noise, p) ==
  IF a.client = "Android" THEN AndroidWrap(a, seq, r, padding, noise, p)
  ELSE Wrap(a, seq, r, padding, noise, p)

\* The heartbeat is one byte, which no obfuscator touches.
HeartbeatData(a, seq, noise) ==
  IF a.client = "Android" THEN AndroidEncapsulate(a.template, a.clientID, seq, noise, <<1>>)
  ELSE Encapsulate(a.template, a.clientID, seq, noise, <<1>>)

IsHeartbeat(q) == q = <<1>>

\* No packets: decapsulate returns null, deobfuscation throws.
Refused == <<-1>>
Thrown == <<-2>>

\* sendToLocalWG, and the end of messageHandler
Unwrap(a, bytes) ==
  LET q == Decapsulate(a.template, bytes)
  IN IF ~Decapsulates(a.template, bytes) THEN Refused
     ELSE IF ~WellFormed(q) THEN Thrown
     ELSE Deobfuscate(a.obfuscator, q)

\* handleServerPacket
AndroidUnwrap(a, bytes) ==
  LET q == Decapsulate(a.template, bytes)
  IN IF ~AndroidDecapsulates(a.template, bytes) THEN Refused
     ELSE IF ~WellFormed(q) THEN Thrown
     ELSE AndroidDeobfuscate(a.obfuscator, q)

UnwrapAtClient(a, bytes) ==
  IF a.client = "Android" THEN AndroidUnwrap(a, bytes) ELSE Unwrap(a, bytes)

\* receivePackets of the Android client reads a datagram of the server, or a
\* packet of WireGuard, into its buffer; what does not fit is gone.
CutShort(a, q) == a.client = "Android" /\ Len(q) > ReceiveBuffer

Received(a, q) == IF CutShort(a, q) THEN SubSeq(q, 1, ReceiveBuffer) ELSE q

\* messageHandler looks for heartbeats first.
UnwrapAtServer(a, bytes) ==
  IF Decapsulates(a.template, bytes) /\ IsHeartbeat(Decapsulate(a.template, bytes))
  THEN <<>>
  ELSE Unwrap(a, bytes)

\* Where a new template starts to count, and the client's updateState.
FirstNumbers(a) ==
  0..(IF a.client = "Android" THEN AndroidModulus(a.template) ELSE SequenceModulus) - 1

UpdateAtClient(a, seq) ==
  IF a.client = "Android" THEN AndroidUpdateState(a.template, seq) ELSE UpdateState(seq)

-----------------------------------------------------------------------------
(* Sending. *)

Send(d) ==
  /\ Cardinality(wire) < MaxInFlight
  /\ wire' = wire \cup {d}

\* startUdpClient, and the reconnection in checkInactivity, of one and the same
\* client.  The handshake tells the server where the sequence numbers start.
Propose(h, seq) ==
  /\ alive /\ current < MaxSessions
  /\ \A n \in Sessions : Agreed(n).client = Proposed[h].client
  /\ agreed' = Append(agreed, h)
  /\ port' = 0
  /\ clientSeq' = seq
  /\ serverSeq' = Append(serverSeq, seq)
  /\ UNCHANGED <<wire, alive, arrival, misled>>

\* An answer to any handshake so far; the client uses its port even when it
\* names another identifier.
ServerResponse(n) ==
  /\ alive
  /\ port' = n
  /\ misled' = (misled \/ n # current)
  /\ UNCHANGED <<agreed, clientSeq, serverSeq, wire, alive, arrival>>

SendToNewServer(p, r, padding, noise) ==
  /\ alive /\ port # 0
  /\ Send([to |-> "server", port |-> port, packet |-> p,
           bytes |-> WrapAtClient(Agreed(current), clientSeq, r, padding, noise,
                                  Received(Agreed(current), p))])
  /\ clientSeq' = UpdateAtClient(Agreed(current), clientSeq)
  /\ UNCHANGED <<agreed, port, serverSeq, alive, arrival, misled>>

HeartBeatInterval(noise) ==
  /\ alive /\ port # 0
  /\ Send([to |-> "server", port |-> port, packet |-> <<>>,
           bytes |-> HeartbeatData(Agreed(current), clientSeq, noise)])
  /\ clientSeq' = UpdateAtClient(Agreed(current), clientSeq)
  /\ UNCHANGED <<agreed, port, serverSeq, alive, arrival, misled>>

\* messageHandler, for a packet of the server's WireGuard
FromWireGuard(n, p, r, padding, noise) ==
  /\ Send([to |-> "client", port |-> n, packet |-> p,
           bytes |-> Wrap(Agreed(n), serverSeq[n], r, padding, noise, p)])
  /\ serverSeq' = [serverSeq EXCEPT ![n] = UpdateState(@)]
  /\ UNCHANGED <<agreed, port, clientSeq, alive, arrival, misled>>

-----------------------------------------------------------------------------
(* Receiving.  A delivered datagram may be delivered again. *)

Deliver(d) == wire' \in {wire, wire \ {d}}

\* messageHandler, for a datagram of the client; an exception is only logged.
FromClient(d) ==
  /\ d.to = "server"
  /\ Deliver(d)
  /\ arrival' = [sent |-> d.packet, got |-> UnwrapAtServer(Agreed(d.port), d.bytes),
                 whole |-> ~CutShort(Agreed(d.port), d.packet)]
  /\ UNCHANGED <<agreed, port, clientSeq, serverSeq, alive, misled>>

\* Mutant: any port of the server is the client's session.
FromThisPortUnchecked(d) == TRUE

\* remote.port === newServerPort; anything else is from an "unknown server".
FromThisPort(d) == d.port = port

\* The message handler, for a datagram of a session.  An exception ends the
\* TypeScript client; the Android client's receivePackets logs it.
FromNewServer(d) ==
  LET got == UnwrapAtClient(Agreed(current), Received(Agreed(current), d.bytes))
  IN /\ alive /\ d.to = "client" /\ FromThisPort(d)
     /\ Deliver(d)
     /\ arrival' = [sent |-> d.packet, got |-> got,
                    whole |-> ~CutShort(Agreed(current), d.bytes)]
     /\ alive' = (got # Thrown \/ Agreed(current).client = "Android")
     /\ UNCHANGED <<agreed, port, clientSeq, serverSeq, misled>>

Lose(d) ==
  /\ wire' = wire \ {d}
  /\ UNCHANGED <<agreed, port, clientSeq, serverSeq, alive, arrival, misled>>

-----------------------------------------------------------------------------
Init ==
  /\ agreed = <<>> /\ port = 0
  /\ clientSeq = 0 /\ serverSeq = <<>>
  /\ wire = {} /\ alive = TRUE
  /\ arrival = [sent |-> <<>>, got |-> <<>>, whole |-> TRUE]
  /\ misled = FALSE

Handshaking ==
  \/ \E h \in Handshakes : \E seq \in FirstNumbers(Proposed[h]) : Propose(h, seq)
  \/ \E n \in Sessions : ServerResponse(n)

Sends ==
  \E p \in WireGuard, r \in RandomBytes, padding \in Paddings :
    \/ current > 0 /\ Len(padding) <= Agreed(current).obfuscator.paddingLength
         /\ \E noise \in NoiseOf(Agreed(current).template) : SendToNewServer(p, r, padding, noise)
    \/ \E n \in Sessions :
         Len(padding) <= Agreed(n).obfuscator.paddingLength
           /\ \E noise \in NoiseOf(Agreed(n).template) : FromWireGuard(n, p, r, padding, noise)

Heartbeats ==
  current > 0 /\ \E noise \in NoiseOf(Agreed(current).template) : HeartBeatInterval(noise)

Next ==
  \/ Handshaking \/ Sends \/ Heartbeats
  \/ \E d \in wire : FromClient(d) \/ FromNewServer(d) \/ Lose(d)

Spec == Init /\ [][Next]_vars

-----------------------------------------------------------------------------
(* Properties. *)

\* Every variable keeps to its type; what goes on the wire is bytes.
TypeOK ==
  /\ agreed \in Seq(Handshakes) /\ current <= MaxSessions
  /\ port \in 0..current
  /\ clientSeq = 0 \/ clientSeq \in FirstNumbers(Agreed(current))
  /\ serverSeq \in Seq(Nat) /\ Len(serverSeq) = current
  /\ \A n \in Sessions : serverSeq[n] \in FirstNumbers(Agreed(n))
  /\ wire \subseteq Datagram /\ \A d \in wire : d.port \in Sessions
  /\ alive \in BOOLEAN /\ misled \in BOOLEAN
  /\ arrival \in
       [sent : WireGuard \cup {<<>>}, got : Packet \cup {Refused, Thrown}, whole : BOOLEAN]

\* Unless an answer for an earlier session misled the client, every datagram
\* that is not discarded for its port, and that no buffer of the Android client
\* cut short, becomes what was sent: WireGuard gets each packet byte for byte, a
\* heartbeat goes no further than the server, and no decapsulation refuses, no
\* deobfuscation throws.  No exception ends the client.
ArrivesAsSent == ~misled => alive /\ (arrival.whole => arrival.got = arrival.sent)

\* extractHeaderIDFromPacket finds in each datagram of a client the identifier
\* under which server.ts:288 files its session, and the template, but for a KCP
\* conversation that begins like QUIC's flags or, its top bits dropped, with
\* "GAME", and a QUIC header that happens to begin so.
HeaderRecognised ==
  \A d \in wire : \A n \in Sessions :
    LET a == Agreed(n)
        id == a.clientID
    IN /\ d.port = n /\ (d.to = "client" \/ ~misled)
       /\ a.template = "KCP" => id[1] \div 16 # 4 /\ ~SaysGame(id)
       /\ a.template = "QUIC" =>
            d.bytes[1] # Magic[1] \/ Ascii(SubSeq(id, 1, 3)) # SubSeq(Magic, 2, 4)
       => ExtractHeaderID(d.bytes)
            = [templateId |-> a.template, headerID |-> SubSeq(id, 1, HeaderIDLength(a.template))]
=============================================================================
