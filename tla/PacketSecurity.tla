---------------------------- MODULE PacketSecurity ----------------------------
(***************************************************************************)
(* The packet security layer: src/src/core/packet-security.ts.             *)
(*                                                                         *)
(* A sender numbers its packets modulo 2^32 and stamps them with its       *)
(* clock; a receiver checks a packet's time, its number against the last   *)
(* one it took, and its HMAC.  The program exports the layer but calls it  *)
(* nowhere: the caller that counts, and that remembers the last number, is *)
(* the one of docs/SECURITY.md.  The network loses, repeats, reorders,     *)
(* delays and damages packets.  Packets' data are told apart by their      *)
(* place in the order of sending.                                          *)
(***************************************************************************)
EXTENDS Integers, FiniteSets

CONSTANTS
  Half,        \* WRAP_THRESHOLD, 2^31: half of the sequence numbers
  MaxAge,      \* 300 seconds
  Skews,       \* how far the sender's clock may be ahead (or, negative, behind)
  MaxSent,     \* bound: packets sent
  MaxTime,     \* bound: the receiver's clock
  MaxInFlight  \* bound: packets in the network

ASSUME SecurityAssumption ==
  /\ Half \in Nat \ {0, 1} /\ MaxAge \in Nat
  /\ Skews \subseteq Int
  /\ MaxSent \in Nat /\ MaxTime \in Nat /\ MaxInFlight \in Nat

SequenceNumbers == 0..2 * Half - 1

VARIABLES
  start,        \* serverNonce: the number before the first packet's
  sent,         \* packets sent so far
  now, skew,    \* the receiver's clock, in seconds, and the sender's lead
  wire,         \* packets in flight
  lastSequence, \* the number of the packet taken last
  taken,        \* history: the data of the packet taken last and of all of them
  repeated      \* history: some data were taken twice

vars == <<start, sent, now, skew, wire, lastSequence, taken, repeated>>

\* The number of the n-th packet.
Sequence(n) == (start + n) % (2 * Half)

\* HMAC-SHA256, as a function that gives no value twice.  Both ends have one
\* key and one clientID.
computeHMAC(sequence, timestamp, data) == <<sequence, timestamp, data>>

\* The data 0 are none that were sent.
Packet ==
  [sequence : SequenceNumbers, timestamp : Int, data : 0..MaxSent,
   hmac : SequenceNumbers \X Int \X (1..MaxSent)]

encapsulateSecure(data, sequence, timestamp) ==
  [sequence |-> sequence, timestamp |-> timestamp, data |-> data,
   hmac |-> computeHMAC(sequence, timestamp, data)]

-----------------------------------------------------------------------------
(* The checks. *)

Distance(a, b) == IF a < b THEN b - a ELSE a - b

validateTimestamp(timestamp) == Distance(now, timestamp) <= MaxAge

\* Mutant: no number is ever taken for one that wrapped.
validateSequenceNoWrap(sequence, last) == sequence > last

\* Mutant: only the very last packet is known as repeated.
validateSequenceOnlyLast(sequence, last) == sequence # last

validateSequence(sequence, last) ==
  /\ sequence # last
  /\ (last > Half /\ sequence < Half) \/ sequence > last

\* Mutant: the data are left out of the comparison.
verifyHMACPartly(d) == d.hmac[1] = d.sequence /\ d.hmac[2] = d.timestamp

verifyHMAC(d) == d.hmac = computeHMAC(d.sequence, d.timestamp, d.data)

\* decapsulateSecure does not return null.
decapsulateSecure(d) ==
  /\ validateTimestamp(d.timestamp)
  /\ validateSequence(d.sequence, lastSequence)
  /\ verifyHMAC(d)

-----------------------------------------------------------------------------
Send ==
  /\ sent < MaxSent /\ Cardinality(wire) < MaxInFlight
  /\ sent' = sent + 1
  /\ wire' = wire \cup {encapsulateSecure(sent + 1, Sequence(sent + 1), now + skew)}
  /\ UNCHANGED <<start, now, skew, lastSequence, taken, repeated>>

\* The caller keeps the last valid number.  The network may deliver the
\* packet again.
Receive(d) ==
  /\ wire' \in {wire, wire \ {d}}
  /\ IF decapsulateSecure(d)
     THEN /\ lastSequence' = d.sequence
          /\ taken' = [last |-> d.data, all |-> taken.all \cup {d.data}]
          /\ repeated' = (repeated \/ d.data \in taken.all)
     ELSE UNCHANGED <<lastSequence, taken, repeated>>
  /\ UNCHANGED <<start, sent, now, skew>>

Lose(d) ==
  /\ wire' = wire \ {d}
  /\ UNCHANGED <<start, sent, now, skew, lastSequence, taken, repeated>>

Undamaged(d) == d = encapsulateSecure(d.data, d.sequence, d.timestamp)

\* One field is changed on the way, at most once.
Damage(d) ==
  /\ Undamaged(d)
  /\ \E e \in {[d EXCEPT !.sequence = (@ + 1) % (2 * Half)],
               [d EXCEPT !.timestamp = @ + 1], [d EXCEPT !.data = 0]} :
       wire' = (wire \ {d}) \cup {e}
  /\ UNCHANGED <<start, sent, now, skew, lastSequence, taken, repeated>>

Tick ==
  /\ now < MaxTime
  /\ now' = now + 1
  /\ UNCHANGED <<start, sent, skew, wire, lastSequence, taken, repeated>>

Init ==
  /\ start \in SequenceNumbers /\ sent = 0
  /\ now = 0 /\ skew \in Skews
  /\ wire = {}
  /\ lastSequence = start
  /\ taken = [last |-> 0, all |-> {}] /\ repeated = FALSE

Next == Send \/ Tick \/ \E d \in wire : Receive(d) \/ Lose(d) \/ Damage(d)

Spec == Init /\ [][Next]_vars

-----------------------------------------------------------------------------
(* Properties. *)

\* Every variable keeps to its type; what is taken was sent, under the number
\* that was kept.
TypeOK ==
  /\ start \in SequenceNumbers /\ sent \in 0..MaxSent
  /\ now \in 0..MaxTime /\ skew \in Skews
  /\ wire \subseteq Packet
  /\ taken \in [last : {0} \cup taken.all, all : SUBSET (1..sent)]
  /\ lastSequence = Sequence(taken.last)
  /\ repeated \in BOOLEAN

\* A packet that is newer than the one taken last, by less than half the
\* numbers, is taken when it arrives in time: neither a wrap of the numbers
\* nor packets lost or taken late before it shut it out (packet-security.ts:95).
\* "In time" is as validateTimestamp has it: at the age of maxAgeSeconds exactly
\* a packet is still taken, where docs/SECURITY.md:53 asks for a smaller age.
FreshAccepted ==
  \A d \in wire :
    /\ Undamaged(d) /\ validateTimestamp(d.timestamp)
    /\ d.data - taken.last \in 1..Half - 1
    => decapsulateSecure(d)

\* The numbers used so far lie on both sides of WRAP_THRESHOLD.
Crossed ==
  /\ \E n \in 0..sent : Sequence(n) < Half
  /\ \E n \in 0..sent : Sequence(n) > Half

\* While a session's numbers stay on one side of 2^31, nothing is taken twice,
\* or after something newer, however the network repeats, reorders and damages.
TakenInOrder == ~Crossed => ~repeated /\ \A n \in taken.all : n <= taken.last
=============================================================================
