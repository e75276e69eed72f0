-------------------------- MODULE ProtocolTemplates --------------------------
(***************************************************************************)
(* The protocol templates: src/src/core/protocol-templates/.  A template   *)
(* puts a header in front of an obfuscated packet, so that it looks like   *)
(* QUIC, KCP or a game; the header carries the first bytes of the client's *)
(* identifier.  What a header draws from the clock or at random is "noise".*)
(***************************************************************************)
EXTENDS Integers, Sequences

CONSTANT SequenceModulus \* 65536: sequence numbers take two bytes

ASSUME ModulusAssumption == SequenceModulus \in 1..65536

\* createTemplate(1), (2) and (3); it throws on other numbers.
Templates == {"QUIC", "KCP", "GAME"}

\* What an identifier is read for: bytes of clientID, a Buffer of 16.
Identifier == [1..16 -> 0..255]

Magic == <<71, 65, 77, 69>>   \* "GAME" in ASCII

HeaderLength(t) == CASE t = "QUIC" -> 11 [] t = "KCP" -> 24 [] t = "GAME" -> 12

\* headerIDLength in server.ts
HeaderIDLength(t) == IF t = "QUIC" THEN 8 ELSE 4

-----------------------------------------------------------------------------
(* Numbers of two and four bytes, for the values that occur. *)

BE16(n) == <<n \div 256, n % 256>>
LE16(n) == <<n % 256, n \div 256>>
LE32(n) == <<n % 256, (n \div 256) % 256, (n \div 65536) % 256, n \div 16777216>>

-----------------------------------------------------------------------------
(* Encapsulation.  seq is the template's sequenceNumber. *)

Noise(t) ==
  CASE t = "QUIC" -> 0..15           \* the low half of the flags
    [] t = "KCP"  -> [1..4 -> 0..255] \* Date.now() >>> 0
    [] t = "GAME" -> (1..5) \X (0..255) \* packet type and flags

QuicHeader(id, seq, noise) == <<64 + noise>> \o SubSeq(id, 1, 8) \o BE16(seq)

KcpHeader(id, seq, noise, length) ==
  SubSeq(id, 1, 4) \o <<81, 0>> \o LE16(256) \o noise \o LE32(seq)
    \o LE32(IF seq = 0 THEN 0 ELSE seq - 1) \o LE32(length)

GameHeader(id, seq, noise) == Magic \o SubSeq(id, 1, 4) \o BE16(seq) \o noise

Encapsulate(t, id, seq, noise, data) ==
  (CASE t = "QUIC" -> QuicHeader(id, seq, noise)
     [] t = "KCP"  -> KcpHeader(id, seq, noise, Len(data))
     [] t = "GAME" -> GameHeader(id, seq, noise)) \o data

\* Mutant: the sequence number does not wrap at two bytes.
UpdateStateUnbounded(seq) == seq + 1

UpdateState(seq) == (seq + 1) % SequenceModulus

\* toString('ascii'): Node drops the top bit of each byte.
Ascii(q) == [i \in 1..Len(q) |-> q[i] % 128]

\* packet.toString('ascii', 0, 4) === 'GAME', so that C7 C1 CD C5 will do.
SaysGame(q) == Ascii(SubSeq(q, 1, 4)) = Magic

\* decapsulate returns null otherwise.
Decapsulates(t, q) ==
  /\ Len(q) >= HeaderLength(t)
  /\ t = "GAME" => SaysGame(q)

Decapsulate(t, q) == SubSeq(q, HeaderLength(t) + 1, Len(q))

-----------------------------------------------------------------------------
(* extractHeaderIDFromPacket: which template is it, and whose packet?      *)

Found(t, q, first) ==
  [templateId |-> t, headerID |-> SubSeq(q, first, first + HeaderIDLength(t) - 1)]

\* Mutant: QUIC is tried before the game's signature.
ExtractHeaderIDQuicFirst(q) ==
  IF q[1] \div 16 = 4 THEN Found("QUIC", q, 2)
  ELSE IF SaysGame(q) THEN Found("GAME", q, 5)
  ELSE Found("KCP", q, 1)

\* A packet of at least nine bytes, as every encapsulated one is.
ExtractHeaderID(q) ==
  IF SaysGame(q) THEN Found("GAME", q, 5)
  ELSE IF q[1] \div 16 = 4 THEN Found("QUIC", q, 2)
  ELSE Found("KCP", q, 1)
=============================================================================
