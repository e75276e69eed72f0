---------------------------- MODULE DataPathProofs ----------------------------
(***************************************************************************)
(* From bits to datagrams.  First what the operators of Obfuscator,        *)
(* AndroidObfuscator and ProtocolTemplates do: what is obfuscated is       *)
(* deobfuscated to the same packet, for every packet of even length, all   *)
(* parameters, every choice of functions and padding, and the Android      *)
(* client makes the same bytes as the TypeScript code.  Then DataPath:     *)
(* every datagram becomes what was sent, its session is recognised, and    *)
(* what goes on the wire is bytes, for both clients, all identifiers,      *)
(* templates and parameters, and any number of sessions and of datagrams.  *)
(***************************************************************************)
EXTENDS DataPath, TLAPS

-----------------------------------------------------------------------------
(* Bytes. *)

\* The bits of a byte are bits.
LEMMA BitIsBit ==
  ASSUME NEW b \in Byte, NEW i \in 1..8
  PROVE  Bit(b, i) \in 0..1
BY DEF Bit, Power, Byte

\* Bits make a byte.
LEMMA BitsMakeByte ==
  ASSUME NEW f \in [1..8 -> 0..1]
  PROVE  OfBits(f) \in Byte
<1>1. /\ f[1] \in 0..1 /\ f[2] \in 0..1 /\ f[3] \in 0..1 /\ f[4] \in 0..1
      /\ f[5] \in 0..1 /\ f[6] \in 0..1 /\ f[7] \in 0..1 /\ f[8] \in 0..1
  OBVIOUS
<1> QED BY <1>1 DEF OfBits, Byte

\* A byte is what its bits make.
LEMMA ByteOfItsBits ==
  ASSUME NEW b \in Byte
  PROVE  OfBits([i \in 1..8 |-> Bit(b, i)]) = b
<1> DEFINE f == [i \in 1..8 |-> Bit(b, i)]
<1>1. /\ f[1] = b % 2 /\ f[2] = (b \div 2) % 2 /\ f[3] = (b \div 4) % 2 /\ f[4] = (b \div 8) % 2
      /\ f[5] = (b \div 16) % 2 /\ f[6] = (b \div 32) % 2 /\ f[7] = (b \div 64) % 2
      /\ f[8] = (b \div 128) % 2
  BY DEF Bit, Power, Byte
<1> HIDE DEF f
<1>2. OfBits(f) = b
  BY <1>1 DEF OfBits, Byte
<1> QED BY <1>2 DEF f

\* The bits of a byte made of bits are those.
LEMMA BitsOfMadeByte ==
  ASSUME NEW f \in [1..8 -> 0..1], NEW i \in 1..8
  PROVE  Bit(OfBits(f), i) = f[i]
<1>1. /\ f[1] \in 0..1 /\ f[2] \in 0..1 /\ f[3] \in 0..1 /\ f[4] \in 0..1
      /\ f[5] \in 0..1 /\ f[6] \in 0..1 /\ f[7] \in 0..1 /\ f[8] \in 0..1
  OBVIOUS
<1>2. CASE i = 1 BY <1>1, <1>2 DEF OfBits, Bit, Power
<1>3. CASE i = 2 BY <1>1, <1>3 DEF OfBits, Bit, Power
<1>4. CASE i = 3 BY <1>1, <1>4 DEF OfBits, Bit, Power
<1>5. CASE i = 4 BY <1>1, <1>5 DEF OfBits, Bit, Power
<1>6. CASE i = 5 BY <1>1, <1>6 DEF OfBits, Bit, Power
<1>7. CASE i = 6 BY <1>1, <1>7 DEF OfBits, Bit, Power
<1>8. CASE i = 7 BY <1>1, <1>8 DEF OfBits, Bit, Power
<1>9. CASE i = 8 BY <1>1, <1>9 DEF OfBits, Bit, Power
<1> QED BY <1>2, <1>3, <1>4, <1>5, <1>6, <1>7, <1>8, <1>9

\* XOR with the same byte twice changes nothing.
LEMMA XorIsByte ==
  ASSUME NEW a \in Byte, NEW k \in Byte
  PROVE  Xor(a, k) \in Byte
<1> DEFINE f == [i \in 1..8 |-> (Bit(a, i) + Bit(k, i)) % 2]
<1>1. f \in [1..8 -> 0..1]
  BY BitIsBit
<1> QED BY <1>1, BitsMakeByte DEF Xor

LEMMA XorTwice ==
  ASSUME NEW a \in Byte, NEW k \in Byte
  PROVE  Xor(Xor(a, k), k) = a
<1> DEFINE f == [i \in 1..8 |-> (Bit(a, i) + Bit(k, i)) % 2]
           g == [i \in 1..8 |-> (Bit(Xor(a, k), i) + Bit(k, i)) % 2]
<1>1. f \in [1..8 -> 0..1]
  BY BitIsBit
<1>2. \A i \in 1..8 : Bit(Xor(a, k), i) = f[i]
  <2> HIDE DEF f
  <2>1. \A i \in 1..8 : Bit(OfBits(f), i) = f[i]
    BY <1>1, BitsOfMadeByte
  <2> QED BY <2>1 DEF Xor, f
<1>3. \A i \in 1..8 : g[i] = Bit(a, i)
  BY <1>2, BitIsBit
<1>4. g = [i \in 1..8 |-> Bit(a, i)]
  BY <1>3
<1> QED BY <1>4, ByteOfItsBits DEF Xor

\* Rotations of a byte, and back.
LEMMA RotLIsByte ==
  ASSUME NEW b \in Byte, NEW s \in 0..8
  PROVE  RotL(b, s) \in Byte
<1>0. CASE s = 0 BY <1>0 DEF RotL, Power, Byte
<1>1. CASE s = 1 BY <1>1 DEF RotL, Power, Byte
<1>2. CASE s = 2 BY <1>2 DEF RotL, Power, Byte
<1>3. CASE s = 3 BY <1>3 DEF RotL, Power, Byte
<1>4. CASE s = 4 BY <1>4 DEF RotL, Power, Byte
<1>5. CASE s = 5 BY <1>5 DEF RotL, Power, Byte
<1>6. CASE s = 6 BY <1>6 DEF RotL, Power, Byte
<1>7. CASE s = 7 BY <1>7 DEF RotL, Power, Byte
<1>8. CASE s = 8 BY <1>8 DEF RotL, Power, Byte
<1> QED BY <1>0, <1>1, <1>2, <1>3, <1>4, <1>5, <1>6, <1>7, <1>8

LEMMA RotLBack ==
  ASSUME NEW b \in Byte, NEW s \in 0..8
  PROVE  RotL(RotL(b, s), 8 - s) = b
<1>0. CASE s = 0 BY <1>0 DEF RotL, Power, Byte
<1>1. CASE s = 1 BY <1>1 DEF RotL, Power, Byte
<1>2. CASE s = 2 BY <1>2 DEF RotL, Power, Byte
<1>3. CASE s = 3 BY <1>3 DEF RotL, Power, Byte
<1>4. CASE s = 4 BY <1>4 DEF RotL, Power, Byte
<1>5. CASE s = 5 BY <1>5 DEF RotL, Power, Byte
<1>6. CASE s = 6 BY <1>6 DEF RotL, Power, Byte
<1>7. CASE s = 7 BY <1>7 DEF RotL, Power, Byte
<1>8. CASE s = 8 BY <1>8 DEF RotL, Power, Byte
<1> QED BY <1>0, <1>1, <1>2, <1>3, <1>4, <1>5, <1>6, <1>7, <1>8

\* The bits in reverse order, twice.
LEMMA ReverseTwice ==
  ASSUME NEW b \in Byte
  PROVE  LET r == OfBits([j \in 1..8 |-> Bit(b, 9 - j)])
         IN r \in Byte /\ OfBits([j \in 1..8 |-> Bit(r, 9 - j)]) = b
<1> DEFINE f == [j \in 1..8 |-> Bit(b, 9 - j)]
           r == OfBits(f)
           g == [j \in 1..8 |-> Bit(r, 9 - j)]
<1>1. f \in [1..8 -> 0..1]
  BY BitIsBit
<1>2. r \in Byte
  BY <1>1, BitsMakeByte
<1>3. \A i \in 1..8 : Bit(r, i) = f[i]
  <2> HIDE DEF f
  <2> QED BY <1>1, BitsOfMadeByte
<1>4. \A j \in 1..8 : g[j] = Bit(b, j)
  <2> SUFFICES ASSUME NEW j \in 1..8 PROVE Bit(r, 9 - j) = Bit(b, j)
    OBVIOUS
  <2>1. 9 - j \in 1..8 /\ 9 - (9 - j) = j
    OBVIOUS
  <2>2. Bit(r, 9 - j) = f[9 - j]
    BY <1>3, <2>1
  <2> QED BY <2>1, <2>2
<1>5. g = [j \in 1..8 |-> Bit(b, j)]
  BY <1>4
<1> QED BY <1>2, <1>5, ByteOfItsBits

\* A value of the table is found where it is.
LEMMA FindIndexBack ==
  ASSUME NEW t \in Table, NEW b \in Byte
  PROVE  t[b] \in Byte /\ FindIndex(t, t[b]) = b
<1>1. /\ t[b] \in Byte
      /\ \A a \in Byte : t[a] = t[b] => a = b
  BY DEF Table
<1>2. \A c \in 0..b - 1 : c \in Byte /\ c # b
  BY DEF Byte
<1>3. \A a \in Byte : (t[a] = t[b] /\ \A c \in 0..a - 1 : t[c] # t[b]) <=> a = b
  BY <1>1, <1>2
<1>4. (CHOOSE a \in Byte : t[a] = t[b] /\ \A c \in 0..a - 1 : t[c] # t[b]) = b
  BY <1>3
<1> QED BY <1>1, <1>4 DEF FindIndex

-----------------------------------------------------------------------------
(* Packets.  A function and its inverse keep the length. *)

LEMMA MadePacket ==
  ASSUME NEW n \in Nat, NEW f \in [1..n -> Byte]
  PROVE  f \in Packet /\ Len(f) = n
BY DEF Packet

LEMMA SamePacket ==
  ASSUME NEW p \in Packet, NEW f, f = [i \in 1..Len(p) |-> p[i]]
  PROVE  f = p
BY DEF Packet

LEMMA Bytes ==
  ASSUME NEW p \in Packet
  PROVE  Len(p) \in Nat /\ \A i \in 1..Len(p) : p[i] \in Byte
BY DEF Packet

LEMMA Shifts ==
  ASSUME NEW i \in Nat \ {0}
  PROVE  Shift(i) \in 1..8
BY DEF Shift

LEMMA KeyBefore ==
  ASSUME NEW k \in Packet, NEW i \in 1..Len(k)
  PROVE  Before(k, i) \in Byte
BY DEF Before, Packet

LEMMA RotationAndXOR ==
  ASSUME NEW p \in Packet, NEW k \in Packet, Len(k) = Len(p)
  PROVE  LET q == bitwiseRotationAndXOR(p, k)
         IN q \in Packet /\ Len(q) = Len(p) /\ de_bitwiseRotationAndXOR(q, k) = p
<1> DEFINE q == bitwiseRotationAndXOR(p, k)
<1>1. \A i \in 1..Len(p) : p[i] \in Byte
  BY Bytes
<1>2. \A i \in 1..Len(p) : Xor(RotL(p[i], Shift(i)), Before(k, i)) \in Byte /\ RotL(Xor(Xor(RotL(p[i], Shift(i)), Before(k, i)), Before(k, i)), 8 - Shift(i)) = p[i]
  <2> SUFFICES ASSUME NEW i \in 1..Len(p)
               PROVE  /\ Xor(RotL(p[i], Shift(i)), Before(k, i)) \in Byte
                      /\ RotL(Xor(Xor(RotL(p[i], Shift(i)), Before(k, i)), Before(k, i)),
                              8 - Shift(i)) = p[i]
    OBVIOUS
  <2>1. p[i] \in Byte /\ Before(k, i) \in Byte
    BY <1>1, KeyBefore
  <2>2. Shift(i) \in 0..8
    BY Shifts, Bytes
  <2>3. RotL(p[i], Shift(i)) \in Byte
    BY <2>1, <2>2, RotLIsByte
  <2>4. RotL(RotL(p[i], Shift(i)), 8 - Shift(i)) = p[i]
    BY <2>1, <2>2, RotLBack
  <2> QED BY <2>1, <2>3, <2>4, XorIsByte, XorTwice
<1>3. q \in [1..Len(p) -> Byte] /\ \A i \in 1..Len(p) : q[i] = Xor(RotL(p[i], Shift(i)), Before(k, i))
  BY <1>2 DEF bitwiseRotationAndXOR
<1>4. q \in Packet /\ Len(q) = Len(p)
  BY <1>3, MadePacket, Bytes
<1>5. de_bitwiseRotationAndXOR(q, k) = [i \in 1..Len(p) |-> p[i]]
  BY <1>2, <1>3, <1>4 DEF de_bitwiseRotationAndXOR
<1> QED BY <1>4, <1>5, SamePacket

LEMMA CircularShift ==
  ASSUME NEW p \in Packet
  PROVE  LET q == circularShiftObfuscation(p)
         IN q \in Packet /\ Len(q) = Len(p) /\ de_circularShiftObfuscation(q) = p
<1> DEFINE q == circularShiftObfuscation(p)
<1>1. \A i \in 1..Len(p) : p[i] \in Byte
  BY Bytes
<1>2. \A i \in 1..Len(p) : RotL(p[i], 1) \in Byte /\ RotL(RotL(p[i], 1), 7) = p[i]
  BY <1>1, RotLIsByte, RotLBack
<1>3. q \in [1..Len(p) -> Byte] /\ \A i \in 1..Len(p) : q[i] = RotL(p[i], 1)
  BY <1>2 DEF circularShiftObfuscation
<1>4. q \in Packet /\ Len(q) = Len(p)
  BY <1>3, MadePacket, Bytes
<1>5. de_circularShiftObfuscation(q) = [i \in 1..Len(p) |-> p[i]]
  BY <1>2, <1>3, <1>4 DEF de_circularShiftObfuscation
<1> QED BY <1>4, <1>5, SamePacket

LEMMA XorKey ==
  ASSUME NEW p \in Packet, NEW k \in Packet, Len(k) = Len(p)
  PROVE  LET q == xorWithKey(p, k)
         IN q \in Packet /\ Len(q) = Len(p) /\ xorWithKey(q, k) = p
<1> DEFINE q == xorWithKey(p, k)
<1>1. \A i \in 1..Len(p) : p[i] \in Byte
  BY Bytes
<1>2. \A i \in 1..Len(p) : Xor(p[i], k[i]) \in Byte /\ Xor(Xor(p[i], k[i]), k[i]) = p[i]
  BY <1>1, Bytes, XorIsByte, XorTwice
<1>3. q \in [1..Len(p) -> Byte] /\ \A i \in 1..Len(p) : q[i] = Xor(p[i], k[i])
  BY <1>2 DEF xorWithKey
<1>4. q \in Packet /\ Len(q) = Len(p)
  BY <1>3, MadePacket, Bytes
<1>5. xorWithKey(q, k) = [i \in 1..Len(p) |-> p[i]]
  BY <1>2, <1>3, <1>4 DEF xorWithKey
<1> QED BY <1>4, <1>5, SamePacket

LEMMA NotTwice ==
  ASSUME NEW b \in Byte
  PROVE  255 - b \in Byte /\ 255 - (255 - b) = b
BY DEF Byte

LEMMA Not ==
  ASSUME NEW p \in Packet
  PROVE  LET q == bitwiseNOT(p)
         IN q \in Packet /\ Len(q) = Len(p) /\ bitwiseNOT(q) = p
<1> DEFINE q == bitwiseNOT(p)
<1>1. \A i \in 1..Len(p) : p[i] \in Byte
  BY Bytes
<1>2. \A i \in 1..Len(p) : (255 - p[i]) \in Byte /\ 255 - (255 - p[i]) = p[i]
  BY <1>1, NotTwice
<1>3. q \in [1..Len(p) -> Byte] /\ \A i \in 1..Len(p) : q[i] = (255 - p[i])
  BY <1>2 DEF bitwiseNOT
<1>4. q \in Packet /\ Len(q) = Len(p)
  BY <1>3, MadePacket, Bytes
<1>5. bitwiseNOT(q) = [i \in 1..Len(p) |-> p[i]]
  BY <1>2, <1>3, <1>4 DEF bitwiseNOT
<1> QED BY <1>4, <1>5, SamePacket

LEMMA ReverseBits ==
  ASSUME NEW p \in Packet
  PROVE  LET q == reverseBits(p)
         IN q \in Packet /\ Len(q) = Len(p) /\ reverseBits(q) = p
<1> DEFINE q == reverseBits(p)
<1>1. \A i \in 1..Len(p) : p[i] \in Byte
  BY Bytes
<1>2. \A i \in 1..Len(p) : OfBits([j \in 1..8 |-> Bit(p[i], 9 - j)]) \in Byte /\ OfBits([j \in 1..8 |-> Bit(OfBits([m \in 1..8 |-> Bit(p[i], 9 - m)]), 9 - j)]) = p[i]
  BY <1>1, ReverseTwice
<1>3. q \in [1..Len(p) -> Byte] /\ \A i \in 1..Len(p) : q[i] = OfBits([j \in 1..8 |-> Bit(p[i], 9 - j)])
  BY <1>2 DEF reverseBits
<1>4. q \in Packet /\ Len(q) = Len(p)
  BY <1>3, MadePacket, Bytes
<1>5. reverseBits(q) = [i \in 1..Len(p) |-> p[i]]
  BY <1>2, <1>3, <1>4 DEF reverseBits
<1> QED BY <1>4, <1>5, SamePacket

LEMMA ShiftBits ==
  ASSUME NEW p \in Packet
  PROVE  LET q == shiftBits(p)
         IN q \in Packet /\ Len(q) = Len(p) /\ de_shiftBits(q) = p
<1> DEFINE q == shiftBits(p)
<1>1. \A i \in 1..Len(p) : p[i] \in Byte
  BY Bytes
<1>2. \A i \in 1..Len(p) : RotL(p[i], 2) \in Byte /\ RotL(RotL(p[i], 2), 6) = p[i]
  BY <1>1, RotLIsByte, RotLBack
<1>3. q \in [1..Len(p) -> Byte] /\ \A i \in 1..Len(p) : q[i] = RotL(p[i], 2)
  BY <1>2 DEF shiftBits
<1>4. q \in Packet /\ Len(q) = Len(p)
  BY <1>3, MadePacket, Bytes
<1>5. de_shiftBits(q) = [i \in 1..Len(p) |-> p[i]]
  BY <1>2, <1>3, <1>4 DEF de_shiftBits
<1> QED BY <1>4, <1>5, SamePacket

LEMMA Substitution ==
  ASSUME NEW p \in Packet, NEW t \in Table
  PROVE  LET q == substitution(p, t)
         IN q \in Packet /\ Len(q) = Len(p) /\ de_substitution(q, t) = p
<1> DEFINE q == substitution(p, t)
<1>1. \A i \in 1..Len(p) : p[i] \in Byte
  BY Bytes
<1>2. \A i \in 1..Len(p) : t[p[i]] \in Byte /\ FindIndex(t, t[p[i]]) = p[i]
  BY <1>1, FindIndexBack
<1>3. q \in [1..Len(p) -> Byte] /\ \A i \in 1..Len(p) : q[i] = t[p[i]]
  BY <1>2 DEF substitution
<1>4. q \in Packet /\ Len(q) = Len(p)
  BY <1>3, MadePacket, Bytes
<1>5. de_substitution(q, t) = [i \in 1..Len(p) |-> p[i]]
  BY <1>2, <1>3, <1>4 DEF de_substitution
<1> QED BY <1>4, <1>5, SamePacket

LEMMA AddTwice ==
  ASSUME NEW b \in Byte, NEW r \in Byte
  PROVE  (b + r) % 256 \in Byte /\ (((b + r) % 256) - r + 256) % 256 = b
<1>1. CASE b + r < 256 BY <1>1 DEF Byte
<1>2. CASE b + r >= 256 BY <1>2 DEF Byte
<1> QED BY <1>1, <1>2 DEF Byte

LEMMA AddRandomValue ==
  ASSUME NEW p \in Packet, NEW r \in Byte
  PROVE  LET q == addRandomValue(p, r)
         IN q \in Packet /\ Len(q) = Len(p) /\ de_addRandomValue(q, r) = p
<1> DEFINE q == addRandomValue(p, r)
<1>1. \A i \in 1..Len(p) : p[i] \in Byte
  BY Bytes
<1>2. \A i \in 1..Len(p) : ((p[i] + r) % 256) \in Byte /\ (((p[i] + r) % 256) - r + 256) % 256 = p[i]
  BY <1>1, AddTwice
<1>3. q \in [1..Len(p) -> Byte] /\ \A i \in 1..Len(p) : q[i] = ((p[i] + r) % 256)
  BY <1>2 DEF addRandomValue
<1>4. q \in Packet /\ Len(q) = Len(p)
  BY <1>3, MadePacket, Bytes
<1>5. de_addRandomValue(q, r) = [i \in 1..Len(p) |-> p[i]]
  BY <1>2, <1>3, <1>4 DEF de_addRandomValue
<1> QED BY <1>4, <1>5, SamePacket

LEMMA Parity ==
  ASSUME NEW i \in Nat \ {0}
  PROVE  /\ i % 2 = 0 => (i - 1) % 2 # 0 /\ i > 1
         /\ i % 2 # 0 => (i + 1) % 2 = 0
OBVIOUS

LEMMA SwapNeighbours ==
  ASSUME NEW p \in Packet
  PROVE  LET q == swapNeighboringBytes(p)
         IN q \in Packet /\ Len(q) = Len(p) /\ swapNeighboringBytes(q) = p
<1> DEFINE q == swapNeighboringBytes(p)
<1>1. \A i \in 1..Len(p) : p[i] \in Byte
  BY Bytes
<1>2. q \in [1..Len(p) -> Byte]
  BY <1>1, Bytes DEF swapNeighboringBytes
<1>3. q \in Packet /\ Len(q) = Len(p)
  BY <1>2, MadePacket, Bytes
<1>4. \A i \in 1..Len(p) :
        (IF i % 2 = 0 THEN q[i - 1] ELSE IF i < Len(p) THEN q[i + 1] ELSE q[i]) = p[i]
  <2>1. Len(p) \in Nat /\ \A i \in 1..Len(p) :
          q[i] = IF i % 2 = 0 THEN p[i - 1] ELSE IF i < Len(p) THEN p[i + 1] ELSE p[i]
    BY Bytes DEF swapNeighboringBytes
  <2> HIDE DEF q
  <2> SUFFICES ASSUME NEW i \in 1..Len(p)
               PROVE  (IF i % 2 = 0 THEN q[i - 1] ELSE IF i < Len(p) THEN q[i + 1] ELSE q[i]) = p[i]
    OBVIOUS
  <2>2. CASE i % 2 = 0
    <3>1. i - 1 \in 1..Len(p) /\ (i - 1) % 2 # 0 /\ i - 1 < Len(p) /\ (i - 1) + 1 = i
      BY <2>2, Parity, Bytes
    <3> QED BY <2>1, <2>2, <3>1
  <2>3. CASE i % 2 # 0 /\ i < Len(p)
    <3>1. i + 1 \in 1..Len(p) /\ (i + 1) % 2 = 0 /\ (i + 1) - 1 = i
      BY <2>3, Parity, Bytes
    <3> QED BY <2>1, <2>3, <3>1
  <2>4. CASE i % 2 # 0 /\ ~(i < Len(p))
    BY <2>1, <2>4
  <2> QED BY <2>2, <2>3, <2>4
<1>5. swapNeighboringBytes(q) = [i \in 1..Len(p) |-> p[i]]
  BY <1>3, <1>4 DEF swapNeighboringBytes
<1> QED BY <1>3, <1>5, SamePacket

LEMMA ReverseBuffer ==
  ASSUME NEW p \in Packet
  PROVE  LET q == reverseBuffer(p)
         IN q \in Packet /\ Len(q) = Len(p) /\ reverseBuffer(q) = p
<1> DEFINE q == reverseBuffer(p)
<1>1. \A i \in 1..Len(p) : p[i] \in Byte
  BY Bytes
<1>2. q \in [1..Len(p) -> Byte]
  BY <1>1, Bytes DEF reverseBuffer
<1>3. q \in Packet /\ Len(q) = Len(p)
  BY <1>2, MadePacket, Bytes
<1>4. \A i \in 1..Len(p) : q[Len(p) + 1 - i] = p[i]
  BY Bytes DEF reverseBuffer
<1>5. reverseBuffer(q) = [i \in 1..Len(p) |-> p[i]]
  BY <1>3, <1>4 DEF reverseBuffer
<1> QED BY <1>3, <1>5, SamePacket

\* Only halves of the same length can be swapped back.
LEMMA DivideAndSwap ==
  ASSUME NEW p \in Packet
  PROVE  LET q == divideAndSwap(p)
         IN /\ q \in Packet /\ Len(q) = Len(p)
            /\ Len(p) % 2 = 0 => divideAndSwap(q) = p
<1> DEFINE q == divideAndSwap(p)
           mid == Len(p) \div 2
<1>1. \A i \in 1..Len(p) : p[i] \in Byte
  BY Bytes
<1>2. Len(p) \in Nat /\ mid \in 0..Len(p)
  BY Bytes
<1>3. q \in [1..Len(p) -> Byte]
  <2>1. \A i \in 1..Len(p) : IF i <= Len(p) - mid THEN mid + i \in 1..Len(p)
                             ELSE i - (Len(p) - mid) \in 1..Len(p)
    BY <1>2
  <2> QED BY <1>1, <2>1 DEF divideAndSwap
<1>4. q \in Packet /\ Len(q) = Len(p)
  BY <1>2, <1>3, MadePacket
<1>5. ASSUME Len(p) % 2 = 0 PROVE divideAndSwap(q) = p
  <2>1. Len(p) = mid + mid
    BY <1>2, <1>5
  <2>2. \A i \in 1..Len(p) : q[i] = IF i <= mid THEN p[mid + i] ELSE p[i - mid]
    BY <1>2, <2>1 DEF divideAndSwap
  <2>3. \A i \in 1..Len(p) : (IF i <= mid THEN q[mid + i] ELSE q[i - mid]) = p[i]
    <3> HIDE DEF q, mid
    <3> QED BY <1>2, <2>1, <2>2
  <2>4. Len(q) - mid = mid /\ Len(q) \div 2 = mid
    BY <1>2, <1>4, <2>1
  <2>5. divideAndSwap(q) = [i \in 1..Len(p) |-> p[i]]
    <3> HIDE DEF q, mid
    <3> QED BY <1>4, <2>3, <2>4 DEF divideAndSwap
  <2> QED BY <2>5, SamePacket
<1> QED BY <1>4, <1>5

-----------------------------------------------------------------------------
(* One layer, four layers, the frame. *)

\* The key array is as long as the packet.
LEMMA KeyArrayFits ==
  ASSUME NEW s \in Parameters, NEW n \in Nat
  PROVE  KeyArray(s, n) \in Packet /\ Len(KeyArray(s, n)) = n
<1>1. s.key \in Nat
  BY DEF Parameters
<1>2. KeyArray(s, n) \in [1..n -> Byte]
  BY <1>1 DEF KeyArray, Byte
<1> QED BY <1>2, MadePacket

\* Every function keeps the length, and its partner undoes it.
LEMMA FunctionUndone ==
  ASSUME NEW s \in Parameters, NEW p \in Packet, Len(p) % 2 = 0, NEW f \in HouseFunctions
  PROVE  LET q == Obfuscation(f, s, KeyArray(s, Len(p)), p)
         IN /\ q \in Packet /\ Len(q) = Len(p)
            /\ Deobfuscation(f, s, KeyArray(s, Len(q)), q) = p
<1> DEFINE k == KeyArray(s, Len(p))
<1>1. k \in Packet /\ Len(k) = Len(p)
  BY KeyArrayFits, Bytes
<1>2. s.substitutionTable \in Table /\ s.randomValue \in Byte
  BY DEF Parameters
<1> HIDE DEF k
<1>3. LET q == Obfuscation(f, s, k, p)
      IN q \in Packet /\ Len(q) = Len(p) /\ Deobfuscation(f, s, k, q) = p
  <2>1. CASE f = "bitwiseRotationAndXOR"
    BY <1>1, <2>1, RotationAndXOR DEF Obfuscation, Deobfuscation
  <2>2. CASE f = "swapNeighboringBytes"
    BY <2>2, SwapNeighbours DEF Obfuscation, Deobfuscation
  <2>3. CASE f = "reverseBuffer"
    BY <2>3, ReverseBuffer DEF Obfuscation, Deobfuscation
  <2>4. CASE f = "divideAndSwap"
    BY <2>4, DivideAndSwap DEF Obfuscation, Deobfuscation
  <2>5. CASE f = "circularShiftObfuscation"
    BY <2>5, CircularShift DEF Obfuscation, Deobfuscation
  <2>6. CASE f = "xorWithKey"
    BY <1>1, <2>6, XorKey DEF Obfuscation, Deobfuscation
  <2>7. CASE f = "bitwiseNOT"
    BY <2>7, Not DEF Obfuscation, Deobfuscation
  <2>8. CASE f = "reverseBits"
    BY <2>8, ReverseBits DEF Obfuscation, Deobfuscation
  <2>9. CASE f = "shiftBits"
    BY <2>9, ShiftBits DEF Obfuscation, Deobfuscation
  <2>10. CASE f = "substitution"
    BY <1>2, <2>10, Substitution DEF Obfuscation, Deobfuscation
  <2>11. CASE f = "addRandomValue"
    BY <1>2, <2>11, AddRandomValue DEF Obfuscation, Deobfuscation
  <2>12. \E i \in 1..11 : f = FunctionPairs[i]
    BY DEF HouseFunctions
  <2> QED BY <2>1, <2>2, <2>3, <2>4, <2>5, <2>6, <2>7, <2>8, <2>9, <2>10, <2>11, <2>12
          DEF FunctionPairs
<1> QED BY <1>3 DEF k

Combos == {c \in Seq(HouseFunctions) : Len(c) \in 1..MaxLayers}

\* A layer that the combination has is undone, one that it has not is none.
LEMMA LayerUndone ==
  ASSUME NEW s \in Parameters, NEW c \in Combos, NEW j \in 1..4,
         NEW p \in Packet, Len(p) % 2 = 0
  PROVE  LET q == Layer(s, c, j, p)
         IN q \in Packet /\ Len(q) = Len(p) /\ Unlayer(s, c, j, q) = p
<1>1. CASE j <= Len(c)
  <2>1. c[j] \in HouseFunctions
    BY <1>1 DEF Combos
  <2> QED BY <1>1, <2>1, FunctionUndone DEF Layer, Unlayer
<1>2. CASE ~(j <= Len(c))
  BY <1>2 DEF Layer, Unlayer
<1> QED BY <1>1, <1>2

LEMMA LayersUndone ==
  ASSUME NEW s \in Parameters, NEW c \in Combos, NEW p \in Packet, Len(p) % 2 = 0
  PROVE  LET q == PreObfuscation(s, c, p)
         IN q \in Packet /\ Len(q) = Len(p) /\ PreDeobfuscation(s, c, q) = p
<1> DEFINE q1 == Layer(s, c, 1, p)
           q2 == Layer(s, c, 2, q1)
           q3 == Layer(s, c, 3, q2)
           q4 == Layer(s, c, 4, q3)
<1>1. q1 \in Packet /\ Len(q1) = Len(p) /\ Unlayer(s, c, 1, q1) = p
  BY LayerUndone
<1> HIDE DEF q1
<1>2. q2 \in Packet /\ Len(q2) = Len(p) /\ Unlayer(s, c, 2, q2) = q1
  BY <1>1, LayerUndone
<1> HIDE DEF q2
<1>3. q3 \in Packet /\ Len(q3) = Len(p) /\ Unlayer(s, c, 3, q3) = q2
  BY <1>2, LayerUndone
<1> HIDE DEF q3
<1>4. q4 \in Packet /\ Len(q4) = Len(p) /\ Unlayer(s, c, 4, q4) = q3
  BY <1>3, LayerUndone
<1> HIDE DEF q4
<1>5. PreDeobfuscation(s, c, q4) = p
  BY <1>1, <1>2, <1>3, <1>4 DEF PreDeobfuscation
<1> QED BY <1>4, <1>5 DEF q1, q2, q3, q4, PreObfuscation

\* The registry's tables are filled: a header chooses a combination.
LEMMA WithoutOne ==
  ASSUME NEW options \in Seq(HouseFunctions), Len(options) > 0, NEW i
  PROVE  Without(options, i) \in Seq(HouseFunctions) /\ Len(Without(options, i)) = Len(options) - 1
<1>1. Without(options, i) \in [1..Len(options) - 1 -> HouseFunctions]
  BY DEF Without
<1> QED BY <1>1

LEMMA ThreeTaken ==
  ASSUME NEW d1, NEW d2, NEW d3
  PROVE  LET rest1 == Without(FunctionPairs, d1)
             rest2 == Without(rest1, d2)
             rest3 == Without(rest2, d3)
         IN /\ rest1 \in Seq(HouseFunctions) /\ Len(rest1) = 10
            /\ rest2 \in Seq(HouseFunctions) /\ Len(rest2) = 9
            /\ rest3 \in Seq(HouseFunctions) /\ Len(rest3) = 8
<1> DEFINE rest1 == Without(FunctionPairs, d1)
           rest2 == Without(rest1, d2)
           rest3 == Without(rest2, d3)
<1>1. FunctionPairs \in Seq(HouseFunctions) /\ Len(FunctionPairs) = 11
  BY DEF FunctionPairs, HouseFunctions
<1>2. rest1 \in Seq(HouseFunctions) /\ Len(rest1) = Len(FunctionPairs) - 1
  <2>1. Len(FunctionPairs) > 0
    BY <1>1
  <2> QED BY <1>1, <2>1, WithoutOne, Zenon
<1> HIDE DEF rest1
<1>3. rest2 \in Seq(HouseFunctions) /\ Len(rest2) = Len(rest1) - 1
  <2>1. Len(rest1) > 0
    BY <1>1, <1>2
  <2> QED BY <1>2, <2>1, WithoutOne, Zenon
<1> HIDE DEF rest2
<1>4. rest3 \in Seq(HouseFunctions) /\ Len(rest3) = Len(rest2) - 1
  <2>1. Len(rest2) > 0
    BY <1>1, <1>2, <1>3
  <2> QED BY <1>3, <2>1, WithoutOne, Zenon
<1> HIDE DEF rest3
<1> QED BY <1>1, <1>2, <1>3, <1>4 DEF rest1, rest2, rest3

LEMMA ComboChosen ==
  ASSUME NEW layer \in 1..MaxLayers, NEW n \in Nat
  PROVE  Combo(layer, n) \in Combos
<1> DEFINE Choice(j) == ((n \div Share[layer][j]) % (12 - j)) + 1
           rest1 == Without(FunctionPairs, Choice(1))
           rest2 == Without(rest1, Choice(2))
           rest3 == Without(rest2, Choice(3))
           c == [j \in 1..layer |-> CASE j = 1 -> FunctionPairs[Choice(1)]
                                      [] j = 2 -> rest1[Choice(2)]
                                      [] j = 3 -> rest2[Choice(3)]
                                      [] j = 4 -> rest3[Choice(4)]]
<1>1. \A j \in 1..layer : j \in 1..4 /\ Share[layer][j] \in Nat \ {0}
  BY DEF Share, MaxLayers
<1>2. \A j \in 1..layer : Choice(j) \in 1..12 - j
  <2>1. \A j \in 1..layer : n \div Share[layer][j] \in Nat
    BY <1>1
  <2> QED BY <1>1, <2>1
<1>3. FunctionPairs \in Seq(HouseFunctions) /\ Len(FunctionPairs) = 11
  BY DEF FunctionPairs, HouseFunctions
<1>4. /\ rest1 \in Seq(HouseFunctions) /\ Len(rest1) = 10
      /\ rest2 \in Seq(HouseFunctions) /\ Len(rest2) = 9
      /\ rest3 \in Seq(HouseFunctions) /\ Len(rest3) = 8
  <2> HIDE DEF Choice
  <2> QED BY ThreeTaken
<1> HIDE DEF Choice, rest1, rest2, rest3
<1>5. \A j \in 1..layer : c[j] \in HouseFunctions
  <2>1. ASSUME NEW T \in Seq(HouseFunctions), NEW d \in 1..Len(T) PROVE T[d] \in HouseFunctions
    OBVIOUS
  <2> HIDE DEF c
  <2>2. /\ 1 \in 1..layer => FunctionPairs[Choice(1)] \in HouseFunctions
        /\ 2 \in 1..layer => rest1[Choice(2)] \in HouseFunctions
        /\ 3 \in 1..layer => rest2[Choice(3)] \in HouseFunctions
        /\ 4 \in 1..layer => rest3[Choice(4)] \in HouseFunctions
    <3>1. /\ 1 \in 1..layer => Choice(1) \in 1..Len(FunctionPairs)
          /\ 2 \in 1..layer => Choice(2) \in 1..Len(rest1)
          /\ 3 \in 1..layer => Choice(3) \in 1..Len(rest2)
          /\ 4 \in 1..layer => Choice(4) \in 1..Len(rest3)
      <4>1. /\ 1 \in 1..layer => Choice(1) \in 1..11
            /\ 2 \in 1..layer => Choice(2) \in 1..10
            /\ 3 \in 1..layer => Choice(3) \in 1..9
            /\ 4 \in 1..layer => Choice(4) \in 1..8
        <5>1. 12 - 1 = 11 /\ 12 - 2 = 10 /\ 12 - 3 = 9 /\ 12 - 4 = 8
          OBVIOUS
        <5> QED BY <1>2, <5>1, Zenon
      <4> QED BY <1>3, <1>4, <4>1, Zenon
    <3> QED BY <1>3, <1>4, <2>1, <3>1, Zenon
  <2> QED BY <1>1, <2>2 DEF c
<1>6. c \in Seq(HouseFunctions) /\ Len(c) = layer
  <2>1. layer \in Nat
    BY DEF MaxLayers
  <2>2. c \in [1..layer -> HouseFunctions]
    BY <1>5
  <2> HIDE DEF c
  <2> QED BY <2>1, <2>2
<1>7. c \in Combos
  <2> HIDE DEF c
  <2> QED BY <1>6 DEF Combos
<1> QED BY <1>7 DEF Combo, Choice, rest1, rest2, rest3

\* Three packets in a row.
LEMMA Framed ==
  ASSUME NEW h \in Packet, NEW b \in Packet, NEW e \in Packet
  PROVE  LET q == h \o b \o e
         IN /\ q \in Packet /\ Len(q) = Len(h) + Len(b) + Len(e)
            /\ \A i \in 1..Len(h) : q[i] = h[i]
            /\ \A i \in 1..Len(b) : q[Len(h) + i] = b[i]
<1> DEFINE q == h \o b \o e
<1>1. (h \o b) \in Seq(Byte) /\ Len(h \o b) = Len(h) + Len(b)
  BY DEF Packet
<1>2. q \in Seq(Byte) /\ Len(q) = Len(h) + Len(b) + Len(e)
  BY <1>1 DEF Packet
<1>3. \A i \in 1..Len(h) + Len(b) : q[i] = (h \o b)[i]
  BY <1>1 DEF Packet
<1>4. \A i \in 1..Len(h) : (h \o b)[i] = h[i]
  BY DEF Packet
<1>5. \A i \in 1..Len(b) : (h \o b)[Len(h) + i] = b[i]
  BY DEF Packet
<1>6. Len(h) \in Nat /\ Len(b) \in Nat
  BY Bytes
<1> QED BY <1>2, <1>3, <1>4, <1>5, <1>6 DEF Packet

\* Any two bytes choose a combination.
LEMMA HeaderChooses ==
  ASSUME NEW s \in Parameters, NEW h1 \in Byte, NEW h2 \in Byte
  PROVE  ChosenCombo(s, <<h1, h2>>) \in Combos
<1>1. s.obfuscationLayer \in 1..MaxLayers
  BY DEF Parameters
<1>2. CombosLength(s.obfuscationLayer) \in Nat \ {0}
  BY <1>1 DEF CombosLength, Share, MaxLayers
<1>3. h1 * h2 \in Nat
  BY DEF Byte
<1>4. (h1 * h2) % CombosLength(s.obfuscationLayer) \in Nat
  BY <1>2, <1>3
<1> QED BY <1>1, <1>4, ComboChosen DEF ChosenCombo

\* The frame around a packet is told from it again.
LEMMA FrameOpened ==
  ASSUME NEW body \in Packet, body # <<>>, NEW h1 \in Byte, NEW h2 \in Byte,
         NEW padding \in Packet, Len(padding) \in 1..MaxPadding
  PROVE  LET q == <<h1, h2, Len(padding)>> \o body \o padding
         IN /\ q \in Packet /\ Len(q) > 4 /\ WellFormed(q)
            /\ Len(q) = 3 + Len(body) + Len(padding)
            /\ Body(q) = body
            /\ SubSeq(q, 1, 2)[1] = h1 /\ SubSeq(q, 1, 2)[2] = h2
<1> DEFINE header == <<h1, h2, Len(padding)>>
           q == header \o body \o padding
<1>1. header \in Packet /\ Len(header) = 3
  BY DEF Packet, Byte, MaxPadding
<1>2. /\ q \in Packet /\ Len(q) = 3 + Len(body) + Len(padding)
      /\ q[1] = h1 /\ q[2] = h2 /\ q[3] = Len(padding)
  <2>1. /\ q \in Packet /\ Len(q) = Len(header) + Len(body) + Len(padding)
        /\ \A i \in 1..Len(header) : q[i] = header[i]
    <3> HIDE DEF header
    <3> QED BY <1>1, Framed
  <2>2. header[1] = h1 /\ header[2] = h2 /\ header[3] = Len(padding)
    OBVIOUS
  <2> HIDE DEF header, q
  <2> QED BY <1>1, <2>1, <2>2
<1>3. Len(body) > 0 /\ Len(body) \in Nat
  BY DEF Packet
<1>4. WellFormed(q) /\ Len(q) > 4
  <2>1. Len(padding) \in 1..8
    BY DEF MaxPadding
  <2> HIDE DEF q
  <2> QED BY <1>2, <1>3, <2>1 DEF WellFormed
<1>5. SubSeq(q, 4, Len(q) - q[3]) = body
  <2>1. Len(q) - q[3] = 3 + Len(body) /\ 3 + Len(body) <= Len(q) /\ Len(padding) \in Nat
    BY <1>2, <1>3 DEF MaxPadding
  <2>2. \A i \in 1..Len(body) : q[3 + i] = body[i]
    <3> HIDE DEF header
    <3>1. \A i \in 1..Len(body) : q[Len(header) + i] = body[i]
      BY <1>1, Framed, Zenon
    <3> QED BY <1>1, <3>1
  <2> DEFINE b == SubSeq(q, 4, 3 + Len(body))
  <2> HIDE DEF q
  <2>3. b = [i \in 1..Len(body) |-> q[3 + i]]
    BY <1>2, <1>3, <2>1 DEF Packet
  <2>4. b = [i \in 1..Len(body) |-> body[i]]
    BY <2>2, <2>3
  <2> QED BY <2>1, <2>4, SamePacket
<1>6. SubSeq(q, 1, 2)[1] = h1 /\ SubSeq(q, 1, 2)[2] = h2
  <2> HIDE DEF q
  <2> QED BY <1>2, <1>3 DEF Packet, MaxPadding
<1> QED BY <1>2, <1>4, <1>5, <1>6 DEF Body

\* obfuscator.ts: a packet of even length comes out of deobfuscation as it
\* went into obfuscation, whatever the header and padding drawn for it.
THEOREM RoundTrip ==
  ASSUME NEW s \in Parameters, NEW p \in Packet, p # <<>>, Len(p) % 2 = 0,
         NEW h1 \in Byte, NEW h2 \in Byte, NEW padding \in Packet, Len(padding) \in 1..MaxPadding
  PROVE  LET q == Obfuscate(s, h1, h2, padding, p)
         IN /\ q \in Packet /\ Len(q) > 4 /\ WellFormed(q)
            /\ Len(q) = 3 + Len(p) + Len(padding)
            /\ Deobfuscate(s, q) = p
<1> DEFINE c == ChosenCombo(s, <<h1, h2>>)
           body == PreObfuscation(s, c, p)
           q == <<h1, h2, Len(padding)>> \o body \o padding
<1>1. c \in Combos
  BY HeaderChooses
<1>2. body \in Packet /\ Len(body) = Len(p) /\ PreDeobfuscation(s, c, body) = p
  BY <1>1, LayersUndone
<1>3. body # <<>>
  BY <1>2 DEF Packet
<1> HIDE DEF body
<1>4. /\ q \in Packet /\ Len(q) > 4 /\ WellFormed(q) /\ Body(q) = body
      /\ Len(q) = 3 + Len(body) + Len(padding)
      /\ SubSeq(q, 1, 2)[1] = h1 /\ SubSeq(q, 1, 2)[2] = h2
  BY <1>2, <1>3, FrameOpened
<1>5. Deobfuscate(s, q) = p
  <2> HIDE DEF q
  <2> QED BY <1>2, <1>4 DEF Deobfuscate, ChosenCombo
<1> QED BY <1>2, <1>4, <1>5 DEF Obfuscate, body

-----------------------------------------------------------------------------
(* The functions that Android writes in another way. *)

\* 256 * 37 is a multiple of 256: the table repeats as the server's array goes
\* on, also for packets longer than the table.
LEMMA KeyRepeats ==
  ASSUME NEW key \in Nat, NEW i \in Nat
  PROVE  i % 256 \in Byte /\ (key + (i % 256) * 37) % 256 = (key + i * 37) % 256
<1>1. i % 256 \in 0..255 /\ i \div 256 \in Nat /\ i = 256 * (i \div 256) + (i % 256)
  OBVIOUS
<1> DEFINE r == i % 256
           q == i \div 256
<1> HIDE DEF r, q
<1>2. r \in 0..255 /\ q \in Nat /\ i = 256 * q + r
  BY <1>1 DEF r, q
<1>3. key + i * 37 = (key + r * 37) + 256 * (37 * q)
  BY <1>2
<1>4. (key + i * 37) % 256 = (key + r * 37) % 256
  BY <1>2, <1>3
<1> QED BY <1>2, <1>4 DEF r, Byte

\* A byte of the table is that of the server's array.
LEMMA KeyByteSame ==
  ASSUME NEW s \in Parameters, NEW n \in Nat, NEW i \in 1..n
  PROVE  KeyByte(KeyTable(s), i - 1) = KeyArray(s, n)[i]
<1> DEFINE m == i - 1
           key == s.key
<1>1. m \in Nat /\ key \in Nat
  BY DEF Parameters
<1>2. KeyArray(s, n)[i] = (key + m * 37) % 256
  BY DEF KeyArray
<1> HIDE DEF m, key
<1>3. m % 256 \in Byte /\ (key + (m % 256) * 37) % 256 = (key + m * 37) % 256
  BY <1>1, KeyRepeats
<1>4. KeyByte(KeyTable(s), m) = (key + (m % 256) * 37) % 256
  BY <1>3 DEF KeyByte, KeyTable, key
<1> QED BY <1>2, <1>3, <1>4 DEF m

\* The index of the key byte before, cyclically.
LEMMA KeyIndexBefore ==
  ASSUME NEW p \in Packet, NEW i \in 1..Len(p)
  PROVE  KeyIndex(p, i) = IF i = 1 THEN Len(p) - 1 ELSE i - 2
<1> DEFINE n == Len(p)
<1>1. n \in Nat /\ i \in Nat /\ 1 <= i /\ i <= n
  BY Bytes
<1> HIDE DEF n
<1>2. CASE i = 1
  <2>1. (1 + n - 2) % n = n - 1
    BY <1>1, <1>2
  <2> QED BY <1>2, <2>1 DEF KeyIndex, n
<1>3. CASE i # 1
  <2>1. i + n - 2 = n + (i - 2) /\ i - 2 \in 0..n - 1
    BY <1>1, <1>3
  <2>2. (n + (i - 2)) % n = i - 2
    BY <1>1, <2>1
  <2> QED BY <1>3, <2>1, <2>2 DEF KeyIndex, n
<1> QED BY <1>2, <1>3 DEF n

LEMMA KeyBeforeSame ==
  ASSUME NEW s \in Parameters, NEW p \in Packet, NEW i \in 1..Len(p)
  PROVE  KeyByte(KeyTable(s), KeyIndex(p, i)) = Before(KeyArray(s, Len(p)), i)
<1>1. Len(p) \in Nat
  BY Bytes
<1>2. Len(KeyArray(s, Len(p))) = Len(p)
  BY <1>1, KeyArrayFits
<1>3. CASE i = 1
  <2>1. Len(p) \in 1..Len(p)
    BY <1>1
  <2>2. KeyIndex(p, i) = Len(p) - 1
    BY <1>3, KeyIndexBefore
  <2> QED BY <1>1, <1>2, <1>3, <2>1, <2>2, KeyByteSame DEF Before
<1>4. CASE i # 1
  <2>1. i - 1 \in 1..Len(p) /\ (i - 1) - 1 = i - 2
    BY <1>1, <1>4
  <2>2. KeyIndex(p, i) = (i - 1) - 1
    BY <1>4, <2>1, KeyIndexBefore
  <2> QED BY <1>1, <1>4, <2>1, <2>2, KeyByteSame DEF Before
<1> QED BY <1>3, <1>4

LEMMA RotationSame ==
  ASSUME NEW s \in Parameters, NEW p \in Packet
  PROVE  /\ BitwiseRotationAndXOR(p, KeyTable(s)) = bitwiseRotationAndXOR(p, KeyArray(s, Len(p)))
         /\ DeBitwiseRotationAndXOR(p, KeyTable(s))
              = de_bitwiseRotationAndXOR(p, KeyArray(s, Len(p)))
<1>1. \A i \in 1..Len(p) : KeyByte(KeyTable(s), KeyIndex(p, i)) = Before(KeyArray(s, Len(p)), i)
  BY KeyBeforeSame
<1> QED BY <1>1, Zenon DEF BitwiseRotationAndXOR, bitwiseRotationAndXOR,
                    DeBitwiseRotationAndXOR, de_bitwiseRotationAndXOR

LEMMA XorSame ==
  ASSUME NEW s \in Parameters, NEW p \in Packet
  PROVE  XorWithKey(p, KeyTable(s)) = xorWithKey(p, KeyArray(s, Len(p)))
<1>1. Len(p) \in Nat
  BY Bytes
<1>2. \A i \in 1..Len(p) : KeyByte(KeyTable(s), i - 1) = KeyArray(s, Len(p))[i]
  BY <1>1, KeyByteSame
<1> QED BY <1>2, Zenon DEF XorWithKey, xorWithKey

\* In a table that repeats no value the last place of a value is the first.
LEMMA InverseSame ==
  ASSUME NEW t \in Table, NEW v \in Byte
  PROVE  InverseEntry(t, v) = FindIndex(t, v)
<1>1. CASE \E a \in Byte : t[a] = v
  <2>1. PICK a \in Byte : t[a] = v
    BY <1>1
  <2>2. \A b \in Byte : t[b] = v => b = a
    BY <2>1 DEF Table
  <2>3. \A b \in a + 1..255 : b \in Byte /\ b # a
    BY <2>1 DEF Byte
  <2>4. \A x \in Byte : (t[x] = v /\ \A b \in x + 1..255 : t[b] # v) <=> x = a
    BY <2>1, <2>2, <2>3
  <2>5. (CHOOSE x \in Byte : t[x] = v /\ \A b \in x + 1..255 : t[b] # v) = a
    BY <2>4
  <2>6. FindIndex(t, v) = a
    BY <2>1, FindIndexBack
  <2> QED BY <1>1, <2>5, <2>6 DEF InverseEntry
<1>2. CASE ~\E a \in Byte : t[a] = v
  BY <1>2 DEF InverseEntry, FindIndex
<1> QED BY <1>1, <1>2

LEMMA SubstitutionSame ==
  ASSUME NEW t \in Table, NEW p \in Packet
  PROVE  DeSubstitution(p, t) = de_substitution(p, t)
<1>1. \A i \in 1..Len(p) : InverseEntry(t, p[i]) = FindIndex(t, p[i])
  BY Bytes, InverseSame
<1> QED BY <1>1, Zenon DEF DeSubstitution, de_substitution

LEMMA AdditionSame ==
  ASSUME NEW r \in Byte, NEW p \in Packet
  PROVE  DeAddRandomValue(p, r) = de_addRandomValue(p, r)
<1>1. ASSUME NEW b \in Byte PROVE (b - r) % 256 = (b - r + 256) % 256
  BY DEF Byte
<1>2. \A i \in 1..Len(p) : (p[i] - r) % 256 = (p[i] - r + 256) % 256
  BY <1>1, Bytes
<1> QED BY <1>2, Zenon DEF DeAddRandomValue, de_addRandomValue
-----------------------------------------------------------------------------
(* All functions, layers and frames. *)

\* Each function of the registry does the same on both sides.
LEMMA FunctionSame ==
  ASSUME NEW s \in Parameters, NEW p \in Packet, NEW f \in HouseFunctions
  PROVE  /\ AndroidObfuscation(f, s, p) = Obfuscation(f, s, KeyArray(s, Len(p)), p)
         /\ AndroidDeobfuscation(f, s, p) = Deobfuscation(f, s, KeyArray(s, Len(p)), p)
<1>1. s.substitutionTable \in Table /\ s.randomValue \in Byte
  BY DEF Parameters
<1>2. CASE f = "bitwiseRotationAndXOR"
  BY <1>2, RotationSame
     DEF AndroidObfuscation, Obfuscation, AndroidDeobfuscation, Deobfuscation
<1>3. CASE f = "xorWithKey"
  BY <1>3, XorSame DEF AndroidObfuscation, Obfuscation, AndroidDeobfuscation, Deobfuscation
<1>4. CASE f = "substitution"
  BY <1>1, <1>4, SubstitutionSame
     DEF AndroidObfuscation, Obfuscation, AndroidDeobfuscation, Deobfuscation
<1>5. CASE f = "addRandomValue"
  BY <1>1, <1>5, AdditionSame
     DEF AndroidObfuscation, Obfuscation, AndroidDeobfuscation, Deobfuscation
<1>6. CASE f \in {"swapNeighboringBytes", "reverseBuffer", "divideAndSwap", "bitwiseNOT",
                 "circularShiftObfuscation", "reverseBits", "shiftBits"}
  BY <1>6 DEF AndroidObfuscation, Obfuscation, AndroidDeobfuscation, Deobfuscation
<1>7. \E i \in 1..11 : f = FunctionPairs[i]
  BY DEF HouseFunctions
<1> QED BY <1>2, <1>3, <1>4, <1>5, <1>6, <1>7 DEF FunctionPairs

LEMMA LayerSame ==
  ASSUME NEW s \in Parameters, NEW c \in Combos, NEW j \in 1..4, NEW p \in Packet
  PROVE  /\ AndroidLayer(s, c, j, p) = Layer(s, c, j, p)
         /\ AndroidUnlayer(s, c, j, p) = Unlayer(s, c, j, p)
<1>1. CASE j <= Len(c)
  <2>1. c[j] \in HouseFunctions
    BY <1>1 DEF Combos
  <2> QED BY <1>1, <2>1, FunctionSame DEF AndroidLayer, Layer, AndroidUnlayer, Unlayer
<1>2. CASE ~(j <= Len(c))
  BY <1>2 DEF AndroidLayer, Layer, AndroidUnlayer, Unlayer
<1> QED BY <1>1, <1>2

LEMMA LayersSame ==
  ASSUME NEW s \in Parameters, NEW c \in Combos, NEW p \in Packet, Len(p) % 2 = 0
  PROVE  AndroidLayers(s, c, p) = PreObfuscation(s, c, p)
<1> DEFINE q1 == Layer(s, c, 1, p)
           q2 == Layer(s, c, 2, q1)
           q3 == Layer(s, c, 3, q2)
<1>1. q1 \in Packet /\ Len(q1) = Len(p) /\ AndroidLayer(s, c, 1, p) = q1
  BY LayerUndone, LayerSame
<1> HIDE DEF q1
<1>2. q2 \in Packet /\ Len(q2) = Len(p) /\ AndroidLayer(s, c, 2, q1) = q2
  BY <1>1, LayerUndone, LayerSame
<1> HIDE DEF q2
<1>3. q3 \in Packet /\ Len(q3) = Len(p) /\ AndroidLayer(s, c, 3, q2) = q3
  BY <1>2, LayerUndone, LayerSame
<1> HIDE DEF q3
<1>4. AndroidLayer(s, c, 4, q3) = Layer(s, c, 4, q3)
  BY <1>3, LayerSame
<1> QED BY <1>1, <1>2, <1>3, <1>4 DEF q1, q2, q3, AndroidLayers, PreObfuscation

\* What the server put on comes off again on Android.
LEMMA UnlayersSame ==
  ASSUME NEW s \in Parameters, NEW c \in Combos, NEW p \in Packet, Len(p) % 2 = 0
  PROVE  AndroidUnlayers(s, c, PreObfuscation(s, c, p)) = p
<1> DEFINE q1 == Layer(s, c, 1, p)
           q2 == Layer(s, c, 2, q1)
           q3 == Layer(s, c, 3, q2)
           q4 == Layer(s, c, 4, q3)
<1>1. q1 \in Packet /\ Len(q1) = Len(p) /\ AndroidUnlayer(s, c, 1, q1) = p
  BY LayerUndone, LayerSame
<1> HIDE DEF q1
<1>2. q2 \in Packet /\ Len(q2) = Len(p) /\ AndroidUnlayer(s, c, 2, q2) = q1
  BY <1>1, LayerUndone, LayerSame
<1> HIDE DEF q2
<1>3. q3 \in Packet /\ Len(q3) = Len(p) /\ AndroidUnlayer(s, c, 3, q3) = q2
  BY <1>2, LayerUndone, LayerSame
<1> HIDE DEF q3
<1>4. q4 \in Packet /\ Len(q4) = Len(p) /\ AndroidUnlayer(s, c, 4, q4) = q3
  BY <1>3, LayerUndone, LayerSame
<1> HIDE DEF q4
<1>5. AndroidUnlayers(s, c, q4) = p
  BY <1>1, <1>2, <1>3, <1>4 DEF AndroidUnlayers
<1> QED BY <1>5 DEF q1, q2, q3, q4, PreObfuscation

\* Obfuscator.kt: Android sends the bytes that the TypeScript client would
\* send with the same draws, and takes off what the server put on, for all
\* parameters, headers, paddings, and packets of even length.
THEOREM AndroidAgrees ==
  ASSUME NEW s \in Parameters, NEW p \in Packet, p # <<>>, Len(p) % 2 = 0,
         NEW h1 \in Byte, NEW h2 \in Byte, NEW padding \in Packet, Len(padding) \in 1..MaxPadding
  PROVE  /\ AndroidObfuscate(s, h1, h2, padding, p) = Obfuscate(s, h1, h2, padding, p)
         /\ AndroidDeobfuscate(s, Obfuscate(s, h1, h2, padding, p)) = p
<1> DEFINE c == ChosenCombo(s, <<h1, h2>>)
           body == PreObfuscation(s, c, p)
           q == <<h1, h2, Len(padding)>> \o body \o padding
<1>1. c \in Combos
  BY HeaderChooses
<1>2. body \in Packet /\ Len(body) = Len(p)
  BY <1>1, LayersUndone
<1>3. AndroidLayers(s, c, p) = body /\ AndroidUnlayers(s, c, body) = p
  BY <1>1, LayersSame, UnlayersSame
<1>4. body # <<>>
  BY <1>2 DEF Packet
<1> HIDE DEF body
<1>5. Body(q) = body /\ SubSeq(q, 1, 2)[1] = h1 /\ SubSeq(q, 1, 2)[2] = h2
  BY <1>2, <1>4, FrameOpened
<1>6. AndroidDeobfuscate(s, q) = p
  <2> HIDE DEF q
  <2> QED BY <1>3, <1>5 DEF AndroidDeobfuscate, ChosenCombo
<1> QED BY <1>3, <1>6 DEF AndroidObfuscate, Obfuscate, body

-----------------------------------------------------------------------------
(* With other parameters than it was obfuscated with, or of odd length, a  *)
(* well-formed packet becomes another one.                                 *)

\* The inverses that a packet was not made for make packets, too.
LEMMA RotationAndXORMakes ==
  ASSUME NEW p \in Packet, NEW k \in Packet, Len(k) = Len(p)
  PROVE  LET q == de_bitwiseRotationAndXOR(p, k) IN q \in Packet /\ Len(q) = Len(p)
<1> DEFINE q == de_bitwiseRotationAndXOR(p, k)
<1>1. \A i \in 1..Len(p) : RotL(Xor(p[i], Before(k, i)), 8 - Shift(i)) \in Byte
  <2> TAKE i \in 1..Len(p)
  <2>1. p[i] \in Byte /\ Before(k, i) \in Byte
    BY Bytes, KeyBefore
  <2>2. 8 - Shift(i) \in 0..8
    <3>1. Shift(i) \in 1..8
      BY Shifts, Bytes
    <3> QED BY <3>1
  <2> QED BY <2>1, <2>2, XorIsByte, RotLIsByte
<1>2. q \in [1..Len(p) -> Byte]
  BY <1>1 DEF de_bitwiseRotationAndXOR
<1> QED BY <1>2, MadePacket, Bytes

LEMMA ShiftsMake ==
  ASSUME NEW p \in Packet
  PROVE  /\ de_circularShiftObfuscation(p) \in Packet
         /\ Len(de_circularShiftObfuscation(p)) = Len(p)
         /\ de_shiftBits(p) \in Packet /\ Len(de_shiftBits(p)) = Len(p)
<1>1. \A i \in 1..Len(p) : RotL(p[i], 7) \in Byte /\ RotL(p[i], 6) \in Byte
  BY Bytes, RotLIsByte
<1>2. de_circularShiftObfuscation(p) \in [1..Len(p) -> Byte] /\ de_shiftBits(p) \in [1..Len(p) -> Byte]
  BY <1>1 DEF de_circularShiftObfuscation, de_shiftBits
<1> QED BY <1>2, MadePacket, Bytes

\* A table holds a byte at one index, which is the first, or nowhere.
LEMMA FindIndexIsByte ==
  ASSUME NEW t \in Table, NEW v
  PROVE  FindIndex(t, v) \in Byte
<1>1. CASE \E a \in Byte : t[a] = v
  <2>1. PICK a \in Byte : t[a] = v
    BY <1>1
  <2>2. v \in Byte
    BY <2>1 DEF Table
  <2>3. FindIndex(t, v) = a
    BY <2>1, FindIndexBack
  <2> QED BY <2>3
<1>2. CASE ~\E a \in Byte : t[a] = v
  BY <1>2 DEF FindIndex, Byte
<1> QED BY <1>1, <1>2

LEMMA SubstitutionMakes ==
  ASSUME NEW p \in Packet, NEW t \in Table
  PROVE  de_substitution(p, t) \in Packet /\ Len(de_substitution(p, t)) = Len(p)
<1>1. de_substitution(p, t) \in [1..Len(p) -> Byte]
  BY FindIndexIsByte DEF de_substitution
<1> QED BY <1>1, MadePacket, Bytes

LEMMA AdditionMakes ==
  ASSUME NEW p \in Packet, NEW r \in Byte
  PROVE  de_addRandomValue(p, r) \in Packet /\ Len(de_addRandomValue(p, r)) = Len(p)
<1>1. \A b \in Byte : (b - r + 256) % 256 \in Byte
  BY DEF Byte
<1>2. \A i \in 1..Len(p) : (p[i] - r + 256) % 256 \in Byte
  BY <1>1, Bytes
<1>3. de_addRandomValue(p, r) \in [1..Len(p) -> Byte]
  BY <1>2 DEF de_addRandomValue
<1> QED BY <1>3, MadePacket, Bytes

\* So does every function of the registry.
LEMMA FunctionMakes ==
  ASSUME NEW s \in Parameters, NEW p \in Packet, NEW f \in HouseFunctions
  PROVE  LET q == Deobfuscation(f, s, KeyArray(s, Len(p)), p)
         IN q \in Packet /\ Len(q) = Len(p)
<1> DEFINE k == KeyArray(s, Len(p))
<1>1. k \in Packet /\ Len(k) = Len(p)
  BY KeyArrayFits, Bytes
<1>2. s.substitutionTable \in Table /\ s.randomValue \in Byte
  BY DEF Parameters
<1> HIDE DEF k
<1>3. LET q == Deobfuscation(f, s, k, p) IN q \in Packet /\ Len(q) = Len(p)
  <2>1. CASE f = "bitwiseRotationAndXOR"
    BY <1>1, <2>1, RotationAndXORMakes DEF Deobfuscation
  <2>2. CASE f = "swapNeighboringBytes"
    BY <2>2, SwapNeighbours DEF Deobfuscation
  <2>3. CASE f = "reverseBuffer"
    BY <2>3, ReverseBuffer DEF Deobfuscation
  <2>4. CASE f = "divideAndSwap"
    BY <2>4, DivideAndSwap DEF Deobfuscation
  <2>5. CASE f \in {"circularShiftObfuscation", "shiftBits"}
    BY <2>5, ShiftsMake DEF Deobfuscation
  <2>6. CASE f = "xorWithKey"
    BY <1>1, <2>6, XorKey DEF Deobfuscation
  <2>7. CASE f = "bitwiseNOT"
    BY <2>7, Not DEF Deobfuscation
  <2>8. CASE f = "reverseBits"
    BY <2>8, ReverseBits DEF Deobfuscation
  <2>9. CASE f = "substitution"
    BY <1>2, <2>9, SubstitutionMakes DEF Deobfuscation
  <2>10. CASE f = "addRandomValue"
    BY <1>2, <2>10, AdditionMakes DEF Deobfuscation
  <2>11. \E i \in 1..11 : f = FunctionPairs[i]
    BY DEF HouseFunctions
  <2> QED BY <2>1, <2>2, <2>3, <2>4, <2>5, <2>6, <2>7, <2>8, <2>9, <2>10, <2>11
          DEF FunctionPairs
<1> QED BY <1>3 DEF k

\* So do the layers, which Android takes off as the server does.
LEMMA LayersMake ==
  ASSUME NEW s \in Parameters, NEW c \in Combos, NEW p \in Packet
  PROVE  /\ PreDeobfuscation(s, c, p) \in Packet
         /\ AndroidUnlayers(s, c, p) = PreDeobfuscation(s, c, p)
<1>1. ASSUME NEW j \in 1..4, NEW q \in Packet
      PROVE  /\ Unlayer(s, c, j, q) \in Packet
             /\ AndroidUnlayer(s, c, j, q) = Unlayer(s, c, j, q)
  <2>1. CASE j <= Len(c)
    <3>1. c[j] \in HouseFunctions
      BY <2>1 DEF Combos
    <3> QED BY <1>1, <2>1, <3>1, FunctionMakes, LayerSame DEF Unlayer
  <2>2. CASE ~(j <= Len(c))
    BY <1>1, <2>2, LayerSame DEF Unlayer
  <2> QED BY <2>1, <2>2
<1> DEFINE q4 == Unlayer(s, c, 4, p)
           q3 == Unlayer(s, c, 3, q4)
           q2 == Unlayer(s, c, 2, q3)
           q1 == Unlayer(s, c, 1, q2)
<1>2. q4 \in Packet /\ AndroidUnlayer(s, c, 4, p) = q4
  BY <1>1
<1> HIDE DEF q4
<1>3. q3 \in Packet /\ AndroidUnlayer(s, c, 3, q4) = q3
  BY <1>1, <1>2
<1> HIDE DEF q3
<1>4. q2 \in Packet /\ AndroidUnlayer(s, c, 2, q3) = q2
  BY <1>1, <1>3
<1> HIDE DEF q2
<1>5. q1 \in Packet /\ AndroidUnlayer(s, c, 1, q2) = q1
  BY <1>1, <1>4
<1>6. PreDeobfuscation(s, c, p) = q1
  BY DEF q4, q3, q2, PreDeobfuscation
<1> HIDE DEF q1
<1> QED BY <1>2, <1>3, <1>4, <1>5, <1>6 DEF AndroidUnlayers

\* A part of a packet is one.
LEMMA PartMakes ==
  ASSUME NEW q \in Packet, NEW m \in Nat \ {0}, NEW n \in Int, n <= Len(q)
  PROVE  SubSeq(q, m, n) \in Packet
BY DEF Packet

\* Deobfuscation of whatever is well-formed makes a packet, the same one at
\* Android.
LEMMA DeobfuscationMakes ==
  ASSUME NEW s \in Parameters, NEW q \in Packet, WellFormed(q)
  PROVE  Deobfuscate(s, q) \in Packet /\ AndroidDeobfuscate(s, q) = Deobfuscate(s, q)
<1> DEFINE c == ChosenCombo(s, SubSeq(q, 1, 2))
<1>1. Len(q) \in Nat /\ Len(q) >= 4 /\ q[3] \in 1..8
  BY Bytes DEF WellFormed
<1>2. q[1] \in Byte /\ q[2] \in Byte
  BY <1>1, Bytes
<1>3. c \in Combos
  <2>1. SubSeq(q, 1, 2)[1] = q[1] /\ SubSeq(q, 1, 2)[2] = q[2]
    BY <1>1 DEF Packet
  <2>2. c = ChosenCombo(s, <<q[1], q[2]>>)
    BY <2>1 DEF ChosenCombo
  <2> QED BY <1>2, <2>2, HeaderChooses
<1>4. Body(q) \in Packet
  BY <1>1, PartMakes DEF Body
<1> HIDE DEF c
<1>5. /\ PreDeobfuscation(s, c, Body(q)) \in Packet
      /\ AndroidUnlayers(s, c, Body(q)) = PreDeobfuscation(s, c, Body(q))
  BY <1>3, <1>4, LayersMake
<1> QED BY <1>5 DEF c, Deobfuscate, AndroidDeobfuscate
-----------------------------------------------------------------------------
(* Headers. *)

OfLength(s, n) == s \in Seq(Int) /\ Len(s) = n

\* The length of a concatenation.
LEMMA Concatenation ==
  ASSUME NEW a \in Seq(Int), NEW b \in Seq(Int)
  PROVE  a \o b \in Seq(Int) /\ Len(a \o b) = Len(a) + Len(b)
OBVIOUS

\* The same, when the lengths are known.
LEMMA Joined ==
  ASSUME NEW a, NEW b, NEW m \in Nat, NEW n \in Nat, OfLength(a, m), OfLength(b, n)
  PROVE  OfLength(a \o b, m + n)
<1>1. a \o b \in Seq(Int) /\ Len(a \o b) = Len(a) + Len(b)
  BY Concatenation, Zenon DEF OfLength
<1> QED BY <1>1, Zenon DEF OfLength

\* A header of n numbers is found in front of what it was put before, and
\* goes away again.
LEMMA HeaderRemoved ==
  ASSUME NEW h, NEW data \in Seq(Int), NEW n, OfLength(h, n)
  PROVE  /\ h \o data \in Seq(Int) /\ Len(h \o data) >= n
         /\ SubSeq(h \o data, n + 1, Len(h \o data)) = data
         /\ \A i \in 1..n : (h \o data)[i] = h[i]
<1> DEFINE q == h \o data
           l == Len(data)
           m == n + l
           r == SubSeq(q, n + 1, m)
<1>1. h \in Seq(Int) /\ Len(h) = n /\ n \in Nat /\ l \in Nat
  BY DEF OfLength
<1>2. q \in Seq(Int) /\ Len(q) = m
  BY Concatenation, Zenon DEF OfLength
<1>3. \A i \in 1..l : q[n + i] = data[i]
  <2>1. \A i \in 1..l : q[Len(h) + i] = data[i]
    BY <1>1
  <2> QED BY <2>1, <1>1, Zenon
<1>4. \A i \in 1..n : q[i] = h[i]
  <2>1. \A i \in 1..Len(h) : q[i] = h[i]
    BY <1>1
  <2> QED BY <2>1, <1>1, Zenon
<1>5. r = [i \in 1..l |-> q[n + i]]
  <2> HIDE DEF q
  <2>1. m \in Nat
    BY <1>1
  <2>2. m - (n + 1) + 1 = l /\ \A i \in 1..l : (n + 1) + i - 1 = n + i
    BY <1>1
  <2>3. r = [i \in 1..(m - (n + 1) + 1) |-> q[(n + 1) + i - 1]]
    BY <1>1, <1>2, <2>1
  <2> HIDE DEF m, l
  <2> QED BY <2>2, <2>3
<1>6. data = [i \in 1..l |-> data[i]]
  OBVIOUS
<1>7. r = data
  <2> HIDE DEF r, q, l
  <2> QED BY <1>3, <1>5, <1>6
<1>8. m >= n
  BY <1>1
<1> QED BY <1>2, <1>4, <1>7, <1>8, Zenon

\* Numbers take two bytes, or four.
LEMMA Numbers ==
  ASSUME NEW n \in Int
  PROVE  /\ OfLength(BE16(n), 2) /\ OfLength(BE32(n), 4)
         /\ OfLength(LE16(n), 2) /\ OfLength(LE32(n), 4)
BY DEF BE16, BE32, LE16, LE32, OfLength

\* Functions are sequences.
LEMMA FunctionOfLength ==
  ASSUME NEW n \in Nat, NEW f \in [1..n -> Int]
  PROVE  OfLength(f, n)
<1>1. f \in Seq(Int)
  OBVIOUS
<1>2. Len(f) = n
  OBVIOUS
<1> QED BY <1>1, <1>2, Zenon DEF OfLength

\* An identifier is a sequence of numbers.
LEMMA IdentifierNumbers ==
  ASSUME NEW id \in Identifier
  PROVE  id \in Seq(Int) /\ Len(id) = 16
<1>1. id \in [1..16 -> 0..255]
  BY DEF Identifier
<1>2. 0..255 \subseteq Int
  OBVIOUS
<1>3. id \in [1..16 -> Int]
  BY <1>1, <1>2, Zenon
<1> QED BY <1>3, FunctionOfLength DEF OfLength

\* The part of an identifier that a header carries.
LEMMA Prefix ==
  ASSUME NEW id \in Identifier
  PROVE  OfLength(SubSeq(id, 1, 4), 4) /\ OfLength(SubSeq(id, 1, 8), 8)
<1>1. id \in Seq(Int) /\ Len(id) = 16
  BY IdentifierNumbers
<1>2. SubSeq(id, 1, 4) = [i \in 1..4 |-> id[i]] /\ SubSeq(id, 1, 8) = [i \in 1..8 |-> id[i]]
  BY <1>1
<1>3. \A i \in 1..8 : id[i] \in Int
  BY DEF Identifier
<1>4. [i \in 1..4 |-> id[i]] \in [1..4 -> Int] /\ [i \in 1..8 |-> id[i]] \in [1..8 -> Int]
  BY <1>3
<1> QED BY <1>2, <1>4, FunctionOfLength

\* From position f on, q reads as s does from position g on, n numbers long.
Reads(q, f, s, g, n) == \A i \in 0..n - 1 : q[f + i] = s[g + i]

\* What a sequence reads, it reads in front of another.
LEMMA ReadsInFront ==
  ASSUME NEW q, NEW b \in Seq(Int), NEW m \in Nat, OfLength(q, m),
         NEW f \in Nat \ {0}, NEW s, NEW g, NEW n \in Nat, f + n <= m + 1, Reads(q, f, s, g, n)
  PROVE  Reads(q \o b, f, s, g, n)
<1>1. \A i \in 1..m : (q \o b)[i] = q[i]
  BY HeaderRemoved, Zenon
<1> DEFINE w == q \o b
<1> HIDE DEF w
<1>2. \A i \in 1..m : w[i] = q[i]
  BY <1>1 DEF w
<1>3. \A i \in 0..n - 1 : f + i \in 1..m
  OBVIOUS
<1>4. Reads(w, f, s, g, n)
  BY <1>2, <1>3, Zenon DEF Reads
<1> QED BY <1>4 DEF w

\* Behind m numbers comes what is put there.
LEMMA ReadsBehind ==
  ASSUME NEW q, NEW m \in Nat, OfLength(q, m), NEW b, NEW n \in Nat, OfLength(b, n)
  PROVE  Reads(q \o b, m + 1, b, 1, n)
<1>1. \A i \in 1..Len(b) : (q \o b)[Len(q) + i] = b[i]
  BY DEF OfLength
<1> DEFINE w == q \o b
<1> HIDE DEF w
<1>2. \A i \in 1..n : w[m + i] = b[i]
  BY <1>1, Zenon DEF w, OfLength
<1>3. \A i \in 0..n - 1 : w[(m + 1) + i] = b[1 + i]
  <2> TAKE i \in 0..n - 1
  <2>1. 1 + i \in 1..n /\ m + (1 + i) = (m + 1) + i
    OBVIOUS
  <2> QED BY <1>2, <2>1
<1> QED BY <1>3 DEF w, Reads

\* The first numbers of an identifier.
LEMMA PartOfIdentifier ==
  ASSUME NEW id \in Identifier, NEW n \in {4, 8}
  PROVE  SubSeq(id, 1, n) = [i \in 1..n |-> id[i]]
<1>1. id \in Seq(Int) /\ Len(id) = 16
  BY IdentifierNumbers
<1>2. CASE n = 4
  BY <1>1, <1>2
<1>3. CASE n = 8
  BY <1>1, <1>3
<1> QED BY <1>2, <1>3

\* What reads as they do reads as the identifier does.
LEMMA ReadsPrefix ==
  ASSUME NEW id \in Identifier, NEW n \in {4, 8}, NEW q, NEW f,
         Reads(q, f, SubSeq(id, 1, n), 1, n)
  PROVE  Reads(q, f, id, 1, n)
<1> DEFINE s == SubSeq(id, 1, n)
<1>1. s = [i \in 1..n |-> id[i]]
  BY PartOfIdentifier
<1> HIDE DEF s
<1>2. \A i \in 0..n - 1 : s[1 + i] = id[1 + i]
  BY <1>1
<1> QED BY <1>2, Zenon DEF Reads, s

\* A part that reads as the identifier does is a part of it.
LEMMA SamePart ==
  ASSUME NEW q \in Seq(Int), NEW f \in Nat \ {0}, NEW id \in Identifier, NEW n \in {4, 8},
         Reads(q, f, id, 1, n)
  PROVE  SubSeq(q, f, f + n - 1) = SubSeq(id, 1, n)
<1> DEFINE e == f + n - 1
<1>1. SubSeq(id, 1, n) = [i \in 1..n |-> id[i]]
  BY PartOfIdentifier
<1>2. SubSeq(q, f, e) = [i \in 1..n |-> q[f + i - 1]]
  <2>1. e \in Int /\ e - f + 1 = n
    OBVIOUS
  <2> HIDE DEF e
  <2>2. SubSeq(q, f, e) = [i \in 1..e - f + 1 |-> q[f + i - 1]]
    BY <2>1
  <2> QED BY <2>1, <2>2
<1>3. \A i \in 1..n : q[f + i - 1] = id[i]
  <2> TAKE i \in 1..n
  <2>1. i - 1 \in 0..n - 1 /\ f + (i - 1) = f + i - 1 /\ 1 + (i - 1) = i
    OBVIOUS
  <2> QED BY <2>1 DEF Reads
<1> QED BY <1>1, <1>2, <1>3

\* QUIC's header, 11 numbers long, has its flags and then eight bytes of the
\* identifier.
LEMMA QuicHeaderForm ==
  ASSUME NEW id \in Identifier, NEW seq \in Nat, NEW noise \in Noise("QUIC")
  PROVE  /\ OfLength(QuicHeader(id, seq, noise), 11)
         /\ QuicHeader(id, seq, noise)[1] = 64 + noise
         /\ Reads(QuicHeader(id, seq, noise), 2, id, 1, 8)
<1> DEFINE a == <<64 + noise>>
           b == SubSeq(id, 1, 8)
           c == BE16(seq)
           d == a \o b
           h == d \o c
<1>1. OfLength(a, 1) /\ a[1] = 64 + noise
  BY DEF Noise, OfLength
<1>2. OfLength(b, 8) /\ OfLength(c, 2)
  <2>1. seq \in Int
    OBVIOUS
  <2> QED BY <2>1, Prefix, Numbers, Zenon
<1>3. h = QuicHeader(id, seq, noise)
  BY DEF QuicHeader
<1> HIDE DEF a, c, d, h
<1>4. OfLength(d, 9)
  BY <1>1, <1>2, Joined DEF d
<1>5. c \in Seq(Int) /\ b \in Seq(Int)
  BY <1>2, Zenon DEF OfLength
<1>6. Reads(d, 2, b, 1, 8)
  <2>1. Reads(d, 1 + 1, b, 1, 8)
    BY <1>1, <1>2, ReadsBehind DEF d
  <2> QED BY <2>1
<1>7. Reads(h, 2, b, 1, 8)
  BY <1>4, <1>5, <1>6, ReadsInFront DEF h
<1>8. Reads(h, 2, id, 1, 8)
  BY <1>7, ReadsPrefix
<1>9. h[1] = a[1]
  <2>1. \A i \in 1..1 : d[i] = a[i]
    BY <1>1, <1>5, HeaderRemoved, Zenon DEF d
  <2>2. \A i \in 1..9 : h[i] = d[i]
    BY <1>4, <1>5, HeaderRemoved, Zenon DEF h
  <2> QED BY <2>1, <2>2
<1>10. OfLength(h, 11)
  BY <1>2, <1>4, Joined DEF h
<1> QED BY <1>1, <1>3, <1>8, <1>9, <1>10

\* KCP's, 24 numbers long, begins with four bytes of the identifier.
LEMMA SevenFields ==
  ASSUME NEW id \in Identifier, NEW x1, NEW x2, NEW x3, NEW x4, NEW x5, NEW x6,
         OfLength(x1, 2), OfLength(x2, 2), OfLength(x3, 4), OfLength(x4, 4),
         OfLength(x5, 4), OfLength(x6, 4)
  PROVE  LET h == SubSeq(id, 1, 4) \o x1 \o x2 \o x3 \o x4 \o x5 \o x6
         IN OfLength(h, 24) /\ Reads(h, 1, id, 1, 4)
<1> DEFINE d0 == SubSeq(id, 1, 4)
           d1 == d0 \o x1
           d2 == d1 \o x2
           d3 == d2 \o x3
           d4 == d3 \o x4
           d5 == d4 \o x5
           d6 == d5 \o x6
<1>1. OfLength(d0, 4) /\ Reads(d0, 1, d0, 1, 4)
  BY Prefix DEF Reads
<1>2. x1 \in Seq(Int) /\ x2 \in Seq(Int) /\ x3 \in Seq(Int) /\ x4 \in Seq(Int)
      /\ x5 \in Seq(Int) /\ x6 \in Seq(Int)
  BY DEF OfLength
<1>3. Reads(d0, 1, id, 1, 4)
  BY <1>1, ReadsPrefix
<1> HIDE DEF d0, d1, d2, d3, d4, d5, d6
<1>4. OfLength(d1, 6) /\ Reads(d1, 1, id, 1, 4)
  BY <1>1, <1>2, <1>3, Joined, ReadsInFront DEF d1
<1>5. OfLength(d2, 8) /\ Reads(d2, 1, id, 1, 4)
  BY <1>2, <1>4, Joined, ReadsInFront DEF d2
<1>6. OfLength(d3, 12) /\ Reads(d3, 1, id, 1, 4)
  BY <1>2, <1>5, Joined, ReadsInFront DEF d3
<1>7. OfLength(d4, 16) /\ Reads(d4, 1, id, 1, 4)
  BY <1>2, <1>6, Joined, ReadsInFront DEF d4
<1>8. OfLength(d5, 20) /\ Reads(d5, 1, id, 1, 4)
  BY <1>2, <1>7, Joined, ReadsInFront DEF d5
<1>9. OfLength(d6, 24) /\ Reads(d6, 1, id, 1, 4)
  BY <1>2, <1>8, Joined, ReadsInFront DEF d6
<1> QED BY <1>9 DEF d0, d1, d2, d3, d4, d5, d6

\* So it is at the server, and so at Android.
LEMMA KcpHeaderForm ==
  ASSUME NEW id \in Identifier, NEW seq \in Nat, NEW noise \in Noise("KCP"), NEW length \in Nat
  PROVE  \A h \in {KcpHeader(id, seq, noise, length), AndroidKcpHeader(id, seq, noise, length)} :
           OfLength(h, 24) /\ Reads(h, 1, id, 1, 4)
<1> DEFINE una == IF seq = 0 THEN 0 ELSE seq - 1
<1>1. OfLength(noise, 4)
  <2>1. noise \in [1..4 -> Int]
    BY DEF Noise
  <2> QED BY <2>1, FunctionOfLength
<1>2. OfLength(<<81, 0>>, 2)
  BY DEF OfLength
<1>3. /\ OfLength(LE16(256), 2) /\ OfLength(LE32(seq), 4) /\ OfLength(LE32(length), 4)
      /\ OfLength(BE16(256), 2) /\ OfLength(BE32(seq), 4) /\ OfLength(BE32(length), 4)
  BY Numbers
<1>4. OfLength(LE32(una), 4) /\ OfLength(BE32(seq - 1), 4)
  <2>1. una \in Int /\ seq - 1 \in Int
    OBVIOUS
  <2> HIDE DEF una
  <2> QED BY <2>1, Numbers
<1> HIDE DEF una
<1>5. LET h == SubSeq(id, 1, 4) \o <<81, 0>> \o LE16(256) \o noise \o LE32(seq) \o LE32(una)
                 \o LE32(length)
      IN OfLength(h, 24) /\ Reads(h, 1, id, 1, 4)
  BY <1>1, <1>2, <1>3, <1>4, SevenFields
<1>6. LET h == SubSeq(id, 1, 4) \o <<81, 0>> \o BE16(256) \o noise \o BE32(seq) \o BE32(seq - 1)
                 \o BE32(length)
      IN OfLength(h, 24) /\ Reads(h, 1, id, 1, 4)
  BY <1>1, <1>2, <1>3, <1>4, SevenFields
<1> QED BY <1>5, <1>6, Zenon DEF KcpHeader, AndroidKcpHeader, una

\* The game's, 12 numbers long, has the signature and then four bytes of the
\* identifier.
LEMMA GameHeaderForm ==
  ASSUME NEW id \in Identifier, NEW seq \in Nat, NEW noise \in Noise("GAME")
  PROVE  /\ OfLength(GameHeader(id, seq, noise), 12)
         /\ \A i \in 1..4 : GameHeader(id, seq, noise)[i] = Magic[i]
         /\ Reads(GameHeader(id, seq, noise), 5, id, 1, 4)
<1> DEFINE a == Magic
           b == SubSeq(id, 1, 4)
           c == BE16(seq)
           d == a \o b
           e == d \o c
           f == e \o noise
<1>1. OfLength(noise, 2)
  <2>1. PICK x \in 1..5, y \in 0..255 : noise = <<x, y>>
    BY DEF Noise
  <2>2. OfLength(<<x, y>>, 2)
    BY DEF OfLength
  <2> QED BY <2>1, <2>2
<1>2. OfLength(a, 4)
  BY DEF Magic, OfLength
<1>3. OfLength(b, 4) /\ OfLength(c, 2)
  BY Prefix, Numbers
<1> HIDE DEF a, c, d, e, f
<1>4. OfLength(d, 8)
  BY <1>2, <1>3, Joined DEF d
<1>5. OfLength(e, 10)
  BY <1>3, <1>4, Joined DEF e
<1>6. OfLength(f, 12)
  BY <1>1, <1>5, Joined DEF f
<1>0. b \in Seq(Int) /\ c \in Seq(Int) /\ noise \in Seq(Int)
  BY <1>1, <1>3, Zenon DEF OfLength
<1>7. \A i \in 1..4 : d[i] = a[i]
  BY <1>0, <1>2, HeaderRemoved, Zenon DEF d
<1>8. \A i \in 1..8 : e[i] = d[i]
  BY <1>0, <1>4, HeaderRemoved, Zenon DEF e
<1>9. \A i \in 1..10 : f[i] = e[i]
  BY <1>0, <1>5, HeaderRemoved, Zenon DEF f
<1>10. \A i \in 1..4 : f[i] = a[i]
  BY <1>7, <1>8, <1>9
<1>11. Reads(d, 5, b, 1, 4)
  <2>1. Reads(d, 4 + 1, b, 1, 4)
    BY <1>2, <1>3, ReadsBehind DEF d
  <2> QED BY <2>1
<1>12. Reads(e, 5, b, 1, 4)
  BY <1>4, <1>0, <1>11, ReadsInFront DEF e
<1>13. Reads(f, 5, b, 1, 4)
  BY <1>5, <1>0, <1>12, ReadsInFront DEF f
<1>14. Reads(f, 5, id, 1, 4)
  BY <1>13, ReadsPrefix
<1> QED BY <1>6, <1>10, <1>14 DEF GameHeader, a, c, d, e, f

\* A sequence reads as the game's signature if its first four numbers do, their
\* top bits dropped.
LEMMA MagicSeen ==
  ASSUME NEW q \in Seq(Int), Len(q) >= 11
  PROVE  SaysGame(q) <=> \A i \in 1..4 : q[i] % 128 = Magic[i]
<1>1. SubSeq(q, 1, 4) = [i \in 1..4 |-> q[i]]
  OBVIOUS
<1>2. Len(SubSeq(q, 1, 4)) = 4 /\ \A i \in 1..4 : SubSeq(q, 1, 4)[i] = q[i]
  BY <1>1
<1>3. Ascii(SubSeq(q, 1, 4)) = [i \in 1..4 |-> q[i] % 128]
  BY <1>2 DEF Ascii
<1>4. Magic = [i \in 1..4 |-> Magic[i]]
  BY DEF Magic
<1> HIDE DEF Magic
<1> QED BY <1>3, <1>4 DEF SaysGame

\* A sequence that begins with the signature shows it to either client.
LEMMA MagicPrefix ==
  ASSUME NEW q \in Seq(Int), Len(q) >= 11, \A i \in 1..4 : q[i] = Magic[i]
  PROVE  SubSeq(q, 1, 4) = Magic /\ SaysGame(q)
<1>1. SubSeq(q, 1, 4) = [i \in 1..4 |-> q[i]]
  OBVIOUS
<1>2. Magic = [i \in 1..4 |-> Magic[i]] /\ \A i \in 1..4 : Magic[i] % 128 = Magic[i]
  BY DEF Magic
<1> HIDE DEF Magic
<1> QED BY <1>1, <1>2, MagicSeen

\* protocol-templates/: what a template encapsulates, the same template
\* decapsulates to the same data.
THEOREM Decapsulation ==
  ASSUME NEW t \in Templates, NEW id \in Identifier, NEW seq \in Nat, NEW noise \in Noise(t),
         NEW data \in Seq(Int)
  PROVE  /\ Decapsulates(t, Encapsulate(t, id, seq, noise, data))
         /\ Decapsulate(t, Encapsulate(t, id, seq, noise, data)) = data
<1> DEFINE h == CASE t = "QUIC" -> QuicHeader(id, seq, noise)
                  [] t = "KCP"  -> KcpHeader(id, seq, noise, Len(data))
                  [] t = "GAME" -> GameHeader(id, seq, noise)
           q == h \o data
<1>1. Len(data) \in Nat
  OBVIOUS
<1>2. OfLength(h, HeaderLength(t))
  <2>1. CASE t = "QUIC"
    BY <2>1, QuicHeaderForm DEF HeaderLength
  <2>2. CASE t = "KCP"
    BY <1>1, <2>2, KcpHeaderForm DEF HeaderLength
  <2>3. CASE t = "GAME"
    BY <2>3, GameHeaderForm DEF HeaderLength
  <2> QED BY <2>1, <2>2, <2>3 DEF Templates
<1>3. t = "GAME" => \A i \in 1..4 : h[i] = Magic[i]
  BY GameHeaderForm
<1>4. Encapsulate(t, id, seq, noise, data) = q
  BY DEF Encapsulate
<1> HIDE DEF h
<1>5. /\ q \in Seq(Int) /\ Len(q) >= HeaderLength(t)
      /\ SubSeq(q, HeaderLength(t) + 1, Len(q)) = data
      /\ \A i \in 1..HeaderLength(t) : q[i] = h[i]
  BY <1>2, HeaderRemoved, Zenon
<1> HIDE DEF q
<1>6. ASSUME t = "GAME" PROVE SaysGame(q)
  <2>1. HeaderLength(t) = 12
    BY <1>6 DEF HeaderLength
  <2>2. Len(q) >= 12 /\ \A i \in 1..12 : q[i] = h[i]
    BY <1>5, <2>1, Zenon
  <2>3. Len(q) >= 11 /\ \A i \in 1..4 : q[i] = Magic[i]
    BY <1>3, <1>6, <2>2
  <2> QED BY <1>5, <2>3, MagicPrefix
<1> QED BY <1>4, <1>5, <1>6, Zenon DEF Decapsulates, Decapsulate

\* What Android encapsulates, the server's template decapsulates.
LEMMA AndroidDecapsulation ==
  ASSUME NEW t \in Templates, NEW id \in Identifier, NEW seq \in Nat, NEW noise \in Noise(t),
         NEW data \in Seq(Int)
  PROVE  /\ Decapsulates(t, AndroidEncapsulate(t, id, seq, noise, data))
         /\ Decapsulate(t, AndroidEncapsulate(t, id, seq, noise, data)) = data
<1>1. CASE t = "KCP"
  <2> DEFINE h == AndroidKcpHeader(id, seq, noise, Len(data))
             q == h \o data
  <2>1. OfLength(h, 24)
    BY <1>1, KcpHeaderForm
  <2>2. AndroidEncapsulate(t, id, seq, noise, data) = q
    BY <1>1 DEF AndroidEncapsulate
  <2>3. HeaderLength(t) = 24 /\ t # "GAME"
    BY <1>1 DEF HeaderLength
  <2> HIDE DEF h
  <2>4. Len(q) >= 24 /\ SubSeq(q, 24 + 1, Len(q)) = data
    BY <2>1, HeaderRemoved, Zenon
  <2> HIDE DEF q
  <2> QED BY <2>2, <2>3, <2>4, Zenon DEF Decapsulates, Decapsulate
<1>2. CASE t # "KCP"
  BY <1>2, Decapsulation DEF AndroidEncapsulate
<1> QED BY <1>1, <1>2

\* What server.ts reads in a datagram: the flags, or the game's signature, and
\* the identifier.
Marked(t, id, q) ==
  /\ q \in Seq(Int) /\ Len(q) >= 11
  /\ t = "QUIC" => q[1] \in 64..79 /\ Reads(q, 2, id, 1, 8)
  /\ t = "KCP" => Reads(q, 1, id, 1, 4)
  /\ t = "GAME" => (\A i \in 1..4 : q[i] = Magic[i]) /\ Reads(q, 5, id, 1, 4)

\* Both clients and the server mark what they encapsulate.
LEMMA EncapsulatedMarked ==
  ASSUME NEW t \in Templates, NEW id \in Identifier, NEW seq \in Nat, NEW noise \in Noise(t),
         NEW data \in Seq(Int)
  PROVE  /\ Marked(t, id, Encapsulate(t, id, seq, noise, data))
         /\ Marked(t, id, AndroidEncapsulate(t, id, seq, noise, data))
<1>1. CASE t = "QUIC"
  <2> DEFINE h == QuicHeader(id, seq, noise)
             q == h \o data
  <2>1. OfLength(h, 11) /\ h[1] = 64 + noise /\ Reads(h, 2, id, 1, 8) /\ noise \in 0..15
    BY <1>1, QuicHeaderForm DEF Noise
  <2>2. /\ Encapsulate(t, id, seq, noise, data) = q
        /\ AndroidEncapsulate(t, id, seq, noise, data) = q
    BY <1>1 DEF Encapsulate, AndroidEncapsulate
  <2> HIDE DEF h
  <2>3. q \in Seq(Int) /\ Len(q) >= 11 /\ \A i \in 1..11 : q[i] = h[i]
    BY <2>1, HeaderRemoved, Zenon
  <2>4. Reads(q, 2, id, 1, 8)
    BY <2>1, ReadsInFront
  <2> HIDE DEF q
  <2>5. q[1] \in 64..79
    <3>1. q[1] = h[1]
      BY <2>3
    <3> QED BY <2>1, <3>1
  <2> QED BY <1>1, <2>2, <2>3, <2>4, <2>5, Zenon DEF Marked
<1>2. CASE t = "KCP"
  <2>1. Len(data) \in Nat
    OBVIOUS
  <2>2. ASSUME NEW h, OfLength(h, 24), Reads(h, 1, id, 1, 4)
        PROVE  Marked(t, id, h \o data)
    <3> DEFINE q == h \o data
    <3>1. q \in Seq(Int) /\ Len(q) >= 24
      BY <2>2, HeaderRemoved, Zenon
    <3>2. Reads(q, 1, id, 1, 4)
      BY <2>2, ReadsInFront
    <3> HIDE DEF q
    <3>3. Len(q) >= 11
      BY <3>1
    <3>4. Marked(t, id, q)
      BY <1>2, <3>1, <3>2, <3>3, Zenon DEF Marked
    <3> QED BY <3>4 DEF q
  <2>3. /\ Encapsulate(t, id, seq, noise, data) = KcpHeader(id, seq, noise, Len(data)) \o data
        /\ AndroidEncapsulate(t, id, seq, noise, data)
             = AndroidKcpHeader(id, seq, noise, Len(data)) \o data
    BY <1>2 DEF Encapsulate, AndroidEncapsulate
  <2> QED BY <1>2, <2>1, <2>2, <2>3, KcpHeaderForm
<1>3. CASE t = "GAME"
  <2> DEFINE h == GameHeader(id, seq, noise)
             q == h \o data
  <2>1. OfLength(h, 12) /\ (\A i \in 1..4 : h[i] = Magic[i]) /\ Reads(h, 5, id, 1, 4)
    BY <1>3, GameHeaderForm
  <2>2. /\ Encapsulate(t, id, seq, noise, data) = q
        /\ AndroidEncapsulate(t, id, seq, noise, data) = q
    BY <1>3 DEF Encapsulate, AndroidEncapsulate
  <2> HIDE DEF h
  <2>3. q \in Seq(Int) /\ Len(q) >= 12 /\ \A i \in 1..12 : q[i] = h[i]
    BY <2>1, HeaderRemoved, Zenon
  <2>4. Reads(q, 5, id, 1, 4)
    <3>1. OfLength(h, 12) /\ Reads(h, 5, id, 1, 4)
      BY <2>1
    <3> QED BY <3>1, ReadsInFront
  <2> HIDE DEF q
  <2>5. Len(q) >= 11 /\ \A i \in 1..4 : q[i] = Magic[i]
    <3>1. Len(q) >= 11
      BY <2>3
    <3>2. \A i \in 1..4 : i \in 1..12
      OBVIOUS
    <3> QED BY <2>1, <2>3, <3>1, <3>2, Zenon
  <2> QED BY <1>3, <2>2, <2>3, <2>4, <2>5, Zenon DEF Marked
<1> QED BY <1>1, <1>2, <1>3 DEF Templates

\* An identifier whose first bytes, their top bits dropped, are the signature's
\* last.
LEMMA MagicInIdentifier ==
  ASSUME NEW id \in Identifier, \A i \in 1..3 : id[i] % 128 = Magic[i + 1]
  PROVE  Ascii(SubSeq(id, 1, 3)) = SubSeq(Magic, 2, 4)
<1>1. id \in Seq(Int) /\ Len(id) = 16
  BY IdentifierNumbers
<1>2. Ascii(SubSeq(id, 1, 3)) = [i \in 1..3 |-> id[i] % 128]
  <2>1. SubSeq(id, 1, 3) = [i \in 1..3 |-> id[i]]
    BY <1>1
  <2>2. Len(SubSeq(id, 1, 3)) = 3 /\ \A i \in 1..3 : SubSeq(id, 1, 3)[i] = id[i]
    BY <1>1, <2>1
  <2> QED BY <2>2 DEF Ascii
<1>3. Magic \in Seq(Int) /\ Len(Magic) = 4
  BY DEF Magic
<1>4. SubSeq(Magic, 2, 4) = [i \in 1..3 |-> Magic[i + 1]]
  <2>1. \A i \in 1..3 : 2 + i - 1 = i + 1
    OBVIOUS
  <2>2. SubSeq(Magic, 2, 4) = [i \in 1..3 |-> Magic[2 + i - 1]]
    BY <1>3
  <2> QED BY <2>1, <2>2
<1> HIDE DEF Magic
<1>5. \A i \in 1..3 : id[i] % 128 = Magic[i + 1]
  OBVIOUS
<1> QED BY <1>2, <1>4, <1>5

\* extractHeaderIDFromPacket finds the template and the identifier that a
\* datagram is marked with, unless a KCP conversation begins like a QUIC
\* header's flags or reads as the signature, or a QUIC header does.
LEMMA MarkRecognised ==
  ASSUME NEW t \in Templates, NEW id \in Identifier, NEW q, Marked(t, id, q),
         t = "KCP" => id[1] \div 16 # 4 /\ ~SaysGame(id),
         t = "QUIC" => q[1] # Magic[1] \/ Ascii(SubSeq(id, 1, 3)) # SubSeq(Magic, 2, 4)
  PROVE  ExtractHeaderID(q)
           = [templateId |-> t, headerID |-> SubSeq(id, 1, HeaderIDLength(t))]
<1>1. q \in Seq(Int) /\ Len(q) >= 11
  BY DEF Marked
<1>2. SaysGame(q) <=> \A i \in 1..4 : q[i] % 128 = Magic[i]
  BY <1>1, MagicSeen
<1>3. CASE t = "QUIC"
  <2>1. q[1] \in 64..79 /\ Reads(q, 2, id, 1, 8)
    BY <1>3 DEF Marked
  <2>2. ~SaysGame(q)
    <3> SUFFICES ASSUME \A i \in 1..4 : q[i] % 128 = Magic[i] PROVE FALSE
      BY <1>2
    <3>1. q[1] = Magic[1]
      <4>1. q[1] % 128 = Magic[1]
        OBVIOUS
      <4> QED BY <2>1, <4>1
    <3>2. \A i \in 1..3 : id[i] % 128 = Magic[i + 1]
      <4> TAKE i \in 1..3
      <4>1. i - 1 \in 0..8 - 1 /\ 2 + (i - 1) = i + 1 /\ 1 + (i - 1) = i /\ i + 1 \in 1..4
        OBVIOUS
      <4>2. q[2 + (i - 1)] = id[1 + (i - 1)]
        BY <2>1, <4>1, Zenon DEF Reads
      <4> QED BY <4>1, <4>2
    <3> QED BY <1>3, <3>1, <3>2, MagicInIdentifier
  <2>3. q[1] \div 16 = 4
    BY <2>1
  <2>4. SubSeq(q, 2, 2 + 8 - 1) = SubSeq(id, 1, 8)
    BY <1>1, <2>1, SamePart
  <2> QED BY <1>3, <2>2, <2>3, <2>4 DEF ExtractHeaderID, Found, HeaderIDLength
<1>4. CASE t = "KCP"
  <2>1. Reads(q, 1, id, 1, 4)
    BY <1>4 DEF Marked
  <2>2. q[1] = id[1]
    <3>1. q[1 + 0] = id[1 + 0]
      BY <2>1 DEF Reads
    <3> QED BY <3>1
  <2>3. ~SaysGame(q) /\ q[1] \div 16 # 4
    <3>1. \A i \in 1..4 : q[i] = id[i]
      <4> TAKE i \in 1..4
      <4>1. i - 1 \in 0..4 - 1 /\ 1 + (i - 1) = i
        OBVIOUS
      <4>2. q[1 + (i - 1)] = id[1 + (i - 1)]
        BY <2>1, <4>1, Zenon DEF Reads
      <4> QED BY <4>1, <4>2
    <3>2. id \in Seq(Int) /\ Len(id) >= 11
      <4>1. id \in Seq(Int) /\ Len(id) = 16
        BY IdentifierNumbers
      <4> QED BY <4>1
    <3>3. SaysGame(id) <=> \A i \in 1..4 : id[i] % 128 = Magic[i]
      BY <3>2, MagicSeen
    <3>4. SaysGame(q) <=> SaysGame(id)
      BY <1>2, <3>1, <3>3
    <3> QED BY <1>4, <2>2, <3>4
  <2>4. SubSeq(q, 1, 1 + 4 - 1) = SubSeq(id, 1, 4)
    BY <1>1, <2>1, SamePart
  <2> QED BY <1>4, <2>3, <2>4 DEF ExtractHeaderID, Found, HeaderIDLength
<1>5. CASE t = "GAME"
  <2>1. (\A i \in 1..4 : q[i] = Magic[i]) /\ Reads(q, 5, id, 1, 4)
    BY <1>5 DEF Marked
  <2>2. SubSeq(q, 5, 5 + 4 - 1) = SubSeq(id, 1, 4)
    BY <1>1, <2>1, SamePart
  <2>3. SaysGame(q)
    BY <1>1, <2>1, MagicPrefix, Zenon
  <2> QED BY <1>5, <2>2, <2>3 DEF ExtractHeaderID, Found, HeaderIDLength
<1> QED BY <1>3, <1>4, <1>5 DEF Templates

-----------------------------------------------------------------------------
(* Datagrams. *)

\* What may be drawn for a packet, and the packets that come out again.
Drawable(a, r, padding, noise, p) ==
  /\ r \in Byte \X Byte /\ noise \in Noise(a.template)
  /\ padding \in Packet /\ Len(padding) \in 1..MaxPadding
  /\ p \in Packet /\ p # <<>> /\ Len(p) % 2 = 0

\* Bytes are numbers.
LEMMA BytesAreNumbers ==
  ASSUME NEW q \in Packet
  PROVE  q \in Seq(Int)
<1>1. q \in Seq(Byte)
  BY DEF Packet
<1>2. Len(q) \in Nat /\ q = [i \in 1..Len(q) |-> q[i]]
  BY <1>1
<1>3. \A i \in 1..Len(q) : q[i] \in Int
  <2>1. \A i \in 1..Len(q) : q[i] \in Byte
    BY <1>1
  <2>2. \A b \in Byte : b \in Int
    BY DEF Byte
  <2> QED BY <2>1, <2>2, Zenon
<1> QED BY <1>2, <1>3

\* A WireGuard packet comes out as it went in: at either client what the
\* server sent, and at the server what either client sent.
LEMMA WrapUndone ==
  ASSUME NEW a \in Agreement, NEW seq \in Nat, NEW r, NEW padding, NEW noise, NEW p,
         Drawable(a, r, padding, noise, p)
  PROVE  /\ UnwrapAtClient(a, Wrap(a, seq, r, padding, noise, p)) = p
         /\ UnwrapAtServer(a, WrapAtClient(a, seq, r, padding, noise, p)) = p
<1> DEFINE q == Obfuscate(a.obfuscator, r[1], r[2], padding, p)
           w == Wrap(a, seq, r, padding, noise, p)
           v == AndroidWrap(a, seq, r, padding, noise, p)
<1>1. /\ a.template \in Templates /\ a.clientID \in Identifier
      /\ a.obfuscator \in Parameters /\ r[1] \in Byte /\ r[2] \in Byte
      /\ noise \in Noise(a.template)
  BY DEF Agreement, Drawable
<1>2. /\ q \in Packet /\ Len(q) > 4 /\ WellFormed(q)
      /\ Deobfuscate(a.obfuscator, q) = p /\ AndroidDeobfuscate(a.obfuscator, q) = p
      /\ AndroidObfuscate(a.obfuscator, r[1], r[2], padding, p) = q
  <2>1. /\ p \in Packet /\ p # <<>> /\ Len(p) % 2 = 0
        /\ padding \in Packet /\ Len(padding) \in 1..MaxPadding
    BY Zenon DEF Drawable
  <2> QED BY <1>1, <2>1, RoundTrip, AndroidAgrees, Zenon
<1>3. q \in Seq(Int) /\ q # <<1>>
  <2> HIDE DEF q
  <2>1. q \in Seq(Int)
    BY <1>2, BytesAreNumbers, Zenon
  <2>2. Len(<<1>>) = 1 /\ ~(1 > 4)
    OBVIOUS
  <2> QED BY <1>2, <2>1, <2>2, Zenon
<1>4. /\ w = Encapsulate(a.template, a.clientID, seq, noise, q)
      /\ v = AndroidEncapsulate(a.template, a.clientID, seq, noise, q)
  BY <1>2 DEF Wrap, AndroidWrap
<1> HIDE DEF q, w, v
<1>5. Decapsulates(a.template, w) /\ Decapsulate(a.template, w) = q
  BY <1>1, <1>3, <1>4, Decapsulation, Zenon
<1>6. Decapsulates(a.template, v) /\ Decapsulate(a.template, v) = q
  BY <1>1, <1>3, <1>4, AndroidDecapsulation, Zenon
<1>7. AndroidDecapsulates(a.template, w)
  <2>1. Marked(a.template, a.clientID, w)
    BY <1>1, <1>3, <1>4, EncapsulatedMarked, Zenon
  <2>2. a.template = "GAME" => SubSeq(w, 1, 4) = Magic
    BY <2>1, MagicPrefix, Zenon DEF Marked
  <2> QED BY <1>5, <2>1, <2>2, Zenon DEF AndroidDecapsulates, Decapsulates, Marked
<1>8. Unwrap(a, w) = p /\ Unwrap(a, v) = p /\ AndroidUnwrap(a, w) = p
  BY <1>2, <1>5, <1>6, <1>7 DEF Unwrap, AndroidUnwrap
<1>9. UnwrapAtServer(a, w) = p /\ UnwrapAtServer(a, v) = p
  BY <1>3, <1>5, <1>6, <1>8 DEF UnwrapAtServer, IsHeartbeat
<1> QED BY <1>8, <1>9 DEF UnwrapAtClient, WrapAtClient, w, v

\* A heartbeat is recognised.
LEMMA HeartbeatRecognised ==
  ASSUME NEW a \in Agreement, NEW seq \in Nat, NEW noise \in Noise(a.template)
  PROVE  UnwrapAtServer(a, HeartbeatData(a, seq, noise)) = <<>>
<1>1. a.template \in Templates /\ a.clientID \in Identifier
  BY DEF Agreement
<1>2. <<1>> \in Seq(Int)
  OBVIOUS
<1>3. /\ Decapsulates(a.template, HeartbeatData(a, seq, noise))
      /\ Decapsulate(a.template, HeartbeatData(a, seq, noise)) = <<1>>
  BY <1>1, <1>2, Decapsulation, AndroidDecapsulation, Zenon DEF HeartbeatData
<1> QED BY <1>3 DEF UnwrapAtServer, IsHeartbeat

\* What is wrapped for a session is marked with its template and identifier.
LEMMA WrapMarked ==
  ASSUME NEW a \in Agreement, NEW seq \in Nat, NEW r, NEW padding, NEW noise, NEW p,
         Drawable(a, r, padding, noise, p)
  PROVE  /\ Marked(a.template, a.clientID, Wrap(a, seq, r, padding, noise, p))
         /\ Marked(a.template, a.clientID, WrapAtClient(a, seq, r, padding, noise, p))
<1> DEFINE q == Obfuscate(a.obfuscator, r[1], r[2], padding, p)
<1>1. /\ a.template \in Templates /\ a.clientID \in Identifier
      /\ a.obfuscator \in Parameters /\ r[1] \in Byte /\ r[2] \in Byte
      /\ noise \in Noise(a.template)
  BY DEF Agreement, Drawable
<1>2. q \in Packet /\ AndroidObfuscate(a.obfuscator, r[1], r[2], padding, p) = q
  <2>1. /\ p \in Packet /\ p # <<>> /\ Len(p) % 2 = 0
        /\ padding \in Packet /\ Len(padding) \in 1..MaxPadding
    BY Zenon DEF Drawable
  <2> QED BY <1>1, <2>1, RoundTrip, AndroidAgrees, Zenon
<1>3. q \in Seq(Int)
  <2> HIDE DEF q
  <2> QED BY <1>2, BytesAreNumbers, Zenon
<1>4. /\ Marked(a.template, a.clientID, Encapsulate(a.template, a.clientID, seq, noise, q))
      /\ Marked(a.template, a.clientID, AndroidEncapsulate(a.template, a.clientID, seq, noise, q))
  <2> HIDE DEF q
  <2> QED BY <1>1, <1>3, EncapsulatedMarked, Zenon
<1> QED BY <1>2, <1>4, Zenon DEF Wrap, AndroidWrap, WrapAtClient

\* So is a heartbeat.
LEMMA HeartbeatMarked ==
  ASSUME NEW a \in Agreement, NEW seq \in Nat, NEW noise \in Noise(a.template)
  PROVE  Marked(a.template, a.clientID, HeartbeatData(a, seq, noise))
<1>1. a.template \in Templates /\ a.clientID \in Identifier
  BY DEF Agreement
<1>2. <<1>> \in Seq(Int)
  OBVIOUS
<1> QED BY <1>1, <1>2, EncapsulatedMarked, Zenon DEF HeartbeatData

-----------------------------------------------------------------------------
(* The invariant: each datagram in flight is unwrapped to what was sent,   *)
(* with the parameters of the session whose port it has, and marked as     *)
(* that session's; and unless an answer misled the client, those are the   *)
(* parameters it uses.                                                     *)

Typed ==
  /\ agreed \in Seq(Handshakes)
  /\ port \in Nat /\ clientSeq \in Nat
  /\ serverSeq \in Seq(Nat) /\ Len(serverSeq) = Len(agreed)
  /\ misled \in BOOLEAN

PortInv == port \in Sessions \cup {0} /\ (~misled => port = 0 \/ port = current)

Sound(d) ==
  /\ d.port \in Sessions
  /\ d.to = "client" =>
       d.packet # Thrown /\ UnwrapAtClient(Agreed(d.port), d.bytes) = d.packet
  /\ d.to = "server" =>
       \/ misled \/ CutShort(Agreed(d.port), d.packet)
       \/ UnwrapAtServer(Agreed(d.port), d.bytes) = d.packet
  /\ d.to = "client" \/ ~misled =>
       Marked(Agreed(d.port).template, Agreed(d.port).clientID, d.bytes)

WireInv == \A d \in wire : Sound(d)

PathInv == Typed /\ PortInv /\ WireInv /\ ArrivesAsSent

\* Sessions have parameters, and a packet of WireGuard is not an exception.
LEMMA AgreedTyped ==
  ASSUME Typed, NEW n \in Sessions
  PROVE  Agreed(n) \in Agreement /\ serverSeq[n] \in Nat /\ n \in Nat
<1>1. agreed[n] \in Handshakes /\ serverSeq[n] \in Nat /\ n \in Nat
  BY DEF Typed, Sessions, current
<1> QED BY <1>1, DataPathAssumption DEF Agreed

\* What stands for an exception is no packet.
LEMMA NotThrown ==
  ASSUME NEW p \in WireGuard
  PROVE  p # Thrown
<1>1. p \in Packet /\ p # <<>>
  BY DataPathAssumption
<1>2. Len(p) > 0 /\ p[1] \in Byte
  BY <1>1 DEF Packet
<1>3. Thrown[1] = -2 /\ -2 \notin Byte
  BY DEF Thrown, Byte
<1> QED BY <1>2, <1>3, Zenon

\* What either end may draw.
LEMMA Drawn ==
  ASSUME NEW p \in WireGuard, NEW r \in RandomBytes, NEW padding \in Paddings,
         NEW a \in Agreement, NEW noise \in NoiseOf(a.template)
  PROVE  Drawable(a, r, padding, noise, p)
<1>1. a.template \in Templates
  BY DEF Agreement
<1>2. /\ p \in Packet /\ p # <<>> /\ Len(p) % 2 = 0
      /\ r \in Byte \X Byte /\ padding \in Packet /\ Len(padding) \in 1..MaxPadding
      /\ noise \in Noise(a.template)
  BY <1>1, DataPathAssumption
<1> QED BY <1>2, Zenon DEF Drawable

\* The Android client's buffer holds a packet, or a first part of it that is a
\* packet of even length again.
LEMMA ReceivedDrawable ==
  ASSUME NEW a, NEW b, NEW r, NEW padding, NEW noise, NEW p, Drawable(b, r, padding, noise, p)
  PROVE  /\ Drawable(b, r, padding, noise, Received(a, p))
         /\ Len(Received(a, p)) <= Len(p)
         /\ ~CutShort(a, p) => Received(a, p) = p
<1>1. p \in Packet /\ p # <<>> /\ Len(p) % 2 = 0
  BY Zenon DEF Drawable
<1>2. CASE ~CutShort(a, p)
  <2>1. Received(a, p) = p /\ Len(p) <= Len(p)
    BY <1>1, <1>2, Bytes DEF Received
  <2> QED BY <2>1
<1>3. CASE CutShort(a, p)
  <2>1. /\ Received(a, p) = SubSeq(p, 1, ReceiveBuffer)
        /\ Len(p) > ReceiveBuffer /\ ReceiveBuffer \in Nat \ {0} /\ ReceiveBuffer % 2 = 0
    BY <1>3, DataPathAssumption DEF Received, CutShort
  <2>2. Len(p) \in Nat
    BY <1>1, Bytes
  <2>3. Received(a, p) \in Packet
    <3>1. 1 \in Nat \ {0} /\ ReceiveBuffer \in Int /\ ReceiveBuffer <= Len(p)
      BY <2>1, <2>2
    <3> QED BY <1>1, <2>1, <3>1, PartMakes, Zenon
  <2>4. Len(Received(a, p)) = ReceiveBuffer
    BY <1>1, <2>1, <2>2 DEF Packet
  <2>5. Received(a, p) # <<>> /\ Len(Received(a, p)) % 2 = 0 /\ Len(Received(a, p)) <= Len(p)
    BY <2>1, <2>2, <2>4
  <2> QED BY <1>3, <2>3, <2>5, Zenon DEF Drawable
<1> QED BY <1>2, <1>3

\* Whatever bytes arrive, the buffer holds bytes.
LEMMA ReceivedBytes ==
  ASSUME NEW a, NEW q \in Packet
  PROVE  Received(a, q) \in Packet
<1>1. CASE CutShort(a, q)
  <2>1. ReceiveBuffer \in Nat \ {0} /\ Len(q) > ReceiveBuffer /\ Len(q) \in Nat
    BY <1>1, Bytes, DataPathAssumption DEF CutShort
  <2>2. 1 \in Nat \ {0} /\ ReceiveBuffer \in Int /\ ReceiveBuffer <= Len(q)
    BY <2>1
  <2>3. SubSeq(q, 1, ReceiveBuffer) \in Packet
    BY <2>2, PartMakes, Zenon
  <2> QED BY <1>1, <2>3 DEF Received
<1> QED BY <1>1 DEF Received

\* Sequence numbers stay natural.
LEMMA SequenceNatural ==
  ASSUME NEW seq \in Nat, NEW a
  PROVE  /\ UpdateState(seq) \in Nat /\ UpdateAtClient(a, seq) \in Nat
         /\ \A n \in FirstNumbers(a) : n \in Nat
<1>1. SequenceModulus \in Nat \ {0}
  BY ModulusAssumption
<1>2. AndroidModulus(a.template) \in Nat \ {0}
  <2>1. SequenceModulus * SequenceModulus \in Nat \ {0}
    BY <1>1
  <2> QED BY <1>1, <2>1 DEF AndroidModulus
<1> QED BY <1>1, <1>2 DEF UpdateState, UpdateAtClient, AndroidUpdateState, FirstNumbers

\* The invariant holds before the first handshake.
LEMMA PathInvInitially == Init => PathInv
<1> SUFFICES ASSUME Init PROVE PathInv
  OBVIOUS
<1>1. <<>> \in Seq(Handshakes) /\ <<>> \in Seq(Nat)
  OBVIOUS
<1>2. Typed
  BY <1>1 DEF Init, Typed
<1> QED BY <1>2 DEF Init, PathInv, PortInv, WireInv, ArrivesAsSent

\* Appending to a sequence.
LEMMA Appended ==
  ASSUME NEW S, NEW s \in Seq(S), NEW e \in S
  PROVE  /\ Append(s, e) \in Seq(S) /\ Len(Append(s, e)) = Len(s) + 1
         /\ \A i \in 1..Len(s) : i \in 1..Len(Append(s, e)) /\ Append(s, e)[i] = s[i]
OBVIOUS

\* Replacing an element of one.
LEMMA Replaced ==
  ASSUME NEW s \in Seq(Nat), NEW n \in 1..Len(s), NEW e \in Nat
  PROVE  [s EXCEPT ![n] = e] \in Seq(Nat) /\ Len([s EXCEPT ![n] = e]) = Len(s)
OBVIOUS

\* A step that keeps the sessions and the history, and adds only sound
\* datagrams, keeps the wire sound.
LEMMA WireKept ==
  ASSUME WireInv, UNCHANGED <<agreed, misled>>, \A d \in wire' : d \in wire \/ Sound(d)
  PROVE  WireInv'
BY DEF WireInv, Sound, Sessions, current, Agreed

\* So does one that keeps what the other two parts speak of.
LEMMA QuietKept ==
  ASSUME PathInv, UNCHANGED <<agreed, port, misled, alive, arrival>>
  PROVE  PortInv' /\ ArrivesAsSent'
BY DEF PathInv, PortInv, ArrivesAsSent, Sessions, current

\* Each action keeps the invariant.  A new session leaves the earlier ones as
\* they are, and has no port yet.
LEMMA ProposeKeeps ==
  ASSUME PathInv, NEW h \in Handshakes, NEW seq \in FirstNumbers(Proposed[h]), Propose(h, seq)
  PROVE  PathInv'
<1> USE DEF PathInv
<1>1. Typed'
  <2>1. seq \in Nat /\ 0 \in Nat
    BY SequenceNatural
  <2>2. agreed' \in Seq(Handshakes) /\ serverSeq' \in Seq(Nat) /\ Len(serverSeq') = Len(agreed')
    <3>1. /\ agreed \in Seq(Handshakes) /\ agreed' = Append(agreed, h)
          /\ serverSeq \in Seq(Nat) /\ serverSeq' = Append(serverSeq, seq)
          /\ Len(serverSeq) = Len(agreed)
      BY Zenon DEF Typed, Propose
    <3>2. /\ Append(agreed, h) \in Seq(Handshakes) /\ Len(Append(agreed, h)) = Len(agreed) + 1
          /\ Append(serverSeq, seq) \in Seq(Nat) /\ Len(Append(serverSeq, seq)) = Len(serverSeq) + 1
      BY <2>1, <3>1, Appended
    <3> QED BY <3>1, <3>2, Zenon
  <2> QED BY <2>1, <2>2, Zenon DEF Typed, Propose
<1>2. \A n \in Sessions : n \in Sessions' /\ Agreed(n)' = Agreed(n)
  <2>1. agreed \in Seq(Handshakes) /\ agreed' = Append(agreed, h)
    BY Zenon DEF Typed, Propose
  <2>2. \A n \in 1..Len(agreed) : n \in 1..Len(agreed') /\ agreed'[n] = agreed[n]
    <3>1. \A i \in 1..Len(agreed) : i \in 1..Len(Append(agreed, h)) /\ Append(agreed, h)[i] = agreed[i]
      BY <2>1, Appended
    <3> QED BY <2>1, <3>1, Zenon
  <2> QED BY <2>2, Zenon DEF Sessions, current, Agreed
<1>3. WireInv'
  BY <1>2 DEF WireInv, Sound, Propose
<1> QED BY <1>1, <1>3, Zenon DEF PortInv, ArrivesAsSent, Propose

\* An answer for another session than the present one misleads the client.
LEMMA AnswerKeeps ==
  ASSUME PathInv, NEW n \in Sessions, ServerResponse(n)
  PROVE  PathInv'
<1> USE DEF PathInv
<1>1. Typed'
  BY AgreedTyped DEF Typed, ServerResponse
<1>2. WireInv'
  BY DEF WireInv, Sound, ServerResponse, Sessions, current, Agreed, Typed
<1>3. PortInv'
  <2>1. port' = n /\ misled' = (misled \/ n # current) /\ agreed' = agreed
    BY DEF ServerResponse
  <2>2. Sessions' = Sessions /\ current' = current
    BY <2>1 DEF Sessions, current
  <2> QED BY <2>1, <2>2 DEF PortInv, Typed
<1>4. ArrivesAsSent'
  BY DEF ArrivesAsSent, ServerResponse, Typed
<1> QED BY <1>1, <1>2, <1>3, <1>4

\* What the client sends, it wraps for the present session.
LEMMA SendKeeps ==
  ASSUME PathInv, NEW p \in WireGuard, NEW r \in RandomBytes, NEW padding \in Paddings,
         current > 0, NEW noise \in NoiseOf(Agreed(current).template),
         SendToNewServer(p, r, padding, noise)
  PROVE  PathInv'
<1> USE DEF PathInv
<1> DEFINE a == Agreed(current)
           bytes == WrapAtClient(a, clientSeq, r, padding, noise, Received(a, p))
           d == [to |-> "server", port |-> port, packet |-> p, bytes |-> bytes]
<1>1. Typed'
  BY SequenceNatural DEF Typed, SendToNewServer
<1>2. current \in Sessions
  BY DEF Typed, Sessions, current
<1>3. a \in Agreement
  BY <1>2, AgreedTyped
<1>4. /\ CutShort(a, p) \/ UnwrapAtServer(a, bytes) = p
      /\ Marked(a.template, a.clientID, bytes)
  <2>1. clientSeq \in Nat
    BY DEF Typed
  <2>2. Drawable(a, r, padding, noise, p)
    BY <1>3, Drawn, Zenon
  <2> HIDE DEF a
  <2>3. /\ Drawable(a, r, padding, noise, Received(a, p))
        /\ ~CutShort(a, p) => Received(a, p) = p
    BY <2>2, ReceivedDrawable, Zenon
  <2>4. UnwrapAtServer(a, bytes) = Received(a, p) /\ Marked(a.template, a.clientID, bytes)
    BY <1>3, <2>1, <2>3, WrapUndone, WrapMarked
  <2> QED BY <2>3, <2>4, Zenon
<1>5. UNCHANGED <<agreed, misled>> /\ wire' = wire \cup {d} /\ port # 0
  BY DEF SendToNewServer, Send
<1>6. Sound(d)
  <2>1. misled \/ port = current
    BY <1>5 DEF PortInv, Typed
  <2>2. d.to = "server" /\ d.port = port /\ d.packet = p /\ d.bytes = bytes
    OBVIOUS
  <2>3. port \in Sessions
    BY <1>5 DEF PortInv
  <2> HIDE DEF bytes, d
  <2> QED BY <1>4, <2>1, <2>2, <2>3 DEF Sound
<1>7. WireInv'
  <2> HIDE DEF d
  <2> QED BY <1>5, <1>6, WireKept
<1>8. PortInv' /\ ArrivesAsSent'
  BY QuietKept, Zenon DEF SendToNewServer
<1> QED BY <1>1, <1>7, <1>8

\* So it does with a heartbeat.
LEMMA HeartbeatKeeps ==
  ASSUME PathInv, current > 0, NEW noise \in NoiseOf(Agreed(current).template),
         HeartBeatInterval(noise)
  PROVE  PathInv'
<1> USE DEF PathInv
<1> DEFINE a == Agreed(current)
           bytes == HeartbeatData(a, clientSeq, noise)
           d == [to |-> "server", port |-> port, packet |-> <<>>, bytes |-> bytes]
<1>1. Typed'
  BY SequenceNatural DEF Typed, HeartBeatInterval
<1>2. current \in Sessions
  BY DEF Typed, Sessions, current
<1>3. a \in Agreement
  BY <1>2, AgreedTyped
<1>4. UnwrapAtServer(a, bytes) = <<>> /\ Marked(a.template, a.clientID, bytes)
  <2>1. clientSeq \in Nat
    BY DEF Typed
  <2>2. noise \in Noise(a.template)
    BY <1>3, DataPathAssumption DEF Agreement
  <2> HIDE DEF a
  <2> QED BY <1>3, <2>1, <2>2, HeartbeatRecognised, HeartbeatMarked
<1>5. UNCHANGED <<agreed, misled>> /\ wire' = wire \cup {d} /\ port # 0
  BY DEF HeartBeatInterval, Send
<1>6. Sound(d)
  <2>1. misled \/ port = current
    BY <1>5 DEF PortInv, Typed
  <2>2. d.to = "server" /\ d.port = port /\ d.packet = <<>> /\ d.bytes = bytes
    OBVIOUS
  <2>3. port \in Sessions
    BY <1>5 DEF PortInv
  <2> HIDE DEF bytes, d
  <2> QED BY <1>4, <2>1, <2>2, <2>3 DEF Sound
<1>7. WireInv'
  <2> HIDE DEF d
  <2> QED BY <1>5, <1>6, WireKept
<1>8. PortInv' /\ ArrivesAsSent'
  BY QuietKept, Zenon DEF HeartBeatInterval
<1> QED BY <1>1, <1>7, <1>8

\* What the server sends, it wraps for the session whose port it sends from.
LEMMA FromWireGuardKeeps ==
  ASSUME PathInv, NEW n \in Sessions, NEW p \in WireGuard, NEW r \in RandomBytes,
         NEW padding \in Paddings, NEW noise \in NoiseOf(Agreed(n).template),
         FromWireGuard(n, p, r, padding, noise)
  PROVE  PathInv'
<1> USE DEF PathInv
<1> DEFINE a == Agreed(n)
           bytes == Wrap(a, serverSeq[n], r, padding, noise, p)
           d == [to |-> "client", port |-> n, packet |-> p, bytes |-> bytes]
<1>1. a \in Agreement /\ serverSeq[n] \in Nat
  BY AgreedTyped
<1>2. Typed'
  <2>1. UpdateState(serverSeq[n]) \in Nat
    BY <1>1, SequenceNatural
  <2> HIDE DEF PathInv
  <2>2. serverSeq \in Seq(Nat) /\ serverSeq' = [serverSeq EXCEPT ![n] = UpdateState(serverSeq[n])]
    BY DEF PathInv, Typed, FromWireGuard
  <2>3. serverSeq' \in Seq(Nat) /\ Len(serverSeq') = Len(serverSeq)
    <3>1. n \in 1..Len(serverSeq)
      BY DEF PathInv, Typed, Sessions, current
    <3> QED BY <2>1, <2>2, <3>1, Replaced, Zenon
  <2> QED BY <2>3, Zenon DEF PathInv, Typed, FromWireGuard
<1>3. UnwrapAtClient(a, bytes) = p /\ Marked(a.template, a.clientID, bytes)
  <2>1. Drawable(a, r, padding, noise, p)
    BY <1>1, Drawn, Zenon
  <2> HIDE DEF a
  <2> QED BY <1>1, <2>1, WrapUndone, WrapMarked
<1>4. UNCHANGED <<agreed, misled>> /\ wire' = wire \cup {d}
  BY DEF FromWireGuard, Send
<1>5. Sound(d)
  <2>1. d.to = "client" /\ d.port = n /\ d.packet = p /\ d.bytes = bytes
    OBVIOUS
  <2> HIDE DEF bytes, d
  <2> QED BY <1>3, <2>1, NotThrown DEF Sound
<1>6. WireInv'
  <2> HIDE DEF d
  <2> QED BY <1>4, <1>5, WireKept
<1>7. PortInv' /\ ArrivesAsSent'
  BY QuietKept, Zenon DEF FromWireGuard
<1> QED BY <1>2, <1>6, <1>7

\* A delivered datagram may stay in flight.
LEMMA DeliverKeeps ==
  ASSUME PathInv, NEW d \in wire, Deliver(d), UNCHANGED <<agreed, port, clientSeq, serverSeq, misled>>
  PROVE  Typed' /\ PortInv' /\ WireInv'
<1> USE DEF PathInv
<1>1. WireInv'
  <2>1. \A e \in wire' : e \in wire
    BY DEF Deliver
  <2> QED BY <2>1, WireKept
<1> QED BY <1>1, Zenon DEF Typed, PortInv, Sessions, current

\* The server unwraps for the session whose port a datagram reached.
LEMMA FromClientKeeps ==
  ASSUME PathInv, NEW d \in wire, FromClient(d)
  PROVE  PathInv'
<1>1. Typed' /\ PortInv' /\ WireInv'
  BY DeliverKeeps, Zenon DEF FromClient
<1>2. ArrivesAsSent'
  <2>1. \/ misled \/ CutShort(Agreed(d.port), d.packet)
        \/ UnwrapAtServer(Agreed(d.port), d.bytes) = d.packet
    BY Zenon DEF PathInv, WireInv, Sound, FromClient
  <2>2. /\ arrival'.sent = d.packet /\ arrival'.got = UnwrapAtServer(Agreed(d.port), d.bytes)
        /\ arrival'.whole = ~CutShort(Agreed(d.port), d.packet)
        /\ misled' = misled /\ alive' = alive
    BY DEF FromClient
  <2> QED BY <2>1, <2>2, Zenon DEF PathInv, ArrivesAsSent
<1> QED BY <1>1, <1>2 DEF PathInv

\* The client unwraps for the present session, whose port the datagram has.
LEMMA FromNewServerKeeps ==
  ASSUME PathInv, NEW d \in wire, FromNewServer(d)
  PROVE  PathInv'
<1>1. Typed' /\ PortInv' /\ WireInv'
  BY DeliverKeeps, Zenon DEF FromNewServer
<1>2. ArrivesAsSent'
  <2>1. d.port \in Sessions /\ d.packet # Thrown /\ UnwrapAtClient(Agreed(d.port), d.bytes) = d.packet
    BY Zenon DEF PathInv, WireInv, Sound, FromNewServer
  <2>2. misled \/ d.port = current
    <3>1. d.port = port /\ d.port # 0
      BY <2>1 DEF FromNewServer, FromThisPort, PathInv, Typed, Sessions, current
    <3> QED BY <3>1 DEF PathInv, PortInv
  <2>3. /\ CutShort(Agreed(current), d.bytes) => Agreed(current).client = "Android"
        /\ ~CutShort(Agreed(current), d.bytes) => Received(Agreed(current), d.bytes) = d.bytes
    BY DEF CutShort, Received
  <2> DEFINE got == UnwrapAtClient(Agreed(current), Received(Agreed(current), d.bytes))
  <2>4. /\ arrival'.sent = d.packet /\ arrival'.got = got
        /\ arrival'.whole = ~CutShort(Agreed(current), d.bytes)
        /\ misled' = misled /\ alive' = (got # Thrown \/ Agreed(current).client = "Android")
    BY DEF FromNewServer
  <2>5. misled \/ CutShort(Agreed(current), d.bytes) \/ got = d.packet
    BY <2>1, <2>2, <2>3
  <2> HIDE DEF got
  <2> QED BY <2>1, <2>3, <2>4, <2>5, Zenon DEF PathInv, ArrivesAsSent
<1> QED BY <1>1, <1>2 DEF PathInv

\* A datagram that is lost changes nothing else.
LEMMA LoseKeeps ==
  ASSUME PathInv, NEW d \in wire, Lose(d)
  PROVE  PathInv'
<1>1. Deliver(d)
  BY DEF Lose, Deliver
<1>2. Typed' /\ PortInv' /\ WireInv'
  BY <1>1, DeliverKeeps, Zenon DEF Lose
<1>3. ArrivesAsSent'
  BY Zenon DEF PathInv, ArrivesAsSent, Lose
<1> QED BY <1>2, <1>3 DEF PathInv

\* Together: every step keeps the invariant.
LEMMA PathInvKept == PathInv /\ [Next]_vars => PathInv'
<1> SUFFICES ASSUME PathInv, [Next]_vars PROVE PathInv'
  OBVIOUS
<1>1. CASE Handshaking
  BY <1>1, ProposeKeeps, AnswerKeeps, Zenon DEF Handshaking
<1>2. CASE Sends
  BY <1>2, SendKeeps, FromWireGuardKeeps, Zenon DEF Sends
<1>3. CASE Heartbeats
  BY <1>3, HeartbeatKeeps, Zenon DEF Heartbeats
<1>4. CASE \E d \in wire : FromClient(d) \/ FromNewServer(d) \/ Lose(d)
  BY <1>4, FromClientKeeps, FromNewServerKeeps, LoseKeeps, Zenon
<1>5. CASE UNCHANGED vars
  BY <1>5 DEF vars, PathInv, Typed, PortInv, WireInv, Sound, ArrivesAsSent, Sessions, current, Agreed
<1> QED BY <1>1, <1>2, <1>3, <1>4, <1>5 DEF Next

\* server.ts, client.ts, MorphUdpClient.kt: unless an answer for an earlier
\* session misled the client, every datagram that is not discarded for its port
\* and that the Android client's buffer did not cut short, nor the packet in it,
\* becomes what was sent; and no exception ends the client.
THEOREM PacketsArrive == Spec => []ArrivesAsSent
<1>1. PathInv => ArrivesAsSent
  BY DEF PathInv
<1> QED BY <1>1, PathInvInitially, PathInvKept, PTL DEF Spec

\* base-template.ts: extractHeaderIDFromPacket reads from each datagram the
\* template and the identifier under which the session is filed, but for a KCP
\* conversation that begins like QUIC's flags or reads as "GAME" when its top
\* bits are dropped, and a QUIC header that happens to read so.
THEOREM SessionsRecognised == Spec => []HeaderRecognised
<1>1. PathInv => HeaderRecognised
  <2> SUFFICES ASSUME PathInv, NEW d \in wire, NEW n \in Sessions,
                      d.port = n /\ (d.to = "client" \/ ~misled),
                      Agreed(n).template = "KCP" =>
                        Agreed(n).clientID[1] \div 16 # 4 /\ ~SaysGame(Agreed(n).clientID),
                      Agreed(n).template = "QUIC" =>
                        \/ d.bytes[1] # Magic[1]
                        \/ Ascii(SubSeq(Agreed(n).clientID, 1, 3)) # SubSeq(Magic, 2, 4)
               PROVE  ExtractHeaderID(d.bytes)
                        = [templateId |-> Agreed(n).template,
                           headerID |-> SubSeq(Agreed(n).clientID, 1,
                                               HeaderIDLength(Agreed(n).template))]
    BY Zenon DEF HeaderRecognised
  <2>1. Agreed(n).template \in Templates /\ Agreed(n).clientID \in Identifier
    <3>1. Agreed(n) \in Agreement
      BY AgreedTyped, Zenon DEF PathInv
    <3> QED BY <3>1 DEF Agreement
  <2>2. Marked(Agreed(n).template, Agreed(n).clientID, d.bytes)
    BY Zenon DEF PathInv, WireInv, Sound
  <2> QED BY <2>1, <2>2, MarkRecognised, Zenon
<1> QED BY <1>1, PathInvInitially, PathInvKept, PTL DEF Spec

-----------------------------------------------------------------------------
(* Types: what goes on the wire is bytes.                                  *)

\* Packets behind each other are one.
LEMMA Glued ==
  ASSUME NEW a \in Packet, NEW b \in Packet
  PROVE  a \o b \in Packet
BY DEF Packet

\* So are seven, as in a KCP header.
LEMMA SevenGlued ==
  ASSUME NEW x0 \in Packet, NEW x1 \in Packet, NEW x2 \in Packet, NEW x3 \in Packet,
         NEW x4 \in Packet, NEW x5 \in Packet, NEW x6 \in Packet
  PROVE  x0 \o x1 \o x2 \o x3 \o x4 \o x5 \o x6 \in Packet
<1>1. x0 \o x1 \o x2 \in Packet
  BY Glued
<1>2. x0 \o x1 \o x2 \o x3 \o x4 \in Packet
  BY <1>1, Glued
<1> QED BY <1>2, Glued

\* Numbers of two and four bytes are bytes.
Word16 == {n \in Nat : n < 65536}
Word32 == {n \in Nat : n < 4294967296}

LEMMA NumbersAreBytes ==
  /\ \A n \in Word16 : BE16(n) \in Packet /\ LE16(n) \in Packet
  /\ \A n \in Word32 : LE32(n) \in Packet
  /\ \A n \in Int : BE32(n) \in Packet
<1>1. ASSUME NEW n \in Word16 PROVE BE16(n) \in Packet /\ LE16(n) \in Packet
  <2>1. n \div 256 \in Byte /\ n % 256 \in Byte
    BY DEF Byte, Word16
  <2> QED BY <2>1 DEF BE16, LE16, Packet
<1>2. ASSUME NEW n \in Word32 PROVE LE32(n) \in Packet
  <2>1. /\ n % 256 \in Byte /\ (n \div 256) % 256 \in Byte
        /\ (n \div 65536) % 256 \in Byte /\ n \div 16777216 \in Byte
    BY DEF Byte, Word32
  <2> QED BY <2>1 DEF LE32, Packet
<1>3. ASSUME NEW n \in Int PROVE BE32(n) \in Packet
  <2>1. /\ n % 256 \in Byte /\ (n \div 256) % 256 \in Byte
        /\ (n \div 65536) % 256 \in Byte /\ (n \div 16777216) % 256 \in Byte
    BY DEF Byte
  <2> QED BY <2>1 DEF BE32, Packet
<1> QED BY <1>1, <1>2, <1>3

\* So is the part of an identifier that a header carries.
LEMMA PrefixIsBytes ==
  ASSUME NEW id \in Identifier
  PROVE  SubSeq(id, 1, 4) \in Packet /\ SubSeq(id, 1, 8) \in Packet
<1>1. SubSeq(id, 1, 4) = [i \in 1..4 |-> id[i]] /\ SubSeq(id, 1, 8) = [i \in 1..8 |-> id[i]]
  BY PartOfIdentifier
<1>2. \A i \in 1..8 : id[i] \in Byte
  BY DEF Identifier, Byte
<1>3. [i \in 1..4 |-> id[i]] \in [1..4 -> Byte] /\ [i \in 1..8 |-> id[i]] \in [1..8 -> Byte]
  BY <1>2
<1> QED BY <1>1, <1>3, MadePacket

\* So is what a header draws.
LEMMA NoiseIsBytes ==
  /\ \A noise \in Noise("KCP") : noise \in Packet
  /\ \A noise \in Noise("GAME") : noise \in Packet
<1>1. ASSUME NEW noise \in Noise("KCP") PROVE noise \in Packet
  <2>1. noise \in [1..4 -> Byte]
    BY DEF Noise, Byte
  <2> QED BY <2>1, MadePacket
<1>2. ASSUME NEW noise \in Noise("GAME") PROVE noise \in Packet
  <2>1. PICK x \in 1..5, y \in 0..255 : noise = <<x, y>>
    BY DEF Noise
  <2>2. x \in Byte /\ y \in Byte
    BY DEF Byte
  <2> QED BY <2>1, <2>2 DEF Packet
<1> QED BY <1>1, <1>2

\* The sequence numbers that a header of a template has room for.
Fits(t, seq) == seq \in IF t = "KCP" THEN Word32 ELSE Word16

\* With such a number, both clients and the server send bytes.
LEMMA EncapsulatedBytes ==
  ASSUME NEW t \in Templates, NEW id \in Identifier, NEW seq, Fits(t, seq),
         NEW noise \in Noise(t), NEW data \in Packet, Len(data) \in Word16
  PROVE  /\ Encapsulate(t, id, seq, noise, data) \in Packet
         /\ AndroidEncapsulate(t, id, seq, noise, data) \in Packet
<1>1. SubSeq(id, 1, 4) \in Packet /\ SubSeq(id, 1, 8) \in Packet
  BY PrefixIsBytes
<1>2. Len(data) \in Word16 /\ Len(data) \in Word32 /\ Len(data) \in Int
  BY Bytes DEF Word16, Word32
<1>3. CASE t = "QUIC"
  <2>1. BE16(seq) \in Packet
    BY <1>3, NumbersAreBytes DEF Fits
  <2>2. <<64 + noise>> \in Packet
    <3>1. noise \in 0..15
      BY <1>3 DEF Noise
    <3>2. 64 + noise \in Byte
      BY <3>1 DEF Byte
    <3> QED BY <3>2 DEF Packet
  <2>3. QuicHeader(id, seq, noise) \in Packet
    BY <1>1, <2>1, <2>2, Glued, Zenon DEF QuicHeader
  <2> QED BY <1>3, <2>3, Glued DEF Encapsulate, AndroidEncapsulate
<1>4. CASE t = "KCP"
  <2> DEFINE una == IF seq = 0 THEN 0 ELSE seq - 1
  <2>1. seq \in Word32 /\ seq \in Int
    BY <1>4 DEF Fits, Word32
  <2>2. una \in Word32 /\ seq - 1 \in Int
    BY <2>1 DEF Word32
  <2>3. /\ LE32(seq) \in Packet /\ BE32(seq) \in Packet
        /\ LE32(una) \in Packet /\ BE32(seq - 1) \in Packet
        /\ LE32(Len(data)) \in Packet /\ BE32(Len(data)) \in Packet
    BY <1>2, <2>1, <2>2, NumbersAreBytes, Zenon
  <2>4. LE16(256) \in Packet /\ BE16(256) \in Packet
    <3>1. 256 \in Word16
      BY DEF Word16
    <3> QED BY <3>1, NumbersAreBytes, Zenon
  <2>5. <<81, 0>> \in Packet
    BY DEF Packet, Byte
  <2>6. noise \in Packet
    BY <1>4, NoiseIsBytes
  <2> HIDE DEF una
  <2> DEFINE x0 == SubSeq(id, 1, 4)
             x1 == <<81, 0>>
             x2 == LE16(256)
             y2 == BE16(256)
             x4 == LE32(seq)
             y4 == BE32(seq)
             x5 == LE32(una)
             y5 == BE32(seq - 1)
             x6 == LE32(Len(data))
             y6 == BE32(Len(data))
  <2> HIDE DEF x0, x1, x2, y2, x4, y4, x5, y5, x6, y6
  <2>7. /\ x0 \in Packet /\ x1 \in Packet /\ x2 \in Packet /\ y2 \in Packet /\ x4 \in Packet
        /\ y4 \in Packet /\ x5 \in Packet /\ y5 \in Packet /\ x6 \in Packet /\ y6 \in Packet
    BY <1>1, <2>3, <2>4, <2>5, Zenon DEF x0, x1, x2, y2, x4, y4, x5, y5, x6, y6
  <2>8. /\ x0 \o x1 \o x2 \o noise \o x4 \o x5 \o x6 \in Packet
        /\ x0 \o x1 \o y2 \o noise \o y4 \o y5 \o y6 \in Packet
    BY <2>6, <2>7, SevenGlued
  <2>9. /\ KcpHeader(id, seq, noise, Len(data)) \in Packet
        /\ AndroidKcpHeader(id, seq, noise, Len(data)) \in Packet
    BY <2>8, Zenon DEF KcpHeader, AndroidKcpHeader, una, x0, x1, x2, y2, x4, y4, x5, y5, x6, y6
  <2> QED BY <1>4, <2>9, Glued DEF Encapsulate, AndroidEncapsulate
<1>5. CASE t = "GAME"
  <2>1. BE16(seq) \in Packet
    BY <1>5, NumbersAreBytes DEF Fits
  <2>2. Magic \in Packet
    BY DEF Magic, Packet, Byte
  <2>3. noise \in Packet
    BY <1>5, NoiseIsBytes
  <2>4. GameHeader(id, seq, noise) \in Packet
    BY <1>1, <2>1, <2>2, <2>3, Glued, Zenon DEF GameHeader
  <2> QED BY <1>5, <2>4, Glued DEF Encapsulate, AndroidEncapsulate
<1> QED BY <1>3, <1>4, <1>5 DEF Templates

\* Packets of WireGuard fit into a datagram.
LEMMA FitsDatagram ==
  ASSUME NEW p \in WireGuard
  PROVE  Len(p) <= MaxDatagram
<1>1. Len(p) \in Nat /\ Len(p) + Overhead <= MaxDatagram
  BY DataPathAssumption, Bytes
<1> QED BY <1>1 DEF Overhead, MaxPadding, MaxDatagram

\* What is wrapped, if it came in a UDP datagram, is bytes.
LEMMA WrapIsBytes ==
  ASSUME NEW a \in Agreement, NEW seq, Fits(a.template, seq), NEW r, NEW padding, NEW noise,
         NEW p, Drawable(a, r, padding, noise, p), Len(p) <= MaxDatagram
  PROVE  /\ Wrap(a, seq, r, padding, noise, p) \in Packet
         /\ WrapAtClient(a, seq, r, padding, noise, p) \in Packet
<1> DEFINE q == Obfuscate(a.obfuscator, r[1], r[2], padding, p)
<1>1. /\ a.template \in Templates /\ a.clientID \in Identifier
      /\ a.obfuscator \in Parameters /\ r[1] \in Byte /\ r[2] \in Byte
      /\ noise \in Noise(a.template)
  BY DEF Agreement, Drawable
<1>2. /\ p \in Packet /\ p # <<>> /\ Len(p) % 2 = 0
      /\ padding \in Packet /\ Len(padding) \in 1..MaxPadding
  BY Zenon DEF Drawable
<1>3. /\ q \in Packet /\ AndroidObfuscate(a.obfuscator, r[1], r[2], padding, p) = q
      /\ Len(q) = 3 + Len(p) + Len(padding)
  <2>1. AndroidObfuscate(a.obfuscator, r[1], r[2], padding, p) = q
    BY <1>1, <1>2, AndroidAgrees, Zenon
  <2>2. q \in Packet /\ Len(q) = 3 + Len(p) + Len(padding)
    <3>1. ASSUME NEW s \in Parameters, NEW h1 \in Byte, NEW h2 \in Byte
          PROVE  /\ Obfuscate(s, h1, h2, padding, p) \in Packet
                 /\ Len(Obfuscate(s, h1, h2, padding, p)) = 3 + Len(p) + Len(padding)
      BY <1>2, <3>1, RoundTrip
    <3> QED BY <1>1, <3>1, Zenon
  <2> QED BY <2>1, <2>2
<1> HIDE DEF q
<1>4. Len(q) \in Word16
  <2>1. Len(p) \in Nat /\ Len(p) <= MaxDatagram /\ Len(padding) \in 1..8
    BY <1>2, Bytes DEF MaxPadding
  <2>2. Len(q) = 3 + Len(p) + Len(padding)
    BY <1>3, Zenon
  <2>3. \A l \in Nat, m \in 1..8 : l <= MaxDatagram => 3 + l + m \in Word16
    BY DEF MaxDatagram, Word16
  <2> QED BY <2>1, <2>2, <2>3, Zenon
<1>5. /\ Encapsulate(a.template, a.clientID, seq, noise, q) \in Packet
      /\ AndroidEncapsulate(a.template, a.clientID, seq, noise, q) \in Packet
  BY <1>1, <1>3, <1>4, EncapsulatedBytes, Zenon
<1> QED BY <1>3, <1>5, Zenon DEF Wrap, AndroidWrap, WrapAtClient, q

\* So is a heartbeat.
LEMMA HeartbeatIsBytes ==
  ASSUME NEW a \in Agreement, NEW seq, Fits(a.template, seq), NEW noise \in Noise(a.template)
  PROVE  HeartbeatData(a, seq, noise) \in Packet
<1>1. a.template \in Templates /\ a.clientID \in Identifier
  BY DEF Agreement
<1>2. <<1>> \in Packet /\ Len(<<1>>) \in Word16
  BY DEF Packet, Byte, Word16
<1> QED BY <1>1, <1>2, EncapsulatedBytes, Zenon DEF HeartbeatData

\* Whatever bytes arrive become a packet, or are refused, or throw.
LEMMA UnwrapMakes ==
  ASSUME NEW a \in Agreement, NEW bytes \in Packet
  PROVE  /\ UnwrapAtClient(a, bytes) \in Packet \cup {Refused, Thrown}
         /\ UnwrapAtServer(a, bytes) \in Packet \cup {Refused, Thrown}
<1> DEFINE q == Decapsulate(a.template, bytes)
<1>1. a.template \in Templates /\ a.obfuscator \in Parameters
  BY DEF Agreement
<1>2. q \in Packet
  <2>1. HeaderLength(a.template) + 1 \in Nat \ {0}
    BY <1>1 DEF Templates, HeaderLength
  <2>2. Len(bytes) \in Int /\ Len(bytes) <= Len(bytes)
    BY Bytes
  <2> QED BY <2>1, <2>2, PartMakes, Zenon DEF Decapsulate
<1>3. WellFormed(q) => /\ Deobfuscate(a.obfuscator, q) \in Packet
                       /\ AndroidDeobfuscate(a.obfuscator, q) \in Packet
  <2> HIDE DEF q
  <2> QED BY <1>1, <1>2, DeobfuscationMakes
<1>4. /\ Unwrap(a, bytes) \in Packet \cup {Refused, Thrown}
      /\ AndroidUnwrap(a, bytes) \in Packet \cup {Refused, Thrown}
  BY <1>3 DEF Unwrap, AndroidUnwrap
<1>5. <<>> \in Packet
  BY DEF Packet
<1> QED BY <1>4, <1>5 DEF UnwrapAtClient, UnwrapAtServer

\* The sequence numbers of a session fit its template's headers, also when the
\* server counts on from where a client started.
LEMMA NumbersFit ==
  ASSUME NEW a \in Agreement, NEW seq \in FirstNumbers(a)
  PROVE  /\ Fits(a.template, seq)
         /\ UpdateAtClient(a, seq) \in FirstNumbers(a) /\ UpdateState(seq) \in FirstNumbers(a)
         /\ seq \in Nat
<1> DEFINE m == SequenceModulus
           n == IF a.client = "Android" THEN AndroidModulus(a.template) ELSE m
<1>1. m \in Nat \ {0} /\ m <= 65536
  BY ModulusAssumption
<1>2. n \in Nat \ {0} /\ m <= n /\ (a.template # "KCP" => n <= 65536) /\ n <= 4294967296
  <2>1. m * m \in Nat \ {0} /\ m <= m * m /\ m * m <= 4294967296
    BY <1>1
  <2> HIDE DEF m
  <2>2. CASE a.client = "Android" /\ a.template = "KCP"
    <3>1. n = m * m
      BY <2>2 DEF AndroidModulus, m
    <3> HIDE DEF n
    <3> QED BY <1>1, <2>1, <2>2, <3>1
  <2>3. CASE ~(a.client = "Android" /\ a.template = "KCP")
    <3>1. n = m
      BY <2>3 DEF AndroidModulus, m
    <3> HIDE DEF n
    <3> QED BY <1>1, <3>1
  <2> QED BY <2>2, <2>3
<1>3. FirstNumbers(a) = 0..n - 1
  BY DEF FirstNumbers
<1>4. UpdateState(seq) = (seq + 1) % m
  BY DEF UpdateState
<1>5. UpdateAtClient(a, seq) = (seq + 1) % n
  BY DEF UpdateAtClient, UpdateState, AndroidUpdateState
<1> HIDE DEF m, n
<1>6. seq \in Nat /\ seq < n
  BY <1>2, <1>3
<1>7. (seq + 1) % m \in 0..n - 1
  BY <1>1, <1>2, <1>6
<1>8. (seq + 1) % n \in 0..n - 1
  BY <1>2, <1>6
<1>9. Fits(a.template, seq)
  BY <1>2, <1>6 DEF Fits, Word16, Word32
<1> QED BY <1>3, <1>4, <1>5, <1>6, <1>7, <1>8, <1>9

\* Adding datagrams of the right type to the wire, or taking some away, keeps
\* its type.
LEMMA WireTyped ==
  ASSUME TypeOK, agreed' = agreed,
         \A d \in wire' : d \in wire \/ (d \in Datagram /\ d.port \in Sessions)
  PROVE  wire' \subseteq Datagram /\ \A d \in wire' : d.port \in Sessions'
BY DEF TypeOK, Sessions, current

\* Initially no session has parameters.
LEMMA TypesInitially == Init => TypeOK
<1> SUFFICES ASSUME Init PROVE TypeOK
  OBVIOUS
<1>1. agreed \in Seq(Handshakes) /\ serverSeq \in Seq(Nat) /\ Len(agreed) = 0 /\ Len(serverSeq) = 0
  BY DEF Init
<1>2. <<>> \in Packet
  BY DEF Packet
<1>3. 0 <= MaxSessions /\ 0 \in 0..0
  BY DataPathAssumption
<1>4. Sessions = {} /\ current = 0
  BY <1>1 DEF Sessions, current
<1> QED BY <1>1, <1>2, <1>3, <1>4 DEF Init, TypeOK

\* Each action keeps the types.
LEMMA ProposeTyped ==
  ASSUME TypeOK, NEW h \in Handshakes, NEW seq \in FirstNumbers(Proposed[h]), Propose(h, seq)
  PROVE  TypeOK'
<1>1. Proposed[h] \in Agreement
  BY DataPathAssumption
<1>2. seq \in Nat
  BY <1>1, NumbersFit
<1>3. /\ agreed \in Seq(Handshakes) /\ agreed' = Append(agreed, h)
      /\ serverSeq \in Seq(Nat) /\ serverSeq' = Append(serverSeq, seq)
      /\ Len(serverSeq) = Len(agreed) /\ Len(agreed) < MaxSessions
  BY Zenon DEF TypeOK, Propose, current
<1>4. /\ agreed' \in Seq(Handshakes) /\ Len(agreed') = Len(agreed) + 1
      /\ serverSeq' \in Seq(Nat) /\ Len(serverSeq') = Len(serverSeq) + 1
  BY <1>2, <1>3, Appended
<1>5. Len(agreed) \in Nat
  BY <1>3
<1>6. /\ agreed'[Len(agreed) + 1] = h /\ serverSeq'[Len(agreed) + 1] = seq
      /\ \A n \in 1..Len(agreed) : agreed'[n] = agreed[n] /\ serverSeq'[n] = serverSeq[n]
  BY <1>2, <1>3
<1>7. Sessions' = Sessions \cup {Len(agreed) + 1} /\ Sessions = 1..Len(agreed)
  BY <1>4, <1>5 DEF Sessions, current
<1>8. \A n \in Sessions' : serverSeq'[n] \in FirstNumbers(Agreed(n)')
  <2> TAKE n \in Sessions'
  <2>1. CASE n \in Sessions
    <3>1. Agreed(n)' = Agreed(n) /\ serverSeq'[n] = serverSeq[n]
      BY <1>6, <1>7, <2>1, Zenon DEF Agreed
    <3> QED BY <2>1, <3>1, Zenon DEF TypeOK
  <2>2. CASE n = Len(agreed) + 1
    BY <1>6, <2>2 DEF Agreed
  <2> QED BY <1>7, <2>1, <2>2
<1>9. clientSeq' = seq /\ Agreed(current)' = Proposed[h]
  BY <1>4, <1>6 DEF Propose, Agreed, current
<1>10. current' <= MaxSessions /\ port' \in 0..current' /\ Len(serverSeq') = current'
  <2>1. port' = 0
    BY DEF Propose
  <2> QED BY <1>3, <1>4, <1>5, <2>1, DataPathAssumption DEF current
<1>11. UNCHANGED <<wire, alive, arrival, misled>> /\ \A n \in Sessions : n \in Sessions'
  BY <1>7 DEF Propose
<1>12. wire' \subseteq Datagram /\ \A d \in wire' : d.port \in Sessions'
  BY <1>11, Zenon DEF TypeOK
<1> QED BY <1>4, <1>8, <1>9, <1>10, <1>11, <1>12, Zenon DEF TypeOK

\* What the types say of the sessions' parameters.
LEMMA SessionTyped ==
  ASSUME TypeOK, NEW n \in Sessions
  PROVE  /\ Agreed(n) \in Agreement /\ Fits(Agreed(n).template, serverSeq[n])
         /\ n \in 1..MaxSessions
<1>1. agreed[n] \in Handshakes /\ n \in Nat /\ n > 0 /\ n <= MaxSessions
  BY DataPathAssumption DEF TypeOK, Sessions, current
<1>2. Agreed(n) \in Agreement
  BY <1>1, DataPathAssumption DEF Agreed
<1>3. serverSeq[n] \in FirstNumbers(Agreed(n))
  BY Zenon DEF TypeOK
<1>4. n \in 1..MaxSessions
  BY <1>1, DataPathAssumption
<1> QED BY <1>2, <1>3, <1>4, NumbersFit, Zenon

\* What they say of the present one's.
LEMMA CurrentTyped ==
  ASSUME TypeOK, current > 0
  PROVE  /\ current \in Sessions /\ Agreed(current) \in Agreement
         /\ Fits(Agreed(current).template, clientSeq)
         /\ UpdateAtClient(Agreed(current), clientSeq) \in FirstNumbers(Agreed(current))
<1>1. current \in Sessions
  BY DEF TypeOK, Sessions, current
<1>2. Agreed(current) \in Agreement
  BY <1>1, SessionTyped
<1>3. 0 \in FirstNumbers(Agreed(current))
  <2>1. SequenceModulus \in Nat \ {0}
    BY ModulusAssumption
  <2>2. SequenceModulus * SequenceModulus \in Nat \ {0}
    BY <2>1
  <2> QED BY <2>1, <2>2 DEF FirstNumbers, AndroidModulus
<1>4. clientSeq \in FirstNumbers(Agreed(current))
  BY <1>3, Zenon DEF TypeOK
<1> QED BY <1>1, <1>2, <1>4, NumbersFit, Zenon

\* A datagram that either end makes is one.
LEMMA MadeDatagram ==
  ASSUME NEW to \in {"server", "client"}, NEW n \in 1..MaxSessions, NEW bytes \in Packet,
         NEW p \in WireGuard \cup {<<>>}
  PROVE  [to |-> to, port |-> n, packet |-> p, bytes |-> bytes] \in Datagram
BY DEF Datagram

\* An answer names a session.
LEMMA AnswerTyped ==
  ASSUME TypeOK, NEW n \in Sessions, ServerResponse(n)
  PROVE  TypeOK'
<1>1. n \in 0..current /\ misled' \in BOOLEAN
  BY DEF TypeOK, Sessions, current, ServerResponse
<1> QED BY <1>1, Zenon DEF TypeOK, ServerResponse, Sessions, current, Agreed

\* What the client sends is a datagram, with a number that fits.
LEMMA SendTyped ==
  ASSUME TypeOK, NEW p \in WireGuard, NEW r \in RandomBytes, NEW padding \in Paddings,
         current > 0, NEW noise \in NoiseOf(Agreed(current).template),
         SendToNewServer(p, r, padding, noise)
  PROVE  TypeOK'
<1> DEFINE a == Agreed(current)
           bytes == WrapAtClient(a, clientSeq, r, padding, noise, Received(a, p))
           d == [to |-> "server", port |-> port, packet |-> p, bytes |-> bytes]
<1>1. a \in Agreement /\ Fits(a.template, clientSeq)
  BY CurrentTyped
<1>2. bytes \in Packet
  <2>1. Drawable(a, r, padding, noise, p)
    BY <1>1, Drawn, Zenon
  <2>2. /\ Drawable(a, r, padding, noise, Received(a, p))
        /\ Len(Received(a, p)) <= Len(p)
    BY <2>1, ReceivedDrawable, Zenon
  <2>3. Len(Received(a, p)) <= MaxDatagram
    <3>1. Len(Received(a, p)) \in Nat /\ Len(p) \in Nat
      BY <2>1, <2>2, Bytes DEF Drawable
    <3> QED BY <2>2, <3>1, FitsDatagram DEF MaxDatagram
  <2> HIDE DEF a
  <2> QED BY <1>1, <2>2, <2>3, WrapIsBytes, Zenon
<1> HIDE DEF bytes
<1>3. port \in Sessions /\ port \in 1..MaxSessions
  <2>1. port \in Sessions
    BY DEF TypeOK, Sessions, SendToNewServer, current
  <2> QED BY <2>1, SessionTyped
<1>4. d \in Datagram /\ d.port \in Sessions
  <2>1. d \in Datagram
    BY <1>2, <1>3, MadeDatagram
  <2> QED BY <1>3, <2>1
<1>5. wire' = wire \cup {d} /\ agreed' = agreed
  BY DEF SendToNewServer, Send, bytes
<1> HIDE DEF d
<1>6. wire' \subseteq Datagram /\ \A e \in wire' : e.port \in Sessions'
  BY <1>4, <1>5, WireTyped
<1>7. clientSeq' \in FirstNumbers(Agreed(current))
  BY CurrentTyped, Zenon DEF SendToNewServer
<1> QED BY <1>6, <1>7, Zenon DEF TypeOK, SendToNewServer, Sessions, current, Agreed

\* So is a heartbeat.
LEMMA HeartbeatTyped ==
  ASSUME TypeOK, current > 0, NEW noise \in NoiseOf(Agreed(current).template),
         HeartBeatInterval(noise)
  PROVE  TypeOK'
<1> DEFINE a == Agreed(current)
           bytes == HeartbeatData(a, clientSeq, noise)
           d == [to |-> "server", port |-> port, packet |-> <<>>, bytes |-> bytes]
<1>1. a \in Agreement /\ Fits(a.template, clientSeq)
  BY CurrentTyped
<1>2. bytes \in Packet
  <2>1. noise \in Noise(a.template)
    BY <1>1, DataPathAssumption DEF Agreement
  <2> HIDE DEF a
  <2> QED BY <1>1, <2>1, HeartbeatIsBytes, Zenon
<1> HIDE DEF bytes
<1>3. port \in Sessions /\ port \in 1..MaxSessions
  <2>1. port \in Sessions
    BY DEF TypeOK, Sessions, HeartBeatInterval, current
  <2> QED BY <2>1, SessionTyped
<1>4. d \in Datagram /\ d.port \in Sessions
  <2>1. d \in Datagram
    BY <1>2, <1>3, MadeDatagram
  <2> QED BY <1>3, <2>1
<1>5. wire' = wire \cup {d} /\ agreed' = agreed
  BY DEF HeartBeatInterval, Send, bytes
<1> HIDE DEF d
<1>6. wire' \subseteq Datagram /\ \A e \in wire' : e.port \in Sessions'
  BY <1>4, <1>5, WireTyped
<1>7. clientSeq' \in FirstNumbers(Agreed(current))
  BY CurrentTyped, Zenon DEF HeartBeatInterval
<1> QED BY <1>6, <1>7, Zenon DEF TypeOK, HeartBeatInterval, Sessions, current, Agreed

\* So is what the server sends.
LEMMA FromWireGuardTyped ==
  ASSUME TypeOK, NEW n \in Sessions, NEW p \in WireGuard, NEW r \in RandomBytes,
         NEW padding \in Paddings, NEW noise \in NoiseOf(Agreed(n).template),
         FromWireGuard(n, p, r, padding, noise)
  PROVE  TypeOK'
<1> DEFINE a == Agreed(n)
           bytes == Wrap(a, serverSeq[n], r, padding, noise, p)
           d == [to |-> "client", port |-> n, packet |-> p, bytes |-> bytes]
<1>1. a \in Agreement /\ Fits(a.template, serverSeq[n]) /\ n \in 1..MaxSessions
  BY SessionTyped
<1>2. bytes \in Packet
  <2>1. Drawable(a, r, padding, noise, p)
    BY <1>1, Drawn, Zenon
  <2>2. Len(p) <= MaxDatagram
    BY FitsDatagram
  <2> HIDE DEF a
  <2> QED BY <1>1, <2>1, <2>2, WrapIsBytes, Zenon
<1> HIDE DEF bytes
<1>3. d \in Datagram /\ d.port \in Sessions
  <2>1. d \in Datagram
    BY <1>1, <1>2, MadeDatagram
  <2> QED BY <2>1
<1>4. wire' = wire \cup {d} /\ agreed' = agreed
  BY DEF FromWireGuard, Send, bytes
<1> HIDE DEF d
<1>5. wire' \subseteq Datagram /\ \A e \in wire' : e.port \in Sessions'
  BY <1>3, <1>4, WireTyped
<1>6. UpdateState(serverSeq[n]) \in FirstNumbers(a) /\ UpdateState(serverSeq[n]) \in Nat
  <2>1. serverSeq[n] \in FirstNumbers(a)
    BY Zenon DEF TypeOK
  <2> HIDE DEF a
  <2> QED BY <1>1, <2>1, NumbersFit
<1>7. /\ serverSeq' \in Seq(Nat) /\ Len(serverSeq') = Len(serverSeq)
      /\ \A k \in Sessions : serverSeq'[k] \in FirstNumbers(Agreed(k))
  <2>1. /\ serverSeq \in Seq(Nat) /\ Len(serverSeq) = Len(agreed) /\ Sessions = 1..Len(agreed)
        /\ serverSeq' = [serverSeq EXCEPT ![n] = UpdateState(serverSeq[n])]
    BY DEF TypeOK, FromWireGuard, Sessions, current
  <2>2. n \in 1..Len(serverSeq)
    BY <2>1
  <2>3. serverSeq' \in Seq(Nat) /\ Len(serverSeq') = Len(serverSeq)
    BY <1>6, <2>1, <2>2, Replaced, Zenon
  <2>4. \A k \in Sessions : serverSeq'[k] = IF k = n THEN UpdateState(serverSeq[n]) ELSE serverSeq[k]
    BY <2>1
  <2>5. \A k \in Sessions : serverSeq[k] \in FirstNumbers(Agreed(k))
    BY Zenon DEF TypeOK
  <2> QED BY <1>6, <2>3, <2>4, <2>5
<1> QED BY <1>5, <1>7, Zenon DEF TypeOK, FromWireGuard, Sessions, current, Agreed

\* The server makes a packet of a datagram, or refuses it, or throws.
LEMMA FromClientTyped ==
  ASSUME TypeOK, NEW d \in wire, FromClient(d)
  PROVE  TypeOK'
<1>1. wire' \subseteq Datagram /\ \A e \in wire' : e.port \in Sessions'
  <2>1. (\A e \in wire' : e \in wire) /\ agreed' = agreed
    BY DEF FromClient, Deliver
  <2> QED BY <2>1, WireTyped
<1>2. d \in Datagram /\ d.port \in Sessions
  BY Zenon DEF TypeOK
<1>3. d.packet \in WireGuard \cup {<<>>} /\ d.bytes \in Packet /\ Agreed(d.port) \in Agreement
  BY <1>2, SessionTyped DEF Datagram
<1>4. UnwrapAtServer(Agreed(d.port), d.bytes) \in Packet \cup {Refused, Thrown}
  BY <1>3, UnwrapMakes, Zenon
<1>5. arrival' \in
        [sent : WireGuard \cup {<<>>}, got : Packet \cup {Refused, Thrown}, whole : BOOLEAN]
  BY <1>3, <1>4 DEF FromClient
<1> QED BY <1>1, <1>5, Zenon DEF TypeOK, FromClient, Sessions, current, Agreed

\* So does the client.
LEMMA FromNewServerTyped ==
  ASSUME TypeOK, NEW d \in wire, FromNewServer(d)
  PROVE  TypeOK'
<1>1. wire' \subseteq Datagram /\ \A e \in wire' : e.port \in Sessions'
  <2>1. (\A e \in wire' : e \in wire) /\ agreed' = agreed
    BY DEF FromNewServer, Deliver
  <2> QED BY <2>1, WireTyped
<1>2. d \in Datagram /\ d.port \in Sessions /\ d.port = port
  BY Zenon DEF TypeOK, FromNewServer, FromThisPort
<1>3. d.packet \in WireGuard \cup {<<>>} /\ d.bytes \in Packet /\ Agreed(current) \in Agreement
  <2>1. current > 0
    BY <1>2 DEF TypeOK, Sessions, current
  <2>2. Agreed(current) \in Agreement
    BY <2>1, CurrentTyped
  <2> QED BY <1>2, <2>2 DEF Datagram
<1>4. UnwrapAtClient(Agreed(current), Received(Agreed(current), d.bytes))
        \in Packet \cup {Refused, Thrown}
  BY <1>3, ReceivedBytes, UnwrapMakes, Zenon
<1>5. arrival' \in
        [sent : WireGuard \cup {<<>>}, got : Packet \cup {Refused, Thrown}, whole : BOOLEAN]
  BY <1>3, <1>4 DEF FromNewServer
<1>6. alive' \in BOOLEAN
  BY DEF FromNewServer
<1> QED BY <1>1, <1>5, <1>6, Zenon DEF TypeOK, FromNewServer, Sessions, current, Agreed

\* A datagram that is lost is missing.
LEMMA LoseTyped ==
  ASSUME TypeOK, NEW d \in wire, Lose(d)
  PROVE  TypeOK'
<1>1. wire' \subseteq Datagram /\ \A e \in wire' : e.port \in Sessions'
  <2>1. (\A e \in wire' : e \in wire) /\ agreed' = agreed
    BY DEF Lose
  <2> QED BY <2>1, WireTyped
<1> QED BY <1>1, Zenon DEF TypeOK, Lose, Sessions, current, Agreed

\* Together: every step keeps the types.
LEMMA TypesKept == TypeOK /\ [Next]_vars => TypeOK'
<1> SUFFICES ASSUME TypeOK, [Next]_vars PROVE TypeOK'
  OBVIOUS
<1>1. CASE Handshaking
  BY <1>1, ProposeTyped, AnswerTyped, Zenon DEF Handshaking
<1>2. CASE Sends
  BY <1>2, SendTyped, FromWireGuardTyped, Zenon DEF Sends
<1>3. CASE Heartbeats
  BY <1>3, HeartbeatTyped, Zenon DEF Heartbeats
<1>4. CASE \E d \in wire : FromClient(d) \/ FromNewServer(d) \/ Lose(d)
  BY <1>4, FromClientTyped, FromNewServerTyped, LoseTyped, Zenon
<1>5. CASE UNCHANGED vars
  BY <1>5, Zenon DEF vars, TypeOK, Sessions, current, Agreed
<1> QED BY <1>1, <1>2, <1>3, <1>4, <1>5 DEF Next

\* protocol-templates/, obfuscator.ts: whatever a client was misled to, each
\* end sends bytes, with sequence numbers that fit its headers, and makes a
\* packet of every datagram that it does not refuse.
THEOREM TypeCorrect == Spec => []TypeOK
BY TypesInitially, TypesKept, PTL DEF Spec
=============================================================================
