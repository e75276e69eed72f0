------------------------ MODULE ObfuscationFunctions ------------------------
(***************************************************************************)
(* The eleven byte transformations of src/src/core/functions/.             *)
(*                                                                         *)
(* A packet is a sequence of bytes; the code's index i is i + 1 here.      *)
(* Storing into a Uint8Array keeps eight bits.  Every function of the code *)
(* takes the packet, the key array and an initor; an operator here takes   *)
(* what its function uses.  A function whose name occurs once below is its *)
(* own inverse in the code's table of pairs.                               *)
(***************************************************************************)
EXTENDS Integers, Sequences

Byte == 0..255
Packet == Seq(Byte)

-----------------------------------------------------------------------------
(* Bits of a byte, the lowest first. *)

Power == <<1, 2, 4, 8, 16, 32, 64, 128, 256>>

Bit(b, i) == (b \div Power[i]) % 2

OfBits(f) ==
  f[1] + 2 * f[2] + 4 * f[3] + 8 * f[4] + 16 * f[5] + 32 * f[6] + 64 * f[7] + 128 * f[8]

\* a ^ b
Xor(a, b) == OfBits([i \in 1..8 |-> (Bit(a, i) + Bit(b, i)) % 2])

\* (b << s) | (b >>> (8 - s)), for s in 0..8
RotL(b, s) == ((b * Power[s + 1]) % 256) + (b \div Power[9 - s])

-----------------------------------------------------------------------------
(* Byte by byte. *)

Shift(i) == ((i - 1) % 8) + 1

\* _keyArray[(i + length - 1) % length]: the key byte before, cyclically.
Before(k, i) == IF i = 1 THEN k[Len(k)] ELSE k[i - 1]

bitwiseRotationAndXOR(p, k) ==
  [i \in 1..Len(p) |-> Xor(RotL(p[i], Shift(i)), Before(k, i))]

de_bitwiseRotationAndXOR(p, k) ==
  [i \in 1..Len(p) |-> RotL(Xor(p[i], Before(k, i)), 8 - Shift(i))]

circularShiftObfuscation(p) == [i \in 1..Len(p) |-> RotL(p[i], 1)]
de_circularShiftObfuscation(p) == [i \in 1..Len(p) |-> RotL(p[i], 7)]

xorWithKey(p, k) == [i \in 1..Len(p) |-> Xor(p[i], k[i])]

bitwiseNOT(p) == [i \in 1..Len(p) |-> 255 - p[i]]

reverseBits(p) == [i \in 1..Len(p) |-> OfBits([j \in 1..8 |-> Bit(p[i], 9 - j)])]

shiftBits(p) == [i \in 1..Len(p) |-> RotL(p[i], 2)]
de_shiftBits(p) == [i \in 1..Len(p) |-> RotL(p[i], 6)]

\* generateSubstitutionTable: a shuffle of 0 to 255.
Table == {t \in [Byte -> Byte] : \A a, b \in Byte : t[a] = t[b] => a = b}

substitution(p, t) == [i \in 1..Len(p) |-> t[p[i]]]

\* The first index that holds the value, or 0 if none does.
FindIndex(t, v) ==
  IF \E a \in Byte : t[a] = v
  THEN CHOOSE a \in Byte : t[a] = v /\ \A b \in 0..a - 1 : t[b] # v
  ELSE 0

de_substitution(p, t) == [i \in 1..Len(p) |-> FindIndex(t, p[i])]

addRandomValue(p, r) == [i \in 1..Len(p) |-> (p[i] + r) % 256]
de_addRandomValue(p, r) == [i \in 1..Len(p) |-> (p[i] - r + 256) % 256]

-----------------------------------------------------------------------------
(* By position. *)

\* Pairs change places; the last byte of an odd length stays.
swapNeighboringBytes(p) ==
  [i \in 1..Len(p) |-> IF i % 2 = 0 THEN p[i - 1] ELSE IF i < Len(p) THEN p[i + 1] ELSE p[i]]

reverseBuffer(p) == [i \in 1..Len(p) |-> p[Len(p) + 1 - i]]

\* The second half comes first; it is the longer one of an odd length.
divideAndSwap(p) ==
  LET mid == Len(p) \div 2
      second == Len(p) - mid
  IN [i \in 1..Len(p) |-> IF i <= second THEN p[mid + i] ELSE p[i - second]]
=============================================================================
