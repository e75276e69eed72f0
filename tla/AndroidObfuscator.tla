-------------------------- MODULE AndroidObfuscator --------------------------
(***************************************************************************)
(* What the Android client does to a packet: core/Obfuscator.kt,           *)
(* FunctionRegistry.kt, functions/ObfuscationFunction.kt and               *)
(* templates/ProtocolTemplate.kt under android/plugin/.  Its peer is the   *)
(* TypeScript server.                                                      *)
(*                                                                         *)
(* FunctionRegistry.kt lists the functions and their permutations in the   *)
(* order of function-registry.ts, so that ChosenCombo is its               *)
(* getFunctionIndices; obfuscate and deobfuscate frame a packet as         *)
(* obfuscator.ts does.  Below is what is written in another way.           *)
(***************************************************************************)
EXTENDS Obfuscator, ProtocolTemplates

-----------------------------------------------------------------------------
(* The functions. *)

\* Mutant: the table that setKey, which is called nowhere, would make.
KeyTableOfSetKey(s) == [i \in Byte |-> (s.key + i) % 256]

\* keyArray: 256 bytes for packets of every length, with the code's indices.
KeyTable(s) == [i \in Byte |-> (s.key + i * 37) % 256]

\* keyArray[i % keyArray.size]
KeyByte(k, i) == k[i % 256]

\* (i + length - 1) % length, for the code's i, which is ours less one.
KeyIndex(p, i) == (i + Len(p) - 2) % Len(p)

BitwiseRotationAndXOR(p, k) ==
  [i \in 1..Len(p) |-> Xor(RotL(p[i], Shift(i)), KeyByte(k, KeyIndex(p, i)))]

DeBitwiseRotationAndXOR(p, k) ==
  [i \in 1..Len(p) |-> RotL(Xor(p[i], KeyByte(k, KeyIndex(p, i))), 8 - Shift(i))]

XorWithKey(p, k) == [i \in 1..Len(p) |-> Xor(p[i], KeyByte(k, i - 1))]

\* inverseTable[v] starts as 0, and each index that holds v overwrites it.
InverseEntry(t, v) ==
  IF \E a \in Byte : t[a] = v
  THEN CHOOSE a \in Byte : t[a] = v /\ \A b \in a + 1..255 : t[b] # v
  ELSE 0

DeSubstitution(p, t) == [i \in 1..Len(p) |-> InverseEntry(t, p[i])]

DeAddRandomValue(p, r) == [i \in 1..Len(p) |-> (p[i] - r) % 256]

\* function.obfuscate(data, keyArray, initor)
AndroidObfuscation(f, s, p) ==
  CASE f = "bitwiseRotationAndXOR" -> BitwiseRotationAndXOR(p, KeyTable(s))
    [] f = "xorWithKey"            -> XorWithKey(p, KeyTable(s))
    [] OTHER                       -> Obfuscation(f, s, KeyTable(s), p)

\* function.deobfuscate(data, keyArray, initor)
AndroidDeobfuscation(f, s, p) ==
  CASE f = "bitwiseRotationAndXOR" -> DeBitwiseRotationAndXOR(p, KeyTable(s))
    [] f = "xorWithKey"            -> XorWithKey(p, KeyTable(s))
    [] f = "substitution"          -> DeSubstitution(p, s.substitutionTable)
    [] f = "addRandomValue"        -> DeAddRandomValue(p, s.randomValue)
    [] OTHER                       -> Deobfuscation(f, s, KeyTable(s), p)

-----------------------------------------------------------------------------
(* Layers and frame. *)

AndroidLayer(s, combo, j, p) ==
  IF j <= Len(combo) THEN AndroidObfuscation(combo[j], s, p) ELSE p

AndroidUnlayer(s, combo, j, p) ==
  IF j <= Len(combo) THEN AndroidDeobfuscation(combo[j], s, p) ELSE p

AndroidLayers(s, c, p) ==
  AndroidLayer(s, c, 4, AndroidLayer(s, c, 3, AndroidLayer(s, c, 2, AndroidLayer(s, c, 1, p))))

AndroidUnlayers(s, c, p) ==
  AndroidUnlayer(s, c, 1,
    AndroidUnlayer(s, c, 2, AndroidUnlayer(s, c, 3, AndroidUnlayer(s, c, 4, p))))

AndroidObfuscate(s, h1, h2, padding, p) ==
  IF p = <<>> THEN <<>>
  ELSE <<h1, h2, Len(padding)>> \o AndroidLayers(s, ChosenCombo(s, <<h1, h2>>), p) \o padding

\* deobfuscate of a well-formed packet; it throws on others, like the server's.
AndroidDeobfuscate(s, q) == AndroidUnlayers(s, ChosenCombo(s, SubSeq(q, 1, 2)), Body(q))

-----------------------------------------------------------------------------
(* Templates. *)

\* ByteBuffer.putInt, which writes the highest byte first; -1 is four times 255.
BE32(n) ==
  <<(n \div 16777216) % 256, (n \div 65536) % 256, (n \div 256) % 256, n % 256>>

AndroidKcpHeader(id, seq, noise, length) ==
  SubSeq(id, 1, 4) \o <<81, 0>> \o BE16(256) \o noise \o BE32(seq) \o BE32(seq - 1)
    \o BE32(length)

AndroidEncapsulate(t, id, seq, noise, data) ==
  IF t = "KCP" THEN AndroidKcpHeader(id, seq, noise, Len(data)) \o data
  ELSE Encapsulate(t, id, seq, noise, data)

\* KCP counts in a Long and puts its low 32 bits into a header.
AndroidModulus(t) ==
  IF t = "KCP" THEN SequenceModulus * SequenceModulus ELSE SequenceModulus

AndroidUpdateState(t, seq) == (seq + 1) % AndroidModulus(t)

\* Unlike the TypeScript ones, the QUIC template looks at the flags, and the
\* game's at whole bytes of the signature.
AndroidDecapsulates(t, q) ==
  /\ Len(q) >= HeaderLength(t)
  /\ t = "GAME" => SubSeq(q, 1, 4) = Magic
  /\ t = "QUIC" => q[1] \in 64..79
=============================================================================
