----------------------------- MODULE Obfuscator -----------------------------
(***************************************************************************)
(* The obfuscator: src/src/core/obfuscator.ts and function-registry.ts.    *)
(*                                                                         *)
(* Three header bytes, the packet after one to four layers of functions,   *)
(* and one to eight bytes of padding.  The first two header bytes choose   *)
(* the functions and their order, the third is the padding's length.       *)
(* A session's parameters are agreed on in the handshake; both ends build  *)
(* their obfuscator from them.                                             *)
(***************************************************************************)
EXTENDS ObfuscationFunctions

MaxLayers == 4   \* MAX_OBFUSCATION_LAYERS
MaxPadding == 8

\* What the constructor accepts.
Parameters ==
  [key : Nat, obfuscationLayer : 1..MaxLayers, paddingLength : 1..MaxPadding,
   substitutionTable : Table, randomValue : Byte]

-----------------------------------------------------------------------------
(* The registry. *)

\* The functions in the order in which the registry adds them.
FunctionPairs ==
  <<"bitwiseRotationAndXOR", "swapNeighboringBytes", "reverseBuffer", "divideAndSwap",
    "circularShiftObfuscation", "xorWithKey", "bitwiseNOT", "reverseBits", "shiftBits",
    "substitution", "addRandomValue">>

HouseFunctions == {FunctionPairs[i] : i \in 1..11}

\* func.obfuscation(p, k, func.initor), with the session's initors.
Obfuscation(f, s, k, p) ==
  CASE f = "bitwiseRotationAndXOR"    -> bitwiseRotationAndXOR(p, k)
    [] f = "swapNeighboringBytes"     -> swapNeighboringBytes(p)
    [] f = "reverseBuffer"            -> reverseBuffer(p)
    [] f = "divideAndSwap"            -> divideAndSwap(p)
    [] f = "circularShiftObfuscation" -> circularShiftObfuscation(p)
    [] f = "xorWithKey"               -> xorWithKey(p, k)
    [] f = "bitwiseNOT"               -> bitwiseNOT(p)
    [] f = "reverseBits"              -> reverseBits(p)
    [] f = "shiftBits"                -> shiftBits(p)
    [] f = "substitution"             -> substitution(p, s.substitutionTable)
    [] f = "addRandomValue"           -> addRandomValue(p, s.randomValue)

\* func.deobfuscation(p, k, func.initor)
Deobfuscation(f, s, k, p) ==
  CASE f = "bitwiseRotationAndXOR"    -> de_bitwiseRotationAndXOR(p, k)
    [] f = "swapNeighboringBytes"     -> swapNeighboringBytes(p)
    [] f = "reverseBuffer"            -> reverseBuffer(p)
    [] f = "divideAndSwap"            -> divideAndSwap(p)
    [] f = "circularShiftObfuscation" -> de_circularShiftObfuscation(p)
    [] f = "xorWithKey"               -> xorWithKey(p, k)
    [] f = "bitwiseNOT"               -> bitwiseNOT(p)
    [] f = "reverseBits"              -> reverseBits(p)
    [] f = "shiftBits"                -> de_shiftBits(p)
    [] f = "substitution"             -> de_substitution(p, s.substitutionTable)
    [] f = "addRandomValue"           -> de_addRandomValue(p, s.randomValue)

\* remaining.filter((_, index) => index !== i)
Without(options, i) ==
  [j \in 1..Len(options) - 1 |-> IF j < i THEN options[j] ELSE options[j + 1]]

\* Permutations that share their first j choices are neighbours; this many do.
Share == << <<1>>, <<10, 1>>, <<90, 9, 1>>, <<720, 72, 8, 1>> >>

CombosLength(layer) == 11 * Share[layer][1]

\* calculatePermutations in order: its n-th choice of "layer" functions.
Combo(layer, n) ==
  LET Choice(j) == ((n \div Share[layer][j]) % (12 - j)) + 1
      rest1 == Without(FunctionPairs, Choice(1))
      rest2 == Without(rest1, Choice(2))
      rest3 == Without(rest2, Choice(3))
  IN [j \in 1..layer |-> CASE j = 1 -> FunctionPairs[Choice(1)]
                           [] j = 2 -> rest1[Choice(2)]
                           [] j = 3 -> rest2[Choice(3)]
                           [] j = 4 -> rest3[Choice(4)]]

-----------------------------------------------------------------------------
(* The layers. *)

KeyArray(s, n) == [i \in 1..n |-> (s.key + (i - 1) * 37) % 256]

\* One turn of preObfuscation's loop, and of preDeobfuscation's.
Layer(s, combo, j, p) ==
  IF j <= Len(combo) THEN Obfuscation(combo[j], s, KeyArray(s, Len(p)), p) ELSE p

Unlayer(s, combo, j, p) ==
  IF j <= Len(combo) THEN Deobfuscation(combo[j], s, KeyArray(s, Len(p)), p) ELSE p

PreObfuscation(s, combo, p) ==
  Layer(s, combo, 4, Layer(s, combo, 3, Layer(s, combo, 2, Layer(s, combo, 1, p))))

\* Mutant: the layers are undone in the order in which they were put on.
PreDeobfuscationForward(s, combo, p) ==
  Unlayer(s, combo, 4, Unlayer(s, combo, 3, Unlayer(s, combo, 2, Unlayer(s, combo, 1, p))))

PreDeobfuscation(s, combo, p) ==
  Unlayer(s, combo, 1, Unlayer(s, combo, 2, Unlayer(s, combo, 3, Unlayer(s, combo, 4, p))))

\* fnComboIndex, by the first two bytes of the header.
ChosenCombo(s, header) ==
  Combo(s.obfuscationLayer, (header[1] * header[2]) % CombosLength(s.obfuscationLayer))

-----------------------------------------------------------------------------
(* The frame. *)

\* obfuscation: h1 and h2 are random bytes, the padding has a random length.
Obfuscate(s, h1, h2, padding, p) ==
  IF p = <<>> THEN <<>>
  ELSE <<h1, h2, Len(padding)>> \o PreObfuscation(s, ChosenCombo(s, <<h1, h2>>), p) \o padding

Body(q) == SubSeq(q, 4, Len(q) - q[3])

\* extractHeaderAndBody throws unless there is a header with a padding length
\* of 1 to 8, and that much padding.
WellFormed(q) ==
  /\ Len(q) >= 4
  /\ q[3] \in 1..8
  /\ Len(q) >= 3 + q[3]

\* deobfuscation of a well-formed packet
Deobfuscate(s, q) == PreDeobfuscation(s, ChosenCombo(s, SubSeq(q, 1, 2)), Body(q))
=============================================================================
