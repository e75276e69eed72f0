----------------------------- MODULE MCDataPath -----------------------------
(* DataPath on a few bytes for TLC. *)
EXTENDS DataPath

Tail12 == <<5, 6, 7, 8, 9, 10, 11, 12, 13, 14, 15, 16>>
Plain == <<1, 2, 3, 4>> \o Tail12
\* "GAME" and "AME", some top bits set: make KCP, and QUIC, look like the game.
Ambiguous == <<199, 193, 205, 197>> \o Tail12
AmbiguousBehind == <<193, 77, 197, 4>> \o Tail12

Deep ==
  [key |-> 123, obfuscationLayer |-> 4, paddingLength |-> 2, randomValue |-> 200,
   substitutionTable |-> [b \in Byte |-> (5 * b + 3) % 256]]
Shallow ==
  [key |-> 7, obfuscationLayer |-> 2, paddingLength |-> 1, randomValue |-> 0,
   substitutionTable |-> [b \in Byte |-> 255 - b]]

TypeScript(id, s, t) ==
  [client |-> "TypeScript", clientID |-> id, obfuscator |-> s, template |-> t]
Android(id, s, t) ==
  [client |-> "Android", clientID |-> id, obfuscator |-> s, template |-> t]

MCProposed ==
  <<TypeScript(AmbiguousBehind, Deep, "QUIC"), TypeScript(Ambiguous, Deep, "KCP"),
    TypeScript(Plain, Shallow, "GAME"),
    Android(Plain, Deep, "QUIC"), Android(Plain, Shallow, "KCP"), Android(Plain, Deep, "GAME")>>

\* The longer one does not fit the Android client's buffer.
MCWireGuard == {<<1, 0, 255, 129>>, [i \in 1..34 |-> 7 * i]}

\* Between them they choose eight functions with four layers, and the other
\* three with two.
MCRandomBytes == {<<110, 139>>, <<93, 229>>}

MCPaddings == {<<1>>, <<0, 255>>}

MCNoise(t) == CASE t = "QUIC" -> {7} [] t = "KCP" -> {<<64, 1, 0, 3>>} [] t = "GAME" -> {<<5, 0>>}
=============================================================================
