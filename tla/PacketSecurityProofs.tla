------------------------- MODULE PacketSecurityProofs -------------------------
(***************************************************************************)
(* Proofs about PacketSecurity, for any number of sequence numbers, any    *)
(* clocks, and any number of packets sent, repeated, reordered or damaged. *)
(***************************************************************************)
EXTENDS PacketSecurity, TLAPS

-----------------------------------------------------------------------------
(* Remainders. *)

\* A positive multiple of M is at least M.
LEMMA MultipleGrows ==
  ASSUME NEW M \in Nat \ {0}, NEW d \in Int, d >= 1
  PROVE  M * d >= M
OBVIOUS

\* Two representations of a number have one remainder.
LEMMA UniqueRemainder ==
  ASSUME NEW M \in Nat \ {0},
         NEW q1 \in Int, NEW r1 \in 0..M - 1, NEW q2 \in Int, NEW r2 \in 0..M - 1,
         M * q1 + r1 = M * q2 + r2
  PROVE  r1 = r2
<1>1. M * (q1 - q2) = r2 - r1 /\ M * (q2 - q1) = r1 - r2
  OBVIOUS
<1>2. CASE q1 - q2 >= 1
  <2>1. M * (q1 - q2) >= M
    BY <1>2, MultipleGrows
  <2> QED BY <2>1, <1>1
<1>3. CASE q2 - q1 >= 1
  <2>1. M * (q2 - q1) >= M
    BY <1>3, MultipleGrows
  <2> QED BY <2>1, <1>1
<1>4. CASE q1 = q2
  BY <1>4
<1> QED BY <1>2, <1>3, <1>4

\* What % computes.
LEMMA Remainder ==
  ASSUME NEW M \in Nat \ {0}, NEW x \in Nat, NEW q \in Int, NEW r \in 0..M - 1,
         x = M * q + r
  PROVE  x % M = r
<1>1. x = M * (x \div M) + (x % M) /\ x % M \in 0..M - 1 /\ x \div M \in Int
  OBVIOUS
<1> QED BY <1>1, UniqueRemainder

\* Adding less than M wraps at most once.
LEMMA WrapsOnce ==
  ASSUME NEW M \in Nat \ {0}, NEW x \in Nat, NEW j \in 0..M - 1
  PROVE  (x + j) % M = IF (x % M) + j < M THEN (x % M) + j ELSE (x % M) + j - M
<1> DEFINE q == x \div M
           r == x % M
<1>1. x = M * q + r /\ r \in 0..M - 1 /\ q \in Int
  OBVIOUS
<1> HIDE DEF q, r
<1>2. x + j \in Nat /\ q + 1 \in Int
  BY <1>1
<1>3. CASE r + j < M
  <2>1. x + j = M * q + (r + j) /\ r + j \in 0..M - 1
    BY <1>1, <1>3
  <2>2. (x + j) % M = r + j
    BY <2>1, <1>1, <1>2, Remainder
  <2> QED BY <2>2, <1>3 DEF r
<1>4. CASE ~(r + j < M)
  <2>1. x + j = M * (q + 1) + (r + j - M) /\ r + j - M \in 0..M - 1
    BY <1>1, <1>4
  <2>2. (x + j) % M = r + j - M
    <3> DEFINE y == x + j
               p == q + 1
               s == r + j - M
    <3>1. y \in Nat /\ p \in Int /\ s \in 0..M - 1 /\ y = M * p + s
      BY <2>1, <1>2
    <3> HIDE DEF y, p, s
    <3>2. y % M = s
      BY <3>1, Remainder
    <3> QED BY <3>2 DEF y, s
  <2> QED BY <2>2, <1>4 DEF r
<1> QED BY <1>3, <1>4

-----------------------------------------------------------------------------
(* Sequence numbers. *)

\* Sequence numbers are sequence numbers.
LEMMA SequenceType ==
  ASSUME start \in SequenceNumbers, NEW n \in Nat
  PROVE  Sequence(n) \in SequenceNumbers
<1>1. 2 * Half \in Nat \ {0} /\ start + n \in Nat
  BY SecurityAssumption DEF SequenceNumbers
<1> QED BY <1>1 DEF Sequence, SequenceNumbers

\* A packet that is newer by less than half the numbers passes the check of
\* its number, whether the numbers wrapped in between or not.
LEMMA NewerIsValid ==
  ASSUME start \in SequenceNumbers, NEW m \in Nat, NEW n \in Nat, n - m \in 1..Half - 1
  PROVE  validateSequence(Sequence(n), Sequence(m))
<1> DEFINE M == 2 * Half
           x == start + m
           j == n - m
<1>1. Half \in Nat /\ M \in Nat \ {0} /\ x \in Nat /\ j \in 1..Half - 1 /\ j \in 0..M - 1
  BY SecurityAssumption DEF SequenceNumbers
<1>2. x + j = start + n
  BY <1>1 DEF SequenceNumbers
<1>3. Sequence(m) \in 0..M - 1
  BY SequenceType DEF SequenceNumbers
<1>4. Sequence(n) = IF Sequence(m) + j < M THEN Sequence(m) + j ELSE Sequence(m) + j - M
  <2>1. Sequence(m) = x % M /\ Sequence(n) = (x + j) % M
    BY <1>2 DEF Sequence
  <2> HIDE DEF M, x, j
  <2> QED BY <2>1, <1>1, WrapsOnce
<1>5. M = 2 * Half
  OBVIOUS
<1> HIDE DEF M, x, j
<1> QED BY <1>1, <1>3, <1>4, <1>5 DEF validateSequence

\* While the sum stays below the number of numbers, it is the number.
LEMMA Unwrapped ==
  ASSUME start \in SequenceNumbers, NEW k \in Nat, start + k < 2 * Half
  PROVE  Sequence(k) = start + k
<1> DEFINE M == 2 * Half
           x == start + k
<1>1. M \in Nat \ {0} /\ x \in 0..M - 1
  BY SecurityAssumption DEF SequenceNumbers
<1> HIDE DEF M, x
<1>2. x % M = x
  BY <1>1
<1> QED BY <1>2 DEF Sequence, M, x

-----------------------------------------------------------------------------
(* Type correctness. *)

\* The HMAC of every packet in flight is one the sender made.
Authentic ==
  \A d \in wire : d.hmac[3] \in 1..sent /\ d.hmac[1] = Sequence(d.hmac[3])

TypeInv == TypeOK /\ Authentic

\* A packet that is taken carries the number and the data it was sent with.
LEMMA TakenAsSent ==
  ASSUME TypeInv, NEW d \in wire, verifyHMAC(d)
  PROVE  d.data \in 1..sent /\ d.sequence = Sequence(d.data)
BY DEF TypeInv, TypeOK, Authentic, verifyHMAC, computeHMAC, Packet

\* Nothing is in flight at the beginning.
LEMMA TypeInitially == Init => TypeInv
<1> SUFFICES ASSUME Init PROVE TypeInv
  OBVIOUS
<1>1. Sequence(0) = start
  <2>1. start + 0 < 2 * Half
    BY SecurityAssumption DEF Init, SequenceNumbers
  <2> QED BY <2>1, Unwrapped, SecurityAssumption DEF Init, SequenceNumbers
<1>2. /\ start \in SequenceNumbers /\ sent = 0 /\ now = 0 /\ skew \in Skews /\ wire = {}
      /\ lastSequence = start /\ taken = [last |-> 0, all |-> {}] /\ repeated = FALSE
  BY DEF Init
<1>3. taken \in [last : {0} \cup taken.all, all : SUBSET (1..sent)]
  BY <1>2
<1>4. lastSequence = Sequence(taken.last)
  BY <1>1, <1>2
<1>5. now \in 0..MaxTime /\ sent \in 0..MaxSent
  BY <1>2, SecurityAssumption
<1> QED BY <1>2, <1>3, <1>4, <1>5 DEF TypeInv, TypeOK, Authentic

\* No step makes up an HMAC.
LEMMA TypeKept == TypeInv /\ [Next]_vars => TypeInv'
<1> SUFFICES ASSUME TypeInv, [Next]_vars PROVE TypeInv'
  OBVIOUS
<1> USE SecurityAssumption
<1>1. CASE Send
  <2> DEFINE new == encapsulateSecure(sent + 1, Sequence(sent + 1), now + skew)
  <2>1. sent + 1 \in 1..MaxSent /\ now + skew \in Int
    BY <1>1 DEF Send, TypeInv, TypeOK
  <2>2. Sequence(sent + 1) \in SequenceNumbers
    BY <2>1, SequenceType DEF TypeInv, TypeOK
  <2>3. new \in Packet
    BY <2>1, <2>2 DEF encapsulateSecure, computeHMAC, Packet
  <2>4. new.hmac[3] = sent + 1 /\ new.hmac[1] = Sequence(sent + 1)
    BY DEF encapsulateSecure, computeHMAC
  <2> HIDE DEF new
  <2>5. /\ wire' = wire \cup {new} /\ sent' = sent + 1
        /\ UNCHANGED <<start, now, skew, lastSequence, taken, repeated>>
    BY <1>1 DEF Send, new
  <2>6. Sequence(taken.last)' = Sequence(taken.last) /\ \A n : Sequence(n)' = Sequence(n)
    BY <2>5 DEF Sequence
  <2>7. TypeOK'
    BY <2>1, <2>3, <2>5, <2>6 DEF TypeInv, TypeOK
  <2>8. Authentic'
    BY <2>1, <2>4, <2>5, <2>6 DEF TypeInv, TypeOK, Authentic
  <2> QED BY <2>7, <2>8 DEF TypeInv
<1>2. ASSUME NEW d \in wire, Receive(d) PROVE TypeInv'
  <2>1. wire' \subseteq wire /\ UNCHANGED <<start, sent, now, skew>>
    BY <1>2 DEF Receive
  <2>2. \A n : Sequence(n)' = Sequence(n)
    BY <2>1 DEF Sequence
  <2>3. Authentic'
    BY <2>1, <2>2 DEF TypeInv, Authentic
  <2>4. CASE decapsulateSecure(d)
    <3>1. /\ lastSequence' = d.sequence
          /\ taken' = [last |-> d.data, all |-> taken.all \cup {d.data}]
          /\ repeated' \in BOOLEAN
      BY <1>2, <2>4 DEF Receive, TypeInv, TypeOK
    <3>2. d.data \in 1..sent /\ d.sequence = Sequence(d.data)
      BY <2>4, TakenAsSent DEF decapsulateSecure
    <3>3. lastSequence' = Sequence(taken.last)'
      BY <3>1, <3>2, <2>1 DEF Sequence
    <3>4. taken.all \subseteq 1..sent
      BY DEF TypeInv, TypeOK
    <3>5. taken' \in [last : {0} \cup taken'.all, all : SUBSET (1..sent')]
      BY <3>1, <3>2, <3>4, <2>1
    <3>6. TypeOK'
      BY <3>1, <3>3, <3>5, <2>1 DEF TypeInv, TypeOK
    <3> QED BY <3>6, <2>3 DEF TypeInv
  <2>5. CASE ~decapsulateSecure(d)
    <3>1. UNCHANGED <<lastSequence, taken, repeated>>
      BY <1>2, <2>5 DEF Receive
    <3>2. Sequence(taken.last)' = Sequence(taken.last)
      BY <3>1, <2>1 DEF Sequence
    <3>3. TypeOK'
      BY <3>1, <3>2, <2>1 DEF TypeInv, TypeOK
    <3> QED BY <3>3, <2>3 DEF TypeInv
  <2> QED BY <2>4, <2>5
<1>3. ASSUME NEW d \in wire, Lose(d) PROVE TypeInv'
  <2>1. wire' \subseteq wire /\ UNCHANGED <<start, sent, now, skew, lastSequence, taken, repeated>>
    BY <1>3 DEF Lose
  <2>2. Sequence(taken.last)' = Sequence(taken.last) /\ \A n : Sequence(n)' = Sequence(n)
    BY <2>1 DEF Sequence
  <2> QED BY <2>1, <2>2 DEF TypeInv, TypeOK, Authentic
<1>4. ASSUME NEW d \in wire, Damage(d) PROVE TypeInv'
  <2>1. PICK e \in {[d EXCEPT !.sequence = (@ + 1) % (2 * Half)],
                    [d EXCEPT !.timestamp = @ + 1], [d EXCEPT !.data = 0]} :
               wire' = (wire \ {d}) \cup {e}
    BY <1>4 DEF Damage
  <2>2. UNCHANGED <<start, sent, now, skew, lastSequence, taken, repeated>>
    BY <1>4 DEF Damage
  <2>3. Sequence(taken.last)' = Sequence(taken.last) /\ \A n : Sequence(n)' = Sequence(n)
    BY <2>2 DEF Sequence
  <2>4. d \in Packet /\ d.hmac[3] \in 1..sent /\ d.hmac[1] = Sequence(d.hmac[3])
    BY DEF TypeInv, TypeOK, Authentic
  <2>5. (d.sequence + 1) % (2 * Half) \in SequenceNumbers
    <3>1. d.sequence + 1 \in Nat /\ 2 * Half \in Nat \ {0}
      BY <2>4 DEF Packet, SequenceNumbers
    <3> QED BY <3>1 DEF SequenceNumbers
  <2>6. e \in Packet /\ e.hmac = d.hmac
    BY <2>1, <2>4, <2>5 DEF Packet
  <2>7. TypeOK'
    BY <2>1, <2>2, <2>3, <2>6 DEF TypeInv, TypeOK
  <2>8. Authentic'
    BY <2>1, <2>2, <2>3, <2>4, <2>6 DEF TypeInv, Authentic
  <2> QED BY <2>7, <2>8 DEF TypeInv
<1>5. CASE Tick
  <2>1. Sequence(taken.last)' = Sequence(taken.last) /\ \A n : Sequence(n)' = Sequence(n)
    BY <1>5 DEF Tick, Sequence
  <2> QED BY <1>5, <2>1 DEF Tick, TypeInv, TypeOK, Authentic
<1>6. CASE UNCHANGED vars
  <2>1. Sequence(taken.last)' = Sequence(taken.last) /\ \A n : Sequence(n)' = Sequence(n)
    BY <1>6 DEF vars, Sequence
  <2> QED BY <1>6, <2>1 DEF vars, TypeInv, TypeOK, Authentic
<1> QED BY <1>1, <1>2, <1>3, <1>4, <1>5, <1>6 DEF Next

\* The type invariant: what is taken was sent, under the number that is kept.
THEOREM TypeCorrect == Spec => []TypeOK
<1>1. TypeInv => TypeOK
  BY DEF TypeInv
<1> QED BY TypeInitially, TypeKept, <1>1, PTL DEF Spec

\* A fresh packet that arrives in time is taken, wherever the numbers wrap.
THEOREM FreshAlwaysAccepted == Spec => []FreshAccepted
<1>1. TypeInv => FreshAccepted
  <2> SUFFICES ASSUME TypeInv, NEW d \in wire, Undamaged(d), validateTimestamp(d.timestamp),
                      d.data - taken.last \in 1..Half - 1
               PROVE  decapsulateSecure(d)
    BY DEF FreshAccepted
  <2>1. verifyHMAC(d)
    <3>1. d.hmac = encapsulateSecure(d.data, d.sequence, d.timestamp).hmac
      BY DEF Undamaged
    <3> QED BY <3>1 DEF encapsulateSecure, verifyHMAC
  <2>2. d.data \in Nat /\ d.sequence = Sequence(d.data)
    BY <2>1, TakenAsSent, SecurityAssumption DEF TypeInv, TypeOK
  <2>3. taken.last \in Nat /\ lastSequence = Sequence(taken.last) /\ start \in SequenceNumbers
    BY SecurityAssumption DEF TypeInv, TypeOK
  <2>4. validateSequence(d.sequence, lastSequence)
    BY <2>2, <2>3, NewerIsValid
  <2> QED BY <2>1, <2>4 DEF decapsulateSecure
<1> QED BY TypeInitially, TypeKept, <1>1, PTL DEF Spec

-----------------------------------------------------------------------------
(* The order in which packets are taken. *)

\* Until the numbers cross 2^31 they do not wrap either.
OrderInv == ~Crossed => start + sent < 2 * Half

InOrder == OrderInv /\ TakenInOrder

\* Crossing is for ever: numbers once used stay used.
LEMMA CrossedStays ==
  ASSUME TypeInv, TypeInv', sent' \in {sent, sent + 1}, start' = start, Crossed
  PROVE  Crossed'
<1>1. \A n : Sequence(n)' = Sequence(n)
  BY DEF Sequence
<1>2. 0..sent \subseteq 0..sent'
  BY SecurityAssumption DEF TypeInv, TypeOK
<1> QED BY <1>1, <1>2 DEF Crossed

\* A number that validates belongs to a newer packet.
LEMMA ValidIsNewer ==
  ASSUME TypeInv, OrderInv, ~Crossed, NEW m \in 0..sent, NEW n \in 0..sent,
         validateSequence(Sequence(n), Sequence(m))
  PROVE  n > m
<1>1. start \in 0..2 * Half - 1 /\ Half \in Nat /\ sent \in Nat
  BY SecurityAssumption DEF TypeInv, TypeOK, SequenceNumbers
<1>2. start + n < 2 * Half /\ start + m < 2 * Half
  BY <1>1 DEF OrderInv
<1>3. Sequence(n) = start + n /\ Sequence(m) = start + m
  BY <1>1, <1>2, Unwrapped DEF SequenceNumbers
<1>4. ~(Sequence(m) > Half /\ Sequence(n) < Half)
  BY DEF Crossed
<1> QED BY <1>1, <1>3, <1>4 DEF validateSequence

\* Sending may cross; taking keeps the order unless it has happened.
LEMMA OrderKept ==
  ASSUME TypeInv, TypeInv', InOrder, [Next]_vars
  PROVE  InOrder'
<1> USE SecurityAssumption
<1>1. CASE Send
  <2>1. sent' = sent + 1 /\ UNCHANGED <<start, taken, repeated>>
    BY <1>1 DEF Send
  <2>2. ~Crossed' => ~Crossed
    BY <2>1, CrossedStays
  <2>3. TakenInOrder'
    BY <2>1, <2>2 DEF InOrder, TakenInOrder
  <2>4. OrderInv'
    <3> SUFFICES ASSUME ~Crossed', start + sent = 2 * Half - 1 PROVE FALSE
      <4>1. start \in Nat /\ sent \in Nat
        BY DEF TypeInv, TypeOK, SequenceNumbers
      <4> QED BY <4>1, <2>1, <2>2 DEF InOrder, OrderInv
    <3>1. start \in SequenceNumbers /\ sent \in Nat /\ start + sent < 2 * Half
      BY DEF TypeInv, TypeOK, SequenceNumbers
    <3>2. Sequence(sent) = 2 * Half - 1
      BY <3>1, Unwrapped
    <3>3. Sequence(sent + 1) = 0
      <4>1. start + (sent + 1) = 2 * Half
        BY <3>1 DEF SequenceNumbers
      <4>2. 2 * Half \in Nat \ {0}
        OBVIOUS
      <4> DEFINE M == 2 * Half
      <4>3. M % M = 0
        <5> HIDE DEF M
        <5>1. M \in Nat \ {0}
          BY <4>2 DEF M
        <5> QED BY <5>1
      <4> QED BY <4>1, <4>3 DEF Sequence
    <3>4. \A n : Sequence(n)' = Sequence(n)
      BY <2>1 DEF Sequence
    <3>5. sent \in 0..sent' /\ sent + 1 \in 0..sent'
      BY <3>1, <2>1
    <3>6. Half > 0 /\ 2 * Half - 1 > Half
      OBVIOUS
    <3> QED BY <3>2, <3>3, <3>4, <3>5, <3>6 DEF Crossed
  <2> QED BY <2>3, <2>4 DEF InOrder
<1>2. ASSUME NEW d \in wire, Receive(d) PROVE InOrder'
  <2>1. UNCHANGED <<start, sent>>
    BY <1>2 DEF Receive
  <2>2. Crossed' <=> Crossed
    BY <2>1 DEF Crossed, Sequence
  <2>3. OrderInv'
    BY <2>1, <2>2 DEF InOrder, OrderInv
  <2>4. TakenInOrder'
    <3>1. CASE decapsulateSecure(d) /\ ~Crossed
      <4>1. /\ taken' = [last |-> d.data, all |-> taken.all \cup {d.data}]
            /\ repeated' = (repeated \/ d.data \in taken.all)
        BY <1>2, <3>1 DEF Receive
      <4>2. d.data \in 1..sent /\ d.sequence = Sequence(d.data)
        BY <3>1, TakenAsSent DEF decapsulateSecure
      <4>3. taken.last \in 0..sent /\ lastSequence = Sequence(taken.last)
              /\ taken.all \subseteq 1..sent /\ sent \in Nat
        BY DEF TypeInv, TypeOK
      <4>4. d.data > taken.last
        BY <3>1, <4>2, <4>3, ValidIsNewer DEF decapsulateSecure, InOrder
      <4>5. ~repeated /\ \A n \in taken.all : n <= taken.last
        BY <3>1 DEF InOrder, TakenInOrder
      <4>6. d.data \notin taken.all /\ \A n \in taken.all : n <= d.data
        BY <4>2, <4>3, <4>4, <4>5
      <4>7. ~repeated'
        BY <4>1, <4>5, <4>6
      <4>8. \A n \in taken'.all : n <= taken'.last
        BY <4>1, <4>2, <4>3, <4>6
      <4> QED BY <4>7, <4>8 DEF TakenInOrder
    <3>2. CASE ~decapsulateSecure(d)
      BY <1>2, <3>2, <2>2 DEF Receive, InOrder, TakenInOrder
    <3>3. CASE Crossed
      BY <3>3, <2>2 DEF TakenInOrder
    <3> QED BY <3>1, <3>2, <3>3
  <2> QED BY <2>3, <2>4 DEF InOrder
<1>3. CASE UNCHANGED <<start, sent, taken, repeated>>
  BY <1>3 DEF InOrder, OrderInv, TakenInOrder, Crossed, Sequence
<1>4. ASSUME NEW d \in wire, Lose(d) \/ Damage(d) PROVE InOrder'
  BY <1>3, <1>4 DEF Lose, Damage
<1>5. CASE Tick \/ UNCHANGED vars
  BY <1>3, <1>5 DEF Tick, vars
<1> QED BY <1>1, <1>2, <1>4, <1>5 DEF Next

\* While the numbers stay on one side of 2^31 nothing is taken twice or late.
THEOREM AlwaysTakenInOrder == Spec => []TakenInOrder
<1>1. Init => InOrder
  <2> SUFFICES ASSUME Init PROVE InOrder
    OBVIOUS
  <2>1. start + sent < 2 * Half
    BY SecurityAssumption DEF Init, SequenceNumbers
  <2> QED BY <2>1 DEF Init, InOrder, OrderInv, TakenInOrder
<1>2. TypeInv /\ TypeInv' /\ InOrder /\ [Next]_vars => InOrder'
  BY OrderKept
<1>3. InOrder => TakenInOrder
  BY DEF InOrder
<1> QED BY TypeInitially, TypeKept, <1>1, <1>2, <1>3, PTL DEF Spec
=============================================================================
