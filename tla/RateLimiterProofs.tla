-------------------------- MODULE RateLimiterProofs --------------------------
(* Theorems about RateLimiter, for every value of its constants. *)
EXTENDS RateLimiter, TLAPS

\* The initial state satisfies the invariant.
LEMMA InitType == Init => TypeOK
BY LimiterAssumption DEF Init, TypeOK

\* An event is counted in every stretch that contains now, of its key only.
LEMMA CountedEvent ==
  ASSUME NEW history \in [Keys -> [0..MaxTime -> Nat]], NEW k \in Keys
  PROVE  /\ Counted(history, k) \in [Keys -> [0..MaxTime -> Nat]]
         /\ \A x \in Keys \ {k} : Counted(history, k)[x] = history[x]
         /\ \A t \in 0..MaxTime :
              Counted(history, k)[k][t] =
                IF now \in Stretch(t) THEN history[k][t] + 1 ELSE history[k][t]
<1> DEFINE a == history[k]
           f == [t \in 0..MaxTime |-> IF now \in Stretch(t) THEN a[t] + 1 ELSE a[t]]
<1>1. a \in [0..MaxTime -> Nat]
  OBVIOUS
<1>2. Counted(history, k) = [history EXCEPT ![k] = f]
  BY DEF Counted
<1> HIDE DEF a
<1>3. f \in [0..MaxTime -> Nat]
  BY <1>1
<1>4. \A t \in 0..MaxTime : f[t] = IF now \in Stretch(t) THEN a[t] + 1 ELSE a[t]
  OBVIOUS
<1> HIDE DEF f
<1>5. Counted(history, k)[k] = f
  BY <1>2
<1> QED
  BY <1>2, <1>3, <1>4, <1>5 DEF a

\* Recording an admitted request.
LEMMA Recorded ==
  ASSUME TypeOK, NEW k \in Keys, Record(k)
  PROVE  /\ admitted' \in [Keys -> [0..MaxTime -> Nat]] /\ resets' = resets
         /\ \A x \in Keys \ {k} : admitted'[x] = admitted[x]
         /\ \A t \in 0..MaxTime :
              admitted'[k][t] = IF now \in Stretch(t) THEN admitted[k][t] + 1 ELSE admitted[k][t]
<1>1. admitted \in [Keys -> [0..MaxTime -> Nat]] /\ admitted' = Counted(admitted, k)
  BY DEF TypeOK, Record
<1> QED
  BY <1>1, CountedEvent DEF Record

\* Every step keeps the invariant.
LEMMA NextType == TypeOK /\ [Next]_vars => TypeOK'
<1> SUFFICES ASSUME TypeOK, [Next]_vars PROVE TypeOK'
  OBVIOUS
<1>0. now \in Nat /\ now + WindowMs \in Nat
  BY LimiterAssumption DEF TypeOK
<1>1. ASSUME NEW k \in Keys, IsAllowed(k)
      PROVE  TypeOK'
  <2>1. now' = now
    BY <1>1 DEF IsAllowed
  <2>2. CASE OpenWindow(k)
    <3>1. admitted' \in [Keys -> [0..MaxTime -> Nat]] /\ resets' = resets
      BY <2>2, Recorded DEF OpenWindow
    <3>2. answer' \in Keys \X BOOLEAN
      BY <2>2 DEF OpenWindow
    <3>3. DOMAIN limits' \subseteq Keys /\ limits' \in [DOMAIN limits' -> Limit]
      BY <1>0, <2>2, LimiterAssumption DEF OpenWindow, Set, TypeOK, Limit
    <3> QED BY <2>1, <3>1, <3>2, <3>3 DEF TypeOK
  <2>3. CASE Exceeded(k)
    BY <2>1, <2>3 DEF Exceeded, TypeOK, histories
  <2>4. CASE CountUp(k)
    <3>1. admitted' \in [Keys -> [0..MaxTime -> Nat]] /\ resets' = resets
      BY <2>4, Recorded DEF CountUp
    <3>2. limits[k].count + 1 \in 1..MaxRequests /\ limits[k].resetTime \in Nat
      BY <2>4, LimiterAssumption DEF CountUp, TypeOK, Limit, Fresh, Full
    <3>3. answer' \in Keys \X BOOLEAN
      BY <2>4 DEF CountUp
    <3>4. DOMAIN limits' \subseteq Keys /\ limits' \in [DOMAIN limits' -> Limit]
      BY <2>4, <3>2 DEF CountUp, Set, TypeOK, Limit
    <3> QED BY <2>1, <3>1, <3>3, <3>4 DEF TypeOK
  <2> QED BY <1>1, <2>2, <2>3, <2>4 DEF IsAllowed
<1>2. ASSUME NEW k \in Keys, Reset(k)
      PROVE  TypeOK'
  <2>1. resets' \in [Keys -> [0..MaxTime -> Nat]]
    BY <1>2, CountedEvent DEF Reset, TypeOK
  <2> QED
    BY <1>2, <2>1 DEF Reset, Restrict, TypeOK
<1>3. CASE Cleanup
  BY <1>3 DEF Cleanup, Restrict, TypeOK, histories
<1>4. CASE Tick
  BY <1>4, LimiterAssumption DEF Tick, TypeOK, histories
<1>5. CASE UNCHANGED vars
  BY <1>5 DEF vars, TypeOK, histories
<1> QED
  BY <1>1, <1>2, <1>3, <1>4, <1>5 DEF Next

\* Every reachable state is well typed: an entry counts at least the request
\* that made it and never more than maxRequests.
THEOREM TypeCorrect == Spec => []TypeOK
BY InitType, NextType, PTL DEF Spec

-----------------------------------------------------------------------------
(* Bursts.  A window and the stretches of the same length overlap in few   *)
(* ways: one that begins in the open window holds requests of that window; *)
(* one that began earlier and reaches into it holds those of one window    *)
(* before as well; and one that reaches up to now without an open window   *)
(* holds those of the last window.  A reset cuts a window short, and each  *)
(* one in a stretch leaves room for another window there.                  *)

\* What the resets in the stretch from t may have added.
Extra(k, t) == resets[k][t] * MaxRequests

Opening(k) == limits[k].resetTime - WindowMs

WindowOpen(k) ==
  /\ Opening(k) <= now
  /\ \A t \in 0..MaxTime :
       /\ t >= Opening(k) => admitted[k][t] <= limits[k].count + Extra(k, t)
       /\ t < Opening(k) /\ Opening(k) \in Stretch(t)
            => admitted[k][t] <= MaxRequests + limits[k].count + Extra(k, t)

WindowOver(k) ==
  \A t \in 0..MaxTime :
    /\ t >= now => admitted[k][t] <= Extra(k, t)
    /\ t + WindowMs >= now => admitted[k][t] <= MaxRequests + Extra(k, t)

\* Nothing was admitted yet in a stretch that has not begun, and none holds
\* more than two windows' worth besides what resets added.
Within(k) ==
  \A t \in 0..MaxTime : /\ t > now => admitted[k][t] = 0
                        /\ admitted[k][t] <= 2 * MaxRequests + Extra(k, t)

BurstInv ==
  \A k \in Keys : Within(k) /\ IF Fresh(k) THEN WindowOver(k) ELSE WindowOpen(k)

\* What resets add is a number, and one reset adds one window's worth.
LEMMA ExtraType ==
  ASSUME TypeOK, NEW k \in Keys, NEW t \in 0..MaxTime
  PROVE  /\ Extra(k, t) \in Nat
         /\ resets'[k][t] = resets[k][t] => Extra(k, t)' = Extra(k, t)
         /\ resets'[k][t] = resets[k][t] + 1 => Extra(k, t)' = Extra(k, t) + MaxRequests
<1> DEFINE r == resets[k][t]
<1>1. r \in Nat /\ MaxRequests \in Nat
  BY LimiterAssumption DEF TypeOK
<1>2. Extra(k, t) = r * MaxRequests
  BY DEF Extra
<1>3. Extra(k, t)' = resets'[k][t] * MaxRequests
  BY DEF Extra
<1> HIDE DEF r
<1>4. r * MaxRequests \in Nat /\ (r + 1) * MaxRequests = r * MaxRequests + MaxRequests
  BY <1>1
<1> QED
  BY <1>1, <1>2, <1>3, <1>4 DEF r

\* The bound of the property, in these terms.
LEMMA WithinMeans ==
  ASSUME TypeOK, BurstInv
  PROVE  TwoWindowsAtMost
<1> SUFFICES ASSUME NEW k \in Keys, NEW t \in 0..MaxTime
             PROVE  admitted[k][t] <= (2 + resets[k][t]) * MaxRequests
  BY DEF TwoWindowsAtMost
<1>1. admitted[k][t] <= 2 * MaxRequests + resets[k][t] * MaxRequests
  BY DEF BurstInv, Within, Extra
<1>2. resets[k][t] \in Nat /\ MaxRequests \in Nat
  BY LimiterAssumption DEF TypeOK
<1> DEFINE r == resets[k][t]
<1> HIDE DEF r
<1>3. r \in Nat => (2 + r) * MaxRequests = 2 * MaxRequests + r * MaxRequests
  BY <1>2
<1> QED
  BY <1>1, <1>2, <1>3 DEF r

\* Initially no window is open and nothing was admitted.
LEMMA InitBurst == Init => BurstInv
<1> SUFFICES ASSUME Init, NEW k \in Keys PROVE Within(k) /\ Fresh(k) /\ WindowOver(k)
  BY DEF BurstInv
<1>1. TypeOK
  BY InitType
<1>2. \A t \in 0..MaxTime : Extra(k, t) \in Nat /\ admitted[k][t] = 0
  BY <1>1, ExtraType DEF Init
<1> QED
  BY <1>2, LimiterAssumption DEF Init, Within, Fresh, WindowOver

\* What a key's history must satisfy depends on its entry only; and on that
\* only while the entry's window is open.
LEMMA SameEntry ==
  ASSUME TypeOK, BurstInv, now' = now, NEW k \in Keys, admitted'[k] = admitted[k],
         resets'[k] = resets[k], Fresh(k)' <=> Fresh(k), ~Fresh(k) => limits'[k] = limits[k]
  PROVE  Within(k)' /\ IF Fresh(k)' THEN WindowOver(k)' ELSE WindowOpen(k)'
<1>1. \A t \in 0..MaxTime : Extra(k, t)' = Extra(k, t)
  BY DEF Extra
<1>2. Within(k)'
  BY <1>1 DEF BurstInv, Within
<1> QED
  BY <1>1, <1>2 DEF BurstInv, WindowOver, WindowOpen, Opening, Stretch

\* Numbers, and the histories of a stretch.
LEMMA Numbers ==
  ASSUME TypeOK, NEW k \in Keys
  PROVE  /\ now \in Nat /\ WindowMs \in Nat \ {0} /\ MaxRequests \in Nat \ {0} /\ MaxTime \in Nat
         /\ \A t \in 0..MaxTime : admitted[k][t] \in Nat /\ Extra(k, t) \in Nat
<1>1. \A t \in 0..MaxTime : admitted[k][t] \in Nat
  BY DEF TypeOK
<1> QED
  BY <1>1, ExtraType, LimiterAssumption DEF TypeOK

\* The first request of a window: the stretches that reach up to now hold at
\* most one window's requests, and none begins with any.
LEMMA OpenBurst ==
  ASSUME TypeOK, BurstInv, NEW k \in Keys, OpenWindow(k), UNCHANGED now
  PROVE  BurstInv'
<1>1. /\ \A x \in Keys \ {k} : admitted'[x] = admitted[x] /\ resets'[x] = resets[x]
      /\ \A t \in 0..MaxTime :
           /\ admitted'[k][t] = IF now \in Stretch(t) THEN admitted[k][t] + 1 ELSE admitted[k][t]
           /\ Extra(k, t)' = Extra(k, t)
  <2>1. resets' = resets
    BY Recorded DEF OpenWindow
  <2>2. \A t \in 0..MaxTime : Extra(k, t)' = Extra(k, t)
    BY <2>1 DEF Extra
  <2> QED
    BY <2>1, <2>2, Recorded DEF OpenWindow
<1>2. /\ k \in DOMAIN limits' /\ limits'[k] = [count |-> 1, resetTime |-> now + WindowMs]
      /\ \A x \in Keys \ {k} : (Fresh(x)' <=> Fresh(x)) /\ (~Fresh(x) => limits'[x] = limits[x])
  BY Numbers DEF OpenWindow, Set, Fresh
<1>3. ~Fresh(k)' /\ Opening(k)' = now /\ limits'[k].count = 1
  BY <1>2, Numbers DEF Fresh, Opening
<1>4. WindowOver(k) /\ Within(k)
  BY DEF OpenWindow, BurstInv
<1>5. Within(k)' /\ WindowOpen(k)'
  <2> SUFFICES ASSUME NEW t \in 0..MaxTime
               PROVE  /\ t >= now => admitted'[k][t] <= 1 + Extra(k, t)
                      /\ t < now /\ now \in Stretch(t)
                           => admitted'[k][t] <= MaxRequests + 1 + Extra(k, t)
                      /\ t > now => admitted'[k][t] = 0
                      /\ admitted'[k][t] <= 2 * MaxRequests + Extra(k, t)
    BY <1>1, <1>3, Numbers DEF WindowOpen, Within, Stretch
  <2> QED
    BY <1>1, <1>4, Numbers DEF WindowOver, Within, Stretch
<1>6. \A x \in Keys \ {k} : Within(x)' /\ IF Fresh(x)' THEN WindowOver(x)' ELSE WindowOpen(x)'
  BY <1>1, <1>2, SameEntry
<1> QED
  BY <1>3, <1>5, <1>6 DEF BurstInv

\* A later request of the window counts in it and in the stretches that reach
\* into it; a stretch that ended before it opened is left alone.
LEMMA CountUpBurst ==
  ASSUME TypeOK, BurstInv, NEW k \in Keys, CountUp(k), UNCHANGED now
  PROVE  BurstInv'
<1>1. /\ \A x \in Keys \ {k} : admitted'[x] = admitted[x] /\ resets'[x] = resets[x]
      /\ \A t \in 0..MaxTime :
           /\ admitted'[k][t] = IF now \in Stretch(t) THEN admitted[k][t] + 1 ELSE admitted[k][t]
           /\ Extra(k, t)' = Extra(k, t)
  <2>1. resets' = resets
    BY Recorded DEF CountUp
  <2>2. \A t \in 0..MaxTime : Extra(k, t)' = Extra(k, t)
    BY <2>1 DEF Extra
  <2> QED
    BY <2>1, <2>2, Recorded DEF CountUp
<1>2. /\ limits[k].count \in Nat /\ limits[k].count < MaxRequests
      /\ limits[k].resetTime \in Nat /\ now <= limits[k].resetTime
  BY Numbers DEF CountUp, TypeOK, Limit, Fresh, Full
<1>3. /\ limits'[k] = [count |-> limits[k].count + 1, resetTime |-> limits[k].resetTime]
      /\ k \in DOMAIN limits'
      /\ \A x \in Keys \ {k} : (Fresh(x)' <=> Fresh(x)) /\ (~Fresh(x) => limits'[x] = limits[x])
  BY <1>2 DEF CountUp, Set, Fresh
<1>4. ~Fresh(k)' /\ Opening(k)' = Opening(k) /\ limits'[k].count = limits[k].count + 1
  BY <1>2, <1>3, Numbers DEF Fresh, Opening
<1>5. /\ WindowOpen(k) /\ Within(k)
      /\ Opening(k) \in Int /\ Opening(k) + WindowMs = limits[k].resetTime
  BY <1>2, Numbers DEF CountUp, BurstInv, Opening
<1>6. Within(k)' /\ WindowOpen(k)'
  <2> DEFINE o == Opening(k)
             c == limits[k].count
  <2> SUFFICES ASSUME NEW t \in 0..MaxTime
               PROVE  /\ t >= o => admitted'[k][t] <= c + 1 + Extra(k, t)
                      /\ t < o /\ o \in Stretch(t)
                           => admitted'[k][t] <= MaxRequests + c + 1 + Extra(k, t)
                      /\ t > now => admitted'[k][t] = 0
                      /\ admitted'[k][t] <= 2 * MaxRequests + Extra(k, t)
    BY <1>1, <1>2, <1>4, <1>5, Numbers DEF WindowOpen, Within, Stretch
  <2>1. /\ t > now => admitted[k][t] = 0
        /\ admitted[k][t] <= 2 * MaxRequests + Extra(k, t)
    BY <1>5 DEF Within
  <2>2. /\ t >= o => admitted[k][t] <= c + Extra(k, t)
        /\ t < o /\ o \in t..t + WindowMs => admitted[k][t] <= MaxRequests + c + Extra(k, t)
    BY <1>5 DEF WindowOpen, Stretch
  <2>3. admitted'[k][t] = IF now \in t..t + WindowMs THEN admitted[k][t] + 1 ELSE admitted[k][t]
    BY <1>1 DEF Stretch
  <2>4. c \in Nat /\ c < MaxRequests /\ o \in Int /\ now <= o + WindowMs
    BY <1>2, <1>5
  <2>5. now >= o
    BY <1>5 DEF WindowOpen
  <2> HIDE DEF o, c
  <2> QED
    BY <2>1, <2>2, <2>3, <2>4, <2>5, Numbers DEF Stretch
<1>7. \A x \in Keys \ {k} : Within(x)' /\ IF Fresh(x)' THEN WindowOver(x)' ELSE WindowOpen(x)'
  BY <1>1, <1>3, SameEntry
<1> QED
  BY <1>4, <1>6, <1>7 DEF BurstInv

\* A reset cuts the window short, and leaves room for another one in every
\* stretch that contains it.
LEMMA ResetBurst ==
  ASSUME TypeOK, BurstInv, NEW k \in Keys, Reset(k)
  PROVE  BurstInv'
<1>1. /\ now' = now /\ admitted' = admitted /\ k \notin DOMAIN limits'
      /\ \A x \in Keys \ {k} : /\ x \in DOMAIN limits' <=> x \in DOMAIN limits
                               /\ x \in DOMAIN limits => limits'[x] = limits[x]
  BY DEF Reset, Restrict, TypeOK
<1>2. resets \in [Keys -> [0..MaxTime -> Nat]] /\ resets' = Counted(resets, k)
  BY DEF Reset, TypeOK
<1>3. \A x \in Keys \ {k} : resets'[x] = resets[x]
  BY <1>2, CountedEvent
<1>4. Fresh(k)' /\ \A x \in Keys \ {k} : Fresh(x)' <=> Fresh(x)
  BY <1>1 DEF Fresh
<1>5. Within(k)' /\ WindowOver(k)'
  <2> SUFFICES ASSUME NEW t \in 0..MaxTime
               PROVE  /\ t > now => admitted[k][t] = 0
                      /\ admitted[k][t] <= 2 * MaxRequests + Extra(k, t)'
                      /\ t >= now => admitted[k][t] <= Extra(k, t)'
                      /\ t + WindowMs >= now => admitted[k][t] <= MaxRequests + Extra(k, t)'
    BY <1>1 DEF Within, WindowOver
  <2>1. /\ t > now => admitted[k][t] = 0
        /\ admitted[k][t] <= 2 * MaxRequests + Extra(k, t)
    BY DEF BurstInv, Within
  <2>2. resets'[k][t] = IF now \in Stretch(t) THEN resets[k][t] + 1 ELSE resets[k][t]
    BY <1>2, CountedEvent
  <2>3. Extra(k, t)' = IF now \in t..t + WindowMs THEN Extra(k, t) + MaxRequests ELSE Extra(k, t)
    BY <2>2, ExtraType DEF Stretch
  <2>4. CASE Fresh(k)
    <3>1. /\ t >= now => admitted[k][t] <= Extra(k, t)
          /\ t + WindowMs >= now => admitted[k][t] <= MaxRequests + Extra(k, t)
      BY <2>4 DEF BurstInv, WindowOver
    <3> QED
      BY <2>1, <2>3, <3>1, Numbers
  <2>5. CASE ~Fresh(k)
    <3> DEFINE o == Opening(k)
               c == limits[k].count
    <3>1. c \in Nat /\ c <= MaxRequests /\ o \in Int /\ o <= now
      <4>1. limits[k].count \in 1..MaxRequests /\ limits[k].resetTime \in Nat
        BY <2>5 DEF TypeOK, Limit, Fresh
      <4>2. WindowOpen(k)
        BY <2>5 DEF BurstInv
      <4> QED
        BY <4>1, <4>2, Numbers DEF WindowOpen, Opening
    <3>2. /\ t >= o => admitted[k][t] <= c + Extra(k, t)
          /\ t < o /\ o \in t..t + WindowMs => admitted[k][t] <= MaxRequests + c + Extra(k, t)
      BY <2>5 DEF BurstInv, WindowOpen, Stretch
    <3> HIDE DEF o, c
    <3> QED
      BY <2>1, <2>3, <3>1, <3>2, Numbers
  <2> QED
    BY <2>4, <2>5
<1>6. \A x \in Keys \ {k} : Within(x)' /\ IF Fresh(x)' THEN WindowOver(x)' ELSE WindowOpen(x)'
  BY <1>1, <1>3, <1>4, SameEntry DEF Fresh
<1> QED
  BY <1>4, <1>5, <1>6 DEF BurstInv

\* The clean-up deletes entries whose window is over, and no history.
LEMMA CleanupBurst ==
  ASSUME TypeOK, BurstInv, Cleanup
  PROVE  BurstInv'
<1>1. now' = now /\ admitted' = admitted /\ resets' = resets
  BY DEF Cleanup, histories
<1>2. \A x \in Keys : /\ Fresh(x)' <=> Fresh(x)
                      /\ ~Fresh(x) => limits'[x] = limits[x]
  BY DEF Cleanup, Restrict, TypeOK, Fresh, Limit
<1> QED
  BY <1>1, <1>2, SameEntry DEF BurstInv

\* A window ends by itself.  A stretch that reaches up to now then began after
\* it opened, so it holds at most its count.
LEMMA TickBurst ==
  ASSUME TypeOK, BurstInv, Tick
  PROVE  BurstInv'
<1>1. now' = now + 1 /\ limits' = limits /\ admitted' = admitted /\ resets' = resets
  BY DEF Tick, histories
<1> SUFFICES ASSUME NEW k \in Keys
             PROVE  Within(k)' /\ IF Fresh(k)' THEN WindowOver(k)' ELSE WindowOpen(k)'
  BY DEF BurstInv
<1>2. \A t \in 0..MaxTime : Extra(k, t)' = Extra(k, t)
  BY <1>1 DEF Extra
<1>3. Within(k) /\ Within(k)'
  BY <1>1, <1>2, Numbers DEF BurstInv, Within
<1>4. CASE Fresh(k)
  <2>1. Fresh(k)' /\ WindowOver(k)
    BY <1>1, <1>4, Numbers DEF Fresh, TypeOK, Limit, BurstInv
  <2> QED
    BY <1>1, <1>2, <1>3, <2>1, Numbers DEF WindowOver
<1>5. CASE ~Fresh(k)
  <2>1. /\ k \in DOMAIN limits /\ limits[k].resetTime \in Nat
        /\ limits[k].count \in Nat /\ limits[k].count <= MaxRequests
    BY <1>5, Numbers DEF Fresh, TypeOK, Limit
  <2>2. WindowOpen(k) /\ Opening(k) \in Int /\ Opening(k) + WindowMs = limits[k].resetTime
    BY <1>5, <2>1, Numbers DEF BurstInv, Opening
  <2>3. CASE Fresh(k)'
    <3>1. now + 1 > Opening(k) + WindowMs
      BY <1>1, <2>1, <2>2, <2>3 DEF Fresh
    <3>2. ASSUME NEW t \in 0..MaxTime
          PROVE  /\ t >= now + 1 => admitted[k][t] <= Extra(k, t)
                 /\ t + WindowMs >= now + 1 => admitted[k][t] <= MaxRequests + Extra(k, t)
      <4>1. t > now => admitted[k][t] = 0
        BY <1>3 DEF Within
      <4>2. t >= Opening(k) => admitted[k][t] <= limits[k].count + Extra(k, t)
        BY <2>2 DEF WindowOpen
      <4> QED
        BY <2>1, <2>2, <3>1, <4>1, <4>2, Numbers
    <3> QED
      BY <1>1, <1>2, <1>3, <2>3, <3>2 DEF WindowOver
  <2>4. CASE ~Fresh(k)'
    <3>1. Opening(k)' = Opening(k)
      BY <1>1 DEF Opening
    <3> QED
      BY <1>1, <1>2, <1>3, <2>2, <2>4, <3>1, Numbers DEF WindowOpen, Stretch
  <2> QED
    BY <2>3, <2>4
<1> QED
  BY <1>4, <1>5

\* Every step keeps the bound.
LEMMA NextBurst == TypeOK /\ BurstInv /\ [Next]_vars => BurstInv'
<1> SUFFICES ASSUME TypeOK, BurstInv, [Next]_vars PROVE BurstInv'
  OBVIOUS
<1>1. ASSUME NEW k \in Keys, IsAllowed(k), Exceeded(k)
      PROVE  BurstInv'
  BY <1>1, SameEntry DEF IsAllowed, Exceeded, BurstInv, Fresh, histories
<1>2. ASSUME NEW k \in Keys, IsAllowed(k)
      PROVE  BurstInv'
  BY <1>1, <1>2, OpenBurst, CountUpBurst DEF IsAllowed
<1>3. CASE UNCHANGED vars
  BY <1>3, SameEntry DEF vars, BurstInv, Fresh, histories
<1> QED
  BY <1>2, <1>3, ResetBurst, CleanupBurst, TickBurst DEF Next

\* In no stretch of time as long as a window are more than two windows' worth
\* of requests admitted, and one more for each reset in it, for any number of
\* keys, any limit, any window and any behaviour of the clean-up timer.
THEOREM BurstsBounded == Spec => []TwoWindowsAtMost
BY InitType, NextType, InitBurst, NextBurst, WithinMeans, PTL DEF Spec

-----------------------------------------------------------------------------
(* The refinement.  An entry that cleanup deletes is one isAllowed treats  *)
(* as absent, so the mapped state does not see whether it is there.        *)

usedBar == [k \in Keys |-> GetCount(k)]
endsBar == [k \in Keys |-> IF Fresh(k) THEN NoEnd ELSE limits[k].resetTime]

\* The mapped count is zero exactly without an open window.
LEMMA UsedZero ==
  ASSUME TypeOK, NEW k \in Keys
  PROVE  /\ GetCount(k) \in Nat
         /\ GetCount(k) = 0 <=> Fresh(k)
BY LimiterAssumption DEF GetCount, Fresh, TypeOK, Limit

\* A request, whatever its course, is a step of the window limiter.
LEMMA IsAllowedRefines ==
  ASSUME TypeOK, TypeOK', NEW k \in Keys, IsAllowed(k)
  PROVE  Window!Next
<1> USE DEF Window!Next, usedBar, endsBar
<1>0. now \in Nat /\ now + WindowMs \in Nat /\ now' = now
  BY LimiterAssumption DEF TypeOK, IsAllowed
<1>1. CASE OpenWindow(k)
  <2>1. limits'[k] = [count |-> 1, resetTime |-> now + WindowMs] /\ k \in DOMAIN limits'
    BY <1>0, <1>1 DEF OpenWindow, Set
  <2>2. ~Fresh(k)' /\ GetCount(k)' = 1
    BY <1>0, <2>1, LimiterAssumption DEF Fresh, GetCount
  <2>3. \A x \in Keys \ {k} : (Fresh(x)' <=> Fresh(x)) /\ (~Fresh(x) => limits'[x] = limits[x])
    BY <1>0, <1>1 DEF OpenWindow, Set, Fresh
  <2>4. usedBar' = [usedBar EXCEPT ![k] = 1]
    BY <2>2, <2>3 DEF GetCount
  <2>5. endsBar' = [endsBar EXCEPT ![k] = now + WindowMs]
    <3>1. limits'[k].resetTime = now + WindowMs
      BY <2>1
    <3>2. \A x \in Keys \ {k} : endsBar'[x] = endsBar[x]
      BY <2>3
    <3> QED BY <2>2, <3>1, <3>2
  <2>6. GetCount(k) = 0
    BY <1>1, UsedZero DEF OpenWindow
  <2>7. Window!Open(k)
    BY <1>1, <2>4, <2>5, <2>6 DEF OpenWindow, Window!Open
  <2> QED BY <1>0, <2>7
<1>2. CASE Exceeded(k)
  <2>1. usedBar' = usedBar /\ endsBar' = endsBar
    BY <1>0, <1>2 DEF Exceeded, GetCount, Fresh
  <2>2. Window!Deny(k)
    BY <1>2, <2>1 DEF Exceeded, Full, Window!Deny, GetCount
  <2> QED BY <1>0, <2>2
<1>3. CASE CountUp(k)
  <2>0. /\ limits[k].count \in Nat /\ limits[k].count >= 1 /\ limits[k].resetTime \in Nat
        /\ limits[k].count < MaxRequests
    BY <1>3, LimiterAssumption DEF CountUp, TypeOK, Limit, Fresh, Full
  <2>1. /\ limits'[k] = [count |-> limits[k].count + 1, resetTime |-> limits[k].resetTime]
        /\ k \in DOMAIN limits'
    BY <1>3, <2>0 DEF CountUp, Set
  <2>2. ~Fresh(k)' /\ GetCount(k)' = limits[k].count + 1 /\ GetCount(k) = limits[k].count
    BY <1>0, <1>3, <2>1 DEF CountUp, Fresh, GetCount
  <2>3. \A x \in Keys \ {k} : (Fresh(x)' <=> Fresh(x)) /\ (~Fresh(x) => limits'[x] = limits[x])
    BY <1>0, <1>3, <2>0 DEF CountUp, Set, Fresh
  <2>4. usedBar' = [usedBar EXCEPT ![k] = @ + 1]
    BY <2>2, <2>3 DEF GetCount
  <2>5. endsBar' = endsBar
    BY <1>3, <2>1, <2>2, <2>3 DEF CountUp
  <2>6. Window!Admit(k)
    BY <1>3, <2>0, <2>2, <2>4, <2>5, LimiterAssumption DEF CountUp, Window!Admit
  <2> QED BY <1>0, <2>6
<1> QED
  BY <1>1, <1>2, <1>3 DEF IsAllowed

\* A reset is a step of the window limiter.
LEMMA ResetRefines ==
  ASSUME TypeOK, NEW k \in Keys, Reset(k)
  PROVE  Window!Next
<1> USE DEF usedBar, endsBar
<1>1. /\ now' = now /\ answer' = answer /\ k \notin DOMAIN limits'
      /\ \A x \in Keys \ {k} : /\ x \in DOMAIN limits' <=> x \in DOMAIN limits
                               /\ x \in DOMAIN limits => limits'[x] = limits[x]
  BY DEF Reset, Restrict
<1>2. Fresh(k)' /\ \A x \in Keys \ {k} : Fresh(x)' <=> Fresh(x)
  BY <1>1 DEF Fresh
<1>3. usedBar' = [usedBar EXCEPT ![k] = 0]
  BY <1>1, <1>2 DEF GetCount, Fresh
<1>4. endsBar' = [endsBar EXCEPT ![k] = NoEnd]
  BY <1>1, <1>2 DEF Fresh
<1>5. Window!Reset(k)
  BY <1>1, <1>3, <1>4 DEF Window!Reset
<1> QED
  BY <1>1, <1>5 DEF Window!Next

\* The clean-up is invisible.
LEMMA CleanupRefines ==
  ASSUME TypeOK, Cleanup
  PROVE  UNCHANGED Window!wvars
<1>1. /\ now' = now /\ answer' = answer /\ now \in Nat
      /\ \A x \in Keys : x \in DOMAIN limits' => x \in DOMAIN limits /\ limits'[x] = limits[x]
  BY DEF Cleanup, Restrict, TypeOK
<1>2. \A x \in Keys : Fresh(x)' <=> Fresh(x)
  BY DEF Cleanup, Restrict, TypeOK, Fresh, Limit
<1>3. usedBar' = usedBar /\ endsBar' = endsBar
  BY <1>1, <1>2 DEF usedBar, endsBar, GetCount, Fresh
<1> QED
  BY <1>1, <1>3 DEF Window!wvars, usedBar, endsBar

\* The passing of time ends windows in both.
LEMMA TickRefines ==
  ASSUME TypeOK, Tick
  PROVE  Window!Next
<1> USE DEF usedBar, endsBar
<1>1. limits' = limits /\ now' = now + 1 /\ answer' = answer /\ now \in Nat
  BY LimiterAssumption DEF Tick, TypeOK
<1>2. \A k \in DOMAIN limits : limits[k].resetTime \in Nat
  BY DEF TypeOK, Limit
<1>3. ASSUME NEW k \in Keys
      PROVE  Fresh(k)' <=> Fresh(k) \/ Window!Over(k)
  BY <1>1, <1>2, LimiterAssumption DEF Fresh, Window!Over
<1>4. ASSUME NEW k \in Keys
      PROVE  usedBar'[k] = IF Window!Over(k) THEN 0 ELSE usedBar[k]
  BY <1>1, <1>3 DEF GetCount
<1>5. ASSUME NEW k \in Keys
      PROVE  endsBar'[k] = IF Window!Over(k) THEN NoEnd ELSE endsBar[k]
  BY <1>1, <1>3
<1>6. Window!Tick
  BY <1>1, <1>4, <1>5 DEF Window!Tick
<1> QED
  BY <1>6 DEF Window!Next

\* The limiter of the code implements the window limiter.
THEOREM Implementation == Spec => ImplementsWindow
<1>1. Init => Window!Init
  BY DEF Init, Window!Init, GetCount, Fresh
<1>2. TypeOK /\ TypeOK' /\ [Next]_vars => [Window!Next]_(Window!wvars)
  <2>1. UNCHANGED vars => UNCHANGED Window!wvars
    BY DEF vars, Window!wvars, GetCount, Fresh
  <2> QED
    BY <2>1, IsAllowedRefines, ResetRefines, CleanupRefines, TickRefines DEF Next
<1> QED
  BY <1>1, <1>2, TypeCorrect, PTL DEF Spec, Window!Spec, ImplementsWindow
=============================================================================
