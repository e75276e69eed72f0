----------------------------- MODULE RateLimiter -----------------------------
(* The per-IP limiter of the server: src/src/core/rate-limiter.ts.          *)
EXTENDS Integers, Functions

CONSTANTS
  Keys,        \* the addresses requests come from
  MaxRequests, \* maxRequests
  WindowMs,    \* windowMs, in clock units
  NoEnd,       \* no window
  MaxTime,     \* bound on the clock
  MaxResets    \* bound: resets of a key in one stretch of time

ASSUME LimiterAssumption ==
  /\ MaxRequests \in Nat \ {0} /\ WindowMs \in Nat \ {0} /\ MaxTime \in Nat /\ MaxResets \in Nat
  /\ NoEnd \notin Nat

VARIABLES
  limits,  \* key -> [count, resetTime], on the keys that have an entry
  now,     \* Date.now()
  answer,  \* the key and verdict of the latest isAllowed
  (* history, per key and instant t, from t until t + WindowMs: *)
  admitted, \* the requests admitted
  resets    \* the resets of the key

histories == <<admitted, resets>>
vars == <<limits, now, answer, histories>>

Limit == [count : 1..MaxRequests, resetTime : Nat]

\* Mutant: the window is over one instant early.
FreshEarly(k) == k \in DOMAIN limits => now >= limits[k].resetTime

\* No entry, or one whose window is over.
Fresh(k) == k \in DOMAIN limits => now > limits[k].resetTime

Set(k, count, resetTime) ==
  limits' = [x \in DOMAIN limits \cup {k} |->
               IF x = k THEN [count |-> count, resetTime |-> resetTime] ELSE limits[x]]

\* The stretch of time that begins at t, as long as a window.
Stretch(t) == t..t + WindowMs

\* A history with one more event of k, now.
Counted(history, k) ==
  [history EXCEPT
    ![k] = [t \in 0..MaxTime |-> IF now \in Stretch(t) THEN @[t] + 1 ELSE @[t]]]

Record(k) == admitted' = Counted(admitted, k) /\ UNCHANGED resets

\* Mutant: the comparison with maxRequests is off by one.
FullLate(k) == limits[k].count > MaxRequests

Full(k) == limits[k].count >= MaxRequests

OpenWindow(k) ==
  /\ Fresh(k)
  /\ Set(k, 1, now + WindowMs)
  /\ Record(k)
  /\ answer' = <<k, TRUE>>

Exceeded(k) ==
  /\ ~Fresh(k) /\ Full(k)
  /\ answer' = <<k, FALSE>>
  /\ UNCHANGED <<limits, histories>>

CountUp(k) ==
  /\ ~Fresh(k) /\ ~Full(k)
  /\ Set(k, limits[k].count + 1, limits[k].resetTime)
  /\ Record(k)
  /\ answer' = <<k, TRUE>>

IsAllowed(k) == (OpenWindow(k) \/ Exceeded(k) \/ CountUp(k)) /\ UNCHANGED now

\* Mutant: entries go while their window is still open.
CleanupEarly ==
  /\ limits' = Restrict(limits, {k \in DOMAIN limits : now < limits[k].resetTime})
  /\ UNCHANGED <<now, answer, histories>>

\* The timer of the constructor; it may run at any time.
Cleanup ==
  /\ limits' = Restrict(limits, {k \in DOMAIN limits : now <= limits[k].resetTime})
  /\ UNCHANGED <<now, answer, histories>>

GetCount(k) == IF Fresh(k) THEN 0 ELSE limits[k].count

Reset(k) ==
  /\ \A t \in 0..MaxTime : resets[k][t] < MaxResets
  /\ limits' = Restrict(limits, DOMAIN limits \ {k})
  /\ resets' = Counted(resets, k)
  /\ UNCHANGED <<now, answer, admitted>>

Tick ==
  /\ now < MaxTime
  /\ now' = now + 1
  /\ UNCHANGED <<limits, answer, histories>>

Init ==
  /\ limits = [k \in {} |-> <<>>]
  /\ now = 0
  /\ answer = <<>>
  /\ admitted = [k \in Keys |-> [t \in 0..MaxTime |-> 0]]
  /\ resets = [k \in Keys |-> [t \in 0..MaxTime |-> 0]]

Next ==
  \/ \E k \in Keys : IsAllowed(k) \/ Reset(k)
  \/ Cleanup
  \/ Tick

Spec == Init /\ [][Next]_vars

-----------------------------------------------------------------------------
\* Every variable keeps to its type.
TypeOK ==
  /\ DOMAIN limits \subseteq Keys /\ limits \in [DOMAIN limits -> Limit]
  /\ now \in 0..MaxTime
  /\ answer \in {<<>>} \cup (Keys \X BOOLEAN)
  /\ admitted \in [Keys -> [0..MaxTime -> Nat]] /\ resets \in [Keys -> [0..MaxTime -> Nat]]

\* No stretch of time as long as a window sees more than two windows' worth of
\* admitted requests: with 10 handshakes a minute, 20 at most, wherever the
\* minute starts and whatever the clean-up timer does in between.  Each reset
\* of the key in that stretch may add one window's worth.
TwoWindowsAtMost ==
  \A k \in Keys, t \in 0..MaxTime : admitted[k][t] <= (2 + resets[k][t]) * MaxRequests

\* The limiter with its table and clean-up implements the window limiter,
\* which has neither: deleting entries changes no verdict.
Window ==
  INSTANCE WindowLimiter WITH
    used <- [k \in Keys |-> GetCount(k)],
    ends <- [k \in Keys |-> IF Fresh(k) THEN NoEnd ELSE limits[k].resetTime]
ImplementsWindow == Window!Spec
=============================================================================
