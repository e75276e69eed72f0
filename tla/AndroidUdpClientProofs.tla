------------------------ MODULE AndroidUdpClientProofs ------------------------
(***************************************************************************)
(* The Android client is never stranded, for any number of retries, timers *)
(* and inactivity checks, in every order of its threads' statements.  What *)
(* a thread has left is the rest of a program: first which program, and    *)
(* how far the thread has come, then types, then NotStranded.              *)
(***************************************************************************)
EXTENDS AndroidUdpClient, FiniteSetTheorems, TLAPS

-----------------------------------------------------------------------------
(* Programs. *)

\* onReceive ends with one statement.
Schedule(a) == << <<"schedule", a>> >>

Bodies == {answer, stop, checkInactivity, run, Schedule("heartbeat"), Schedule("inactivity")}

\* The statements of p from the n-th on.
Rest(p, n) == SubSeq(p, n, Len(p))

\* What is left of a program begins with its next statement.
LEMMA Remainder ==
  ASSUME NEW S, NEW p \in Seq(S), NEW n \in 1..Len(p)
  PROVE  /\ Rest(p, n) \in Seq(S) /\ Rest(p, n) # <<>>
         /\ Head(Rest(p, n)) = p[n] /\ Tail(Rest(p, n)) = Rest(p, n + 1)
<1> DEFINE l == Len(p)
           r == SubSeq(p, n, l)
           q == SubSeq(p, n + 1, l)
<1>1. l \in Nat /\ n \in Nat /\ n >= 1 /\ n <= l
  OBVIOUS
<1>2. r \in Seq(S) /\ Len(r) = l - n + 1 /\ r = [i \in 1..l - n + 1 |-> p[n + i - 1]]
  BY <1>1
<1>3. q \in Seq(S) /\ Len(q) = l - n /\ q = [i \in 1..l - n |-> p[n + 1 + i - 1]]
  <2> DEFINE m == n + 1
  <2>1. l - m + 1 = l - n /\ m \in Nat /\ m >= 1
    BY <1>1
  <2>2. q = SubSeq(p, m, l)
    OBVIOUS
  <2> HIDE DEF l, q
  <2>3. q = [i \in 1..l - m + 1 |-> p[m + i - 1]]
    <3> HIDE DEF m
    <3> QED BY <1>1, <2>1, <2>2
  <2>4. \A i \in 1..l - n : p[m + i - 1] \in S
    <3>1. \A i \in 1..l - n : m + i - 1 \in 1..l
      BY <1>1
    <3> HIDE DEF m
    <3> QED BY <3>1 DEF l
  <2> HIDE DEF m
  <2>5. q \in [1..l - n -> S]
    BY <2>1, <2>3, <2>4
  <2>6. l - n \in Nat
    BY <1>1
  <2>7. q \in Seq(S) /\ Len(q) = l - n
    BY <2>5, <2>6
  <2> QED BY <2>1, <2>3, <2>7 DEF m
<1> HIDE DEF r, q, l
<1>4. r # <<>> /\ Head(r) = p[n]
  <2>1. Len(r) > 0 /\ 1 \in 1..l - n + 1 /\ n + 1 - 1 = n
    BY <1>1, <1>2
  <2>2. r[1] = p[n]
    BY <1>2, <2>1, Zenon
  <2> QED BY <1>2, <2>1, <2>2
<1>5. Tail(r) = [i \in 1..l - n |-> r[i + 1]]
  BY <1>1, <1>2, <1>4
<1>6. \A i \in 1..l - n : r[i + 1] = p[n + 1 + i - 1]
  BY <1>1, <1>2
<1>7. Tail(r) = q
  BY <1>3, <1>5, <1>6
<1> QED BY <1>2, <1>4, <1>7 DEF r, q, l, Rest

\* All of it is left at first, and nothing at last.
LEMMA WholeAndNone ==
  ASSUME NEW S, NEW p \in Seq(S)
  PROVE  Rest(p, 1) = p /\ Rest(p, Len(p) + 1) = <<>>
BY DEF Rest

\* The programs' statements.
LEMMA Listing ==
  /\ answer \in Seq(Statements) /\ Len(answer) = 5
  /\ answer[1] = <<"set", "port">> /\ answer[2] = <<"stop", "handshake">>
  /\ answer[3] = <<"start", "heartbeat">> /\ answer[4] = <<"set", "received">>
  /\ answer[5] = <<"start", "inactivity">>
  /\ stop \in Seq(Statements) /\ Len(stop) = 5
  /\ stop[1] = <<"clear", "isRunning">> /\ stop[2] = <<"stop", "handshake">>
  /\ stop[3] = <<"stop", "heartbeat">> /\ stop[4] = <<"stop", "inactivity">>
  /\ stop[5] = <<"close", "socket">>
  /\ checkInactivity \in Seq(Statements) /\ Len(checkInactivity) = 5
  /\ checkInactivity[1] = <<"test", "inactivity">> /\ checkInactivity[2] = <<"stop", "heartbeat">>
  /\ checkInactivity[3] = <<"stop", "inactivity">> /\ checkInactivity[4] = <<"clear", "port">>
  /\ checkInactivity[5] = <<"start", "handshake">>
  /\ run \in Seq(Statements) /\ Len(run) = 2
  /\ run[1] = <<"test", "handshake">> /\ run[2] = <<"count", "handshake">>
  /\ \A a \in Alarms : /\ Schedule(a) \in Seq(Statements) /\ Len(Schedule(a)) = 1
                       /\ Schedule(a)[1] = <<"schedule", a>>
BY DEF answer, stop, checkInactivity, run, Schedule, Alarms, Statements

\* Who may execute what.
Tasks(t) ==
  CASE t = Receiver         -> {answer, stop}
    [] t = Main             -> {stop, Schedule("heartbeat"), Schedule("inactivity")}
    [] t \in Checks         -> {checkInactivity}
    [] t \in TimerThreads   -> {run, stop}

\* Each thread is somewhere in a program of its own, or idle.
Programs ==
  \A t \in Threads : \E p \in Tasks(t) : \E n \in 1..Len(p) + 1 : todo[t] = Rest(p, n)

LEMMA ThreadsDiffer ==
  /\ Receiver \in Threads /\ Main \in Threads /\ Receiver # Main
  /\ Checks \subseteq Threads /\ TimerThreads \subseteq Threads
  /\ Receiver \notin Checks \cup TimerThreads /\ Main \notin Checks \cup TimerThreads
  /\ \A t \in Checks : t \notin TimerThreads
  /\ \A i \in Timers : <<"timer", i>> \in TimerThreads
BY DEF Threads, Receiver, Main, Checks, TimerThreads

\* So the tasks of each kind of thread are these.
LEMMA TasksOf ==
  /\ Tasks(Receiver) = {answer, stop}
  /\ Tasks(Main) = {stop, Schedule("heartbeat"), Schedule("inactivity")}
  /\ \A t \in Checks : Tasks(t) = {checkInactivity}
  /\ \A t \in TimerThreads : Tasks(t) = {run, stop}
  /\ \A t \in Threads : \A p \in Tasks(t) : p \in Bodies
<1>1. /\ Tasks(Receiver) = {answer, stop}
      /\ Tasks(Main) = {stop, Schedule("heartbeat"), Schedule("inactivity")}
      /\ \A t \in Checks : Tasks(t) = {checkInactivity}
      /\ \A t \in TimerThreads : Tasks(t) = {run, stop}
  BY ThreadsDiffer DEF Tasks
<1> QED BY <1>1 DEF Threads, Bodies

LEMMA BodiesTyped == \A p \in Bodies : p \in Seq(Statements) /\ Len(p) \in Nat
BY Listing DEF Bodies, Alarms

\* A thread at work is at a statement of one of its tasks.
LEMMA AtStatement ==
  ASSUME Programs, NEW t \in Threads, ~Idle(t)
  PROVE  \E p \in Tasks(t) : \E n \in 1..Len(p) :
           /\ todo[t] = Rest(p, n) /\ Head(todo[t]) = p[n] /\ Tail(todo[t]) = Rest(p, n + 1)
<1>1. PICK p \in Tasks(t) : \E n \in 1..Len(p) + 1 : todo[t] = Rest(p, n)
  BY DEF Programs
<1>0. PICK n \in 1..Len(p) + 1 : todo[t] = Rest(p, n)
  BY <1>1
<1>2. p \in Seq(Statements) /\ Len(p) \in Nat
  BY TasksOf, BodiesTyped
<1>3. n # Len(p) + 1
  BY <1>0, <1>2, WholeAndNone DEF Idle
<1>4. n \in 1..Len(p)
  BY <1>2, <1>3
<1>5. /\ Head(Rest(p, n)) = p[n] /\ Tail(Rest(p, n)) = Rest(p, n + 1)
  BY <1>2, <1>4, Remainder
<1> QED BY <1>0, <1>4, <1>5

\* What is left of a task is a sequence of statements.
LEMMA RestTyped ==
  ASSUME NEW p \in Bodies, NEW n \in 1..Len(p) + 1
  PROVE  Rest(p, n) \in Seq(Statements)
<1>1. p \in Seq(Statements) /\ Len(p) \in Nat
  BY BodiesTyped
<1> QED BY <1>1 DEF Rest

\* A step of one thread that leaves it in a task of its own keeps the programs.
LEMMA ProgramsKept ==
  ASSUME Programs, todo \in [Threads -> Seq(Statements)], NEW t \in Threads, NEW s,
         todo' = [todo EXCEPT ![t] = s],
         \E p \in Tasks(t) : \E n \in 1..Len(p) + 1 : s = Rest(p, n)
  PROVE  Programs' /\ todo' \in [Threads -> Seq(Statements)]
<1>1. todo'[t] = s /\ \A u \in Threads : u # t => todo'[u] = todo[u]
  OBVIOUS
<1>2. Programs'
  BY <1>1 DEF Programs
<1>3. s \in Seq(Statements)
  BY TasksOf, RestTyped
<1> QED BY <1>2, <1>3

\* Going on, returning and being called are such steps.
LEMMA GoKeepsPrograms ==
  ASSUME Programs, todo \in [Threads -> Seq(Statements)], NEW t \in Threads, ~Idle(t), Go(t)
  PROVE  Programs' /\ todo' \in [Threads -> Seq(Statements)]
<1>0. PICK p \in Tasks(t) : \E n \in 1..Len(p) : Tail(todo[t]) = Rest(p, n + 1)
  BY AtStatement
<1>1. PICK n \in 1..Len(p) : Tail(todo[t]) = Rest(p, n + 1)
  BY <1>0
<1>2. Len(p) \in Nat
  BY TasksOf, BodiesTyped
<1>3. n + 1 \in 1..Len(p) + 1
  BY <1>2
<1>4. todo' = [todo EXCEPT ![t] = Tail(todo[t])]
  BY DEF Go
<1> QED BY <1>1, <1>3, <1>4, ProgramsKept

LEMMA ReturnKeepsPrograms ==
  ASSUME Programs, todo \in [Threads -> Seq(Statements)], NEW t \in Threads, Return(t)
  PROVE  Programs' /\ todo' \in [Threads -> Seq(Statements)]
<1>1. PICK p \in Tasks(t) : TRUE
  BY DEF Programs
<1>2. p \in Seq(Statements) /\ Len(p) \in Nat
  BY TasksOf, BodiesTyped
<1>3. Rest(p, Len(p) + 1) = <<>> /\ Len(p) + 1 \in 1..Len(p) + 1
  BY <1>2, WholeAndNone
<1> QED BY <1>3, ProgramsKept DEF Return

LEMMA CallKeepsPrograms ==
  ASSUME Programs, todo \in [Threads -> Seq(Statements)], NEW t \in Threads,
         NEW p \in Tasks(t), Call(t, p)
  PROVE  Programs' /\ todo' \in [Threads -> Seq(Statements)]
<1>1. p \in Seq(Statements) /\ Len(p) \in Nat
  BY TasksOf, BodiesTyped
<1>2. Rest(p, 1) = p /\ 1 \in 1..Len(p) + 1
  BY <1>1, WholeAndNone
<1> QED BY <1>2, ProgramsKept DEF Call

-----------------------------------------------------------------------------
(* Where a thread is.  What is left of a program says which it is and how    *)
(* far it has come.                                                          *)

\* The work left by place.
LEMMA Places ==
  ASSUME NEW p \in Bodies
  PROVE  /\ Rest(p, 1) = p /\ Rest(p, Len(p) + 1) = <<>>
         /\ \A n \in 1..Len(p) : /\ Rest(p, n) # <<>> /\ Head(Rest(p, n)) = p[n]
                                 /\ Tail(Rest(p, n)) = Rest(p, n + 1)
         /\ \A n \in 1..Len(p) + 1 : Len(Rest(p, n)) = Len(p) + 1 - n
BY BodiesTyped, Remainder, WholeAndNone DEF Rest

LEMMA AreBodies ==
  /\ answer \in Bodies /\ stop \in Bodies /\ checkInactivity \in Bodies /\ run \in Bodies
  /\ \A a \in Alarms : Schedule(a) \in Bodies
BY DEF Bodies, Alarms

\* The same, program by program.
LEMMA EachPlace ==
  /\ Rest(answer, 1) = answer /\ Rest(answer, 6) = <<>>
  /\ \A n \in 1..5 : Rest(answer, n) # <<>> /\ Head(Rest(answer, n)) = answer[n]
  /\ Rest(stop, 1) = stop /\ Rest(stop, 6) = <<>>
  /\ \A n \in 1..5 : Rest(stop, n) # <<>> /\ Head(Rest(stop, n)) = stop[n]
  /\ Rest(checkInactivity, 1) = checkInactivity /\ Rest(checkInactivity, 6) = <<>>
  /\ \A n \in 1..5 : /\ Rest(checkInactivity, n) # <<>>
                     /\ Head(Rest(checkInactivity, n)) = checkInactivity[n]
  /\ Rest(run, 1) = run /\ Rest(run, 3) = <<>>
  /\ \A n \in 1..2 : Rest(run, n) # <<>> /\ Head(Rest(run, n)) = run[n]
  /\ \A a \in Alarms : /\ Rest(Schedule(a), 1) = Schedule(a) /\ Rest(Schedule(a), 2) = <<>>
                       /\ Schedule(a) # <<>> /\ Head(Schedule(a)) = <<"schedule", a>>
<1>1. /\ Len(answer) = 5 /\ Len(stop) = 5 /\ Len(checkInactivity) = 5 /\ Len(run) = 2
      /\ \A a \in Alarms : Len(Schedule(a)) = 1 /\ Schedule(a)[1] = <<"schedule", a>>
  BY Listing
<1>2. /\ Rest(answer, 1) = answer /\ Rest(answer, Len(answer) + 1) = <<>>
      /\ \A n \in 1..Len(answer) : Rest(answer, n) # <<>> /\ Head(Rest(answer, n)) = answer[n]
  BY AreBodies, Places
<1>3. /\ Rest(stop, 1) = stop /\ Rest(stop, Len(stop) + 1) = <<>>
      /\ \A n \in 1..Len(stop) : Rest(stop, n) # <<>> /\ Head(Rest(stop, n)) = stop[n]
  BY AreBodies, Places
<1>4. /\ Rest(checkInactivity, 1) = checkInactivity
      /\ Rest(checkInactivity, Len(checkInactivity) + 1) = <<>>
      /\ \A n \in 1..Len(checkInactivity) :
           /\ Rest(checkInactivity, n) # <<>>
           /\ Head(Rest(checkInactivity, n)) = checkInactivity[n]
  BY AreBodies, Places
<1>5. /\ Rest(run, 1) = run /\ Rest(run, Len(run) + 1) = <<>>
      /\ \A n \in 1..Len(run) : Rest(run, n) # <<>> /\ Head(Rest(run, n)) = run[n]
  BY AreBodies, Places
<1>6. ASSUME NEW a \in Alarms
      PROVE  /\ Rest(Schedule(a), 1) = Schedule(a) /\ Rest(Schedule(a), Len(Schedule(a)) + 1) = <<>>
             /\ \A n \in 1..Len(Schedule(a)) :
                  Rest(Schedule(a), n) # <<>> /\ Head(Rest(Schedule(a), n)) = Schedule(a)[n]
  <2>1. Schedule(a) \in Bodies
    BY AreBodies
  <2> HIDE DEF Schedule
  <2> QED BY <2>1, Places
<1>7. \A a \in Alarms : /\ Rest(Schedule(a), 1) = Schedule(a) /\ Rest(Schedule(a), 2) = <<>>
                       /\ Schedule(a) # <<>> /\ Head(Schedule(a)) = <<"schedule", a>>
  <2> SUFFICES ASSUME NEW a \in Alarms
               PROVE  /\ Rest(Schedule(a), 1) = Schedule(a) /\ Rest(Schedule(a), 2) = <<>>
                      /\ Schedule(a) # <<>> /\ Head(Schedule(a)) = <<"schedule", a>>
    OBVIOUS
  <2>1. Len(Schedule(a)) = 1 /\ Schedule(a)[1] = <<"schedule", a>>
    BY <1>1
  <2> QED BY <1>6, <2>1
<1>8. /\ 5 + 1 = 6 /\ 2 + 1 = 3
  OBVIOUS
<1>9. /\ Rest(answer, 6) = <<>> /\ Rest(stop, 6) = <<>> /\ Rest(checkInactivity, 6) = <<>>
      /\ Rest(run, 3) = <<>>
  BY <1>1, <1>2, <1>3, <1>4, <1>5, <1>8, Zenon
<1> QED BY <1>1, <1>2, <1>3, <1>4, <1>5, <1>7, <1>9, Zenon

\* Different places have different work left.
LEMMA PlacesDiffer ==
  /\ \A n, m \in 1..6 : Rest(answer, n) = Rest(answer, m) => n = m
  /\ \A n, m \in 1..6 : Rest(stop, n) = Rest(stop, m) => n = m
  /\ \A n, m \in 1..6 : Rest(checkInactivity, n) = Rest(checkInactivity, m) => n = m
  /\ \A n, m \in 1..5 : Rest(answer, n) # Rest(stop, m)
  /\ \A n \in 1..2, m \in 1..5 : Rest(run, n) # Rest(stop, m)
  /\ \A a \in Alarms, m \in 1..5 : Schedule(a) # Rest(stop, m)
  /\ \A a, b \in Alarms : Schedule(a) = Schedule(b) => a = b
<1>1. ASSUME NEW p \in {answer, stop, checkInactivity}
      PROVE  \A n \in 1..6 : Len(Rest(p, n)) = 6 - n
  <2>1. Len(p) = 5 /\ p \in Bodies
    BY Listing, AreBodies
  <2>2. \A n \in 1..Len(p) + 1 : Len(Rest(p, n)) = Len(p) + 1 - n
    BY <2>1, Places
  <2> QED BY <2>1, <2>2
<1>2. /\ \A n \in 1..6 : Len(Rest(answer, n)) = 6 - n
      /\ \A n \in 1..6 : Len(Rest(stop, n)) = 6 - n
      /\ \A n \in 1..6 : Len(Rest(checkInactivity, n)) = 6 - n
  BY <1>1
<1>3. ASSUME NEW p \in {answer, stop, checkInactivity}, NEW n \in 1..6, NEW m \in 1..6,
             Rest(p, n) = Rest(p, m)
      PROVE  n = m
  <2>1. Len(Rest(p, n)) = 6 - n /\ Len(Rest(p, m)) = 6 - m
    BY <1>1
  <2>2. 6 - n = 6 - m
    BY <1>3, <2>1, Zenon
  <2> QED BY <2>2
<1>4. \A n, m \in 1..5 : Rest(answer, n) # Rest(stop, m)
  <2> SUFFICES ASSUME NEW n \in 1..5, NEW m \in 1..5, Rest(answer, n) = Rest(stop, m)
               PROVE  FALSE
    OBVIOUS
  <2>0. 6 - n = 6 - m
    <3>1. n \in 1..6 /\ m \in 1..6
      OBVIOUS
    <3> QED BY <1>2, <3>1, Zenon
  <2>1. n = m
    BY <2>0
  <2>2. answer[n] = stop[n]
    BY <2>1, EachPlace
  <2>3. n = 2
    BY <2>2, Listing
  <2>4. Rest(answer, 3) = Rest(stop, 3)
    <3>1. Len(answer) = 5 /\ Len(stop) = 5 /\ answer \in Bodies /\ stop \in Bodies
      BY Listing, AreBodies
    <3>2. \A k \in 1..Len(answer) : Tail(Rest(answer, k)) = Rest(answer, k + 1)
      BY <3>1, Places
    <3>3. \A k \in 1..Len(stop) : Tail(Rest(stop, k)) = Rest(stop, k + 1)
      BY <3>1, Places
    <3>4. 2 \in 1..5 /\ 2 + 1 = 3
      OBVIOUS
    <3> QED BY <2>1, <2>3, <3>1, <3>2, <3>3, <3>4, Zenon
  <2> QED BY <2>4, EachPlace, Listing
<1>5. \A n \in 1..2, m \in 1..5 : Rest(run, n) # Rest(stop, m)
  BY EachPlace, Listing
<1>6. \A a \in Alarms, m \in 1..5 : Schedule(a) # Rest(stop, m)
  BY EachPlace, Listing
<1>7. \A a, b \in Alarms : Schedule(a) = Schedule(b) => a = b
  BY EachPlace
<1> QED BY <1>3, <1>4, <1>5, <1>6, <1>7, Zenon

-----------------------------------------------------------------------------
(* The steps, by place. *)

\* The thread executes the n-th statement of p.
Statement(t, p, n) ==
  /\ todo[t] = Rest(p, n)
  /\ fields' = After(p[n], fields)
  /\ todo' = [todo EXCEPT ![t] = Rest(p, n + 1)]

\* What Execute executes.
LEMMA Executes ==
  ASSUME Programs, NEW t \in Threads, Execute(t)
  PROVE  \/ t = Receiver /\ \E n \in 1..5 : Statement(t, answer, n)
         \/ t \notin Checks /\ \E n \in 2..5 : Statement(t, stop, n)
         \/ t \in Checks /\ \E n \in 2..5 : Statement(t, checkInactivity, n)
         \/ t = Main /\ \E a \in Alarms : Statement(t, Schedule(a), 1)
<1>0. /\ ~Idle(t) /\ fields' = After(Head(todo[t]), fields)
      /\ todo' = [todo EXCEPT ![t] = Tail(todo[t])]
      /\ Head(todo[t])[1] \notin {"test", "count"} /\ Head(todo[t]) # <<"clear", "isRunning">>
  BY DEF Execute, Go
<1>1. PICK p \in Tasks(t) : \E n \in 1..Len(p) :
        /\ todo[t] = Rest(p, n) /\ Head(todo[t]) = p[n] /\ Tail(todo[t]) = Rest(p, n + 1)
  BY <1>0, AtStatement
<1>2. PICK n \in 1..Len(p) :
        /\ todo[t] = Rest(p, n) /\ Head(todo[t]) = p[n] /\ Tail(todo[t]) = Rest(p, n + 1)
  BY <1>1
<1>3. Statement(t, p, n) /\ p[n][1] \notin {"test", "count"} /\ p[n] # <<"clear", "isRunning">>
  BY <1>0, <1>2 DEF Statement
<1>4. p = answer => t = Receiver
  <2>1. answer # stop /\ answer # checkInactivity /\ answer # run /\ \A a \in Alarms : answer # Schedule(a)
    BY Listing
  <2>2. "heartbeat" \in Alarms /\ "inactivity" \in Alarms
    BY DEF Alarms
  <2> QED BY <2>1, <2>2, TasksOf, ThreadsDiffer DEF Threads
<1>5. p = stop => t \notin Checks
  <2>1. stop # checkInactivity
    BY Listing
  <2> QED BY <2>1, TasksOf
<1>6. p = checkInactivity => t \in Checks
  <2>1. /\ checkInactivity # stop /\ checkInactivity # answer /\ checkInactivity # run
        /\ \A a \in Alarms : checkInactivity # Schedule(a)
    BY Listing
  <2>2. "heartbeat" \in Alarms /\ "inactivity" \in Alarms
    BY DEF Alarms
  <2> QED BY <2>1, <2>2, TasksOf, ThreadsDiffer DEF Threads
<1>7. \A a \in Alarms : p = Schedule(a) => t = Main
  <2>1. \A a \in Alarms : /\ Schedule(a) # stop /\ Schedule(a) # answer /\ Schedule(a) # run
                         /\ Schedule(a) # checkInactivity
    BY Listing
  <2> QED BY <2>1, TasksOf, ThreadsDiffer DEF Threads
<1>8. p \in Bodies
  BY TasksOf
<1>9. CASE p = answer
  BY <1>2, <1>3, <1>4, <1>9, Listing
<1>10. CASE p = stop
  <2>1. n \in 1..5 /\ n # 1
    BY <1>2, <1>3, <1>10, Listing
  <2>2. n \in 2..5
    BY <2>1
  <2> QED BY <1>3, <1>5, <1>10, <2>2
<1>11. CASE p = checkInactivity
  <2>1. n \in 1..5 /\ n # 1
    BY <1>2, <1>3, <1>11, Listing
  <2>2. n \in 2..5
    BY <2>1
  <2> QED BY <1>3, <1>6, <1>11, <2>2
<1>12. CASE p = run
  BY <1>2, <1>3, <1>12, Listing
<1>13. CASE \E a \in Alarms : p = Schedule(a)
  <2>1. PICK a \in Alarms : p = Schedule(a)
    BY <1>13
  <2>2. Len(p) = 1
    BY <2>1, Listing
  <2>3. n = 1
    BY <2>2
  <2> QED BY <1>3, <1>7, <2>1, <2>3
<1> QED BY <1>8, <1>9, <1>10, <1>11, <1>12, <1>13 DEF Bodies, Alarms

\* Where the other statements are executed.
LEMMA AtFirst ==
  ASSUME Programs, NEW t \in Threads
  PROVE  /\ Does(t, <<"clear", "isRunning">>) => t \notin Checks /\ todo[t] = Rest(stop, 1)
         /\ Does(t, <<"test", "inactivity">>) =>
              t \in Checks /\ todo[t] = Rest(checkInactivity, 1)
         /\ Does(t, <<"test", "handshake">>) => t \in TimerThreads /\ todo[t] = Rest(run, 1)
         /\ Does(t, <<"count", "handshake">>) => t \in TimerThreads /\ todo[t] = Rest(run, 2)
<1> SUFFICES ASSUME ~Idle(t)
             PROVE  /\ Head(todo[t]) = <<"clear", "isRunning">> =>
                         t \notin Checks /\ todo[t] = Rest(stop, 1)
                    /\ Head(todo[t]) = <<"test", "inactivity">> =>
                         t \in Checks /\ todo[t] = Rest(checkInactivity, 1)
                    /\ Head(todo[t]) = <<"test", "handshake">> =>
                         t \in TimerThreads /\ todo[t] = Rest(run, 1)
                    /\ Head(todo[t]) = <<"count", "handshake">> =>
                         t \in TimerThreads /\ todo[t] = Rest(run, 2)
  BY DEF Does
<1>1. PICK p \in Tasks(t) : \E n \in 1..Len(p) :
        /\ todo[t] = Rest(p, n) /\ Head(todo[t]) = p[n] /\ Tail(todo[t]) = Rest(p, n + 1)
  BY AtStatement
<1>2. PICK n \in 1..Len(p) : todo[t] = Rest(p, n) /\ Head(todo[t]) = p[n]
  BY <1>1
<1>3. p \in Bodies
  BY TasksOf
<1>4. CASE p = answer
  BY <1>2, <1>4, Listing
<1>5. CASE p = stop
  <2>1. t \notin Checks
    <3>1. stop # checkInactivity
      BY Listing
    <3> QED BY <1>5, <3>1, TasksOf
  <2> QED BY <1>2, <1>5, <2>1, Listing
<1>6. CASE p = checkInactivity
  <2>1. t \in Checks
    <3>1. /\ checkInactivity # stop /\ checkInactivity # answer /\ checkInactivity # run
          /\ \A a \in Alarms : checkInactivity # Schedule(a)
      BY Listing
    <3>2. "heartbeat" \in Alarms /\ "inactivity" \in Alarms
      BY DEF Alarms
    <3> QED BY <1>6, <3>1, <3>2, TasksOf, ThreadsDiffer DEF Threads
  <2> QED BY <1>2, <1>6, <2>1, Listing
<1>7. CASE p = run
  <2>1. t \in TimerThreads
    <3>1. /\ run # stop /\ run # answer /\ run # checkInactivity
          /\ \A a \in Alarms : run # Schedule(a)
      BY Listing
    <3>2. "heartbeat" \in Alarms /\ "inactivity" \in Alarms
      BY DEF Alarms
    <3> QED BY <1>7, <3>1, <3>2, TasksOf, ThreadsDiffer DEF Threads
  <2> QED BY <1>2, <1>7, <2>1, Listing
<1>8. CASE \E a \in Alarms : p = Schedule(a)
  <2>1. PICK a \in Alarms : p = Schedule(a)
    BY <1>8
  <2>2. Len(p) = 1 /\ p[1] = <<"schedule", a>>
    BY <2>1, Listing
  <2>3. n = 1
    BY <2>2
  <2> QED BY <1>2, <2>2, <2>3
<1> QED BY <1>3, <1>4, <1>5, <1>6, <1>7, <1>8 DEF Bodies, Alarms

\* A check that passed its test is in the rest of its program.
LEMMA ReconnectingAt ==
  ASSUME Programs, NEW t \in Checks
  PROVE  Reconnecting(t) <=> \E n \in 2..5 : todo[t] = Rest(checkInactivity, n)
<1>1. PICK n \in 1..Len(checkInactivity) + 1 : todo[t] = Rest(checkInactivity, n)
  BY TasksOf, ThreadsDiffer DEF Programs
<1>2. n \in 1..6
  BY <1>1, Listing
<1>3. CASE n \in 2..5
  BY <1>1, <1>3, EachPlace, Listing DEF Reconnecting, Idle
<1>4. CASE n = 1
  BY <1>1, <1>4, EachPlace, Listing DEF Reconnecting, Idle
<1>5. CASE n = 6
  BY <1>1, <1>5, EachPlace DEF Reconnecting, Idle
<1> QED BY <1>2, <1>3, <1>4, <1>5

-----------------------------------------------------------------------------
(* What the statements do. *)

Shape ==
  [isRunning : BOOLEAN, socket : BOOLEAN, newServerPort : {0, 1},
   lastReceivedTime : {"never", "recent", "old"}, handshakeTimer : 0..MaxTimers,
   timers : Timers, live : SUBSET Timers, retryCount : [Timers -> 0..MaxRetries - 1],
   alarms : [Alarms -> {"off", "set", "fired"}]]

LEMMA Effects ==
  ASSUME NEW f
  PROVE  /\ After(<<"set", "port">>, f) = [f EXCEPT !.newServerPort = 1]
         /\ After(<<"clear", "port">>, f) = [f EXCEPT !.newServerPort = 0]
         /\ After(<<"set", "received">>, f) = [f EXCEPT !.lastReceivedTime = "recent"]
         /\ After(<<"close", "socket">>, f) = [f EXCEPT !.socket = FALSE]
         /\ After(<<"stop", "handshake">>, f) =
              [f EXCEPT !.live = @ \ {f.handshakeTimer}, !.handshakeTimer = 0]
         /\ After(<<"start", "handshake">>, f) =
              [f EXCEPT !.timers = @ + 1, !.handshakeTimer = f.timers + 1,
                        !.live = @ \cup {f.timers + 1}]
         /\ \A a \in Alarms :
              /\ After(<<"start", a>>, f) = [f EXCEPT !.alarms[a] = "set"]
              /\ After(<<"stop", a>>, f) = [f EXCEPT !.alarms[a] = "off"]
              /\ f.alarms[a] = "off" =>
                   After(<<"schedule", a>>, f) = [f EXCEPT !.alarms[a] = "off"]
              /\ f.alarms[a] # "off" =>
                   After(<<"schedule", a>>, f) = [f EXCEPT !.alarms[a] = "set"]
BY DEF After, FieldAfter, HandshakeAfter, AlarmAfter, Alarms

-----------------------------------------------------------------------------
(* Types.  A new timer is the next number; that there is one left is what    *)
(* each check that passed its test keeps for itself.                         *)

Numbered(f) == f \in Shape /\ \A i \in f.live \cup {f.handshakeTimer} : i <= f.timers

Reconnected == {t \in Checks : Reconnecting(t)}

TimersBounded == fields.timers + Cardinality(Reconnected) <= MaxTimers

TypeInv == TypeOK /\ Programs /\ TimersBounded

LEMMA TypeOKParts ==
  TypeOK <=> Numbered(fields) /\ todo \in [Threads -> Seq(Statements)] /\ overlapped \in BOOLEAN
BY DEF TypeOK, Numbered, Shape

\* No statement but the start of a handshake takes a timer.
LEMMA EffectTyped ==
  ASSUME NEW f, Numbered(f), NEW step,
         \/ step \in {<<"set", "port">>, <<"clear", "port">>, <<"set", "received">>,
                      <<"close", "socket">>, <<"stop", "handshake">>}
         \/ \E a \in Alarms : step \in {<<"start", a>>, <<"stop", a>>, <<"schedule", a>>}
  PROVE  Numbered(After(step, f)) /\ After(step, f).timers = f.timers
<1> DEFINE g == After(step, f)
<1>0. MaxTimers \in Nat \ {0}
  BY AndroidAssumption
<1>1. CASE step = <<"set", "port">>
  <2>1. g = [f EXCEPT !.newServerPort = 1]
    BY <1>1, Effects
  <2> QED BY <2>1 DEF Numbered, Shape
<1>2. CASE step = <<"clear", "port">>
  <2>1. g = [f EXCEPT !.newServerPort = 0]
    BY <1>2, Effects
  <2> QED BY <2>1 DEF Numbered, Shape
<1>3. CASE step = <<"set", "received">>
  <2>1. g = [f EXCEPT !.lastReceivedTime = "recent"]
    BY <1>3, Effects
  <2> QED BY <2>1 DEF Numbered, Shape
<1>4. CASE step = <<"close", "socket">>
  <2>1. g = [f EXCEPT !.socket = FALSE]
    BY <1>4, Effects
  <2> QED BY <2>1 DEF Numbered, Shape
<1>5. CASE step = <<"stop", "handshake">>
  <2>1. g = [f EXCEPT !.live = @ \ {f.handshakeTimer}, !.handshakeTimer = 0]
    BY <1>5, Effects
  <2>2. /\ f.live \subseteq Timers /\ f.live \ {f.handshakeTimer} \in SUBSET Timers
        /\ f.timers \in 1..MaxTimers /\ 0 \in 0..MaxTimers
    BY <1>0 DEF Numbered, Shape, Timers
  <2>3. g \in Shape
    BY <2>1, <2>2 DEF Numbered, Shape
  <2>4. g.live = f.live \ {f.handshakeTimer} /\ g.handshakeTimer = 0 /\ g.timers = f.timers
    BY <2>1 DEF Numbered, Shape
  <2>5. \A i \in g.live \cup {g.handshakeTimer} : i <= g.timers
    BY <2>2, <2>4 DEF Numbered
  <2> QED BY <2>3, <2>4, <2>5 DEF Numbered
<1>6. ASSUME NEW a \in Alarms, step \in {<<"start", a>>, <<"stop", a>>, <<"schedule", a>>}
      PROVE  Numbered(g) /\ g.timers = f.timers
  <2>1. PICK v \in {"off", "set"} : g = [f EXCEPT !.alarms[a] = v]
    <3>1. CASE step = <<"start", a>>
      <4>1. g = [f EXCEPT !.alarms[a] = "set"]
        BY <3>1, Effects
      <4> HIDE DEF g
      <4> QED BY <4>1
    <3>2. CASE step = <<"stop", a>>
      <4>1. g = [f EXCEPT !.alarms[a] = "off"]
        BY <3>2, Effects
      <4> HIDE DEF g
      <4> QED BY <4>1
    <3>3. CASE step = <<"schedule", a>>
      <4>1. g = [f EXCEPT !.alarms[a] = "off"] \/ g = [f EXCEPT !.alarms[a] = "set"]
        BY <3>3, Effects
      <4> HIDE DEF g
      <4> QED BY <4>1
    <3> QED BY <1>6, <3>1, <3>2, <3>3
  <2>2. [f.alarms EXCEPT ![a] = v] \in [Alarms -> {"off", "set", "fired"}]
    BY DEF Numbered, Shape
  <2>3. g = [f EXCEPT !.alarms = [f.alarms EXCEPT ![a] = v]]
    BY <2>1
  <2> QED BY <2>2, <2>3 DEF Numbered, Shape
<1> QED BY <1>1, <1>2, <1>3, <1>4, <1>5, <1>6

\* The start of a handshake takes the next timer.
LEMMA StartTyped ==
  ASSUME NEW f, Numbered(f), f.timers < MaxTimers
  PROVE  /\ Numbered(After(<<"start", "handshake">>, f))
         /\ After(<<"start", "handshake">>, f).timers = f.timers + 1
<1> DEFINE g == After(<<"start", "handshake">>, f)
<1>1. g = [f EXCEPT !.timers = @ + 1, !.handshakeTimer = f.timers + 1,
                    !.live = @ \cup {f.timers + 1}]
  BY Effects
<1>2. f.timers + 1 \in Timers /\ f.timers + 1 \in 0..MaxTimers /\ f.timers \in Nat
  BY AndroidAssumption DEF Numbered, Shape, Timers
<1> HIDE DEF g
<1>3. g \in Shape
  BY <1>1, <1>2 DEF Numbered, Shape
<1>4. /\ g.timers = f.timers + 1 /\ g.handshakeTimer = f.timers + 1
      /\ g.live = f.live \cup {f.timers + 1}
  BY <1>1 DEF Numbered, Shape
<1>5. \A i \in f.live : i \in Nat /\ i <= f.timers
  BY DEF Numbered, Shape, Timers
<1>6. \A i \in g.live \cup {g.handshakeTimer} : i <= g.timers
  BY <1>2, <1>4, <1>5
<1> QED BY <1>3, <1>4, <1>6 DEF Numbered, g

\* The checks are finitely many.
LEMMA ChecksFinite ==
  /\ IsFiniteSet(Reconnected) /\ Cardinality(Reconnected) \in Nat
  /\ IsFiniteSet(Reconnected') /\ Cardinality(Reconnected') \in Nat
<1>1. IsFiniteSet(1..MaxChecks)
  BY AndroidAssumption, FS_Interval
<1>2. IsFiniteSet(Checks)
  <2> DEFINE h == [i \in 1..MaxChecks |-> <<"check", i>>]
  <2>1. \A t \in Checks : \E i \in 1..MaxChecks : h[i] = t
    BY DEF Checks
  <2>2. h \in Surjection(1..MaxChecks, Checks)
    BY <2>1 DEF Checks, Surjection
  <2> HIDE DEF h
  <2> QED BY <1>1, <2>2, FS_Surjection
<1> QED BY <1>2, FS_Subset, FS_CardinalityType DEF Reconnected

\* Only a step of a check changes who reconnects.
LEMMA SameReconnected ==
  ASSUME \A t \in Checks : todo'[t] = todo[t]
  PROVE  Reconnected' = Reconnected
BY DEF Reconnected, Reconnecting, Idle

\* The history variable is one of two values.
LEMMA NoteTyped == ASSUME Note PROVE overlapped' \in BOOLEAN
BY DEF Note, Overlapping

\* A check is reconnecting from the second statement to the last.
LEMMA ReconnectsFrom ==
  ASSUME NEW n \in 1..6
  PROVE  Rest(checkInactivity, n) # <<>> /\ Head(Rest(checkInactivity, n)) # <<"test", "inactivity">>
           <=> n \in 2..5
<1>1. CASE n = 1
  BY <1>1, EachPlace, Listing
<1>2. CASE n = 6
  BY <1>2, EachPlace
<1>3. CASE n \in 2..5
  BY <1>3, EachPlace, Listing
<1> QED BY <1>1, <1>2, <1>3

\* When no timer is taken and no check comes or goes, enough are left.
LEMMA TimersKept ==
  ASSUME TimersBounded, fields'.timers = fields.timers, Reconnected' = Reconnected
  PROVE  TimersBounded'
BY DEF TimersBounded

LEMMA ExecuteTyped ==
  ASSUME TypeInv, NEW t \in Threads, Execute(t), Note
  PROVE  TypeInv'
<1>1. Programs' /\ todo' \in [Threads -> Seq(Statements)]
  BY GoKeepsPrograms, TypeOKParts DEF Execute, TypeInv
<1>2. overlapped' \in BOOLEAN
  BY NoteTyped
<1>3. Numbered(fields) /\ TimersBounded /\ Programs /\ todo \in [Threads -> Seq(Statements)]
  BY TypeOKParts DEF TypeInv
<1>4. SUFFICES Numbered(fields') /\ TimersBounded'
  BY <1>1, <1>2 DEF TypeInv, TypeOK, Numbered, Shape
<1>5. ASSUME t \notin Checks, NEW step,
             \/ step \in {<<"set", "port">>, <<"clear", "port">>, <<"set", "received">>,
                          <<"close", "socket">>, <<"stop", "handshake">>}
             \/ \E a \in Alarms : step \in {<<"start", a>>, <<"stop", a>>, <<"schedule", a>>},
             fields' = After(step, fields)
      PROVE  Numbered(fields') /\ TimersBounded'
  <2>1. Numbered(fields') /\ fields'.timers = fields.timers
    BY <1>3, <1>5, EffectTyped
  <2>2. \A u \in Checks : todo'[u] = todo[u]
    BY <1>3, <1>5, ThreadsDiffer DEF Execute, Go
  <2> QED BY <1>3, <2>1, <2>2, SameReconnected, TimersKept
<1>0. "heartbeat" \in Alarms /\ "inactivity" \in Alarms
  BY DEF Alarms
<1>6. CASE t = Receiver /\ \E n \in 1..5 : Statement(t, answer, n)
  <2>1. PICK n \in 1..5 : Statement(t, answer, n)
    BY <1>6
  <2>2. \/ answer[n] \in {<<"set", "port">>, <<"clear", "port">>, <<"set", "received">>,
                          <<"close", "socket">>, <<"stop", "handshake">>}
        \/ \E a \in Alarms : answer[n] \in {<<"start", a>>, <<"stop", a>>, <<"schedule", a>>}
    <3>1. CASE n = 1
      BY <3>1, Listing
    <3>2. CASE n = 2
      BY <3>2, Listing
    <3>3. CASE n = 3
      <4>1. answer[n] = <<"start", "heartbeat">>
        BY <3>3, Listing
      <4> QED BY <1>0, <4>1
    <3>4. CASE n = 4
      BY <3>4, Listing
    <3>5. CASE n = 5
      <4>1. answer[n] = <<"start", "inactivity">>
        BY <3>5, Listing
      <4> QED BY <1>0, <4>1
    <3> QED BY <3>1, <3>2, <3>3, <3>4, <3>5
  <2> QED BY <1>5, <1>6, <2>1, <2>2, ThreadsDiffer DEF Statement
<1>7. CASE t \notin Checks /\ \E n \in 2..5 : Statement(t, stop, n)
  <2>1. PICK n \in 2..5 : Statement(t, stop, n)
    BY <1>7
  <2>2. \/ stop[n] \in {<<"set", "port">>, <<"clear", "port">>, <<"set", "received">>,
                        <<"close", "socket">>, <<"stop", "handshake">>}
        \/ \E a \in Alarms : stop[n] \in {<<"start", a>>, <<"stop", a>>, <<"schedule", a>>}
    <3>2. CASE n = 2
      BY <3>2, Listing
    <3>3. CASE n = 3
      <4>1. stop[n] = <<"stop", "heartbeat">>
        BY <3>3, Listing
      <4> QED BY <1>0, <4>1
    <3>4. CASE n = 4
      <4>1. stop[n] = <<"stop", "inactivity">>
        BY <3>4, Listing
      <4> QED BY <1>0, <4>1
    <3>5. CASE n = 5
      BY <3>5, Listing
    <3> QED BY <3>2, <3>3, <3>4, <3>5
  <2> QED BY <1>5, <1>7, <2>1, <2>2 DEF Statement
<1>8. CASE t = Main /\ \E a \in Alarms : Statement(t, Schedule(a), 1)
  <2>1. PICK a \in Alarms : Statement(t, Schedule(a), 1)
    BY <1>8
  <2>2. \E b \in Alarms : Schedule(a)[1] \in {<<"start", b>>, <<"stop", b>>, <<"schedule", b>>}
    BY <2>1, Listing
  <2> QED BY <1>5, <1>8, <2>1, <2>2, ThreadsDiffer DEF Statement
<1>9. CASE t \in Checks /\ \E n \in 2..5 : Statement(t, checkInactivity, n)
  <2>1. PICK n \in 2..5 : Statement(t, checkInactivity, n)
    BY <1>9
  <2>2. /\ todo[t] = Rest(checkInactivity, n) /\ todo'[t] = Rest(checkInactivity, n + 1)
        /\ \A u \in Checks \ {t} : todo'[u] = todo[u]
        /\ fields' = After(checkInactivity[n], fields)
    BY <1>3, <2>1, ThreadsDiffer DEF Statement
  <2>3. /\ Reconnecting(t) /\ (Reconnecting(t)' <=> n # 5)
        /\ \A u \in Checks \ {t} : Reconnecting(u)' <=> Reconnecting(u)
    <3>1. n \in 1..6 /\ n + 1 \in 1..6 /\ (n + 1 \in 2..5 <=> n # 5)
      OBVIOUS
    <3> QED BY <2>2, <3>1, ReconnectsFrom DEF Reconnecting, Idle
  <2>4. CASE n # 5
    <3>1. \/ checkInactivity[n] = <<"clear", "port">>
          \/ \E a \in Alarms : checkInactivity[n] = <<"stop", a>>
      BY <1>0, <2>4, Listing
    <3>2. Numbered(fields') /\ fields'.timers = fields.timers
      BY <1>3, <2>2, <3>1, EffectTyped
    <3>3. Reconnected' = Reconnected
      BY <2>3, <2>4 DEF Reconnected
    <3> QED BY <1>3, <3>2, <3>3, TimersKept
  <2>5. CASE n = 5
    <3>1. fields' = After(<<"start", "handshake">>, fields)
      BY <2>2, <2>5, Listing
    <3>2. t \in Reconnected /\ Reconnected' = Reconnected \ {t}
      BY <1>9, <2>3, <2>5 DEF Reconnected
    <3>3. Cardinality(Reconnected') = Cardinality(Reconnected) - 1
      BY <3>2, ChecksFinite, FS_RemoveElement
    <3>4. fields.timers \in Nat /\ MaxTimers \in Nat
      BY <1>3, AndroidAssumption DEF Numbered, Shape, Timers
    <3>5. fields.timers < MaxTimers
      BY <1>3, <3>3, <3>4, ChecksFinite DEF TimersBounded
    <3>6. Numbered(fields') /\ fields'.timers = fields.timers + 1
      BY <1>3, <3>1, <3>5, StartTyped
    <3> QED BY <1>3, <3>3, <3>4, <3>6, ChecksFinite DEF TimersBounded
  <2> QED BY <2>4, <2>5
<1> QED BY <1>3, <1>6, <1>7, <1>8, <1>9, Executes

\* The other steps take no timer, and only a check's test lets it reconnect.
LEMMA OthersTyped ==
  ASSUME TypeInv, Note, Programs', todo' \in [Threads -> Seq(Statements)],
         Numbered(fields'), fields'.timers = fields.timers,
         \A u \in Checks : todo'[u] # todo[u] => ~Reconnecting(u) /\ ~Reconnecting(u)'
  PROVE  TypeInv'
<1>1. overlapped' \in BOOLEAN
  BY NoteTyped
<1>2. Reconnected' = Reconnected
  BY DEF Reconnected, Reconnecting, Idle
<1>3. TimersBounded'
  BY <1>2, TimersKept DEF TypeInv
<1> QED BY <1>1, <1>3 DEF TypeInv, TypeOK, Numbered, Shape

LEMMA ClearRunningTyped ==
  ASSUME TypeInv, NEW t \in Threads, ClearRunning(t), Note
  PROVE  TypeInv'
<1>1. Numbered(fields) /\ Programs /\ todo \in [Threads -> Seq(Statements)]
  BY TypeOKParts DEF TypeInv
<1>2. Programs' /\ todo' \in [Threads -> Seq(Statements)]
  BY <1>1, GoKeepsPrograms, ReturnKeepsPrograms DEF ClearRunning, Does
<1>3. fields' = [fields EXCEPT !.isRunning = FALSE]
  BY DEF ClearRunning
<1>4. Numbered(fields') /\ fields'.timers = fields.timers
  BY <1>1, <1>3 DEF Numbered, Shape
<1>5. t \notin Checks
  BY <1>1, AtFirst DEF ClearRunning
<1>6. \A u \in Checks : todo'[u] = todo[u]
  BY <1>1, <1>5, ThreadsDiffer DEF ClearRunning, Go, Return
<1> QED BY <1>2, <1>4, <1>6, OthersTyped

\* A check that passes its test leaves a timer for itself.
LEMMA TestInactivityTyped ==
  ASSUME TypeInv, NEW t \in Threads, TestInactivity(t), Note
  PROVE  TypeInv'
<1>1. Numbered(fields) /\ Programs /\ todo \in [Threads -> Seq(Statements)]
  BY TypeOKParts DEF TypeInv
<1>2. Programs' /\ todo' \in [Threads -> Seq(Statements)]
  BY <1>1, GoKeepsPrograms, ReturnKeepsPrograms DEF TestInactivity, Does
<1>3. fields' = fields
  BY DEF TestInactivity
<1>4. t \in Checks /\ ~Reconnecting(t)
  BY <1>1, AtFirst DEF TestInactivity, Does, Reconnecting
<1>5. \A u \in Checks \ {t} : todo'[u] = todo[u]
  BY <1>1, <1>4, ThreadsDiffer DEF TestInactivity, Go, Return
<1>6. CASE Reconnecting(t)'
  <2>1. TimerLeft
    BY <1>1, <1>4, <1>6, ThreadsDiffer DEF TestInactivity, Return, Reconnecting, Idle
  <2>2. Reconnected' = Reconnected \cup {t} /\ t \notin Reconnected
    BY <1>4, <1>5, <1>6 DEF Reconnected, Reconnecting, Idle
  <2>3. Cardinality(Reconnected') = Cardinality(Reconnected) + 1
    BY <2>2, ChecksFinite, FS_AddElement
  <2>4. fields.timers + Cardinality(Reconnected) < MaxTimers
    BY <2>1 DEF TimerLeft, Reconnected
  <2>5. fields.timers \in Nat /\ MaxTimers \in Nat
    BY <1>1, AndroidAssumption DEF Numbered, Shape, Timers
  <2>6. TimersBounded'
    BY <1>3, <2>3, <2>4, <2>5, ChecksFinite DEF TimersBounded
  <2>7. overlapped' \in BOOLEAN
    BY NoteTyped
  <2> QED BY <1>1, <1>2, <1>3, <2>6, <2>7 DEF TypeInv, TypeOK, Numbered, Shape
<1>7. CASE ~Reconnecting(t)'
  BY <1>1, <1>2, <1>3, <1>4, <1>5, <1>7, OthersTyped
<1> QED BY <1>6, <1>7

LEMMA TimerTyped ==
  ASSUME TypeInv, NEW i \in Timers, Note,
         TestHandshake(i) \/ CountRetry(i) \/ TimerFires(i)
  PROVE  TypeInv'
<1> DEFINE t == <<"timer", i>>
<1>1. Numbered(fields) /\ Programs /\ todo \in [Threads -> Seq(Statements)]
  BY TypeOKParts DEF TypeInv
<1>2. t \in TimerThreads /\ t \in Threads /\ t \notin Checks
  BY ThreadsDiffer
<1>3. run \in Tasks(t) /\ stop \in Tasks(t)
  BY <1>2, TasksOf
<1> HIDE DEF t
<1>4. MaxRetries \in Nat \ {0}
  BY AndroidAssumption
<1>5. fields.live \ {i} \in SUBSET Timers
  BY <1>1 DEF Numbered, Shape
<1>6. ASSUME fields' \in {fields, [fields EXCEPT !.live = @ \ {i}]}
      PROVE  Numbered(fields') /\ fields'.timers = fields.timers
  BY <1>1, <1>5, <1>6 DEF Numbered, Shape
<1>7. CASE TestHandshake(i)
  <2>1. ~Idle(t) /\ (Go(t) \/ Return(t)) /\ fields' \in {fields, [fields EXCEPT !.live = @ \ {i}]}
    BY <1>7 DEF TestHandshake, Does, t
  <2>2. Programs' /\ todo' \in [Threads -> Seq(Statements)]
    BY <1>1, <1>2, <2>1, GoKeepsPrograms, ReturnKeepsPrograms
  <2>3. \A u \in Checks : todo'[u] = todo[u]
    BY <1>1, <1>2, <2>1, ThreadsDiffer DEF Go, Return
  <2> QED BY <1>6, <2>1, <2>2, <2>3, OthersTyped
<1>8. CASE CountRetry(i)
  <2>1. /\ ~Idle(t)
        /\ \/ Call(t, stop) /\ fields' = [fields EXCEPT !.live = @ \ {i}]
           \/ Go(t) /\ ~LastRetry(i) /\ fields' = [fields EXCEPT !.retryCount[i] = @ + 1]
    BY <1>8 DEF CountRetry, Does, t
  <2>2. Programs' /\ todo' \in [Threads -> Seq(Statements)]
    BY <1>1, <1>2, <1>3, <2>1, GoKeepsPrograms, CallKeepsPrograms
  <2>3. \A u \in Checks : todo'[u] = todo[u]
    BY <1>1, <1>2, <2>1, ThreadsDiffer DEF Go, Call
  <2>4. Numbered(fields') /\ fields'.timers = fields.timers
    <3>1. CASE Call(t, stop) /\ fields' = [fields EXCEPT !.live = @ \ {i}]
      BY <1>6, <3>1
    <3>2. CASE ~LastRetry(i) /\ fields' = [fields EXCEPT !.retryCount[i] = @ + 1]
      <4>1. fields.retryCount \in [Timers -> 0..MaxRetries - 1]
        BY <1>1 DEF Numbered, Shape
      <4>2. fields.retryCount[i] + 1 \in 0..MaxRetries - 1
        BY <1>4, <3>2, <4>1 DEF LastRetry
      <4>3. [fields.retryCount EXCEPT ![i] = fields.retryCount[i] + 1]
              \in [Timers -> 0..MaxRetries - 1]
        BY <4>1, <4>2
      <4>4. fields' = [fields EXCEPT !.retryCount =
                         [fields.retryCount EXCEPT ![i] = fields.retryCount[i] + 1]]
        BY <3>2
      <4> QED BY <1>1, <4>3, <4>4 DEF Numbered, Shape
    <3> QED BY <2>1, <3>1, <3>2
  <2> QED BY <2>2, <2>3, <2>4, OthersTyped
<1>9. CASE TimerFires(i)
  <2>1. Call(t, run) /\ fields' = fields
    BY <1>9 DEF TimerFires, t
  <2>2. Programs' /\ todo' \in [Threads -> Seq(Statements)]
    BY <1>1, <1>2, <1>3, <2>1, CallKeepsPrograms
  <2>3. \A u \in Checks : todo'[u] = todo[u]
    BY <1>1, <1>2, <2>1, ThreadsDiffer DEF Call
  <2> QED BY <1>6, <2>1, <2>2, <2>3, OthersTyped
<1> QED BY <1>7, <1>8, <1>9

\* An alarm sets the looper, and perhaps a check, to work.
LEMMA AlarmTyped ==
  ASSUME TypeInv, Note, HeartbeatAlarm \/ InactivityAlarm
  PROVE  TypeInv'
<1>1. Numbered(fields) /\ Programs /\ todo \in [Threads -> Seq(Statements)]
  BY TypeOKParts DEF TypeInv
<1>2. /\ Schedule("heartbeat") \in Tasks(Main) /\ Schedule("inactivity") \in Tasks(Main)
      /\ \A u \in Checks : checkInactivity \in Tasks(u)
  BY TasksOf
<1>3. ASSUME NEW a \in Alarms, Fires(a)
      PROVE  Numbered(fields') /\ fields'.timers = fields.timers
  <2>1. fields' = [fields EXCEPT !.alarms = [fields.alarms EXCEPT ![a] = "fired"]]
    BY <1>3 DEF Fires
  <2>2. [fields.alarms EXCEPT ![a] = "fired"] \in [Alarms -> {"off", "set", "fired"}]
    BY <1>1 DEF Numbered, Shape
  <2> QED BY <1>1, <2>1, <2>2 DEF Numbered, Shape
<1>4. Numbered(fields') /\ fields'.timers = fields.timers
  BY <1>3 DEF HeartbeatAlarm, InactivityAlarm, Alarms
<1>5. CASE todo' = todo
  BY <1>1, <1>4, <1>5, OthersTyped DEF Programs
<1>6. CASE HeartbeatAlarm /\ todo' # todo
  <2>1. Call(Main, Schedule("heartbeat"))
    BY <1>6 DEF HeartbeatAlarm, Schedule
  <2>2. Programs' /\ todo' \in [Threads -> Seq(Statements)]
    BY <1>1, <1>2, <2>1, ThreadsDiffer, CallKeepsPrograms
  <2>3. \A u \in Checks : todo'[u] = todo[u]
    BY <1>1, <2>1, ThreadsDiffer DEF Call
  <2> QED BY <1>4, <2>2, <2>3, OthersTyped
<1>7. CASE InactivityAlarm /\ todo' # todo
  <2>1. PICK t \in Checks :
          /\ Idle(t)
          /\ todo' = [todo EXCEPT ![Main] = Schedule("inactivity"), ![t] = checkInactivity]
    BY <1>7 DEF InactivityAlarm, Schedule
  <2>2. /\ todo'[Main] = Schedule("inactivity") /\ todo'[t] = checkInactivity
        /\ \A u \in Threads \ {Main, t} : todo'[u] = todo[u]
        /\ Main # t /\ t \in Threads /\ Main \in Threads
    BY <1>1, <2>1, ThreadsDiffer
  <2>3. "inactivity" \in Alarms
    BY DEF Alarms
  <2>4. /\ Rest(Schedule("inactivity"), 1) = Schedule("inactivity")
        /\ Rest(checkInactivity, 1) = checkInactivity
    BY <2>3, EachPlace
  <2>5. /\ 1 \in 1..Len(Schedule("inactivity")) + 1 /\ 1 \in 1..Len(checkInactivity) + 1
        /\ Schedule("inactivity") \in Seq(Statements) /\ checkInactivity \in Seq(Statements)
    BY <2>3, Listing
  <2>6. Programs'
    BY <1>1, <1>2, <2>2, <2>4, <2>5 DEF Programs
  <2>7. todo' \in [Threads -> Seq(Statements)]
    BY <1>1, <2>1, <2>5
  <2>8. ~Reconnecting(t) /\ ~Reconnecting(t)'
    <3>1. Head(checkInactivity) = <<"test", "inactivity">>
      <4>1. 1 \in 1..6 /\ 1 \notin 2..5 /\ checkInactivity # <<>>
        BY Listing
      <4> QED BY <2>4, <4>1, ReconnectsFrom
    <3> QED BY <2>1, <2>2, <3>1 DEF Reconnecting, Idle
  <2>9. \A u \in Checks \ {t} : todo'[u] = todo[u]
    BY <2>2, ThreadsDiffer
  <2> QED BY <1>4, <2>6, <2>7, <2>8, <2>9, OthersTyped
<1> QED BY <1>5, <1>6, <1>7

\* Answers, packets, silence and a disconnect.
LEMMA EnvironmentTyped ==
  ASSUME TypeInv, Environment
  PROVE  TypeInv'
<1>1. Numbered(fields) /\ Programs /\ todo \in [Threads -> Seq(Statements)] /\ Note
  BY TypeOKParts DEF TypeInv, Environment
<1>2. CASE HandleHandshakeResponse \/ Disconnect
  <2>0. PICK t \in {Receiver, Main} : \E p \in Tasks(t) : Call(t, p)
    BY <1>2, TasksOf DEF HandleHandshakeResponse, Disconnect
  <2>1. PICK p \in Tasks(t) : Call(t, p)
    BY <2>0
  <2>2. Programs' /\ todo' \in [Threads -> Seq(Statements)]
    BY <1>1, <2>1, ThreadsDiffer, CallKeepsPrograms
  <2>3. \A u \in Checks : todo'[u] = todo[u]
    BY <1>1, <2>1, ThreadsDiffer DEF Call
  <2>4. fields' = fields
    BY <1>2 DEF HandleHandshakeResponse, Disconnect
  <2> QED BY <1>1, <2>2, <2>3, <2>4, OthersTyped
<1>3. CASE HandleServerPacket \/ Silence
  <2>1. todo' = todo
    BY <1>3 DEF HandleServerPacket, Silence
  <2>2. \E v \in {"recent", "old"} : fields' = [fields EXCEPT !.lastReceivedTime = v]
    BY <1>3, Effects DEF HandleServerPacket, Silence
  <2>3. Numbered(fields') /\ fields'.timers = fields.timers
    BY <1>1, <2>2 DEF Numbered, Shape
  <2> QED BY <1>1, <2>1, <2>3, OthersTyped DEF Programs
<1> QED BY <1>2, <1>3 DEF Environment

LEMMA InitTyped == Init => TypeInv
<1> SUFFICES ASSUME Init PROVE TypeInv
  OBVIOUS
<1>1. /\ todo = [t \in Threads |-> <<>>] /\ overlapped = FALSE
      /\ fields =
          [isRunning |-> TRUE, socket |-> TRUE, newServerPort |-> 0, lastReceivedTime |-> "never",
           handshakeTimer |-> 1, timers |-> 1, live |-> {1}, retryCount |-> [i \in Timers |-> 0],
           alarms |-> [a \in Alarms |-> "off"]]
  BY DEF Init
<1>2. MaxTimers \in Nat \ {0} /\ MaxRetries \in Nat \ {0}
  BY AndroidAssumption
<1>3. /\ 1 \in Timers /\ 1 \in 0..MaxTimers /\ [a \in Alarms |-> "off"] \in [Alarms -> {"off", "set", "fired"}]
      /\ [i \in Timers |-> 0] \in [Timers -> 0..MaxRetries - 1]
  BY <1>2 DEF Timers
<1>4. Numbered(fields)
  BY <1>1, <1>3 DEF Numbered, Shape
<1>5. todo \in [Threads -> Seq(Statements)]
  BY <1>1
<1>6. Programs
  <2> SUFFICES ASSUME NEW t \in Threads
               PROVE  \E p \in Tasks(t) : \E n \in 1..Len(p) + 1 : todo[t] = Rest(p, n)
    BY DEF Programs
  <2>1. PICK p \in Tasks(t) : TRUE
    BY TasksOf, ThreadsDiffer DEF Threads
  <2>2. p \in Seq(Statements) /\ Len(p) \in Nat
    BY TasksOf, BodiesTyped
  <2>3. Rest(p, Len(p) + 1) = <<>> /\ Len(p) + 1 \in 1..Len(p) + 1
    BY <2>2, WholeAndNone
  <2> QED BY <1>1, <2>3
<1>7. TimersBounded
  <2>1. Reconnected = {}
    BY <1>1, ThreadsDiffer DEF Reconnected, Reconnecting, Idle
  <2>2. Cardinality(Reconnected) = 0
    BY <2>1, FS_EmptySet
  <2> QED BY <1>1, <1>2, <2>2 DEF TimersBounded
<1> QED BY <1>1, <1>4, <1>5, <1>6, <1>7, TypeOKParts DEF TypeInv

LEMMA TypesKept == TypeInv /\ [Next]_vars => TypeInv'
<1> SUFFICES ASSUME TypeInv, [Next]_vars PROVE TypeInv'
  OBVIOUS
<1>1. ASSUME NEW t \in Threads, Work(t) PROVE TypeInv'
  BY <1>1, ExecuteTyped, ClearRunningTyped, TestInactivityTyped, TimerTyped DEF Work, Step
<1>2. CASE AlarmGoesOff
  BY <1>2, AlarmTyped DEF AlarmGoesOff
<1>3. CASE Environment
  BY <1>3, EnvironmentTyped
<1>4. CASE UNCHANGED vars
  <2>1. fields' = fields /\ todo' = todo /\ overlapped' = overlapped
    BY <1>4 DEF vars
  <2> QED BY <2>1 DEF TypeInv, TypeOK, Programs, TimersBounded, Reconnected, Reconnecting, Idle
<1> QED BY <1>1, <1>2, <1>3, <1>4 DEF Next

\* Every variable keeps to its type, and each live timer is one that
\* startHandshake created (MorphUdpClient.kt:205): whatever the threads do in
\* between, each is at a statement of a task of its own.
THEOREM TypeCorrect == Spec => []TypeOK
<1>1. TypeInv => TypeOK
  BY DEF TypeInv
<1> QED BY <1>1, InitTyped, TypesKept, PTL DEF Spec

-----------------------------------------------------------------------------
(* NotStranded.  Between two statements a client may have neither timer nor  *)
(* alarms; then some thread still has the statement to execute that helps.   *)

\* stop() clears isRunning before anything else.
Unstopped ==
  fields.isRunning =>
    \A t \in Threads \ Checks : \A n \in 2..5 : todo[t] # Rest(stop, n)

\* Unless a check overlapped, an answer at work has set the port, and a check
\* has a port to clear until it is about to start the handshake.
InTurn ==
  ~overlapped =>
    /\ ~Overlapping
    /\ \A n \in 2..5 : todo[Receiver] = Rest(answer, n) => fields.newServerPort # 0
    /\ \A t \in Checks : \A n \in 2..5 :
         todo[t] = Rest(checkInactivity, n) => (fields.newServerPort = 0 <=> n = 5)

\* handleHandshakeResponse starts alarm a with this statement.
Starts(a) == IF a = "heartbeat" THEN 3 ELSE 5

\* The alarm is set, or about to be.
Kept(a) ==
  \/ Alarmed(a)
  \/ \E n \in 1..Starts(a) : todo[Receiver] = Rest(answer, n)
  \/ fields.alarms[a] = "fired" /\ todo[Main] = Schedule(a)

\* A client that runs is about to stop, or about to start its handshake, or
\* repeats its handshake, or keeps both alarms.
Alive ==
  fields.isRunning /\ ~overlapped =>
    \/ \E t \in Threads : todo[t] = stop
    \/ \E t \in Checks : Reconnecting(t)
    \/ IF fields.newServerPort = 0 THEN Trying ELSE \A a \in Alarms : Kept(a)

SafeInv == Unstopped /\ InTurn /\ Alive

\* Nobody is left when all threads are idle.
LEMMA SafeInvNotStranded == TypeInv /\ SafeInv => NotStranded
<1> SUFFICES ASSUME TypeInv, SafeInv, Quiescent, fields.isRunning, ~overlapped
             PROVE  IF fields.newServerPort = 0 THEN Trying ELSE \A a \in Alarms : Alarmed(a)
  BY DEF NotStranded
<1>1. \A t \in Threads : todo[t] = <<>>
  BY DEF Quiescent, Idle
<1>2. stop # <<>> /\ \A t \in Checks : ~Reconnecting(t)
  BY <1>1, ThreadsDiffer, Listing DEF Reconnecting, Idle
<1>3. \A a \in Alarms : Kept(a) => Alarmed(a)
  <2>1. /\ \A n \in 1..5 : Rest(answer, n) # <<>>
        /\ \A a \in Alarms : Schedule(a) # <<>> /\ 1..Starts(a) \subseteq 1..5
    BY EachPlace DEF Starts
  <2> QED BY <1>1, <2>1, ThreadsDiffer DEF Kept
<1> QED BY <1>1, <1>2, <1>3 DEF SafeInv, Alive

\* A thread that does not go into the middle of stop() keeps Unstopped.
LEMMA UnstoppedKept ==
  ASSUME Unstopped, fields'.isRunning => fields.isRunning,
         \A t \in Threads \ Checks :
           todo'[t] # todo[t] => \A n \in 2..5 : todo'[t] # Rest(stop, n)
  PROVE  Unstopped'
BY DEF Unstopped

\* A step that leaves the port alone keeps InTurn, if the receiver does not go
\* on in an answer nor a check in a reconnection.
LEMMA InTurnKept ==
  ASSUME InTurn, Note, fields'.newServerPort = fields.newServerPort,
         \A n \in 2..5 : todo'[Receiver] = Rest(answer, n) => todo[Receiver] = Rest(answer, n),
         \A t \in Checks : \A n \in 2..5 :
           todo'[t] = Rest(checkInactivity, n) => todo[t] = Rest(checkInactivity, n)
  PROVE  InTurn'
BY DEF InTurn, Note

\* A step keeps Alive if it takes away none of the reasons for it.
LEMMA AliveKept ==
  ASSUME Alive, Note, fields'.isRunning => fields.isRunning,
         fields'.newServerPort = fields.newServerPort,
         \A t \in Threads : todo[t] = stop => todo'[t] = stop,
         \A t \in Checks : Reconnecting(t) => Reconnecting(t)',
         fields'.isRunning /\ fields.newServerPort = 0 /\ Trying => Trying',
         fields.newServerPort # 0 => \A a \in Alarms : Kept(a) => Kept(a)'
  PROVE  Alive'
BY DEF Alive, Note

\* What reconnects, in terms of places.
LEMMA ReconnectingPlaces ==
  \A t \in Checks : \A n \in 2..5 :
    /\ todo[t] = Rest(checkInactivity, n) => Reconnecting(t)
    /\ todo'[t] = Rest(checkInactivity, n) => Reconnecting(t)'
<1>1. \A n \in 2..5 : n \in 1..6
  OBVIOUS
<1> QED BY <1>1, ReconnectsFrom DEF Reconnecting, Idle

\* isRunning is cleared: the client is not running.
LEMMA ClearRunningSafe ==
  ASSUME TypeInv, SafeInv, NEW t \in Threads, ClearRunning(t), Note
  PROVE  SafeInv'
<1>1. todo \in [Threads -> Seq(Statements)] /\ fields \in Shape /\ Programs
  BY TypeOKParts DEF TypeInv, Numbered
<1>2. fields' = [fields EXCEPT !.isRunning = FALSE]
  BY DEF ClearRunning
<1>3. ~fields'.isRunning /\ fields'.newServerPort = fields.newServerPort
  BY <1>1, <1>2 DEF Shape
<1>4. t \notin Checks /\ todo[t] = Rest(stop, 1)
  BY <1>1, AtFirst DEF ClearRunning
<1>5. /\ todo'[t] \in {Rest(stop, 2), <<>>}
      /\ \A u \in Threads \ {t} : todo'[u] = todo[u]
  <2>1. Tail(Rest(stop, 1)) = Rest(stop, 2)
    <3>1. 1 \in 1..Len(stop) /\ 1 + 1 = 2
      BY Listing
    <3> QED BY <3>1, AreBodies, Places
  <2> QED BY <1>1, <1>4, <2>1 DEF ClearRunning, Go, Return
<1>6. \A n \in 2..5 : todo'[t] # Rest(answer, n)
  BY <1>5, PlacesDiffer, EachPlace
<1>7. InTurn'
  BY <1>3, <1>4, <1>5, <1>6, InTurnKept, ThreadsDiffer DEF SafeInv
<1> QED BY <1>3, <1>7 DEF SafeInv, Unstopped, Alive

\* A check passes its test only with a port, and is then reconnecting.
LEMMA TestInactivitySafe ==
  ASSUME TypeInv, SafeInv, NEW t \in Threads, TestInactivity(t), Note
  PROVE  SafeInv'
<1>1. todo \in [Threads -> Seq(Statements)] /\ fields' = fields /\ Programs
  BY TypeOKParts DEF TypeInv, TestInactivity
<1>2. t \in Checks /\ todo[t] = Rest(checkInactivity, 1) /\ ~Reconnecting(t)
  BY <1>1, AtFirst DEF TestInactivity, Does, Reconnecting
<1>3. /\ \/ todo'[t] = Rest(checkInactivity, 2) /\ fields.newServerPort # 0
         \/ todo'[t] = <<>>
      /\ \A u \in Threads \ {t} : todo'[u] = todo[u]
  <2>1. Tail(Rest(checkInactivity, 1)) = Rest(checkInactivity, 2)
    <3>1. 1 \in 1..Len(checkInactivity) /\ 1 + 1 = 2
      BY Listing
    <3> QED BY <3>1, AreBodies, Places
  <2> QED BY <1>1, <1>2, <2>1 DEF TestInactivity, Go, Return
<1>4. Receiver \in Threads \ {t} /\ Main \in Threads \ {t} /\ Checks \subseteq Threads
  BY <1>2, ThreadsDiffer
<1>5. \A n \in 2..5 : todo'[t] = Rest(checkInactivity, n) => n = 2 /\ fields.newServerPort # 0
  BY <1>3, PlacesDiffer, EachPlace
<1>6. Unstopped'
  BY <1>1, <1>2, <1>3, UnstoppedKept DEF SafeInv
<1>7. InTurn'
  <2> SUFFICES ASSUME ~overlapped'
               PROVE  /\ ~Overlapping'
                      /\ \A n \in 2..5 : todo'[Receiver] = Rest(answer, n) => fields'.newServerPort # 0
                      /\ \A u \in Checks : \A n \in 2..5 :
                           todo'[u] = Rest(checkInactivity, n) =>
                             (fields'.newServerPort = 0 <=> n = 5)
    BY DEF InTurn
  <2>1. ~overlapped /\ ~Overlapping'
    BY DEF Note
  <2>2. todo'[Receiver] = todo[Receiver] /\ \A u \in Checks \ {t} : todo'[u] = todo[u]
    BY <1>3, <1>4
  <2>3. \A n \in 2..5 : todo[Receiver] = Rest(answer, n) => fields.newServerPort # 0
    BY <2>1 DEF SafeInv, InTurn
  <2>4. \A u \in Checks : \A n \in 2..5 :
          todo[u] = Rest(checkInactivity, n) => (fields.newServerPort = 0 <=> n = 5)
    BY <2>1 DEF SafeInv, InTurn
  <2> QED BY <1>1, <1>5, <2>1, <2>2, <2>3, <2>4
<1>8. Alive'
  <2>1. \A a \in Alarms : Kept(a) => Kept(a)'
    BY <1>1, <1>3, <1>4 DEF Kept, Alarmed
  <2>2. Trying => Trying'
    BY <1>1 DEF Trying
  <2>3. \A u \in Checks : Reconnecting(u) => Reconnecting(u)'
    BY <1>2, <1>3, <1>4 DEF Reconnecting, Idle
  <2>4. todo[t] # stop
    BY <1>2, EachPlace, Listing
  <2>5. \A u \in Threads : todo[u] = stop => todo'[u] = stop
    BY <1>3, <2>4
  <2> QED BY <1>1, <2>1, <2>2, <2>3, <2>5, AliveKept DEF SafeInv
<1> QED BY <1>6, <1>7, <1>8 DEF SafeInv

\* The timer's task ends for good only with a port, or in a stop().
LEMMA TimerSafe ==
  ASSUME TypeInv, SafeInv, NEW i \in Timers, Note,
         TestHandshake(i) \/ CountRetry(i) \/ TimerFires(i)
  PROVE  SafeInv'
<1> DEFINE t == <<"timer", i>>
<1>1. todo \in [Threads -> Seq(Statements)] /\ fields \in Shape /\ Programs
  BY TypeOKParts DEF TypeInv, Numbered
<1>2. /\ t \in TimerThreads /\ t \in Threads /\ t \notin Checks /\ t # Receiver /\ t # Main
      /\ Receiver \in Threads \ {t} /\ Main \in Threads \ {t} /\ Checks \subseteq Threads \ {t}
  BY ThreadsDiffer
<1> HIDE DEF t
<1>3. /\ Tail(Rest(run, 1)) = Rest(run, 2) /\ Tail(Rest(run, 2)) = <<>>
  <2>1. 1 \in 1..Len(run) /\ 1 + 1 = 2 /\ 2 \in 1..Len(run) /\ 2 + 1 = 3
    BY Listing
  <2>2. \A n \in 1..Len(run) : Tail(Rest(run, n)) = Rest(run, n + 1)
    BY AreBodies, Places
  <2>3. Rest(run, 3) = <<>>
    BY EachPlace
  <2> QED BY <2>1, <2>2, <2>3, Zenon
<1>4. ASSUME NEW s, todo' = [todo EXCEPT ![t] = s], s # stop => todo[t] # stop,
             \A n \in 2..5 : s # Rest(stop, n),
             fields'.isRunning = fields.isRunning, fields'.newServerPort = fields.newServerPort,
             fields'.alarms = fields.alarms,
             s = stop \/ (fields'.isRunning /\ fields.newServerPort = 0 /\ Trying => Trying')
      PROVE  SafeInv'
  <2>1. todo'[t] = s /\ \A u \in Threads \ {t} : todo'[u] = todo[u]
    BY <1>1, <1>2, <1>4
  <2>2. Unstopped'
    BY <1>4, <2>1, UnstoppedKept DEF SafeInv
  <2>3. InTurn'
    BY <1>2, <1>4, <2>1, InTurnKept DEF SafeInv
  <2>4. CASE s = stop
    BY <1>2, <2>1, <2>2, <2>3, <2>4 DEF SafeInv, Alive
  <2>5. CASE s # stop
    <3>1. \A a \in Alarms : Kept(a) => Kept(a)'
      BY <1>2, <1>4, <2>1 DEF Kept, Alarmed
    <3>2. \A u \in Checks : Reconnecting(u) => Reconnecting(u)'
      BY <1>2, <2>1 DEF Reconnecting, Idle
    <3>3. \A u \in Threads : todo[u] = stop => todo'[u] = stop
      BY <1>4, <2>1, <2>5
    <3> QED BY <1>4, <2>2, <2>3, <2>5, <3>1, <3>2, <3>3, AliveKept DEF SafeInv
  <2> QED BY <2>4, <2>5
<1>5. CASE TestHandshake(i)
  <2>1. Does(t, <<"test", "handshake">>)
    BY <1>5 DEF TestHandshake, t
  <2>2. todo[t] = Rest(run, 1)
    BY <1>1, <1>2, <2>1, AtFirst
  <2>3. \/ Done /\ todo' = [todo EXCEPT ![t] = <<>>] /\ fields' = [fields EXCEPT !.live = @ \ {i}]
        \/ todo' = [todo EXCEPT ![t] = Rest(run, 2)] /\ fields' = fields
    BY <1>3, <1>5, <2>2 DEF TestHandshake, Go, Return, t
  <2>4. todo[t] # stop
    BY <2>2, EachPlace, Listing
  <2>5. CASE Done /\ todo' = [todo EXCEPT ![t] = <<>>] /\ fields' = [fields EXCEPT !.live = @ \ {i}]
    <3>1. /\ fields'.isRunning = fields.isRunning /\ fields'.newServerPort = fields.newServerPort
          /\ fields'.alarms = fields.alarms
      BY <1>1, <2>5 DEF Shape
    <3>2. ~(fields'.isRunning /\ fields.newServerPort = 0)
      BY <2>5, <3>1 DEF Done
    <3>3. \A n \in 2..5 : <<>> # Rest(stop, n)
      BY EachPlace
    <3> QED BY <1>4, <2>4, <2>5, <3>1, <3>2, <3>3
  <2>6. CASE todo' = [todo EXCEPT ![t] = Rest(run, 2)] /\ fields' = fields
    <3>1. \A n \in 2..5 : Rest(run, 2) # Rest(stop, n)
      BY PlacesDiffer
    <3>2. Trying => Trying'
      BY <2>6 DEF Trying
    <3> QED BY <1>4, <2>4, <2>6, <3>1, <3>2
  <2> QED BY <2>3, <2>5, <2>6
<1>6. CASE CountRetry(i)
  <2>1. Does(t, <<"count", "handshake">>)
    BY <1>6 DEF CountRetry, t
  <2>2. todo[t] = Rest(run, 2)
    BY <1>1, <1>2, <2>1, AtFirst
  <2>3. \/ todo' = [todo EXCEPT ![t] = stop] /\ fields' = [fields EXCEPT !.live = @ \ {i}]
        \/ todo' = [todo EXCEPT ![t] = <<>>] /\ fields' = [fields EXCEPT !.retryCount[i] = @ + 1]
    BY <1>3, <1>6, <2>2 DEF CountRetry, Go, Call, t
  <2>4. todo[t] # stop
    BY <2>2, EachPlace, Listing
  <2>5. CASE todo' = [todo EXCEPT ![t] = stop] /\ fields' = [fields EXCEPT !.live = @ \ {i}]
    <3>1. /\ fields'.isRunning = fields.isRunning /\ fields'.newServerPort = fields.newServerPort
          /\ fields'.alarms = fields.alarms
      BY <1>1, <2>5 DEF Shape
    <3>2. \A n \in 2..5 : stop # Rest(stop, n)
      BY PlacesDiffer, EachPlace
    <3> QED BY <1>4, <2>5, <3>1, <3>2
  <2>6. CASE todo' = [todo EXCEPT ![t] = <<>>] /\ fields' = [fields EXCEPT !.retryCount[i] = @ + 1]
    <3>1. /\ fields'.isRunning = fields.isRunning /\ fields'.newServerPort = fields.newServerPort
          /\ fields'.alarms = fields.alarms /\ fields'.handshakeTimer = fields.handshakeTimer
          /\ fields'.live = fields.live
      BY <1>1, <2>6 DEF Shape
    <3>2. \A n \in 2..5 : <<>> # Rest(stop, n)
      BY EachPlace
    <3>3. Trying => Trying'
      BY <3>1 DEF Trying
    <3> QED BY <1>4, <2>4, <2>6, <3>1, <3>2, <3>3
  <2> QED BY <2>3, <2>5, <2>6
<1>7. CASE TimerFires(i)
  <2>1. todo[t] = <<>> /\ todo' = [todo EXCEPT ![t] = run] /\ fields' = fields
    BY <1>7 DEF TimerFires, Call, Idle, t
  <2>2. todo[t] # stop /\ \A n \in 2..5 : run # Rest(stop, n)
    <3>1. Rest(run, 1) = run /\ \A n \in 2..5 : Rest(run, 1) # Rest(stop, n)
      BY PlacesDiffer, EachPlace
    <3> QED BY <2>1, <3>1, Listing
  <2>3. Trying => Trying'
    BY <2>1 DEF Trying
  <2> QED BY <1>4, <2>1, <2>2, <2>3
<1> QED BY <1>5, <1>6, <1>7

\* What is before and after a statement.
LEMMA StatementMoves ==
  ASSUME TypeInv, NEW t \in Threads, NEW p, NEW n, Statement(t, p, n)
  PROVE  /\ todo[t] = Rest(p, n) /\ todo'[t] = Rest(p, n + 1)
         /\ \A u \in Threads \ {t} : todo'[u] = todo[u]
BY TypeOKParts DEF TypeInv, Statement

\* An answer: from its first statement on the client has a port, and each alarm
\* is started in its turn.
LEMMA AnswerSafe ==
  ASSUME TypeInv, SafeInv, Note, NEW n \in 1..5, Statement(Receiver, answer, n)
  PROVE  SafeInv'
<1>1. fields \in Shape /\ Programs
  BY TypeOKParts DEF TypeInv, Numbered
<1>2. /\ Receiver \in Threads /\ Receiver \notin Checks /\ Main # Receiver /\ Main \in Threads
      /\ Checks \subseteq Threads \ {Receiver}
  BY ThreadsDiffer
<1>3. /\ todo[Receiver] = Rest(answer, n) /\ todo'[Receiver] = Rest(answer, n + 1)
      /\ \A u \in Threads \ {Receiver} : todo'[u] = todo[u]
  BY <1>2, StatementMoves
<1>4. fields' = After(answer[n], fields)
  BY DEF Statement
<1>5. /\ fields'.isRunning = fields.isRunning
      /\ n = 1 => fields'.newServerPort = 1
      /\ n # 1 => fields'.newServerPort = fields.newServerPort
      /\ \A a \in Alarms : n # Starts(a) => fields'.alarms[a] = fields.alarms[a]
      /\ \A a \in Alarms : n = Starts(a) => fields'.alarms[a] = "set"
  <2>0. "heartbeat" \in Alarms /\ "inactivity" \in Alarms /\ fields.alarms \in [Alarms -> {"off", "set", "fired"}]
        /\ \A a \in Alarms : a = "heartbeat" \/ a = "inactivity"
    BY <1>1 DEF Alarms, Shape
  <2>1. CASE n = 1
    <3>1. fields' = [fields EXCEPT !.newServerPort = 1]
      BY <1>4, <2>1, Listing, Effects
    <3> QED BY <1>1, <2>1, <3>1 DEF Shape, Starts
  <2>2. CASE n = 2
    <3>1. fields' = [fields EXCEPT !.live = @ \ {fields.handshakeTimer}, !.handshakeTimer = 0]
      BY <1>4, <2>2, Listing, Effects
    <3> QED BY <1>1, <2>2, <3>1 DEF Shape, Starts
  <2>3. CASE n = 3
    <3>0. answer[n] = <<"start", "heartbeat">>
      BY <2>3, Listing
    <3>1. After(<<"start", "heartbeat">>, fields) = [fields EXCEPT !.alarms["heartbeat"] = "set"]
      BY <2>0, Effects, Zenon
    <3>2. fields' = [fields EXCEPT !.alarms["heartbeat"] = "set"]
      BY <1>4, <3>0, <3>1, Zenon
    <3> QED BY <1>1, <2>0, <2>3, <3>2 DEF Shape, Starts
  <2>4. CASE n = 4
    <3>1. fields' = [fields EXCEPT !.lastReceivedTime = "recent"]
      BY <1>4, <2>4, Listing, Effects
    <3> QED BY <1>1, <2>4, <3>1 DEF Shape, Starts
  <2>5. CASE n = 5
    <3>0. answer[n] = <<"start", "inactivity">>
      BY <2>5, Listing
    <3>1. After(<<"start", "inactivity">>, fields) = [fields EXCEPT !.alarms["inactivity"] = "set"]
      BY <2>0, Effects, Zenon
    <3>2. fields' = [fields EXCEPT !.alarms["inactivity"] = "set"]
      BY <1>4, <3>0, <3>1, Zenon
    <3> QED BY <1>1, <2>0, <2>5, <3>2 DEF Shape, Starts
  <2> QED BY <2>1, <2>2, <2>3, <2>4, <2>5
<1>6. Unstopped'
  <2>1. \A m \in 2..5 : Rest(answer, n + 1) # Rest(stop, m)
    <3>1. n + 1 = 6 \/ n + 1 \in 1..5
      OBVIOUS
    <3> QED BY <3>1, PlacesDiffer, EachPlace
  <2> QED BY <1>3, <1>5, <2>1, UnstoppedKept DEF SafeInv
<1>7. ~overlapped' => fields'.newServerPort # 0
  <2>1. ASSUME ~overlapped' PROVE ~overlapped
    BY <2>1 DEF Note
  <2>2. CASE n = 1
    BY <1>5, <2>2
  <2>3. CASE n # 1
    <3>1. n \in 2..5
      BY <2>3
    <3> QED BY <1>3, <1>5, <2>1, <3>1 DEF SafeInv, InTurn
  <2> QED BY <2>2, <2>3
<1>8. InTurn'
  <2> SUFFICES ASSUME ~overlapped'
               PROVE  /\ ~Overlapping'
                      /\ \A m \in 2..5 : todo'[Receiver] = Rest(answer, m) => fields'.newServerPort # 0
                      /\ \A u \in Checks : \A m \in 2..5 :
                           todo'[u] = Rest(checkInactivity, m) =>
                             (fields'.newServerPort = 0 <=> m = 5)
    BY DEF InTurn
  <2>1. ~overlapped /\ ~Overlapping'
    BY DEF Note
  <2>2. todo[Receiver] # <<>>
    BY <1>3, EachPlace
  <2>3. \A u \in Checks : ~Reconnecting(u)
    BY <2>1, <2>2 DEF SafeInv, InTurn, Overlapping, Idle
  <2>4. \A u \in Checks : \A m \in 2..5 : todo'[u] # Rest(checkInactivity, m)
    BY <1>2, <1>3, <2>3, ReconnectingPlaces
  <2> QED BY <1>7, <2>1, <2>4
<1>9. Alive'
  <2> SUFFICES ASSUME fields'.isRunning, ~overlapped',
                      \A u \in Threads : todo'[u] # stop, \A u \in Checks : ~Reconnecting(u)'
               PROVE  \A a \in Alarms : Kept(a)'
    BY <1>7 DEF Alive
  <2>1. CASE n \in 1..2
    <3>1. n + 1 \in 1..3 /\ n + 1 \in 1..5
      BY <2>1
    <3> QED BY <1>3, <3>1 DEF Kept, Starts
  <2>2. CASE n = 3
    <3>1. n + 1 \in 1..5
      BY <2>2
    <3> QED BY <1>3, <1>5, <2>2, <3>1 DEF Kept, Starts, Alarmed, Alarms
  <2>3. CASE n \in 4..5
    <3>1. fields.isRunning /\ ~overlapped /\ fields.newServerPort # 0
      <4>1. ~overlapped
        BY DEF Note
      <4>2. n # 1
        BY <2>3
      <4> QED BY <1>5, <1>7, <4>1, <4>2
    <3>2. \A u \in Threads : todo[u] # stop
      <4>1. Rest(answer, n) # Rest(stop, 1)
        BY PlacesDiffer
      <4> QED BY <1>3, <4>1, EachPlace
    <3>3. \A u \in Checks : ~Reconnecting(u)
      BY <1>2, <1>3 DEF Reconnecting, Idle
    <3>4. Kept("heartbeat")
      BY <3>1, <3>2, <3>3 DEF SafeInv, Alive, Alarms
    <3>5. \A m \in 1..3 : todo[Receiver] # Rest(answer, m)
      <4>1. \A m \in 1..3 : m \in 1..6 /\ m # n /\ n \in 1..6
        BY <2>3
      <4> QED BY <1>3, <4>1, PlacesDiffer
    <3>6. Kept("heartbeat")'
      <4>1. fields'.alarms["heartbeat"] = fields.alarms["heartbeat"]
        BY <1>5, <2>3 DEF Starts, Alarms
      <4> QED BY <1>2, <1>3, <3>4, <3>5, <4>1 DEF Kept, Alarmed, Starts
    <3>7. Kept("inactivity")'
      <4>1. CASE n = 4
        <5>1. n + 1 \in 1..5
          BY <4>1
        <5> QED BY <1>3, <5>1 DEF Kept, Starts
      <4>2. CASE n = 5
        BY <1>5, <4>2 DEF Kept, Starts, Alarmed, Alarms
      <4> QED BY <2>3, <4>1, <4>2
    <3> QED BY <3>6, <3>7 DEF Alarms
  <2> QED BY <2>1, <2>2, <2>3
<1> QED BY <1>6, <1>8, <1>9 DEF SafeInv

\* The rest of stop(): the client is not running.
LEMMA StopSafe ==
  ASSUME TypeInv, SafeInv, Note, NEW t \in Threads, t \notin Checks, NEW n \in 2..5,
         Statement(t, stop, n)
  PROVE  SafeInv'
<1>1. fields \in Shape /\ Programs
  BY TypeOKParts DEF TypeInv, Numbered
<1>2. /\ todo[t] = Rest(stop, n) /\ todo'[t] = Rest(stop, n + 1)
      /\ \A u \in Threads \ {t} : todo'[u] = todo[u]
  BY StatementMoves
<1>3. ~fields.isRunning
  BY <1>2 DEF SafeInv, Unstopped
<1>4. fields'.isRunning = fields.isRunning /\ fields'.newServerPort = fields.newServerPort
  <2>0. "heartbeat" \in Alarms /\ "inactivity" \in Alarms
    BY DEF Alarms
  <2>1. fields' = After(stop[n], fields)
    BY DEF Statement
  <2>2. CASE n = 2
    <3>1. fields' = [fields EXCEPT !.live = @ \ {fields.handshakeTimer}, !.handshakeTimer = 0]
      BY <2>1, <2>2, Listing, Effects
    <3> QED BY <1>1, <3>1 DEF Shape
  <2>3. CASE n = 3
    <3>0. stop[n] = <<"stop", "heartbeat">>
      BY <2>3, Listing
    <3>1. After(<<"stop", "heartbeat">>, fields) = [fields EXCEPT !.alarms["heartbeat"] = "off"]
      BY <2>0, Effects, Zenon
    <3>2. fields' = [fields EXCEPT !.alarms["heartbeat"] = "off"]
      BY <2>1, <3>0, <3>1, Zenon
    <3> QED BY <1>1, <3>2 DEF Shape
  <2>4. CASE n = 4
    <3>0. stop[n] = <<"stop", "inactivity">>
      BY <2>4, Listing
    <3>1. After(<<"stop", "inactivity">>, fields) = [fields EXCEPT !.alarms["inactivity"] = "off"]
      BY <2>0, Effects, Zenon
    <3>2. fields' = [fields EXCEPT !.alarms["inactivity"] = "off"]
      BY <2>1, <3>0, <3>1, Zenon
    <3> QED BY <1>1, <3>2 DEF Shape
  <2>5. CASE n = 5
    <3>1. fields' = [fields EXCEPT !.socket = FALSE]
      BY <2>1, <2>5, Listing, Effects
    <3> QED BY <1>1, <3>1 DEF Shape
  <2> QED BY <2>2, <2>3, <2>4, <2>5
<1>5. \A m \in 2..5 : todo'[t] # Rest(answer, m)
  <2>1. n + 1 = 6 \/ n + 1 \in 1..5
    OBVIOUS
  <2> QED BY <1>2, <2>1, PlacesDiffer, EachPlace
<1>6. InTurn'
  BY <1>2, <1>4, <1>5, InTurnKept, ThreadsDiffer DEF SafeInv
<1> QED BY <1>3, <1>4, <1>6 DEF SafeInv, Unstopped, Alive

\* A check: it clears the port when no answer is at work, and what it stops the
\* new handshake makes up for.
LEMMA CheckSafe ==
  ASSUME TypeInv, SafeInv, Note, NEW t \in Checks, NEW n \in 2..5,
         Statement(t, checkInactivity, n)
  PROVE  SafeInv'
<1>1. fields \in Shape /\ Programs
  BY TypeOKParts DEF TypeInv, Numbered
<1>2. t \in Threads /\ Receiver \in Threads \ {t} /\ Main \in Threads \ {t} /\ Checks \subseteq Threads
  BY ThreadsDiffer
<1>3. /\ todo[t] = Rest(checkInactivity, n) /\ todo'[t] = Rest(checkInactivity, n + 1)
      /\ \A u \in Threads \ {t} : todo'[u] = todo[u]
  BY <1>2, StatementMoves
<1>4. fields' = After(checkInactivity[n], fields)
  BY DEF Statement
<1>5. /\ fields'.isRunning = fields.isRunning
      /\ n = 4 => fields'.newServerPort = 0
      /\ n # 4 => fields'.newServerPort = fields.newServerPort
      /\ n = 5 => Trying'
  <2>0. "heartbeat" \in Alarms /\ "inactivity" \in Alarms
    BY DEF Alarms
  <2>1. CASE n = 2
    <3>0. checkInactivity[n] = <<"stop", "heartbeat">>
      BY <2>1, Listing
    <3>1. After(<<"stop", "heartbeat">>, fields) = [fields EXCEPT !.alarms["heartbeat"] = "off"]
      BY <2>0, Effects, Zenon
    <3>2. fields' = [fields EXCEPT !.alarms["heartbeat"] = "off"]
      BY <1>4, <3>0, <3>1, Zenon
    <3> QED BY <1>1, <2>1, <3>2 DEF Shape
  <2>2. CASE n = 3
    <3>0. checkInactivity[n] = <<"stop", "inactivity">>
      BY <2>2, Listing
    <3>1. After(<<"stop", "inactivity">>, fields) = [fields EXCEPT !.alarms["inactivity"] = "off"]
      BY <2>0, Effects, Zenon
    <3>2. fields' = [fields EXCEPT !.alarms["inactivity"] = "off"]
      BY <1>4, <3>0, <3>1, Zenon
    <3> QED BY <1>1, <2>2, <3>2 DEF Shape
  <2>3. CASE n = 4
    <3>1. fields' = [fields EXCEPT !.newServerPort = 0]
      BY <1>4, <2>3, Listing, Effects
    <3> QED BY <1>1, <2>3, <3>1 DEF Shape
  <2>4. CASE n = 5
    <3>1. fields' = [fields EXCEPT !.timers = @ + 1, !.handshakeTimer = fields.timers + 1,
                                   !.live = @ \cup {fields.timers + 1}]
      BY <1>4, <2>4, Listing, Effects
    <3>2. /\ fields'.isRunning = fields.isRunning /\ fields'.newServerPort = fields.newServerPort
          /\ fields'.handshakeTimer = fields.timers + 1
          /\ fields'.live = fields.live \cup {fields.timers + 1}
      BY <1>1, <3>1 DEF Shape
    <3>3. fields.timers \in Nat
      BY <1>1 DEF Shape, Timers
    <3> QED BY <2>4, <3>2, <3>3 DEF Trying
  <2> QED BY <2>1, <2>2, <2>3, <2>4
<1>6. n + 1 \in 2..5 \/ n = 5
  OBVIOUS
<1>7. Unstopped'
  BY <1>3, <1>5, UnstoppedKept DEF SafeInv
<1>8. ~overlapped' => (fields.newServerPort = 0 <=> n = 5)
  <2>1. ASSUME ~overlapped' PROVE ~overlapped
    BY <2>1 DEF Note
  <2> QED BY <1>3, <2>1 DEF SafeInv, InTurn
<1>9. InTurn'
  <2> SUFFICES ASSUME ~overlapped'
               PROVE  /\ ~Overlapping'
                      /\ \A m \in 2..5 : todo'[Receiver] = Rest(answer, m) => fields'.newServerPort # 0
                      /\ \A u \in Checks : \A m \in 2..5 :
                           todo'[u] = Rest(checkInactivity, m) =>
                             (fields'.newServerPort = 0 <=> m = 5)
    BY DEF InTurn
  <2>1. ~overlapped /\ ~Overlapping'
    BY DEF Note
  <2>2. Reconnecting(t)
    BY <1>3, ReconnectingPlaces
  <2>3. \A u \in Checks \ {t} : ~Reconnecting(u)
    BY <2>1, <2>2 DEF SafeInv, InTurn, Overlapping
  <2>4. \A u \in Checks \ {t} : \A m \in 2..5 : todo'[u] # Rest(checkInactivity, m)
    BY <1>2, <1>3, <2>3, ReconnectingPlaces
  <2>5. \A m \in 2..5 : todo'[Receiver] # Rest(answer, m)
    <3>1. todo[Receiver] = <<>>
      BY <2>1, <2>2 DEF SafeInv, InTurn, Overlapping, Idle
    <3> QED BY <1>2, <1>3, <3>1, EachPlace
  <2>6. \A m \in 2..5 : todo'[t] = Rest(checkInactivity, m) => (fields'.newServerPort = 0 <=> m = 5)
    <3>1. CASE n = 5
      <4>1. todo'[t] = <<>>
        BY <1>3, <3>1, EachPlace
      <4> QED BY <4>1, EachPlace
    <3>2. CASE n = 4
      <4>1. fields'.newServerPort = 0
        BY <1>5, <3>2
      <4>2. todo'[t] = Rest(checkInactivity, 5)
        BY <1>3, <3>2
      <4>3. \A m \in 2..5 : m \in 1..6 /\ 5 \in 1..6
        OBVIOUS
      <4> QED BY <4>1, <4>2, <4>3, PlacesDiffer
    <3>3. CASE n \in 2..3
      <4>1. fields'.newServerPort # 0
        BY <1>5, <1>8, <3>3
      <4>2. \A m \in 2..5 : m \in 1..6 /\ n + 1 \in 1..6 /\ n + 1 # 5
        BY <3>3
      <4> QED BY <1>3, <4>1, <4>2, PlacesDiffer
    <3> QED BY <3>1, <3>2, <3>3
  <2> QED BY <2>1, <2>4, <2>5, <2>6
<1>10. Alive'
  <2>1. CASE n = 5
    <3>1. ~overlapped' => fields'.newServerPort = 0
      BY <1>5, <1>8, <2>1
    <3> QED BY <1>5, <2>1, <3>1 DEF Alive
  <2>2. CASE n # 5
    <3>1. Reconnecting(t)'
      BY <1>3, <1>6, <2>2, ReconnectingPlaces
    <3> QED BY <3>1 DEF Alive
  <2> QED BY <2>1, <2>2
<1> QED BY <1>7, <1>9, <1>10 DEF SafeInv

\* The looper sets an alarm that has gone off again.
LEMMA ScheduleSafe ==
  ASSUME TypeInv, SafeInv, Note, NEW a \in Alarms, Statement(Main, Schedule(a), 1)
  PROVE  SafeInv'
<1>1. fields \in Shape /\ Programs
  BY TypeOKParts DEF TypeInv, Numbered
<1>2. /\ Main \in Threads /\ Receiver \in Threads \ {Main} /\ Checks \subseteq Threads \ {Main}
  BY ThreadsDiffer
<1>3. /\ todo[Main] = Schedule(a) /\ todo'[Main] = <<>>
      /\ \A u \in Threads \ {Main} : todo'[u] = todo[u]
  <2>1. Rest(Schedule(a), 1) = Schedule(a) /\ Rest(Schedule(a), 2) = <<>> /\ 1 + 1 = 2
    BY EachPlace
  <2> QED BY <1>2, <2>1, StatementMoves
<1>4. fields' = After(<<"schedule", a>>, fields)
  BY Listing DEF Statement
<1>5. PICK v : /\ v \in {"off", "set"} /\ (fields.alarms[a] # "off" => v = "set")
               /\ fields' = [fields EXCEPT !.alarms[a] = v]
  <2>1. CASE fields.alarms[a] = "off"
    <3>1. After(<<"schedule", a>>, fields) = [fields EXCEPT !.alarms[a] = "off"]
      BY <2>1, Effects, Zenon
    <3> QED BY <1>4, <2>1, <3>1, Zenon
  <2>2. CASE fields.alarms[a] # "off"
    <3>1. After(<<"schedule", a>>, fields) = [fields EXCEPT !.alarms[a] = "set"]
      BY <2>2, Effects, Zenon
    <3> QED BY <1>4, <2>2, <3>1, Zenon
  <2> QED BY <2>1, <2>2
<1>6. /\ fields'.isRunning = fields.isRunning /\ fields'.newServerPort = fields.newServerPort
      /\ fields'.live = fields.live /\ fields'.handshakeTimer = fields.handshakeTimer
      /\ fields'.alarms[a] = v /\ \A b \in Alarms \ {a} : fields'.alarms[b] = fields.alarms[b]
  BY <1>1, <1>5 DEF Shape
<1>7. Unstopped'
  <2>1. \A n \in 2..5 : <<>> # Rest(stop, n)
    BY EachPlace
  <2> QED BY <1>3, <1>6, <2>1, UnstoppedKept DEF SafeInv
<1>8. InTurn'
  BY <1>2, <1>3, <1>6, InTurnKept DEF SafeInv
<1>9. Alive'
  <2>1. \A u \in Threads : todo[u] = stop => todo'[u] = stop
    <3>1. Schedule(a) # stop
      <4>1. Schedule(a) # Rest(stop, 1)
        BY PlacesDiffer
      <4> QED BY <4>1, EachPlace
    <3> QED BY <1>3, <3>1
  <2>2. \A u \in Checks : Reconnecting(u) => Reconnecting(u)'
    BY <1>2, <1>3 DEF Reconnecting, Idle
  <2>3. Trying => Trying'
    BY <1>6 DEF Trying
  <2>4. ASSUME NEW b \in Alarms, Kept(b) PROVE Kept(b)'
    <3>1. todo'[Receiver] = todo[Receiver]
      BY <1>2, <1>3
    <3>2. CASE b = a
      BY <1>5, <1>6, <2>4, <3>1, <3>2 DEF Kept, Alarmed
    <3>3. CASE b # a
      <4>1. todo[Main] # Schedule(b)
        BY <1>3, <3>3, PlacesDiffer
      <4> QED BY <1>6, <2>4, <3>1, <3>3, <4>1 DEF Kept, Alarmed
    <3> QED BY <3>2, <3>3
  <2> QED BY <1>6, <2>1, <2>2, <2>3, <2>4, AliveKept DEF SafeInv
<1> QED BY <1>7, <1>8, <1>9 DEF SafeInv

\* An alarm goes off: the looper is to set it again, unless the client has
\* stopped or has no port.
LEMMA AlarmSafe ==
  ASSUME TypeInv, SafeInv, Note, HeartbeatAlarm \/ InactivityAlarm
  PROVE  SafeInv'
<1>1. fields \in Shape /\ Programs /\ todo \in [Threads -> Seq(Statements)]
  BY TypeOKParts DEF TypeInv, Numbered
<1>2. /\ Main \in Threads /\ Receiver \in Threads \ {Main} /\ Checks \subseteq Threads \ {Main}
      /\ Receiver \notin Checks
  BY ThreadsDiffer
<1>3. PICK a \in Alarms :
        /\ Fires(a)
        /\ \/ ~Receives /\ todo' = todo
           \/ Receives /\ todo' = [todo EXCEPT ![Main] = Schedule(a)]
           \/ Receives /\ \E t \in Checks :
                /\ Idle(t)
                /\ todo' = [todo EXCEPT ![Main] = Schedule(a), ![t] = checkInactivity]
  <2>1. CASE HeartbeatAlarm
    <3>1. "heartbeat" \in Alarms
      BY DEF Alarms
    <3> QED BY <2>1, <3>1 DEF HeartbeatAlarm, Call, Schedule
  <2>2. CASE InactivityAlarm
    <3>1. "inactivity" \in Alarms
      BY DEF Alarms
    <3> QED BY <2>2, <3>1 DEF InactivityAlarm, Schedule
  <2> QED BY <2>1, <2>2
<1>4. /\ todo[Main] = <<>> /\ fields.alarms[a] = "set"
      /\ fields' = [fields EXCEPT !.alarms[a] = "fired"]
  BY <1>3 DEF Fires, Idle
<1>5. /\ fields'.isRunning = fields.isRunning /\ fields'.newServerPort = fields.newServerPort
      /\ fields'.live = fields.live /\ fields'.handshakeTimer = fields.handshakeTimer
      /\ fields'.alarms[a] = "fired" /\ \A b \in Alarms \ {a} : fields'.alarms[b] = fields.alarms[b]
  BY <1>1, <1>4 DEF Shape
<1>6. Trying => Trying'
  BY <1>5 DEF Trying
<1>7. CASE ~Receives /\ todo' = todo
  <2>1. Unstopped'
    BY <1>5, <1>7, UnstoppedKept DEF SafeInv
  <2>2. InTurn'
    BY <1>5, <1>7, InTurnKept DEF SafeInv
  <2>3. ~fields'.isRunning \/ fields.newServerPort = 0
    BY <1>5, <1>7 DEF Receives
  <2>4. \A u \in Checks : Reconnecting(u) => Reconnecting(u)'
    BY <1>7 DEF Reconnecting, Idle
  <2>5. ASSUME ~fields'.isRunning PROVE Alive'
    BY <2>5 DEF Alive
  <2>6. ASSUME fields.newServerPort = 0 PROVE Alive'
    BY <1>5, <1>6, <1>7, <2>4, <2>6, AliveKept DEF SafeInv
  <2> QED BY <2>1, <2>2, <2>3, <2>5, <2>6 DEF SafeInv
<1>8. ASSUME todo'[Main] = Schedule(a),
             \A u \in Threads \ {Main} :
               todo'[u] # todo[u] => u \in Checks /\ todo[u] = <<>> /\ todo'[u] = checkInactivity
      PROVE  SafeInv'
  <2>1. Unstopped'
    <3>1. \A n \in 2..5 : Schedule(a) # Rest(stop, n)
      BY PlacesDiffer
    <3> QED BY <1>5, <1>8, <3>1, UnstoppedKept DEF SafeInv
  <2>2. todo'[Receiver] = todo[Receiver]
    BY <1>2, <1>8
  <2>3. InTurn'
    <3>1. \A n \in 2..5 : checkInactivity # Rest(checkInactivity, n)
      <4>1. \A n \in 2..5 : n \in 1..6 /\ n # 1 /\ 1 \in 1..6
        OBVIOUS
      <4> QED BY <4>1, PlacesDiffer, EachPlace
    <3> QED BY <1>2, <1>5, <1>8, <2>2, <3>1, InTurnKept DEF SafeInv
  <2>4. \A u \in Threads : todo[u] = stop => todo'[u] = stop
    <3>1. stop # <<>>
      BY Listing
    <3> QED BY <1>4, <1>8, <3>1
  <2>5. \A u \in Checks : Reconnecting(u) => Reconnecting(u)'
    BY <1>2, <1>8 DEF Reconnecting, Idle
  <2>6. ASSUME NEW b \in Alarms, Kept(b) PROVE Kept(b)'
    <3>1. CASE b = a
      BY <1>5, <1>8, <3>1 DEF Kept
    <3>2. CASE b # a
      <4>1. todo[Main] # Schedule(b)
        BY <1>4, EachPlace
      <4> QED BY <1>5, <2>2, <2>6, <3>2, <4>1 DEF Kept, Alarmed
    <3> QED BY <3>1, <3>2
  <2>7. Alive'
    BY <1>5, <1>6, <2>4, <2>5, <2>6, AliveKept DEF SafeInv
  <2> QED BY <2>1, <2>3, <2>7 DEF SafeInv
<1>9. CASE todo' = [todo EXCEPT ![Main] = Schedule(a)]
  <2>1. todo'[Main] = Schedule(a) /\ \A u \in Threads \ {Main} : todo'[u] = todo[u]
    BY <1>1, <1>2, <1>9
  <2> QED BY <1>8, <2>1
<1>10. CASE \E t \in Checks :
              /\ Idle(t)
              /\ todo' = [todo EXCEPT ![Main] = Schedule(a), ![t] = checkInactivity]
  <2>1. PICK t \in Checks :
          /\ Idle(t)
          /\ todo' = [todo EXCEPT ![Main] = Schedule(a), ![t] = checkInactivity]
    BY <1>10
  <2>2. /\ todo'[Main] = Schedule(a) /\ todo[t] = <<>> /\ todo'[t] = checkInactivity
        /\ \A u \in Threads \ {Main, t} : todo'[u] = todo[u]
    BY <1>1, <1>2, <2>1 DEF Idle
  <2> QED BY <1>8, <2>2
<1> QED BY <1>3, <1>7, <1>9, <1>10

\* An answer, or a stop, comes to an idle thread; a packet or silence changes
\* nothing that matters here.
LEMMA EnvironmentSafe ==
  ASSUME TypeInv, SafeInv, Environment
  PROVE  SafeInv'
<1>1. fields \in Shape /\ Programs /\ todo \in [Threads -> Seq(Statements)] /\ Note
  BY TypeOKParts DEF TypeInv, Numbered, Environment
<1>2. /\ Main \in Threads /\ Receiver \in Threads /\ Receiver # Main
      /\ Checks \subseteq Threads /\ Receiver \notin Checks /\ Main \notin Checks
  BY ThreadsDiffer
<1>3. CASE HandleHandshakeResponse \/ Disconnect
  <2>1. PICK t \in {Receiver, Main} :
          /\ todo[t] = <<>> /\ fields' = fields
          /\ \/ todo' = [todo EXCEPT ![t] = stop]
             \/ t = Receiver /\ todo' = [todo EXCEPT ![t] = answer]
    BY <1>3 DEF HandleHandshakeResponse, Disconnect, Call, Idle
  <2>2. PICK s \in {stop, answer} : /\ todo' = [todo EXCEPT ![t] = s]
                                    /\ s = answer => t = Receiver
    <3>1. stop # answer
      BY Listing
    <3>2. CASE todo' = [todo EXCEPT ![t] = stop]
      BY <3>1, <3>2, Zenon
    <3>3. CASE t = Receiver /\ todo' = [todo EXCEPT ![t] = answer]
      BY <3>3, Zenon
    <3> QED BY <2>1, <3>2, <3>3
  <2>3. todo'[t] = s /\ \A u \in Threads \ {t} : todo'[u] = todo[u]
    BY <1>1, <1>2, <2>2
  <2>4. /\ \A n \in 2..5 : stop # Rest(stop, n) /\ answer # Rest(stop, n)
        /\ \A n \in 2..5 : stop # Rest(answer, n) /\ answer # Rest(answer, n)
    <3>1. \A n \in 2..5 : n \in 1..6 /\ n \in 1..5 /\ 1 \in 1..5 /\ 1 \in 1..6 /\ n # 1
      OBVIOUS
    <3>2. Rest(stop, 1) = stop /\ Rest(answer, 1) = answer
      BY EachPlace
    <3>3. \A n \in 2..5 : stop # Rest(stop, n) /\ answer # Rest(answer, n)
      BY <3>1, <3>2, PlacesDiffer
    <3>4. \A n \in 2..5 : answer # Rest(stop, n) /\ stop # Rest(answer, n)
      BY <3>1, <3>2, PlacesDiffer
    <3> QED BY <3>3, <3>4
  <2>5. Unstopped'
    BY <2>1, <2>2, <2>3, <2>4, UnstoppedKept DEF SafeInv
  <2>6. InTurn'
    BY <1>1, <1>2, <2>1, <2>2, <2>3, <2>4, InTurnKept DEF SafeInv
  <2>7. Alive'
    <3>1. CASE s = stop
      BY <1>2, <2>3, <3>1 DEF Alive
    <3>2. CASE s = answer
      <4>1. \A u \in Threads : todo[u] = stop => todo'[u] = stop
        BY <2>1, <2>3, Listing
      <4>2. \A u \in Checks : Reconnecting(u) => Reconnecting(u)'
        BY <1>2, <2>2, <2>3, <3>2 DEF Reconnecting, Idle
      <4>3. Trying => Trying'
        BY <2>1 DEF Trying
      <4>4. \A a \in Alarms : \A n \in 1..Starts(a) : todo[Receiver] # Rest(answer, n)
        <5>1. todo[Receiver] = <<>>
          BY <2>1, <2>2, <3>2, Listing
        <5>2. \A a \in Alarms : \A n \in 1..Starts(a) : n \in 1..5
          BY DEF Starts
        <5> QED BY <5>1, <5>2, EachPlace
      <4>5. todo'[Main] = todo[Main]
        <5>1. answer # stop
          BY Listing
        <5> QED BY <1>2, <2>2, <2>3, <3>2, <5>1
      <4>6. \A a \in Alarms : Kept(a) => Kept(a)'
        BY <2>1, <4>4, <4>5 DEF Kept, Alarmed
      <4> QED BY <1>1, <2>1, <4>1, <4>2, <4>3, <4>6, AliveKept DEF SafeInv
    <3> QED BY <3>1, <3>2
  <2> QED BY <2>5, <2>6, <2>7 DEF SafeInv
<1>4. CASE HandleServerPacket \/ Silence
  <2>1. todo' = todo
    BY <1>4 DEF HandleServerPacket, Silence
  <2>2. \E v \in {"recent", "old"} : fields' = [fields EXCEPT !.lastReceivedTime = v]
    BY <1>4, Effects DEF HandleServerPacket, Silence
  <2>3. /\ fields'.isRunning = fields.isRunning /\ fields'.newServerPort = fields.newServerPort
        /\ fields'.live = fields.live /\ fields'.handshakeTimer = fields.handshakeTimer
        /\ fields'.alarms = fields.alarms
    BY <1>1, <2>2 DEF Shape
  <2>4. \A a \in Alarms : Kept(a) => Kept(a)'
    BY <2>1, <2>3 DEF Kept, Alarmed
  <2>5. \A u \in Checks : Reconnecting(u) => Reconnecting(u)'
    BY <2>1 DEF Reconnecting, Idle
  <2>6. Trying => Trying'
    BY <2>3 DEF Trying
  <2>7. Alive'
    BY <1>1, <2>1, <2>3, <2>4, <2>5, <2>6, AliveKept DEF SafeInv
  <2>8. Unstopped' /\ InTurn'
    BY <1>1, <2>1, <2>3, UnstoppedKept, InTurnKept DEF SafeInv
  <2> QED BY <2>7, <2>8 DEF SafeInv
<1> QED BY <1>3, <1>4 DEF Environment

\* At first the handshake is repeated and no thread is at work.
LEMMA InitSafe == Init => SafeInv
<1> SUFFICES ASSUME Init PROVE SafeInv
  OBVIOUS
<1>1. /\ \A t \in Threads : todo[t] = <<>>
      /\ fields.newServerPort = 0 /\ fields.handshakeTimer = 1 /\ fields.live = {1}
  BY DEF Init
<1>2. Unstopped
  BY <1>1, EachPlace DEF Unstopped
<1>3. InTurn
  BY <1>1, ThreadsDiffer, EachPlace DEF InTurn, Overlapping, Reconnecting, Idle
<1>4. Alive
  BY <1>1 DEF Alive, Trying
<1> QED BY <1>2, <1>3, <1>4 DEF SafeInv

LEMMA SafeInvKept == TypeInv /\ SafeInv /\ [Next]_vars => SafeInv'
<1> SUFFICES ASSUME TypeInv, SafeInv, [Next]_vars PROVE SafeInv'
  OBVIOUS
<1>1. ASSUME NEW t \in Threads, Execute(t), Note PROVE SafeInv'
  BY <1>1, Executes, AnswerSafe, StopSafe, CheckSafe, ScheduleSafe DEF TypeInv
<1>2. ASSUME NEW t \in Threads, Work(t) PROVE SafeInv'
  BY <1>1, <1>2, ClearRunningSafe, TestInactivitySafe, TimerSafe DEF Work, Step
<1>3. CASE AlarmGoesOff
  BY <1>3, AlarmSafe DEF AlarmGoesOff
<1>4. CASE Environment
  BY <1>4, EnvironmentSafe
<1>5. CASE UNCHANGED vars
  <2>1. fields' = fields /\ todo' = todo /\ overlapped' = overlapped
    BY <1>5 DEF vars
  <2> QED BY <2>1 DEF SafeInv, Unstopped, InTurn, Alive, Overlapping, Reconnecting, Idle,
             Trying, Kept, Alarmed
<1> QED BY <1>2, <1>3, <1>4, <1>5 DEF Next

\* A running client at rest repeats its handshake or has a port and both
\* alarms, however answers, checks, alarms, timers and stops interleave, for
\* any number of them, unless a check reconnects while an answer is handled or
\* another check reconnects (MorphUdpClient.kt:462).
THEOREM NeverStranded == Spec => []NotStranded
<1>1. Init => TypeInv /\ SafeInv
  BY InitTyped, InitSafe
<1>2. TypeInv /\ SafeInv /\ [Next]_vars => (TypeInv /\ SafeInv)'
  BY TypesKept, SafeInvKept
<1>3. TypeInv /\ SafeInv => NotStranded
  BY SafeInvNotStranded
<1> QED BY <1>1, <1>2, <1>3, PTL DEF Spec
=============================================================================
