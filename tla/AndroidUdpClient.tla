--------------------------- MODULE AndroidUdpClient ---------------------------
(***************************************************************************)
(* The Android client: src/android/plugin/android/src/main/java/com/       *)
(* morphprotocol/client/network/MorphUdpClient.kt.                         *)
(*                                                                         *)
(* Unlike the TypeScript client it runs on several threads that share its  *)
(* fields without locks: the thread that receives, one thread per          *)
(* handshake timer, the main looper (alarm receivers, and stop() for a     *)
(* disconnect), and a new thread for each inactivity check.  A thread is   *)
(* modelled by the statements it still has to execute; each is one step,   *)
(* so that those of different threads interleave.  What the packets carry  *)
(* is left to DataPath; heartbeat threads change no field.                 *)
(***************************************************************************)
EXTENDS Integers, Sequences, FiniteSets

CONSTANTS
  MaxRetries, \* config.maxRetries
  MaxTimers,  \* bound: handshake timers created
  MaxChecks   \* bound: inactivity checks running at once

ASSUME AndroidAssumption ==
  MaxRetries \in Nat \ {0} /\ MaxTimers \in Nat \ {0} /\ MaxChecks \in Nat \ {0}

VARIABLES
  fields,     \* what the threads share
  todo,       \* the statements each thread has still to execute
  overlapped  \* history: a check reconnected while an answer was handled, or another check

vars == <<fields, todo, overlapped>>

Alarms == {"heartbeat", "inactivity"}
Timers == 1..MaxTimers

Receiver == <<"receive", 0>>
Main == <<"main", 0>>
Checks == {<<"check", i>> : i \in 1..MaxChecks}
TimerThreads == {<<"timer", i>> : i \in Timers}
Threads == {Receiver, Main} \cup Checks \cup TimerThreads

Idle(t) == todo[t] = <<>>

-----------------------------------------------------------------------------
(* The functions, as their statements on shared fields.  What starts or stops *)
(* one timer or alarm (startHeartbeat, stopHandshake and so on) is one step.  *)

stop ==
  << <<"clear", "isRunning">>, <<"stop", "handshake">>, <<"stop", "heartbeat">>,
     <<"stop", "inactivity">>, <<"close", "socket">> >>

\* handleHandshakeResponse, for an answer with a port
answer ==
  << <<"set", "port">>, <<"stop", "handshake">>, <<"start", "heartbeat">>,
     <<"set", "received">>, <<"start", "inactivity">> >>

\* Mutant: the handshake starts while the old port is still there.
checkInactivityPortLast ==
  << <<"test", "inactivity">>, <<"stop", "heartbeat">>, <<"stop", "inactivity">>,
     <<"start", "handshake">>, <<"clear", "port">> >>

\* clientID, template and obfuscator are replaced before the handshake starts.
checkInactivity ==
  << <<"test", "inactivity">>, <<"stop", "heartbeat">>, <<"stop", "inactivity">>,
     <<"clear", "port">>, <<"start", "handshake">> >>

\* run() of the handshake timer's task
run == << <<"test", "handshake">>, <<"count", "handshake">> >>

-----------------------------------------------------------------------------
(* What one statement does to the fields f of a client. *)

\* Mutant: an alarm that has gone off is not scheduled again.
AlarmAfterOnce(verb, alarm) ==
  CASE verb = "start" -> "set" [] verb = "schedule" -> alarm [] verb = "stop" -> "off"

\* An alarm is "off", "set", or has gone off ("fired") with its receiver still
\* registered.  schedule... does nothing when the intent is null.
AlarmAfter(verb, alarm) ==
  CASE verb = "start"    -> "set"
    [] verb = "schedule" -> IF alarm = "off" THEN "off" ELSE "set"
    [] verb = "stop"     -> "off"

\* A timer that is replaced runs on.
HandshakeAfter(verb, f) ==
  CASE verb = "stop"  -> [f EXCEPT !.live = @ \ {f.handshakeTimer}, !.handshakeTimer = 0]
    [] verb = "start" -> [f EXCEPT !.timers = @ + 1, !.handshakeTimer = f.timers + 1,
                                    !.live = @ \cup {f.timers + 1}]

FieldAfter(verb, field, f) ==
  CASE field = "socket" -> [f EXCEPT !.socket = FALSE]
    [] field = "port"  -> [f EXCEPT !.newServerPort = IF verb = "set" THEN 1 ELSE 0]
    [] field = "received" -> [f EXCEPT !.lastReceivedTime = "recent"]

After(step, f) ==
  IF step[2] \in Alarms THEN [f EXCEPT !.alarms[step[2]] = AlarmAfter(step[1], @)]
  ELSE IF step[2] = "handshake" THEN HandshakeAfter(step[1], f)
  ELSE FieldAfter(step[1], step[2], f)

-----------------------------------------------------------------------------
(* The threads at work. *)

Does(t, step) == ~Idle(t) /\ Head(todo[t]) = step

Go(t) == todo' = [todo EXCEPT ![t] = Tail(@)]
Return(t) == todo' = [todo EXCEPT ![t] = <<>>]
Call(t, statements) == todo' = [todo EXCEPT ![t] = statements]

\* stop() returns when another call of it came first.  (Should both pass the
\* test, the second does again what the first does.)
ClearRunning(t) ==
  /\ Does(t, <<"clear", "isRunning">>)
  /\ IF fields.isRunning THEN Go(t) ELSE Return(t)
  /\ fields' = [fields EXCEPT !.isRunning = FALSE]

Reconnecting(t) == ~Idle(t) /\ Head(todo[t]) # <<"test", "inactivity">>

\* The bound on timers: a check that would need one more finds no inactivity.
TimerLeft == fields.timers + Cardinality({t \in Checks : Reconnecting(t)}) < MaxTimers

TestInactivity(t) ==
  /\ Does(t, <<"test", "inactivity">>)
  /\ IF fields.newServerPort # 0 /\ fields.lastReceivedTime = "old" /\ TimerLeft
     THEN Go(t) ELSE Return(t)
  /\ UNCHANGED fields

\* !isRunning || newServerPort != 0
Done == ~fields.isRunning \/ fields.newServerPort # 0

\* The first half of run().
TestHandshake(i) ==
  LET t == <<"timer", i>>
  IN /\ Does(t, <<"test", "handshake">>)
     /\ IF Done
        THEN /\ fields' = [fields EXCEPT !.live = @ \ {i}]
             /\ Return(t)
        ELSE Go(t) /\ UNCHANGED fields

\* Mutant: the handshake is repeated without end.
LastRetryNever(i) == FALSE

LastRetry(i) == fields.retryCount[i] + 1 >= MaxRetries

\* The handshake is sent, the second half of run().
CountRetry(i) ==
  LET t == <<"timer", i>>
  IN /\ Does(t, <<"count", "handshake">>)
     /\ IF LastRetry(i)
        THEN /\ fields' = [fields EXCEPT !.live = @ \ {i}]
             /\ Call(t, stop)
        ELSE /\ fields' = [fields EXCEPT !.retryCount[i] = @ + 1]
             /\ Go(t)

Execute(t) ==
  /\ ~Idle(t)
  /\ LET step == Head(todo[t])
     IN /\ step[1] \notin {"test", "count"} /\ step # <<"clear", "isRunning">>
        /\ fields' = After(step, fields)
        /\ Go(t)

Step(t) == Execute(t) \/ ClearRunning(t) \/ TestInactivity(t)

-----------------------------------------------------------------------------
(* What sets them to work. *)

\* The timer's thread runs the task at once and then every handshakeInterval.
TimerFires(i) ==
  /\ i \in fields.live /\ Idle(<<"timer", i>>)
  /\ Call(<<"timer", i>>, run)
  /\ UNCHANGED fields

\* An answer of the handshake server, or its "inactivity" or "server_full".
\* The thread receives while the socket is open.
HandleHandshakeResponse ==
  /\ fields.socket /\ Idle(Receiver)
  /\ Call(Receiver, answer) \/ Call(Receiver, stop)
  /\ UNCHANGED fields

HandleServerPacket ==
  /\ fields.socket /\ Idle(Receiver) /\ fields.newServerPort # 0
  /\ fields' = After(<<"set", "received">>, fields)
  /\ UNCHANGED todo

\* inactivityTimeout passes.
Silence ==
  /\ fields.lastReceivedTime = "recent"
  /\ fields' = [fields EXCEPT !.lastReceivedTime = "old"]
  /\ UNCHANGED todo

\* Mutant: the alarms come back on a client that has stopped.
ReceivesAlways == TRUE

\* onReceive has something to do.
Receives == fields.isRunning /\ fields.newServerPort # 0

\* An exact alarm goes off once; its receiver runs on the looper.
Fires(a) ==
  /\ fields.alarms[a] = "set" /\ Idle(Main)
  /\ fields' = [fields EXCEPT !.alarms[a] = "fired"]

HeartbeatAlarm ==
  /\ Fires("heartbeat")
  /\ IF Receives THEN Call(Main, << <<"schedule", "heartbeat">> >>) ELSE UNCHANGED todo

InactivityAlarm ==
  /\ Fires("inactivity")
  /\ IF Receives
     THEN \E t \in Checks :
            /\ Idle(t)
            /\ todo' = [todo EXCEPT ![Main] = << <<"schedule", "inactivity">> >>,
                                    ![t] = checkInactivity]
     ELSE UNCHANGED todo

\* disconnectClient calls stop() on the looper.
Disconnect ==
  /\ fields.isRunning /\ Idle(Main)
  /\ Call(Main, stop)
  /\ UNCHANGED fields

-----------------------------------------------------------------------------
\* start() has opened the socket and started the first timer.
Init ==
  /\ fields =
       [isRunning |-> TRUE, socket |-> TRUE, newServerPort |-> 0, lastReceivedTime |-> "never",
        handshakeTimer |-> 1, timers |-> 1, live |-> {1}, retryCount |-> [i \in Timers |-> 0],
        alarms |-> [a \in Alarms |-> "off"]]
  /\ todo = [t \in Threads |-> <<>>]
  /\ overlapped = FALSE

Overlapping ==
  \E t \in Checks :
    /\ Reconnecting(t)
    /\ ~Idle(Receiver) \/ \E u \in Checks \ {t} : Reconnecting(u)

Note == overlapped' = (overlapped \/ Overlapping')

Work(t) ==
  /\ Step(t) \/ \E i \in Timers : t = <<"timer", i>> /\ (TestHandshake(i) \/ CountRetry(i) \/ TimerFires(i))
  /\ Note

AlarmGoesOff == (HeartbeatAlarm \/ InactivityAlarm) /\ Note

Environment == (HandleHandshakeResponse \/ HandleServerPacket \/ Silence \/ Disconnect) /\ Note

Next == (\E t \in Threads : Work(t)) \/ AlarmGoesOff \/ Environment

\* Threads run, timers repeat, and exact alarms go off, also in Doze mode.
Fairness == WF_vars(AlarmGoesOff) /\ \A t \in Threads : WF_vars(Work(t))

Spec == Init /\ [][Next]_vars /\ Fairness

-----------------------------------------------------------------------------
(* Properties. *)

Statements ==
  {"test", "clear", "stop", "close", "set", "schedule", "start", "count"}
    \X ({"isRunning", "handshake", "socket", "port", "received"} \cup Alarms)

\* Every variable keeps to its type, and only timers that exist are live.
TypeOK ==
  /\ fields \in
       [isRunning : BOOLEAN, socket : BOOLEAN, newServerPort : {0, 1},
        lastReceivedTime : {"never", "recent", "old"}, handshakeTimer : 0..MaxTimers,
        timers : Timers, live : SUBSET Timers, retryCount : [Timers -> 0..MaxRetries - 1],
        alarms : [Alarms -> {"off", "set", "fired"}]]
  /\ \A i \in fields.live \cup {fields.handshakeTimer} : i <= fields.timers
  /\ todo \in [Threads -> Seq(Statements)]
  /\ overlapped \in BOOLEAN

Quiescent == \A t \in Threads : Idle(t)

Trying == fields.handshakeTimer # 0 /\ fields.handshakeTimer \in fields.live

Alarmed(a) == fields.alarms[a] = "set"

\* A running client, when no thread is at work, either repeats its handshake or
\* has a port and both alarms: no order of answers, checks, alarms and stops
\* strands it, unless a check reconnects while an answer is handled or
\* another check reconnects (MorphUdpClient.kt:462).
NotStranded ==
  Quiescent /\ fields.isRunning /\ ~overlapped =>
    IF fields.newServerPort = 0 THEN Trying ELSE \A a \in Alarms : Alarmed(a)

\* Without such an overlap a client that has no port gets one, or gives up
\* after its retries (MorphUdpClient.kt:221), and does not wait for ever.
Settles == fields.newServerPort = 0 ~> fields.newServerPort # 0 \/ ~fields.isRunning \/ overlapped

\* A stopped client comes to rest: its timers end, no alarm of it comes back
\* and its threads finish, whatever they were doing when stop() ran.
Quiesces ==
  ~fields.isRunning ~>
    [](Quiescent /\ fields.live = {} /\ \A a \in Alarms : ~Alarmed(a))
=============================================================================
