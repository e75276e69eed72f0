---------------------------- MODULE AndroidService ----------------------------
(***************************************************************************)
(* The Android service and the plugin's calls to it: src/android/plugin/   *)
(* android/src/main/java/com/morphprotocol/capacitor/.                     *)
(*                                                                         *)
(* The app's calls are messages that the service handles one by one on its *)
(* main looper.  Each accepted connect makes a client and a thread that    *)
(* starts it; when the client has a session, a callback on the client's    *)
(* thread answers the call.  Looper and threads share fields without       *)
(* locks: a step reads or writes one of them.  A client is modelled by     *)
(* what AndroidUdpClient shows of it: it runs, it gets an answer or gives  *)
(* up, it stops.                                                           *)
(***************************************************************************)
EXTENDS Integers, Sequences

CONSTANTS
  MaxCalls,  \* bound: calls of connect
  MaxAnswers \* bound: answers a client handles

ASSUME ServiceAssumption == MaxCalls \in Nat \ {0} /\ MaxAnswers \in Nat \ {0}

Calls == 1..MaxCalls

VARIABLES
  calls,       \* "unmade", "pending", "success" or "error"
  looper,      \* what the main looper does next: "idle", or where it is in a call
  threads,     \* the connect thread of each call: "none", "new", "holding", "starting", "started"
  held,        \* what the thread read from morphClient
  clients,     \* the MorphClients made so far
  morphClient, \* the one the service refers to, 0 for null
  isConnected,
  overlapped,  \* history: a connect was accepted while an unconnected client was not done
  missed       \* history: a disconnect came to its stop() before a connect thread to its start()

threadVars == <<threads, held>>
serviceVars == <<morphClient, isConnected>>
historyVars == <<overlapped, missed>>
vars == <<calls, looper, threadVars, clients, serviceVars, historyVars>>

\* "call" made the client; "callback" is the call it answers, 0 before start();
\* "reporting" is the call whose callback it is in, 0 for none.
MorphClient == [call : Calls, callback : 0..MaxCalls, answers : 0..MaxAnswers,
                state : {"new", "running", "stopped"}, answering : BOOLEAN,
                reporting : 0..MaxCalls]

Made == 1..Len(clients)

Running(c) == clients[c].state = "running"

\* The thread has yet to start its client.
Starting(k) == threads[k] \in {"new", "holding", "starting"}

-----------------------------------------------------------------------------
(* On the main looper: one call at a time, but not in one step. *)

\* Mutant: a connection does not keep another one from being made.
AcceptsAlways == TRUE

Accepts == ~isConnected

\* Mutant: a connect that is refused is not answered.
RefusedSilently(k) == calls' = [calls EXCEPT ![k] = "pending"]

\* MSG_CONNECT_ERROR, "Already connected"
Refused(k) == calls' = [calls EXCEPT ![k] = "error"]

\* connectClient
Connect(k) ==
  /\ looper = "idle"
  /\ calls[k] = "unmade" /\ \A j \in 1..k - 1 : calls[j] # "unmade"
  /\ IF Accepts
     THEN /\ calls' = [calls EXCEPT ![k] = "pending"]
          /\ looper' = "make"
          /\ overlapped' = \/ overlapped
                           \/ ~isConnected /\ (\E c \in Made : Running(c))
                           \/ ~isConnected /\ (\E j \in Calls : Starting(j))
     ELSE Refused(k) /\ UNCHANGED <<looper, overlapped>>
  /\ UNCHANGED <<threadVars, clients, serviceVars, missed>>

\* The call the looper is at: accepted, without a thread yet.
Accepted(k) == looper = "make" /\ calls[k] = "pending" /\ threads[k] = "none"

MakeClient(k) ==
  /\ Accepted(k)
  /\ clients' = Append(clients, [call |-> k, callback |-> 0, answers |-> 0, state |-> "new",
                                 answering |-> FALSE, reporting |-> 0])
  /\ morphClient' = Len(clients')
  /\ threads' = [threads EXCEPT ![k] = "new"]
  /\ looper' = "idle"
  /\ UNCHANGED <<calls, held, isConnected, historyVars>>

\* A parameter is missing, or the constructor throws: "Failed to connect".
ConnectFails(k) ==
  /\ Accepted(k)
  /\ calls' = [calls EXCEPT ![k] = "error"]
  /\ looper' = "idle"
  /\ UNCHANGED <<threadVars, clients, serviceVars, historyVars>>

\* disconnectClient, also from onDestroy; it is refused without a connection.
Disconnect ==
  /\ looper = "idle" /\ isConnected
  /\ looper' = "stop"
  /\ UNCHANGED <<calls, threadVars, clients, serviceVars, historyVars>>

\* stop() returns at once on a client that does not run.
StopClient ==
  /\ looper = "stop"
  /\ clients' = [c \in Made |-> IF c = morphClient /\ Running(c)
                                THEN [clients[c] EXCEPT !.state = "stopped"] ELSE clients[c]]
  /\ looper' = "clear"
  /\ missed' = (missed \/ \E k \in Calls : Starting(k))
  /\ UNCHANGED <<calls, threadVars, serviceVars, overlapped>>

ClearConnected ==
  /\ looper = "clear"
  /\ isConnected' = FALSE
  /\ looper' = "drop"
  /\ UNCHANGED <<calls, threadVars, clients, morphClient, historyVars>>

DropClient ==
  /\ looper = "drop"
  /\ morphClient' = 0
  /\ looper' = "idle"
  /\ UNCHANGED <<calls, threadVars, clients, isConnected, historyVars>>

Looper ==
  \/ \E k \in Calls : MakeClient(k) \/ ConnectFails(k)
  \/ StopClient \/ ClearConnected \/ DropClient

-----------------------------------------------------------------------------
(* On the threads of connects and clients. *)

\* The thread reads morphClient only now; null starts nothing.
ReadClient(k) ==
  /\ threads[k] = "new"
  /\ held' = [held EXCEPT ![k] = morphClient]
  /\ threads' = [threads EXCEPT ![k] = IF morphClient = 0 THEN "started" ELSE "holding"]
  /\ UNCHANGED <<calls, looper, clients, serviceVars, historyVars>>

\* Mutant: start() is given no callback.
OnConnectedNone(k) == 0

OnConnected(k) == k

\* start() takes the callback before it tests isRunning.
TakeCallback(k) ==
  /\ threads[k] = "holding"
  /\ clients' = [clients EXCEPT ![held[k]].callback = OnConnected(k)]
  /\ threads' = [threads EXCEPT ![k] = "starting"]
  /\ UNCHANGED <<calls, looper, held, serviceVars, historyVars>>

\* Nothing changes for a client that runs already.
StartClient(k) ==
  /\ threads[k] = "starting"
  /\ clients' = [clients EXCEPT ![held[k]].state = "running"]
  /\ threads' = [threads EXCEPT ![k] = "started"]
  /\ UNCHANGED <<calls, looper, held, serviceVars, historyVars>>

ConnectThread(k) == ReadClient(k) \/ TakeCallback(k) \/ StartClient(k)

\* The client handles an answer; whether stop() comes first does not matter
\* to the callback at the end.
Answer(c) ==
  /\ Running(c) /\ ~clients[c].answering /\ clients[c].reporting = 0
  /\ clients[c].answers < MaxAnswers
  /\ clients' = [clients EXCEPT ![c].answering = TRUE, ![c].answers = @ + 1]
  /\ UNCHANGED <<calls, looper, threadVars, serviceVars, historyVars>>

\* Mutant: the service is not told.
ConnectedNot == isConnected

Connected == TRUE

\* The callback tells the service, then the app.
Callback(c) ==
  /\ clients[c].answering
  /\ clients' = [clients EXCEPT ![c].answering = FALSE, ![c].reporting = clients[c].callback]
  /\ isConnected' = Connected
  /\ UNCHANGED <<calls, looper, threadVars, morphClient, historyVars>>

\* MSG_CONNECT_SUCCESS; a call that was answered is not answered again.
Report(c) ==
  /\ clients[c].reporting # 0
  /\ clients' = [clients EXCEPT ![c].reporting = 0]
  /\ calls' = [calls EXCEPT ![clients[c].reporting] = IF @ = "pending" THEN "success" ELSE @]
  /\ UNCHANGED <<looper, threadVars, serviceVars, historyVars>>

\* No socket, "inactivity", "server_full" or the last retry: start() returns,
\* nobody is told.
SelfStop(c) ==
  /\ Running(c)
  /\ clients' = [clients EXCEPT ![c].state = "stopped"]
  /\ UNCHANGED <<calls, looper, threadVars, serviceVars, historyVars>>

-----------------------------------------------------------------------------
Init ==
  /\ calls = [k \in Calls |-> "unmade"]
  /\ looper = "idle"
  /\ threads = [k \in Calls |-> "none"] /\ held = [k \in Calls |-> 0]
  /\ clients = <<>> /\ morphClient = 0
  /\ isConnected = FALSE
  /\ overlapped = FALSE /\ missed = FALSE

Next ==
  \/ Disconnect
  \/ Looper
  \/ \E k \in Calls : Connect(k) \/ ConnectThread(k)
  \/ \E c \in Made : Answer(c) \/ Callback(c) \/ Report(c) \/ SelfStop(c)

\* Looper and threads run; a client that has had no answer gets one or gives up
\* (AndroidUdpClient!Settles).
Fairness ==
  /\ WF_vars(Looper)
  /\ \A k \in Calls : WF_vars(ConnectThread(k))
  /\ \A c \in Calls :
       /\ WF_vars(c \in Made /\ (Callback(c) \/ Report(c)))
       /\ WF_vars(c \in Made /\ clients[c].answers = 0 /\ (Answer(c) \/ SelfStop(c)))

Spec == Init /\ [][Next]_vars /\ Fairness

-----------------------------------------------------------------------------
(* Properties. *)

\* Every variable keeps to its type, and whoever handles an answer has a call
\* to report it to.
TypeOK ==
  /\ calls \in [Calls -> {"unmade", "pending", "success", "error"}]
  /\ looper \in {"idle", "make", "stop", "clear", "drop"}
  /\ threads \in [Calls -> {"none", "new", "holding", "starting", "started"}]
  /\ held \in [Calls -> 0..MaxCalls]
  /\ \A k \in Calls : /\ held[k] <= Len(clients)
                      /\ threads[k] \in {"holding", "starting"} => held[k] # 0
  /\ clients \in Seq(MorphClient) /\ Len(clients) <= MaxCalls
  /\ \A c \in Made : clients[c].answering => clients[c].callback \in Calls
  /\ morphClient \in 0..Len(clients)
  /\ isConnected \in BOOLEAN /\ overlapped \in BOOLEAN /\ missed \in BOOLEAN

\* A client that runs is the one the service refers to: after a disconnect
\* none runs, whatever threads and callbacks were under way.  Two orders of
\* events break that and are excepted: a connect during another's handshake
\* (MorphProtocolService.kt:174), and a disconnect, let in by the late callback
\* of an earlier client, whose stop() comes before the new client's start()
\* (line 296).
OneClient ==
  ~overlapped /\ ~missed => \A c \in Made : Running(c) => c = morphClient

\* A client whose session was reported and that still runs can be
\* disconnected, with the same exceptions: the service takes it for connected.
Disconnectable ==
  ~overlapped /\ ~missed =>
    \A c \in Made : Running(c) /\ clients[c].callback # 0
                      /\ calls[clients[c].callback] = "success" => isConnected

\* A connect is answered in the end, unless it overlapped another's handshake,
\* its client stopped first, or it was dropped before it could start: start()
\* then returns and no reply is sent (MorphProtocolService.kt:256).
ConnectSettles ==
  \A k \in Calls :
    calls[k] = "pending" ~>
      \/ calls[k] # "pending" \/ overlapped
      \/ \E c \in Made : clients[c].call = k /\ ~Running(c) /\ ~Starting(k)
=============================================================================
