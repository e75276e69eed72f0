------------------------- MODULE AndroidServiceProofs -------------------------
(* Theorems about AndroidService, for every value of its constants. *)
EXTENDS AndroidService, TLAPS

(* The parts of the invariant.  Calls are made in their order, and the     *)
(* clients follow it: so there are never more clients than calls.  A call  *)
(* is known to a client only once its thread has taken that client, so     *)
(* what starts a client cannot bring back a success that was reported      *)
(* before.                                                                 *)

Order ==
  /\ \A j, k \in Calls : j < k /\ calls[j] = "unmade" => calls[k] = "unmade"
  /\ \A k \in Calls : calls[k] = "unmade" => threads[k] = "none"
  /\ \A k \in Calls : calls[k] = "pending" /\ threads[k] = "none" =>
       looper = "make" /\ \A j \in Calls : k < j => calls[j] = "unmade"
  /\ \A c \in Made : threads[clients[c].call] # "none" /\ c <= clients[c].call

\* The thread of call k has given the client c its callback.
Took(k, c) == threads[k] \in {"starting", "started"} /\ held[k] = c

Reported ==
  /\ \A k \in Calls : threads[k] = "starting" => clients[held[k]].callback # 0
  /\ \A k \in Calls : calls[k] = "success" => \E c \in Made : Took(k, c) /\ clients[c].state # "new"
  /\ \A c \in Made :
       /\ clients[c].state # "new" => clients[c].callback # 0
       /\ clients[c].callback # 0 => Took(clients[c].callback, c)
       /\ clients[c].reporting # 0 => Took(clients[c].reporting, c) /\ clients[c].state # "new"
       /\ clients[c].answering => clients[c].state # "new"

\* None of the two excepted orders of events has come about.
Regular == ~overlapped /\ ~missed

\* A thread that has yet to start its client is alone, and its client is the
\* current one and untouched; while the looper makes a client, or after its
\* stop(), no client runs and no thread is about to start one.
Current ==
  /\ \A k \in Calls : Starting(k) =>
       /\ morphClient # 0 /\ clients[morphClient].call = k /\ clients[morphClient].state = "new"
       /\ threads[k] # "new" => held[k] = morphClient
  /\ looper \in {"make", "clear", "drop"} =>
       (\A c \in Made : ~Running(c)) /\ (\A k \in Calls : ~Starting(k))
  /\ \A c \in Made : Running(c) /\ clients[c].reporting # 0 => isConnected

Inv == TypeOK /\ OneClient /\ Disconnectable /\ Order /\ Reported /\ (Regular => Current)

-----------------------------------------------------------------------------
(* The clients as a function. *)

\* The clients are a function on 1..n, and each has the fields of its type.
LEMMA Clients ==
  ASSUME TypeOK
  PROVE  /\ Len(clients) \in Nat /\ clients \in [Made -> MorphClient]
         /\ 0 \notin Made /\ 0 \notin Calls
         /\ morphClient \in {0} \cup Made
         /\ \A k \in Calls : /\ held[k] \in {0} \cup Made
                             /\ threads[k] \in {"holding", "starting"} => held[k] \in Made
         /\ \A c \in Made :
              /\ clients[c] \in MorphClient
              /\ clients[c].call \in Calls /\ clients[c].callback \in {0} \cup Calls
              /\ clients[c].reporting \in {0} \cup Calls
              /\ clients[c].state \in {"new", "running", "stopped"}
              /\ clients[c].answering => clients[c].callback \in Calls
<1>1. Len(clients) \in Nat /\ clients \in [Made -> MorphClient]
  BY DEF TypeOK, Made
<1>2. \A m \in MorphClient : /\ m.call \in Calls /\ m.callback \in {0} \cup Calls
                             /\ m.reporting \in {0} \cup Calls
                             /\ m.state \in {"new", "running", "stopped"}
  BY ServiceAssumption DEF MorphClient, Calls
<1>3. 0 \notin Made /\ 0 \notin Calls
  BY <1>1 DEF Made, Calls
<1>4. morphClient \in {0} \cup Made
  BY <1>1 DEF TypeOK, Made
<1>5. \A k \in Calls : held[k] \in {0} \cup Made
  BY <1>1, ServiceAssumption DEF TypeOK, Made
<1>6. \A k \in Calls : threads[k] \in {"holding", "starting"} => held[k] \in Made
  BY <1>5 DEF TypeOK
<1>7. \A c \in Made : clients[c] \in MorphClient
  BY <1>1
<1> QED
  BY <1>1, <1>2, <1>3, <1>4, <1>5, <1>6, <1>7 DEF TypeOK

\* A step that changes clients in place makes none and drops none.
LEMMA Kept ==
  ASSUME TypeOK, clients' \in [Made -> MorphClient]
  PROVE  clients' \in Seq(MorphClient) /\ Len(clients') = Len(clients) /\ Made' = Made
<1>1. Len(clients) \in Nat
  BY Clients
<1>2. clients' \in [1..Len(clients) -> MorphClient]
  BY DEF Made
<1> QED
  BY <1>1, <1>2 DEF Made

\* A step of one client.
LEMMA Changed ==
  ASSUME TypeOK, NEW c \in Made, NEW m \in MorphClient, clients' = [clients EXCEPT ![c] = m]
  PROVE  /\ clients' \in Seq(MorphClient) /\ Len(clients') = Len(clients) /\ Made' = Made
         /\ clients'[c] = m /\ \A x \in Made \ {c} : clients'[x] = clients[x]
<1>1. /\ clients'[c] = m /\ \A x \in Made \ {c} : clients'[x] = clients[x]
      /\ clients' \in [Made -> MorphClient]
  BY Clients
<1> QED
  BY <1>1, Kept

\* A connect makes one more client.
LEMMA Appended ==
  ASSUME TypeOK, NEW m \in MorphClient, clients' = Append(clients, m)
  PROVE  /\ clients' \in Seq(MorphClient) /\ Len(clients') = Len(clients) + 1
         /\ Made' = Made \cup {Len(clients) + 1}
         /\ \A c \in Made : clients'[c] = clients[c]
         /\ clients'[Len(clients) + 1] = m
BY DEF TypeOK, Made

-----------------------------------------------------------------------------
(* The looper. *)

\* Initially no call was made.
LEMMA InitInv == Init => Inv
<1> SUFFICES ASSUME Init PROVE Inv
  OBVIOUS
<1>1. clients = <<>> /\ Made = {}
  BY DEF Init, Made
<1>2. clients \in Seq(MorphClient) /\ Len(clients) = 0
  BY <1>1
<1>3. TypeOK
  <2>1. \A c \in Made : clients[c].answering => clients[c].callback \in Calls
    BY <1>1
  <2>2. morphClient \in 0..Len(clients) /\ Len(clients) <= MaxCalls
    BY <1>2, ServiceAssumption DEF Init
  <2>3. held \in [Calls -> 0..MaxCalls] /\ \A k \in Calls : held[k] <= Len(clients)
    BY <1>2, ServiceAssumption DEF Init
  <2> QED
    BY <1>2, <2>1, <2>2, <2>3 DEF Init, TypeOK
<1>4. OneClient /\ Disconnectable /\ Order /\ Reported /\ Current
  BY <1>1 DEF Init, OneClient, Disconnectable, Order, Reported, Current, Starting
<1> QED
  BY <1>3, <1>4 DEF Inv

\* A connect that is accepted: no client runs and no thread is to start one,
\* or the overlap is noted.
LEMMA AcceptedInv ==
  ASSUME Inv, NEW k \in Calls, Connect(k), Accepts
  PROVE  Inv'
<1>1. /\ looper = "idle" /\ looper' = "make" /\ ~isConnected
      /\ calls' = [calls EXCEPT ![k] = "pending"]
      /\ calls[k] = "unmade" /\ \A j \in 1..k - 1 : calls[j] # "unmade"
      /\ UNCHANGED <<threads, held, clients, morphClient, isConnected, missed>>
  BY DEF Connect, Accepts, threadVars, serviceVars
<1>2. /\ overlapped' \in BOOLEAN
      /\ ~overlapped' => /\ ~overlapped /\ \A c \in Made : ~Running(c)
                         /\ \A j \in Calls : ~Starting(j)
  BY DEF Connect, Accepts, Inv, TypeOK
<1>3. TypeOK /\ Made' = Made
  BY <1>1 DEF Inv, Made
<1>4. /\ \A j \in Calls \ {k} : calls'[j] = calls[j]
      /\ calls'[k] = "pending"
      /\ calls' \in [Calls -> {"unmade", "pending", "success", "error"}]
  BY <1>1, <1>3 DEF TypeOK
<1>5. TypeOK'
  BY <1>1, <1>2, <1>3, <1>4 DEF TypeOK
<1>6. Regular' => Regular /\ (\A c \in Made : ~Running(c)) /\ \A j \in Calls : ~Starting(j)
  BY <1>1, <1>2 DEF Regular
<1>7. OneClient' /\ Disconnectable'
  BY <1>1, <1>3, <1>6 DEF OneClient, Disconnectable, Running, Regular
<1>8. Order'
  <2>1. \A i, j \in Calls : i < j /\ calls'[i] = "unmade" => calls'[j] = "unmade"
    BY <1>1, <1>4 DEF Inv, Order, Calls
  <2>2. \A j \in Calls : calls'[j] = "unmade" => threads[j] = "none"
    BY <1>4 DEF Inv, Order
  <2>3. \A j \in Calls : k < j => calls'[j] = "unmade"
    BY <1>1, <1>4 DEF Inv, Order, Calls
  <2>4. \A j \in Calls : calls'[j] = "pending" /\ threads[j] = "none" => j = k
    BY <1>1, <1>4 DEF Inv, Order
  <2> QED
    BY <1>1, <1>3, <2>1, <2>2, <2>3, <2>4 DEF Inv, Order
<1>9. Reported'
  BY <1>1, <1>3, <1>4 DEF Inv, Reported, Took
<1>10. Regular' => Current'
  BY <1>1, <1>3, <1>6 DEF Current, Running, Starting
<1> QED
  BY <1>5, <1>7, <1>8, <1>9, <1>10 DEF Inv

\* A call that becomes an error, with or without the looper at it.
LEMMA ErrorInv ==
  ASSUME Inv, NEW k \in Calls, calls' = [calls EXCEPT ![k] = "error"],
         \A j \in 1..k - 1 : calls[j] # "unmade",
         threads[k] = "none", calls[k] # "success",
         looper' = "idle", (looper = "idle") \/ Accepted(k),
         UNCHANGED <<threads, held, clients, morphClient, isConnected, overlapped, missed>>
  PROVE  Inv'
<1>1. TypeOK /\ Made' = Made
  BY DEF Inv, Made
<1>2. /\ \A j \in Calls \ {k} : calls'[j] = calls[j]
      /\ calls'[k] = "error"
      /\ calls' \in [Calls -> {"unmade", "pending", "success", "error"}]
      /\ looper' \in {"idle", "make", "stop", "clear", "drop"}
  BY <1>1 DEF TypeOK
<1>3. TypeOK'
  BY <1>1, <1>2 DEF TypeOK
<1>4. OneClient'
  BY <1>1 DEF Inv, OneClient, Running
<1>5. Disconnectable'
  BY <1>1, <1>2, Clients DEF Inv, Disconnectable, Running
<1>6. Order'
  <2>1. \A i, j \in Calls : i < j /\ calls'[i] = "unmade" => calls'[j] = "unmade"
    BY <1>2 DEF Inv, Order, Calls
  <2>2. \A j \in Calls : calls'[j] = "unmade" => threads[j] = "none"
    BY <1>2 DEF Inv, Order
  <2>3. ASSUME NEW j \in Calls, calls'[j] = "pending", threads[j] = "none"
        PROVE  looper' = "make" /\ \A i \in Calls : j < i => calls'[i] = "unmade"
    <3>1. j # k /\ calls[j] = "pending"
      BY <1>2, <2>3
    <3>2. \A i \in Calls : j < i => calls[i] = "unmade"
      BY <2>3, <3>1 DEF Inv, Order
    <3>3. looper = "make"
      BY <2>3, <3>1 DEF Inv, Order
    <3>4. Accepted(k)
      BY <3>3
    <3>5. ~(k < j) /\ ~(j < k)
      BY <3>1, <3>2, <3>4 DEF Inv, Order, Accepted
    <3> QED
      BY <3>1, <3>5 DEF Calls
  <2> QED
    BY <1>1, <2>1, <2>2, <2>3 DEF Inv, Order
<1>7. Reported'
  BY <1>1, <1>2 DEF Inv, Reported, Took
<1>8. Regular' => Current'
  BY <1>1, <1>2 DEF Inv, Regular, Current, Running, Starting
<1> QED
  BY <1>3, <1>4, <1>5, <1>6, <1>7, <1>8 DEF Inv

\* A connect that is refused is made and answered at once.
LEMMA RefusedInv ==
  ASSUME Inv, NEW k \in Calls, Connect(k), ~Accepts
  PROVE  Inv'
<1>1. /\ calls' = [calls EXCEPT ![k] = "error"] /\ looper' = "idle" /\ looper = "idle"
      /\ calls[k] = "unmade" /\ \A j \in 1..k - 1 : calls[j] # "unmade"
      /\ UNCHANGED <<threads, held, clients, morphClient, isConnected, overlapped, missed>>
  BY DEF Connect, Refused, threadVars, serviceVars
<1>2. threads[k] = "none" /\ calls[k] # "success"
  BY <1>1 DEF Inv, Order
<1> QED
  BY <1>1, <1>2, ErrorInv

\* A connect that fails leaves the service as it was.
LEMMA ConnectFailsInv ==
  ASSUME Inv, NEW k \in Calls, ConnectFails(k)
  PROVE  Inv'
<1>1. /\ calls' = [calls EXCEPT ![k] = "error"] /\ looper' = "idle" /\ Accepted(k)
      /\ UNCHANGED <<threads, held, clients, morphClient, isConnected, overlapped, missed>>
  BY DEF ConnectFails, threadVars, serviceVars, historyVars
<1>2. threads[k] = "none" /\ calls[k] # "success"
  BY <1>1 DEF Accepted
<1>3. \A j \in 1..k - 1 : calls[j] # "unmade"
  <2> SUFFICES ASSUME NEW j \in 1..k - 1, calls[j] = "unmade"
               PROVE  FALSE
    OBVIOUS
  <2>1. j \in Calls /\ j < k
    BY ServiceAssumption DEF Calls
  <2>2. calls[k] = "unmade"
    BY <2>1 DEF Inv, Order
  <2> QED
    BY <1>1, <2>2 DEF Accepted
<1> QED
  BY <1>1, <1>2, <1>3, ErrorInv

\* The client that is made belongs to the latest call.
LEMMA MakeClientInv ==
  ASSUME Inv, NEW k \in Calls, MakeClient(k)
  PROVE  Inv'
<1> DEFINE n == Len(clients) + 1
           m == [call |-> k, callback |-> 0, answers |-> 0, state |-> "new",
                 answering |-> FALSE, reporting |-> 0]
<1>1. /\ looper = "make" /\ calls[k] = "pending" /\ threads[k] = "none" /\ looper' = "idle"
      /\ clients' = Append(clients, m) /\ morphClient' = Len(clients')
      /\ threads' = [threads EXCEPT ![k] = "new"]
      /\ UNCHANGED <<calls, held, isConnected, overlapped, missed>>
  BY DEF MakeClient, Accepted, historyVars
<1>2. m \in MorphClient
  BY ServiceAssumption DEF MorphClient, Calls
<1>3. TypeOK
  BY DEF Inv
<1>4. /\ clients' \in Seq(MorphClient) /\ Len(clients') = n /\ Made' = Made \cup {n}
      /\ \A c \in Made : clients'[c] = clients[c]
      /\ clients'[n] = m
  BY <1>1, <1>2, <1>3, Appended
<1>5. Len(clients) \in Nat /\ n \in Nat /\ n \notin Made
  BY <1>3, Clients DEF Made
<1>6. /\ clients'[n].call = k /\ clients'[n].callback = 0 /\ clients'[n].state = "new"
      /\ ~clients'[n].answering /\ clients'[n].reporting = 0
  BY <1>4
<1>7. Len(clients) # 0 => Len(clients) \in Made
  BY <1>5 DEF Made
<1>8. n = Len(clients) + 1
  OBVIOUS
<1> HIDE DEF n, m
<1>9. /\ \A j \in Calls \ {k} : threads'[j] = threads[j]
      /\ threads'[k] = "new"
      /\ threads' \in [Calls -> {"none", "new", "holding", "starting", "started"}]
  BY <1>1, <1>3 DEF TypeOK
<1>10. \A c \in Made : clients[c].call \in Calls /\ clients[c].call < k
  <2> SUFFICES ASSUME NEW c \in Made
               PROVE  clients[c].call < k
    BY <1>3, Clients
  <2>1. clients[c].call \in Calls /\ threads[clients[c].call] # "none"
    BY <1>3, Clients DEF Inv, Order
  <2>2. calls[clients[c].call] # "unmade" /\ clients[c].call # k
    BY <1>1, <2>1 DEF Inv, Order
  <2>3. ~(k < clients[c].call)
    BY <1>1, <2>1, <2>2 DEF Inv, Order
  <2> QED
    BY <2>1, <2>2, <2>3 DEF Calls
<1>11. n <= k
  <2>1. CASE Len(clients) = 0
    BY <1>8, <2>1 DEF Calls
  <2>2. CASE Len(clients) # 0
    <3>1. Len(clients) \in Made /\ Len(clients) <= clients[Len(clients)].call
      BY <1>7, <2>2 DEF Inv, Order
    <3> QED
      BY <1>5, <1>8, <3>1, <1>10 DEF Calls
  <2> QED
    BY <2>1, <2>2
<1>12. TypeOK'
  <2>1. n <= MaxCalls /\ morphClient' \in 0..n
    BY <1>1, <1>4, <1>5, <1>11, ServiceAssumption DEF Calls
  <2>2. \A c \in Made' : clients'[c].answering => clients'[c].callback \in Calls
    BY <1>3, <1>4, <1>6 DEF TypeOK
  <2>3. \A j \in Calls : /\ held[j] <= n
                         /\ threads'[j] \in {"holding", "starting"} => held[j] # 0
    <3> SUFFICES ASSUME NEW j \in Calls
                 PROVE  /\ held[j] <= n
                        /\ threads'[j] \in {"holding", "starting"} => held[j] # 0
      OBVIOUS
    <3>1. held[j] \in 0..MaxCalls /\ held[j] <= Len(clients)
      BY <1>3 DEF TypeOK
    <3>2. held[j] <= n
      BY <1>5, <1>8, <3>1, ServiceAssumption
    <3>3. threads'[j] \in {"holding", "starting"} => held[j] # 0
      BY <1>3, <1>9 DEF TypeOK
    <3> QED
      BY <3>2, <3>3
  <2>4. /\ calls' \in [Calls -> {"unmade", "pending", "success", "error"}]
        /\ looper' \in {"idle", "make", "stop", "clear", "drop"}
        /\ held' \in [Calls -> 0..MaxCalls]
        /\ isConnected' \in BOOLEAN /\ overlapped' \in BOOLEAN /\ missed' \in BOOLEAN
    BY <1>1, <1>3 DEF TypeOK
  <2> QED
    BY <1>1, <1>4, <1>9, <2>1, <2>2, <2>3, <2>4 DEF TypeOK
<1>13. Regular' => /\ Regular
                   /\ \A c \in Made' : ~(clients'[c].state = "running")
                   /\ \A j \in Calls : ~Starting(j)
  <2> SUFFICES ASSUME Regular'
               PROVE  /\ Regular
                      /\ \A c \in Made' : ~(clients'[c].state = "running")
                      /\ \A j \in Calls : ~Starting(j)
    OBVIOUS
  <2>1. Regular
    BY <1>1 DEF Regular
  <2>2. (\A c \in Made : ~Running(c)) /\ (\A j \in Calls : ~Starting(j))
    BY <1>1, <2>1 DEF Inv, Current
  <2> QED
    BY <1>4, <1>6, <2>1, <2>2 DEF Running
<1>14. OneClient' /\ Disconnectable'
  BY <1>13 DEF OneClient, Disconnectable, Regular, Running
<1>15. Order'
  <2>1. \A j \in Calls : calls'[j] = "unmade" => threads'[j] = "none"
    BY <1>1, <1>9 DEF Inv, Order
  <2>2. \A j \in Calls : ~(calls'[j] = "pending" /\ threads'[j] = "none")
    <3> SUFFICES ASSUME NEW j \in Calls, calls[j] = "pending", threads[j] = "none", j # k
                 PROVE  FALSE
      BY <1>1, <1>9
    <3>1. ~(k < j) /\ ~(j < k)
      BY <1>1 DEF Inv, Order
    <3> QED
      BY <3>1 DEF Calls
  <2>3. \A c \in Made : threads'[clients'[c].call] # "none" /\ c <= clients'[c].call
    BY <1>4, <1>9, <1>10 DEF Inv, Order
  <2>4. threads'[clients'[n].call] # "none" /\ n <= clients'[n].call
    BY <1>6, <1>9, <1>11
  <2> QED
    BY <1>1, <1>4, <2>1, <2>2, <2>3, <2>4 DEF Inv, Order
<1>16. Reported'
  <2>1. \A c \in Made : \A j \in Calls : Took(j, c) => Took(j, c)'
    BY <1>1, <1>9 DEF Took
  <2>2. \A j \in Calls : threads'[j] = "starting" => clients'[held[j]].callback # 0
    <3> SUFFICES ASSUME NEW j \in Calls, threads'[j] = "starting"
                 PROVE  clients'[held[j]].callback # 0
      OBVIOUS
    <3>1. threads[j] = "starting"
      BY <1>9
    <3>2. held[j] \in Made
      BY <1>3, <3>1, Clients
    <3> QED
      BY <1>4, <3>1, <3>2 DEF Inv, Reported
  <2>3. \A j \in Calls : calls'[j] = "success" =>
           \E c \in Made : Took(j, c)' /\ clients'[c].state # "new"
    BY <1>1, <1>4, <2>1 DEF Inv, Reported
  <2>4. \A c \in Made :
          /\ clients'[c].state # "new" => clients'[c].callback # 0
          /\ clients'[c].callback # 0 => Took(clients[c].callback, c)'
          /\ clients'[c].reporting # 0 => Took(clients[c].reporting, c)' /\ clients'[c].state # "new"
          /\ clients'[c].answering => clients'[c].state # "new"
    BY <1>3, <1>4, <2>1, Clients DEF Inv, Reported
  <2>5. /\ clients'[n].state = "new" /\ clients'[n].callback = 0
        /\ ~clients'[n].answering /\ clients'[n].reporting = 0
    BY <1>6
  <2>6. \A c \in Made' :
          /\ clients'[c].state # "new" => clients'[c].callback # 0
          /\ clients'[c].callback # 0 => Took(clients[c].callback, c)'
          /\ clients'[c].reporting # 0 => Took(clients[c].reporting, c)' /\ clients'[c].state # "new"
          /\ clients'[c].answering => clients'[c].state # "new"
    BY <1>4, <2>4, <2>5
  <2>7. \A j \in Calls : calls'[j] = "success" =>
           \E c \in Made' : Took(j, c)' /\ clients'[c].state # "new"
    BY <1>4, <2>3
  <2> QED
    BY <1>1, <2>2, <2>6, <2>7 DEF Reported
<1>17. Regular' => Current'
  <2> SUFFICES ASSUME Regular'
               PROVE  Current'
    OBVIOUS
  <2>1. \A j \in Calls : Starting(j)' => j = k
    BY <1>9, <1>13 DEF Starting
  <2>2. morphClient' = n /\ n # 0
    BY <1>1, <1>4, <1>5, <1>8
  <2> QED
    BY <1>1, <1>6, <1>9, <1>13, <2>1, <2>2 DEF Current, Running, Starting
<1> QED
  BY <1>12, <1>14, <1>15, <1>16, <1>17 DEF Inv

\* What a step does that gives no client a callback and starts none.
StartsNone ==
  /\ Made' = Made
  /\ \A c \in Made :
       /\ clients'[c].call = clients[c].call /\ clients'[c].callback = clients[c].callback
       /\ clients'[c].state = "new" <=> clients[c].state = "new"
       /\ clients'[c].state = "running" => clients[c].state = "running"

\* Such a step keeps Order unless it changes threads or what is pending.
LEMMA OrderKept ==
  ASSUME Inv, StartsNone, UNCHANGED <<threads, held>>,
         looper' = looper \/ looper \in {"idle", "stop", "clear", "drop"},
         \A k \in Calls : /\ calls'[k] = "unmade" <=> calls[k] = "unmade"
                          /\ calls'[k] = "pending" => calls[k] = "pending"
  PROVE  Order'
<1>1. \A k \in Calls : calls'[k] = "pending" /\ threads'[k] = "none" =>
         looper' = "make" /\ \A j \in Calls : k < j => calls'[j] = "unmade"
  BY DEF Inv, Order
<1>2. \A c \in Made' : threads'[clients'[c].call] # "none" /\ c <= clients'[c].call
  BY DEF Inv, Order, StartsNone
<1> QED
  BY <1>1, <1>2 DEF Inv, Order

\* It keeps Reported unless it begins to report or reports.
LEMMA ReportedKept ==
  ASSUME Inv, StartsNone, UNCHANGED <<calls, threads, held>>,
         \A c \in Made : /\ clients'[c].reporting = clients[c].reporting
                         /\ clients'[c].answering => clients[c].state # "new"
  PROVE  Reported'
<1>1. \A k \in Calls : threads'[k] = "starting" => clients'[held'[k]].callback # 0
  <2> SUFFICES ASSUME NEW k \in Calls, threads[k] = "starting"
               PROVE  clients'[held[k]].callback # 0
    OBVIOUS
  <2>1. held[k] \in Made
    BY Clients DEF Inv
  <2> QED
    BY <2>1 DEF Inv, Reported, StartsNone
<1>2. \A k \in Calls : calls'[k] = "success" =>
         \E c \in Made' : Took(k, c)' /\ clients'[c].state # "new"
  BY DEF Inv, Reported, StartsNone, Took
<1>3. \A c \in Made' :
         /\ clients'[c].state # "new" => clients'[c].callback # 0
         /\ clients'[c].callback # 0 => Took(clients[c].callback, c)'
         /\ clients'[c].reporting # 0 => Took(clients[c].reporting, c)' /\ clients'[c].state # "new"
         /\ clients'[c].answering => clients'[c].state # "new"
  BY DEF Inv, Reported, StartsNone, Took
<1> QED
  BY <1>1, <1>2, <1>3 DEF Reported

\* A step of the looper that touches no client: it goes on, clears isConnected
\* or drops the client, and no client runs then.
LEMMA LooperInv ==
  ASSUME Inv, UNCHANGED <<calls, threads, held, clients, overlapped, missed>>,
         \/ looper = "idle" /\ looper' = "stop" /\ UNCHANGED <<morphClient, isConnected>>
         \/ /\ looper = "clear" /\ looper' = "drop"
            /\ isConnected' = FALSE /\ morphClient' = morphClient
         \/ /\ looper = "drop" /\ looper' = "idle"
            /\ morphClient' = 0 /\ isConnected' = isConnected
  PROVE  Inv'
<1>1. TypeOK /\ Made' = Made /\ StartsNone
  BY DEF Inv, Made, StartsNone
<1>2. TypeOK'
  <2>1. Len(clients) \in Nat
    BY <1>1, Clients
  <2>2. morphClient \in 0..Len(clients) /\ isConnected \in BOOLEAN
    BY <1>1 DEF TypeOK
  <2>3. morphClient' \in 0..Len(clients)
    BY <2>1, <2>2
  <2>4. isConnected' \in BOOLEAN
    BY <2>2, Zenon
  <2>5. looper' \in {"idle", "make", "stop", "clear", "drop"}
    OBVIOUS
  <2> QED
    BY <1>1, <2>3, <2>4, <2>5 DEF TypeOK
<1>3. Order'
  <2>1. looper' = looper \/ looper \in {"idle", "stop", "clear", "drop"}
    OBVIOUS
  <2> QED
    BY <1>1, <2>1, OrderKept
<1>4. Reported'
  <2>1. \A c \in Made : /\ clients'[c].reporting = clients[c].reporting
                        /\ clients'[c].answering => clients[c].state # "new"
    BY DEF Inv, Reported
  <2> QED
    BY <1>1, <2>1, ReportedKept
<1>5. CASE looper = "idle"
  <2>1. looper' = "stop" /\ UNCHANGED <<morphClient, isConnected>>
    BY <1>5
  <2>2. OneClient'
    BY <1>1, <2>1 DEF Inv, OneClient, Running
  <2>3. Disconnectable'
    BY <1>1, <2>1 DEF Inv, Disconnectable, Running
  <2>4. Regular' => Current'
    BY <1>1, <2>1 DEF Inv, Regular, Current, Running, Starting
  <2> QED
    BY <1>2, <1>3, <1>4, <2>2, <2>3, <2>4 DEF Inv
<1>6. CASE looper \in {"clear", "drop"}
  <2>1. Regular' => (\A c \in Made : ~Running(c)) /\ (\A k \in Calls : ~Starting(k))
    BY <1>6 DEF Inv, Regular, Current
  <2>2. OneClient' /\ Disconnectable' /\ (Regular' => Current')
    BY <1>1, <2>1 DEF OneClient, Disconnectable, Regular, Current, Running, Starting
  <2> QED
    BY <1>2, <1>3, <1>4, <2>2 DEF Inv
<1> QED
  BY <1>5, <1>6

\* After stop() no client runs; a thread that has yet to start one is noted.
LEMMA StopClientInv ==
  ASSUME Inv, StopClient
  PROVE  Inv'
<1>1. /\ looper = "stop" /\ looper' = "clear"
      /\ UNCHANGED <<calls, threads, held, morphClient, isConnected, overlapped>>
      /\ missed' = (missed \/ \E k \in Calls : Starting(k))
  BY DEF StopClient, threadVars, serviceVars
<1>2. TypeOK
  BY DEF Inv
<1>3. \A c \in Made :
        /\ clients'[c] \in MorphClient
        /\ clients'[c].call = clients[c].call /\ clients'[c].callback = clients[c].callback
        /\ clients'[c].answering = clients[c].answering
        /\ clients'[c].reporting = clients[c].reporting
        /\ clients'[c].state = "new" <=> clients[c].state = "new"
        /\ clients'[c].state = "running" => clients[c].state = "running" /\ c # morphClient
  <2> SUFFICES ASSUME NEW c \in Made
               PROVE  /\ clients'[c] \in MorphClient
                      /\ clients'[c].call = clients[c].call
                      /\ clients'[c].callback = clients[c].callback
                      /\ clients'[c].answering = clients[c].answering
                      /\ clients'[c].reporting = clients[c].reporting
                      /\ clients'[c].state = "new" <=> clients[c].state = "new"
                      /\ clients'[c].state = "running" =>
                           clients[c].state = "running" /\ c # morphClient
    OBVIOUS
  <2>1. clients[c] \in MorphClient
    BY <1>2, Clients
  <2>2. CASE c = morphClient /\ clients[c].state = "running"
    <3>1. clients'[c] = [clients[c] EXCEPT !.state = "stopped"]
      BY <2>2 DEF StopClient, Running
    <3> QED
      BY <2>1, <2>2, <3>1 DEF MorphClient
  <2>3. CASE ~(c = morphClient /\ clients[c].state = "running")
    BY <2>1, <2>3 DEF StopClient, Running
  <2> QED
    BY <2>2, <2>3
<1>4. clients' \in Seq(MorphClient) /\ Len(clients') = Len(clients) /\ Made' = Made
  <2>1. clients' \in [Made -> MorphClient]
    BY <1>3 DEF StopClient
  <2> QED
    BY <1>2, <2>1, Kept
<1>5. StartsNone
  BY <1>3, <1>4 DEF StartsNone
<1>6. TypeOK'
  <2>1. \A c \in Made' : clients'[c].answering => clients'[c].callback \in Calls
    BY <1>2, <1>3, <1>4 DEF TypeOK
  <2>2. missed' \in BOOLEAN
    BY <1>1
  <2> QED
    BY <1>1, <1>2, <1>4, <2>1, <2>2 DEF TypeOK
<1>7. Regular' => (\A c \in Made' : ~Running(c)') /\ (\A k \in Calls : ~Starting(k)')
  <2> SUFFICES ASSUME Regular'
               PROVE  (\A c \in Made' : ~Running(c)') /\ (\A k \in Calls : ~Starting(k)')
    OBVIOUS
  <2>1. Regular /\ \A k \in Calls : ~Starting(k)
    BY <1>1 DEF Regular
  <2>2. \A c \in Made : Running(c) => c = morphClient
    BY <2>1 DEF Inv, OneClient, Regular
  <2> QED
    BY <1>1, <1>3, <1>4, <2>1, <2>2 DEF Running, Starting
<1>8. OneClient' /\ Disconnectable' /\ (Regular' => Current')
  BY <1>7 DEF OneClient, Disconnectable, Regular, Current
<1>9. Order'
  BY <1>1, <1>5, OrderKept
<1>10. Reported'
  <2>1. \A c \in Made : /\ clients'[c].reporting = clients[c].reporting
                        /\ clients'[c].answering => clients[c].state # "new"
    BY <1>3 DEF Inv, Reported
  <2> QED
    BY <1>1, <1>5, <2>1, ReportedKept
<1> QED
  BY <1>6, <1>8, <1>9, <1>10 DEF Inv

-----------------------------------------------------------------------------
(* The connect threads. *)

\* What a thread that was made changes of the calls' order: nothing.
LEMMA ThreadOrder ==
  ASSUME Inv, NEW k \in Calls, threads[k] # "none", threads'[k] # "none",
         \A j \in Calls \ {k} : threads'[j] = threads[j], UNCHANGED <<calls, looper>>,
         Made' = Made, \A c \in Made : clients'[c].call = clients[c].call
  PROVE  Order'
<1>1. calls[k] # "unmade"
  BY DEF Inv, Order
<1>2. \A j \in Calls : (threads'[j] = "none") <=> (threads[j] = "none")
  OBVIOUS
<1>3. \A c \in Made' : threads'[clients'[c].call] # "none" /\ c <= clients'[c].call
  BY <1>2, Clients DEF Inv, Order
<1>4. \A j \in Calls : calls'[j] = "unmade" => threads'[j] = "none"
  BY <1>2 DEF Inv, Order
<1>5. \A j \in Calls : calls'[j] = "pending" /\ threads'[j] = "none" =>
         looper' = "make" /\ \A i \in Calls : j < i => calls'[i] = "unmade"
  BY <1>2 DEF Inv, Order
<1> QED
  BY <1>3, <1>4, <1>5 DEF Inv, Order

\* A thread takes what the service refers to now; nobody knows its call yet.
LEMMA ReadClientInv ==
  ASSUME Inv, NEW k \in Calls, ReadClient(k)
  PROVE  Inv'
<1>1. /\ threads[k] = "new" /\ held' = [held EXCEPT ![k] = morphClient]
      /\ threads' = [threads EXCEPT ![k] = IF morphClient = 0 THEN "started" ELSE "holding"]
      /\ UNCHANGED <<calls, looper, clients, morphClient, isConnected, overlapped, missed>>
  BY DEF ReadClient, serviceVars, historyVars
<1>2. TypeOK /\ Made' = Made
  BY <1>1 DEF Inv, Made
<1>3. /\ \A j \in Calls \ {k} : threads'[j] = threads[j] /\ held'[j] = held[j]
      /\ threads'[k] = IF morphClient = 0 THEN "started" ELSE "holding"
      /\ held'[k] = morphClient
      /\ threads' \in [Calls -> {"none", "new", "holding", "starting", "started"}]
  BY <1>1, <1>2 DEF TypeOK
<1>4. TypeOK'
  <2>1. Len(clients) \in Nat /\ morphClient \in 0..Len(clients) /\ Len(clients) <= MaxCalls
    BY <1>2, Clients DEF TypeOK
  <2>2. morphClient \in 0..MaxCalls /\ morphClient <= Len(clients)
    BY <2>1, ServiceAssumption
  <2>3. held' \in [Calls -> 0..MaxCalls]
    BY <1>1, <1>2, <2>2 DEF TypeOK
  <2>4. \A j \in Calls : /\ held'[j] <= Len(clients)
                         /\ threads'[j] \in {"holding", "starting"} => held'[j] # 0
    BY <1>2, <1>3, <2>2 DEF TypeOK
  <2> QED
    BY <1>1, <1>2, <1>3, <2>3, <2>4 DEF TypeOK
<1>5. OneClient' /\ Disconnectable'
  BY <1>1, <1>2 DEF Inv, OneClient, Disconnectable, Running
<1>6. Order'
  BY <1>1, <1>2, <1>3, ThreadOrder
<1>7. Reported'
  <2>1. \A j \in Calls : \A c \in Made : Took(j, c) => Took(j, c)'
    BY <1>1, <1>3 DEF Took
  <2>2. \A j \in Calls : threads'[j] = "starting" => threads[j] = "starting" /\ held'[j] = held[j]
    BY <1>3
  <2>3. \A j \in Calls : threads'[j] = "starting" => clients'[held'[j]].callback # 0
    BY <1>1, <2>2 DEF Inv, Reported
  <2>4. \A j \in Calls : calls'[j] = "success" =>
           \E c \in Made' : Took(j, c)' /\ clients'[c].state # "new"
    BY <1>1, <1>2, <2>1 DEF Inv, Reported
  <2>5. \A c \in Made' :
          /\ clients'[c].state # "new" => clients'[c].callback # 0
          /\ clients'[c].callback # 0 => Took(clients[c].callback, c)'
          /\ clients'[c].reporting # 0 => Took(clients[c].reporting, c)' /\ clients'[c].state # "new"
          /\ clients'[c].answering => clients'[c].state # "new"
    <3> SUFFICES ASSUME NEW c \in Made
                 PROVE  /\ clients[c].state # "new" => clients[c].callback # 0
                        /\ clients[c].callback # 0 => Took(clients[c].callback, c)'
                        /\ clients[c].reporting # 0 =>
                             Took(clients[c].reporting, c)' /\ clients[c].state # "new"
                        /\ clients[c].answering => clients[c].state # "new"
      BY <1>1, <1>2
    <3>1. /\ clients[c].callback \in {0} \cup Calls
          /\ clients[c].reporting \in {0} \cup Calls
      BY <1>2, Clients
    <3>2. \A j \in Calls : j = clients[c].callback \/ j = clients[c].reporting =>
            (Took(j, c) => /\ threads'[j] \in {"starting", "started"} /\ held'[j] = c)
      BY <2>1 DEF Took
    <3> QED
      BY <1>1, <3>1, <3>2 DEF Inv, Reported, Took
  <2> QED
    BY <2>3, <2>4, <2>5 DEF Reported
<1>8. Regular' => Current'
  <2> SUFFICES ASSUME Regular'
               PROVE  Current'
    OBVIOUS
  <2>1. Regular /\ Current
    BY <1>1 DEF Inv, Regular
  <2>2. \A j \in Calls : Starting(j)' => Starting(j)
    BY <1>1, <1>3 DEF Starting
  <2>3. \A j \in Calls : Starting(j)' =>
          /\ morphClient' # 0 /\ clients'[morphClient'].call = j
          /\ clients'[morphClient'].state = "new"
          /\ threads'[j] # "new" => held'[j] = morphClient'
    BY <1>1, <1>3, <2>1, <2>2 DEF Current
  <2> QED
    BY <1>1, <1>2, <2>1, <2>2, <2>3 DEF Current, Running
<1> QED
  BY <1>4, <1>5, <1>6, <1>7, <1>8 DEF Inv

\* The client that is given a callback has its call from then on; the call was
\* not answered yet.
LEMMA TakeCallbackInv ==
  ASSUME Inv, NEW k \in Calls, TakeCallback(k)
  PROVE  Inv'
<1> DEFINE x == held[k]
           m == [clients[x] EXCEPT !.callback = k]
<1>1. /\ threads[k] = "holding" /\ threads' = [threads EXCEPT ![k] = "starting"]
      /\ clients' = [clients EXCEPT ![x] = m]
      /\ UNCHANGED <<calls, looper, held, morphClient, isConnected, overlapped, missed>>
  BY DEF TakeCallback, OnConnected, serviceVars, historyVars
<1>2. TypeOK /\ x \in Made /\ clients[x] \in MorphClient
  BY <1>1, Clients DEF Inv
<1>3. /\ m \in MorphClient /\ m.callback = k
      /\ m.call = clients[x].call /\ m.state = clients[x].state
      /\ m.answering = clients[x].answering /\ m.reporting = clients[x].reporting
  BY <1>2, ServiceAssumption DEF MorphClient, Calls
<1> HIDE DEF m
<1>4. /\ clients' \in Seq(MorphClient) /\ Len(clients') = Len(clients) /\ Made' = Made
      /\ clients'[x] = m /\ \A c \in Made \ {x} : clients'[c] = clients[c]
  BY <1>1, <1>2, <1>3, Changed
<1>5. /\ \A c \in Made : /\ clients'[c].call = clients[c].call
                         /\ clients'[c].state = clients[c].state
                         /\ clients'[c].answering = clients[c].answering
                         /\ clients'[c].reporting = clients[c].reporting
                         /\ c = x \/ clients'[c].callback = clients[c].callback
      /\ clients'[x].callback = k
  BY <1>3, <1>4
<1>6. /\ \A j \in Calls \ {k} : threads'[j] = threads[j]
      /\ threads'[k] = "starting"
      /\ threads' \in [Calls -> {"none", "new", "holding", "starting", "started"}]
  BY <1>1, <1>2 DEF TypeOK
<1>7. \A c \in Made : clients'[c].callback \in {0} \cup Calls /\ (clients[c].callback # 0 =>
                        clients'[c].callback # 0)
  BY <1>2, <1>5, Clients
<1>8. TypeOK'
  <2>1. \A c \in Made' : clients'[c].answering => clients'[c].callback \in Calls
    BY <1>2, <1>4, <1>5 DEF TypeOK
  <2>2. \A j \in Calls : /\ held'[j] <= Len(clients)
                         /\ threads'[j] \in {"holding", "starting"} => held'[j] # 0
    BY <1>1, <1>2, <1>6, Clients DEF TypeOK
  <2> QED
    BY <1>1, <1>2, <1>4, <1>6, <2>1, <2>2 DEF TypeOK
<1>9. \A j \in Calls : \A c \in Made : Took(j, c) => Took(j, c)'
  BY <1>1, <1>6 DEF Took
<1>10. calls[k] # "success"
  BY <1>1 DEF Inv, Reported, Took
<1>11. OneClient'
  BY <1>1, <1>4, <1>5 DEF Inv, OneClient, Running
<1>12. Disconnectable'
  <2> SUFFICES ASSUME Regular, NEW c \in Made, Running(c)', clients'[c].callback # 0,
                      calls[clients'[c].callback] = "success"
               PROVE  isConnected
    BY <1>1, <1>4 DEF Disconnectable, Regular
  <2>1. c # x
    BY <1>5, <1>10
  <2> QED
    BY <1>5, <2>1 DEF Inv, Disconnectable, Regular, Running
<1>13. Order'
  BY <1>1, <1>4, <1>5, <1>6, ThreadOrder
<1>14. Reported'
  <2>1. \A j \in Calls : threads'[j] = "starting" => clients'[held'[j]].callback # 0
    <3> SUFFICES ASSUME NEW j \in Calls, threads'[j] = "starting"
                 PROVE  clients'[held[j]].callback # 0
      BY <1>1
    <3>1. CASE j = k
      BY <1>2, <1>5, <3>1, Clients
    <3>2. CASE j # k
      <4>1. threads[j] = "starting" /\ held[j] \in Made
        BY <1>2, <1>6, <3>2, Clients
      <4> QED
        BY <1>7, <4>1 DEF Inv, Reported
    <3> QED
      BY <3>1, <3>2
  <2>2. \A j \in Calls : calls'[j] = "success" =>
           \E c \in Made' : Took(j, c)' /\ clients'[c].state # "new"
    BY <1>1, <1>4, <1>5, <1>9 DEF Inv, Reported
  <2>3. \A c \in Made' :
          /\ clients'[c].state # "new" => clients'[c].callback # 0
          /\ clients'[c].callback # 0 => Took(clients[c].callback, c)'
          /\ clients'[c].reporting # 0 => Took(clients[c].reporting, c)' /\ clients'[c].state # "new"
          /\ clients'[c].answering => clients'[c].state # "new"
    <3> SUFFICES ASSUME NEW c \in Made
                 PROVE  /\ clients'[c].state # "new" => clients'[c].callback # 0
                        /\ clients'[c].callback # 0 => Took(clients[c].callback, c)'
                        /\ clients'[c].reporting # 0 =>
                             Took(clients[c].reporting, c)' /\ clients'[c].state # "new"
                        /\ clients'[c].answering => clients'[c].state # "new"
      BY <1>4
    <3>1. clients'[c].state # "new" => clients'[c].callback # 0
      BY <1>5, <1>7 DEF Inv, Reported
    <3>2. clients'[c].callback # 0 => Took(clients[c].callback, c)'
      <4>1. CASE c = x
        BY <1>1, <1>5, <1>6, <4>1 DEF Took
      <4>2. CASE c # x
        <5>1. clients'[c].callback = clients[c].callback /\ clients[c].callback \in {0} \cup Calls
          BY <1>2, <1>5, <4>2, Clients
        <5> QED
          BY <1>1, <1>6, <5>1 DEF Inv, Reported, Took
      <4> QED
        BY <4>1, <4>2
    <3>3. clients'[c].reporting # 0 =>
             Took(clients[c].reporting, c)' /\ clients'[c].state # "new"
      <4>1. clients[c].reporting \in {0} \cup Calls
        BY <1>2, Clients
      <4> QED
        BY <1>1, <1>5, <1>6, <4>1 DEF Inv, Reported, Took
    <3>4. clients'[c].answering => clients'[c].state # "new"
      BY <1>5 DEF Inv, Reported
    <3> QED
      BY <3>1, <3>2, <3>3, <3>4
  <2> QED
    BY <2>1, <2>2, <2>3 DEF Reported
<1>15. Regular' => Current'
  <2> SUFFICES ASSUME Regular'
               PROVE  Current'
    OBVIOUS
  <2>1. Regular /\ Current
    BY <1>1 DEF Inv, Regular
  <2>2. \A j \in Calls : Starting(j)' => Starting(j)
    BY <1>1, <1>6 DEF Starting
  <2>3. morphClient # 0 => morphClient \in Made
    BY <1>2, Clients
  <2>4. \A j \in Calls : Starting(j)' =>
          /\ morphClient' # 0 /\ clients'[morphClient'].call = j
          /\ clients'[morphClient'].state = "new"
          /\ threads'[j] # "new" => held'[j] = morphClient'
    BY <1>1, <1>5, <1>6, <2>1, <2>2, <2>3 DEF Current
  <2> QED
    BY <1>1, <1>4, <1>5, <2>1, <2>2, <2>4 DEF Current, Running
<1> QED
  BY <1>8, <1>11, <1>12, <1>13, <1>14, <1>15 DEF Inv

\* A client that starts was alone, new and the current one.
LEMMA StartClientInv ==
  ASSUME Inv, NEW k \in Calls, StartClient(k)
  PROVE  Inv'
<1> DEFINE x == held[k]
           m == [clients[x] EXCEPT !.state = "running"]
<1>1. /\ threads[k] = "starting" /\ threads' = [threads EXCEPT ![k] = "started"]
      /\ clients' = [clients EXCEPT ![x] = m]
      /\ UNCHANGED <<calls, looper, held, morphClient, isConnected, overlapped, missed>>
  BY DEF StartClient, serviceVars, historyVars
<1>2. TypeOK /\ x \in Made /\ clients[x] \in MorphClient
  BY <1>1, Clients DEF Inv
<1>3. /\ m \in MorphClient /\ m.state = "running"
      /\ m.call = clients[x].call /\ m.callback = clients[x].callback
      /\ m.answering = clients[x].answering /\ m.reporting = clients[x].reporting
  BY <1>2 DEF MorphClient
<1> HIDE DEF m
<1>4. /\ clients' \in Seq(MorphClient) /\ Len(clients') = Len(clients) /\ Made' = Made
      /\ clients'[x] = m /\ \A c \in Made \ {x} : clients'[c] = clients[c]
  BY <1>1, <1>2, <1>3, Changed
<1>5. /\ \A c \in Made : /\ clients'[c].call = clients[c].call
                         /\ clients'[c].callback = clients[c].callback
                         /\ clients'[c].answering = clients[c].answering
                         /\ clients'[c].reporting = clients[c].reporting
                         /\ c = x \/ clients'[c].state = clients[c].state
      /\ clients'[x].state = "running"
  BY <1>3, <1>4
<1>6. /\ \A j \in Calls \ {k} : threads'[j] = threads[j]
      /\ threads'[k] = "started"
      /\ threads' \in [Calls -> {"none", "new", "holding", "starting", "started"}]
  BY <1>1, <1>2 DEF TypeOK
<1>7. TypeOK'
  <2>1. \A c \in Made' : clients'[c].answering => clients'[c].callback \in Calls
    BY <1>2, <1>4, <1>5 DEF TypeOK
  <2>2. \A j \in Calls : /\ held'[j] <= Len(clients)
                         /\ threads'[j] \in {"holding", "starting"} => held'[j] # 0
    BY <1>1, <1>2, <1>6 DEF TypeOK
  <2> QED
    BY <1>1, <1>2, <1>4, <1>6, <2>1, <2>2 DEF TypeOK
<1>8. \A j \in Calls : \A c \in Made : Took(j, c) => Took(j, c)'
  BY <1>1, <1>6 DEF Took
<1>9. Regular' => /\ Regular /\ Current /\ x = morphClient
                  /\ clients[x].state = "new" /\ clients[x].call = k
                  /\ \A c \in Made : Running(c) => c = x
  <2> SUFFICES ASSUME Regular'
               PROVE  /\ Regular /\ Current /\ x = morphClient
                      /\ clients[x].state = "new" /\ clients[x].call = k
                      /\ \A c \in Made : Running(c) => c = x
    OBVIOUS
  <2>1. Regular /\ Current
    BY <1>1 DEF Inv, Regular
  <2>2. x = morphClient /\ clients[x].state = "new" /\ clients[x].call = k
    BY <1>1, <2>1 DEF Current, Starting
  <2>3. \A c \in Made : Running(c) => c = morphClient
    BY <2>1 DEF Inv, OneClient, Regular
  <2> QED
    BY <2>1, <2>2, <2>3
<1>10. OneClient'
  <2> SUFFICES ASSUME Regular', NEW c \in Made, Running(c)'
               PROVE  c = morphClient
    BY <1>1, <1>4 DEF OneClient, Regular
  <2> QED
    BY <1>5, <1>9 DEF Running
<1>11. Disconnectable'
  <2> SUFFICES ASSUME Regular', NEW c \in Made, Running(c)', clients'[c].callback # 0,
                      calls[clients'[c].callback] = "success"
               PROVE  FALSE
    BY <1>1, <1>4 DEF Disconnectable, Regular
  <2>1. c = x /\ clients[x].callback # 0 /\ calls[clients[x].callback] = "success"
        /\ clients[x].state = "new"
    BY <1>5, <1>9 DEF Running
  <2>2. clients[x].callback \in Calls /\ held[clients[x].callback] = x
    BY <1>2, <2>1, Clients DEF Inv, Reported, Took
  <2>3. \E d \in Made : held[clients[x].callback] = d /\ clients[d].state # "new"
    BY <2>1, <2>2 DEF Inv, Reported, Took
  <2> QED
    BY <2>1, <2>2, <2>3
<1>12. Order'
  BY <1>1, <1>4, <1>5, <1>6, ThreadOrder
<1>13. Reported'
  <2>1. \A j \in Calls : threads'[j] = "starting" => clients'[held'[j]].callback # 0
    <3> SUFFICES ASSUME NEW j \in Calls, threads'[j] = "starting"
                 PROVE  clients'[held[j]].callback # 0
      BY <1>1
    <3>1. threads[j] = "starting" /\ held[j] \in Made
      BY <1>2, <1>6, Clients
    <3> QED
      BY <1>5, <3>1 DEF Inv, Reported
  <2>2. \A c \in Made : clients[c].state # "new" => clients'[c].state # "new"
    BY <1>5
  <2>3. \A j \in Calls : calls'[j] = "success" =>
           \E c \in Made' : Took(j, c)' /\ clients'[c].state # "new"
    BY <1>1, <1>4, <1>8, <2>2 DEF Inv, Reported
  <2>4. \A c \in Made' :
          /\ clients'[c].state # "new" => clients'[c].callback # 0
          /\ clients'[c].callback # 0 => Took(clients[c].callback, c)'
          /\ clients'[c].reporting # 0 => Took(clients[c].reporting, c)' /\ clients'[c].state # "new"
          /\ clients'[c].answering => clients'[c].state # "new"
    <3> SUFFICES ASSUME NEW c \in Made
                 PROVE  /\ clients'[c].state # "new" => clients'[c].callback # 0
                        /\ clients'[c].callback # 0 => Took(clients[c].callback, c)'
                        /\ clients'[c].reporting # 0 =>
                             Took(clients[c].reporting, c)' /\ clients'[c].state # "new"
                        /\ clients'[c].answering => clients'[c].state # "new"
      BY <1>4
    <3>1. clients'[c].state # "new" => clients'[c].callback # 0
      BY <1>1, <1>5 DEF Inv, Reported
    <3>2. /\ clients[c].callback \in {0} \cup Calls
          /\ clients[c].reporting \in {0} \cup Calls
      BY <1>2, Clients
    <3>3. clients'[c].callback # 0 => Took(clients[c].callback, c)'
      BY <1>1, <1>5, <1>6, <3>2 DEF Inv, Reported, Took
    <3>4. clients'[c].reporting # 0 =>
             Took(clients[c].reporting, c)' /\ clients'[c].state # "new"
      BY <1>1, <1>5, <1>6, <2>2, <3>2 DEF Inv, Reported, Took
    <3>5. clients'[c].answering => clients'[c].state # "new"
      BY <1>5, <2>2 DEF Inv, Reported
    <3> QED
      BY <3>1, <3>3, <3>4, <3>5
  <2> QED
    BY <2>1, <2>3, <2>4 DEF Reported
<1>14. Regular' => Current'
  <2> SUFFICES ASSUME Regular'
               PROVE  Current'
    OBVIOUS
  <2>1. Starting(k) /\ looper \notin {"make", "clear", "drop"}
    BY <1>1, <1>9 DEF Current, Starting
  <2>2. \A j \in Calls : ~Starting(j)'
    <3> SUFFICES ASSUME NEW j \in Calls, Starting(j)'
                 PROVE  FALSE
      OBVIOUS
    <3>1. j # k /\ Starting(j)
      BY <1>6 DEF Starting
    <3> QED
      BY <1>9, <3>1 DEF Current
  <2>3. clients[x].reporting = 0
    BY <1>2, <1>9 DEF Inv, Reported
  <2>4. \A c \in Made : Running(c)' /\ clients'[c].reporting # 0 => isConnected
    BY <1>5, <1>9, <2>3 DEF Current, Running
  <2> QED
    BY <1>1, <1>4, <2>1, <2>2, <2>4 DEF Current
<1> QED
  BY <1>7, <1>10, <1>11, <1>12, <1>13, <1>14 DEF Inv

-----------------------------------------------------------------------------
(* The clients' threads. *)

\* A change of one client that gives it no callback and does not start it.
LEMMA Touched ==
  ASSUME Inv, NEW c \in Made, NEW m \in MorphClient, clients' = [clients EXCEPT ![c] = m],
         m.call = clients[c].call, m.callback = clients[c].callback,
         m.state # clients[c].state => (clients[c].state = "running" /\ m.state = "stopped"),
         m.answering => m.callback # 0
  PROVE  /\ StartsNone
         /\ clients' \in Seq(MorphClient) /\ Len(clients') = Len(clients) /\ Made' = Made
         /\ clients'[c] = m /\ \A x \in Made \ {c} : clients'[x] = clients[x]
         /\ \A x \in Made' : clients'[x].answering => clients'[x].callback \in Calls
<1>1. TypeOK
  BY DEF Inv
<1>2. /\ clients'[c] = m /\ \A x \in Made \ {c} : clients'[x] = clients[x]
      /\ clients' \in Seq(MorphClient) /\ Len(clients') = Len(clients) /\ Made' = Made
  BY <1>1, Changed
<1>3. m.callback \in {0} \cup Calls
  BY <1>1, Clients
<1>4. \A x \in Made' : clients'[x].answering => clients'[x].callback \in Calls
  BY <1>1, <1>2, <1>3, Clients
<1>5. StartsNone
  BY <1>2 DEF StartsNone
<1> QED
  BY <1>2, <1>4, <1>5

\* Such a change of a client that begins no report, and of nothing else.
LEMMA TouchedInv ==
  ASSUME Inv, NEW c \in Made, NEW m \in MorphClient, clients' = [clients EXCEPT ![c] = m],
         m.call = clients[c].call, m.callback = clients[c].callback,
         m.reporting = clients[c].reporting, clients[c].state = "running",
         m.state \in {"running", "stopped"}, m.answering => m.callback # 0,
         UNCHANGED <<calls, looper, threads, held, morphClient, isConnected, overlapped, missed>>
  PROVE  Inv'
<1>1. /\ StartsNone
      /\ clients' \in Seq(MorphClient) /\ Len(clients') = Len(clients) /\ Made' = Made
      /\ clients'[c] = m /\ \A x \in Made \ {c} : clients'[x] = clients[x]
      /\ \A x \in Made' : clients'[x].answering => clients'[x].callback \in Calls
  BY Touched
<1>2. TypeOK'
  BY <1>1 DEF Inv, TypeOK
<1>3. OneClient'
  BY <1>1 DEF Inv, OneClient, Running, StartsNone
<1>4. Disconnectable'
  BY <1>1 DEF Inv, Disconnectable, Running, StartsNone
<1>5. Order'
  <2>1. looper' = looper \/ looper \in {"idle", "stop", "clear", "drop"}
    OBVIOUS
  <2> QED
    BY <1>1, <2>1, OrderKept
<1>6. Reported'
  <2>1. \A x \in Made : /\ clients'[x].reporting = clients[x].reporting
                        /\ clients'[x].answering => clients[x].state # "new"
    BY <1>1 DEF Inv, Reported
  <2> QED
    BY <1>1, <2>1, ReportedKept
<1>7. Regular' => Current'
  <2> SUFFICES ASSUME Regular'
               PROVE  Current'
    OBVIOUS
  <2>1. Regular /\ Current
    BY DEF Inv, Regular
  <2>2. morphClient # 0 => morphClient \in Made
    BY Clients DEF Inv
  <2>3. \A j \in Calls : Starting(j)' =>
          /\ morphClient' # 0 /\ clients'[morphClient'].call = j
          /\ clients'[morphClient'].state = "new"
          /\ threads'[j] # "new" => held'[j] = morphClient'
    BY <1>1, <2>1, <2>2 DEF Current, Starting, StartsNone
  <2>4. \A x \in Made' : Running(x)' => Running(x) /\ clients'[x].reporting = clients[x].reporting
    BY <1>1 DEF Running
  <2> QED
    BY <1>1, <2>1, <2>3, <2>4 DEF Current, Starting
<1> QED
  BY <1>2, <1>3, <1>4, <1>5, <1>6, <1>7 DEF Inv

\* A client that begins to handle an answer was started, so it has a callback.
LEMMA AnswerInv ==
  ASSUME Inv, NEW c \in Made, Answer(c)
  PROVE  Inv'
<1> DEFINE m == [clients[c] EXCEPT !.answering = TRUE, !.answers = @ + 1]
<1>1. /\ clients[c].state = "running" /\ clients[c].answers < MaxAnswers
      /\ clients' = [clients EXCEPT ![c] = m]
      /\ UNCHANGED <<calls, looper, threads, held, morphClient, isConnected, overlapped, missed>>
  BY DEF Answer, Running, threadVars, serviceVars, historyVars
<1>2. clients[c] \in MorphClient
  BY Clients DEF Inv
<1>3. clients[c].answers + 1 \in 0..MaxAnswers
  BY <1>1, <1>2, ServiceAssumption DEF MorphClient
<1>4. /\ m \in MorphClient /\ m.call = clients[c].call /\ m.callback = clients[c].callback
      /\ m.state = clients[c].state /\ m.reporting = clients[c].reporting
  BY <1>2, <1>3 DEF MorphClient
<1>5. m.callback # 0
  BY <1>1, <1>4 DEF Inv, Reported
<1> HIDE DEF m
<1> QED
  BY <1>1, <1>4, <1>5, TouchedInv

\* A client that stops by itself.
LEMMA SelfStopInv ==
  ASSUME Inv, NEW c \in Made, SelfStop(c)
  PROVE  Inv'
<1> DEFINE m == [clients[c] EXCEPT !.state = "stopped"]
<1>1. /\ clients[c].state = "running" /\ clients' = [clients EXCEPT ![c] = m]
      /\ UNCHANGED <<calls, looper, threads, held, morphClient, isConnected, overlapped, missed>>
  BY DEF SelfStop, Running, threadVars, serviceVars, historyVars
<1>2. clients[c] \in MorphClient
  BY Clients DEF Inv
<1>3. /\ m \in MorphClient /\ m.call = clients[c].call /\ m.callback = clients[c].callback
      /\ m.state = "stopped" /\ m.reporting = clients[c].reporting
      /\ m.callback # 0
  BY <1>1, <1>2 DEF MorphClient, Inv, Reported
<1> HIDE DEF m
<1> QED
  BY <1>1, <1>3, TouchedInv

\* A callback tells the service first; the call it will report is the one of
\* its client.
LEMMA CallbackInv ==
  ASSUME Inv, NEW c \in Made, Callback(c)
  PROVE  Inv'
<1> DEFINE m == [clients[c] EXCEPT !.answering = FALSE, !.reporting = clients[c].callback]
<1>1. /\ clients[c].answering /\ clients' = [clients EXCEPT ![c] = m] /\ isConnected' = TRUE
      /\ UNCHANGED <<calls, looper, threads, held, morphClient, overlapped, missed>>
  BY DEF Callback, Connected, threadVars, historyVars
<1>2. clients[c] \in MorphClient /\ TypeOK
  BY Clients DEF Inv
<1>3. clients[c].callback \in 0..MaxCalls
  BY <1>2 DEF MorphClient
<1>4. /\ m \in MorphClient /\ m.call = clients[c].call /\ m.callback = clients[c].callback
      /\ m.state = clients[c].state /\ ~m.answering /\ m.reporting = clients[c].callback
  BY <1>2, <1>3 DEF MorphClient
<1> HIDE DEF m
<1>5. /\ StartsNone
      /\ clients' \in Seq(MorphClient) /\ Len(clients') = Len(clients) /\ Made' = Made
      /\ clients'[c] = m /\ \A x \in Made \ {c} : clients'[x] = clients[x]
      /\ \A x \in Made' : clients'[x].answering => clients'[x].callback \in Calls
  BY <1>1, <1>4, Touched
<1>6. TypeOK'
  <2>1. isConnected' \in BOOLEAN
    BY <1>1
  <2> QED
    BY <1>1, <1>2, <1>5, <2>1 DEF TypeOK
<1>7. OneClient'
  BY <1>1, <1>5 DEF Inv, OneClient, Running, StartsNone
<1>8. Disconnectable'
  BY <1>1 DEF Disconnectable
<1>9. Order'
  <2>1. looper' = looper \/ looper \in {"idle", "stop", "clear", "drop"}
    BY <1>1
  <2> QED
    BY <1>1, <1>5, <2>1, OrderKept
<1>10. Reported'
  <2>1. \A j \in Calls : threads'[j] = "starting" => clients'[held'[j]].callback # 0
    <3> SUFFICES ASSUME NEW j \in Calls, threads[j] = "starting"
                 PROVE  clients'[held[j]].callback # 0
      BY <1>1
    <3>1. held[j] \in Made
      BY <1>2, Clients
    <3> QED
      BY <1>5, <3>1 DEF Inv, Reported, StartsNone
  <2>2. \A j \in Calls : calls'[j] = "success" =>
           \E x \in Made' : Took(j, x)' /\ clients'[x].state # "new"
    BY <1>1, <1>5 DEF Inv, Reported, StartsNone, Took
  <2>3. \A x \in Made' :
          /\ clients'[x].state # "new" => clients'[x].callback # 0
          /\ clients'[x].callback # 0 => Took(clients[x].callback, x)'
          /\ clients'[x].reporting # 0 => Took(clients[x].reporting, x)' /\ clients'[x].state # "new"
          /\ clients'[x].answering => clients'[x].state # "new"
    BY <1>1, <1>4, <1>5 DEF Inv, Reported, Took
  <2> QED
    BY <2>1, <2>2, <2>3 DEF Reported
<1>11. Regular' => Current'
  <2> SUFFICES ASSUME Regular'
               PROVE  Current'
    OBVIOUS
  <2>1. Regular /\ Current
    BY <1>1 DEF Inv, Regular
  <2>2. morphClient # 0 => morphClient \in Made
    BY <1>2, Clients
  <2>3. \A j \in Calls : Starting(j)' =>
          /\ morphClient' # 0 /\ clients'[morphClient'].call = j
          /\ clients'[morphClient'].state = "new"
          /\ threads'[j] # "new" => held'[j] = morphClient'
    BY <1>1, <1>5, <2>1, <2>2 DEF Current, Starting, StartsNone
  <2>4. \A x \in Made' : Running(x)' => Running(x)
    BY <1>5 DEF Running, StartsNone
  <2> QED
    BY <1>1, <1>5, <2>1, <2>3, <2>4 DEF Current, Starting
<1> QED
  BY <1>6, <1>7, <1>8, <1>9, <1>10, <1>11 DEF Inv

\* A call that is reported is that of the client, which is connected if it runs.
LEMMA ReportInv ==
  ASSUME Inv, NEW c \in Made, Report(c)
  PROVE  Inv'
<1> DEFINE m == [clients[c] EXCEPT !.reporting = 0]
           k == clients[c].reporting
<1>1. /\ k # 0 /\ clients' = [clients EXCEPT ![c] = m]
      /\ calls' = [calls EXCEPT ![k] = IF @ = "pending" THEN "success" ELSE @]
      /\ UNCHANGED <<looper, threads, held, morphClient, isConnected, overlapped, missed>>
  BY DEF Report, threadVars, serviceVars, historyVars
<1>2. clients[c] \in MorphClient /\ TypeOK /\ k \in Calls
  BY <1>1, Clients DEF Inv
<1>3. Took(k, c) /\ clients[c].state # "new"
  BY <1>1 DEF Inv, Reported
<1>4. /\ m \in MorphClient /\ m.call = clients[c].call /\ m.callback = clients[c].callback
      /\ m.state = clients[c].state /\ m.answering = clients[c].answering /\ m.reporting = 0
  BY <1>2, ServiceAssumption DEF MorphClient
<1>5. m.callback # 0
  BY <1>3, <1>4 DEF Inv, Reported
<1>6. /\ calls' \in [Calls -> {"unmade", "pending", "success", "error"}]
      /\ \A j \in Calls : /\ calls'[j] = "unmade" <=> calls[j] = "unmade"
                          /\ calls'[j] = "pending" => calls[j] = "pending"
                          /\ calls'[j] = "success" => calls[j] = "success" \/ j = k
  BY <1>1, <1>2 DEF TypeOK
<1> HIDE DEF k, m
<1>7. /\ StartsNone
      /\ clients' \in Seq(MorphClient) /\ Len(clients') = Len(clients) /\ Made' = Made
      /\ clients'[c] = m /\ \A x \in Made \ {c} : clients'[x] = clients[x]
      /\ \A x \in Made' : clients'[x].answering => clients'[x].callback \in Calls
  BY <1>1, <1>4, <1>5, Touched
<1>8. TypeOK'
  BY <1>1, <1>2, <1>6, <1>7 DEF TypeOK
<1>9. OneClient'
  BY <1>1, <1>7 DEF Inv, OneClient, Running, StartsNone
<1>10. Disconnectable'
  <2> SUFFICES ASSUME Regular, NEW x \in Made, Running(x), clients[x].callback # 0,
                      calls'[clients[x].callback] = "success"
               PROVE  isConnected
    BY <1>1, <1>7 DEF Disconnectable, Regular, Running, StartsNone
  <2>1. clients[x].callback \in Calls /\ Took(clients[x].callback, x)
    BY <1>2, Clients DEF Inv, Reported
  <2>2. CASE clients[x].callback = k
    <3>1. x = c
      BY <1>3, <2>1, <2>2 DEF Took
    <3> QED
      BY <1>1, <3>1 DEF Inv, Current, k
  <2>3. CASE clients[x].callback # k
    BY <1>6, <2>1, <2>3 DEF Inv, Disconnectable, Regular
  <2> QED
    BY <2>2, <2>3
<1>11. Order'
  <2>1. looper' = looper \/ looper \in {"idle", "stop", "clear", "drop"}
    BY <1>1
  <2>2. UNCHANGED <<threads, held>>
    BY <1>1
  <2>3. \A j \in Calls : /\ calls'[j] = "unmade" <=> calls[j] = "unmade"
                         /\ calls'[j] = "pending" => calls[j] = "pending"
    BY <1>6
  <2> QED
    BY <1>7, <2>1, <2>2, <2>3, OrderKept
<1>12. Reported'
  <2>1. \A j \in Calls : threads'[j] = "starting" => clients'[held'[j]].callback # 0
    <3> SUFFICES ASSUME NEW j \in Calls, threads[j] = "starting"
                 PROVE  clients'[held[j]].callback # 0
      BY <1>1
    <3>1. held[j] \in Made
      BY <1>2, Clients
    <3> QED
      BY <1>7, <3>1 DEF Inv, Reported, StartsNone
  <2>2. \A j \in Calls : calls'[j] = "success" =>
           \E x \in Made' : Took(j, x)' /\ clients'[x].state # "new"
    BY <1>1, <1>3, <1>6, <1>7 DEF Inv, Reported, StartsNone, Took
  <2>3. \A x \in Made' :
          /\ clients'[x].state # "new" => clients'[x].callback # 0
          /\ clients'[x].callback # 0 => Took(clients[x].callback, x)'
          /\ clients'[x].reporting # 0 => Took(clients[x].reporting, x)' /\ clients'[x].state # "new"
          /\ clients'[x].answering => clients'[x].state # "new"
    BY <1>1, <1>4, <1>7 DEF Inv, Reported, Took
  <2> QED
    BY <2>1, <2>2, <2>3 DEF Reported
<1>13. Regular' => Current'
  <2> SUFFICES ASSUME Regular'
               PROVE  Current'
    OBVIOUS
  <2>1. Regular /\ Current
    BY <1>1 DEF Inv, Regular
  <2>2. morphClient # 0 => morphClient \in Made
    BY <1>2, Clients
  <2>3. \A j \in Calls : Starting(j)' =>
          /\ morphClient' # 0 /\ clients'[morphClient'].call = j
          /\ clients'[morphClient'].state = "new"
          /\ threads'[j] # "new" => held'[j] = morphClient'
    BY <1>1, <1>7, <2>1, <2>2 DEF Current, Starting, StartsNone
  <2>4. \A x \in Made' : /\ Running(x)' => Running(x)
                         /\ clients'[x].reporting # 0 => clients[x].reporting # 0
    BY <1>4, <1>7 DEF Running, StartsNone
  <2> QED
    BY <1>1, <1>7, <2>1, <2>3, <2>4 DEF Current, Starting
<1> QED
  BY <1>8, <1>9, <1>10, <1>11, <1>12, <1>13 DEF Inv

-----------------------------------------------------------------------------
(* All steps, and the theorems. *)

\* Every step keeps the invariant.
LEMMA NextInv == Inv /\ [Next]_vars => Inv'
<1> SUFFICES ASSUME Inv, [Next]_vars PROVE Inv'
  OBVIOUS
<1>1. CASE Disconnect \/ ClearConnected \/ DropClient
  <2>1. UNCHANGED <<calls, threads, held, clients, overlapped, missed>>
    BY <1>1 DEF Disconnect, ClearConnected, DropClient, threadVars, historyVars
  <2>2. CASE Disconnect
    BY <2>1, <2>2, LooperInv DEF Disconnect, serviceVars
  <2>3. CASE ClearConnected
    BY <2>1, <2>3, LooperInv DEF ClearConnected
  <2>4. CASE DropClient
    BY <2>1, <2>4, LooperInv DEF DropClient
  <2> QED
    BY <1>1, <2>2, <2>3, <2>4
<1>2. CASE StopClient
  BY <1>2, StopClientInv
<1>3. ASSUME NEW k \in Calls, Connect(k) \/ MakeClient(k) \/ ConnectFails(k)
      PROVE  Inv'
  BY <1>3, AcceptedInv, RefusedInv, MakeClientInv, ConnectFailsInv
<1>4. ASSUME NEW k \in Calls, ConnectThread(k)
      PROVE  Inv'
  BY <1>4, ReadClientInv, TakeCallbackInv, StartClientInv DEF ConnectThread
<1>5. ASSUME NEW c \in Made, Answer(c) \/ Callback(c) \/ Report(c) \/ SelfStop(c)
      PROVE  Inv'
  BY <1>5, AnswerInv, CallbackInv, ReportInv, SelfStopInv
<1>6. CASE UNCHANGED vars
  <2>1. /\ UNCHANGED <<calls, looper, threads, held, clients, morphClient, isConnected>>
        /\ UNCHANGED <<overlapped, missed>> /\ Made' = Made
    BY <1>6 DEF vars, threadVars, serviceVars, historyVars, Made
  <2>2. TypeOK' /\ OneClient' /\ Disconnectable'
    BY <2>1 DEF Inv, TypeOK, OneClient, Disconnectable, Running
  <2>3. Order' /\ Reported' /\ (Regular' => Current')
    BY <2>1 DEF Inv, Order, Reported, Took, Regular, Current, Running, Starting
  <2> QED
    BY <2>2, <2>3 DEF Inv
<1> QED
  BY <1>1, <1>2, <1>3, <1>4, <1>5, <1>6 DEF Next, Looper

\* Every variable keeps to its type, for every number of calls; whoever handles
\* an answer has a call to report it to.
THEOREM TypeCorrect == Spec => []TypeOK
<1>1. Inv => TypeOK
  BY DEF Inv
<1> QED
  BY <1>1, InitInv, NextInv, PTL DEF Spec

\* Unless connects overlapped, or a disconnect's stop() came before a start(),
\* only the client the service refers to runs (MorphProtocolService.kt:174, 296).
THEOREM OnlyCurrentRuns == Spec => []OneClient
<1>1. Inv => OneClient
  BY DEF Inv
<1> QED
  BY <1>1, InitInv, NextInv, PTL DEF Spec

\* With the same exceptions, a client that runs and whose session was reported
\* can be disconnected.
THEOREM ReportedCanDisconnect == Spec => []Disconnectable
<1>1. Inv => Disconnectable
  BY DEF Inv
<1> QED
  BY <1>1, InitInv, NextInv, PTL DEF Spec
=============================================================================
