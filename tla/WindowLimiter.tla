---------------------------- MODULE WindowLimiter ----------------------------
(* What a fixed-window limiter promises: a key's window opens with its      *)
(* first request, admits MaxRequests requests and is over, on its own, once *)
(* more than WindowMs has passed.  There is no table and no clean-up.       *)
EXTENDS Naturals

CONSTANTS Keys, MaxRequests, WindowMs, NoEnd

VARIABLES
  now,   \* the clock
  used,  \* requests admitted in the key's open window; 0 if there is none
  ends,  \* last instant of the open window, or NoEnd
  answer \* the key and verdict of the latest request

wvars == <<now, used, ends, answer>>

Init ==
  /\ now = 0
  /\ used = [k \in Keys |-> 0]
  /\ ends = [k \in Keys |-> NoEnd]
  /\ answer = <<>>

Open(k) ==
  /\ used[k] = 0
  /\ used' = [used EXCEPT ![k] = 1]
  /\ ends' = [ends EXCEPT ![k] = now + WindowMs]
  /\ answer' = <<k, TRUE>>

Admit(k) ==
  /\ used[k] \in 1..MaxRequests - 1
  /\ used' = [used EXCEPT ![k] = @ + 1]
  /\ answer' = <<k, TRUE>>
  /\ UNCHANGED ends

Deny(k) ==
  /\ used[k] >= MaxRequests
  /\ answer' = <<k, FALSE>>
  /\ UNCHANGED <<used, ends>>

Reset(k) ==
  /\ used' = [used EXCEPT ![k] = 0]
  /\ ends' = [ends EXCEPT ![k] = NoEnd]
  /\ UNCHANGED answer

Over(k) == ends[k] # NoEnd /\ now + 1 > ends[k]

Tick ==
  /\ now' = now + 1
  /\ used' = [k \in Keys |-> IF Over(k) THEN 0 ELSE used[k]]
  /\ ends' = [k \in Keys |-> IF Over(k) THEN NoEnd ELSE ends[k]]
  /\ UNCHANGED answer

Next ==
  \/ /\ UNCHANGED now
     /\ \E k \in Keys : Open(k) \/ Admit(k) \/ Deny(k) \/ Reset(k)
  \/ Tick

Spec == Init /\ [][Next]_wvars
=============================================================================
