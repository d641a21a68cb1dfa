--------------------------- MODULE RequestResponse ---------------------------
(***************************************************************************)
(* What an acknowledged request promises its sender, whatever the network  *)
(* does to the packets: requests are submitted one at a time, each is      *)
(* executed at most once, and only a request that was executed is answered *)
(* to the application that sent it.  A request that was given up may still *)
(* be executed, and its answer may come late, but never for another one.   *)
(***************************************************************************)
EXTENDS Naturals

CONSTANT MaxRequests    \* bound of the model: requests are 1 .. MaxRequests

VARIABLES
    submitted,  \* the number of requests submitted so far
    executed,   \* how often the peer has executed each request
    outcome     \* what the sender was told of each request

Requests == 1 .. MaxRequests
Outcomes == {"none", "answered", "failed"}

Init == /\ submitted = 0
        /\ executed = [k \in Requests |-> 0]
        /\ outcome = [k \in Requests |-> "none"]

Submit == /\ submitted < MaxRequests
          /\ submitted' = submitted + 1
          /\ UNCHANGED <<executed, outcome>>

Execute(k) == /\ k <= submitted
              /\ executed[k] = 0
              /\ executed' = [executed EXCEPT ![k] = 1]
              /\ UNCHANGED <<submitted, outcome>>

Answer(k) == /\ k = submitted
             /\ executed[k] = 1
             /\ outcome' = [outcome EXCEPT ![k] = "answered"]
             /\ UNCHANGED <<submitted, executed>>

GiveUp(k) == /\ k = submitted
             /\ outcome[k] = "none"
             /\ outcome' = [outcome EXCEPT ![k] = "failed"]
             /\ UNCHANGED <<submitted, executed>>

Next == \/ Submit
        \/ \E k \in Requests : Execute(k) \/ Answer(k) \/ GiveUp(k)

Spec == Init /\ [][Next]_<<submitted, executed, outcome>>
=============================================================================
