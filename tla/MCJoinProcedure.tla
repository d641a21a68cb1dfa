--------------------------- MODULE MCJoinProcedure ---------------------------
(***************************************************************************)
(* Joining in two networks.  In one the manager never answers, and all     *)
(* advertisers are heard; in the other it may write and delete at any      *)
(* time, and the advertisers of Few are.  Each behaviour is of one of      *)
(* them, so that TLC need not combine the orders of the advertisers with   *)
(* those of the commands.                                                  *)
(***************************************************************************)
EXTENDS JoinProcedure

CONSTANT Few   \* the advertisers in the network whose manager answers

VARIABLE silent   \* the manager never answers

MCInit == Init /\ silent \in BOOLEAN

InNetwork ==
    /\ silent => flags' = {} /\ holds' = {}
    /\ ~silent => \A k \in DOMAIN advs' : advs'[k].id \in Few

MCNext == Next /\ InNetwork /\ UNCHANGED silent

MCSpec == MCInit /\ [][MCNext]_<<vars, silent>> /\ Fairness
=============================================================================
