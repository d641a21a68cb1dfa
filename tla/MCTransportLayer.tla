-------------------------- MODULE MCTransportLayer --------------------------
(***************************************************************************)
(* The transport layer in its most general environment, on a small         *)
(* instance.                                                               *)
(*                                                                         *)
(* The master and the slave entry of a session have nothing in common but  *)
(* the session, so TLC takes one side at a time: it goes on from the       *)
(* states in which all slave entries, or all master entries and packet     *)
(* counters, are as at the start.                                          *)
(***************************************************************************)
EXTENDS TransportLayer

Untouched(e) == [e EXCEPT !.used = FALSE] = InitialEntry

FirstCounter(s) == IF s.type = "Join" THEN SeqMod - 1 ELSE 0

SlaveOnly ==
    \A i \in Sessions : /\ Untouched(transport[Master(i)])
                        /\ session[i].counter = FirstCounter(session[i])

MasterOnly ==
    /\ \A i \in Sessions : Untouched(transport[Slave(i)])
    /\ \A c \in calls : c.op = "APP_TransmitConfirm"

OneSide == MasterOnly \/ SlaveOnly

\* No step reads what the step before it has sent.
StateRead == <<joined, tables, calls>>
=============================================================================
