-------------------------- MODULE MCPendingSessions --------------------------
(***************************************************************************)
(* The sessions are interchangeable but for the join session.              *)
(***************************************************************************)
EXTENDS PendingSessions, TLC

Symmetry == Permutations(Names \ {Join})
=============================================================================
