--------------------------- MODULE MCConversation ---------------------------
(***************************************************************************)
(* Two ends, a few requests and a sequence number that wraps around.       *)
(***************************************************************************)
EXTENDS Conversation
=============================================================================
