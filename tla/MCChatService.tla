--------------------------- MODULE MCChatService ---------------------------
(* ChatService for TLC: the quiz agent of _agent_types and one created agent. *)
EXTENDS ChatService

Demo == [a \in {"demo"} |-> "QUIZ"]
=============================================================================
