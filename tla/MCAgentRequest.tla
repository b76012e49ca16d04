--------------------------- MODULE MCAgentRequest ---------------------------
(* AgentRequest for TLC: one earlier exchange as the conversation. *)
EXTENDS AgentRequest

ShortHistory == <<Plain("user"), Plain("assistant")>>
=============================================================================
