------------------------------ MODULE MCChatPage ------------------------------
(* The chat page for TLC, with the quiz agent of _agent_types. *)
EXTENDS ChatPage, TLC

Demo == [a \in {"demo"} |-> "QUIZ"]

\* Sends are told apart by their input alone, sessions and replicas not at all.
MCSymmetry == Permutations(Sends) \union Permutations(Sessions) \union Permutations(Replicas)
=============================================================================
