---------------------------- MODULE AgentTurn ----------------------------
(***************************************************************************)
(* What one agent turn promises: it asks the LLM at most MaxIterations     *)
(* times, runs tools only because the last reply asked for them, and an    *)
(* answer reports every tool run of the turn, in the order of execution.   *)
(***************************************************************************)
EXTENDS Integers, Sequences

CONSTANTS MaxIterations, Tools

VARIABLES
    phase,     \* "thinking", "acting", "answering", "answered" or "failed"
    calls,     \* LLM calls that were answered
    ran,       \* tool calls executed so far, in order
    reported   \* the tool calls the answer lists

turnVars == <<phase, calls, ran, reported>>

TurnInit == phase = "thinking" /\ calls = 0 /\ ran = <<>> /\ reported = <<>>

\* The LLM replies, with tool calls or with the answer.
Think ==
    /\ phase = "thinking" /\ calls < MaxIterations
    /\ calls' = calls + 1
    /\ phase' \in {"acting", "answering"}
    /\ UNCHANGED <<ran, reported>>

Act ==
    /\ phase = "acting"
    /\ \E t \in Tools : ran' = Append(ran, t)
    /\ UNCHANGED <<phase, calls, reported>>

\* All tools of the reply ran: back to the LLM, which has a reply left.
Resume ==
    /\ phase = "acting" /\ calls < MaxIterations
    /\ phase' = "thinking"
    /\ UNCHANGED <<calls, ran, reported>>

Answer ==
    /\ phase = "answering"
    /\ phase' = "answered" /\ reported' = ran
    /\ UNCHANGED <<calls, ran>>

Fail ==
    /\ phase \in {"thinking", "acting"}
    /\ phase' = "failed"
    /\ UNCHANGED <<calls, ran, reported>>

TurnNext == Think \/ Act \/ Resume \/ Answer \/ Fail

TurnSpec == TurnInit /\ [][TurnNext]_turnVars
=============================================================================
