---------------------------- MODULE Transcript ----------------------------
(***************************************************************************)
(* The messages of one agent turn, as graphs/agent_graph.py builds them.   *)
(* A message keeps its role and the tool-call ids it carries; its text is  *)
(* left out.                                                               *)
(***************************************************************************)
EXTENDS Integers, Sequences

CONSTANTS
    MaxIterations,  \* LLM calls of a turn (DEFAULT_MAX_ITERATIONS)
    MaxToolCalls,   \* model bound: tool calls in one LLM reply
    History         \* the conversation the caller passes in

ASSUME TurnConstants ==
    /\ MaxIterations \in Nat \ {0}
    /\ MaxToolCalls \in Nat

\* The k-th tool call of the i-th reply; the endpoint makes ids unique.
ToolIds == (1..MaxIterations) \X (1..MaxToolCalls)
Reply(i, n) == [k \in 1..n |-> <<i, k>>]

Plain(role) == [role |-> role, ids |-> <<>>]
AssistantWith(ids) == [role |-> "assistant", ids |-> ids]
ToolMessage(id) == [role |-> "tool", ids |-> <<id>>]
ToolMessages(ids) == [k \in DOMAIN ids |-> ToolMessage(ids[k])]

\* The first request: system prompt, history, user message.
Prompt == <<Plain("system")>> \o History \o <<Plain("user")>>

Roles == {"system", "user", "assistant", "tool"}

Message == [role : Roles, ids : Seq(ToolIds)]

IsTranscript(m) == m \in Seq(Message)

\* What the chat API accepts: an assistant message with tool calls is followed
\* at once by exactly one tool message per call, in order, and no tool message
\* stands elsewhere.
WellFormed(m) ==
    \A i \in DOMAIN m :
       /\ m[i].role = "assistant" =>
             \A k \in DOMAIN m[i].ids :
                i + k \in DOMAIN m /\ m[i + k] = ToolMessage(m[i].ids[k])
       /\ m[i].role = "tool" =>
             \E j \in 1..(i - 1) :
                i - j \in DOMAIN m[j].ids /\ m[j].ids[i - j] = m[i].ids[1]

\* What the callers pass as history: the gateway's has no tool calls at all, it
\* keeps the role and the text of user and assistant messages.
ASSUME HistoryIsTranscript == IsTranscript(History) /\ WellFormed(History)
=============================================================================
