---------------------------- MODULE AgentGraph ----------------------------
(***************************************************************************)
(* services/agent-engine/src/agent_engine/graphs/agent_graph.py: one turn  *)
(* of an agent as the LangGraph state machine                              *)
(*     call_llm -> (execute_tools -> call_llm)* -> respond -> END          *)
(* AgentState is what the nodes return; a node's local copies (draft,      *)
(* results) are lost when it raises.  One action per await of a node.      *)
(***************************************************************************)
EXTENDS Transcript, SequencesExt

VARIABLES
    node,       \* the node that runs or awaits; "raised" when one raised
    messages,   \* AgentState.messages
    pending,    \* AgentState.pending_tool_calls: ids of the last reply
    iteration,  \* AgentState.iteration
    toolCalls,  \* AgentState.tool_calls, merged by _merge_tool_calls
    draft,      \* call_llm's local copy of messages: what the LLM is sent
    results,    \* execute_tools' local tool_results
    spent,      \* history: LLM replies received, each of which costs tokens
    response    \* the tool calls in what run_agent_graph returns

graphVars == <<node, messages, pending, iteration, toolCalls, draft, results,
               spent, response>>

Nodes == {"call_llm", "awaiting_llm", "execute_tools", "respond", "END", "raised"}

GraphTypeOK ==
    /\ node \in Nodes
    /\ iteration \in 0..MaxIterations
    /\ pending \in Seq(ToolIds) /\ results \in Seq(ToolIds) /\ toolCalls \in Seq(ToolIds)
    /\ IsTranscript(messages) /\ IsTranscript(draft)
    /\ spent \in Nat
    /\ response \in Seq(ToolIds)

\* graph.ainvoke({"user_message": ..., "history": ...}) starts a fresh state.
GraphInit ==
    /\ node = "call_llm"
    /\ messages = <<>> /\ pending = <<>> /\ iteration = 0 /\ toolCalls = <<>>
    /\ draft = <<>> /\ results = <<>>
    /\ response = <<>>
    /\ spent = 0

\* call_llm up to its await of llm_client.chat.
AskLLM ==
    /\ node = "call_llm"
    /\ draft' = IF messages = <<>> THEN Prompt ELSE messages
    /\ node' = "awaiting_llm"
    /\ UNCHANGED <<messages, pending, iteration, toolCalls, results, spent, response>>

\* Slip: the cap is forgotten.
RouteAfter_NoCap(n, i) == IF n > 0 THEN "execute_tools" ELSE "respond"

\* _should_continue, on the reply's n tool calls after i iterations.
RouteAfter(n, i) == IF n > 0 /\ i < MaxIterations THEN "execute_tools" ELSE "respond"

\* Slip: the assistant message that carries the tool calls is not appended.
LLMReplies_ForgetAssistant(n) ==
    /\ node = "awaiting_llm"
    /\ iteration' = iteration + 1 /\ spent' = spent + 1
    /\ messages' = draft
    /\ pending' = Reply(iteration', n)
    /\ node' = RouteAfter(n, iteration')
    /\ UNCHANGED <<toolCalls, draft, results, response>>

\* The LLM replies with n tool calls (n = 0: the final answer).
LLMReplies(n) ==
    /\ node = "awaiting_llm"
    /\ iteration' = iteration + 1 /\ spent' = spent + 1
    /\ messages' = IF n = 0 THEN draft
                   ELSE Append(draft, AssistantWith(Reply(iteration', n)))
    /\ pending' = Reply(iteration', n)
    /\ node' = RouteAfter(n, iteration')
    /\ UNCHANGED <<toolCalls, draft, results, response>>

\* chat() raised LLMError: both endpoints failed.
LLMRaises ==
    /\ node = "awaiting_llm"
    /\ node' = "raised"
    /\ UNCHANGED <<messages, pending, iteration, toolCalls, draft, results, spent, response>>

\* execute_tool returns a string for the next pending call; unknown tools and
\* malformed arguments give a string as well.
RunTool ==
    /\ node = "execute_tools" /\ Len(results) < Len(pending)
    /\ results' = Append(results, pending[Len(results) + 1])
    /\ UNCHANGED <<node, messages, pending, iteration, toolCalls, draft, spent, response>>

\* execute_tool raises (arguments that are JSON but not an object).
ToolRaises ==
    /\ node = "execute_tools" /\ Len(results) < Len(pending)
    /\ node' = "raised"
    /\ UNCHANGED <<messages, pending, iteration, toolCalls, draft, results, spent, response>>

\* Slip: the node returns its results as the new tool_calls, unmerged.
ToolsReturn_NoMerge ==
    /\ node = "execute_tools" /\ Len(results) = Len(pending)
    /\ messages' = messages \o ToolMessages(results)
    /\ toolCalls' = results
    /\ pending' = <<>> /\ results' = <<>>
    /\ node' = "call_llm"
    /\ UNCHANGED <<iteration, draft, spent, response>>

\* execute_tools returns: its results enter the state all at once.
ToolsReturn ==
    /\ node = "execute_tools" /\ Len(results) = Len(pending)
    /\ messages' = messages \o ToolMessages(results)
    /\ toolCalls' = toolCalls \o results
    /\ pending' = <<>> /\ results' = <<>>
    /\ node' = "call_llm"
    /\ UNCHANGED <<iteration, draft, spent, response>>

\* respond -> END, and run_agent_graph attaches the accumulated tool calls.
Respond ==
    /\ node = "respond"
    /\ node' = "END"
    /\ response' = toolCalls
    /\ UNCHANGED <<messages, pending, iteration, toolCalls, draft, results, spent>>

GraphNext ==
    \/ AskLLM
    \/ \E n \in 0..MaxToolCalls : LLMReplies(n)
    \/ LLMRaises
    \/ RunTool
    \/ ToolRaises
    \/ ToolsReturn
    \/ Respond

GraphSpec == GraphInit /\ [][GraphNext]_graphVars

(***************************************************************************)
(* Properties                                                              *)
(***************************************************************************)
\* Every request the LLM is sent is a transcript the chat API accepts:
\* call_llm and execute_tools append to copies of the same list in turn, and
\* no tool call stays unanswered or is answered twice.
RequestsWellFormed == node = "awaiting_llm" => WellFormed(draft)

\* The turn as AgentTurn sees it: ended LLM calls, tools that ran, the answer.
Turn == INSTANCE AgentTurn WITH
    Tools <- ToolIds,
    calls <- iteration,
    ran <- toolCalls \o results,
    reported <- response,
    phase <- CASE node \in {"call_llm", "awaiting_llm"} -> "thinking"
               [] node = "execute_tools" -> "acting"
               [] node = "respond" -> "answering"
               [] node = "END" -> "answered"
               [] node = "raised" -> "failed"
=============================================================================
