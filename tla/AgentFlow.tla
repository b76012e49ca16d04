---------------------------- MODULE AgentFlow ----------------------------
(***************************************************************************)
(* services/agent-engine/src/agent_engine/flows/agent_flow.py: one request *)
(* to agent-engine.  agent_flow runs the turn of AgentGraph inside a       *)
(* Prefect flow, whose task is retried, and runs it once more without      *)
(* Prefect when the flow raises for whatever reason.                       *)
(*                                                                         *)
(* Prefect is external: its retries, its flow timeout and its own failures *)
(* (API unreachable) are modelled from the decorators and the except       *)
(* clause in agent_flow.py.  AgentRequest adds the stages' LLM clients.    *)
(***************************************************************************)
EXTENDS AgentGraph

CONSTANT Retries   \* retries=3 of run_agent_graph

ASSUME FlowConstants == Retries \in Nat

VARIABLES
    known,     \* the registry has the requested agent type
    stage,     \* where agent_flow is
    attempt,   \* attempts of the task run_agent_graph that were started
    timedOut   \* history: the 120 s flow timeout fired

flowVars == <<known, stage, attempt, timedOut>>
vars == <<graphVars, flowVars>>

Outcomes == {"ok", "not_found", "llm_error", "error"}
Stages == {"starting", "attempting", "direct_starting", "direct"} \union Outcomes

FlowTypeOK ==
    /\ GraphTypeOK
    /\ known \in BOOLEAN
    /\ stage \in Stages
    /\ attempt \in 0..(Retries + 1)
    /\ timedOut \in BOOLEAN

FlowInit ==
    /\ GraphInit
    /\ known \in BOOLEAN
    /\ stage = "starting" /\ attempt = 0 /\ timedOut = FALSE

\* The state a graph starts with; the LLM replies of earlier attempts stay spent.
FreshGraph ==
    /\ node' = "call_llm"
    /\ messages' = <<>> /\ pending' = <<>> /\ iteration' = 0 /\ toolCalls' = <<>>
    /\ draft' = <<>> /\ results' = <<>>
    /\ response' = <<>>
    /\ spent' = spent

InFlow == stage \in {"starting", "attempting"}

\* create_agent finds the type and the task's first attempt starts.
FirstAttempt ==
    /\ stage = "starting" /\ known
    /\ stage' = "attempting" /\ attempt' = 1
    /\ FreshGraph
    /\ UNCHANGED <<known, timedOut>>

\* A step of the graph, inside the task or in _direct_execute.
GraphStep ==
    /\ stage \in {"attempting", "direct"}
    /\ GraphNext
    /\ UNCHANGED flowVars

\* Slip: the retry continues with the tool calls of the failed attempt.
Retry_KeepsTools ==
    /\ stage = "attempting" /\ node = "raised" /\ attempt <= Retries
    /\ attempt' = attempt + 1
    /\ node' = "call_llm" /\ messages' = <<>> /\ pending' = <<>> /\ iteration' = 0
    /\ toolCalls' = toolCalls \o results
    /\ draft' = <<>> /\ results' = <<>> /\ response' = <<>>
    /\ UNCHANGED <<spent, known, stage, timedOut>>

\* Slip: one retry too many.
Retry_OneMore ==
    /\ stage = "attempting" /\ node = "raised" /\ attempt <= Retries + 1
    /\ attempt' = attempt + 1
    /\ FreshGraph
    /\ UNCHANGED <<known, stage, timedOut>>

\* The graph raised: Prefect runs the whole task again, from a fresh state.
Retry ==
    /\ stage = "attempting" /\ node = "raised" /\ attempt <= Retries
    /\ attempt' = attempt + 1
    /\ FreshGraph
    /\ UNCHANGED <<known, stage, timedOut>>

\* The flow returns the response of the attempt that ended.
FlowReturns ==
    /\ stage = "attempting" /\ node = "END"
    /\ stage' = "ok"
    /\ UNCHANGED <<graphVars, known, attempt, timedOut>>

\* What every way of leaving the flow by an exception does: agent_flow calls
\* _direct_execute, whatever the flow had achieved.
GoDirect ==
    /\ stage' = "direct_starting"
    /\ FreshGraph
    /\ UNCHANGED <<known, attempt>>

\* create_agent raises NotFoundError, or the last attempt raised.
FlowRaises ==
    /\ \/ stage = "starting" /\ ~known
       \/ stage = "attempting" /\ node = "raised" /\ attempt > Retries
    /\ GoDirect
    /\ UNCHANGED timedOut

\* Prefect itself fails: it cannot reach its API before, during or after the
\* attempts, also when the graph has answered.
PrefectFails ==
    /\ InFlow
    /\ GoDirect
    /\ UNCHANGED timedOut

\* timeout_seconds=120 cancels the flow at any of its awaits.
FlowTimesOut ==
    /\ InFlow
    /\ GoDirect
    /\ timedOut' = TRUE

\* _direct_execute: AgentRegistry.create, then one run of the graph.
DirectStarts ==
    /\ stage = "direct_starting"
    /\ stage' = IF known THEN "direct" ELSE "not_found"
    /\ UNCHANGED <<graphVars, known, attempt, timedOut>>

DirectReturns ==
    /\ stage = "direct" /\ node = "END"
    /\ stage' = "ok"
    /\ UNCHANGED <<graphVars, known, attempt, timedOut>>

\* What the endpoint makes of it (main.py): an LLMError becomes 502, any other
\* exception 500.  A graph raises between tool calls only in a tool.
DirectRaises ==
    /\ stage = "direct" /\ node = "raised"
    /\ stage' = IF pending = <<>> THEN "llm_error" ELSE "error"
    /\ UNCHANGED <<graphVars, known, attempt, timedOut>>

FlowNext ==
    \/ FirstAttempt
    \/ GraphStep
    \/ Retry
    \/ FlowReturns
    \/ FlowRaises
    \/ PrefectFails
    \/ FlowTimesOut
    \/ DirectStarts
    \/ DirectReturns
    \/ DirectRaises

FlowSpec == FlowInit /\ [][FlowNext]_vars

(***************************************************************************)
(* Properties                                                              *)
(***************************************************************************)
\* What one request can cost in LLM replies: an attempt that is retried failed
\* before its last reply, the attempt the flow ends with and the direct run can
\* both use the whole cap (retries of the task, the cap in _should_continue and
\* the except clause together; 22 with 3 retries and 5 iterations).
LLMBudget == spent <= Retries * (MaxIterations - 1) + 2 * MaxIterations

\* Every run of the graph, in an attempt of the task or in the direct run, is a
\* turn of AgentTurn: at most MaxIterations LLM calls, and an answer that lists
\* every executed tool call in order although each node sees only its copy; only
\* a new attempt or stage starts another one.
RunsAreTurns ==
    /\ Turn!TurnInit
    /\ [][ \/ Turn!TurnNext
           \/ Turn!TurnInit' /\ <<stage, attempt>>' # <<stage, attempt>> ]_(Turn!turnVars)

\* The answer of a request lists each tool call of the successful run once:
\* nothing of an attempt that failed gets into it.
ReportsOneRun ==
    stage = "ok" => response = toolCalls /\ IsInjective(response)
=============================================================================
