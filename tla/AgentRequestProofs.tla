------------------------ MODULE AgentRequestProofs ------------------------
(***************************************************************************)
(* Theorems about one request for any numbers of iterations, tool calls,   *)
(* retries and failures and any cooldown: what a flow of AgentFlow can     *)
(* cost and answers, that a request with real clients is such a flow, and  *)
(* what its clients keep.                                                  *)
(*                                                                         *)
(* The account of the cost is kept attempt by attempt: an attempt that is  *)
(* retried raised, and a graph raises only before its last iteration, so   *)
(* each retry adds one reply less than the cap; the last attempt and the   *)
(* direct run can use the whole of it.                                     *)
(***************************************************************************)
EXTENDS AgentRequest, AgentGraphProofs, TLAPS

(***************************************************************************)
(* The cost of a flow                                                      *)
(***************************************************************************)
\* The replies of k attempts that raised.
Raised(k) == k * (MaxIterations - 1)

AfterFlow == Raised(Retries) + MaxIterations

Counters ==
    /\ node \in Nodes /\ stage \in Stages
    /\ spent \in Nat
    /\ iteration \in 0..MaxIterations
    /\ attempt \in 0..(Retries + 1)
    /\ node \notin {"respond", "END"} => iteration < MaxIterations

Account ==
    /\ stage = "starting" => spent = 0 /\ iteration = 0
    /\ stage = "attempting" => attempt >= 1 /\ spent <= Raised(attempt - 1) + iteration
    /\ stage = "direct_starting" => spent <= AfterFlow /\ iteration = 0
    /\ stage = "direct" => spent <= AfterFlow + iteration
    /\ stage \in Outcomes => spent <= AfterFlow + MaxIterations

BudgetInv == Counters /\ Account

\* The arithmetic of the account, with every product named.
LEMMA RaisedFacts ==
  /\ \A k \in 0..(Retries + 1) : Raised(k) \in Nat
  /\ \A k \in 0..Retries : Raised(k + 1) = Raised(k) + (MaxIterations - 1)
  /\ \A k \in 0..Retries : Raised(k) <= Raised(Retries)
  /\ Raised(0) = 0
<1> USE TurnConstants, FlowConstants
<1>1. \A k \in Nat : Raised(k) \in Nat
  BY DEF Raised
<1>2. \A k \in Nat : Raised(k + 1) = Raised(k) + (MaxIterations - 1)
  BY DEF Raised
<1>3. ASSUME NEW k \in 0..Retries PROVE Raised(k) <= Raised(Retries)
  <2>1. PICK d \in Nat : Retries = k + d
    <3>1. Retries - k \in Nat /\ Retries = k + (Retries - k)
      OBVIOUS
    <3> QED
      BY <3>1
  <2>2. Raised(Retries) = Raised(k) + Raised(d)
    BY <2>1 DEF Raised
  <2> QED
    BY <1>1, <2>1, <2>2
<1>4. Raised(0) = 0
  BY DEF Raised
<1> QED
  BY <1>1, <1>2, <1>3, <1>4

LEMMA BudgetInit == FlowInit => BudgetInv
  BY TurnConstants, FlowConstants
  DEF FlowInit, GraphInit, BudgetInv, Counters, Account, Nodes, Stages, Outcomes

\* A step of the turn adds to the account what it adds to the iteration.
LEMMA GraphStepKeepsBudget == ASSUME BudgetInv, GraphStep PROVE BudgetInv'
<1> USE TurnConstants, FlowConstants, RaisedFacts
    DEF BudgetInv, Counters, Account, Nodes, Stages, Outcomes, GraphStep, flowVars, AfterFlow
<1>0. Retries \in 0..(Retries + 1) /\ (stage = "attempting" => attempt - 1 \in 0..(Retries + 1))
  OBVIOUS
<1>1. CASE AskLLM
  BY <1>0, <1>1 DEF AskLLM
<1>2. ASSUME NEW n \in 0..MaxToolCalls, LLMReplies(n) PROVE BudgetInv'
  <2>1. /\ iteration' = iteration + 1 /\ spent' = spent + 1
        /\ node' \in {"execute_tools", "respond"}
        /\ node' = "execute_tools" => iteration' < MaxIterations
        /\ UNCHANGED <<stage, attempt>> /\ iteration < MaxIterations
    BY <1>2 DEF LLMReplies, RouteAfter
  <2>2. Counters'
    BY <2>1
  <2>3. Account'
    <3>1. CASE stage = "attempting"
      BY <1>0, <2>1, <3>1
    <3>2. CASE stage = "direct"
      BY <2>1, <3>2
    <3> QED
      BY <3>1, <3>2, <2>1
  <2> QED
    BY <2>2, <2>3
<1>3. CASE LLMRaises
  BY <1>0, <1>3 DEF LLMRaises
<1>4. CASE RunTool \/ ToolRaises
  BY <1>0, <1>4 DEF RunTool, ToolRaises
<1>5. CASE ToolsReturn
  BY <1>0, <1>5 DEF ToolsReturn
<1>6. CASE Respond
  BY <1>0, <1>6 DEF Respond
<1> QED
  BY <1>1, <1>2, <1>3, <1>4, <1>5, <1>6 DEF GraphNext

\* The flow leaves an attempt by an exception, a failure of Prefect or the
\* timeout with at most AfterFlow replies spent.
LEMMA GoDirectKeepsBudget == ASSUME BudgetInv, InFlow, GoDirect PROVE BudgetInv'
<1> USE TurnConstants, FlowConstants, RaisedFacts
    DEF BudgetInv, Counters, Account, Nodes, Stages, Outcomes, AfterFlow
<1>1. spent <= AfterFlow
  <2>1. CASE stage = "starting"
    BY <2>1
  <2>2. CASE stage = "attempting"
    <3>1. attempt - 1 \in 0..Retries
      BY <2>2
    <3> QED
      BY <2>2, <3>1
  <2> QED
    BY <2>1, <2>2 DEF InFlow
<1> QED
  BY <1>1 DEF GoDirect, FreshGraph

LEMMA BudgetStep == BudgetInv /\ [FlowNext]_vars => BudgetInv'
<1> SUFFICES ASSUME BudgetInv, [FlowNext]_vars PROVE BudgetInv'
  OBVIOUS
<1> USE TurnConstants, FlowConstants, RaisedFacts
<1>1. CASE FirstAttempt
  BY <1>1 DEF FirstAttempt, FreshGraph, BudgetInv, Counters, Account, Nodes, Stages, Outcomes
<1>2. CASE GraphStep
  BY <1>2, GraphStepKeepsBudget
<1>3. CASE Retry
  <2>1. attempt \in 1..Retries /\ attempt - 1 \in 0..Retries
    BY <1>3 DEF Retry, BudgetInv, Counters, Account
  <2>2. Raised(attempt - 1 + 1) = Raised(attempt - 1) + (MaxIterations - 1)
    BY <2>1
  <2>3. spent <= Raised(attempt)
    BY <1>3, <2>1, <2>2 DEF Retry, BudgetInv, Counters, Account
  <2> QED
    BY <1>3, <2>1, <2>3
    DEF Retry, FreshGraph, BudgetInv, Counters, Account, Nodes, Stages, Outcomes
<1>4. CASE FlowRaises \/ PrefectFails \/ FlowTimesOut
  BY <1>4, GoDirectKeepsBudget DEF FlowRaises, PrefectFails, FlowTimesOut, InFlow
<1>5. CASE FlowReturns
  <2>1. attempt - 1 \in 0..Retries
    BY <1>5 DEF FlowReturns, BudgetInv, Counters, Account
  <2> QED
    BY <1>5, <2>1 DEF FlowReturns, graphVars, BudgetInv, Counters, Account, Nodes, Stages,
       Outcomes, AfterFlow
<1>6. CASE DirectStarts \/ DirectReturns \/ DirectRaises
  <2>1. Raised(Retries) \in Nat
    OBVIOUS
  <2>2. UNCHANGED <<node, spent, iteration, attempt>>
    BY <1>6 DEF DirectStarts, DirectReturns, DirectRaises, graphVars
  <2>3. spent <= AfterFlow + iteration /\ iteration <= MaxIterations
    BY <1>6, <2>1 DEF DirectStarts, DirectReturns, DirectRaises, BudgetInv, Counters, Account,
       AfterFlow
  <2>4. stage' \in {"direct"} \union Outcomes
    BY <1>6 DEF DirectStarts, DirectReturns, DirectRaises, Outcomes
  <2>5. Counters'
    BY <2>2, <2>4 DEF BudgetInv, Counters, Stages
  <2>6. spent' <= AfterFlow + iteration' /\ spent' <= AfterFlow + MaxIterations
    BY <2>1, <2>2, <2>3 DEF BudgetInv, Counters, AfterFlow
  <2>7. Account'
    BY <2>4, <2>6 DEF Account, Outcomes
  <2> QED
    BY <2>5, <2>7 DEF BudgetInv
<1>7. CASE UNCHANGED vars
  BY <1>7 DEF vars, graphVars, flowVars, BudgetInv, Counters, Account, Outcomes
<1> QED
  BY <1>1, <1>2, <1>3, <1>4, <1>5, <1>6, <1>7 DEF FlowNext

\* One request never costs more than retries * (cap - 1) + 2 * cap replies of
\* the LLM (agent_flow.py: three retries, then the direct run; agent_graph.py:
\* the cap).
THEOREM FlowBudget == FlowSpec => []LLMBudget
<1>1. BudgetInv => LLMBudget
  <2> SUFFICES ASSUME BudgetInv PROVE LLMBudget
    OBVIOUS
  <2> USE TurnConstants, FlowConstants, RaisedFacts
  <2>1. Raised(Retries) \in Nat /\ (stage = "attempting" => attempt - 1 \in 0..Retries)
    BY DEF BudgetInv, Counters, Account
  <2>2. spent <= Raised(Retries) + 2 * MaxIterations
    BY <2>1 DEF BudgetInv, Counters, Account, AfterFlow, Stages
  <2> QED
    BY <2>2 DEF LLMBudget, Raised
<1> QED
  BY <1>1, BudgetInit, BudgetStep, PTL DEF FlowSpec

(***************************************************************************)
(* The answer of a flow.  The turn's invariant survives what the flow does *)
(* around it, because every attempt starts from a fresh state; and a flow  *)
(* is "ok" only with a turn that has ended, whose calls are distinct.      *)
(***************************************************************************)
FlowInv ==
    /\ FlowTypeOK
    /\ GraphInv
    /\ stage = "ok" => node = "END"

LEMMA FreshGraphKeepsInv == GraphInv /\ FreshGraph => GraphInv'
  BY TurnConstants, EmptyIsWellFormed, EmptyIsDistinct
  DEF FreshGraph, GraphInv, GraphTypeOK, Nodes, IsTranscript, BetweenNodes, ToolsRunning, CallsDistinct

\* What a step of the flow can do to the turn.
LEMMA FlowStepOnTurn ==
  [FlowNext]_vars =>
      \/ FreshGraph /\ stage' # "ok"
      \/ [GraphNext]_graphVars /\ stage' = stage /\ stage # "ok"
      \/ UNCHANGED graphVars /\ (stage' = "ok" => stage = "ok" \/ node = "END")
<1> SUFFICES ASSUME [FlowNext]_vars
             PROVE  \/ FreshGraph /\ stage' # "ok"
                    \/ [GraphNext]_graphVars /\ stage' = stage /\ stage # "ok"
                    \/ UNCHANGED graphVars /\ (stage' = "ok" => stage = "ok" \/ node = "END")
  OBVIOUS
<1>1. CASE FirstAttempt \/ Retry
  BY <1>1 DEF FirstAttempt, Retry
<1>2. CASE GraphStep
  BY <1>2 DEF GraphStep, flowVars
<1>3. CASE FlowRaises \/ PrefectFails \/ FlowTimesOut
  BY <1>3 DEF FlowRaises, PrefectFails, FlowTimesOut, GoDirect
<1>4. CASE FlowReturns \/ DirectStarts \/ DirectReturns \/ DirectRaises
  BY <1>4 DEF FlowReturns, DirectStarts, DirectReturns, DirectRaises
<1>5. CASE UNCHANGED vars
  BY <1>5 DEF vars, flowVars
<1> QED
  BY <1>1, <1>2, <1>3, <1>4, <1>5 DEF FlowNext

\* A fresh graph is a new attempt or a new stage.
LEMMA FlowStepStarts ==
  ASSUME FlowInv, [FlowNext]_vars
  PROVE  \/ FreshGraph /\ (stage' # stage \/ attempt' # attempt)
         \/ [GraphNext]_graphVars
<1> USE DEF FlowInv, FlowTypeOK
<1>1. CASE FirstAttempt \/ Retry
  BY <1>1 DEF FirstAttempt, Retry
<1>2. CASE GraphStep
  BY <1>2 DEF GraphStep
<1>3. CASE FlowRaises \/ PrefectFails \/ FlowTimesOut
  BY <1>3 DEF FlowRaises, PrefectFails, FlowTimesOut, GoDirect, InFlow
<1>4. CASE FlowReturns \/ DirectStarts \/ DirectReturns \/ DirectRaises
  BY <1>4 DEF FlowReturns, DirectStarts, DirectReturns, DirectRaises
<1>5. CASE UNCHANGED vars
  BY <1>5 DEF vars
<1> QED
  BY <1>1, <1>2, <1>3, <1>4, <1>5 DEF FlowNext

LEMMA FlowTypeStep == FlowTypeOK /\ GraphTypeOK' /\ [FlowNext]_vars => FlowTypeOK'
<1> SUFFICES ASSUME FlowTypeOK, GraphTypeOK', [FlowNext]_vars PROVE FlowTypeOK'
  OBVIOUS
<1> USE FlowConstants DEF FlowTypeOK
<1>1. known' \in BOOLEAN /\ timedOut' \in BOOLEAN
  BY Zenon DEF FlowNext, FirstAttempt, GraphStep, Retry, FlowReturns, FlowRaises, PrefectFails,
     FlowTimesOut, DirectStarts, DirectReturns, DirectRaises, GoDirect, flowVars, vars
<1>2. stage' \in Stages
  BY DEF FlowNext, FirstAttempt, GraphStep, Retry, FlowReturns, FlowRaises, PrefectFails,
     FlowTimesOut, DirectStarts, DirectReturns, DirectRaises, GoDirect, flowVars, vars,
     Stages, Outcomes
<1>3. attempt' \in 0..(Retries + 1)
  BY DEF FlowNext, FirstAttempt, GraphStep, Retry, FlowReturns, FlowRaises, PrefectFails,
     FlowTimesOut, DirectStarts, DirectReturns, DirectRaises, GoDirect, flowVars, vars
<1> QED
  BY <1>1, <1>2, <1>3

LEMMA FlowInvariance == FlowSpec => []FlowInv
<1>1. FlowInit => FlowInv
  <2> SUFFICES ASSUME FlowInit PROVE FlowInv
    OBVIOUS
  <2>1. GraphInv
    BY GraphInitEstablishes DEF FlowInit
  <2>2. known \in BOOLEAN /\ timedOut \in BOOLEAN
    BY Zenon DEF FlowInit
  <2> QED
    BY <2>1, <2>2, FlowConstants DEF FlowInit, FlowInv, FlowTypeOK, GraphInv, Stages
<1>2. FlowInv /\ [FlowNext]_vars => FlowInv'
  <2> SUFFICES ASSUME FlowInv, [FlowNext]_vars PROVE FlowInv'
    OBVIOUS
  <2>1. CASE FreshGraph /\ stage' # "ok"
    BY <2>1, FreshGraphKeepsInv, FlowTypeStep DEF FlowInv, GraphInv
  <2>2. CASE [GraphNext]_graphVars /\ stage' = stage /\ stage # "ok"
    BY <2>2, GraphStepKeepsInv, FlowTypeStep DEF FlowInv, GraphInv
  <2>3. CASE UNCHANGED graphVars /\ (stage' = "ok" => stage = "ok" \/ node = "END")
    <3>1. GraphInv'
      BY <2>3, GraphStepKeepsInv DEF FlowInv
    <3> QED
      BY <2>3, <3>1, FlowTypeStep DEF FlowInv, GraphInv, graphVars
  <2> QED
    BY <2>1, <2>2, <2>3, FlowStepOnTurn
<1> QED
  BY <1>1, <1>2, PTL DEF FlowSpec

\* The response of a request is what one run of the graph did, with each tool
\* call once, although the tools of attempts that failed have run as well
\* (agent_flow.py: every attempt calls run_agent_graph afresh).
THEOREM FlowReportsOneRun == FlowSpec => []ReportsOneRun
<1>1. FlowInv => ReportsOneRun
  BY DEF FlowInv, GraphInv, CallsDistinct, Distinct, ReportsOneRun
<1> QED
  BY <1>1, FlowInvariance, PTL

\* Every run of the graph in a request is a turn as AgentTurn promises it, and
\* starts afresh (run_agent_graph, called by every attempt and by the direct run).
THEOREM FlowRunsAreTurns == FlowSpec => RunsAreTurns
<1>1. FlowInit => Turn!TurnInit
  BY DEF FlowInit, GraphInit, Turn!TurnInit
<1>2. FlowInv /\ [FlowNext]_vars
        => [ \/ Turn!TurnNext
             \/ Turn!TurnInit' /\ <<stage, attempt>>' # <<stage, attempt>> ]_(Turn!turnVars)
  <2> SUFFICES ASSUME FlowInv, [FlowNext]_vars
               PROVE  \/ Turn!TurnNext \/ UNCHANGED Turn!turnVars
                      \/ Turn!TurnInit' /\ (stage' # stage \/ attempt' # attempt)
    OBVIOUS
  <2>1. CASE FreshGraph /\ (stage' # stage \/ attempt' # attempt)
    <3>1. Turn!TurnInit'
      BY <2>1 DEF FreshGraph, Turn!TurnInit
    <3> QED
      BY <2>1, <3>1
  <2>2. CASE [GraphNext]_graphVars
    BY <2>2, GraphStepImplements DEF FlowInv
  <2> QED
    BY <2>1, <2>2, FlowStepStarts
<1> QED
  BY <1>1, <1>2, FlowInvariance, PTL DEF FlowSpec, RunsAreTurns

\* In every attempt and in the direct run the LLM is sent well-formed requests.
THEOREM FlowRequestsWellFormed == FlowSpec => []RequestsWellFormed
<1>1. FlowInv => RequestsWellFormed
  BY DEF FlowInv, GraphInv, BetweenNodes, RequestsWellFormed
<1> QED
  BY <1>1, FlowInvariance, PTL

(***************************************************************************)
(* The request implements the flow                                         *)
(***************************************************************************)
ClientProofs == INSTANCE LLMClientProofs WITH
    Callers <- {Caller}, CountCap <- FailureThreshold

LEMMA RequestStepIsFlowStep == [RequestNext]_requestVars => [FlowNext]_vars
<1> SUFFICES ASSUME [RequestNext]_requestVars PROVE [FlowNext]_vars
  OBVIOUS
<1> USE DEF FlowNext, GraphStep, GraphNext, Running
<1>1. CASE Ask
  BY <1>1 DEF Ask
<1>2. CASE PrimaryReplies \/ FallbackReplies
  BY <1>2 DEF PrimaryReplies, FallbackReplies
<1>3. CASE PrimaryFailed
  BY <1>3 DEF PrimaryFailed
<1>4. CASE FallbackFailed
  BY <1>4 DEF FallbackFailed
<1>5. CASE ToolsRun \/ ToolRaised
  BY <1>5 DEF ToolsRun, ToolRaised
<1>6. CASE NextAttempt \/ FlowRaised \/ FlowAbandoned \/ Bookkeeping
  BY <1>6 DEF NextAttempt, FlowRaised, FlowAbandoned, Bookkeeping
<1>7. CASE ClockTick
  BY <1>7 DEF ClockTick
<1>8. CASE UNCHANGED requestVars
  BY <1>8 DEF requestVars
<1> QED
  BY <1>1, <1>2, <1>3, <1>4, <1>5, <1>6, <1>7, <1>8 DEF RequestNext, RequestStep

\* By composition: with its clients (llm_client.py) a request is still one of
\* AgentFlow (agent_flow.py), so what is shown of flows holds of it.
LEMMA RequestIsFlow == RequestSpec => FlowSpec
<1>1. RequestInit => FlowInit
  BY DEF RequestInit
<1> QED
  BY <1>1, RequestStepIsFlowStep, PTL DEF RequestSpec, FlowSpec

(***************************************************************************)
(* The clients: each is used by one coroutine, so the lemmas of            *)
(* LLMClientProofs about a single caller hold of it.                       *)
(***************************************************************************)
ClientInv == ClientProofs!IInv /\ ClientProofs!InFlightMeansAllowed

LEMMA RequestStepOnClient ==
  [RequestNext]_requestVars =>
      [Client!Next]_(Client!vars) \/ (NewClient /\ InFlow /\ ~InFlow')
<1> SUFFICES ASSUME [RequestNext]_requestVars
             PROVE  [Client!Next]_(Client!vars) \/ (NewClient /\ InFlow /\ ~InFlow')
  OBVIOUS
<1> USE DEF Client!Next, Client!vars, clientVars
<1>1. CASE Ask
  BY <1>1 DEF Ask, Client!Chat
<1>2. CASE PrimaryReplies \/ PrimaryFailed
  BY <1>2 DEF PrimaryReplies, PrimaryFailed
<1>3. CASE FallbackReplies \/ FallbackFailed
  BY <1>3 DEF FallbackReplies, FallbackFailed
<1>4. CASE ToolsRun \/ ToolRaised \/ NextAttempt \/ Bookkeeping
  BY <1>4 DEF ToolsRun, ToolRaised, NextAttempt, Bookkeeping
<1>5. CASE FlowRaised \/ FlowAbandoned
  BY <1>5 DEF FlowRaised, FlowAbandoned, FlowRaises, PrefectFails, FlowTimesOut, GoDirect, InFlow
<1>6. CASE ClockTick
  BY <1>6 DEF ClockTick, Client!Tick, Client!Later
<1>7. CASE UNCHANGED requestVars
  BY <1>7 DEF requestVars
<1> QED
  BY <1>1, <1>2, <1>3, <1>4, <1>5, <1>6, <1>7 DEF RequestNext, RequestStep

\* The same client under its two names, that of the model and that of the lemmas.
LEMMA SameStep ==
  [Client!Next]_(Client!vars) => [ClientProofs!Next]_(ClientProofs!vars)
  BY DEF
      Client!Next, Client!vars, Client!Tick, Client!Later, Client!StateAt,
      Client!ShouldUsePrimary, Client!Free, Client!CallPrimary, Client!SkipPrimary,
      Client!PrimaryReturns, Client!PrimaryFails, Client!FallbackEnds,
      Client!Cancel, Client!RecordSuccess, Client!RecordFailure, Client!breaker,
      ClientProofs!Next, ClientProofs!vars, ClientProofs!Tick, ClientProofs!Later,
      ClientProofs!StateAt, ClientProofs!ShouldUsePrimary, ClientProofs!Free,
      ClientProofs!CallPrimary, ClientProofs!SkipPrimary,
      ClientProofs!PrimaryReturns, ClientProofs!PrimaryFails,
      ClientProofs!FallbackEnds, ClientProofs!Cancel, ClientProofs!RecordSuccess,
      ClientProofs!RecordFailure, ClientProofs!breaker

LEMMA SameContract ==
  [ClientProofs!Contract!AbstractNext]_(ClientProofs!Contract!abstractVars)
      => [Breaker!AbstractNext]_(Breaker!abstractVars)
  BY DEF
      Breaker!AbstractNext, Breaker!abstractVars, Breaker!Opens, Breaker!Success,
      Breaker!Failure, Breaker!Trip, Breaker!ProbeFails, Breaker!Cool,
      ClientProofs!Contract!AbstractNext, ClientProofs!Contract!abstractVars,
      ClientProofs!Contract!Opens, ClientProofs!Contract!Success,
      ClientProofs!Contract!Failure, ClientProofs!Contract!Trip,
      ClientProofs!Contract!ProbeFails, ClientProofs!Contract!Cool,
      Client!StateAt, ClientProofs!StateAt

LEMMA ClientInit == Client!Init => ClientInv
  BY BreakerConstants
  DEF Client!Init, ClientInv, ClientProofs!IInv, ClientProofs!TypeOK,
      ClientProofs!InFlightMeansAllowed, ClientProofs!CircuitState,
      ClientProofs!ClosedIffBelowThreshold, ClientProofs!HalfOpenMeansCooledDown

LEMMA ClientStep ==
  ASSUME ClientInv, [RequestNext]_requestVars
  PROVE  /\ ClientInv'
         /\ [Breaker!AbstractNext \/ (NewClient /\ InFlow /\ ~InFlow')]_(Breaker!abstractVars)
<1>1. CASE [Client!Next]_(Client!vars)
  <2>1. ClientProofs!IInv'
    BY <1>1, SameStep, BreakerConstants, ClientProofs!StepPreserves DEF ClientInv
  <2>2. ClientProofs!InFlightMeansAllowed'
    BY <1>1, SameStep, BreakerConstants, ClientProofs!InFlightStep DEF ClientInv
  <2>3. [ClientProofs!Contract!AbstractNext]_(ClientProofs!Contract!abstractVars)
    BY <1>1, SameStep, BreakerConstants, ClientProofs!StepImplements DEF ClientInv
  <2> QED
    BY <2>1, <2>2, <2>3, SameContract DEF ClientInv
<1>2. CASE NewClient /\ InFlow /\ ~InFlow'
  <2>1. ClientInv'
    BY <1>2, BreakerConstants
    DEF NewClient, ClientInv, ClientProofs!IInv, ClientProofs!InFlightMeansAllowed,
        ClientProofs!TypeOK, ClientProofs!CircuitState,
        ClientProofs!ClosedIffBelowThreshold, ClientProofs!HalfOpenMeansCooledDown
  <2> QED
    BY <1>2, <2>1
<1> QED
  BY <1>1, <1>2, RequestStepOnClient

\* Whatever the request goes through, each of its clients keeps the contract
\* of the circuit breaker's docstring until it is replaced at the flow's end.
THEOREM ClientsKeepContractHolds == RequestSpec => ClientsKeepContract
<1>1. RequestInit => ClientInv /\ Breaker!AbstractInit
  BY BreakerConstants, ClientInit
  DEF RequestInit, Client!Init, Breaker!AbstractInit, Client!StateAt
<1>2. ClientInv /\ [RequestNext]_requestVars
        => /\ ClientInv'
           /\ [ Breaker!AbstractNext \/ (NewClient /\ InFlow /\ ~InFlow') ]_(Breaker!abstractVars)
  BY ClientStep
<1> QED
  BY <1>1, <1>2, PTL DEF RequestSpec, ClientsKeepContract

\* The cost of a request with its clients (agent_flow.py, agent_graph.py).
THEOREM RequestBudget == RequestSpec => []LLMBudget
  BY RequestIsFlow, FlowBudget, PTL

\* With its clients, too, a request is a series of turns that each start afresh.
THEOREM RequestRunsAreTurns == RequestSpec => RunsAreTurns
  BY RequestIsFlow, FlowRunsAreTurns, PTL

\* What a request with its clients answers is the work of one run of the graph.
THEOREM RequestReportsOneRun == RequestSpec => []ReportsOneRun
  BY RequestIsFlow, FlowReportsOneRun, PTL

(***************************************************************************)
(* The cooldown over retries.  While the flow runs there is one client, so *)
(* the time since a breaker of the request opened is the client's own.     *)
(***************************************************************************)
TrippedHere ==
    /\ tripped \in 0..RecoveryTimeout
    /\ InFlow /\ tripped < RecoveryTimeout => circuit = "open" /\ elapsed = tripped

LEMMA TrippedStep ==
  ASSUME ClientInv, TrippedHere, [RequestNext]_requestVars
  PROVE  TrippedHere'
<1> USE BreakerConstants DEF TrippedHere, Caller
<1>1. CASE Ask
  BY <1>1 DEF Ask, AskLLM, flowVars, InFlow, Client!Chat, Client!CallPrimary, Client!SkipPrimary,
     Client!ShouldUsePrimary, Client!StateAt, Client!Later, ClientInv, ClientProofs!IInv,
     ClientProofs!TypeOK, ClientProofs!CircuitState
<1>2. CASE PrimaryReplies
  BY <1>2 DEF PrimaryReplies, flowVars, InFlow, Client!PrimaryReturns, Client!RecordSuccess,
     ClientInv, ClientProofs!InFlightMeansAllowed
<1>3. CASE PrimaryFailed
  BY <1>3 DEF PrimaryFailed, vars, flowVars, InFlow, Client!PrimaryFails, Client!RecordFailure,
     ClientInv, ClientProofs!InFlightMeansAllowed
<1>4. CASE FallbackReplies \/ FallbackFailed
  BY <1>4 DEF FallbackReplies, FallbackFailed, flowVars, InFlow, Client!FallbackEnds,
     Client!breaker
<1>5. CASE ToolsRun \/ ToolRaised
  BY <1>5 DEF ToolsRun, ToolRaised, flowVars, clientVars, InFlow
<1>6. CASE NextAttempt \/ Bookkeeping
  BY <1>6 DEF NextAttempt, Bookkeeping, clientVars, InFlow, Retry, FirstAttempt, FlowReturns,
     DirectStarts, DirectReturns, DirectRaises
<1>7. CASE FlowRaised \/ FlowAbandoned
  BY <1>7 DEF FlowRaised, FlowAbandoned, FlowRaises, PrefectFails, FlowTimesOut, GoDirect, InFlow
<1>8. CASE ClockTick
  BY <1>8 DEF ClockTick, vars, flowVars, InFlow, Client!Later
<1>9. CASE UNCHANGED requestVars
  BY <1>9 DEF requestVars, clientVars, vars, flowVars, InFlow
<1> QED
  BY <1>1, <1>2, <1>3, <1>4, <1>5, <1>6, <1>7, <1>8, <1>9 DEF RequestNext, RequestStep

\* No attempt of the flow goes to a primary whose breaker an earlier one has
\* opened, before the cooldown is over (run_agent_graph's retries share the
\* client of _prefect_agent_flow).
THEOREM RetriesKeepCooldownHolds == RequestSpec => RetriesKeepCooldown
<1>1. RequestInit => ClientInv /\ TrippedHere
  BY BreakerConstants, ClientInit DEF RequestInit, TrippedHere
<1>2. ASSUME ClientInv, TrippedHere, [RequestNext]_requestVars,
             stage = "attempting", pc[Caller] # "primary", pc'[Caller] = "primary"
      PROVE  tripped >= RecoveryTimeout
  <2>1. Client!CallPrimary(Caller)
    BY <1>2
    DEF RequestNext, RequestStep, Ask, PrimaryReplies, PrimaryFailed, FallbackReplies,
        FallbackFailed, ToolsRun, ToolRaised, NextAttempt, FlowRaised, FlowAbandoned,
        Bookkeeping, ClockTick, requestVars, clientVars, NewClient, Client!Chat,
        Client!SkipPrimary, Client!PrimaryReturns, Client!PrimaryFails, Client!FallbackEnds,
        ClientInv, ClientProofs!IInv, ClientProofs!TypeOK
  <2>2. circuit = "open" => elapsed >= RecoveryTimeout
    BY <2>1 DEF Client!CallPrimary, Client!ShouldUsePrimary, Client!StateAt
  <2> QED
    BY <1>2, <2>2, BreakerConstants DEF TrippedHere, InFlow
<1>3. ClientInv /\ TrippedHere /\ [RequestNext]_requestVars
        => /\ ClientInv' /\ TrippedHere'
           /\ [ stage = "attempting" /\ pc[Caller] # "primary" /\ pc'[Caller] = "primary"
                   => tripped >= RecoveryTimeout ]_requestVars
  BY <1>2, ClientStep, TrippedStep
<1> QED
  BY <1>1, <1>3, PTL DEF RequestSpec, RetriesKeepCooldown

FaultyTyped == faulty \in BOOLEAN

\* The variables of the request, the flow, the turn and the client keep their
\* types: the iteration its cap, the attempts their number, the failures the
\* breaker's threshold.
THEOREM RequestTypeCorrect == RequestSpec => []RequestTypeOK
<1>1. RequestInit => ClientInv /\ TrippedHere /\ FaultyTyped
  <2>1. RequestInit => FaultyTyped
    BY Zenon DEF FaultyTyped, RequestInit
  <2> QED
    BY <2>1, BreakerConstants, ClientInit DEF RequestInit, TrippedHere
<1>2. FaultyTyped /\ [RequestNext]_requestVars => FaultyTyped'
  BY Zenon DEF FaultyTyped, RequestNext, RequestStep, Ask, PrimaryReplies, PrimaryFailed, FallbackReplies,
     FallbackFailed, ToolsRun, ToolRaised, NextAttempt, FlowRaised, FlowAbandoned,
     Bookkeeping, ClockTick, requestVars
<1>3. ClientInv /\ TrippedHere /\ [RequestNext]_requestVars => ClientInv' /\ TrippedHere'
  BY ClientStep, TrippedStep
<1>4. FlowInv /\ ClientInv /\ TrippedHere /\ FaultyTyped => RequestTypeOK
  <2> SUFFICES ASSUME FlowInv, ClientInv, TrippedHere, FaultyTyped PROVE RequestTypeOK
    OBVIOUS
  <2>1. FlowTypeOK
    BY DEF FlowInv
  <2>2. Client!TypeOK
    BY DEF ClientInv, ClientProofs!IInv, ClientProofs!TypeOK, Client!TypeOK,
       ClientProofs!CircuitState, Client!CircuitState
  <2>3. tripped \in 0..RecoveryTimeout
    BY DEF TrippedHere
  <2> QED
    BY <2>1, <2>2, <2>3, Zenon DEF FaultyTyped, RequestTypeOK
<1> QED
  BY <1>1, <1>2, <1>3, <1>4, FlowInvariance, RequestIsFlow, PTL
  DEF RequestSpec
=============================================================================
