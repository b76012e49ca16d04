--------------------------- MODULE AgentRequest ---------------------------
(***************************************************************************)
(* One request to agent-engine with the LLM client it talks through: the   *)
(* turn and the flow of AgentFlow composed with LLMClient.                 *)
(*                                                                         *)
(* _prefect_agent_flow makes a client, which all attempts of its task      *)
(* share, and _direct_execute makes another one.  A client is used by one  *)
(* coroutine, the turn's; its breaker lives and dies with it.              *)
(***************************************************************************)
EXTENDS AgentFlow

CONSTANTS FailureThreshold, RecoveryTimeout   \* 3 failures, 30 seconds

ASSUME BreakerConstants ==
    FailureThreshold \in Nat \ {0} /\ RecoveryTimeout \in Nat \ {0}

VARIABLES
    circuit, failureCount, elapsed, pc, issued,   \* the current client
    tripped,  \* history: ticks since a breaker of this request last opened,
              \* capped at RecoveryTimeout
    faulty    \* history: in the direct run the fallback failed or a tool raised

Caller == "turn"   \* the only coroutine that uses a client
Client == INSTANCE LLMClient WITH Callers <- {Caller}, CountCap <- FailureThreshold

clientVars == <<circuit, failureCount, elapsed, pc, issued>>
requestVars == <<vars, clientVars, tripped, faulty>>

RequestTypeOK ==
    /\ FlowTypeOK
    /\ Client!TypeOK
    /\ tripped \in 0..RecoveryTimeout
    /\ faulty \in BOOLEAN

RequestInit ==
    /\ FlowInit
    /\ Client!Init
    /\ tripped = RecoveryTimeout
    /\ faulty = FALSE

Running == stage \in {"attempting", "direct"}

(***************************************************************************)
(* The turn's chat() and what it hears from the two endpoints.             *)
(***************************************************************************)
Ask ==
    /\ Running
    /\ AskLLM /\ Client!Chat(Caller)
    /\ tripped' = IF elapsed' = elapsed THEN tripped ELSE Client!Later(tripped)
    /\ UNCHANGED <<flowVars, faulty>>

PrimaryReplies ==
    /\ Running
    /\ Client!PrimaryReturns(Caller)
    /\ \E n \in 0..MaxToolCalls : LLMReplies(n)
    /\ UNCHANGED <<flowVars, tripped, faulty>>

\* Slip: chat() raises when the primary fails.
PrimaryFailed_Raises ==
    /\ Running /\ pc[Caller] = "primary"
    /\ Client!RecordFailure
    /\ pc' = [pc EXCEPT ![Caller] = "idle"]
    /\ LLMRaises
    /\ UNCHANGED <<flowVars, issued, tripped, faulty>>

\* chat() goes on with the fallback; the graph notices nothing.
PrimaryFailed ==
    /\ Client!PrimaryFails(Caller)
    /\ tripped' = IF circuit' = "open" THEN 0 ELSE tripped
    /\ UNCHANGED <<vars, faulty>>

FallbackReplies ==
    /\ Running
    /\ Client!FallbackEnds(Caller)
    /\ \E n \in 0..MaxToolCalls : LLMReplies(n)
    /\ UNCHANGED <<flowVars, tripped, faulty>>

FallbackFailed ==
    /\ Running
    /\ Client!FallbackEnds(Caller)
    /\ LLMRaises
    /\ faulty' = (faulty \/ stage = "direct")
    /\ UNCHANGED <<flowVars, tripped>>

(***************************************************************************)
(* The rest of the turn and of the flow.                                   *)
(***************************************************************************)
ToolsRun ==
    /\ Running
    /\ RunTool \/ ToolsReturn \/ Respond
    /\ UNCHANGED <<flowVars, clientVars, tripped, faulty>>

ToolRaised ==
    /\ Running
    /\ ToolRaises
    /\ faulty' = (faulty \/ stage = "direct")
    /\ UNCHANGED <<flowVars, clientVars, tripped>>

NewClient ==
    /\ circuit' = "closed" /\ failureCount' = 0 /\ elapsed' = RecoveryTimeout
    /\ pc' = [pc EXCEPT ![Caller] = "idle"]
    /\ issued' = [issued EXCEPT ![Caller] = "closed"]

\* Slip: every attempt makes its own client.
NextAttempt_NewClient ==
    /\ Retry
    /\ NewClient
    /\ UNCHANGED <<tripped, faulty>>

\* A retried attempt goes on with the client of the flow.
NextAttempt ==
    /\ Retry
    /\ UNCHANGED <<clientVars, tripped, faulty>>

\* The flow is left by an exception: its client is closed, with a call that
\* was under way, and _direct_execute makes a new one.
FlowRaised ==
    /\ FlowRaises
    /\ NewClient
    /\ UNCHANGED <<tripped, faulty>>

FlowAbandoned ==
    /\ PrefectFails \/ FlowTimesOut
    /\ NewClient
    /\ UNCHANGED <<tripped, faulty>>

Bookkeeping ==
    /\ FirstAttempt \/ FlowReturns \/ DirectStarts \/ DirectReturns \/ DirectRaises
    /\ UNCHANGED <<clientVars, tripped, faulty>>

ClockTick ==
    /\ elapsed < RecoveryTimeout \/ tripped < RecoveryTimeout
    /\ elapsed' = Client!Later(elapsed)
    /\ tripped' = Client!Later(tripped)
    /\ UNCHANGED <<vars, circuit, failureCount, pc, issued, faulty>>

\* What the request's own coroutine and the two endpoints do.
RequestStep ==
    \/ Ask
    \/ PrimaryReplies
    \/ PrimaryFailed
    \/ FallbackReplies
    \/ FallbackFailed
    \/ ToolsRun
    \/ ToolRaised
    \/ NextAttempt
    \/ FlowRaised
    \/ Bookkeeping

RequestNext == RequestStep \/ FlowAbandoned \/ ClockTick

RequestSpec == RequestInit /\ [][RequestNext]_requestVars

\* The coroutine goes on as long as it can, since every call it awaits has a
\* timeout, and time passes.  Prefect may fail or time out, and need not.
RequestFairSpec == RequestSpec /\ WF_requestVars(RequestStep) /\ WF_requestVars(ClockTick)

(***************************************************************************)
(* Properties                                                              *)
(***************************************************************************)
\* Each client keeps what the breaker's docstring promises of it, over all the
\* attempts that share it and up to the flow's end in the middle of a call:
\* the lazy transition, the kept counter and the clock comparison cannot be
\* told from a breaker that becomes half-open by itself.
Breaker == INSTANCE CircuitBreaker WITH
    mode <- Client!StateAt(elapsed),
    streak <- IF circuit = "closed" THEN failureCount ELSE 0,
    cooldown <- IF circuit = "open" THEN RecoveryTimeout - elapsed ELSE 0

ClientsKeepContract ==
    /\ Breaker!AbstractInit
    /\ [][ Breaker!AbstractNext \/ (NewClient /\ InFlow /\ ~InFlow') ]_(Breaker!abstractVars)

\* A retried attempt does not go back to a primary whose breaker an earlier
\* attempt has opened: in the flow nothing is sent to it during a cooldown.
RetriesKeepCooldown ==
    [][ stage = "attempting" /\ pc[Caller] # "primary" /\ pc'[Caller] = "primary"
          => tripped >= RecoveryTimeout ]_requestVars

\* A request for a known agent is answered unless the fallback fails or a tool
\* raises in its direct run, whatever the primary and Prefect do; every other
\* request ends with an error.
Answered ==
    <>(stage = "ok" \/ (stage \in Outcomes /\ (~known \/ faulty)))

\* llm_client.py:32-33, "after failure_threshold consecutive failures, all
\* traffic goes to fallback for recovery_timeout seconds".
AllTrafficToFallback ==
    [][ pc[Caller] # "primary" /\ pc'[Caller] = "primary"
          => tripped >= RecoveryTimeout ]_requestVars
=============================================================================
