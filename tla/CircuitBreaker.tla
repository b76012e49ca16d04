-------------------------- MODULE CircuitBreaker --------------------------
(***************************************************************************)
(* What the docstring of CircuitBreaker (llm_client.py:29-37) promises of  *)
(* the traffic to the primary, with none of the code's bookkeeping: there  *)
(* is no clock to compare, no lazy transition and no counter that survives *)
(* the opening.  LLMClient is shown to implement this when its calls come  *)
(* one after the other, which is how agent_flow.py uses a client.          *)
(***************************************************************************)
EXTENDS Integers

CONSTANTS FailureThreshold, RecoveryTimeout

VARIABLES
    mode,      \* "closed", "open" or "half_open"
    streak,    \* consecutive failures while closed
    cooldown   \* ticks until an open breaker becomes half-open

abstractVars == <<mode, streak, cooldown>>

AbstractInit == mode = "closed" /\ streak = 0 /\ cooldown = 0

Opens == mode' = "open" /\ streak' = 0 /\ cooldown' = RecoveryTimeout

\* A request that reached the primary succeeded.
Success ==
    /\ mode \in {"closed", "half_open"}
    /\ mode' = "closed" /\ streak' = 0 /\ cooldown' = 0

\* One more failure, not yet the failure_threshold-th in a row.
Failure ==
    /\ mode = "closed" /\ streak + 1 < FailureThreshold
    /\ streak' = streak + 1
    /\ UNCHANGED <<mode, cooldown>>

\* The failure_threshold-th consecutive failure opens the breaker.
Trip ==
    /\ mode = "closed" /\ streak + 1 >= FailureThreshold
    /\ Opens

\* The one request sent while half-open failed: a fresh cooldown.
ProbeFails == mode = "half_open" /\ Opens

\* The cooldown runs, and its last tick makes the breaker half-open.
Cool ==
    /\ mode = "open"
    /\ cooldown' = cooldown - 1
    /\ mode' = IF cooldown' = 0 THEN "half_open" ELSE "open"
    /\ UNCHANGED streak

AbstractNext == Success \/ Failure \/ Trip \/ ProbeFails \/ Cool

AbstractSpec == AbstractInit /\ [][AbstractNext]_abstractVars
=============================================================================
