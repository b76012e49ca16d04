---------------------------- MODULE LLMClient ----------------------------
(***************************************************************************)
(* services/agent-engine/src/agent_engine/llm_client.py: one LLMClient     *)
(* object, its circuit breaker, and the coroutines that call chat() on it. *)
(*                                                                         *)
(* asyncio runs a coroutine until its next await, so one action is what    *)
(* chat() does between two awaits.  The awaits inside one call that touch  *)
(* no shared state (the async logger before the fallback call) are part of *)
(* the wait that follows them.                                             *)
(***************************************************************************)
EXTENDS Integers, FiniteSets

CONSTANTS
    Callers,           \* coroutines that share the client
    FailureThreshold,  \* failures that open the breaker (3 in the code)
    RecoveryTimeout,   \* cooldown in clock ticks (30 seconds in the code)
    CountCap           \* the model's failure counter saturates here

\* The counter is only ever compared with the threshold, so every cap from
\* the threshold upwards gives the behaviours of the unbounded counter.
ASSUME ClientConstants ==
    /\ FailureThreshold \in Nat \ {0}
    /\ RecoveryTimeout \in Nat \ {0}
    /\ CountCap \in Nat
    /\ CountCap >= FailureThreshold

VARIABLES
    circuit,       \* CircuitBreaker._state
    failureCount,  \* CircuitBreaker._failure_count
    elapsed,       \* time.monotonic() - _last_failure_time, capped at RecoveryTimeout
    pc,            \* where each caller's chat() awaits
    issued         \* history: the breaker's state when the caller's last
                   \* request to the primary was sent

breaker == <<circuit, failureCount, elapsed>>
vars == <<circuit, failureCount, elapsed, pc, issued>>

CircuitState == {"closed", "open", "half_open"}

\* Seconds beyond the cooldown are alike: the code only asks for
\* elapsed >= recovery_timeout.
Later(t) == IF t < RecoveryTimeout THEN t + 1 ELSE t

\* Slip: the comparison is made one tick too early.
StateAt_Early(t) == IF circuit = "open" /\ t + 1 >= RecoveryTimeout
                    THEN "half_open" ELSE circuit

\* The state property: reading it turns an expired OPEN into HALF_OPEN.
StateAt(t) == IF circuit = "open" /\ t >= RecoveryTimeout
              THEN "half_open" ELSE circuit

ShouldUsePrimary == StateAt(elapsed) \in {"closed", "half_open"}

TypeOK ==
    /\ circuit \in CircuitState
    /\ failureCount \in 0..CountCap
    /\ elapsed \in 0..RecoveryTimeout
    /\ pc \in [Callers -> {"idle", "primary", "fallback", "cancelled"}]
    /\ issued \in [Callers -> CircuitState]

Init ==
    /\ circuit = "closed"
    /\ failureCount = 0
    /\ elapsed = RecoveryTimeout   \* _last_failure_time = 0.0, far in the past
    /\ pc = [c \in Callers |-> "idle"]
    /\ issued = [c \in Callers |-> "closed"]

(***************************************************************************)
(* The breaker's two writers.                                              *)
(***************************************************************************)
\* Slips: the counter is decremented, the counter is kept, the state is kept.
RecordSuccess_Decrement ==
    failureCount' = failureCount - 1 /\ circuit' = "closed" /\ elapsed' = elapsed

RecordSuccess_KeepCount ==
    failureCount' = failureCount /\ circuit' = "closed" /\ elapsed' = elapsed

RecordSuccess_KeepState ==
    failureCount' = 0 /\ circuit' = circuit /\ elapsed' = elapsed

RecordSuccess ==
    /\ failureCount' = 0
    /\ circuit' = "closed"
    /\ elapsed' = elapsed

\* Slips: only a closed breaker opens; it opens one failure late.
RecordFailure_OnlyWhenClosed ==
    /\ failureCount' = IF failureCount < CountCap THEN failureCount + 1
                                                  ELSE failureCount
    /\ elapsed' = 0
    /\ circuit' = IF circuit = "closed" /\ failureCount' >= FailureThreshold
                  THEN "open" ELSE circuit

RecordFailure_OneLate ==
    /\ failureCount' = IF failureCount < CountCap THEN failureCount + 1
                                                  ELSE failureCount
    /\ elapsed' = 0
    /\ circuit' = IF failureCount' > FailureThreshold THEN "open" ELSE circuit

RecordFailure ==
    /\ failureCount' = IF failureCount < CountCap THEN failureCount + 1
                                                  ELSE failureCount
    /\ elapsed' = 0
    /\ circuit' = IF failureCount' >= FailureThreshold THEN "open" ELSE circuit

(***************************************************************************)
(* chat()                                                                  *)
(***************************************************************************)
\* The caller awaits nothing: its last chat ended or was cancelled.
Free(c) == pc[c] \in {"idle", "cancelled"}

\* Slip: the counter restarts when the probe is sent, so its failure alone
\* does not reopen the breaker.
CallPrimary_ResetsCount(c) ==
    /\ Free(c)
    /\ ShouldUsePrimary
    /\ circuit' = StateAt(elapsed)
    /\ failureCount' = IF circuit' = "half_open" THEN 0 ELSE failureCount
    /\ issued' = [issued EXCEPT ![c] = circuit']
    /\ pc' = [pc EXCEPT ![c] = "primary"]
    /\ UNCHANGED elapsed

\* should_use_primary holds: the request goes to the primary.
CallPrimary(c) ==
    /\ Free(c)
    /\ ShouldUsePrimary
    /\ circuit' = StateAt(elapsed)
    /\ issued' = [issued EXCEPT ![c] = circuit']
    /\ pc' = [pc EXCEPT ![c] = "primary"]
    /\ UNCHANGED <<failureCount, elapsed>>

\* The breaker is open.  The log line reads the state a second time, and the
\* cooldown may end between the two reads.
SkipPrimary(c) ==
    /\ Free(c)
    /\ ~ShouldUsePrimary
    /\ elapsed' \in {elapsed, Later(elapsed)}
    /\ circuit' = StateAt(elapsed')
    /\ pc' = [pc EXCEPT ![c] = "fallback"]
    /\ UNCHANGED <<failureCount, issued>>

\* _call on the primary returns: record_success, whatever the state is now.
PrimaryReturns(c) ==
    /\ pc[c] = "primary"
    /\ RecordSuccess
    /\ pc' = [pc EXCEPT ![c] = "idle"]
    /\ UNCHANGED issued

\* _call on the primary raises: an HTTP error, the 60 s timeout, or a reply
\* without choices.  The failure is recorded and the fallback is tried.
PrimaryFails(c) ==
    /\ pc[c] = "primary"
    /\ RecordFailure
    /\ pc' = [pc EXCEPT ![c] = "fallback"]
    /\ UNCHANGED issued

\* The fallback call returns, or raises and chat() raises LLMError; neither
\* touches the breaker.
FallbackEnds(c) ==
    /\ pc[c] = "fallback"
    /\ pc' = [pc EXCEPT ![c] = "idle"]
    /\ UNCHANGED <<breaker, issued>>

\* The caller is cancelled (the flow's timeout).  CancelledError is not an
\* Exception: chat() records neither a success nor a failure.
Cancel(c) ==
    /\ pc[c] \in {"primary", "fallback"}
    /\ pc' = [pc EXCEPT ![c] = "cancelled"]
    /\ UNCHANGED <<breaker, issued>>

\* One tick of time.monotonic().
Tick ==
    /\ elapsed < RecoveryTimeout
    /\ elapsed' = Later(elapsed)
    /\ UNCHANGED <<circuit, failureCount, pc, issued>>

Chat(c) == CallPrimary(c) \/ SkipPrimary(c)
PrimaryEnds(c) == PrimaryReturns(c) \/ PrimaryFails(c)

Next ==
    \/ Tick
    \/ \E c \in Callers :
          \/ CallPrimary(c)
          \/ SkipPrimary(c)
          \/ PrimaryReturns(c)
          \/ PrimaryFails(c)
          \/ FallbackEnds(c)
          \/ Cancel(c)

Spec == Init /\ [][Next]_vars

\* Time passes, and both HTTP clients carry a timeout, so a call that is not
\* cancelled ends.  Nothing makes a caller start a chat or cancel one.
Fairness ==
    /\ WF_vars(Tick)
    /\ \A c \in Callers : WF_vars(PrimaryEnds(c)) /\ WF_vars(FallbackEnds(c))

FairSpec == Spec /\ Fairness

(***************************************************************************)
(* Properties                                                              *)
(***************************************************************************)
\* The breaker is closed exactly when fewer than failure_threshold failures
\* have been recorded since the last success.  The counter is not reset when
\* the breaker becomes half-open: that is why one failed probe reopens it
\* (record_failure, the state property and record_success together).
ClosedIffBelowThreshold ==
    (circuit = "closed") <=> (failureCount < FailureThreshold)

\* A half-open breaker has been without a failure for the whole cooldown,
\* even when late failures of older requests arrive while it is half-open
\* (the state property against record_failure).
HalfOpenMeansCooledDown ==
    circuit = "half_open" => elapsed >= RecoveryTimeout

\* chat() sends a request to the primary only below the threshold or a whole
\* cooldown after the last recorded failure.
PrimaryOnlyWhenAllowed ==
    [][ \A c \in Callers :
          pc[c] # "primary" /\ pc'[c] = "primary"
              => failureCount < FailureThreshold \/ elapsed >= RecoveryTimeout ]_vars

\* "If it fails, state returns to OPEN with a fresh cooldown": a failed
\* request that was sent as a probe always leaves the breaker open with the
\* whole cooldown ahead, unless a success closed it since.
FailedProbeReopens ==
    [][ \A c \in Callers :
          (/\ pc[c] = "primary" /\ pc'[c] = "fallback"
           /\ issued[c] = "half_open" /\ circuit # "closed")
              => circuit' = "open" /\ elapsed' = 0 ]_vars

\* When the primary has recovered (no more failures, no cancelled calls) and
\* chats keep coming, the breaker closes for good: no interleaving of late
\* results, cooldowns and probes leaves traffic on the fallback forever.
Recovers ==
    (/\ <>[][\A c \in Callers : ~PrimaryFails(c) /\ ~Cancel(c)]_vars
     /\ []<><<\E c \in Callers : Chat(c)>>_vars)
        => <>[](circuit = "closed")

\* Used by one coroutine at a time, the client implements the docstring: the
\* lazy transition, the kept counter and the clock comparison cannot be told
\* from a breaker that becomes half-open by itself when its cooldown ends.
Contract == INSTANCE CircuitBreaker WITH
    mode <- StateAt(elapsed),
    streak <- IF circuit = "closed" THEN failureCount ELSE 0,
    cooldown <- IF circuit = "open" THEN RecoveryTimeout - elapsed ELSE 0

ImplementsContract == Contract!AbstractSpec
=============================================================================
