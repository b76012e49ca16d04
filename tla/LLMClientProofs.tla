------------------------- MODULE LLMClientProofs -------------------------
(***************************************************************************)
(* Theorems about LLMClient, for every set of callers, threshold, cooldown *)
(* and cap.  The inductive invariant IInv ties the three fields of the     *)
(* breaker together; everything else follows from it.                      *)
(***************************************************************************)
EXTENDS LLMClient, TLAPS

IInv == TypeOK /\ ClosedIffBelowThreshold /\ HalfOpenMeansCooledDown

\* The constants as the arithmetic steps need them.
LEMMA ConstantsFacts ==
    /\ FailureThreshold \in Nat /\ FailureThreshold >= 1
    /\ RecoveryTimeout \in Nat /\ RecoveryTimeout >= 1
    /\ CountCap \in Nat /\ CountCap >= FailureThreshold
  BY ClientConstants

LEMMA InitEstablishes == Init => IInv
  BY ConstantsFacts
  DEF Init, IInv, TypeOK, CircuitState, ClosedIffBelowThreshold, HalfOpenMeansCooledDown

\* One step per action: the two writers, and the steps that only read the
\* breaker's state and may turn an expired OPEN into HALF_OPEN.
LEMMA StepPreserves == IInv /\ [Next]_vars => IInv'
<1> SUFFICES ASSUME IInv, [Next]_vars PROVE IInv'
  OBVIOUS
<1> USE ConstantsFacts DEF IInv, TypeOK, CircuitState, ClosedIffBelowThreshold,
        HalfOpenMeansCooledDown
<1>1. CASE Tick
  BY <1>1 DEF Tick, Later
<1>2. ASSUME NEW c \in Callers, CallPrimary(c) PROVE IInv'
  BY <1>2 DEF CallPrimary, ShouldUsePrimary, StateAt
<1>3. ASSUME NEW c \in Callers, SkipPrimary(c) PROVE IInv'
  BY <1>3 DEF SkipPrimary, ShouldUsePrimary, StateAt, Later
<1>4. ASSUME NEW c \in Callers, PrimaryReturns(c) PROVE IInv'
  BY <1>4 DEF PrimaryReturns, RecordSuccess
<1>5. ASSUME NEW c \in Callers, PrimaryFails(c) PROVE IInv'
  BY <1>5 DEF PrimaryFails, RecordFailure
<1>6. ASSUME NEW c \in Callers, FallbackEnds(c) PROVE IInv'
  BY <1>6 DEF FallbackEnds, breaker
<1>7. ASSUME NEW c \in Callers, Cancel(c) PROVE IInv'
  BY <1>7 DEF Cancel, breaker
<1>8. CASE UNCHANGED vars
  BY <1>8 DEF vars
<1> QED
  BY <1>1, <1>2, <1>3, <1>4, <1>5, <1>6, <1>7, <1>8 DEF Next

LEMMA Invariance == Spec => []IInv
  BY InitEstablishes, StepPreserves, PTL DEF Spec

\* The fields of the breaker keep their types, whoever shares the client.
THEOREM TypeCorrect == Spec => []TypeOK
  BY Invariance, PTL DEF IInv

\* circuit and failureCount never disagree about the threshold.
THEOREM ThresholdInvariant == Spec => []ClosedIffBelowThreshold
  BY Invariance, PTL DEF IInv

\* A half-open breaker has always cooled down, late failures included.
THEOREM CooledDownInvariant == Spec => []HalfOpenMeansCooledDown
  BY Invariance, PTL DEF IInv

\* No request reaches the primary during a cooldown.
THEOREM PrimaryGuarded == Spec => PrimaryOnlyWhenAllowed
<1>1. ASSUME IInv, [Next]_vars, NEW c \in Callers, pc[c] # "primary", pc'[c] = "primary"
      PROVE  failureCount < FailureThreshold \/ elapsed >= RecoveryTimeout
  <2>1. CallPrimary(c)
    <3>1. \A d \in Callers : pc'[d] = "primary" /\ pc[d] # "primary" => CallPrimary(d)
      BY <1>1 DEF Next, vars, breaker, Tick, Free, CallPrimary, SkipPrimary, PrimaryReturns,
         PrimaryFails, FallbackEnds, Cancel, IInv, TypeOK
    <3> QED
      BY <1>1, <3>1
  <2>2. circuit = "closed" \/ elapsed >= RecoveryTimeout
    BY <1>1, <2>1 DEF CallPrimary, ShouldUsePrimary, StateAt, IInv, TypeOK, CircuitState,
       HalfOpenMeansCooledDown
  <2> QED
    BY <1>1, <2>2 DEF IInv, ClosedIffBelowThreshold
<1>2. IInv /\ [Next]_vars
        => [ \A c \in Callers : pc[c] # "primary" /\ pc'[c] = "primary"
               => failureCount < FailureThreshold \/ elapsed >= RecoveryTimeout ]_vars
  BY <1>1
<1> QED
  BY Invariance, <1>2, PTL DEF Spec, PrimaryOnlyWhenAllowed

\* A failure that arrives at a breaker that is not closed leaves it open with
\* a fresh cooldown, in particular the failure of a probe.
THEOREM ProbeReopens == Spec => FailedProbeReopens
<1>1. ASSUME IInv, [Next]_vars, NEW c \in Callers, pc[c] = "primary",
             pc'[c] = "fallback", circuit # "closed"
      PROVE  circuit' = "open" /\ elapsed' = 0
  <2>1. PrimaryFails(c)
    <3>1. \A d \in Callers : pc[d] = "primary" /\ pc'[d] = "fallback" => PrimaryFails(d)
      BY <1>1 DEF Next, vars, breaker, Tick, Free, CallPrimary, SkipPrimary, PrimaryReturns,
         PrimaryFails, FallbackEnds, Cancel, IInv, TypeOK
    <3> QED
      BY <1>1, <3>1
  <2>2. failureCount \in 0..CountCap /\ failureCount >= FailureThreshold
    BY <1>1, ConstantsFacts DEF IInv, TypeOK, ClosedIffBelowThreshold
  <2> QED
    BY <2>1, <2>2, ConstantsFacts DEF PrimaryFails, RecordFailure
<1>2. IInv /\ [Next]_vars
        => [ \A c \in Callers :
               (/\ pc[c] = "primary" /\ pc'[c] = "fallback"
                /\ issued[c] = "half_open" /\ circuit # "closed")
                   => circuit' = "open" /\ elapsed' = 0 ]_vars
  BY <1>1
<1> QED
  BY Invariance, <1>2, PTL DEF Spec, FailedProbeReopens

(***************************************************************************)
(* One caller at a time: the refinement of the docstring's breaker.        *)
(***************************************************************************)
\* A request to the primary is in flight only while the breaker is not open:
\* with one caller nobody can open it behind the request's back.
InFlightMeansAllowed == \A c \in Callers : pc[c] = "primary" => circuit # "open"

LEMMA InFlightStep ==
  ASSUME \A c, d \in Callers : c = d,
         IInv, InFlightMeansAllowed, [Next]_vars
  PROVE  InFlightMeansAllowed'
<1> USE DEF InFlightMeansAllowed, IInv, TypeOK
<1>1. CASE Tick
  BY <1>1 DEF Tick
<1>2. ASSUME NEW c \in Callers, CallPrimary(c) PROVE InFlightMeansAllowed'
  BY <1>2 DEF CallPrimary, ShouldUsePrimary
<1>3. ASSUME NEW c \in Callers, SkipPrimary(c) PROVE InFlightMeansAllowed'
  BY <1>3 DEF SkipPrimary
<1>4. ASSUME NEW c \in Callers, PrimaryReturns(c) PROVE InFlightMeansAllowed'
  BY <1>4 DEF PrimaryReturns
<1>5. ASSUME NEW c \in Callers, PrimaryFails(c) PROVE InFlightMeansAllowed'
  BY <1>5 DEF PrimaryFails
<1>6. ASSUME NEW c \in Callers, FallbackEnds(c) PROVE InFlightMeansAllowed'
  BY <1>6 DEF FallbackEnds
<1>7. ASSUME NEW c \in Callers, Cancel(c) PROVE InFlightMeansAllowed'
  BY <1>7 DEF Cancel
<1>8. CASE UNCHANGED vars
  BY <1>8 DEF vars
<1> QED
  BY <1>1, <1>2, <1>3, <1>4, <1>5, <1>6, <1>7, <1>8 DEF Next

\* Every step of the client is a step of the contract or changes nothing the
\* contract speaks of.
LEMMA StepImplements ==
  ASSUME IInv, InFlightMeansAllowed, [Next]_vars
  PROVE  [Contract!AbstractNext]_(Contract!abstractVars)
<1> USE ConstantsFacts DEF IInv, TypeOK, CircuitState, ClosedIffBelowThreshold,
        HalfOpenMeansCooledDown, Contract!abstractVars, StateAt
<1>1. CASE Tick
  <2>1. CASE circuit = "open"
    BY <1>1, <2>1 DEF Tick, Later, Contract!AbstractNext, Contract!Cool
  <2>2. CASE circuit # "open"
    BY <1>1, <2>2 DEF Tick
  <2> QED
    BY <2>1, <2>2
<1>2. ASSUME NEW c \in Callers, CallPrimary(c) PROVE UNCHANGED Contract!abstractVars
  BY <1>2 DEF CallPrimary, ShouldUsePrimary
<1>3. ASSUME NEW c \in Callers, SkipPrimary(c)
      PROVE  [Contract!AbstractNext]_(Contract!abstractVars)
  <2>1. circuit = "open" /\ elapsed < RecoveryTimeout
    BY <1>3 DEF SkipPrimary, ShouldUsePrimary
  <2>2. CASE elapsed' = elapsed
    BY <1>3, <2>1, <2>2 DEF SkipPrimary
  <2>3. CASE elapsed' = elapsed + 1
    BY <1>3, <2>1, <2>3 DEF SkipPrimary, Contract!AbstractNext, Contract!Cool
  <2> QED
    BY <1>3, <2>1, <2>2, <2>3 DEF SkipPrimary, Later
<1>4. ASSUME NEW c \in Callers, PrimaryReturns(c) PROVE Contract!AbstractNext
  BY <1>4 DEF PrimaryReturns, RecordSuccess, InFlightMeansAllowed,
     Contract!AbstractNext, Contract!Success
<1>5. ASSUME NEW c \in Callers, PrimaryFails(c) PROVE Contract!AbstractNext
  <2>1. CASE circuit = "half_open"
    BY <1>5, <2>1 DEF PrimaryFails, RecordFailure, Contract!AbstractNext,
       Contract!ProbeFails, Contract!Opens
  <2>2. CASE circuit = "closed" /\ failureCount + 1 < FailureThreshold
    BY <1>5, <2>2 DEF PrimaryFails, RecordFailure, Contract!AbstractNext, Contract!Failure
  <2>3. CASE circuit = "closed" /\ failureCount + 1 >= FailureThreshold
    BY <1>5, <2>3 DEF PrimaryFails, RecordFailure, Contract!AbstractNext,
       Contract!Trip, Contract!Opens
  <2> QED
    BY <1>5, <2>1, <2>2, <2>3 DEF PrimaryFails, InFlightMeansAllowed
<1>6. ASSUME NEW c \in Callers, FallbackEnds(c) PROVE UNCHANGED Contract!abstractVars
  BY <1>6 DEF FallbackEnds, breaker
<1>7. ASSUME NEW c \in Callers, Cancel(c) PROVE UNCHANGED Contract!abstractVars
  BY <1>7 DEF Cancel, breaker
<1>8. CASE UNCHANGED vars
  BY <1>8 DEF vars
<1> QED
  BY <1>1, <1>2, <1>3, <1>4, <1>5, <1>6, <1>7, <1>8 DEF Next

\* A client used by one coroutine at a time implements the docstring.
THEOREM SequentialClientImplementsContract ==
  ASSUME \A c, d \in Callers : c = d
  PROVE  Spec => ImplementsContract
<1>1. Init => Contract!AbstractInit /\ InFlightMeansAllowed
  BY ConstantsFacts DEF Init, Contract!AbstractInit, StateAt, InFlightMeansAllowed
<1>2. Spec => []InFlightMeansAllowed
  <2>1. IInv /\ InFlightMeansAllowed /\ [Next]_vars => InFlightMeansAllowed'
    BY InFlightStep
  <2> QED
    BY Invariance, <1>1, <2>1, PTL DEF Spec
<1>3. IInv /\ InFlightMeansAllowed /\ [Next]_vars
        => [Contract!AbstractNext]_(Contract!abstractVars)
  BY StepImplements
<1> QED
  BY Invariance, <1>1, <1>2, <1>3, PTL DEF Spec, ImplementsContract, Contract!AbstractSpec
=============================================================================
