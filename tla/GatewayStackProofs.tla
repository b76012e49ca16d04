------------------------- MODULE GatewayStackProofs -------------------------
(***************************************************************************)
(* Theorems about the rate limiter and about the stack around it, for      *)
(* every number of requests, clients, routes and calls.                    *)
(***************************************************************************)
EXTENDS GatewayStack, FiniteSetTheorems, TLAPS

(***************************************************************************)
(* The limiter keeps its limit for every number of requests per minute and *)
(* every window length.  BucketsRemember makes Live(c), what the code      *)
(* counts, equal to InWindow(c), what the limit is about; the bound then   *)
(* follows because Admit adds one to fewer than RPM.                       *)
(***************************************************************************)
IInv == TypeOK /\ BucketsRemember /\ WindowBound

LEMMA Constants ==
    /\ RPM \in Nat /\ RPM >= 1
    /\ Window \in Nat /\ Window >= 1
    /\ IsFiniteSet(Requests)
  BY LimiterConstants

\* What the code counts is what the limit is about.
LEMMA LiveIsInWindow ==
  ASSUME TypeOK, BucketsRemember, NEW c \in Clients
  PROVE  Live(c) = InWindow(c)
  BY DEF TypeOK, BucketsRemember, Live, InWindow

LEMMA WindowIsFinite ==
  ASSUME NEW c
  PROVE  IsFiniteSet(InWindow(c)) /\ Cardinality(InWindow(c)) \in Nat
  BY Constants, FS_Subset, FS_CardinalityType, InWindow(c) \subseteq Requests DEF InWindow

\* A set of requests that only loses members keeps within the limit.
LEMMA Shrinks ==
  ASSUME NEW S, NEW T, IsFiniteSet(S), T \subseteq S, Cardinality(S) <= RPM
  PROVE  Cardinality(T) <= RPM
<1>1. Cardinality(T) <= Cardinality(S) /\ IsFiniteSet(T)
  BY FS_Subset
<1>2. Cardinality(T) \in Nat /\ Cardinality(S) \in Nat
  BY <1>1, FS_CardinalityType
<1> QED
  BY <1>1, <1>2, Constants

LEMMA InitEstablishes == Init => IInv
<1> SUFFICES ASSUME Init PROVE IInv
  OBVIOUS
<1>1. TypeOK /\ BucketsRemember
  BY Constants DEF Init, TypeOK, BucketsRemember
<1>2. \A c \in Clients : InWindow(c) = {}
  BY DEF Init, InWindow
<1>3. WindowBound
  BY <1>2, FS_EmptySet, Constants DEF WindowBound
<1> QED
  BY <1>1, <1>3 DEF IInv

LEMMA TypeStep == TypeOK /\ [Next]_vars => TypeOK'
<1> SUFFICES ASSUME TypeOK, [Next]_vars PROVE TypeOK'
  OBVIOUS
<1> USE Constants DEF TypeOK
<1>1. CASE Tick
  BY <1>1 DEF Tick
<1>2. ASSUME NEW q \in Requests, Admit(q) PROVE TypeOK'
  BY <1>2 DEF Admit, Answer, Live
<1>3. ASSUME NEW q \in Requests, Reject(q) PROVE TypeOK'
  BY <1>3 DEF Reject, Answer, Live
<1>4. CASE UNCHANGED vars
  BY <1>4 DEF vars
<1> QED
  BY <1>1, <1>2, <1>3, <1>4 DEF Next

LEMMA BucketsStep == TypeOK /\ BucketsRemember /\ [Next]_vars => BucketsRemember'
<1> SUFFICES ASSUME TypeOK, BucketsRemember, [Next]_vars PROVE BucketsRemember'
  OBVIOUS
<1> USE Constants DEF TypeOK, BucketsRemember
<1>1. CASE Tick
  BY <1>1 DEF Tick
<1>2. ASSUME NEW q \in Requests, Admit(q) PROVE BucketsRemember'
  BY <1>2 DEF Admit, Answer, Live
<1>3. ASSUME NEW q \in Requests, Reject(q) PROVE BucketsRemember'
  BY <1>3 DEF Reject, Answer, Live
<1>4. CASE UNCHANGED vars
  BY <1>4 DEF vars
<1> QED
  BY <1>1, <1>2, <1>3, <1>4 DEF Next

LEMMA BoundStep == IInv /\ [Next]_vars => WindowBound'
<1> SUFFICES ASSUME IInv, [Next]_vars, NEW c \in Clients
             PROVE  Cardinality(InWindow(c)') <= RPM
  BY DEF WindowBound
<1>a. IsFiniteSet(InWindow(c)) /\ Cardinality(InWindow(c)) \in Nat
      /\ Cardinality(InWindow(c)) <= RPM
  BY WindowIsFinite DEF IInv, WindowBound
<1> USE Constants DEF IInv, TypeOK
<1>1. CASE Tick
  <2>1. InWindow(c)' \subseteq InWindow(c)
    BY <1>1 DEF Tick, InWindow
  <2> QED
    BY <2>1, <1>a, Shrinks
<1>2. ASSUME NEW q \in Requests, Admit(q)
      PROVE  Cardinality(InWindow(c)') <= RPM
  <2>1. CASE sender[q] # c
    <3>1. InWindow(c)' = InWindow(c)
      BY <1>2, <2>1 DEF Admit, Answer, InWindow
    <3> QED
      BY <3>1, <1>a
  <2>2. CASE sender[q] = c
    <3>1. InWindow(c)' = InWindow(c) \union {q}
      BY <1>2, <2>2 DEF Admit, Answer, InWindow
    <3>2. Cardinality(InWindow(c)) < RPM
      BY <1>2, <2>2, <1>a, LiveIsInWindow DEF Admit, Full
    <3>3. Cardinality(InWindow(c) \union {q}) \in {Cardinality(InWindow(c)),
                                                   Cardinality(InWindow(c)) + 1}
      BY <1>a, FS_AddElement
    <3> QED
      BY <3>1, <3>2, <3>3, <1>a
  <2> QED
    BY <2>1, <2>2
<1>3. ASSUME NEW q \in Requests, Reject(q)
      PROVE  Cardinality(InWindow(c)') <= RPM
  <2>1. InWindow(c)' \subseteq InWindow(c)
    BY <1>3 DEF Reject, Answer, InWindow
  <2> QED
    BY <2>1, <1>a, Shrinks
<1>4. CASE UNCHANGED vars
  <2>1. InWindow(c)' = InWindow(c)
    BY <1>4 DEF vars, InWindow
  <2> QED
    BY <2>1, <1>a
<1> QED
  BY <1>1, <1>2, <1>3, <1>4 DEF Next

LEMMA Invariance == Spec => []IInv
<1>1. IInv /\ [Next]_vars => IInv'
  BY TypeStep, BucketsStep, BoundStep DEF IInv
<1> QED
  BY InitEstablishes, <1>1, PTL DEF Spec

\* The limiter's state keeps its types.
THEOREM TypeCorrect == Spec => []TypeOK
  BY Invariance, PTL DEF IInv

\* No window ever holds more than RPM admitted requests of a client.
THEOREM LimitHolds == Spec => []WindowBound
  BY Invariance, PTL DEF IInv

\* Cleaning a bucket only when its client sends loses nothing and keeps
\* nothing too long.
THEOREM BucketsAreExact == Spec => []BucketsRemember
  BY Invariance, PTL DEF IInv

\* The limiter implements the sliding window: it rejects only a client whose
\* own admitted requests fill the window.
THEOREM LimiterImplementsWindow == Spec => ImplementsWindow
<1>1. Init => Ideal!WindowInit
  BY DEF Init, Ideal!WindowInit
<1>c. \A S : Ideal!Cardinality(S) = Cardinality(S)
  BY DEF Ideal!Cardinality, Cardinality
<1>2. ASSUME IInv, [Next]_vars PROVE [Ideal!WindowNext]_(Ideal!windowVars)
  <2> USE DEF Ideal!windowVars
  <2>0. \A c \in Clients : Full(c) <=> ~(Cardinality(InWindow(c)) < RPM)
    BY <1>2, LiveIsInWindow, WindowIsFinite, Constants DEF Full, IInv
  <2>a. \A c \in Clients : Ideal!InWindow(c) = InWindow(c)
    BY DEF Ideal!InWindow, InWindow
  <2>1. CASE Tick
    BY <2>1 DEF Tick, Ideal!WindowNext, Ideal!Advance
  <2>2. ASSUME NEW q \in Requests, Admit(q) PROVE Ideal!WindowNext
    <3>a. sender[q] \in Clients
      BY <1>2 DEF IInv, TypeOK
    <3>b. (Cardinality(Ideal!InWindow(sender[q])) < RPM)
      BY <2>2, <2>0, <2>a, <3>a DEF Admit
    <3>1. Ideal!Arrive(q)
      BY <1>c, <2>2, <3>b DEF Admit, Answer, Ideal!Arrive
    <3> QED
      BY <3>1 DEF Ideal!WindowNext
  <2>3. ASSUME NEW q \in Requests, Reject(q) PROVE Ideal!WindowNext
    <3>a. sender[q] \in Clients
      BY <1>2 DEF IInv, TypeOK
    <3>b. ~(Cardinality(Ideal!InWindow(sender[q])) < RPM)
      BY <2>3, <2>0, <2>a, <3>a DEF Reject
    <3>1. Ideal!Arrive(q)
      BY <1>c, <2>3, <3>b DEF Reject, Answer, Ideal!Arrive
    <3> QED
      BY <3>1 DEF Ideal!WindowNext
  <2>4. CASE UNCHANGED vars
    BY <2>4 DEF vars
  <2> QED
    BY <1>2, <2>1, <2>2, <2>3, <2>4 DEF Next
<1> QED
  BY Invariance, <1>1, <1>2, PTL DEF Spec, ImplementsWindow, Ideal!WindowSpec

\* A client that stays quiet for the whole window is never rejected.
THEOREM RetryAfterIsEnough == Spec => RetryAfterHonoured
<1>1. ASSUME IInv, NEW q \in Requests, Reject(q)
      PROVE  quiet[sender[q]] < Window
  <2>1. Live(sender[q]) # {}
    BY <1>1, Constants, FS_EmptySet DEF Reject, Full
  <2>2. PICK p \in bucket[sender[q]] : age[p] < Window
    BY <2>1 DEF Live
  <2>3. p \in Requests /\ sender[p] = sender[q] /\ age[p] >= quiet[sender[p]]
    BY <1>1, <2>2 DEF IInv, TypeOK, BucketsRemember
  <2> QED
    BY <1>1, <2>2, <2>3, Constants DEF IInv, TypeOK
<1>2. IInv /\ [Next]_vars => [\A q \in Requests : Reject(q) => quiet[sender[q]] < Window]_vars
  BY <1>1
<1> QED
  BY Invariance, <1>2, PTL DEF Spec, RetryAfterHonoured

(***************************************************************************)
(* The stack.  Its steps are steps of the limiter or leave it alone, so    *)
(* the limiter's theorems hold behind it.  The counters follow the sets of *)
(* requests they count, by one case per action; Waiting ties a request's   *)
(* outcome to its stage, which is what keeps each request from being       *)
(* counted twice.                                                          *)
(***************************************************************************)
\* A request has no outcome before it is over, and one afterwards.
Waiting == \A q \in Requests : outcome[q] = "none" <=> stage[q] # "done"

StackInv == StackTypeOK /\ Waiting /\ QuotaIsForServed /\ CountersAgree

LEMMA StackInitIsInit == StackInit => Init
  BY DEF StackInit

\* Only PassLimiter, Limited and the clock touch the limiter, each by one of its
\* own actions.
LEMMA StackStepIsStep == [StackNext]_stackVars => [Next]_vars
<1> SUFFICES ASSUME [StackNext]_stackVars PROVE [Next]_vars
  OBVIOUS
<1>1. CASE StackTick
  BY <1>1 DEF StackTick, Next
<1>2. ASSUME NEW q \in Requests, Arrive(q) PROVE [Next]_vars
  BY <1>2 DEF Arrive, Preflight, Unauthorized, Limited, PassLimiter, Next
<1>3. ASSUME NEW q \in Requests, Proceed(q) PROVE [Next]_vars
  BY <1>3 DEF Proceed, Check, Raise, Cancel, Respond
<1>4. CASE OrphanExits
  BY <1>4 DEF OrphanExits
<1>5. CASE UNCHANGED stackVars
  BY <1>5 DEF stackVars
<1> QED
  BY <1>1, <1>2, <1>3, <1>4, <1>5 DEF StackNext

LEMMA StackTypeStep == StackTypeOK /\ [StackNext]_stackVars => StackTypeOK'
<1> SUFFICES ASSUME StackTypeOK, [StackNext]_stackVars PROVE StackTypeOK'
  OBVIOUS
<1>0. TypeOK'
  BY StackStepIsStep, TypeStep DEF StackTypeOK
<1> USE StackConstants DEF StackTypeOK, Outcomes, Routes, settings, metrics, Move, Ends
<1>1. CASE StackTick
  BY <1>0, <1>1 DEF StackTick
<1>2. ASSUME NEW q \in Requests, Preflight(q) \/ Unauthorized(q) \/ Limited(q)
      PROVE  StackTypeOK'
  BY <1>0, <1>2 DEF Preflight, Unauthorized, Limited
<1>3. ASSUME NEW q \in Requests, PassLimiter(q) PROVE StackTypeOK'
  BY <1>0, <1>3 DEF PassLimiter
<1>4. ASSUME NEW q \in Requests, Check(q) PROVE StackTypeOK'
  BY <1>0, <1>4 DEF Check, MoreChecks
<1>5. ASSUME NEW q \in Requests, Raise(q) PROVE StackTypeOK'
  BY <1>0, <1>5 DEF Raise, Record, Release
<1>6. ASSUME NEW q \in Requests, Cancel(q) PROVE StackTypeOK'
  BY <1>0, <1>6 DEF Cancel, Release
<1>7. ASSUME NEW q \in Requests, NEW how \in {"ok", "client_error"}, Respond(q, how)
      PROVE  StackTypeOK'
  BY <1>0, <1>7 DEF Respond, Record, Release
<1>8. CASE OrphanExits
  BY <1>0, <1>8 DEF OrphanExits
<1>9. CASE UNCHANGED stackVars
  BY <1>0, <1>9 DEF stackVars
<1> QED
  BY <1>1, <1>2, <1>3, <1>4, <1>5, <1>6, <1>7, <1>8, <1>9 DEF StackNext, Arrive, Proceed

LEMMA WaitingStep == StackTypeOK /\ Waiting /\ [StackNext]_stackVars => Waiting'
<1> SUFFICES ASSUME StackTypeOK, Waiting, [StackNext]_stackVars PROVE Waiting'
  OBVIOUS
<1> USE DEF StackTypeOK, Waiting, Move, Ends
<1>1. CASE StackTick \/ OrphanExits
  BY <1>1 DEF StackTick, OrphanExits
<1>2. ASSUME NEW q \in Requests, Arrive(q) PROVE Waiting'
  BY <1>2 DEF Arrive, Preflight, Unauthorized, Limited, PassLimiter
<1>3. ASSUME NEW q \in Requests, Proceed(q) PROVE Waiting'
  BY <1>3 DEF Proceed, Check, MoreChecks, Raise, Cancel, Respond
<1>4. CASE UNCHANGED stackVars
  BY <1>4 DEF stackVars
<1> QED
  BY <1>1, <1>2, <1>3, <1>4 DEF StackNext

LEMMA QuotaStep ==
  StackTypeOK /\ Waiting /\ QuotaIsForServed /\ [StackNext]_stackVars => QuotaIsForServed'
<1> SUFFICES ASSUME StackTypeOK, Waiting, QuotaIsForServed, [StackNext]_stackVars
             PROVE  QuotaIsForServed'
  OBVIOUS
<1> USE DEF StackTypeOK, TypeOK, Waiting, QuotaIsForServed, Move, Ends, vars
<1>1. CASE StackTick \/ OrphanExits
  BY <1>1 DEF StackTick, Tick, OrphanExits
<1>2. ASSUME NEW q \in Requests, Preflight(q) \/ Unauthorized(q) PROVE QuotaIsForServed'
  BY <1>2 DEF Preflight, Unauthorized
<1>3. ASSUME NEW q \in Requests, Limited(q) PROVE QuotaIsForServed'
  BY <1>3 DEF Limited, Reject, Live
<1>4. ASSUME NEW q \in Requests, PassLimiter(q) PROVE QuotaIsForServed'
  BY <1>4 DEF PassLimiter, Admit, Live
<1>5. ASSUME NEW q \in Requests, Proceed(q) PROVE QuotaIsForServed'
  BY <1>5 DEF Proceed, Check, Raise, Cancel, Respond
<1>6. CASE UNCHANGED stackVars
  BY <1>6 DEF stackVars
<1> QED
  BY <1>1, <1>2, <1>3, <1>4, <1>5, <1>6 DEF StackNext, Arrive

(***************************************************************************)
(* The counters                                                            *)
(***************************************************************************)
Counted(r) == {q \in Ended(Recorded) : Route[q] = r}

\* A set of requests that gains or loses one.
LEMMA OneMore ==
  ASSUME NEW S \in SUBSET Requests, NEW q \in Requests, q \notin S
  PROVE  Cardinality(S \union {q}) = Cardinality(S) + 1
  BY Constants, FS_Subset, FS_AddElement

LEMMA OneLess ==
  ASSUME NEW S \in SUBSET Requests, NEW q \in S
  PROVE  /\ Cardinality(S \ {q}) = Cardinality(S) - 1
         /\ Cardinality(S) \in Nat /\ Cardinality(S) > 0
  BY Constants, FS_Subset, FS_RemoveElement, FS_CardinalityType, FS_EmptySet

LEMMA AreRequests ==
  /\ \A s : At(s) \in SUBSET Requests
  /\ \A how : Ended(how) \in SUBSET Requests
  /\ \A r : Counted(r) \in SUBSET Requests
  BY DEF At, Ended, Counted

\* The handler of q is over and q is recorded with an outcome.
LEMMA RecordedStep ==
  ASSUME StackTypeOK, Waiting, CountersAgree, NEW q \in Requests, NEW how \in Recorded,
         Move(q, "handler", "done"), Ends(q, how), Record(q, how), Release
  PROVE  CountersAgree'
<1> USE DEF StackTypeOK, Waiting, Move, Ends, Recorded, Errors
<1>a. q \in At("handler") /\ q \notin Ended(Recorded) /\ q \notin Ended(Errors)
  BY DEF At, Ended
<1>1. active_connections' = Cardinality(At("handler")')
  <2>1. At("handler")' = At("handler") \ {q}
    BY DEF At
  <2> QED
    BY <1>a, <2>1, AreRequests, OneLess DEF CountersAgree, Release
<1>2. total_requests' = Cardinality(Ended(Recorded)')
  <2>1. Ended(Recorded)' = Ended(Recorded) \union {q}
    BY DEF Ended
  <2> QED
    BY <1>a, <2>1, AreRequests, OneMore DEF CountersAgree, Record
<1>3. total_errors' = Cardinality(Ended(Errors)')
  <2>1. CASE how \in Errors
    <3>1. Ended(Errors)' = Ended(Errors) \union {q}
      BY <2>1 DEF Ended
    <3> QED
      BY <1>a, <2>1, <3>1, AreRequests, OneMore DEF CountersAgree, Record
  <2>2. CASE how \notin Errors
    <3>1. Ended(Errors)' = Ended(Errors)
      BY <2>2 DEF Ended
    <3> QED
      BY <2>2, <3>1 DEF CountersAgree, Record
  <2> QED
    BY <2>1, <2>2
<1>4. ASSUME NEW r \in Routes PROVE path_counts'[r] = Cardinality(Counted(r)')
  <2>0. path_counts[r] = Cardinality(Counted(r))
    BY DEF CountersAgree, Counted
  <2>1. CASE Route[q] = r
    <3>1. Counted(r)' = Counted(r) \union {q}
      BY <2>1 DEF Counted, Ended
    <3>2. q \notin Counted(r)
      BY <1>a DEF Counted
    <3> QED
      BY <2>0, <2>1, <3>1, <3>2, AreRequests, OneMore DEF Record
  <2>2. CASE Route[q] # r
    <3>1. Counted(r)' = Counted(r)
      BY <1>a, <2>2 DEF Counted, Ended
    <3> QED
      BY <2>0, <2>2, <3>1 DEF Record
  <2> QED
    BY <2>1, <2>2
<1> QED
  BY <1>1, <1>2, <1>3, <1>4 DEF CountersAgree, Counted

\* Nobody joins or leaves the sets that are counted.
LEMMA UncountedStep ==
  ASSUME CountersAgree, UNCHANGED metrics, At("handler")' = At("handler"),
         Ended(Recorded)' = Ended(Recorded), Ended(Errors)' = Ended(Errors)
  PROVE  CountersAgree'
  BY DEF CountersAgree, metrics

LEMMA CountersStep ==
  StackTypeOK /\ Waiting /\ CountersAgree /\ [StackNext]_stackVars => CountersAgree'
<1> SUFFICES ASSUME StackTypeOK, Waiting, CountersAgree, [StackNext]_stackVars
             PROVE  CountersAgree'
  OBVIOUS
<1> USE DEF StackTypeOK, Waiting, Move, Ends
<1>1. CASE StackTick \/ OrphanExits
  BY <1>1, UncountedStep DEF StackTick, OrphanExits, At, Ended
<1>2. ASSUME NEW q \in Requests, Preflight(q) \/ Unauthorized(q) \/ Limited(q)
      PROVE  CountersAgree'
  <2>1. UNCHANGED metrics /\ At("handler")' = At("handler")
    BY <1>2 DEF Preflight, Unauthorized, Limited, At
  <2>2. Ended(Recorded)' = Ended(Recorded) /\ Ended(Errors)' = Ended(Errors)
    BY <1>2 DEF Preflight, Unauthorized, Limited, Ended, Recorded, Errors
  <2> QED
    BY <2>1, <2>2, UncountedStep
<1>3. ASSUME NEW q \in Requests, PassLimiter(q) PROVE CountersAgree'
  <2>1. At("handler")' = At("handler") \union {q} /\ q \notin At("handler")
    BY <1>3 DEF PassLimiter, At
  <2>2. Ended(Recorded)' = Ended(Recorded) /\ Ended(Errors)' = Ended(Errors)
    BY <1>3 DEF PassLimiter, Ended
  <2>3. active_connections' = Cardinality(At("handler")')
    BY <1>3, <2>1, AreRequests, OneMore DEF CountersAgree, PassLimiter
  <2> QED
    BY <1>3, <2>2, <2>3 DEF CountersAgree, PassLimiter
<1>4. ASSUME NEW q \in Requests, Check(q) PROVE CountersAgree'
  BY <1>4, UncountedStep DEF Check, At, Ended
<1>5. ASSUME NEW q \in Requests, Raise(q) PROVE CountersAgree'
  BY <1>5, RecordedStep DEF Raise, Recorded, Errors
<1>6. ASSUME NEW q \in Requests, NEW how \in {"ok", "client_error"}, Respond(q, how)
      PROVE  CountersAgree'
  BY <1>6, RecordedStep DEF Respond, Recorded, Errors
<1>7. ASSUME NEW q \in Requests, Cancel(q) PROVE CountersAgree'
  <2>1. At("handler")' = At("handler") \ {q} /\ q \in At("handler")
    BY <1>7 DEF Cancel, At
  <2>2. Ended(Recorded)' = Ended(Recorded) /\ Ended(Errors)' = Ended(Errors)
    BY <1>7 DEF Cancel, Ended, Recorded, Errors
  <2>3. active_connections' = Cardinality(At("handler")')
    BY <1>7, <2>1, AreRequests, OneLess DEF CountersAgree, Cancel, Release
  <2> QED
    BY <1>7, <2>2, <2>3 DEF CountersAgree, Cancel
<1>8. CASE UNCHANGED stackVars
  BY <1>8, UncountedStep DEF stackVars, At, Ended
<1> QED
  BY <1>1, <1>2, <1>3, <1>4, <1>5, <1>6, <1>7, <1>8 DEF StackNext, Arrive, Proceed

LEMMA StackInitEstablishes == StackInit => StackInv
<1> SUFFICES ASSUME StackInit PROVE StackInv
  OBVIOUS
<1>1. TypeOK /\ bucket = [c \in Clients |-> {}]
  BY StackInitIsInit, InitEstablishes DEF IInv, Init
<1>2. StackTypeOK /\ Waiting /\ QuotaIsForServed
  BY <1>1, StackConstants DEF StackInit, StackTypeOK, Waiting, QuotaIsForServed
<1>3. At("handler") = {} /\ Ended(Recorded) = {} /\ Ended(Errors) = {}
  BY DEF StackInit, At, Ended, Recorded, Errors
<1>4. CountersAgree
  BY <1>3, FS_EmptySet DEF StackInit, CountersAgree
<1> QED
  BY <1>2, <1>4 DEF StackInv

LEMMA StackInvariance == StackSpec => []StackInv
<1>1. StackInv /\ [StackNext]_stackVars => StackInv'
  BY StackTypeStep, WaitingStep, QuotaStep, CountersStep DEF StackInv
<1> QED
  BY StackInitEstablishes, <1>1, PTL DEF StackSpec

\* The state of the stack keeps its types, and no handler makes a call too many.
THEOREM StackTypeCorrect == StackSpec => []StackTypeOK
  BY StackInvariance, PTL DEF StackInv

\* What CORS, auth or limiter turned away is in no bucket.
THEOREM QuotaIsForServedHolds == StackSpec => []QuotaIsForServed
  BY StackInvariance, PTL DEF StackInv

\* The gauge is the number of running handlers and the counters are the requests
\* that returned or raised.
THEOREM CountersAgreeHolds == StackSpec => []CountersAgree
  BY StackInvariance, PTL DEF StackInv

\* The stack hands its requests to the limiter as the limiter expects them.
THEOREM StackImplementsLimiter == StackSpec => Spec
  BY StackInitIsInit, StackStepIsStep, PTL DEF StackSpec, Spec

\* Behind the stack no client gets more than RPM requests through in a window.
THEOREM StackKeepsLimit == StackSpec => []WindowBound
  BY StackImplementsLimiter, LimitHolds, PTL

\* Behind the stack decisions are those of the sliding window.
THEOREM StackImplementsWindow == StackSpec => ImplementsWindow
  BY StackImplementsLimiter, LimiterImplementsWindow, PTL

\* Behind the stack a client that stays quiet for a window is served.
THEOREM StackHonoursRetryAfter == StackSpec => RetryAfterHonoured
  BY StackImplementsLimiter, RetryAfterIsEnough, PTL
=============================================================================
