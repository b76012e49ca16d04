---------------------------- MODULE GatewayStack ----------------------------
(***************************************************************************)
(* The way of a request through one gateway process (gateway/main.py): the *)
(* middleware added last is the outermost, so the order is CORS, auth,     *)
(* rate limit, request id, logging, metrics, handler.  RateLimiter is the  *)
(* third of them; its state changes as the request passes there.  What     *)
(* runs between two awaits is one action.                                  *)
(***************************************************************************)
EXTENDS RateLimiter

CONSTANTS
    Route,       \* what each request asks for
    CheckCount   \* calls of a handler: 6 GETs for /metrics, 3 kubectl for /k8s

Routes == {"healthz", "graphql", "metrics", "k8s"}

ASSUME StackConstants ==
    /\ Route \in [Requests -> Routes]
    /\ CheckCount \in [Routes -> Nat]

VARIABLES
    enabled,            \* RateLimitMiddleware.enabled (not settings.debug), fixed
    enforce,            \* AuthMiddleware.enforce, fixed
    stage,              \* where each request is
    outcome,            \* history: how it ended
    checks,             \* the handler's calls that are over
    orphans,            \* kubectl processes left running by a timeout
    total_requests,     \* the counters of MetricsCollector
    total_errors,
    active_connections,
    path_counts

settings == <<enabled, enforce>>
metrics == <<total_requests, total_errors, active_connections, path_counts>>
stackVars == <<vars, settings, stage, outcome, checks, orphans, metrics>>

Outcomes == {"preflight", "unauthorized", "limited", "ok", "client_error", "raised", "cancelled"}
Errors == {"client_error", "raised"}
Recorded == {"ok"} \union Errors

StackTypeOK ==
    /\ TypeOK
    /\ enabled \in BOOLEAN /\ enforce \in BOOLEAN
    /\ stage \in [Requests -> {"new", "handler", "done"}]
    /\ outcome \in [Requests -> Outcomes \union {"none"}]
    /\ checks \in [Requests -> Nat]
    /\ \A q \in Requests : checks[q] <= CheckCount[Route[q]]
    /\ orphans \in Nat
    /\ total_requests \in Nat /\ total_errors \in Nat /\ active_connections \in Nat
    /\ path_counts \in [Routes -> Nat]

StackInit ==
    /\ Init
    /\ enabled \in BOOLEAN /\ enforce \in BOOLEAN
    /\ stage = [q \in Requests |-> "new"]
    /\ outcome = [q \in Requests |-> "none"]
    /\ checks = [q \in Requests |-> 0]
    /\ orphans = 0
    /\ total_requests = 0 /\ total_errors = 0 /\ active_connections = 0
    /\ path_counts = [r \in Routes |-> 0]

Move(q, from, to) == stage[q] = from /\ stage' = [stage EXCEPT ![q] = to]
Ends(q, how) == outcome' = [outcome EXCEPT ![q] = how]

(***************************************************************************)
(* The way in                                                              *)
(***************************************************************************)
\* An OPTIONS request before a cross-origin one: CORSMiddleware answers it
\* itself, whatever its path.
Preflight(q) ==
    /\ Move(q, "new", "done") /\ Ends(q, "preflight")
    /\ UNCHANGED <<vars, settings, checks, orphans, metrics>>

\* Slip: the middlewares are added the other way round, and the limiter comes first.
Unauthorized_Counted(q) ==
    /\ enforce /\ Route[q] # "healthz"
    /\ IF enabled THEN Admit(q) ELSE UNCHANGED vars
    /\ Move(q, "new", "done") /\ Ends(q, "unauthorized")
    /\ UNCHANGED <<settings, checks, orphans, metrics>>

\* AuthMiddleware, enforcing, outside PUBLIC_PATHS: no or no valid token.
Unauthorized(q) ==
    /\ enforce /\ Route[q] # "healthz"
    /\ Move(q, "new", "done") /\ Ends(q, "unauthorized")
    /\ UNCHANGED <<vars, settings, checks, orphans, metrics>>

Limited(q) ==
    /\ enabled
    /\ Move(q, "new", "done") /\ Ends(q, "limited")
    /\ Reject(q)
    /\ UNCHANGED <<settings, checks, orphans, metrics>>

\* Past auth and limiter; the request id is bound to the context, the connection
\* counted (increment_connections) and the handler called.  The awaits on this
\* way are between changes of different components.
PassLimiter(q) ==
    /\ Move(q, "new", "handler")
    /\ IF enabled THEN Admit(q) ELSE UNCHANGED vars
    /\ active_connections' = active_connections + 1
    /\ UNCHANGED <<settings, outcome, checks, orphans, total_requests, total_errors, path_counts>>

(***************************************************************************)
(* The handlers of /metrics and /k8s, and the others                       *)
(***************************************************************************)
MoreChecks(q) == stage[q] = "handler" /\ checks[q] < CheckCount[Route[q]]

\* A call answers, fails or is given up (the GET after 2 s, kubectl after 5 s):
\* a line of the report.  A kubectl that is given up is not killed.
Check(q) ==
    /\ MoreChecks(q)
    /\ checks' = [checks EXCEPT ![q] = @ + 1]
    /\ orphans' \in {orphans} \union {n \in {orphans + 1} : Route[q] = "k8s"}
    /\ UNCHANGED <<vars, settings, stage, outcome, metrics>>

OrphanExits ==
    /\ orphans > 0
    /\ orphans' = orphans - 1
    /\ UNCHANGED <<vars, settings, stage, outcome, checks, metrics>>

(***************************************************************************)
(* The way out                                                             *)
(***************************************************************************)
\* record_request.
Record(q, how) ==
    /\ total_requests' = total_requests + 1
    /\ total_errors' = IF how \in Errors THEN total_errors + 1 ELSE total_errors
    /\ path_counts' = [path_counts EXCEPT ![Route[q]] = @ + 1]

\* decrement_connections, in the finally.
Release == active_connections' = IF active_connections > 0 THEN active_connections - 1 ELSE 0

\* The report is put together from what the calls returned.
HandlerOver(q) == stage[q] = "handler" /\ checks[q] = CheckCount[Route[q]]

\* The handler returns a response, 200 or (GraphQL) 400; a log line is written and
\* the X-Request-ID header added.
Respond(q, how) ==
    /\ HandlerOver(q)
    /\ how = "ok" \/ (how = "client_error" /\ Route[q] = "graphql")
    /\ Move(q, "handler", "done") /\ Ends(q, how)
    /\ Record(q, how) /\ Release
    /\ UNCHANGED <<vars, settings, checks, orphans>>

\* The client goes away while the body is read, or a pod has a field missing:
\* recorded as a 500; no log line, no request id, ServerErrorMiddleware answers.
Raise(q) ==
    /\ HandlerOver(q) /\ Route[q] \in {"graphql", "k8s"}
    /\ Move(q, "handler", "done") /\ Ends(q, "raised")
    /\ Record(q, "raised") /\ Release
    /\ UNCHANGED <<vars, settings, checks, orphans>>

\* Slip: the connection is released in the two branches instead of the finally.
Cancel_Leaks(q) ==
    /\ Move(q, "handler", "done") /\ Ends(q, "cancelled")
    /\ UNCHANGED <<vars, settings, checks, orphans, metrics>>

\* The server shuts the request's task down: CancelledError is no Exception, so
\* only the finally runs.
Cancel(q) ==
    /\ Move(q, "handler", "done") /\ Ends(q, "cancelled")
    /\ Release
    /\ UNCHANGED <<vars, settings, checks, orphans, total_requests, total_errors, path_counts>>

StackTick == Tick /\ UNCHANGED <<settings, stage, outcome, checks, orphans, metrics>>

Arrive(q) == Preflight(q) \/ Unauthorized(q) \/ Limited(q) \/ PassLimiter(q)

Proceed(q) ==
    \/ Check(q) \/ Raise(q) \/ Cancel(q)
    \/ \E how \in {"ok", "client_error"} : Respond(q, how)

StackNext ==
    \/ StackTick \/ OrphanExits
    \/ \E q \in Requests : Arrive(q) \/ Proceed(q)

StackSpec == StackInit /\ [][StackNext]_stackVars

(***************************************************************************)
(* Properties                                                              *)
(***************************************************************************)
At(s) == {q \in Requests : stage[q] = s}
Ended(how) == {q \in Requests : outcome[q] \in how}

\* The counters of /metrics agree with the handlers, however requests interleave
\* and end: active_connections is the number of running handlers (increments and
\* decrements stay in pairs, a cancelled one's too), the other three count the
\* handlers that returned or raised (MetricsMiddleware.dispatch).  About the
\* requests that no handler sees, see EveryRequestCounted.
CountersAgree ==
    /\ active_connections = Cardinality(At("handler"))
    /\ total_requests = Cardinality(Ended(Recorded))
    /\ total_errors = Cardinality(Ended(Errors))
    /\ \A r \in Routes :
          path_counts[r] = Cardinality({q \in Ended(Recorded) : Route[q] = r})

\* The order of the middlewares: preflights and requests without a valid token
\* take nothing from their client's limit.
QuotaIsForServed ==
    \A c \in Clients : \A q \in bucket[c] :
        stage[q] # "new" /\ outcome[q] \notin {"preflight", "unauthorized", "limited"}

\* main.py:61, "records request metrics for every incoming request": each one
\* that was answered, whoever answered it, is in total_requests.
EveryRequestCounted ==
    total_requests = Cardinality(Ended(Outcomes \ {"cancelled"}))
=============================================================================
