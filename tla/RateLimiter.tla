---------------------------- MODULE RateLimiter ----------------------------
(***************************************************************************)
(* services/gateway/src/gateway/middleware/rate_limit.py: the limiter of   *)
(* one gateway process, enabled.  dispatch has no await between reading    *)
(* the bucket and appending to it, so a request is one action.  The clock  *)
(* is time.time() as the limiter reads it; an entry is kept by its age.    *)
(***************************************************************************)
EXTENDS Integers, FiniteSets

CONSTANTS
    Requests,  \* the requests that may arrive, each once
    Clients,   \* client IPs, "unknown" being one of them
    RPM,       \* requests_per_minute (60)
    Window     \* the 60 s window, in clock ticks

ASSUME LimiterConstants ==
    /\ IsFiniteSet(Requests)
    /\ RPM \in Nat \ {0}
    /\ Window \in Nat \ {0}

VARIABLES
    bucket,   \* _buckets: the timestamps kept for each client
    verdict,  \* history: what each request was answered
    sender,   \* the client of each request
    age,      \* ticks since each request, capped at Window
    quiet     \* history: ticks since each client's last request, capped

vars == <<bucket, verdict, sender, age, quiet>>

TypeOK ==
    /\ bucket \in [Clients -> SUBSET Requests]
    /\ verdict \in [Requests -> {"unsent", "admitted", "rejected"}]
    /\ sender \in [Requests -> Clients]
    /\ age \in [Requests -> 0..Window]
    /\ quiet \in [Clients -> 0..Window]

Init ==
    /\ bucket = [c \in Clients |-> {}]
    /\ verdict = [q \in Requests |-> "unsent"]
    /\ sender \in [Requests -> Clients]
    /\ age = [q \in Requests |-> 0]
    /\ quiet = [c \in Clients |-> Window]

\* Slip: an entry of exactly 60 s is kept.
Live_Inclusive(c) == {q \in bucket[c] : age[q] <= Window}

\* The entries that survive the cleaning: t > now - 60.
Live(c) == {q \in bucket[c] : age[q] < Window}

\* Slip: the limit is tested with >, after one request too many.
Full_OffByOne(c) == Cardinality(Live(c)) > RPM

Full(c) == Cardinality(Live(c)) >= RPM

Answer(q, v) ==
    /\ verdict[q] = "unsent"
    /\ verdict' = [verdict EXCEPT ![q] = v]
    /\ age' = [age EXCEPT ![q] = 0]
    /\ quiet' = [quiet EXCEPT ![sender[q]] = 0]
    /\ UNCHANGED sender

\* Below the limit: the request's timestamp is appended and it goes on.
Admit(q) ==
    /\ ~Full(sender[q])
    /\ Answer(q, "admitted")
    /\ bucket' = [bucket EXCEPT ![sender[q]] = Live(sender[q]) \union {q}]

\* Slip: a rejected request counts as well.
Reject_Counts(q) ==
    /\ Full(sender[q])
    /\ Answer(q, "rejected")
    /\ bucket' = [bucket EXCEPT ![sender[q]] = Live(sender[q]) \union {q}]

\* At the limit: 429 with Retry-After: 60; only the cleaning is kept.
Reject(q) ==
    /\ Full(sender[q])
    /\ Answer(q, "rejected")
    /\ bucket' = [bucket EXCEPT ![sender[q]] = Live(sender[q])]

\* One tick of the clock.
Tick ==
    /\ age' = [q \in Requests |-> IF verdict[q] # "unsent" /\ age[q] < Window
                                  THEN age[q] + 1 ELSE age[q]]
    /\ quiet' = [c \in Clients |-> IF quiet[c] < Window THEN quiet[c] + 1 ELSE quiet[c]]
    /\ UNCHANGED <<bucket, verdict, sender>>

Next ==
    \/ Tick
    \/ \E q \in Requests : Admit(q)
    \/ \E q \in Requests : Reject(q)

Spec == Init /\ [][Next]_vars

(***************************************************************************)
(* Properties                                                              *)
(***************************************************************************)
\* The requests of c that were admitted less than Window ticks ago.
InWindow(c) == {q \in Requests : verdict[q] = "admitted" /\ sender[q] = c /\ age[q] < Window}

\* No window of 60 s ever contains more than requests_per_minute admitted
\* requests of a client, wherever the window starts (not only at the ends of
\* minutes) and although a bucket is cleaned only by its client's requests.
WindowBound == \A c \in Clients : Cardinality(InWindow(c)) <= RPM

\* Why: a bucket holds admitted requests of its client only, and every one
\* that is still in the window; and no sent request is younger than its
\* client's silence.
BucketsRemember ==
    /\ \A c \in Clients : \A q \in bucket[c] : verdict[q] = "admitted" /\ sender[q] = c
    /\ \A q \in Requests :
          verdict[q] = "admitted" /\ age[q] < Window => q \in bucket[sender[q]]
    /\ \A q \in Requests : verdict[q] # "unsent" => age[q] >= quiet[sender[q]]

\* The buckets, cleaned now and then, decide like the window itself: a request
\* is rejected only when its own client filled the window, other clients and
\* earlier rejections never count.
Ideal == INSTANCE SlidingWindow
ImplementsWindow == Ideal!WindowSpec

\* "Retry-After: 60" (rate_limit.py:46): a client that stays quiet for the
\* whole window is admitted, however often it was rejected before.
RetryAfterHonoured ==
    [][ \A q \in Requests : Reject(q) => quiet[sender[q]] < Window ]_vars
=============================================================================
