--------------------------- MODULE SlidingWindow ---------------------------
(***************************************************************************)
(* What a limit of RPM requests a minute promises, without buckets: a      *)
(* request is admitted exactly when its client had fewer than RPM requests *)
(* admitted in the window that ends now.                                   *)
(***************************************************************************)
EXTENDS Integers, FiniteSets

CONSTANTS Requests, Clients, RPM, Window

VARIABLES
    verdict,  \* "unsent", "admitted" or "rejected"
    sender,   \* the client of each request
    age       \* clock ticks since the request, capped at Window

windowVars == <<verdict, sender, age>>

\* The requests of c that were admitted less than Window ticks ago.
InWindow(c) == {q \in Requests : verdict[q] = "admitted" /\ sender[q] = c /\ age[q] < Window}

WindowInit ==
    /\ verdict = [q \in Requests |-> "unsent"]
    /\ sender \in [Requests -> Clients]
    /\ age = [q \in Requests |-> 0]

Arrive(q) ==
    /\ verdict[q] = "unsent"
    /\ verdict' = [verdict EXCEPT ![q] =
                     IF Cardinality(InWindow(sender[q])) < RPM THEN "admitted" ELSE "rejected"]
    /\ age' = [age EXCEPT ![q] = 0]
    /\ UNCHANGED sender

Advance ==
    /\ age' = [q \in Requests |-> IF verdict[q] # "unsent" /\ age[q] < Window
                                  THEN age[q] + 1 ELSE age[q]]
    /\ UNCHANGED <<verdict, sender>>

WindowNext == Advance \/ \E q \in Requests : Arrive(q)

WindowSpec == WindowInit /\ [][WindowNext]_windowVars
=============================================================================
