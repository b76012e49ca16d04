--------------------------- MODULE MCGatewayStack ---------------------------
EXTENDS GatewayStack, TLC

CONSTANTS q1, q2, q3, q4
MCRequests == {q1, q2, q3, q4}

\* One call stands for the three of /k8s; /metrics differs by its six GETs only.
MCRoute == (q1 :> "k8s") @@ (q2 :> "graphql") @@ (q3 :> "healthz") @@ (q4 :> "healthz")
MCCheckCount == [r \in Routes |-> IF r = "k8s" THEN 1 ELSE 0]

\* The clients are alike, and the two probes.
MCSymmetry == Permutations(Clients) \union Permutations({q3, q4})
=============================================================================
