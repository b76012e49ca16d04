---------------------------- MODULE CostTracker ----------------------------
(***************************************************************************)
(* services/cost-tracker/src/cost_tracker/: one request for the costs of a *)
(* period.  It asks OpenCost, then Prometheus up to three times, and       *)
(* between two answers the platform goes on serving.  Costs are whole      *)
(* micro-dollars, the sixth decimal the service rounds to; the errors of   *)
(* binary fractions are left out.                                          *)
(***************************************************************************)
EXTENDS Integers, FiniteSetsExt, Functions

CONSTANTS
    Pods,         \* every pod OpenCost may name
    InNamespace,  \* those of namespace agent-platform
    LLMPods,      \* those whose name starts with one of LLM_POD_PREFIXES
    Windows,      \* the window dicts of an OpenCost answer
    Costs,        \* totalCost of a pod
    Models,       \* label values of inference_total
    Periods,      \* the period parameter, as [n |-> number, unit |-> "d", ...]
    MaxServed     \* bound: inferences counted per model

ASSUME CostConstants ==
    /\ InNamespace \subseteq Pods /\ LLMPods \subseteq Pods
    /\ IsFiniteSet(Pods) /\ IsFiniteSet(Windows)
    /\ Costs \subseteq Nat /\ MaxServed \in Nat
    /\ \A p \in Periods : p.n \in Nat

VARIABLES
    counter,  \* inference_total of each model that has a series
    tokens,   \* inference_prompt_tokens_total and the completion one
    reset,    \* history: a counter started again while the request ran
    step,     \* where the request waits, or how it ended
    period,
    cost,     \* total_llm_cost, or the breakdown's total
    counts,   \* model_metrics: the count of each model
    found,    \* model_metrics: its token counts, by token type
    failed,   \* history: the token types whose query failed
    lines     \* by_model

vars == <<counter, tokens, reset, step, period, cost, counts, found,
          failed, lines>>
world == <<counter, tokens>>
metrics == <<counts, found, failed>>

Empty == [m \in {} |-> 0]
\* round(n / d, 6) in micro-dollars.
Round(n, d) == (2 * n + d) \div (2 * d)

Init ==
    /\ counter = Empty
    /\ tokens = [t \in {"prompt", "completion"} |-> Empty]
    /\ reset = FALSE
    /\ step = "new"
    /\ period \in Periods
    /\ cost = 0
    /\ counts = Empty
    /\ found = [t \in {"prompt", "completion"} |-> Empty]
    /\ failed = {}
    /\ lines = Empty

(***************************************************************************)
(* The platform: Prometheus scrapes the series of a model together         *)
(***************************************************************************)
Running == step \in {"new", "counts", "prompt", "completion"}

At(f, m) == IF m \in DOMAIN f THEN f[m] ELSE 0
With(f, m, v) == [k \in DOMAIN f \union {m} |-> IF k = m THEN v ELSE f[k]]

\* An inference reads at least one prompt token and may produce none.
Serve(m) ==
    /\ Running
    /\ At(counter, m) < MaxServed
    /\ counter' = With(counter, m, At(counter, m) + 1)
    /\ \E n \in {0, 1} :
          tokens' = [prompt |-> With(tokens.prompt, m, At(tokens.prompt, m) + 1),
                     completion |-> With(tokens.completion, m, At(tokens.completion, m) + n)]
    /\ UNCHANGED <<reset, step, period, cost, metrics, lines>>

\* The pod of a model restarts: its counters do too.
Restart(m) ==
    /\ Running
    /\ At(counter, m) > 0
    /\ counter' = [counter EXCEPT ![m] = 0]
    /\ tokens' = [t \in DOMAIN tokens |-> [tokens[t] EXCEPT ![m] = 0]]
    /\ reset' = (reset \/ step # "new")
    /\ UNCHANGED <<step, period, cost, metrics, lines>>

(***************************************************************************)
(* OpenCostCollector                                                       *)
(***************************************************************************)
\* An answer names pods in windows, with what each cost; it may garble some, to
\* what is no number or is negative.  What is no dict is skipped.
Answers ==
    UNION {[value : [named -> Costs], garbled : SUBSET named] : named \in SUBSET (Windows \X Pods)}

Entries(answer, pods) == {e \in DOMAIN answer.value : e[2] \in pods \intersect InNamespace}

\* get_pod_costs: the entries of the namespace, in every window; one that does
\* not validate raises a ValueError and empties the list.
PodCosts(answer, pods) ==
    IF answer.garbled \intersect Entries(answer, Pods) # {} THEN 0
    ELSE SumFunctionOnSet(answer.value, Entries(answer, pods))

\* GET /costs/breakdown (GET /costs/pods answers the list unadded).
AskBreakdown(answer) ==
    /\ step = "new"
    /\ step' = "breakdown"
    /\ cost' = PodCosts(answer, Pods)
    /\ UNCHANGED <<world, reset, period, metrics, lines>>

\* calculate_inference_costs: the pods of LLM runtimes.
AskCosts(answer) ==
    /\ step = "new"
    /\ step' = "counts"
    /\ cost' = PodCosts(answer, LLMPods)
    /\ UNCHANGED <<world, reset, period, metrics, lines>>

\* OpenCost is unreachable or answers an error or no JSON: no pods.
OpenCostAway ==
    /\ step = "new"
    /\ step' \in {"breakdown", "counts"}
    /\ UNCHANGED <<world, reset, period, cost, metrics, lines>>

(***************************************************************************)
(* CostCalculator                                                          *)
(***************************************************************************)
Line(c, n, price, p, q) ==
    [cost |-> c, count |-> n, price |-> price, prompt |-> p, completion |-> q]

\* Slip: the price divides the cost of all models.
Priced_Total(n, all) ==
    LET share == IF all > 0 THEN cost * n ELSE 0
        price == IF n > 0 THEN Round(cost, n) ELSE 0
    IN  [cost |-> IF all > 0 THEN Round(share, all) ELSE 0, price |-> price]

\* A model's share of the cost, by its share of the count, and its price per
\* inference, each rounded.
Priced(n, all) ==
    LET share == IF all > 0 THEN cost * n ELSE 0
        price == IF n > 0 THEN Round(share, all * n) ELSE 0
    IN  [cost |-> IF all > 0 THEN Round(share, all) ELSE 0, price |-> price]

Metered(m, tok) ==
    LET p == Priced(counts[m], SumFunction(counts)) IN
    Line(p.cost, counts[m], p.price, At(tok.prompt, m), At(tok.completion, m))

\* _period_to_hours, in minutes: what is no number with a unit is a day.
Minutes(p) ==
    CASE p.unit = "d" -> p.n * 24 * 60
      [] p.unit \in {"h", ""} -> p.n * 60
      [] p.unit = "m" -> p.n
      [] OTHER -> 24 * 60

\* int(100 * hours)
EstimatedCount == (100 * Minutes(period)) \div 60

Estimated ==
    IF cost = 0 THEN [m \in {"unknown"} |-> Line(0, 0, 0, 0, 0)]
    ELSE [m \in {"estimated"} |->
             Line(cost, EstimatedCount,
                  IF EstimatedCount > 0 THEN Round(cost, EstimatedCount) ELSE 0, 0, 0)]

\* _query_inference_metrics: a count for each model that has a series.  No model
\* at all: the estimate.
QueryCounts ==
    /\ step = "counts"
    /\ counts' = counter
    /\ step' = "prompt"
    /\ UNCHANGED <<world, reset, period, cost, found, failed, lines>>

\* Prometheus is away, or its answer is no number: no metrics, the estimate.
QueryCountsFails ==
    /\ step = "counts"
    /\ lines' = Estimated
    /\ step' = "done"
    /\ UNCHANGED <<world, reset, period, cost, metrics>>

After(type) == IF type = "prompt" THEN "completion" ELSE "done"

\* The last token query ends the calculation.
Finish(type, tok) ==
    /\ step = type
    /\ step' = After(type)
    /\ found' = tok
    /\ lines' = IF type = "prompt" THEN lines
                ELSE IF DOMAIN counts = {} THEN Estimated
                ELSE [m \in DOMAIN counts |-> Metered(m, tok)]
    /\ UNCHANGED <<world, reset, period, cost>>

\* Slip: the counts are refreshed with each token query.
QueryTokens_Recounts(type) ==
    /\ Finish(type, [found EXCEPT ![type] = tokens[type]])
    /\ counts' = counter
    /\ UNCHANGED failed

\* _enrich_token_counts: the tokens of one type, for the models counted.
QueryTokens(type) ==
    /\ Finish(type, [found EXCEPT ![type] = tokens[type]])
    /\ UNCHANGED <<counts, failed>>

\* Best effort: the models keep 0 tokens of that type.
QueryTokensFails(type) ==
    /\ Finish(type, found)
    /\ failed' = failed \union {type}
    /\ UNCHANGED counts

\* An answer of an unexpected shape raises what no handler catches: 500.
Broken ==
    /\ Running
    /\ step' = "error"
    /\ UNCHANGED <<world, reset, period, cost, metrics, lines>>

Next ==
    \/ \E m \in Models : Serve(m) \/ Restart(m)
    \/ \E answer \in Answers : AskBreakdown(answer) \/ AskCosts(answer)
    \/ OpenCostAway \/ QueryCounts \/ QueryCountsFails \/ Broken
    \/ \E type \in {"prompt", "completion"} : QueryTokens(type) \/ QueryTokensFails(type)

Spec == Init /\ [][Next]_vars

(***************************************************************************)
(* Properties                                                              *)
(***************************************************************************)
\* get_summary.
Summary ==
    [cost  |-> SumFunction([m \in DOMAIN lines |-> lines[m].cost]),
     count |-> SumFunction([m \in DOMAIN lines |-> lines[m].count])]
Near(a, b, halves) == 2 * (a - b) <= halves /\ 2 * (b - a) <= halves

\* The summary's total, a sum of rounded shares, is the cost of the pods within
\* half a micro-dollar per model; each line's price times its count is its cost
\* within the rounding; only a report that counted nothing drops a cost, and only
\* an estimate for no time at all has a cost without a price.
MoneyAddsUp ==
    step = "done" =>
        /\ Near(Summary.cost, cost, Cardinality(DOMAIN lines))
              \/ (Summary.cost = 0 /\ Summary.count = 0)
        /\ \A m \in DOMAIN lines :
              \/ Near(lines[m].price * lines[m].count, lines[m].cost, lines[m].count + 1)
              \/ m = "estimated" /\ Minutes(period) = 0 /\ lines[m].price = 0

\* The counts are read before the tokens, so a model that did not restart has at
\* least as many prompt tokens as inferences, unless that query failed: then no
\* model has any.
TokensCoverCounts ==
    step = "done" /\ counts # Empty =>
        IF "prompt" \in failed THEN \A m \in DOMAIN lines : lines[m].prompt = 0
        ELSE reset \/ \A m \in DOMAIN lines : lines[m].prompt >= lines[m].count
=============================================================================
