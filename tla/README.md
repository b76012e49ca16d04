# A verification project for the Agent Platform

TLA+ models, TLC runs and TLAPS proofs for the Python services under `src/services/`
(with `src/libs/py-common`). Paths below are relative to `src/`. Every definition that
stands for code is listed, with its lines, in `PROJECT.json` ("map").

    tlc -config LLMClient_shared.cfg LLMClient      # one run; PROJECT.json lists them all
    tlapm LLMClientProofs.tla                       # one proof module

## 1. The system

A browser talks GraphQL to the **gateway**; the gateway keeps conversations and agents in
memory and calls **agent-engine** over HTTP for every message; agent-engine runs one agent
turn (LLM calls and tool calls) and answers. **document-service** (PostgreSQL + MinIO),
**cache-service** (Redis vector search) and **cost-tracker** (OpenCost) are separate HTTP
services. All are asyncio programs with one event loop per process, so the only places where
another coroutine can run are the `await`s; Kubernetes runs several gateway processes.

    browser --GraphQL--> gateway (1..5 replicas) --HTTP--> agent-engine --HTTP--> LLM primary
                          | sessions, agents,               | Prefect task/flow     LLM fallback
                          | rate limiter, metrics           |--HTTP--> document-service -> MinIO
                                                            |                          -> PostgreSQL
                         cache-service -> Redis             '--HTTP--> weather / search tools
                         cost-tracker  -> OpenCost

### Inventory

**LLM client and circuit breaker** (`services/agent-engine/src/agent_engine/llm_client.py`).
State: breaker state, failure counter, time of the last failure. Operations: `state` (which
moves OPEN to HALF_OPEN when it is *read*), `record_success`, `record_failure`, `chat` (primary,
else fallback). Hard: in a shared client results arrive in any order relative to transitions;
cancellation records nothing; the clock comparison and the counter that is not reset; the
breaker lives as long as its client, which is one flow. Correct when: no request goes to the
primary during a cooldown, a failed probe reopens with a fresh cooldown, and traffic returns
once the primary has recovered.

**Agent graph** (`graphs/agent_graph.py`). State: LangGraph's `AgentState` (transcript, pending
tool calls, accumulated tool calls, iteration, last response). Operations: the nodes `call_llm`,
`execute_tools`, `respond`, and the routing. Hard: nodes work on copies that are merged or lost;
the cap can be reached by a reply that still wants tools. Correct when: every LLM request is a
valid transcript, the answer lists exactly the tool calls that ran, the turn ends, and ends with
a final answer.

**Agent flow** (`flows/agent_flow.py`, `main.py`). State: which stage of the request runs, the
attempt. Operations: the Prefect flow (timeout 120 s) with the retried task, the fallback to
`_direct_execute`, the mapping of exceptions to status codes. Hard: retries, timeout and fallback
each repeat work whose effects (LLM cost, tool calls) remain. Correct when: the cost is bounded,
the answer comes from one run, every request ends, and the timeout is one.

**Agents, registry, tools** (`registry.py`, `agents/`, `tools/`). Configuration and stateless
functions; a graph sees them as a string or an exception. `agents/base.py` holds the loop the
graph replaced.

**Gateway resolvers** (`services/gateway/src/gateway/resolvers/`). State, per process:
`_sessions` and `_mock_agents`; the static `_agent_types`. Operations: `sendMessage` (one await
between reading and writing the session), create and delete agent, queries. Hard: overlapping
sends to one session, restarts, several replicas. Correct when: a session is a list of whole
exchanges, no history is rewritten, the engine is told the conversation so far, and an agent runs
as what it was created to be.

**Gateway rate limiter** (`middleware/rate_limit.py`). State: per client a list of timestamps,
cleaned only when that client asks. Operation: `dispatch`. Hard: window boundaries, what counts.
Correct when: no 60 s window holds more than the limit, only the client's own admitted requests
count against it, and `Retry-After` is honest.

**Gateway middleware, metrics, auth** (`main.py`, `metrics.py`, `middleware/auth.py`,
`libs/py-common/.../middleware.py`, which only adds request ids and a log line). State: counters of requests, errors, connections. Operations:
the stack around every request, `/metrics` (six probes) and `/k8s` (three `kubectl` calls). Hard: the
order of the stack decides which requests spend quota, are counted or get a request id; a handler
ends by a response, an exception or a cancellation. Correct when: the counters agree with the
requests there were, and what is turned away before the limiter spends nothing.

**Semantic cache** (`services/cache-service/`). State: hashes in Redis with a TTL each, the
vector index, hit counters. Operations: `ensure_index` (once, at start), `get`, `put` (two Redis
commands), `invalidate` (scan and delete). Hard: a crash between the two commands of `put`,
entries written during an invalidation, embeddings from two sources. Correct when: hits are
similar and not past their TTL, an invalidation covers what existed when it began, and a service
that started without Redis works when Redis is back.

**Document service** (`services/document-service/`). State: objects in MinIO, document and chunk
rows in PostgreSQL. Operations: upload (object, chunks, embeddings, one transaction), delete
(object best effort, then rows), search. Hard: two stores and no common transaction; recursive
chunking with overlap. Correct when: rows and chunks agree, a row's object exists, and no text is
lost by chunking.

**Cost tracker** (`services/cost-tracker/`). Stateless aggregation of OpenCost and Prometheus answers,
four requests for one report, while inferences go on. Correct when: what it reports adds up to what
the pods cost, and there are tokens for every inference
counted.

**Chat page** (`frontend/src/app/chat/page.tsx`). State: its own list of messages, its session id,
`loading`. Operations: send (one await), switch agents, mount. Hard: an answer that comes after the
conversation was changed; a fetch that fails while the gateway works on. Correct when: page and
session tell the same story. **Rest of the web frontend**: pages that render queries, forms.
**Infrastructure, tests, docs**: no code of the running system; replica counts, timeouts and the claims checked come from there.

### What is hard

`PROJECT.json` ("hazards") lists, at their lines, the behaviours tests hardly reach. They are of
five kinds. *State read before an await and used after it*: the session in `sendMessage`, the page's
conversation under a fetch, the document an upload reads back, the breaker between a request and its
result, the counts of a cost report. *Work that is done again*: task retries, the direct run after
the flow, the client that is made anew, a send after a fetch that failed. *Two steps that can come
apart*: MinIO and PostgreSQL, HSET and EXPIRE, the check for an index and its creation, a SCAN and
the stores beside it. *Memories that differ*: replicas, pages and sessions, two embedding spaces in
one index. *Boundaries*: the iteration cap, the window of the limiter, threshold and cooldown, the
parts that just fit a chunk, shares rounded one by one.

## 2. The modules

| Module | Code | State and actions |
|---|---|---|
| `LLMClient` | `llm_client.py` | the three fields of the breaker; for each coroutine where its `chat()` waits. One action per stretch between two awaits: `CallPrimary`/`SkipPrimary` (the read of `state` included), `PrimaryReturns`, `PrimaryFails`, `FallbackEnds`, `Cancel`; `Tick` is the clock |
| `CircuitBreaker` | its docstring | the abstract breaker: mode, streak, cooldown |
| `Transcript`, `AgentGraph` | `graphs/agent_graph.py` | `AgentState` and the local copies of the running node; one action per await of a node. A message is its role and the tool-call ids it carries |
| `AgentTurn` | - | the abstract turn: think, act, answer, fail |
| `AgentFlow` | `flows/agent_flow.py`, `main.py:146-191` | EXTENDS `AgentGraph`; the stage of the request, the attempt. `Retry` starts a fresh graph, `FlowRaises`, `PrefectFails` and `FlowTimesOut` lead to the direct run |
| `AgentRequest` | both, together | `AgentFlow` composed with an `LLMClient`: a step of the turn and the step of the client that causes it are one step; leaving the flow replaces the client |
| `ChatService` | `gateway/resolvers/` | per replica `_sessions` and `_mock_agents`; a send is `SendMessage` (up to the await) and `Finish` (after it); `Restart` empties a replica |
| `ChatPage` | `frontend/src/app/chat/page.tsx` | EXTENDS `ChatService`; what each page shows, whether it is loading, its fetches. `Ask`, `Receive`, `FetchFails`, `SwitchAgent`, `Mount`; `Arrive` is the page's request reaching the resolver, perhaps late, `OtherClient` a request to other sessions |
| `RateLimiter` | `middleware/rate_limit.py` | `_buckets`; `Admit` and `Reject`, each with the cleaning. `dispatch` has no await in between, so a request is one action |
| `SlidingWindow` | - | the abstract limiter: the window, no buckets |
| `GatewayStack` | `gateway/main.py`, `metrics.py`, `middleware/` | EXTENDS `RateLimiter`; where each request is, the counters, the calls of the running handlers, `kubectl` processes that were given up. CORS answers preflights, auth and limiter turn requests away, and only then the metrics see one; a handler ends by `Respond`, `Raise` or `Cancel` |
| `Documents` | `ingest.py`, `main.py`, `models.py` | objects, rows, chunk rows; an action per await of upload and delete, each failing before or after it took effect, and `UploadLost`/`DeleteLost` for a process that dies |
| `SemanticCache` | `cache_service/` | the process (starting, creating the index, up), Redis with its keys, their expiry and the index, the calls in flight and the counters. An action per await of store, lookup and invalidate, each failing when Redis is away; keys expire or are evicted, the process dies and starts |
| `CostTracker` | `cost_tracker/` | one request between its awaits (OpenCost, three Prometheus queries), and the counters of the platform, which go on meanwhile or start again; costs in whole micro-dollars |
| `Chunker` | `ingest.py:113-196` | the splitter on sequences of characters. Its loops are functions defined by recursion over positions or parts; its recursion over the separators is unrolled, `RecursiveSplit` to `SplitByLines` to `SplitBySpaces` to `HardSplit`; `Documents` EXTENDS it |
| `MC*` | - | values for TLC: routes, periods, embeddings, the demo agents, all texts up to a length, symmetries |
| `*Proofs` | - | theorems and proofs, one module per component (`ChatProofs`: service and page) |

`X_Suffix` operators, introduced by "Slip:", are plausible mistakes. They are part of no
specification: put in the place of `X` they must break the property they are listed with
("mutants"), which shows that the property depends on the code.

**External behaviour.** LangGraph only schedules nodes; Prefect runs the task again when it raises,
may time the flow out at any await and may fail on its own; PostgreSQL's commit is atomic and can
take effect although it raises; MinIO's calls can fail before or after their effect; HTTP calls end
because every client has a timeout; a Redis command is atomic, SCAN returns every key that is there
from its start to its end, and a vector search returns an entry of its index
(of an HNSW index not always the nearest); Prometheus counters of a model appear together and start again when a pod does; a browser may give up a request that still arrives.

**Who shares a client.** `LLMClient` is modelled for any number of coroutines, which is what the
class is written for and what a client for the whole application (made at `agent_engine/main.py:100`,
used by no one yet) would need; `llm_shared` is about that. On the request path every flow and every
direct run has a client of its own, which is what `AgentRequest` models.

## 3. The runs

Bounds are in the `.cfg` files; every run is exhaustive for them.

| Run | What it asks | Bounds, and why they are enough |
|---|---|---|
| `llm_shared` | What the breaker guarantees to coroutines that share it, whatever arrives late, and that it recovers (`Recovers`) | 3 callers: one probes while an old success and an old failure are on their way; threshold 2, cooldown 2; the counter saturates at `CountCap`, exact because it is only compared with the threshold |
| `agent_request` | Every request to the LLM is a valid transcript, every run of the graph implements `AgentTurn`, cost, clean answers, the breaker across retries, an answer whenever the fallback works | the code's 4 attempts, 5 iterations, 3 failures; a cooldown of 2 ticks, so that it can end at any later await, or not; 2 tool calls per reply, so that one can run and the next raise; one earlier exchange |
| `agent_request_cooldown` (violation) | `AllTrafficToFallback` | 2 attempts, 3 iterations, one tool call per reply |
| `chat_page` | Sessions are lists of whole exchanges, nobody rewrites history, a replica forgets nothing while it is up, and a page shows its conversation in order | a page and other clients, 3 sends on 3 sessions and 2 replicas, 1 restart: a send whose fetch failed overlaps with the next two of its page, or the page switches agents under it, twice |
| `chat_replicas` (violation) | `ContextIsComplete` | 2 sends and 2 replicas |
| `gateway_stack` | The counters agree with the handlers however these end, the quota is for what is served, no window holds more than the limit, rejections are fair, `Retry-After` is honest | 4 requests of 2 clients: one with calls to make, one that can be a client error, two alike, any of which CORS may answer as a preflight; limit 2 and a window of 2 ticks, so that a client can fill the window, be rejected and come back; auth and limiter on or off; one call stands for the three of `/k8s` |
| `gateway_metrics_order` (violation) | `EveryRequestCounted` | as above |
| `documents` | Rows, chunks and files agree as far as two stores can; chunking loses nothing | 1 upload and 2 deletes of it (uploads do not touch each other's rows); every text of up to 6 characters over letter, space and newline with chunk size 3 and overlap 1: all four levels of separators get to split, and the bound of `ChunksBounded` is attained |
| `documents_chunk_limit` (violation) | `ChunksWithinLimit` | as above |
| `semantic_cache` | Invalidations cover what existed, entries expire, the counters are of answers | 2 stores (one with a TTL, one without), 2 lookups, 1 invalidation, two texts that the model finds similar and a third; Redis comes and goes, the process dies at any await and starts again: a store and a lookup are in flight during an invalidation, with any of them cut short |
| `cache_index_retry` (violation) | `FirstRequestCreatesIndex` | as above, 1 lookup |
| `cost_tracker` | A report adds up and has tokens for what it counts | 3 pods (of the namespace, of an LLM name, of both), 2 windows, 2 models, 2 inferences per model before or during the request, a counter that starts again; a cost of 5 micro-dollars, which no 2 or 3 divide, so that every rounding rounds |

`CHECK_DEADLOCK FALSE` stands where the system is done: a request or all sends have ended,
all requests are spent, the report is made. `llm_shared` and the cache's runs check deadlock.

**Fairness.** `LLMClient!FairSpec`: time passes, and a call that is not cancelled ends, since both
OpenAI clients carry timeouts; nobody has to start a chat, `Recovers` assumes that chats keep
coming. `RequestFairSpec`: nodes, attempts and stages are coroutines of one task, what they await
ends, and time passes; the failures of Prefect and the flow's timeout
are never forced. The other specifications have no fairness: nothing in the chat, the gateway, the
document service, the cache or the cost tracker is promised to happen beyond the end of a call.

### What the violations show

- **The breaker forgets** (`agent_flow.py:97`). The direct run makes a new client, so the next call
  goes to the primary whose failures have just opened the flow's breaker. The same is true of every
  new request: a dead primary is tried three times by each.
- **Conversations depend on the replica** (`chat.py:24`). Sessions are memory of one process.
- **Chunks grow** (`ingest.py:188`). Overlap is added at every level of separators, also at those
  that did not split, up to `chunk_size + 3 * (overlap + 1)`.
- **Not every request is counted** (`gateway/main.py:206`). The comment above the middlewares says
  "outermost first"; `add_middleware` puts each one around those before it, so the one added first is
  the innermost. A preflight, a 401 or a 429 is answered before `MetricsMiddleware` ("every incoming
  request", `main.py:61`) sees it; it has no request id either.
- **The index is never retried** (`cache_service/main.py:68`). The log says that the first request
  will; none does, and every lookup of a service that started without Redis is a miss.

Met while modelling, without a run of their own.

*Agent engine*: the fifth reply may ask for tools; the calls are dropped and the text beside them,
often empty, is the answer (`agent_graph.py:150`). The 120 s timeout of the flow is caught like any
other exception and the turn runs again without a limit (`agent_flow.py:203-208`). HALF_OPEN sends
every coroutine of a *shared* client to the primary, not "one request" (`llm_client.py:34`), and a
late success can close an open breaker in mid-cooldown there. Latency and tokens reported for a turn
are those of its last call (`agent_graph.py:74-91`). Prefect repeats the whole graph, not the failed
step (ADR-004:25-27).

*Gateway and page*: created agents run as QUIZ, since nobody extends the table that maps ids to types
(`chat.py:69`). `rate_limit.py:18` calls the sliding log a token bucket. The probes of `/metrics` pass through the stack they measure and spend quota. `kubectl` is not killed
when its timeout ends (`main.py:309`). An answer that comes after the user switched agents is shown
in the new conversation (`page.tsx:200`), and until then the new conversation cannot send. The "Chat"
link of an agent leads to session `new` (`agents/[id]/page.tsx:62`), which is no UUID: every message
there is refused.

*Cache*: an entry stored while the embedding endpoint was away has a vector made of hashes and stays
until it expires; a lookup embedded by the model is compared with it, and the other way round
(`embeddings.py:48`; ADR-007:24-26 has one model for both). `invalidate` counts the keys it meant to delete, not those it deleted
(`semantic_cache.py:215`); ADR-007 has threshold 0.92 and 24 h, the code 0.95 and 3600 s.

*Documents*: `_fallback_embed` reads hash bytes as doubles, which can be NaN or infinite.

*Cost tracker*: the cost of a period is divided by the inferences of all time
(`calculator.py:141`), the same price for every model; nothing in the repository exports
`inference_total`; a window by name counts as 24 hours in the estimate (`calculator.py:252`); one
entry that does not validate empties a report, with status 200 (`collector.py:91`).

## 4. The proofs

TLAPS checks these for all values of the constants, from the named assumptions of the modules
(thresholds, windows and caps are positive numbers; the conversation before a turn is a well-formed
transcript; texts are sequences of characters and the overlap is less than a chunk; the sets of
requests, pods and OpenCost windows are finite; costs and periods are not
negative, since what is negative does not validate; the calls of the cache are told apart). Every
safety property that a passing run checks is stated by a theorem.

- **`LLMClientProofs`**. Inductive invariant: types, `ClosedIffBelowThreshold`,
  `HalfOpenMeansCooledDown`. The first ties the counter to the state: that is why one failed probe
  reopens the breaker although `record_failure` asks only for the count. The second ties the clock
  to the state: that is why every request to the primary is below the threshold or after a cooldown.
  From them `PrimaryOnlyWhenAllowed` and `FailedProbeReopens`. With one caller,
  `InFlightMeansAllowed` (nobody opens the breaker behind a request's back) gives the refinement of
  `CircuitBreaker`.
- **`AgentGraphProofs`**. `RequestsWellFormed` is not inductive: while tools run the transcript has
  calls without answers. The invariant says for each node how far the transcript has got: well-formed
  between nodes, and in `execute_tools` the well-formed request, the reply that asked for tools, and
  results of the first of its calls (`ToolsRunning`). Appending a reply with all its results keeps a
  transcript well-formed (`ExchangeIsWellFormed`). `CallsDistinct` ties the accumulated calls to the
  iterations they are of; with it every node is a step of `AgentTurn` or none
  (`GraphImplementsTurn`).
- **`AgentRequestProofs`**, flow and composed request. The bound of `LLMBudget` is not inductive. The
  invariant keeps an account per attempt: an attempt that is retried raised, a graph raises only
  before its last iteration, so `k` failed attempts cost at most `k * (cap - 1)`; the attempt the flow
  ends with and the direct run can use all of the cap. With the code's numbers: 22 replies. Every
  attempt starts the graph anew, so `GraphInv` holds in a flow too: `FlowRequestsWellFormed`, and with
  the clause that a flow which answered is at the end of a graph, `FlowReportsOneRun`. A step of the flow is one of the
  graph or makes it fresh in a new attempt or stage, which gives `FlowRunsAreTurns`. By
  composition every step of a request is a step of `AgentFlow` or leaves it alone, so these carry over;
  every step is a step of the client or the replacement of the client, so the lemmas of
  `LLMClientProofs` carry over (`ClientsKeepContractHolds`). `TrippedHere` says that while the flow
  runs the time since a breaker opened is the client's own; it gives `RetriesKeepCooldownHolds`.
- **`GatewayStackProofs`**, limiter and stack. `WindowBound` needs `BucketsRemember`: a lazily cleaned
  bucket contains every admitted request that is still in the window, so counting the bucket is
  counting the window. Then the refinement of `SlidingWindow`, and `RetryAfterHonoured` by the same
  invariant, since no request of a client is younger than its silence. A request that has not reached the limiter is in no bucket
  (`QuotaIsForServed`, inductive with the stages), and the gauge is the number of requests in a
  handler: cardinalities of finite sets, one step per way to end. Every step of the stack is a step of
  the limiter or leaves it alone (`StackImplementsLimiter`), so `WindowBound`, `ImplementsWindow` and
  `RetryAfterHonoured` hold behind the stack.
- **`ChatProofs`**. `Exchanges` and `HistoryIsPrefix` need `StoredIsDone`: what is in a session is of
  sends that have finished there, so the one that finishes now is not in it yet and the histories that
  wait only see the session grow. `DoneIsStored`, its converse until a restart, gives
  `ReplicaRemembers`. Pages are clients like any other (`PageImplementsService`), so all three hold
  behind pages. `PageAlternates` is inductive with what a page awaits: the answer to its last
  question, or a stray one, and then nothing is shown yet because `loading` has blocked it.
  `PageFollowsSession` needs two facts about answers: one that is shown is of a send that has finished,
  so it is stored, and one that is awaited will be stored after all that are shown (`NextInOrder`),
  because the page asked only when the earlier fetch was over.
- **`SemanticCacheProofs`**. `InvalidatedIsGone` needs `Sweeping`: while an invalidation runs, every
  key that it found and that is still there is yet to come. That rests on `Behind`, which ties Redis
  to where the stores are: a key is there only after its HSET, and no store writes twice.
  `OnlyUnfinishedAreImmortal` is inductive with the same states. `StatsCountAnswers` counts the
  lookups that ended by their answers: cardinalities, one step per way to end.
- **`DocumentsProofs`**, for any number of uploads and deletes, any texts, chunk size and overlap. `RowsWhole`,
  `FileBehindRow` and `DeletedIsGone` are inductive together with `Kept` (what has been committed
  stays until a delete reaches MinIO) and `NotYetVisible` (what has not been committed has no row,
  hence no delete has found it). `RowsWhole` says the rows are `ChunkText` of the text, and what that
  computes is proved bottom up. `RecursiveFunction` shows that a function defined by recursion over
  `0..n` exists (a smallest `n` without one cannot be), so the loops of the chunker and `FlattenSeq`
  have their equations, and `Steps` carries a fact along them.
  What the chunks must have in common with the text is `Same`: both show the same letters, each for
  the first time in the same order. The chunker compares characters with separators and blanks only, never
  with each other, so a text whose letters all differ stands for every text with its separators at
  the same places, and for it `Same` says that nothing is lost and nothing changes places. `Same`
  passes through concatenation, and takes no notice of blanks (`BlankAside`: strips, and the
  separators that a split removes) or of what has been read before (`Repeats`: overlaps). Along the
  loops: a split has put what stands before its last cut into parts, a packing holds the parts so far,
  and the next slice of a hard split starts within or right after what the slices before it have read
  (`NextSlice`), because the last start before a position is less than a step away or its slice reaches
  the end. Each level then adds an overlap and a space and keeps the text (`LevelKeeps`). This gives
  `ChunksBounded`, with exactly the bound that `documents_chunk_limit` shows to be needed, and
  `TextSearchable`.
- **`CostTrackerProofs`**, for any number of pods, windows and models. A sum is a fold over a finite
  set. Its equation is proved first: in a set of subsets of a finite set there is a smallest one
  (`SmallestSubset`, from the well-foundedness of the strict subset relation), so a smallest set for
  which a fact about sums fails is empty or one element larger than a set for which it holds. In that
  way sums are natural numbers, bound their parts, and stay near when their parts do (`SumsStayNear`).
  `MoneyAddsUp` follows from the bounds of one rounding, added up. `TokensCoverCounts` needs what the
  request knows at each await (`ReadInv`): the counts it holds are at most the present ones, which are
  at most the present tokens, unless a counter started again.

Only model-checked: everything about liveness (`Recovers`, `Answered`), which TLAPS does
not treat.

## 5. Not modelled

Agent tools, prompts, embeddings and retrieval are stateless functions of text. `BaseAgent.run`
(`agents/base.py`) is the loop the graph replaced; nothing calls it. The gateway's stubs do nothing;
the shared library is configuration, logging and telemetry and two middlewares
(request ids, a log line) that only pass requests on; the pages other than the chat render queries; infrastructure, tests and docs are
not code of the running system. `PROJECT.json` ("components") has the reason for each.

In the modelled parts the texts of messages, prompts and documents' metadata are left out, except
for the characters the chunker looks at. Embeddings are known by their text and by what computed
them; which pairs are similar is a constant, and the search is approximate: which of the indexed
entries it finds is open, so nothing is claimed about how good a hit is. The bucket dictionary of the limiter grows by one key per client
address: the model has a fixed set of clients. The latencies the metrics keep, the figures of
`/k8s` and `/metrics`, and the page's LLM settings in localStorage are data without a property.
The error of binary fractions in the cost tracker is left out.

## 6. The plan

Done: the agent engine (client, graph, flow, composed), the gateway's resolvers, limiter and stack,
the chat page, the document service with its chunker, the semantic cache, the cost tracker, and
a theorem for every safety property and refinement of theirs. What the prover cannot reach is left
to TLC: the liveness under fairness.
