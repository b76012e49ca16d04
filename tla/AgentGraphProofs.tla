-------------------------- MODULE AgentGraphProofs --------------------------
(***************************************************************************)
(* Theorems about one turn for any numbers of iterations and tool calls    *)
(* and any conversation before it.  The inductive invariant says, node by  *)
(* node, how far the transcript has got: it is well-formed whenever the    *)
(* LLM is asked, and while tools run it is the well-formed request, then   *)
(* the reply that asked for them, of whose calls results is a prefix.      *)
(***************************************************************************)
EXTENDS AgentGraph, SequenceTheorems, TLAPS

LEMMA ConcatAppend ==
  ASSUME NEW S, NEW s \in Seq(S), NEW t \in Seq(S), NEW e \in S
  PROVE  s \o Append(t, e) = Append(s \o t, e)
<1>1. <<e>> \in Seq(S)
  OBVIOUS
<1>2. Append(t, e) = t \o <<e>>
  BY AppendIsConcat
<1>3. s \o t \in Seq(S)
  BY ConcatProperties
<1>4. Append(s \o t, e) = (s \o t) \o <<e>>
  BY <1>3, AppendIsConcat
<1>5. (s \o t) \o <<e>> = s \o (t \o <<e>>)
  BY <1>1, ConcatAssociative
<1> QED
  BY <1>2, <1>4, <1>5

\* Where the elements of a concatenation come from.
LEMMA ConcatIndexes ==
  ASSUME NEW S, NEW s \in Seq(S), NEW t \in Seq(S)
  PROVE  /\ Len(s) \in Nat /\ Len(t) \in Nat
         /\ DOMAIN s = 1..Len(s) /\ DOMAIN t = 1..Len(t)
         /\ DOMAIN (s \o t) = 1..(Len(s) + Len(t))
         /\ \A k \in 1..Len(s) : (s \o t)[k] = s[k]
         /\ \A k \in (Len(s) + 1)..(Len(s) + Len(t)) :
               k - Len(s) \in 1..Len(t) /\ (s \o t)[k] = t[k - Len(s)]
<1> DEFINE m == s \o t
<1>1. /\ m \in Seq(S) /\ Len(m) = Len(s) + Len(t)
      /\ \A k \in 1..(Len(s) + Len(t)) : m[k] = IF k <= Len(s) THEN s[k] ELSE t[k - Len(s)]
  BY ConcatProperties
<1> HIDE DEF m
<1>2. /\ Len(s) \in Nat /\ Len(t) \in Nat
      /\ DOMAIN s = 1..Len(s) /\ DOMAIN t = 1..Len(t) /\ DOMAIN m = 1..Len(m)
  BY <1>1, LenProperties
<1>3. \A k \in 1..Len(s) : m[k] = s[k]
  BY <1>1, <1>2
<1>4. \A k \in (Len(s) + 1)..(Len(s) + Len(t)) : k - Len(s) \in 1..Len(t) /\ m[k] = t[k - Len(s)]
  BY <1>1, <1>2
<1> QED
  BY <1>1, <1>2, <1>3, <1>4 DEF m

(***************************************************************************)
(* Transcripts                                                             *)
(***************************************************************************)
LEMMA ReplyIds ==
  ASSUME NEW i \in 1..MaxIterations, NEW n \in 0..MaxToolCalls
  PROVE  /\ Reply(i, n) \in Seq(ToolIds)
         /\ Len(Reply(i, n)) = n
         /\ \A k \in 1..n : Reply(i, n)[k] = <<i, k>>
<1> USE TurnConstants
<1>1. \A k \in 1..n : <<i, k>> \in ToolIds
  BY DEF ToolIds
<1> QED
  BY <1>1 DEF Reply

LEMMA PlainMessage ==
  ASSUME NEW role \in Roles PROVE <<Plain(role)>> \in Seq(Message)
<1>1. <<>> \in Seq(ToolIds)
  OBVIOUS
<1> QED
  BY <1>1 DEF Plain, Message

LEMMA AssistantMessage ==
  ASSUME NEW ids \in Seq(ToolIds) PROVE AssistantWith(ids) \in Message
  BY DEF AssistantWith, Message, Roles

LEMMA ToolMessageTypes ==
  ASSUME NEW ids \in Seq(ToolIds)
  PROVE  /\ ToolMessages(ids) \in Seq(Message)
         /\ Len(ToolMessages(ids)) = Len(ids)
         /\ \A k \in 1..Len(ids) : ToolMessages(ids)[k] = ToolMessage(ids[k])
<1>1. \A k \in 1..Len(ids) : ToolMessage(ids[k]) \in Message
  <2> SUFFICES ASSUME NEW k \in 1..Len(ids) PROVE ToolMessage(ids[k]) \in Message
    OBVIOUS
  <2>1. <<ids[k]>> \in Seq(ToolIds)
    OBVIOUS
  <2> QED
    BY <2>1 DEF ToolMessage, Message, Roles
<1>2. DOMAIN ids = 1..Len(ids) /\ Len(ids) \in Nat
  OBVIOUS
<1> QED
  BY <1>1, <1>2 DEF ToolMessages

\* What follows an assistant message with tool calls is in the same part, so
\* well-formed parts make a well-formed whole.
LEMMA WellFormedConcat ==
  ASSUME NEW a \in Seq(Message), NEW b \in Seq(Message), WellFormed(a), WellFormed(b)
  PROVE  WellFormed(a \o b)
<1> DEFINE m == a \o b
<1>1. /\ m \in Seq(Message) /\ DOMAIN m = 1..(Len(a) + Len(b))
      /\ Len(a) \in Nat /\ Len(b) \in Nat
      /\ DOMAIN a = 1..Len(a) /\ DOMAIN b = 1..Len(b)
      /\ \A i \in 1..Len(a) : m[i] = a[i]
      /\ \A i \in 1..Len(b) : Len(a) + i \in DOMAIN m /\ m[Len(a) + i] = b[i]
  BY ConcatProperties, LenProperties
<1>2. \A i \in DOMAIN m : i \in DOMAIN a \/ \E j \in DOMAIN b : i = Len(a) + j
  <2> SUFFICES ASSUME NEW i \in DOMAIN m, i \notin DOMAIN a PROVE \E j \in DOMAIN b : i = Len(a) + j
    OBVIOUS
  <2>1. i - Len(a) \in DOMAIN b /\ i = Len(a) + (i - Len(a))
    BY <1>1
  <2> QED
    BY <2>1
<1>3. \A i \in DOMAIN b : b[i].ids \in Seq(ToolIds)
  <2> SUFFICES ASSUME NEW i \in DOMAIN b PROVE b[i].ids \in Seq(ToolIds)
    OBVIOUS
  <2>1. b[i] \in Message
    BY <1>1, ElementOfSeq
  <2> QED
    BY <2>1 DEF Message
<1> HIDE DEF m
<1>5. ASSUME NEW i \in DOMAIN m, m[i].role = "assistant", NEW k \in DOMAIN m[i].ids
      PROVE  i + k \in DOMAIN m /\ m[i + k] = ToolMessage(m[i].ids[k])
  <2>1. CASE i \in DOMAIN a
    <3>1. m[i] = a[i]
      BY <1>1, <2>1
    <3>2. i + k \in DOMAIN a /\ a[i + k] = ToolMessage(a[i].ids[k])
      BY <1>5, <2>1, <3>1 DEF WellFormed
    <3>3. DOMAIN a \subseteq DOMAIN m /\ m[i + k] = a[i + k]
      BY <1>1, <3>2
    <3> QED
      BY <3>1, <3>2, <3>3
  <2>2. ASSUME NEW j \in DOMAIN b, i = Len(a) + j
        PROVE  i + k \in DOMAIN m /\ m[i + k] = ToolMessage(m[i].ids[k])
    <3>1. m[i] = b[j]
      BY <1>1, <2>2
    <3>2. j + k \in DOMAIN b /\ b[j + k] = ToolMessage(b[j].ids[k])
      BY <1>5, <3>1 DEF WellFormed
    <3>3. k \in Nat
      BY <1>3, <1>5, <3>1, LenProperties
    <3>4. i + k = Len(a) + (j + k)
      BY <1>1, <2>2, <3>3
    <3> QED
      BY <1>1, <3>1, <3>2, <3>4
  <2> QED
    BY <1>2, <2>1, <2>2
<1>6. ASSUME NEW i \in DOMAIN m, m[i].role = "tool"
      PROVE  \E j \in 1..(i - 1) : i - j \in DOMAIN m[j].ids /\ m[j].ids[i - j] = m[i].ids[1]
  <2>1. CASE i \in DOMAIN a
    <3>1. PICK j \in 1..(i - 1) : i - j \in DOMAIN a[j].ids /\ a[j].ids[i - j] = a[i].ids[1]
      BY <1>1, <1>6, <2>1 DEF WellFormed
    <3>2. m[j] = a[j] /\ m[i] = a[i]
      BY <1>1, <2>1
    <3> QED
      BY <3>1, <3>2
  <2>2. ASSUME NEW h \in DOMAIN b, i = Len(a) + h
        PROVE  \E j \in 1..(i - 1) : i - j \in DOMAIN m[j].ids /\ m[j].ids[i - j] = m[i].ids[1]
    <3>1. m[i] = b[h]
      BY <1>1, <2>2
    <3>2. PICK j \in 1..(h - 1) : h - j \in DOMAIN b[j].ids /\ b[j].ids[h - j] = b[h].ids[1]
      BY <1>6, <3>1 DEF WellFormed
    <3>3. Len(a) + j \in 1..(i - 1) /\ i - (Len(a) + j) = h - j /\ m[Len(a) + j] = b[j]
      BY <1>1, <2>2
    <3> QED
      BY <3>1, <3>2, <3>3
  <2> QED
    BY <1>2, <2>1, <2>2
<1> QED
  BY <1>5, <1>6 DEF WellFormed, m

LEMMA PromptIsWellFormed == IsTranscript(Prompt) /\ WellFormed(Prompt)
<1>1. ASSUME NEW role \in {"system", "user"}
      PROVE  <<Plain(role)>> \in Seq(Message) /\ WellFormed(<<Plain(role)>>)
  BY PlainMessage DEF Plain, WellFormed, Roles
<1>2. History \in Seq(Message) /\ WellFormed(History)
  BY HistoryIsTranscript DEF IsTranscript
<1>3. <<Plain("system")>> \o History \in Seq(Message) /\ WellFormed(<<Plain("system")>> \o History)
  <2>1. <<Plain("system")>> \in Seq(Message) /\ WellFormed(<<Plain("system")>>)
    BY <1>1
  <2> QED
    BY <1>2, <2>1, ConcatProperties, WellFormedConcat
<1>4. <<Plain("user")>> \in Seq(Message) /\ WellFormed(<<Plain("user")>>)
  BY <1>1
<1> QED
  BY <1>3, <1>4, ConcatProperties, WellFormedConcat DEF Prompt, IsTranscript

\* A request, the reply with its tool calls and one answer to each of them.
LEMMA ExchangeIsWellFormed ==
  ASSUME NEW d \in Seq(Message), WellFormed(d), NEW ids \in Seq(ToolIds)
  PROVE  LET m == Append(d, AssistantWith(ids)) \o ToolMessages(ids)
         IN  m \in Seq(Message) /\ WellFormed(m)
<1> DEFINE a == <<AssistantWith(ids)>>
           e == a \o ToolMessages(ids)
<1>1. a \in Seq(Message) /\ AssistantWith(ids) \in Message
  BY AssistantMessage
<1>2. /\ e \in Seq(Message) /\ Len(e) = 1 + Len(ids) /\ e[1] = AssistantWith(ids)
      /\ \A k \in 1..Len(ids) : e[1 + k] = ToolMessage(ids[k])
      /\ Len(ids) \in Nat /\ DOMAIN ids = 1..Len(ids) /\ DOMAIN e = 1..(1 + Len(ids))
  <2>1. Len(a) = 1 /\ a[1] = AssistantWith(ids) /\ Len(ids) \in Nat
    OBVIOUS
  <2> QED
    BY <1>1, <2>1, ToolMessageTypes, ConcatProperties, LenProperties
<1>3. Append(d, AssistantWith(ids)) \o ToolMessages(ids) = d \o e
  BY <1>1, ToolMessageTypes, AppendIsConcat, ConcatAssociative
<1> HIDE DEF a, e
<1>4. WellFormed(e)
  <2> SUFFICES ASSUME NEW i \in DOMAIN e
               PROVE  /\ e[i].role = "assistant" =>
                           \A k \in DOMAIN e[i].ids :
                              i + k \in DOMAIN e /\ e[i + k] = ToolMessage(e[i].ids[k])
                      /\ e[i].role = "tool" =>
                           \E j \in 1..(i - 1) :
                              i - j \in DOMAIN e[j].ids /\ e[j].ids[i - j] = e[i].ids[1]
    BY DEF WellFormed
  <2>1. CASE i = 1
    BY <1>2, <2>1 DEF AssistantWith
  <2>2. CASE i # 1
    <3>1. PICK k \in 1..Len(ids) : i = 1 + k
      <4>1. i - 1 \in 1..Len(ids) /\ i = 1 + (i - 1)
        BY <1>2, <2>2
      <4> QED
        BY <4>1
    <3>2. e[i] = ToolMessage(ids[k])
      BY <1>2, <3>1
    <3>3. e[i].role = "tool" /\ e[i].ids[1] = ids[k]
      BY <3>2 DEF ToolMessage
    <3>4. e[1].ids = ids
      BY <1>2 DEF AssistantWith
    <3>5. 1 \in 1..(i - 1) /\ i - 1 = k
      BY <1>2, <3>1
    <3> QED
      BY <1>2, <3>3, <3>4, <3>5
  <2> QED
    BY <2>1, <2>2
<1> QED
  BY <1>2, <1>3, <1>4, WellFormedConcat, ConcatProperties

(***************************************************************************)
(* The inductive invariant                                                 *)
(***************************************************************************)
\* Between two nodes: the transcript is well-formed, and no tool runs.
BetweenNodes ==
    /\ node = "call_llm" => WellFormed(messages) /\ pending = <<>>
    /\ node = "awaiting_llm" => WellFormed(draft) /\ pending = <<>>
    /\ node \in {"call_llm", "awaiting_llm", "respond", "END"} => results = <<>>
    /\ node \notin {"respond", "END"} => iteration < MaxIterations

\* While tools run: the state is the last request and the reply to it, and the
\* calls that ran are the first ones of the reply.
ToolsRunning ==
    node = "execute_tools" =>
        /\ iteration >= 1
        /\ \E n \in 0..MaxToolCalls : pending = Reply(iteration, n)
        /\ WellFormed(draft) /\ messages = Append(draft, AssistantWith(pending))
        /\ Len(results) <= Len(pending)
        /\ \A k \in 1..Len(results) : results[k] = pending[k]

\* A list of tool calls in which no call occurs twice and all are of replies
\* up to the i-th.
Distinct(calls, i) ==
    /\ IsInjective(calls)
    /\ \A k \in DOMAIN calls : calls[k][1] <= i

\* Each tool call is counted once.
CallsDistinct ==
    /\ Distinct(toolCalls, iteration)
    /\ node = "execute_tools" => Distinct(toolCalls, iteration - 1)
    /\ node = "END" => response = toolCalls

GraphInv == GraphTypeOK /\ BetweenNodes /\ ToolsRunning /\ CallsDistinct

LEMMA EmptyIsWellFormed == WellFormed(<<>>)
  BY DEF WellFormed

LEMMA EmptyIsDistinct == Distinct(<<>>, 0)
  BY DEF Distinct, IsInjective

LEMMA GraphInitEstablishes == GraphInit => GraphInv
  BY TurnConstants, EmptyIsWellFormed, EmptyIsDistinct
  DEF GraphInit, GraphInv, GraphTypeOK, Nodes, IsTranscript, BetweenNodes, ToolsRunning, CallsDistinct

LEMMA AskKeepsInv == GraphInv /\ AskLLM => GraphInv'
  BY PromptIsWellFormed
  DEF AskLLM, GraphInv, GraphTypeOK, Nodes, IsTranscript, BetweenNodes, ToolsRunning, CallsDistinct

\* A longer bound keeps a list distinct.
LEMMA DistinctMonotonic ==
  ASSUME NEW s \in Seq(ToolIds), NEW i \in Int, NEW j \in Int, i <= j, Distinct(s, i)
  PROVE  Distinct(s, j)
<1>1. \A k \in DOMAIN s : s[k][1] \in Int
  <2> SUFFICES ASSUME NEW k \in DOMAIN s PROVE s[k][1] \in Int
    OBVIOUS
  <2>1. s[k] \in ToolIds
    BY LenProperties, ElementOfSeq
  <2> QED
    BY <2>1, TurnConstants DEF ToolIds
<1> QED
  BY <1>1 DEF Distinct

LEMMA RepliesKeepInv ==
  ASSUME GraphInv, NEW n \in 0..MaxToolCalls, LLMReplies(n)
  PROVE  GraphInv'
<1> USE TurnConstants DEF GraphInv
<1> DEFINE i == iteration + 1
<1>1. i \in 1..MaxIterations /\ iteration \in 0..MaxIterations
  BY DEF LLMReplies, GraphTypeOK, BetweenNodes
<1>2. Reply(i, n) \in Seq(ToolIds)
  BY <1>1, ReplyIds
<1>3. AssistantWith(Reply(i, n)) \in Message
  BY <1>2, AssistantMessage
<1>4. IsTranscript(messages')
  BY <1>2, <1>3, AppendProperties DEF LLMReplies, GraphTypeOK, IsTranscript
<1>5. node' \in {"execute_tools", "respond"} /\ (node' = "execute_tools" => n > 0 /\ i < MaxIterations)
  BY DEF LLMReplies, RouteAfter
<1>6. GraphTypeOK'
  BY <1>1, <1>2, <1>4, <1>5 DEF LLMReplies, GraphTypeOK, Nodes
<1>7. BetweenNodes'
  BY <1>5 DEF LLMReplies, BetweenNodes
<1>8. ToolsRunning'
  <2>1. results = <<>> /\ WellFormed(draft)
    BY DEF LLMReplies, BetweenNodes
  <2>2. n > 0 => messages' = Append(draft, AssistantWith(pending'))
    BY DEF LLMReplies
  <2>3. Len(pending') \in Nat
    BY <1>2 DEF LLMReplies
  <2> QED
    BY <1>1, <1>5, <2>1, <2>2, <2>3 DEF LLMReplies, ToolsRunning
<1>9. CallsDistinct'
  BY <1>1, <1>5, DistinctMonotonic DEF LLMReplies, CallsDistinct, GraphTypeOK
<1> QED
  BY <1>6, <1>7, <1>8, <1>9

LEMMA RunToolKeepsInv == GraphInv /\ RunTool => GraphInv'
<1> SUFFICES ASSUME GraphInv, RunTool PROVE GraphInv'
  OBVIOUS
<1>1. pending \in Seq(ToolIds) /\ results \in Seq(ToolIds) /\ Len(results) < Len(pending)
  BY DEF GraphInv, GraphTypeOK, RunTool
<1>2. pending[Len(results) + 1] \in ToolIds
  BY <1>1, ElementOfSeq, LenProperties
<1>3. /\ results' \in Seq(ToolIds) /\ Len(results') = Len(results) + 1
      /\ \A k \in 1..Len(results) : results'[k] = results[k]
      /\ results'[Len(results) + 1] = pending[Len(results) + 1]
  BY <1>1, <1>2, AppendProperties DEF RunTool
<1>4. Len(results') <= Len(pending) /\ \A k \in 1..Len(results') : results'[k] = pending[k]
  BY <1>1, <1>3, LenProperties DEF GraphInv, ToolsRunning, RunTool
<1>5. ToolsRunning'
  BY <1>4 DEF GraphInv, ToolsRunning, RunTool
<1> QED
  BY <1>3, <1>5 DEF RunTool, GraphInv, GraphTypeOK, IsTranscript, BetweenNodes, CallsDistinct

LEMMA RaiseKeepsInv == GraphInv /\ (LLMRaises \/ ToolRaises) => GraphInv'
  BY DEF LLMRaises, ToolRaises, GraphInv, GraphTypeOK, Nodes, BetweenNodes, ToolsRunning,
     CallsDistinct

\* The results that a node returns are the calls of its reply.
LEMMA ToolsReturnReply ==
  ASSUME GraphInv, ToolsReturn
  PROVE  results = pending
<1>1. pending \in Seq(ToolIds) /\ results \in Seq(ToolIds) /\ Len(results) = Len(pending)
  BY DEF GraphInv, GraphTypeOK, ToolsReturn
<1>2. \A k \in 1..Len(results) : results[k] = pending[k]
  BY DEF GraphInv, ToolsRunning, ToolsReturn
<1> QED
  BY <1>1, <1>2, SeqEqual

\* Calls of a later reply are not among the calls so far.
LEMMA DistinctExtends ==
  ASSUME NEW s \in Seq(ToolIds), NEW i \in 1..MaxIterations, NEW n \in 0..MaxToolCalls,
         Distinct(s, i - 1)
  PROVE  Distinct(s \o Reply(i, n), i)
<1> DEFINE r == Reply(i, n)
           m == s \o r
<1>1. r \in Seq(ToolIds) /\ Len(r) = n /\ \A k \in 1..n : r[k] = <<i, k>>
  BY ReplyIds
<1> HIDE DEF r
<1>2. /\ Len(s) \in Nat /\ Len(r) \in Nat
      /\ DOMAIN s = 1..Len(s) /\ DOMAIN r = 1..Len(r)
      /\ DOMAIN m = 1..(Len(s) + Len(r))
      /\ \A k \in 1..Len(s) : m[k] = s[k]
      /\ \A k \in (Len(s) + 1)..(Len(s) + Len(r)) :
            k - Len(s) \in 1..Len(r) /\ m[k] = r[k - Len(s)]
  BY <1>1, ConcatIndexes, Zenon
<1> HIDE DEF m
<1>3. \A k \in 1..Len(s) : s[k][1] \in Int /\ s[k][1] <= i - 1
  <2> SUFFICES ASSUME NEW k \in 1..Len(s) PROVE s[k][1] \in Int /\ s[k][1] <= i - 1
    OBVIOUS
  <2>1. s[k] \in ToolIds
    BY ElementOfSeq
  <2>2. s[k][1] \in Int
    BY <2>1, TurnConstants DEF ToolIds
  <2> QED
    BY <1>2, <2>2 DEF Distinct
<1> USE TurnConstants
<1>4. \A k \in (Len(s) + 1)..(Len(s) + Len(r)) : m[k] = <<i, k - Len(s)>>
  BY <1>1, <1>2
<1>5. \A k \in DOMAIN m : m[k][1] <= i
  BY <1>2, <1>3, <1>4
<1>6. ASSUME NEW j \in DOMAIN m, NEW k \in DOMAIN m, m[j] = m[k] PROVE j = k
  <2>1. CASE j <= Len(s) /\ k <= Len(s)
    BY <1>2, <1>6, <2>1 DEF Distinct, IsInjective
  <2>2. CASE j > Len(s) /\ k > Len(s)
    BY <1>2, <1>6, <1>4, <2>2
  <2>3. CASE j <= Len(s) /\ k > Len(s)
    BY <1>2, <1>3, <1>6, <1>4, <2>3
  <2>4. CASE j > Len(s) /\ k <= Len(s)
    BY <1>2, <1>3, <1>6, <1>4, <2>4
  <2> QED
    BY <1>2, <2>1, <2>2, <2>3, <2>4
<1> QED
  BY <1>5, <1>6 DEF Distinct, IsInjective, m, r

LEMMA ToolsReturnKeepsInv == GraphInv /\ ToolsReturn => GraphInv'
<1> SUFFICES ASSUME GraphInv, ToolsReturn PROVE GraphInv'
  OBVIOUS
<1> USE TurnConstants
<1>1. /\ pending \in Seq(ToolIds) /\ toolCalls \in Seq(ToolIds) /\ draft \in Seq(Message)
      /\ WellFormed(draft) /\ messages = Append(draft, AssistantWith(pending))
      /\ iteration \in 1..MaxIterations
  BY DEF GraphInv, GraphTypeOK, IsTranscript, ToolsRunning, ToolsReturn
<1>2. PICK n \in 0..MaxToolCalls : pending = Reply(iteration, n)
  BY DEF GraphInv, ToolsRunning, ToolsReturn
<1>3. messages' = Append(draft, AssistantWith(pending)) \o ToolMessages(pending)
  BY <1>1, ToolsReturnReply DEF ToolsReturn
<1>4. messages' \in Seq(Message) /\ WellFormed(messages')
  BY <1>1, <1>3, ExchangeIsWellFormed
<1>5. toolCalls' = toolCalls \o Reply(iteration, n)
  BY <1>2, ToolsReturnReply DEF ToolsReturn
<1>6. Distinct(toolCalls, iteration - 1)
  BY DEF GraphInv, CallsDistinct, ToolsReturn
<1>7. Distinct(toolCalls', iteration)
  BY <1>1, <1>5, <1>6, DistinctExtends
<1>8. toolCalls' \in Seq(ToolIds)
  BY <1>1, <1>2, <1>5, ConcatProperties
<1>9. GraphTypeOK'
  BY <1>4, <1>8 DEF GraphInv, GraphTypeOK, IsTranscript, Nodes, ToolsReturn
<1>10. BetweenNodes' /\ ToolsRunning' /\ CallsDistinct'
  BY <1>4, <1>7 DEF GraphInv, BetweenNodes, ToolsRunning, CallsDistinct, ToolsReturn
<1> QED
  BY <1>9, <1>10 DEF GraphInv

LEMMA RespondKeepsInv == GraphInv /\ Respond => GraphInv'
  BY DEF Respond, GraphInv, GraphTypeOK, Nodes, BetweenNodes, ToolsRunning, CallsDistinct

LEMMA GraphStepKeepsInv == GraphInv /\ [GraphNext]_graphVars => GraphInv'
<1> SUFFICES ASSUME GraphInv, [GraphNext]_graphVars PROVE GraphInv'
  OBVIOUS
<1>1. CASE UNCHANGED graphVars
  BY <1>1 DEF graphVars, GraphInv, GraphTypeOK, BetweenNodes, ToolsRunning, CallsDistinct
<1> QED
  BY <1>1, AskKeepsInv, RepliesKeepInv, RaiseKeepsInv, RunToolKeepsInv, ToolsReturnKeepsInv,
     RespondKeepsInv DEF GraphNext

LEMMA GraphInvariance == GraphSpec => []GraphInv
  BY GraphInitEstablishes, GraphStepKeepsInv, PTL DEF GraphSpec

\* The state of a turn keeps its types, and the iteration its cap.
THEOREM GraphTypeCorrect == GraphSpec => []GraphTypeOK
  BY GraphInvariance, PTL DEF GraphInv

\* Every request of every turn is a transcript the chat API accepts, whatever
\* tools the LLM asks for (call_llm and execute_tools of agent_graph.py).
THEOREM RequestsWellFormedHolds == GraphSpec => []RequestsWellFormed
<1>1. GraphInv => RequestsWellFormed
  BY DEF GraphInv, BetweenNodes, RequestsWellFormed
<1> QED
  BY <1>1, GraphInvariance, PTL

(***************************************************************************)
(* The turn implements AgentTurn                                           *)
(***************************************************************************)
LEMMA GraphStepImplements ==
  ASSUME GraphInv, [GraphNext]_graphVars
  PROVE  [Turn!TurnNext]_(Turn!turnVars)
<1> USE TurnConstants DEF Turn!TurnNext, Turn!turnVars
<1>1. toolCalls \in Seq(ToolIds) /\ results \in Seq(ToolIds) /\ pending \in Seq(ToolIds)
  BY DEF GraphInv, GraphTypeOK
<1>2. iteration \in 0..MaxIterations /\ (node \notin {"respond", "END"} => iteration < MaxIterations)
  BY DEF GraphInv, GraphTypeOK, BetweenNodes
<1>3. CASE AskLLM
  BY <1>3 DEF AskLLM
<1>4. ASSUME NEW n \in 0..MaxToolCalls, LLMReplies(n) PROVE Turn!Think
  BY <1>2, <1>4 DEF LLMReplies, RouteAfter, Turn!Think
<1>5. CASE LLMRaises \/ ToolRaises
  BY <1>5 DEF LLMRaises, ToolRaises, Turn!Fail
<1>6. CASE RunTool
  <2> DEFINE t == pending[Len(results) + 1]
  <2>1. t \in ToolIds
    BY <1>1, <1>6, ElementOfSeq, LenProperties DEF RunTool
  <2>2. toolCalls \o Append(results, t) = Append(toolCalls \o results, t)
    BY <1>1, <2>1, ConcatAppend
  <2>3. Turn!Act
    BY <1>6, <2>1, <2>2 DEF RunTool, Turn!Act
  <2> QED
    BY <2>3
<1>7. CASE ToolsReturn
  <2>1. toolCalls' \o results' = toolCalls \o results
    <3>1. toolCalls \o results \in Seq(ToolIds)
      BY <1>1, ConcatProperties
    <3>2. (toolCalls \o results) \o <<>> = toolCalls \o results
      BY <3>1, ConcatEmptySeq
    <3> QED
      BY <1>7, <3>2 DEF ToolsReturn
  <2>2. Turn!Resume
    BY <1>2, <1>7, <2>1 DEF ToolsReturn, Turn!Resume
  <2> QED
    BY <2>2
<1>8. CASE Respond
  <2>1. toolCalls \o results = toolCalls
    BY <1>1, <1>8, ConcatEmptySeq DEF Respond, GraphInv, BetweenNodes
  <2>2. Turn!Answer
    BY <1>8, <2>1 DEF Respond, Turn!Answer
  <2> QED
    BY <2>2
<1>9. CASE UNCHANGED graphVars
  BY <1>9 DEF graphVars
<1> QED
  BY <1>3, <1>4, <1>5, <1>6, <1>7, <1>8, <1>9 DEF GraphNext

\* The nodes, each with its copy of the state, make a turn as AgentTurn promises
\* it: at most MaxIterations calls of the LLM, tools only as a reply asks for
\* them, and an answer that lists every tool call of the turn in order.
THEOREM GraphImplementsTurn == GraphSpec => Turn!TurnSpec
<1>1. GraphInit => Turn!TurnInit
  BY DEF GraphInit, Turn!TurnInit
<1>2. GraphInv /\ [GraphNext]_graphVars => [Turn!TurnNext]_(Turn!turnVars)
  BY GraphStepImplements
<1> QED
  BY <1>1, <1>2, GraphInvariance, PTL DEF GraphSpec, Turn!TurnSpec
=============================================================================
