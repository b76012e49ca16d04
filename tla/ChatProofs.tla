---------------------------- MODULE ChatProofs ----------------------------
(***************************************************************************)
(* Proofs about ChatService and ChatPage, for any number of pages, sends,  *)
(* sessions, replicas and restarts.                                        *)
(***************************************************************************)
EXTENDS ChatPage, SequenceTheorems, TLAPS

\* Both messages of every stored exchange are of a finished send that this
\* replica served in this session.
StoredIsDone ==
    \A r \in Replicas, s \in Sessions :
       \A k \in 1..Len(sessions[r][s]) :
          LET i == sessions[r][s][k].send IN
          i \in Sends /\ pc[i] = "done" /\ at[i] = r /\ in[i] = s

\* Until a replica restarts every finished send is in its session.
DoneIsStored ==
    restarts = 0 =>
       \A i \in Sends : pc[i] = "done" =>
          \E k \in 1..Len(sessions[at[i]][in[i]]) :
             sessions[at[i]][in[i]][k] = UserMessage(i)

ChatInv ==
    /\ ChatTypeOK
    /\ StoredIsDone
    /\ Exchanges
    /\ HistoryIsPrefix
    /\ DoneIsStored

(***************************************************************************)
(* Appending an exchange                                                   *)
(***************************************************************************)
\* Session n is session m with the exchange of send i at its end.
Extends(m, n, i, ok) ==
    /\ m \in Seq(Messages) /\ n \in Seq(Messages)
    /\ Len(n) = Len(m) + 2
    /\ \A k \in 1..Len(m) : n[k] = m[k]
    /\ n[Len(m) + 1] = UserMessage(i)
    /\ n[Len(m) + 2] = AssistantMessage(i, ok)

\* Two elements at the end of a sequence.
LEMMA TwoMore ==
    ASSUME NEW M, NEW m \in Seq(M), NEW a \in M, NEW b \in M
    PROVE  /\ m \o <<a, b>> \in Seq(M)
           /\ Len(m \o <<a, b>>) = Len(m) + 2
           /\ \A k \in 1..Len(m) : (m \o <<a, b>>)[k] = m[k]
           /\ (m \o <<a, b>>)[Len(m) + 1] = a
           /\ (m \o <<a, b>>)[Len(m) + 2] = b
<1> DEFINE e == <<a, b>>
<1>1. e \in Seq(M) /\ Len(e) = 2 /\ e[1] = a /\ e[2] = b
  OBVIOUS
<1>2. /\ m \o e \in Seq(M)
      /\ Len(m \o e) = Len(m) + Len(e)
      /\ \A k \in 1..Len(m) + Len(e) :
            (m \o e)[k] = IF k <= Len(m) THEN m[k] ELSE e[k - Len(m)]
  BY <1>1, ConcatProperties, Zenon
<1> HIDE DEF e
<1>3. /\ m \o e \in Seq(M)
      /\ Len(m \o e) = Len(m) + 2
      /\ \A k \in 1..Len(m) : (m \o e)[k] = m[k]
      /\ (m \o e)[Len(m) + 1] = e[1]
      /\ (m \o e)[Len(m) + 2] = e[2]
  BY <1>1, <1>2
<1> QED
  BY <1>1, <1>3 DEF e

\* The session a send finishes in.
LEMMA FinishHere ==
    ASSUME ChatTypeOK, NEW i \in Sends, NEW ok \in BOOLEAN, Finish(i, ok),
           NEW r \in Replicas, NEW s \in Sessions, r = at[i], s = in[i]
    PROVE  Extends(sessions[r][s], sessions'[r][s], i, ok)
<1> DEFINE u == UserMessage(i)
           v == AssistantMessage(i, ok)
           m == sessions[r][s]
           n == sessions'[r][s]
<1>1. u \in Messages /\ v \in Messages /\ m \in Seq(Messages)
  BY DEF UserMessage, AssistantMessage, Messages, ChatTypeOK
<1>2. n = m \o <<u, v>>
  BY DEF Finish, ChatTypeOK
<1>3. Extends(m, n, i, ok) <=>
         /\ m \in Seq(Messages) /\ n \in Seq(Messages)
         /\ Len(n) = Len(m) + 2
         /\ \A k \in 1..Len(m) : n[k] = m[k]
         /\ n[Len(m) + 1] = u
         /\ n[Len(m) + 2] = v
  BY Zenon DEF Extends
<1> HIDE DEF u, v, m, n
<1>4. Extends(m, n, i, ok)
  BY <1>1, <1>2, <1>3, TwoMore
<1> QED
  BY <1>4 DEF m, n

\* Every other session stays as it was.
LEMMA FinishElsewhere ==
    ASSUME ChatTypeOK, NEW i \in Sends, NEW ok \in BOOLEAN, Finish(i, ok),
           NEW r \in Replicas, NEW s \in Sessions, ~(r = at[i] /\ s = in[i])
    PROVE  sessions'[r][s] = sessions[r][s]
BY DEF Finish, ChatTypeOK

\* What a restart leaves of the sessions.
LEMMA RestartEmpties ==
    ASSUME ChatTypeOK, NEW r \in Replicas, Restart(r),
           NEW q \in Replicas, NEW s \in Sessions
    PROVE  sessions'[q][s] = IF q = r THEN <<>> ELSE sessions[q][s]
BY DEF ChatTypeOK, Restart, Empty

\* Steps of agents and sends that start change no session.
Quiet == UNCHANGED <<sessions, at, in, restarts>>

(***************************************************************************)
(* Types                                                                   *)
(***************************************************************************)
LEMMA TypeOfIsType ==
    ASSUME NEW a \in AgentIds
    PROVE  TypeOf(a) \in Types
BY ChatConstants DEF TypeOf

LEMMA TypeStep ==
    ASSUME ChatTypeOK, Next
    PROVE  ChatTypeOK'
<1>1. ASSUME NEW r \in Replicas, NEW a \in AgentIds, NEW t \in Types, CreateAgent(r, a, t)
      PROVE  ChatTypeOK'
  BY <1>1 DEF ChatTypeOK, CreateAgent
<1>2. ASSUME NEW r \in Replicas, NEW a \in AgentIds, DeleteAgent(r, a)
      PROVE  ChatTypeOK'
  BY <1>2 DEF ChatTypeOK, DeleteAgent
<1>3. ASSUME NEW i \in Sends, NEW a \in AgentIds, SendMessage(i, a)
      PROVE  ChatTypeOK'
  BY <1>3, TypeOfIsType DEF ChatTypeOK, SendMessage
<1>4. ASSUME NEW i \in Sends, NEW ok \in BOOLEAN, Finish(i, ok)
      PROVE  ChatTypeOK'
  <2>1. ASSUME NEW r \in Replicas, NEW s \in Sessions
        PROVE  sessions'[r][s] \in Seq(Messages)
    <3>1. CASE r = at[i] /\ s = in[i]
      BY <1>4, <3>1, FinishHere DEF Extends
    <3>2. CASE ~(r = at[i] /\ s = in[i])
      BY <1>4, <3>2, FinishElsewhere DEF ChatTypeOK
    <3> QED
      BY <3>1, <3>2
  <2>2. sessions' \in [Replicas -> [Sessions -> Seq(Messages)]]
    BY <1>4, <2>1 DEF ChatTypeOK, Finish
  <2> QED
    BY <1>4, <2>2 DEF ChatTypeOK, Finish
<1>5. ASSUME NEW r \in Replicas, Restart(r)
      PROVE  ChatTypeOK'
  BY <1>5, ChatConstants DEF ChatTypeOK, Restart, Empty, NoAgents
<1> QED
  BY <1>1, <1>2, <1>3, <1>4, <1>5 DEF Next

(***************************************************************************)
(* Steps that leave the sessions alone                                     *)
(***************************************************************************)
LEMMA QuietStep ==
    ASSUME ChatInv, Quiet,
           \A i \in Sends : pc'[i] = "done" <=> pc[i] = "done"
    PROVE  StoredIsDone' /\ Exchanges' /\ DoneIsStored'
<1>1. StoredIsDone'
  BY DEF ChatInv, StoredIsDone, Quiet
<1>2. Exchanges'
  BY DEF ChatInv, Exchanges, Quiet
<1>3. DoneIsStored'
  BY DEF ChatInv, DoneIsStored, Quiet
<1> QED
  BY <1>1, <1>2, <1>3

\* An agent's coming or going concerns no send.
LEMMA AgentStep ==
    ASSUME ChatInv, Quiet, UNCHANGED <<pc, history>>
    PROVE  StoredIsDone' /\ Exchanges' /\ HistoryIsPrefix' /\ DoneIsStored'
<1>1. \A i \in Sends : pc'[i] = "done" <=> pc[i] = "done"
  OBVIOUS
<1>2. HistoryIsPrefix'
  BY DEF ChatInv, HistoryIsPrefix, Quiet
<1> QED
  BY <1>1, <1>2, QuietStep

\* A send that starts copies its session.
LEMMA SendStep ==
    ASSUME ChatInv, NEW i \in Sends, NEW a \in AgentIds, SendMessage(i, a)
    PROVE  StoredIsDone' /\ Exchanges' /\ HistoryIsPrefix' /\ DoneIsStored'
<1> USE DEF ChatInv
<1>1. Quiet /\ \A j \in Sends : pc'[j] = "done" <=> pc[j] = "done"
  BY DEF SendMessage, Quiet, ChatTypeOK
<1>2. ASSUME NEW j \in Sends, pc'[j] = "waiting"
      PROVE  IsPrefix(history[j], sessions[at[j]][in[j]])'
  <2>1. CASE j = i
    <3>1. history'[i] = sessions[at[i]][in[i]] /\ sessions[at[i]][in[i]] \in Seq(Messages)
      BY DEF SendMessage, ChatTypeOK
    <3>2. UNCHANGED <<sessions, at, in>>
      BY DEF SendMessage
    <3> QED
      BY <2>1, <3>1, <3>2 DEF IsPrefix
  <2>2. CASE j # i
    <3>1. pc[j] = "waiting" /\ history'[j] = history[j]
      BY <1>2, <2>2 DEF SendMessage, ChatTypeOK
    <3>2. UNCHANGED <<sessions, at, in>>
      BY DEF SendMessage
    <3> QED
      BY <3>1, <3>2 DEF HistoryIsPrefix
  <2> QED
    BY <2>1, <2>2
<1>3. HistoryIsPrefix'
  BY <1>2 DEF HistoryIsPrefix
<1> QED
  BY <1>1, <1>3, QuietStep

(***************************************************************************)
(* A send that finishes                                                    *)
(***************************************************************************)
LEMMA FinishStored ==
    ASSUME ChatInv, NEW i \in Sends, NEW ok \in BOOLEAN, Finish(i, ok)
    PROVE  StoredIsDone' /\ DoneIsStored'
<1> USE DEF ChatInv
<1>1. /\ at' = at /\ in' = in /\ restarts' = restarts
      /\ pc[i] = "waiting" /\ pc'[i] = "done"
      /\ \A j \in Sends : j # i => pc'[j] = pc[j]
      /\ \A j \in Sends : at[j] \in Replicas /\ in[j] \in Sessions
  BY DEF Finish, ChatTypeOK
<1>2. ASSUME NEW r \in Replicas, NEW s \in Sessions, NEW k \in 1..Len(sessions'[r][s])
      PROVE  LET j == sessions'[r][s][k].send IN
             j \in Sends /\ pc'[j] = "done" /\ at[j] = r /\ in[j] = s
  <2>1. sessions[r][s] \in Seq(Messages)
    BY DEF ChatTypeOK
  <2>2. CASE k \in 1..Len(sessions[r][s]) /\ sessions'[r][s][k] = sessions[r][s][k]
    BY <1>1, <2>2 DEF StoredIsDone
  <2>3. CASE /\ r = at[i] /\ s = in[i]
             /\ sessions'[r][s][k] \in {UserMessage(i), AssistantMessage(i, ok)}
    BY <1>1, <2>3 DEF UserMessage, AssistantMessage
  <2>4. CASE r = at[i] /\ s = in[i]
    <3>0. Extends(sessions[r][s], sessions'[r][s], i, ok)
      BY <2>4, FinishHere, Zenon
    <3>1. /\ Len(sessions'[r][s]) = Len(sessions[r][s]) + 2
          /\ \A l \in 1..Len(sessions[r][s]) : sessions'[r][s][l] = sessions[r][s][l]
          /\ sessions'[r][s][Len(sessions[r][s]) + 1] = UserMessage(i)
          /\ sessions'[r][s][Len(sessions[r][s]) + 2] = AssistantMessage(i, ok)
      BY <3>0 DEF Extends
    <3>2. Len(sessions[r][s]) \in Nat
      BY <2>1
    <3>3. \/ k \in 1..Len(sessions[r][s])
          \/ k = Len(sessions[r][s]) + 1
          \/ k = Len(sessions[r][s]) + 2
      BY <1>2, <3>1, <3>2
    <3> QED
      BY <2>2, <2>3, <2>4, <3>1, <3>3
  <2>5. CASE ~(r = at[i] /\ s = in[i])
    <3>1. sessions'[r][s] = sessions[r][s]
      BY <2>5, FinishElsewhere
    <3> QED
      BY <1>2, <2>2, <3>1
  <2> QED
    BY <2>4, <2>5
<1>3. StoredIsDone'
  BY <1>1, <1>2 DEF StoredIsDone
<1>4. ASSUME restarts = 0, NEW j \in Sends, pc'[j] = "done"
      PROVE  \E k \in 1..Len(sessions'[at[j]][in[j]]) :
                sessions'[at[j]][in[j]][k] = UserMessage(j)
  <2> DEFINE m == sessions[at[j]][in[j]]
             n == sessions'[at[j]][in[j]]
  <2>1. m \in Seq(Messages) /\ Len(m) \in Nat
    BY DEF ChatTypeOK
  <2>2. CASE at[j] = at[i] /\ in[j] = in[i]
    <3>0. Extends(m, n, i, ok)
      BY <1>1, <2>2, FinishHere, Zenon
    <3>1. /\ Len(n) = Len(m) + 2
          /\ \A l \in 1..Len(m) : n[l] = m[l]
          /\ n[Len(m) + 1] = UserMessage(i)
      BY <3>0 DEF Extends
    <3>2. CASE j = i
      <4>1. Len(m) + 1 \in 1..Len(n)
        BY <2>1, <3>1
      <4> QED
        BY <3>1, <3>2, <4>1
    <3>3. CASE j # i
      <4>0. pc[j] = "done"
        BY <1>1, <1>4, <3>3
      <4>1. PICK k \in 1..Len(m) : m[k] = UserMessage(j)
        BY <1>4, <4>0, Zenon DEF DoneIsStored
      <4>2. n[k] = UserMessage(j)
        BY <3>1, <4>1, Zenon
      <4>3. k \in 1..Len(n)
        BY <2>1, <3>1
      <4> QED
        BY <4>2, <4>3
    <3> QED
      BY <3>2, <3>3
  <2>3. CASE ~(at[j] = at[i] /\ in[j] = in[i])
    <3>1. n = m
      BY <1>1, <2>3, FinishElsewhere
    <3>2. j # i /\ pc[j] = "done"
      BY <1>1, <1>4, <2>3
    <3> QED
      BY <1>4, <3>1, <3>2 DEF DoneIsStored
  <2> QED
    BY <2>2, <2>3
<1>5. DoneIsStored'
  BY <1>1, <1>4 DEF DoneIsStored
<1> QED
  BY <1>3, <1>5

\* What Exchanges says of one session.
Whole(m) ==
    /\ Len(m) % 2 = 0
    /\ \A k \in 1..(Len(m) \div 2) :
          /\ m[2 * k - 1] = UserMessage(m[2 * k].send)
          /\ m[2 * k].role = "assistant"
    /\ \A j, k \in 1..(Len(m) \div 2) : m[2 * j].send = m[2 * k].send => j = k

LEMMA EmptyIsWhole ==
    Whole(<<>>)
BY DEF Whole

LEMMA ExchangesAreWhole ==
    Exchanges <=> \A r \in Replicas, s \in Sessions : Whole(sessions[r][s])
BY DEF Exchanges, Whole

\* One more exchange, of a send that has none in the session yet.
LEMMA ExtendsWhole ==
    ASSUME NEW m, NEW n, NEW i \in Sends, NEW ok \in BOOLEAN, Extends(m, n, i, ok),
           Whole(m), \A k \in 1..Len(m) : m[k].send # i
    PROVE  Whole(n)
<1> DEFINE h == Len(m) \div 2
<1>1. Len(m) \in Nat /\ Len(n) = Len(m) + 2
  BY DEF Extends
<1>2. h \in Nat /\ Len(m) = 2 * h /\ Len(n) % 2 = 0 /\ Len(n) \div 2 = h + 1
  BY <1>1 DEF Whole
<1>3. /\ \A k \in 1..Len(m) : n[k] = m[k]
      /\ n[Len(m) + 1] = UserMessage(i)
      /\ n[Len(m) + 2] = AssistantMessage(i, ok)
  BY DEF Extends
<1>4. n[2 * h + 1] = UserMessage(i) /\ n[2 * h + 2] = AssistantMessage(i, ok)
  BY <1>2, <1>3
<1> HIDE DEF h
<1>5. 2 * (h + 1) - 1 = 2 * h + 1 /\ 2 * (h + 1) = 2 * h + 2
  BY <1>2
<1>6. ASSUME NEW k \in 1..h
      PROVE  /\ 2 * k \in 1..Len(m) /\ 2 * k - 1 \in 1..Len(m)
             /\ n[2 * k] = m[2 * k] /\ n[2 * k - 1] = m[2 * k - 1]
  <2>1. 2 * k \in 1..Len(m) /\ 2 * k - 1 \in 1..Len(m)
    BY <1>2
  <2> QED
    BY <1>3, <2>1
<1>7. AssistantMessage(i, ok).send = i /\ AssistantMessage(i, ok).role = "assistant"
  BY DEF AssistantMessage
<1>8. ASSUME NEW k \in 1..(h + 1)
      PROVE  n[2 * k - 1] = UserMessage(n[2 * k].send) /\ n[2 * k].role = "assistant"
  <2>1. CASE k = h + 1
    BY <1>4, <1>5, <1>7, <2>1
  <2>2. CASE k \in 1..h
    <3>1. m[2 * k - 1] = UserMessage(m[2 * k].send) /\ m[2 * k].role = "assistant"
      BY <2>2 DEF Whole, h
    <3> QED
      BY <1>6, <2>2, <3>1
  <2> QED
    BY <1>2, <2>1, <2>2
<1>9. ASSUME NEW j \in 1..(h + 1), NEW k \in 1..(h + 1), n[2 * j].send = n[2 * k].send
      PROVE  j = k
  <2>1. ASSUME NEW l \in 1..h
        PROVE  n[2 * l].send # i
    BY <1>6
  <2>2. n[2 * (h + 1)].send = i
    BY <1>4, <1>5, <1>7
  <2>3. CASE j \in 1..h /\ k \in 1..h
    <3>1. m[2 * j].send = m[2 * k].send
      BY <1>6, <1>9, <2>3
    <3> QED
      BY <2>3, <3>1 DEF Whole, h
  <2>4. (j \in 1..h \/ j = h + 1) /\ (k \in 1..h \/ k = h + 1)
    BY <1>2
  <2> QED
    BY <1>9, <2>1, <2>2, <2>3, <2>4
<1> QED
  BY <1>2, <1>8, <1>9 DEF Whole

LEMMA FinishWhole ==
    ASSUME ChatInv, NEW i \in Sends, NEW ok \in BOOLEAN, Finish(i, ok)
    PROVE  Exchanges'
<1> USE DEF ChatInv
<1>1. ASSUME NEW r \in Replicas, NEW s \in Sessions
      PROVE  Whole(sessions'[r][s])
  <2>1. Whole(sessions[r][s])
    BY ExchangesAreWhole
  <2>2. CASE r = at[i] /\ s = in[i]
    <3>1. Extends(sessions[r][s], sessions'[r][s], i, ok)
      BY <2>2, FinishHere, Zenon
    <3>2. \A k \in 1..Len(sessions[r][s]) : sessions[r][s][k].send # i
      BY DEF StoredIsDone, Finish
    <3> QED
      BY <2>1, <3>1, <3>2, ExtendsWhole, Zenon
  <2>3. CASE ~(r = at[i] /\ s = in[i])
    BY <2>1, <2>3, FinishElsewhere
  <2> QED
    BY <2>2, <2>3
<1> QED
  BY <1>1 DEF Exchanges, Whole

\* A prefix of a session is a prefix of what the session becomes.
LEMMA PrefixOfExtended ==
    ASSUME NEW p \in Seq(Messages), NEW m, NEW n, NEW i \in Sends, NEW ok \in BOOLEAN,
           Extends(m, n, i, ok), IsPrefix(p, m)
    PROVE  IsPrefix(p, n)
<1>1. /\ m \in Seq(Messages) /\ n \in Seq(Messages)
      /\ Len(p) \in Nat /\ Len(m) \in Nat /\ Len(n) = Len(m) + 2
      /\ \A k \in 1..Len(m) : n[k] = m[k]
  BY DEF Extends
<1>2. Len(p) <= Len(m) /\ SubSeq(p, 1, Len(p)) = SubSeq(m, 1, Len(p))
  BY DEF IsPrefix
<1>3. SubSeq(m, 1, Len(p)) = SubSeq(n, 1, Len(p))
  <2>1. \A k \in 1..Len(p) : m[k] = n[k]
    BY <1>1, <1>2
  <2>2. /\ SubSeq(m, 1, Len(p)) = [k \in 1..Len(p) |-> m[k]]
        /\ SubSeq(n, 1, Len(p)) = [k \in 1..Len(p) |-> n[k]]
    BY <1>1, <1>2
  <2> QED
    BY <2>1, <2>2
<1> QED
  BY <1>1, <1>2, <1>3 DEF IsPrefix

LEMMA FinishPrefix ==
    ASSUME ChatInv, NEW i \in Sends, NEW ok \in BOOLEAN, Finish(i, ok)
    PROVE  HistoryIsPrefix'
<1> USE DEF ChatInv
<1>1. ASSUME NEW j \in Sends, pc'[j] = "waiting"
      PROVE  IsPrefix(history'[j], sessions'[at'[j]][in'[j]])
  <2>1. /\ pc[j] = "waiting"
        /\ history' = history /\ at' = at /\ in' = in
        /\ history[j] \in Seq(Messages)
        /\ at[j] \in Replicas /\ in[j] \in Sessions
    BY <1>1 DEF Finish, ChatTypeOK
  <2>2. IsPrefix(history[j], sessions[at[j]][in[j]])
    BY <2>1 DEF HistoryIsPrefix
  <2>3. CASE at[j] = at[i] /\ in[j] = in[i]
    <3>1. Extends(sessions[at[j]][in[j]], sessions'[at[j]][in[j]], i, ok)
      BY <2>1, <2>3, FinishHere, Zenon
    <3>2. IsPrefix(history[j], sessions'[at[j]][in[j]])
      BY <2>1, <2>2, <3>1, PrefixOfExtended, Zenon
    <3> QED
      BY <2>1, <3>2
  <2>4. CASE ~(at[j] = at[i] /\ in[j] = in[i])
    BY <2>1, <2>2, <2>4, FinishElsewhere
  <2> QED
    BY <2>3, <2>4
<1> QED
  BY <1>1 DEF HistoryIsPrefix

(***************************************************************************)
(* A replica that restarts                                                 *)
(***************************************************************************)
LEMMA RestartStep ==
    ASSUME ChatInv, NEW r \in Replicas, Restart(r)
    PROVE  StoredIsDone' /\ Exchanges' /\ HistoryIsPrefix' /\ DoneIsStored'
<1> USE DEF ChatInv
<1>1. /\ at' = at /\ in' = in /\ history' = history
      /\ restarts' = restarts + 1 /\ restarts \in Nat
      /\ \A i \in Sends : pc'[i] = IF pc[i] = "waiting" /\ at[i] = r THEN "lost" ELSE pc[i]
      /\ \A i \in Sends : at[i] \in Replicas /\ in[i] \in Sessions
  BY ChatConstants DEF Restart, ChatTypeOK
<1>2. ASSUME NEW q \in Replicas, NEW s \in Sessions
      PROVE  \/ sessions'[q][s] = <<>>
             \/ q # r /\ sessions'[q][s] = sessions[q][s]
  BY RestartEmpties
<1>3. StoredIsDone'
  <2>1. ASSUME NEW q \in Replicas, NEW s \in Sessions, NEW k \in 1..Len(sessions'[q][s])
        PROVE  LET i == sessions'[q][s][k].send IN
               i \in Sends /\ pc'[i] = "done" /\ at[i] = q /\ in[i] = s
    <3>1. sessions'[q][s] = sessions[q][s]
      BY <1>2
    <3> QED
      BY <1>1, <3>1 DEF StoredIsDone
  <2> QED
    BY <1>1, <2>1 DEF StoredIsDone
<1>4. Exchanges'
  <2>1. ASSUME NEW q \in Replicas, NEW s \in Sessions
        PROVE  Whole(sessions'[q][s])
    <3>1. Whole(<<>>)
      BY EmptyIsWhole
    <3>2. Whole(sessions[q][s])
      BY ExchangesAreWhole
    <3> QED
      BY <1>2, <3>1, <3>2, Zenon
  <2> QED
    BY <2>1 DEF Exchanges, Whole
<1>5. HistoryIsPrefix'
  <2>1. ASSUME NEW i \in Sends, pc'[i] = "waiting"
        PROVE  IsPrefix(history[i], sessions'[at[i]][in[i]])
    <3>1. pc[i] = "waiting" /\ at[i] # r
      BY <1>1, <2>1
    <3>2. sessions'[at[i]][in[i]] = sessions[at[i]][in[i]]
      BY <1>1, <3>1, RestartEmpties
    <3> QED
      BY <3>1, <3>2 DEF HistoryIsPrefix
  <2> QED
    BY <1>1, <2>1 DEF HistoryIsPrefix
<1>6. DoneIsStored'
  BY <1>1 DEF DoneIsStored
<1> QED
  BY <1>3, <1>4, <1>5, <1>6

(***************************************************************************)
(* The invariant and the theorems                                          *)
(***************************************************************************)
LEMMA ChatInit ==
    Init => ChatInv
<1> SUFFICES ASSUME Init PROVE ChatInv
  OBVIOUS
<1>1. ChatTypeOK
  BY ChatConstants DEF Init, ChatTypeOK, Empty, NoAgents
<1>2. \A r \in Replicas, s \in Sessions : sessions[r][s] = <<>>
  BY DEF Init, Empty
<1>3. \A i \in Sends : pc[i] = "new"
  BY DEF Init
<1>4. StoredIsDone /\ HistoryIsPrefix /\ DoneIsStored
  BY <1>2, <1>3 DEF StoredIsDone, HistoryIsPrefix, DoneIsStored
<1>5. Whole(<<>>)
  BY EmptyIsWhole
<1>6. Exchanges
  BY <1>2, <1>5, ExchangesAreWhole, Zenon
<1> QED
  BY <1>1, <1>4, <1>6 DEF ChatInv

LEMMA ChatStep ==
    ChatInv /\ [Next]_vars => ChatInv'
<1> SUFFICES ASSUME ChatInv, [Next]_vars PROVE ChatInv'
  OBVIOUS
<1>1. CASE UNCHANGED vars
  <2>1. ChatTypeOK'
    BY <1>1 DEF vars, ChatInv, ChatTypeOK
  <2>2. Quiet /\ UNCHANGED <<pc, history>>
    BY <1>1 DEF vars, Quiet
  <2> QED
    BY <2>1, <2>2, AgentStep DEF ChatInv
<1>2. CASE Next
  <2> DEFINE Rest == StoredIsDone' /\ Exchanges' /\ HistoryIsPrefix' /\ DoneIsStored'
  <2>1. ChatTypeOK'
    BY <1>2, TypeStep DEF ChatInv
  <2>2. ASSUME NEW r \in Replicas, NEW a \in AgentIds, NEW t \in Types, CreateAgent(r, a, t)
        PROVE  Rest
    <3>1. Quiet /\ UNCHANGED <<pc, history>>
      BY <2>2 DEF CreateAgent, Quiet
    <3> QED
      BY <3>1, AgentStep
  <2>3. ASSUME NEW r \in Replicas, NEW a \in AgentIds, DeleteAgent(r, a)
        PROVE  Rest
    <3>1. Quiet /\ UNCHANGED <<pc, history>>
      BY <2>3 DEF DeleteAgent, Quiet
    <3> QED
      BY <3>1, AgentStep
  <2>4. ASSUME NEW i \in Sends, NEW a \in AgentIds, SendMessage(i, a)
        PROVE  Rest
    BY <2>4, SendStep
  <2>5. ASSUME NEW i \in Sends, NEW ok \in BOOLEAN, Finish(i, ok)
        PROVE  Rest
    BY <2>5, FinishStored, FinishWhole, FinishPrefix
  <2>6. ASSUME NEW r \in Replicas, Restart(r)
        PROVE  Rest
    BY <2>6, RestartStep
  <2>7. Rest
    BY <1>2, <2>2, <2>3, <2>4, <2>5, <2>6 DEF Next
  <2> QED
    BY <2>1, <2>7 DEF ChatInv
<1> QED
  BY <1>1, <1>2

LEMMA ChatInvariance == Spec => []ChatInv
BY ChatInit, ChatStep, PTL DEF Spec

\* Sessions are lists of messages and everything else keeps its type.
THEOREM ChatTypeCorrect == Spec => []ChatTypeOK
BY ChatInvariance, PTL DEF ChatInv

\* However many sends overlap, a session is a list of whole exchanges, each of
\* another send.
THEOREM ExchangesHold == Spec => []Exchanges
BY ChatInvariance, PTL DEF ChatInv

\* What the engine was told stays the beginning of the conversation for as long
\* as the send waits.
THEOREM HistoryIsPrefixHolds == Spec => []HistoryIsPrefix
BY ChatInvariance, PTL DEF ChatInv

\* Until its replica restarts, a send tells the engine of every exchange that is
\* finished there.
THEOREM ReplicaRemembersHolds == Spec => ReplicaRemembers
<1> DEFINE Told ==
       \A i \in Sends : pc[i] = "new" /\ pc'[i] = "waiting" =>
          \A j \in Sends :
             pc[j] = "done" /\ in[j] = in[i] /\ at[j] = at[i] /\ restarts = 0
                => UserMessage(j) \in Range(history'[i])
<1>1. ASSUME ChatInv, Next
      PROVE  Told
  <2> SUFFICES ASSUME NEW i \in Sends, pc[i] = "new", pc'[i] = "waiting",
                      NEW j \in Sends, pc[j] = "done", in[j] = in[i], at[j] = at[i],
                      restarts = 0
               PROVE  UserMessage(j) \in Range(history'[i])
    OBVIOUS
  <2>1. ChatTypeOK /\ DoneIsStored
    BY <1>1 DEF ChatInv
  <2>2. history'[i] = sessions[at[i]][in[i]]
    <3>1. ASSUME NEW k \in Sends, NEW a \in AgentIds, SendMessage(k, a)
          PROVE  history'[i] = sessions[at[i]][in[i]]
      BY <2>1, <3>1 DEF SendMessage, ChatTypeOK
    <3>2. ASSUME NEW k \in Sends, NEW ok \in BOOLEAN, Finish(k, ok)
          PROVE  FALSE
      BY <2>1, <3>2 DEF Finish, ChatTypeOK
    <3>3. ASSUME NEW r \in Replicas, Restart(r)
          PROVE  FALSE
      BY <2>1, <3>3 DEF Restart, ChatTypeOK
    <3>4. ASSUME NEW r \in Replicas, NEW a \in AgentIds,
                 DeleteAgent(r, a) \/ \E t \in Types : CreateAgent(r, a, t)
          PROVE  FALSE
      BY <3>4 DEF DeleteAgent, CreateAgent
    <3> QED
      BY <1>1, <3>1, <3>2, <3>3, <3>4 DEF Next
  <2>3. PICK k \in 1..Len(sessions[at[i]][in[i]]) :
           sessions[at[i]][in[i]][k] = UserMessage(j)
    BY <2>1 DEF DoneIsStored
  <2>4. k \in DOMAIN history'[i] /\ history'[i][k] = UserMessage(j)
    BY <2>1, <2>2, <2>3 DEF ChatTypeOK
  <2> QED
    BY <2>4 DEF Range
<1>2. ASSUME ChatInv, UNCHANGED vars
      PROVE  Told
  BY <1>2 DEF vars
<1>3. ChatInv /\ [Next]_vars => [Told]_vars
  BY <1>1, <1>2
<1> QED
  BY ChatInvariance, <1>3, PTL DEF Spec, ReplicaRemembers

(***************************************************************************)
(* Pages                                                                   *)
(***************************************************************************)
LEMMA PageStepIsStep ==
    ASSUME [PageNext]_allVars
    PROVE  [Next]_vars
<1>1. CASE UNCHANGED allVars
  BY <1>1 DEF allVars
<1>2. CASE PageNext
  <2>1. ASSUME NEW p \in Pages, NEW i \in Sends,
               Ask(p, i) \/ Receive(p, i) \/ FetchFails(p, i)
        PROVE  UNCHANGED vars
    BY <2>1 DEF Ask, Receive, FetchFails, FetchOver
  <2>2. ASSUME NEW p \in Pages, SwitchAgent(p) \/ Mount(p)
        PROVE  UNCHANGED vars
    BY <2>2 DEF SwitchAgent, Mount
  <2>3. ASSUME NEW i \in Sends, Arrive(i) \/ \E a \in AgentIds : OtherClient(i, a)
        PROVE  Next
    BY <2>3, ChatConstants DEF Arrive, OtherClient, Next
  <2>4. ASSUME Gateway
        PROVE  Next
    BY <2>4 DEF Gateway, Next
  <2> QED
    BY <1>2, <2>1, <2>2, <2>3, <2>4, Zenon DEF PageNext
<1> QED
  BY <1>1, <1>2

\* To the gateway, pages are clients like any other: every behaviour of pages,
\* gateway and other clients is one of ChatService.
THEOREM PageImplementsService == PageSpec => Spec
<1>1. PageInit => Init
  BY DEF PageInit
<1> QED
  BY <1>1, PageStepIsStep, PTL DEF PageSpec, Spec

\* Questions and what came of them by turns, after the given number of strays.
Turns(m, sid, stray) ==
    /\ stray <= Len(m)
    /\ \A k \in 1..stray : m[k].part # "question" /\ in[m[k].send] # sid
    /\ \A k \in (stray + 1)..Len(m) :
          IF (k - stray) % 2 = 1
          THEN m[k].part = "question" /\ in[m[k].send] = sid
          ELSE m[k].part # "question" /\ m[k].send = m[k - 1].send

\* What a page awaits: the answer to its last question, or one of an earlier
\* conversation, before it has asked anything in this one.
Awaits(m, sid, stray, f) ==
    /\ f = {} => (Len(m) - stray) % 2 = 0
    /\ \A i \in f : \/ in[i] = sid /\ (Len(m) - stray) % 2 = 1 /\ m[Len(m)].send = i
                    \/ in[i] # sid /\ m = <<>>

PageOK(p) ==
    /\ sessionId[p] \in taken
    /\ fetches[p] \subseteq asked
    /\ loading[p] <=> fetches[p] # {}
    /\ \A i, j \in fetches[p] : i = j
    /\ \E stray \in 0..1 :
          /\ Turns(messages[p], sessionId[p], stray)
          /\ Awaits(messages[p], sessionId[p], stray, fetches[p])

PageInv ==
    /\ PageTypeOK
    /\ \A p \in Pages : PageOK(p)
    /\ \A i \in asked : in[i] \in taken

LEMMA BooleanUpdate ==
    ASSUME NEW f \in [Pages -> BOOLEAN], NEW p \in Pages,
           NEW g, NEW b \in BOOLEAN, g = [f EXCEPT ![p] = b]
    PROVE  g \in [Pages -> BOOLEAN]
BY Zenon

LEMMA PageTypeStep ==
    ASSUME PageTypeOK, [PageNext]_allVars
    PROVE  PageTypeOK' /\ in' = in
<1>1. ChatTypeOK' /\ in' = in
  <2>1. [Next]_vars
    BY PageStepIsStep
  <2>2. CASE Next
    BY <2>2, TypeStep DEF PageTypeOK, Next, CreateAgent, DeleteAgent, SendMessage, Finish, Restart
  <2>3. CASE UNCHANGED vars
    BY <2>3 DEF PageTypeOK, ChatTypeOK, vars
  <2> QED
    BY <2>1, <2>2, <2>3
<1>2. CASE UNCHANGED pageVars
  BY <1>1, <1>2 DEF PageTypeOK, pageVars
<1>3. ASSUME NEW p \in Pages, NEW i \in Sends, NEW part \in {"question", "answer", "error"},
             Show(p, part, i)
      PROVE  messages' \in [Pages -> Seq(Shown)]
  <2>1. [part |-> part, send |-> i] \in Shown
    BY DEF Shown
  <2>2. messages[p] \in Seq(Shown)
    BY DEF PageTypeOK
  <2>3. Append(messages[p], [part |-> part, send |-> i]) \in Seq(Shown)
    BY <2>1, <2>2, AppendProperties
  <2> QED
    BY <1>3, <2>3 DEF Show, PageTypeOK
<1>4. ASSUME NEW p \in Pages, NEW i \in Sends,
             Ask(p, i) \/ Receive(p, i) \/ FetchFails(p, i)
      PROVE  PageTypeOK'
  <2>1. messages' \in [Pages -> Seq(Shown)]
    BY <1>3, <1>4, Zenon DEF Ask, Receive, FetchFails, FetchOver
  <2>2. loading' \in [Pages -> BOOLEAN]
    <3>1. \E b \in BOOLEAN : loading' = [loading EXCEPT ![p] = b]
      BY <1>4, Zenon DEF Ask, Receive, FetchFails, FetchOver
    <3> QED
      BY <3>1, BooleanUpdate DEF PageTypeOK
  <2>3. fetches' \in [Pages -> SUBSET Sends] /\ asked' \subseteq Sends
    <3>1. \E f \in SUBSET Sends : fetches' = [fetches EXCEPT ![p] = f]
      <4>1. fetches[p] \union {i} \in SUBSET Sends /\ fetches[p] \ {i} \in SUBSET Sends
        BY DEF PageTypeOK
      <4> QED
        BY <1>4, <4>1, Zenon DEF Ask, Receive, FetchFails, FetchOver
    <3>2. asked' = asked \/ asked' = asked \union {i}
      BY <1>4, Zenon DEF Ask, Receive, FetchFails, FetchOver
    <3> QED
      BY <3>1, <3>2 DEF PageTypeOK
  <2>4. sessionId' = sessionId /\ taken' = taken
    BY <1>4 DEF Ask, Receive, FetchFails, FetchOver
  <2> QED
    BY <1>1, <2>1, <2>2, <2>3, <2>4 DEF PageTypeOK
<1>5. ASSUME NEW p \in Pages, SwitchAgent(p) \/ Mount(p)
      PROVE  PageTypeOK'
  <2>1. PICK s \in Sessions :
           /\ sessionId' = [sessionId EXCEPT ![p] = s]
           /\ taken' = taken \union {s}
           /\ messages' = [messages EXCEPT ![p] = <<>>]
    BY <1>5 DEF SwitchAgent, Mount, NewSession
  <2>2. loading' \in [Pages -> BOOLEAN]
    <3>1. loading' = loading \/ \E b \in BOOLEAN : loading' = [loading EXCEPT ![p] = b]
      BY <1>5, Zenon DEF SwitchAgent, Mount
    <3> QED
      BY <3>1, BooleanUpdate DEF PageTypeOK
  <2>3. fetches' \in [Pages -> SUBSET Sends] /\ asked' = asked
    BY <1>5 DEF PageTypeOK, SwitchAgent, Mount
  <2>4. sessionId' \in [Pages -> Sessions] /\ taken' \subseteq Sessions
    BY <2>1 DEF PageTypeOK
  <2>5. messages' \in [Pages -> Seq(Shown)]
    <3>1. <<>> \in Seq(Shown)
      OBVIOUS
    <3> QED
      BY <2>1, <3>1 DEF PageTypeOK
  <2> QED
    BY <1>1, <2>2, <2>3, <2>4, <2>5 DEF PageTypeOK
<1>6. PageTypeOK'
  <2>1. CASE UNCHANGED allVars
    BY <1>2, <2>1 DEF allVars
  <2>2. ASSUME NEW i \in Sends, Arrive(i) \/ \E a \in AgentIds : OtherClient(i, a)
        PROVE  PageTypeOK'
    BY <1>2, <2>2 DEF Arrive, OtherClient
  <2>3. ASSUME Gateway
        PROVE  PageTypeOK'
    BY <1>2, <2>3 DEF Gateway
  <2> QED
    BY <1>4, <1>5, <2>1, <2>2, <2>3, Zenon DEF PageNext
<1> QED
  BY <1>1, <1>6

\* The next message of a page.
LEMMA TurnsGrow ==
    ASSUME NEW m \in Seq(Shown), NEW x \in Shown, NEW sid, NEW stray \in 0..1,
           Turns(m, sid, stray),
           (Len(m) - stray) % 2 = 0 => x.part = "question" /\ in[x.send] = sid,
           (Len(m) - stray) % 2 = 1 => x.part # "question" /\ x.send = m[Len(m)].send
    PROVE  Turns(Append(m, x), sid, stray)
<1> DEFINE n == Append(m, x)
<1>1. /\ Len(m) \in Nat /\ Len(n) = Len(m) + 1
      /\ \A k \in 1..Len(m) : n[k] = m[k]
      /\ n[Len(m) + 1] = x
  BY AppendProperties
<1> HIDE DEF n
<1>2. stray <= Len(n) /\ \A k \in 1..stray : k \in 1..Len(m)
  BY <1>1 DEF Turns
<1>3. ASSUME NEW k \in (stray + 1)..Len(m)
      PROVE  IF (k - stray) % 2 = 1
             THEN n[k].part = "question" /\ in[n[k].send] = sid
             ELSE n[k].part # "question" /\ n[k].send = n[k - 1].send
  <2>1. k \in 1..Len(m) /\ n[k] = m[k]
    BY <1>1
  <2>2. CASE (k - stray) % 2 = 1
    BY <2>1, <2>2 DEF Turns
  <2>3. CASE (k - stray) % 2 # 1
    <3>1. k - 1 \in 1..Len(m)
      BY <2>3
    <3>2. n[k - 1] = m[k - 1]
      BY <1>1, <3>1
    <3> QED
      BY <2>1, <2>3, <3>2 DEF Turns
  <2> QED
    BY <2>2, <2>3
<1>4. LET k == Len(m) + 1 IN
      IF (k - stray) % 2 = 1
      THEN n[k].part = "question" /\ in[n[k].send] = sid
      ELSE n[k].part # "question" /\ n[k].send = n[k - 1].send
  <2>1. CASE (Len(m) - stray) % 2 = 0
    <3>1. (Len(m) + 1 - stray) % 2 = 1
      BY <1>1, <2>1
    <3> QED
      BY <1>1, <2>1, <3>1
  <2>2. CASE (Len(m) - stray) % 2 = 1
    <3>1. (Len(m) + 1 - stray) % 2 # 1 /\ Len(m) \in 1..Len(m) /\ Len(m) + 1 - 1 = Len(m)
      BY <1>1, <2>2 DEF Turns
    <3> QED
      BY <1>1, <2>2, <3>1
  <2> QED
    BY <1>1, <2>1, <2>2
<1>5. \A k \in 1..stray : n[k].part # "question" /\ in[n[k].send] # sid
  BY <1>1, <1>2 DEF Turns
<1>6. \A k \in (stray + 1)..Len(n) : k \in (stray + 1)..Len(m) \/ k = Len(m) + 1
  BY <1>1
<1>7. Turns(n, sid, stray)
  BY <1>2, <1>3, <1>4, <1>5, <1>6 DEF Turns
<1> QED
  BY <1>7 DEF n

\* What other pages and the gateway do.
LEMMA Undisturbed ==
    ASSUME NEW p \in Pages, PageOK(p), in' = in,
           sessionId'[p] = sessionId[p], messages'[p] = messages[p],
           loading'[p] = loading[p], fetches'[p] = fetches[p],
           taken \subseteq taken', asked \subseteq asked'
    PROVE  PageOK(p)'
<1>1. PICK stray \in 0..1 : /\ Turns(messages[p], sessionId[p], stray)
                            /\ Awaits(messages[p], sessionId[p], stray, fetches[p])
  BY DEF PageOK
<1>2. /\ Turns(messages[p], sessionId[p], stray)'
      /\ Awaits(messages[p], sessionId[p], stray, fetches[p])'
  BY <1>1 DEF Turns, Awaits
<1>3. /\ sessionId'[p] \in taken'
      /\ fetches'[p] \subseteq asked'
      /\ \A i, j \in fetches'[p] : i = j
  BY DEF PageOK
<1>4. loading'[p] <=> fetches'[p] # {}
  BY Zenon DEF PageOK
<1> QED
  BY <1>2, <1>3, <1>4, Zenon DEF PageOK

LEMMA Parity ==
    ASSUME NEW n \in Nat, NEW s \in 0..1, s <= n
    PROVE  (n - s) % 2 = 0 <=> (n + 1 - s) % 2 = 1
<1>1. CASE s = 0
  BY <1>1
<1>2. CASE s = 1
  BY <1>2
<1> QED
  BY <1>1, <1>2

LEMMA AskStep ==
    ASSUME PageInv, NEW p \in Pages, NEW i \in Sends, Ask(p, i)
    PROVE  PageOK(p)'
<1> DEFINE m == messages[p]
           x == [part |-> "question", send |-> i]
<1>1. /\ PageTypeOK /\ PageOK(p)
      /\ m \in Seq(Shown) /\ x \in Shown /\ Len(m) \in Nat
      /\ x.part = "question" /\ x.send = i
  <2>1. PageTypeOK /\ PageOK(p)
    BY DEF PageInv
  <2>2. m \in Seq(Shown) /\ Len(m) \in Nat
    BY <2>1 DEF PageTypeOK
  <2>3. x \in Shown
    BY DEF Shown
  <2>4. x.part = "question" /\ x.send = i
    OBVIOUS
  <2> QED
    BY <2>1, <2>2, <2>3, <2>4
<1>2. fetches[p] = {} /\ in[i] = sessionId[p]
  <2>1. ~loading[p] /\ in[i] = sessionId[p]
    BY Zenon DEF Ask
  <2> QED
    BY <1>1, <2>1, Zenon DEF PageOK
<1>3. /\ in' = in /\ sessionId' = sessionId /\ taken' = taken
      /\ messages'[p] = Append(m, x)
      /\ fetches'[p] = {i} /\ asked' = asked \union {i}
  BY <1>1, <1>2 DEF Ask, Show, vars, PageTypeOK
<1>4. loading'[p] = TRUE
  BY <1>1, Zenon DEF Ask, PageTypeOK
<1>5. PICK stray \in 0..1 : Turns(m, sessionId[p], stray) /\ Awaits(m, sessionId[p], stray, {})
  BY <1>1, <1>2 DEF PageOK
<1> HIDE DEF m, x
<1>6. (Len(m) - stray) % 2 = 0 /\ stray <= Len(m) /\ Len(m) \in Nat
  <2>1. (Len(m) - stray) % 2 = 0
    BY <1>5 DEF Awaits
  <2> QED
    BY <1>1, <1>5, <2>1 DEF Turns
<1>7. Turns(Append(m, x), sessionId[p], stray)
  <2>1. x.part = "question" /\ in[x.send] = sessionId[p] /\ (Len(m) - stray) % 2 # 1
    BY <1>1, <1>2, <1>6
  <2> QED
    BY <1>1, <1>5, <1>6, <2>1, TurnsGrow
<1>8. Awaits(Append(m, x), sessionId[p], stray, {i})
  <2>1. Len(Append(m, x)) = Len(m) + 1 /\ Append(m, x)[Len(m) + 1] = x
    BY <1>1, AppendProperties
  <2>2. (Len(m) + 1 - stray) % 2 = 1
    BY <1>6, Parity
  <2> QED
    BY <1>1, <1>2, <2>1, <2>2 DEF Awaits
<1>9. /\ Turns(messages[p], sessionId[p], stray)'
      /\ Awaits(messages[p], sessionId[p], stray, fetches[p])'
  BY <1>3, <1>7, <1>8 DEF Turns, Awaits, m, x
<1>10. /\ sessionId'[p] \in taken'
       /\ fetches'[p] \subseteq asked'
       /\ \A j, k \in fetches'[p] : j = k
  BY <1>1, <1>3 DEF PageOK
<1>11. loading'[p] <=> fetches'[p] # {}
  BY <1>3, <1>4
<1> QED
  BY <1>9, <1>10, <1>11, Zenon DEF PageOK

LEMMA FetchStep ==
    ASSUME PageInv, NEW p \in Pages, NEW i \in Sends, NEW part \in {"answer", "error"},
           FetchOver(p, i, part)
    PROVE  PageOK(p)'
<1> DEFINE m == messages[p]
           x == [part |-> part, send |-> i]
<1>1. /\ PageTypeOK /\ PageOK(p)
      /\ m \in Seq(Shown) /\ x \in Shown /\ Len(m) \in Nat
      /\ x.part = part /\ x.send = i
  <2>1. PageTypeOK /\ PageOK(p)
    BY DEF PageInv
  <2>2. m \in Seq(Shown) /\ Len(m) \in Nat
    BY <2>1 DEF PageTypeOK
  <2>3. x \in Shown
    BY DEF Shown
  <2>4. x.part = part /\ x.send = i
    OBVIOUS
  <2> QED
    BY <2>1, <2>2, <2>3, <2>4
<1>2. fetches[p] = {i}
  BY <1>1 DEF FetchOver, PageOK
<1>3. /\ in' = in /\ sessionId' = sessionId /\ taken' = taken
      /\ messages'[p] = Append(m, x)
      /\ fetches'[p] = {} /\ asked' = asked
  BY <1>1, <1>2 DEF FetchOver, Show, vars, PageTypeOK
<1>4. loading'[p] = FALSE
  BY <1>1, Zenon DEF FetchOver, PageTypeOK
<1>5. PICK stray \in 0..1 :
         Turns(m, sessionId[p], stray) /\ Awaits(m, sessionId[p], stray, {i})
  BY <1>1, <1>2 DEF PageOK
<1> HIDE DEF m, x
<1>6. Len(Append(m, x)) = Len(m) + 1 /\ Append(m, x)[Len(m) + 1] = x /\ Len(m) \in Nat
  BY <1>1, AppendProperties
<1>7. \E s \in 0..1 : /\ Turns(Append(m, x), sessionId[p], s)
                      /\ (Len(Append(m, x)) - s) % 2 = 0
  <2>1. CASE in[i] = sessionId[p] /\ (Len(m) - stray) % 2 = 1 /\ m[Len(m)].send = i
    <3>1. x.part # "question" /\ x.send = m[Len(m)].send /\ (Len(m) - stray) % 2 # 0
      BY <1>1, <2>1
    <3>2. Turns(Append(m, x), sessionId[p], stray)
      BY <1>1, <1>5, <3>1, TurnsGrow
    <3>3. (Len(m) + 1 - stray) % 2 = 0
      <4>1. stray <= Len(m)
        BY <1>5 DEF Turns
      <4> QED
        BY <1>6, <2>1, <4>1, Parity
    <3> QED
      BY <1>6, <3>2, <3>3
  <2>2. CASE in[i] # sessionId[p] /\ m = <<>>
    <3>1. Append(m, x) = <<x>>
      BY <1>1, <2>2
    <3>2. Turns(<<x>>, sessionId[p], 1)
      <4>1. Len(<<x>>) = 1 /\ <<x>>[1] = x
        OBVIOUS
      <4>2. x.part # "question" /\ in[x.send] # sessionId[p]
        BY <1>1, <2>2
      <4> QED
        BY <4>1, <4>2 DEF Turns
    <3>3. (Len(<<x>>) - 1) % 2 = 0 /\ 1 \in 0..1
      OBVIOUS
    <3> QED
      BY <3>1, <3>2, <3>3, Zenon
  <2> QED
    BY <1>5, <2>1, <2>2 DEF Awaits
<1>8. PICK s \in 0..1 : /\ Turns(Append(m, x), sessionId[p], s)
                        /\ (Len(Append(m, x)) - s) % 2 = 0
  BY <1>7
<1>9. /\ Turns(messages[p], sessionId[p], s)'
      /\ Awaits(messages[p], sessionId[p], s, fetches[p])'
  BY <1>3, <1>8 DEF Turns, Awaits, m, x
<1>10. /\ sessionId'[p] \in taken'
       /\ fetches'[p] \subseteq asked'
       /\ \A j, k \in fetches'[p] : j = k
  BY <1>1, <1>3 DEF PageOK
<1>11. loading'[p] <=> fetches'[p] # {}
  BY <1>3, <1>4
<1> QED
  BY <1>9, <1>10, <1>11, Zenon DEF PageOK

LEMMA SwitchStep ==
    ASSUME PageInv, NEW p \in Pages, SwitchAgent(p) \/ Mount(p)
    PROVE  PageOK(p)'
<1>1. PageTypeOK /\ PageOK(p)
  BY DEF PageInv
<1>2. PICK s \in Sessions \ taken :
         /\ sessionId' = [sessionId EXCEPT ![p] = s]
         /\ taken' = taken \union {s}
         /\ messages' = [messages EXCEPT ![p] = <<>>]
  BY DEF SwitchAgent, Mount, NewSession
<1>3. /\ sessionId'[p] = s /\ messages'[p] = <<>>
      /\ in' = in /\ asked' = asked
      /\ fetches'[p] = fetches[p] \/ fetches'[p] = {}
  BY <1>1, <1>2 DEF PageTypeOK, SwitchAgent, Mount, vars
<1>4. loading'[p] <=> fetches'[p] # {}
  <2>1. CASE SwitchAgent(p)
    <3>1. loading' = loading /\ fetches' = fetches
      BY <2>1, Zenon DEF SwitchAgent
    <3> QED
      BY <1>1, <3>1, Zenon DEF PageOK
  <2>2. CASE Mount(p)
    <3>1. loading'[p] = FALSE
      BY <1>1, <2>2, Zenon DEF Mount, PageTypeOK
    <3>2. fetches'[p] = {}
      BY <1>1, <2>2 DEF Mount, PageTypeOK
    <3> QED
      BY <3>1, <3>2
  <2> QED
    BY <2>1, <2>2
<1>5. /\ sessionId'[p] \in taken'
      /\ fetches'[p] \subseteq asked'
      /\ \A j, k \in fetches'[p] : j = k
  BY <1>1, <1>2, <1>3 DEF PageOK
<1>6. \A i \in fetches'[p] : in[i] # s
  BY <1>1, <1>2, <1>3 DEF PageInv, PageOK
<1>7. /\ Turns(messages[p], sessionId[p], 0)'
      /\ Awaits(messages[p], sessionId[p], 0, fetches[p])'
  BY <1>3, <1>6 DEF Turns, Awaits
<1>8. 0 \in 0..1
  OBVIOUS
<1> QED
  BY <1>4, <1>5, <1>7, <1>8, Zenon DEF PageOK

LEMMA PageInvInit ==
    PageInit => PageInv
<1> SUFFICES ASSUME PageInit PROVE PageInv
  OBVIOUS
<1>1. ChatTypeOK
  BY ChatInit DEF PageInit, ChatInv
<1>2. loading = [p \in Pages |-> FALSE] /\ loading \in [Pages -> BOOLEAN]
  BY Zenon DEF PageInit
<1>3. /\ sessionId \in [Pages -> Sessions] /\ fetches = [p \in Pages |-> {}]
      /\ messages = [p \in Pages |-> <<>>] /\ asked = {}
      /\ taken = {sessionId[p] : p \in Pages}
  BY DEF PageInit, Range
<1>4. <<>> \in Seq(Shown)
  OBVIOUS
<1>5. PageTypeOK
  BY <1>1, <1>2, <1>3, <1>4 DEF PageTypeOK
<1>6. ASSUME NEW p \in Pages
      PROVE  PageOK(p)
  <2>1. /\ sessionId[p] \in taken
        /\ fetches[p] = {} /\ messages[p] = <<>>
    BY <1>3
  <2>2. loading[p] <=> fetches[p] # {}
    BY <1>2, <2>1
  <2>3. Turns(<<>>, sessionId[p], 0) /\ Awaits(<<>>, sessionId[p], 0, {}) /\ 0 \in 0..1
    BY DEF Turns, Awaits
  <2> QED
    BY <2>1, <2>2, <2>3, Zenon DEF PageOK
<1> QED
  BY <1>3, <1>5, <1>6 DEF PageInv

LEMMA PageInvStep ==
    PageInv /\ [PageNext]_allVars => PageInv'
<1> SUFFICES ASSUME PageInv, [PageNext]_allVars PROVE PageInv'
  OBVIOUS
<1> USE DEF PageInv
<1>1. PageTypeOK' /\ in' = in
  BY PageTypeStep
<1> DEFINE Rest == (\A p \in Pages : PageOK(p)') /\ \A i \in asked' : in'[i] \in taken'
<1>2. ASSUME UNCHANGED pageVars
      PROVE  Rest
  <2>1. \A p \in Pages : PageOK(p)'
    BY <1>1, <1>2, Undisturbed DEF pageVars
  <2> QED
    BY <1>1, <1>2, <2>1 DEF pageVars
<1>3. ASSUME NEW p \in Pages, NEW i \in Sends,
             Ask(p, i) \/ Receive(p, i) \/ FetchFails(p, i)
      PROVE  Rest
  <2>1. PageOK(p)'
    BY <1>3, AskStep, FetchStep DEF Receive, FetchFails
  <2>2. ASSUME NEW q \in Pages, q # p
        PROVE  PageOK(q)'
    <3>1. /\ sessionId'[q] = sessionId[q] /\ messages'[q] = messages[q]
          /\ fetches'[q] = fetches[q]
          /\ taken \subseteq taken' /\ asked \subseteq asked'
      BY <1>3, <2>2 DEF PageTypeOK, Ask, Receive, FetchFails, FetchOver, Show
    <3>2. loading'[q] = loading[q]
      BY <1>3, <2>2, Zenon DEF PageTypeOK, Ask, Receive, FetchFails, FetchOver
    <3> QED
      BY <1>1, <3>1, <3>2, Undisturbed
  <2>3. /\ taken' = taken
        /\ asked' \subseteq asked \union {i}
        /\ i \in asked \/ in[i] \in taken
    BY <1>3 DEF Ask, Receive, FetchFails, FetchOver, PageOK
  <2> QED
    BY <1>1, <2>1, <2>2, <2>3
<1>4. ASSUME NEW p \in Pages, SwitchAgent(p) \/ Mount(p)
      PROVE  Rest
  <2>1. PageOK(p)'
    BY <1>4, SwitchStep
  <2>2. ASSUME NEW q \in Pages, q # p
        PROVE  PageOK(q)'
    <3>1. /\ sessionId'[q] = sessionId[q] /\ messages'[q] = messages[q]
          /\ fetches'[q] = fetches[q]
          /\ taken \subseteq taken' /\ asked \subseteq asked'
      BY <1>4, <2>2 DEF PageTypeOK, SwitchAgent, Mount, NewSession
    <3>2. loading'[q] = loading[q]
      BY <1>4, <2>2, Zenon DEF PageTypeOK, SwitchAgent, Mount
    <3> QED
      BY <1>1, <3>1, <3>2, Undisturbed
  <2>3. taken \subseteq taken' /\ asked' = asked
    BY <1>4 DEF SwitchAgent, Mount, NewSession
  <2> QED
    BY <1>1, <2>1, <2>2, <2>3
<1>5. Rest
  <2>1. CASE UNCHANGED allVars
    BY <1>2, <2>1 DEF allVars
  <2>2. ASSUME NEW i \in Sends, Arrive(i) \/ \E a \in AgentIds : OtherClient(i, a)
        PROVE  Rest
    BY <1>2, <2>2 DEF Arrive, OtherClient
  <2>3. ASSUME Gateway
        PROVE  Rest
    BY <1>2, <2>3 DEF Gateway
  <2> QED
    BY <1>3, <1>4, <2>1, <2>2, <2>3, Zenon DEF PageNext
<1> QED
  BY <1>1, <1>5

LEMMA PageInvariance == PageSpec => []PageInv
BY PageInvInit, PageInvStep, PTL DEF PageSpec

\* Pages and gateway keep their types.
THEOREM PageTypeCorrect == PageSpec => []PageTypeOK
BY PageInvariance, PTL DEF PageInv

\* A page shows questions and what came of them by turns, with at most one stray
\* answer before them, however many pages there are and whatever gets lost.
THEOREM PageAlternatesHolds == PageSpec => []PageAlternates
<1>1. PageInv => PageAlternates
  <2> SUFFICES ASSUME PageInv, NEW p \in Pages
               PROVE  \E stray \in 0..1 : Turns(messages[p], sessionId[p], stray)
    BY Zenon DEF PageAlternates, Turns
  <2> QED
    BY DEF PageInv, PageOK
<1> QED
  BY PageInvariance, <1>1, PTL

(***************************************************************************)
(* What a page shows and what its session holds                            *)
(***************************************************************************)
HoldsAnswer(session, i) == \E k \in 1..Len(session) : AnswerAt(session, k, i)
InOrder(session, x, y) ==
    \E a, b \in 1..Len(session) : a < b /\ AnswerAt(session, a, x) /\ AnswerAt(session, b, y)

\* Until a replica restarts every finished send has its answer in its session.
DoneIsAnswered ==
    restarts = 0 =>
       \A i \in Sends : pc[i] = "done" => HoldsAnswer(sessions[at[i]][in[i]], i)

ShownIsDone ==
    \A p \in Pages : \A k \in 1..Len(messages[p]) :
       messages[p][k].part = "answer" => pc[messages[p][k].send] = "done"

ShownInOrder ==
    restarts = 0 =>
       \A p \in Pages : \A j, k \in 1..Len(messages[p]) :
          LET x == messages[p][j].send
              y == messages[p][k].send IN
          j < k /\ Answered(p, j) /\ Answered(p, k) /\ at[x] = at[y]
             => InOrder(sessions[at[x]][sessionId[p]], x, y)

\* The answer that a page still awaits comes after those it shows.
NextInOrder ==
    restarts = 0 =>
       \A p \in Pages : \A k \in 1..Len(messages[p]) : \A y \in fetches[p] :
          LET x == messages[p][k].send IN
          Answered(p, k) /\ in[y] = sessionId[p] /\ at[x] = at[y] /\ pc[y] = "done"
             => InOrder(sessions[at[x]][sessionId[p]], x, y)

FollowInv == DoneIsAnswered /\ ShownIsDone /\ ShownInOrder /\ NextInOrder

\* A session that gets an exchange keeps its answers in order, and the new answer
\* is the last.
LEMMA ExtendsOrder ==
    ASSUME NEW m, NEW n, NEW i, NEW ok, Extends(m, n, i, ok)
    PROVE  /\ \A x : HoldsAnswer(m, x) => HoldsAnswer(n, x) /\ InOrder(n, x, i)
           /\ \A x, y : InOrder(m, x, y) => InOrder(n, x, y)
           /\ HoldsAnswer(n, i)
<1>1. /\ Len(m) \in Nat /\ Len(n) = Len(m) + 2
      /\ \A k \in 1..Len(m) : k \in 1..Len(n) /\ n[k] = m[k] /\ k < Len(m) + 2
      /\ Len(m) + 2 \in 1..Len(n)
  BY DEF Extends
<1>2. AnswerAt(n, Len(m) + 2, i)
  BY DEF Extends, AnswerAt, AssistantMessage
<1>3. \A k \in 1..Len(m) : \A x : AnswerAt(m, k, x) => AnswerAt(n, k, x)
  BY <1>1 DEF AnswerAt
<1>4. \A x : HoldsAnswer(m, x) => HoldsAnswer(n, x) /\ InOrder(n, x, i)
  BY <1>1, <1>2, <1>3, Zenon DEF HoldsAnswer, InOrder
<1>5. \A x, y : InOrder(m, x, y) => InOrder(n, x, y)
  BY <1>1, <1>3, Zenon DEF InOrder
<1>6. HoldsAnswer(n, i)
  BY <1>1, <1>2, Zenon DEF HoldsAnswer
<1> QED
  BY <1>4, <1>5, <1>6

\* What a step of the gateway does to answers while no replica restarts.
Grows ==
    /\ \A i \in Sends : pc[i] = "done" => pc'[i] = "done"
    /\ restarts' = 0 =>
          /\ restarts = 0
          /\ \A r \in Replicas, s \in Sessions :
                /\ \A x : HoldsAnswer(sessions[r][s], x) => HoldsAnswer(sessions'[r][s], x)
                /\ \A x, y : InOrder(sessions[r][s], x, y) => InOrder(sessions'[r][s], x, y)
          /\ \A i \in Sends : pc'[i] = "done" /\ pc[i] # "done" =>
                /\ HoldsAnswer(sessions'[at[i]][in[i]], i)
                /\ \A x : HoldsAnswer(sessions[at[i]][in[i]], x)
                          => InOrder(sessions'[at[i]][in[i]], x, i)

LEMMA StepGrows ==
    ASSUME ChatTypeOK, [Next]_vars
    PROVE  Grows /\ at' = at /\ in' = in
<1>1. ASSUME Quiet, \A i \in Sends : pc'[i] = "done" <=> pc[i] = "done"
      PROVE  Grows /\ at' = at /\ in' = in
  BY <1>1 DEF Quiet, Grows
<1>2. CASE UNCHANGED vars
  BY <1>1, <1>2 DEF vars, Quiet
<1>3. ASSUME NEW r \in Replicas, NEW a \in AgentIds,
             DeleteAgent(r, a) \/ \E t \in Types : CreateAgent(r, a, t)
      PROVE  Grows /\ at' = at /\ in' = in
  <2>1. Quiet /\ pc' = pc
    BY <1>3 DEF DeleteAgent, CreateAgent, Quiet
  <2> QED
    BY <1>1, <2>1
<1>4. ASSUME NEW i \in Sends, NEW a \in AgentIds, SendMessage(i, a)
      PROVE  Grows /\ at' = at /\ in' = in
  <2>1. Quiet /\ \A j \in Sends : pc'[j] = "done" <=> pc[j] = "done"
    BY <1>4 DEF SendMessage, Quiet, ChatTypeOK
  <2> QED
    BY <1>1, <2>1
<1>5. ASSUME NEW i \in Sends, NEW ok \in BOOLEAN, Finish(i, ok)
      PROVE  Grows /\ at' = at /\ in' = in
  <2>1. /\ at' = at /\ in' = in /\ restarts' = restarts
        /\ at[i] \in Replicas /\ in[i] \in Sessions
        /\ \A j \in Sends : pc'[j] = IF j = i THEN "done" ELSE pc[j]
    BY <1>5 DEF Finish, ChatTypeOK
  <2>2. Extends(sessions[at[i]][in[i]], sessions'[at[i]][in[i]], i, ok)
    BY <1>5, <2>1, FinishHere
  <2>3. ASSUME NEW r \in Replicas, NEW s \in Sessions
        PROVE  /\ \A x : HoldsAnswer(sessions[r][s], x) => HoldsAnswer(sessions'[r][s], x)
               /\ \A x, y : InOrder(sessions[r][s], x, y) => InOrder(sessions'[r][s], x, y)
    <3>1. CASE r = at[i] /\ s = in[i]
      BY <2>2, <3>1, ExtendsOrder
    <3>2. CASE ~(r = at[i] /\ s = in[i])
      <4>1. sessions'[r][s] = sessions[r][s]
        BY <1>5, <3>2, FinishElsewhere
      <4> QED
        BY <4>1
    <3> QED
      BY <3>1, <3>2
  <2>4. /\ HoldsAnswer(sessions'[at[i]][in[i]], i)
        /\ \A x : HoldsAnswer(sessions[at[i]][in[i]], x) => InOrder(sessions'[at[i]][in[i]], x, i)
    BY <2>2, ExtendsOrder
  <2> QED
    BY <2>1, <2>3, <2>4 DEF Grows
<1>6. ASSUME NEW r \in Replicas, Restart(r)
      PROVE  Grows /\ at' = at /\ in' = in
  <2>1. /\ at' = at /\ in' = in /\ restarts' # 0
        /\ \A i \in Sends : pc[i] = "done" => pc'[i] = "done"
    BY <1>6, ChatConstants DEF Restart, ChatTypeOK
  <2> QED
    BY <2>1 DEF Grows
<1> QED
  BY <1>2, <1>3, <1>4, <1>5, <1>6 DEF Next

LEMMA DoneStaysAnswered ==
    ASSUME PageTypeOK, DoneIsAnswered, Grows, at' = at, in' = in
    PROVE  DoneIsAnswered'
<1>1. \A i \in Sends : at[i] \in Replicas /\ in[i] \in Sessions
  BY DEF PageTypeOK, ChatTypeOK
<1> QED
  BY <1>1 DEF DoneIsAnswered, Grows

\* A page that did nothing shows what it showed.
LEMMA FollowUndisturbed ==
    ASSUME PageTypeOK, FollowInv, Grows, at' = at, in' = in, NEW p \in Pages,
           sessionId'[p] = sessionId[p], messages'[p] = messages[p]
    PROVE  /\ \A k \in 1..Len(messages'[p]) :
                messages'[p][k].part = "answer" => pc'[messages'[p][k].send] = "done"
           /\ restarts' = 0 =>
                \A j, k \in 1..Len(messages'[p]) :
                   LET x == messages'[p][j].send
                       y == messages'[p][k].send IN
                   j < k /\ Answered(p, j)' /\ Answered(p, k)' /\ at'[x] = at'[y]
                      => InOrder(sessions'[at'[x]][sessionId'[p]], x, y)
           /\ restarts' = 0 =>
                \A k \in 1..Len(messages'[p]) : \A y \in fetches[p] :
                   LET x == messages'[p][k].send IN
                   Answered(p, k)' /\ in'[y] = sessionId'[p] /\ at'[x] = at'[y] /\ pc'[y] = "done"
                      => InOrder(sessions'[at'[x]][sessionId'[p]], x, y)
<1>1. /\ \A i \in Sends : at[i] \in Replicas /\ in[i] \in Sessions
      /\ \A k \in 1..Len(messages[p]) : messages[p][k].send \in Sends
      /\ sessionId[p] \in Sessions /\ fetches[p] \subseteq Sends
  <2>1. messages[p] \in Seq(Shown)
    BY DEF PageTypeOK
  <2>2. \A k \in 1..Len(messages[p]) : messages[p][k] \in Shown
    BY <2>1
  <2> QED
    BY <2>2 DEF PageTypeOK, ChatTypeOK, Shown
<1>2. \A k : Answered(p, k)' <=> Answered(p, k)
  BY DEF Answered
<1>3. \A k \in 1..Len(messages[p]) :
         messages[p][k].part = "answer" => pc[messages[p][k].send] = "done"
  BY DEF FollowInv, ShownIsDone
<1>4. \A k \in 1..Len(messages'[p]) :
         messages'[p][k].part = "answer" => pc'[messages'[p][k].send] = "done"
  BY <1>1, <1>3 DEF Grows
<1>5. ASSUME restarts' = 0, NEW j \in 1..Len(messages[p]), NEW k \in 1..Len(messages[p]),
             j < k, Answered(p, j), Answered(p, k),
             at[messages[p][j].send] = at[messages[p][k].send]
      PROVE  InOrder(sessions'[at[messages[p][j].send]][sessionId[p]],
                     messages[p][j].send, messages[p][k].send)
  <2>1. restarts = 0
    BY <1>5 DEF Grows
  <2>2. InOrder(sessions[at[messages[p][j].send]][sessionId[p]],
                messages[p][j].send, messages[p][k].send)
    BY <1>5, <2>1 DEF FollowInv, ShownInOrder
  <2> DEFINE x == messages[p][j].send
             y == messages[p][k].send
  <2>3. /\ InOrder(sessions[at[x]][sessionId[p]], x, y)
        /\ at[x] \in Replicas /\ sessionId[p] \in Sessions
    BY <1>1, <2>2
  <2> HIDE DEF x, y
  <2>4. InOrder(sessions'[at[x]][sessionId[p]], x, y)
    BY <1>5, <2>3 DEF Grows
  <2> QED
    BY <2>4 DEF x, y
<1>6. ASSUME restarts' = 0, NEW k \in 1..Len(messages[p]), NEW y \in fetches[p],
             Answered(p, k), in[y] = sessionId[p],
             at[messages[p][k].send] = at[y], pc'[y] = "done"
      PROVE  InOrder(sessions'[at[messages[p][k].send]][sessionId[p]], messages[p][k].send, y)
  <2> DEFINE x == messages[p][k].send
  <2>1. /\ restarts = 0 /\ x \in Sends /\ y \in Sends
        /\ at[x] \in Replicas /\ sessionId[p] \in Sessions
        /\ pc[x] = "done" /\ in[x] = sessionId[p] /\ at[x] = at[y]
    BY <1>1, <1>3, <1>6 DEF Grows, Answered
  <2>2. CASE pc[y] = "done"
    <3>1. InOrder(sessions[at[x]][sessionId[p]], x, y)
      BY <1>6, <2>1, <2>2 DEF FollowInv, NextInOrder
    <3> HIDE DEF x
    <3>2. InOrder(sessions'[at[x]][sessionId[p]], x, y)
      BY <1>6, <2>1, <3>1 DEF Grows
    <3> QED
      BY <3>2 DEF x
  <2>3. CASE pc[y] # "done"
    <3> HIDE DEF x
    <3>1. HoldsAnswer(sessions[at[x]][in[x]], x)
      BY <2>1 DEF FollowInv, DoneIsAnswered
    <3>2. InOrder(sessions'[at[y]][in[y]], x, y)
      BY <1>6, <2>1, <2>3, <3>1 DEF Grows
    <3> QED
      BY <1>6, <2>1, <3>2 DEF x
  <2> QED
    BY <2>2, <2>3
<1> QED
  BY <1>2, <1>4, <1>5, <1>6

LEMMA FollowStep ==
    ASSUME PageInv, FollowInv, [PageNext]_allVars
    PROVE  FollowInv'
<1> DEFINE PageShows(p) ==
             \A k \in 1..Len(messages[p]) :
                messages[p][k].part = "answer" => pc[messages[p][k].send] = "done"
           PageOrders(p) ==
             restarts = 0 =>
                \A j, k \in 1..Len(messages[p]) :
                   LET x == messages[p][j].send
                       y == messages[p][k].send IN
                   j < k /\ Answered(p, j) /\ Answered(p, k) /\ at[x] = at[y]
                      => InOrder(sessions[at[x]][sessionId[p]], x, y)
           PageAwaits(p) ==
             restarts = 0 =>
                \A k \in 1..Len(messages[p]) : \A y \in fetches[p] :
                   LET x == messages[p][k].send IN
                   Answered(p, k) /\ in[y] = sessionId[p] /\ at[x] = at[y] /\ pc[y] = "done"
                      => InOrder(sessions[at[x]][sessionId[p]], x, y)
           Follows(p) == PageShows(p) /\ PageOrders(p) /\ PageAwaits(p)
<1>1. /\ PageTypeOK /\ ChatTypeOK
      /\ Grows /\ at' = at /\ in' = in
  BY PageStepIsStep, StepGrows DEF PageInv, PageTypeOK
<1>2. DoneIsAnswered'
  BY <1>1, DoneStaysAnswered DEF FollowInv
<1>3. ASSUME NEW p \in Pages, sessionId'[p] = sessionId[p], messages'[p] = messages[p],
             fetches'[p] \subseteq fetches[p]
      PROVE  Follows(p)'
  BY <1>1, <1>3, FollowUndisturbed
<1>4. ASSUME NEW p \in Pages, messages'[p] = <<>>
      PROVE  Follows(p)'
  BY <1>4
\* The page shows one more message, which concerns the send it awaits.
<1> DEFINE More(p, x) ==
             /\ UNCHANGED vars /\ sessionId'[p] = sessionId[p]
             /\ Len(messages'[p]) = Len(messages[p]) + 1
             /\ \A k \in 1..Len(messages[p]) : messages'[p][k] = messages[p][k]
             /\ messages'[p][Len(messages[p]) + 1] = x
<1>5. ASSUME NEW p \in Pages, NEW i \in Sends, NEW part \in {"question", "answer", "error"},
             Show(p, part, i), UNCHANGED <<vars, sessionId>>
      PROVE  More(p, [part |-> part, send |-> i]) /\ Len(messages[p]) \in Nat
  <2> DEFINE x == [part |-> part, send |-> i]
  <2>1. messages[p] \in Seq(Shown) /\ x \in Shown
    BY <1>1 DEF PageTypeOK, Shown
  <2>2. messages'[p] = Append(messages[p], x)
    BY <1>1, <1>5 DEF PageTypeOK, Show
  <2> HIDE DEF x
  <2>3. /\ Len(messages'[p]) = Len(messages[p]) + 1
        /\ \A k \in 1..Len(messages[p]) : messages'[p][k] = messages[p][k]
        /\ messages'[p][Len(messages[p]) + 1] = x
        /\ Len(messages[p]) \in Nat
    BY <2>1, <2>2, AppendProperties
  <2> QED
    BY <1>5, <2>3 DEF x
<1>6. ASSUME NEW p \in Pages, NEW i \in Sends, NEW part \in {"question", "answer", "error"},
             More(p, [part |-> part, send |-> i]), Len(messages[p]) \in Nat,
             part = "answer" => pc[i] = "done" /\ i \in fetches[p],
             \A y \in fetches'[p] : pc[y] # "done"
      PROVE  Follows(p)'
  <2> DEFINE x == [part |-> part, send |-> i]
             n == Len(messages[p]) + 1
             m == messages[p]
  <2>1. x.part = part /\ x.send = i
    OBVIOUS
  <2>2. /\ pc' = pc /\ restarts' = restarts /\ sessions' = sessions
        /\ sessionId'[p] = sessionId[p]
        /\ Len(messages'[p]) = n /\ messages'[p][n] = x
        /\ \A k \in 1..Len(m) : messages'[p][k] = m[k]
        /\ \A k \in 1..n : k \in 1..Len(m) \/ k = n
    BY <1>6 DEF vars
  <2> HIDE DEF x
  <2>3. \A k \in 1..Len(m) : Answered(p, k)' <=> Answered(p, k)
    BY <1>1, <2>2 DEF Answered
  <2>4. PageShows(p)'
    <3>1. \A k \in 1..Len(m) : m[k].part = "answer" => pc[m[k].send] = "done"
      BY DEF FollowInv, ShownIsDone
    <3> QED
      BY <1>6, <2>1, <2>2, <3>1
  <2>5. ASSUME restarts = 0, NEW j \in 1..n, NEW k \in 1..n, j < k,
               Answered(p, j)', Answered(p, k)',
               at[messages'[p][j].send] = at[messages'[p][k].send]
        PROVE  InOrder(sessions[at[messages'[p][j].send]][sessionId[p]],
                       messages'[p][j].send, messages'[p][k].send)
    <3>1. j \in 1..Len(m) /\ messages'[p][j] = m[j] /\ Answered(p, j)
      BY <1>6, <2>2, <2>3, <2>5
    <3>2. CASE k \in 1..Len(m)
      <4>1. messages'[p][k] = m[k] /\ Answered(p, k)
        BY <2>2, <2>3, <2>5, <3>2
      <4> QED
        BY <2>5, <3>1, <3>2, <4>1 DEF FollowInv, ShownInOrder
    <3>3. CASE k = n
      <4>1. messages'[p][k] = x /\ part = "answer" /\ in[i] = sessionId[p]
        BY <1>1, <2>1, <2>2, <2>5, <3>3 DEF Answered
      <4>2. i \in fetches[p] /\ pc[i] = "done" /\ at[m[j].send] = at[i]
        BY <1>6, <2>1, <2>5, <3>1, <4>1
      <4>3. InOrder(sessions[at[m[j].send]][sessionId[p]], m[j].send, i)
        BY <2>5, <3>1, <4>1, <4>2 DEF FollowInv, NextInOrder
      <4> QED
        BY <2>1, <3>1, <4>1, <4>3
    <3> QED
      BY <2>2, <3>2, <3>3
  <2>6. PageOrders(p)'
    BY <1>1, <2>2, <2>5
  <2>7. PageAwaits(p)'
    BY <1>6, <2>2
  <2> HIDE DEF PageShows, PageOrders, PageAwaits
  <2> QED
    BY <2>4, <2>6, <2>7
<1> HIDE DEF More
<1>7. ASSUME NEW p \in Pages, NEW i \in Sends, Ask(p, i)
      PROVE  Follows(p)'
  <2>1. More(p, [part |-> "question", send |-> i]) /\ Len(messages[p]) \in Nat
    BY <1>5, <1>7 DEF Ask
  <2>2. fetches[p] = {}
    <3>1. ~loading[p]
      BY <1>7, Zenon DEF Ask
    <3>2. loading[p] <=> fetches[p] # {}
      BY Zenon DEF PageInv, PageOK
    <3> QED
      BY <3>1, <3>2, Zenon
  <2>3. \A y \in fetches'[p] : pc[y] # "done"
    BY <1>1, <1>7, <2>2 DEF Ask, PageTypeOK
  <2> HIDE DEF Follows
  <2> QED
    BY <1>6, <2>1, <2>3
<1>8. ASSUME NEW p \in Pages, NEW i \in Sends, Receive(p, i) \/ FetchFails(p, i)
      PROVE  Follows(p)'
  <2>1. PICK part \in {"answer", "error"} :
           FetchOver(p, i, part) /\ (part = "answer" => pc[i] = "done")
    BY <1>8 DEF Receive, FetchFails
  <2>2. More(p, [part |-> part, send |-> i]) /\ Len(messages[p]) \in Nat
    BY <1>5, <2>1 DEF FetchOver
  <2>3. i \in fetches[p] /\ fetches'[p] = fetches[p] \ {i}
    BY <1>1, <2>1 DEF FetchOver, PageTypeOK
  <2>4. fetches'[p] = {}
    BY <2>3 DEF PageInv, PageOK
  <2> HIDE DEF Follows
  <2> QED
    BY <1>6, <2>1, <2>2, <2>3, <2>4
<1>9. ASSUME NEW p \in Pages
      PROVE  Follows(p)'
  <2>1. CASE UNCHANGED pageVars
    BY <1>3, <2>1 DEF pageVars
  <2>2. ASSUME NEW q \in Pages, NEW i \in Sends, Ask(q, i) \/ Receive(q, i) \/ FetchFails(q, i)
        PROVE  Follows(p)'
    <3>1. CASE p = q
      BY <1>7, <1>8, <2>2, <3>1, Zenon
    <3>2. CASE p # q
      <4>1. /\ sessionId'[p] = sessionId[p] /\ messages'[p] = messages[p]
            /\ fetches'[p] = fetches[p]
        BY <1>1, <2>2, <3>2 DEF PageTypeOK, Ask, Receive, FetchFails, FetchOver, Show
      <4> QED
        BY <1>3, <4>1
    <3> QED
      BY <3>1, <3>2
  <2>3. ASSUME NEW q \in Pages, SwitchAgent(q) \/ Mount(q)
        PROVE  Follows(p)'
    <3>1. CASE p = q
      <4>1. messages'[p] = <<>>
        BY <1>1, <2>3, <3>1 DEF PageTypeOK, SwitchAgent, Mount, NewSession
      <4> QED
        BY <1>4, <4>1
    <3>2. CASE p # q
      <4>1. /\ sessionId'[p] = sessionId[p] /\ messages'[p] = messages[p]
            /\ fetches'[p] = fetches[p]
        BY <1>1, <2>3, <3>2 DEF PageTypeOK, SwitchAgent, Mount, NewSession
      <4> QED
        BY <1>3, <4>1
    <3> QED
      BY <3>1, <3>2
  <2>4. CASE UNCHANGED allVars
    BY <2>1, <2>4 DEF allVars
  <2>5. ASSUME NEW i \in Sends, Arrive(i) \/ \E a \in AgentIds : OtherClient(i, a)
        PROVE  Follows(p)'
    BY <2>1, <2>5 DEF Arrive, OtherClient
  <2>6. ASSUME Gateway
        PROVE  Follows(p)'
    BY <2>1, <2>6 DEF Gateway
  <2> HIDE DEF Follows
  <2> QED
    BY <2>2, <2>3, <2>4, <2>5, <2>6, Zenon DEF PageNext
<1> QED
  BY <1>2, <1>9 DEF FollowInv, ShownIsDone, ShownInOrder, NextInOrder

LEMMA FollowInit == PageInit => FollowInv
<1> SUFFICES ASSUME PageInit PROVE FollowInv
  OBVIOUS
<1>1. /\ \A i \in Sends : pc[i] = "new"
      /\ \A p \in Pages : messages[p] = <<>>
  BY DEF PageInit, Init
<1>2. \A p \in Pages : Len(messages[p]) = 0
  BY <1>1
<1> QED
  BY <1>1, <1>2 DEF FollowInv, DoneIsAnswered, ShownIsDone, ShownInOrder, NextInOrder

\* What a page was answered is in its session of the replica that answered, in the
\* order the page shows it, for any number of pages, clients, sends and replicas.
THEOREM PageFollowsSessionHolds == PageSpec => []PageFollowsSession
<1>1. PageInv /\ FollowInv /\ [PageNext]_allVars => FollowInv'
  BY FollowStep
<1>2. PageInv /\ FollowInv => PageFollowsSession
  <2> SUFFICES ASSUME PageInv, FollowInv, restarts = 0, NEW p \in Pages,
                      NEW j \in DOMAIN messages[p], NEW k \in DOMAIN messages[p],
                      Answered(p, j), Answered(p, k),
                      at[messages[p][j].send] = at[messages[p][k].send]
               PROVE  LET x == messages[p][j].send
                          y == messages[p][k].send
                          session == sessions[at[x]][sessionId[p]] IN
                      \E a, b \in DOMAIN session :
                         /\ AnswerAt(session, a, x) /\ AnswerAt(session, b, y)
                         /\ j < k => a < b
    BY Zenon DEF PageFollowsSession
  <2> DEFINE x == messages[p][j].send
             y == messages[p][k].send
             session == sessions[at[x]][sessionId[p]]
  <2>1. /\ messages[p] \in Seq(Shown) /\ DOMAIN messages[p] = 1..Len(messages[p])
        /\ messages[p][j] \in Shown /\ j \in Int /\ k \in Int
    BY DEF PageInv, PageTypeOK
  <2>2. x \in Sends /\ at[x] \in Replicas /\ sessionId[p] \in Sessions
    BY <2>1 DEF Shown, PageInv, PageTypeOK, ChatTypeOK
  <2>3. DOMAIN session = 1..Len(session) /\ Len(session) \in Nat
    BY <2>2 DEF PageInv, PageTypeOK, ChatTypeOK
  <2>4. CASE j < k
    <3>1. InOrder(session, x, y)
      BY <2>1, <2>4 DEF FollowInv, ShownInOrder
    <3> HIDE DEF x, y, session
    <3>2. PICK a, b \in DOMAIN session : a < b /\ AnswerAt(session, a, x) /\ AnswerAt(session, b, y)
      BY <2>3, <3>1, Zenon DEF InOrder
    <3> QED
      BY <3>2 DEF x, y, session
  <2>5. CASE j = k
    <3>1. pc[x] = "done" /\ in[x] = sessionId[p] /\ y = x
      BY <2>1, <2>5 DEF FollowInv, ShownIsDone, Answered
    <3>2. HoldsAnswer(session, x)
      BY <2>2, <3>1 DEF FollowInv, DoneIsAnswered
    <3> HIDE DEF x, y, session
    <3>3. PICK a \in DOMAIN session : AnswerAt(session, a, x)
      BY <2>3, <3>2, Zenon DEF HoldsAnswer
    <3>4. ~(j < k)
      BY <2>1, <2>5
    <3>5. AnswerAt(session, a, x) /\ AnswerAt(session, a, y)
      BY <3>1, <3>3
    <3>6. \E c, d \in DOMAIN session :
             /\ AnswerAt(session, c, x) /\ AnswerAt(session, d, y)
             /\ j < k => c < d
      BY <3>3, <3>4, <3>5, Zenon
    <3> QED
      BY <3>6 DEF x, y, session
  <2>6. CASE k < j
    <3>1. InOrder(sessions[at[y]][sessionId[p]], y, x)
      BY <2>1, <2>6 DEF FollowInv, ShownInOrder
    <3>2. InOrder(session, y, x)
      BY <3>1
    <3> HIDE DEF x, y, session
    <3>3. PICK d, c \in DOMAIN session : AnswerAt(session, d, y) /\ AnswerAt(session, c, x)
      BY <2>3, <3>2, Zenon DEF InOrder
    <3>4. ~(j < k)
      BY <2>1, <2>6
    <3>5. \E a, b \in DOMAIN session :
             /\ AnswerAt(session, a, x) /\ AnswerAt(session, b, y)
             /\ j < k => a < b
      BY <3>3, <3>4, Zenon
    <3> QED
      BY <3>5 DEF x, y, session
  <2>7. j < k \/ j = k \/ k < j
    BY <2>1
  <2> QED
    BY <2>4, <2>5, <2>6, <2>7, Zenon
<1> QED
  BY PageInvariance, FollowInit, <1>1, <1>2, PTL DEF PageSpec

\* Behind pages, sessions are lists of whole exchanges and histories prefixes of
\* them, and a replica that stays up remembers.
THEOREM SessionsBehindPages ==
    PageSpec => []Exchanges /\ []HistoryIsPrefix /\ ReplicaRemembers
BY PageImplementsService, ExchangesHold, HistoryIsPrefixHolds, ReplicaRemembersHolds, PTL
=============================================================================
