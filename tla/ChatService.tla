---------------------------- MODULE ChatService ----------------------------
(***************************************************************************)
(* services/gateway/src/gateway/resolvers/chat.py and resolvers/agent.py:  *)
(* sendMessage, the in-memory session store and the in-memory agent store  *)
(* of every gateway replica.  resolve_send_message has one await, the call *)
(* to agent-engine: what it does before (SendMessage) and after (Finish)   *)
(* are the two actions of a send, and other sends run between them.        *)
(***************************************************************************)
EXTENDS Integers, Sequences, FiniteSets, SequencesExt

CONSTANTS
    Sends,        \* sendMessage mutations
    Sessions,     \* session ids; a send without one takes an unused id
    Replicas,     \* gateway processes behind the service (HPA: 1 to 5)
    AgentIds,     \* agent ids clients may name
    Types,        \* agent types
    AgentTypes,   \* _agent_types: agent id -> type, for the ids it lists
    DefaultType,  \* "QUIZ"
    NoType,       \* an id no agent has
    MaxRestarts   \* model bound: restarts of replicas

ASSUME ChatConstants ==
    /\ DOMAIN AgentTypes \subseteq AgentIds
    /\ \A a \in DOMAIN AgentTypes : AgentTypes[a] \in Types
    /\ DefaultType \in Types /\ NoType \notin Types
    /\ MaxRestarts \in Nat

VARIABLES
    sessions,  \* _sessions of each replica: the messages of each session,
               \* <<>> when the session does not exist
    agents,    \* _mock_agents of each replica: the type of each agent
    pc,        \* "new", "waiting", "done", or "lost" when its replica restarted
    at,        \* the replica a send runs on
    in,        \* its session
    history,   \* the conversation it sent to agent-engine
    runAs,     \* the agent type it sent to agent-engine
    restarts

vars == <<sessions, agents, pc, at, in, history, runAs, restarts>>

UserMessage(i) == [role |-> "user", send |-> i, ok |-> TRUE]
AssistantMessage(i, ok) == [role |-> "assistant", send |-> i, ok |-> ok]
Messages == [role : {"user", "assistant"}, send : Sends, ok : BOOLEAN]

Empty == [s \in Sessions |-> <<>>]
NoAgents == [a \in AgentIds |-> NoType]

ChatTypeOK ==
    /\ sessions \in [Replicas -> [Sessions -> Seq(Messages)]]
    /\ agents \in [Replicas -> [AgentIds -> Types \union {NoType}]]
    /\ pc \in [Sends -> {"new", "waiting", "done", "lost"}]
    /\ at \in [Sends -> Replicas] /\ in \in [Sends -> Sessions]
    /\ history \in [Sends -> Seq(Messages)]
    /\ runAs \in [Sends -> Types]
    /\ restarts \in 0..MaxRestarts

Init ==
    /\ sessions = [r \in Replicas |-> Empty]
    /\ agents = [r \in Replicas |-> NoAgents]
    /\ pc = [i \in Sends |-> "new"]
    /\ at \in [Sends -> Replicas] /\ in \in [Sends -> Sessions]   \* routing and input
    /\ history = [i \in Sends |-> <<>>]
    /\ runAs = [i \in Sends |-> DefaultType]
    /\ restarts = 0

\* resolve_create_agent, and _seed_mock_agents when a replica starts: a fresh
\* id in this replica's store; _agent_types does not learn of it.
CreateAgent(r, a, t) ==
    /\ a \notin DOMAIN AgentTypes /\ agents[r][a] = NoType
    /\ agents' = [agents EXCEPT ![r][a] = t]
    /\ UNCHANGED <<sessions, pc, at, in, history, runAs, restarts>>

DeleteAgent(r, a) ==
    /\ agents[r][a] # NoType
    /\ agents' = [agents EXCEPT ![r][a] = NoType]
    /\ UNCHANGED <<sessions, pc, at, in, history, runAs, restarts>>

TypeOf(a) == IF a \in DOMAIN AgentTypes THEN AgentTypes[a] ELSE DefaultType

\* Slip: the user's message is stored before the engine is called.
SendMessage_StoresFirst(i, a) ==
    /\ pc[i] = "new"
    /\ pc' = [pc EXCEPT ![i] = "waiting"]
    /\ history' = [history EXCEPT ![i] = sessions[at[i]][in[i]]]
    /\ runAs' = [runAs EXCEPT ![i] = TypeOf(a)]
    /\ sessions' = [sessions EXCEPT ![at[i]][in[i]] = Append(@, UserMessage(i))]
    /\ UNCHANGED <<agents, at, in, restarts>>

\* resolve_send_message up to the await of agent-engine: the history is a copy
\* of the session as it is now.
SendMessage(i, a) ==
    /\ pc[i] = "new"
    /\ pc' = [pc EXCEPT ![i] = "waiting"]
    /\ history' = [history EXCEPT ![i] = sessions[at[i]][in[i]]]
    /\ runAs' = [runAs EXCEPT ![i] = TypeOf(a)]
    /\ UNCHANGED <<sessions, agents, at, in, restarts>>

\* Slip: the session is rebuilt from the history that was sent.
Finish_FromHistory(i, ok) ==
    /\ pc[i] = "waiting"
    /\ pc' = [pc EXCEPT ![i] = "done"]
    /\ sessions' = [sessions EXCEPT ![at[i]][in[i]] =
                      history[i] \o <<UserMessage(i), AssistantMessage(i, ok)>>]
    /\ UNCHANGED <<agents, at, in, history, runAs, restarts>>

\* The await ends: a reply (ok), or any exception, timeout and error status
\* included, whose "Sorry, ..." text is the assistant's message (~ok).  Both
\* messages are appended to the session as it is by now.
Finish(i, ok) ==
    /\ pc[i] = "waiting"
    /\ pc' = [pc EXCEPT ![i] = "done"]
    /\ sessions' = [sessions EXCEPT ![at[i]][in[i]] =
                      @ \o <<UserMessage(i), AssistantMessage(i, ok)>>]
    /\ UNCHANGED <<agents, at, in, history, runAs, restarts>>

\* A replica is rescheduled: its memory and the sends it was serving are gone.
Restart(r) ==
    /\ restarts < MaxRestarts
    /\ restarts' = restarts + 1
    /\ sessions' = [sessions EXCEPT ![r] = Empty]
    /\ agents' = [agents EXCEPT ![r] = NoAgents]
    /\ pc' = [i \in Sends |-> IF pc[i] = "waiting" /\ at[i] = r THEN "lost" ELSE pc[i]]
    /\ UNCHANGED <<at, in, history, runAs>>

Next ==
    \/ \E r \in Replicas, a \in AgentIds :
          \/ \E t \in Types : CreateAgent(r, a, t)
          \/ DeleteAgent(r, a)
    \/ \E i \in Sends : \E a \in AgentIds : SendMessage(i, a)
    \/ \E i \in Sends : \E ok \in BOOLEAN : Finish(i, ok)
    \/ \E r \in Replicas : Restart(r)

Spec == Init /\ [][Next]_vars

(***************************************************************************)
(* Properties                                                              *)
(***************************************************************************)
\* A session is a list of whole exchanges: user message and answer of one send
\* side by side, no send twice, whatever sends to the session overlap.
Exchanges ==
    \A r \in Replicas, s \in Sessions :
       LET m == sessions[r][s] IN
       /\ Len(m) % 2 = 0
       /\ \A k \in 1..(Len(m) \div 2) :
             /\ m[2 * k - 1] = UserMessage(m[2 * k].send)
             /\ m[2 * k].role = "assistant"
       /\ \A j, k \in 1..(Len(m) \div 2) : m[2 * j].send = m[2 * k].send => j = k

\* The history a waiting send passed on stays a prefix of its session: nobody
\* rewrites what the engine was told, although others append meanwhile.
HistoryIsPrefix ==
    \A i \in Sends : pc[i] = "waiting" => IsPrefix(history[i], sessions[at[i]][in[i]])

\* While a replica stays up, a send it serves tells the engine of every exchange
\* it has finished in the session, although sends overlap and the session is
\* read before the await and written after it.
ReplicaRemembers ==
    [][ \A i \in Sends : pc[i] = "new" /\ pc'[i] = "waiting" =>
          \A j \in Sends :
             pc[j] = "done" /\ in[j] = in[i] /\ at[j] = at[i] /\ restarts = 0
                => UserMessage(j) \in Range(history'[i]) ]_vars

\* tests/e2e/test_full_workflow.py:139, "multi-turn conversation maintains
\* context": a send tells the engine of every exchange its session has had.
ContextIsComplete ==
    [][ \A i \in Sends : pc[i] = "new" /\ pc'[i] = "waiting" =>
          \A j \in Sends : pc[j] = "done" /\ in[j] = in[i] =>
             UserMessage(j) \in Range(history'[i]) ]_vars
=============================================================================
