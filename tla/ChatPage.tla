------------------------------ MODULE ChatPage ------------------------------
(***************************************************************************)
(* The chat page (frontend/src/app/chat/page.tsx) and the gateway behind   *)
(* it.  A page keeps messages of its own; its fetch, the resolver it       *)
(* reaches and the user's clicks interleave, and a fetch can end before    *)
(* the resolver does.  Other clients send to other sessions meanwhile.     *)
(***************************************************************************)
EXTENDS ChatService

CONSTANT Pages   \* open pages

VARIABLES
    sessionId,  \* the state of each page: its conversation,
    messages,   \* the messages it shows,
    loading,    \* and whether sending is blocked
    fetches,    \* the sends whose fetch is still awaited by a page
    asked,      \* history: the sends that pages made
    taken       \* history: the ids that pages have made

pageVars == <<sessionId, messages, loading, fetches, asked, taken>>
allVars == <<vars, pageVars>>

Shown == [part : {"question", "answer", "error"}, send : Sends]

PageTypeOK ==
    /\ ChatTypeOK
    /\ sessionId \in [Pages -> Sessions]
    /\ messages \in [Pages -> Seq(Shown)]
    /\ loading \in [Pages -> BOOLEAN]
    /\ fetches \in [Pages -> SUBSET Sends]
    /\ asked \subseteq Sends /\ taken \subseteq Sessions

PageInit ==
    /\ Init
    /\ sessionId \in [Pages -> Sessions] /\ IsInjective(sessionId)   \* UUIDs
    /\ messages = [p \in Pages |-> <<>>]
    /\ loading = [p \in Pages |-> FALSE]
    /\ fetches = [p \in Pages |-> {}]
    /\ asked = {}
    /\ taken = Range(sessionId)

Show(p, part, i) ==
    messages' = [messages EXCEPT ![p] = Append(@, [part |-> part, send |-> i])]

(***************************************************************************)
(* The page                                                                *)
(***************************************************************************)
\* Slip: a page that loads takes another message.
Ask_WhileLoading(p, i) ==
    /\ pc[i] = "new" /\ i \notin asked /\ in[i] = sessionId[p]
    /\ Show(p, "question", i)
    /\ loading' = [loading EXCEPT ![p] = TRUE]
    /\ fetches' = [fetches EXCEPT ![p] = @ \union {i}]
    /\ asked' = asked \union {i}
    /\ UNCHANGED <<vars, sessionId, taken>>

\* sendMessage up to the await of fetch.
Ask(p, i) ==
    /\ ~loading[p]
    /\ pc[i] = "new" /\ i \notin asked /\ in[i] = sessionId[p]
    /\ Show(p, "question", i)
    /\ loading' = [loading EXCEPT ![p] = TRUE]
    /\ fetches' = [fetches EXCEPT ![p] = @ \union {i}]
    /\ asked' = asked \union {i}
    /\ UNCHANGED <<vars, sessionId, taken>>

\* The fetch is over: sendMessage shows what came and lets the next one through,
\* whatever conversation the page is at by now.
FetchOver(p, i, part) ==
    /\ i \in fetches[p]
    /\ Show(p, part, i)
    /\ loading' = [loading EXCEPT ![p] = FALSE]
    /\ fetches' = [fetches EXCEPT ![p] = @ \ {i}]
    /\ UNCHANGED <<vars, sessionId, asked, taken>>

Receive(p, i) == pc[i] = "done" /\ FetchOver(p, i, "answer")

\* The connection fails, or the answer holds GraphQL errors: at any time, since
\* the gateway may never see the request, or work on it, or be done.
FetchFails(p, i) == FetchOver(p, i, "error")

\* A new id (makeUUID), of a session nobody has used.
NewSession(p) ==
    \E s \in Sessions \ taken :
       /\ \A i \in Sends : in[i] = s => pc[i] = "new"
       /\ sessionId' = [sessionId EXCEPT ![p] = s]
       /\ taken' = taken \union {s}
       /\ messages' = [messages EXCEPT ![p] = <<>>]

\* Slip: the new conversation starts with sending allowed.
SwitchAgent_StopsLoading(p) ==
    /\ NewSession(p)
    /\ loading' = [loading EXCEPT ![p] = FALSE]
    /\ UNCHANGED <<vars, fetches, asked>>

\* switchAgent: nothing is done about a fetch that is on its way.
SwitchAgent(p) ==
    /\ NewSession(p)
    /\ UNCHANGED <<vars, loading, fetches, asked>>

\* The page is loaded again, or left and opened: its state starts anew and the
\* old component's fetch changes nothing any more.
Mount(p) ==
    /\ NewSession(p)
    /\ loading' = [loading EXCEPT ![p] = FALSE]
    /\ fetches' = [fetches EXCEPT ![p] = {}]
    /\ UNCHANGED <<vars, asked>>

(***************************************************************************)
(* The gateway                                                             *)
(***************************************************************************)
\* A page's request arrives, perhaps when its fetch is already over; the page's
\* agents are those of _agent_types.
Arrive(i) ==
    /\ i \in asked
    /\ \E a \in DOMAIN AgentTypes : SendMessage(i, a)
    /\ UNCHANGED pageVars

\* A request of another client, whose sessions are not those of pages.
OtherClient(i, a) ==
    /\ i \notin asked /\ in[i] \notin taken
    /\ SendMessage(i, a)
    /\ UNCHANGED pageVars

Gateway ==
    /\ \/ \E r \in Replicas, a \in AgentIds :
             DeleteAgent(r, a) \/ \E t \in Types : CreateAgent(r, a, t)
       \/ \E i \in Sends, ok \in BOOLEAN : Finish(i, ok)
       \/ \E r \in Replicas : Restart(r)
    /\ UNCHANGED pageVars

PageNext ==
    \/ \E p \in Pages, i \in Sends :
          Ask(p, i) \/ Receive(p, i) \/ FetchFails(p, i)
    \/ \E p \in Pages : SwitchAgent(p) \/ Mount(p)
    \/ \E i \in Sends : Arrive(i) \/ \E a \in AgentIds : OtherClient(i, a)
    \/ Gateway

PageSpec == PageInit /\ [][PageNext]_allVars

(***************************************************************************)
(* Properties                                                              *)
(***************************************************************************)
\* What a page shows is a list of questions, each followed by what came of it;
\* before them at most one answer of an earlier conversation, which was on its
\* way when the user switched agents.  An answer never gets between a question
\* and its own answer, however clicks and answers interleave.
PageAlternates ==
    \A p \in Pages : \E stray \in 0..1 :
       LET m == messages[p] IN
       /\ stray <= Len(m)
       /\ \A k \in 1..stray : m[k].part # "question" /\ in[m[k].send] # sessionId[p]
       /\ \A k \in (stray + 1)..Len(m) :
             IF (k - stray) % 2 = 1
             THEN m[k].part = "question" /\ in[m[k].send] = sessionId[p]
             ELSE m[k].part # "question" /\ m[k].send = m[k - 1].send

\* Where a session holds the answer to a send.
AnswerAt(session, k, i) == session[k].role = "assistant" /\ session[k].send = i

\* An answer that page p shows as its k-th message belongs to its conversation.
Answered(p, k) == messages[p][k].part = "answer" /\ in[messages[p][k].send] = sessionId[p]

\* The page's conversation and the gateway's session tell the same story: what a
\* page was answered is in the session, in the order it was shown, although
\* fetches fail under sends that go on, and later sends overlap with those.
PageFollowsSession ==
    restarts = 0 =>
       \A p \in Pages : \A j, k \in DOMAIN messages[p] :
          LET x == messages[p][j].send
              y == messages[p][k].send
              session == sessions[at[x]][sessionId[p]] IN
          Answered(p, j) /\ Answered(p, k) /\ at[x] = at[y] =>
             \E a, b \in DOMAIN session :
                /\ AnswerAt(session, a, x) /\ AnswerAt(session, b, y)
                /\ j < k => a < b
=============================================================================
