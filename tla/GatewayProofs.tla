--------------------------- MODULE GatewayProofs ---------------------------
(***************************************************************************)
(* Proofs about the gateway: the calls of the completions endpoint and the  *)
(* subscriptions they leave on the event bus.                               *)
(***************************************************************************)
EXTENDS Gateway, TLAPS, FiniteSetTheorems

\* NoLeakedSubscription with what it needs to be inductive: a call that does not
\* wait never subscribes, and a call keeps one status at a time.
SubscriptionsInv ==
    /\ request \in [Request -> {"idle", "waiting", "answered", "timeout"}]
    /\ NoLeakedSubscription

\* agent:response settles the calls that wait, and those only.
LEMMA RespondKeepsInv ==
    ASSUME SubscriptionsInv, Respond
    PROVE  SubscriptionsInv'
<1>1. subscriptions \subseteq Request
  BY DEF SubscriptionsInv, NoLeakedSubscription
<1>2. \A r \in Request : request'[r] # "waiting"
  BY DEF SubscriptionsInv, NoLeakedSubscription, Respond
<1>3. request' \in [Request -> {"idle", "waiting", "answered", "timeout"}]
  BY DEF SubscriptionsInv, Respond
<1>4. QED
  BY <1>2, <1>3 DEF SubscriptionsInv, NoLeakedSubscription, Respond

LEMMA UnchangedKeepsInv ==
    ASSUME SubscriptionsInv, UNCHANGED apiVars
    PROVE  SubscriptionsInv'
BY DEF SubscriptionsInv, NoLeakedSubscription, apiVars

\* Whatever ends an iteration of a run, it answers the bus or leaves it alone.
LEMMA AgentStepKeepsInv ==
    ASSUME SubscriptionsInv, NEW s \in Session,
           TextChunk(s) \/ RunStep(s) \/ DrainNext(s) \/ AgentAborts(s)
    PROVE  SubscriptionsInv'
<1>1. CASE TextChunk(s) \/ ToolCalls(s) \/ AbortAtChunk(s) \/ DrainNext(s) \/ AgentAborts(s)
  BY <1>1, UnchangedKeepsInv
     DEF TextChunk, ToolCalls, AbortAtChunk, DrainNext, AgentAborts
<1>2. CASE ToolResults(s)
  BY <1>2, RespondKeepsInv, UnchangedKeepsInv DEF ToolResults
<1>3. CASE FinalResponse(s)
  BY <1>3, RespondKeepsInv DEF FinalResponse
<1>4. CASE StreamThrows(s)
  BY <1>4, RespondKeepsInv, UnchangedKeepsInv DEF StreamThrows
<1>5. QED
  BY <1>1, <1>2, <1>3, <1>4 DEF RunStep

LEMMA CompleteKeepsInv ==
    ASSUME SubscriptionsInv, NEW r \in Request, Complete(r)
    PROVE  SubscriptionsInv'
<1>1. /\ request' = [request EXCEPT ![r] = "waiting"]
      /\ subscriptions' = subscriptions \cup {r}
  BY DEF Complete
<1>2. QED
  BY <1>1 DEF SubscriptionsInv, NoLeakedSubscription

LEMMA TimeoutKeepsInv ==
    ASSUME SubscriptionsInv, NEW r \in Request, Timeout(r)
    PROVE  SubscriptionsInv'
<1>1. /\ request' = [request EXCEPT ![r] = "timeout"]
      /\ subscriptions' = subscriptions \ {r}
  BY DEF Timeout
<1>2. QED
  BY <1>1 DEF SubscriptionsInv, NoLeakedSubscription

LEMMA SubscriptionsInductive ==
    ASSUME SubscriptionsInv, [Next]_vars
    PROVE  SubscriptionsInv'
<1>1. CASE Network
  BY <1>1, UnchangedKeepsInv
     DEF Network, handleConnection, ConnectionBreaks, ClientSeesClose, Receive
<1>2. CASE Agent
  BY <1>2, AgentStepKeepsInv DEF Agent
<1>3. ASSUME NEW who \in Client, Authenticate(who) \/ Chat(who) \/ Stop(who)
      PROVE  SubscriptionsInv'
  BY <1>3, UnchangedKeepsInv DEF Authenticate, Chat, Stop
<1>4. CASE Users
  BY <1>3, <1>4, CompleteKeepsInv, TimeoutKeepsInv DEF Users
<1>5. CASE UNCHANGED vars
  BY <1>5, UnchangedKeepsInv DEF vars
<1>6. QED
  BY <1>1, <1>2, <1>4, <1>5 DEF Next

\* For any clients, sessions, calls and bounds: a call that was answered, by
\* whichever session, or that gave up after 300 s has left no subscription on the
\* bus, and a call that waits has one (event-bus.ts waitFor, routes.ts).
THEOREM NoSubscriptionLeaks == Spec => []NoLeakedSubscription
<1>1. Init => SubscriptionsInv
  BY DEF Init, SubscriptionsInv, NoLeakedSubscription
<1>2. SubscriptionsInv /\ [Next]_vars => SubscriptionsInv'
  BY SubscriptionsInductive
<1>3. SubscriptionsInv => NoLeakedSubscription
  BY DEF SubscriptionsInv
<1>4. QED
  BY <1>1, <1>2, <1>3, PTL DEF Spec

-----------------------------------------------------------------------------
(* What the page makes of what an agent sends in one go.                   *)

\* The batches of broadcastToClients.
Batches ==
    {<<"stream_start", "stream_delta">>, <<"stream_delta">>, <<"stream_end">>,
     <<"stream_end", "intermediate">>, <<"message">>, <<"stream_end", "message">>,
     <<"stream_end", "message", "message">>, <<"aborted">>}

\* Neither of the bubbles that can still change is an answer.
GoodPage ==
    [busy : BOOLEAN, streamEl : {"none", "dots", "partial"}, streamText : BOOLEAN,
     streamedBubble : {"none", "text"}, answers : Nat]

\* The handlers of a page, one after the other, for up to three messages.
LEMMA HandlesInTurn ==
    ASSUME NEW start, NEW events, NEW n \in {1, 2, 3}, Len(events) = n
    PROVE  LET first  == Handle(start, events[1])
               second == Handle(first, events[2])
               third  == Handle(second, events[3])
           IN  HandleAll(start, events) =
                   IF n = 1 THEN first ELSE IF n = 2 THEN second ELSE third
<1> DEFINE F(g) == [k \in 0..Len(events) |->
                       IF k = 0 THEN start ELSE Handle(g[k - 1], events[k])]
           after == CHOOSE g : g = F(g)
           first  == Handle(start, events[1])
           second == Handle(first, events[2])
           third  == Handle(second, events[3])
           each == [k \in 0..n |-> IF k = 0 THEN start ELSE IF k = 1 THEN first
                                   ELSE IF k = 2 THEN second ELSE third]
<1>1. each = F(each)
  <2> HIDE DEF each
  <2>1. \A k \in 0..n : each[k] = IF k = 0 THEN start ELSE IF k = 1 THEN first
                                  ELSE IF k = 2 THEN second ELSE third
    BY DEF each
  <2>2. \A k \in 1..n : each[k] = Handle(each[k - 1], events[k])
    <3> TAKE k \in 1..n
    <3>1. k - 1 \in 0..n /\ k \in 0..n /\ (k = 1 \/ k = 2 \/ k = 3)
      OBVIOUS
    <3>2. CASE k = 1
      BY <2>1, <3>1, <3>2
    <3>3. CASE k = 2
      BY <2>1, <3>1, <3>3
    <3>4. CASE k = 3
      BY <2>1, <3>1, <3>4
    <3> QED
      BY <3>1, <3>2, <3>3, <3>4
  <2>3. each[0] = start
    BY <2>1
  <2>4. each = [k \in 0..n |-> IF k = 0 THEN start ELSE Handle(each[k - 1], events[k])]
    BY <2>2, <2>3 DEF each
  <2> QED
    BY <2>4
<1> HIDE DEF each
<1>2. after = F(after)
  BY <1>1
<1> HIDE DEF after
<1>3. /\ after[0] = start
      /\ \A k \in 1..n : after[k] = Handle(after[k - 1], events[k])
  BY <1>2
<1>4. after[1] = first
  BY <1>3
<1>5. n \in {2, 3} => after[2] = second
  BY <1>3, <1>4
<1>6. n = 3 => after[3] = third
  BY <1>3, <1>5
<1>7. HandleAll(start, events) = after[n]
  BY DEF HandleAll, after
<1> QED
  BY <1>4, <1>5, <1>6, <1>7

\* What a bubble's new content does to the answers, when its old one is no answer.
LEMMA WriteCounts ==
    ASSUME NEW pg \in GoodPage, NEW old, NEW new, old # "answer"
    PROVE  /\ Write(pg, old, new) \in GoodPage
           /\ Write(pg, old, new) =
                 [pg EXCEPT !.answers = pg.answers + (IF new = "answer" THEN 1 ELSE 0)]
<1>1. CASE new = "answer"
  <2>1. Write(pg, old, new) = [pg EXCEPT !.answers = pg.answers + 1]
    BY <1>1 DEF Write
  <2> QED
    BY <1>1, <2>1 DEF GoodPage
<1>2. CASE new # "answer"
  <2>1. Write(pg, old, new) = pg
    BY <1>2 DEF Write, GoodPage
  <2>2. pg = [pg EXCEPT !.answers = pg.answers + 0]
    BY DEF GoodPage
  <2> QED
    BY <1>2, <2>1, <2>2
<1> QED
  BY <1>1, <1>2

\* One message: the page stays good, and only a final answer adds an answer.
LEMMA HandleCounts ==
    ASSUME NEW pg \in GoodPage, NEW data \in Events
    PROVE  /\ Handle(pg, data) \in GoodPage
           /\ Handle(pg, data).answers = pg.answers + (IF data = "message" THEN 1 ELSE 0)
<1> USE DEF NoBubble
<1>0. /\ pg.streamEl # "answer" /\ pg.streamedBubble # "answer" /\ pg.answers \in Nat
      /\ "partial" # "answer" /\ "text" # "answer" /\ "removed" # "answer"
  BY DEF GoodPage
<1>a. ASSUME NEW old, NEW new, old # "answer"
      PROVE  /\ Write(pg, old, new) \in GoodPage
             /\ Write(pg, old, new).answers = pg.answers + (IF new = "answer" THEN 1 ELSE 0)
  BY <1>a, WriteCounts DEF GoodPage
<1>b. ASSUME NEW q \in GoodPage
      PROVE  /\ noStream(q) \in GoodPage /\ noStream(q).answers = q.answers
             /\ Forget(q) \in GoodPage /\ Forget(q).answers = q.answers
             /\ setIdle(q) \in GoodPage /\ setIdle(q).answers = q.answers
  BY DEF noStream, Forget, setIdle, GoodPage
<1>1. CASE data = "stream_start"
  <2>1. Handle(pg, data) = onStreamStart(pg)
    BY <1>1 DEF Handle
  <2> DEFINE q == Forget(pg)
  <2>2. q \in GoodPage /\ q.answers = pg.answers
    BY <1>b
  <2>3. Handle(pg, data) = [q EXCEPT !.streamText = FALSE, !.streamEl = "dots"]
    BY <2>1 DEF onStreamStart
  <2> HIDE DEF q
  <2>4. Handle(pg, data) \in GoodPage /\ Handle(pg, data).answers = q.answers
    BY <2>2, <2>3 DEF GoodPage
  <2> QED
    BY <1>0, <1>1, <2>2, <2>4
<1>2. CASE data = "stream_delta"
  <2>1. Handle(pg, data) = onStreamDelta(pg)
    BY <1>2 DEF Handle
  <2> DEFINE p == [pg EXCEPT !.streamText = TRUE]
  <2>2. p \in GoodPage /\ p.answers = pg.answers /\ p.streamEl = pg.streamEl
    BY DEF GoodPage
  <2>3. CASE pg.streamEl = NoBubble
    <3>1. Handle(pg, data) = p
      BY <2>1, <2>2, <2>3 DEF onStreamDelta
    <3> HIDE DEF p
    <3> QED
      BY <1>0, <1>2, <2>2, <3>1
  <2>4. CASE pg.streamEl # NoBubble
    <3> HIDE DEF p
    <3>1. /\ Write(p, p.streamEl, "partial") \in GoodPage
          /\ Write(p, p.streamEl, "partial") = [p EXCEPT !.answers = p.answers + 0]
      BY <1>0, <2>2, WriteCounts
    <3>2. Handle(pg, data) = [Write(p, p.streamEl, "partial") EXCEPT !.streamEl = "partial"]
      BY <2>1, <2>2, <2>4 DEF onStreamDelta, p
    <3> QED
      BY <1>0, <1>2, <2>2, <3>1, <3>2 DEF GoodPage
  <2> QED
    BY <2>3, <2>4
<1>3. CASE data = "stream_end"
  <2>1. Handle(pg, data) = onStreamEnd(pg)
    BY <1>3 DEF Handle
  <2> DEFINE q == Write(pg, pg.streamEl, "text")
  <2>2. q \in GoodPage /\ q.answers = pg.answers
    BY <1>0, <1>a
  <2> HIDE DEF q
  <2>3. [q EXCEPT !.streamedBubble = "text"] \in GoodPage
        /\ [q EXCEPT !.streamedBubble = "text"].answers = q.answers
    BY <2>2 DEF GoodPage
  <2>4. \/ Handle(pg, data) = noStream(pg)
        \/ Handle(pg, data) = noStream([q EXCEPT !.streamedBubble = "text"])
    BY <2>1 DEF onStreamEnd, q
  <2> DEFINE closed == [q EXCEPT !.streamedBubble = "text"]
  <2>5. /\ noStream(pg) \in GoodPage /\ noStream(pg).answers = pg.answers
        /\ noStream(closed) \in GoodPage /\ noStream(closed).answers = pg.answers
    <3>1. closed \in GoodPage /\ closed.answers = pg.answers
      BY <2>2, <2>3
    <3> HIDE DEF closed
    <3> QED
      BY <1>b, <3>1
  <2>6. Handle(pg, data) \in GoodPage /\ Handle(pg, data).answers = pg.answers
    BY <2>4, <2>5
  <2> QED
    BY <1>0, <1>3, <2>6
<1>4. CASE data = "intermediate"
  <2>1. Handle(pg, data) = onIntermediate(pg)
    BY <1>4 DEF Handle
  <2> DEFINE q == Write(pg, pg.streamEl, "text")
             r == Write(pg, pg.streamedBubble, "text")
  <2>2. q \in GoodPage /\ r \in GoodPage /\ q.answers = pg.answers /\ r.answers = pg.answers
    BY <1>0, <1>a
  <2>3. Handle(pg, data) = Forget(noStream(q)) \/ Handle(pg, data) = Forget(r)
    BY <2>1 DEF onIntermediate
  <2> HIDE DEF q, r
  <2> QED
    BY <1>0, <1>4, <1>b, <2>2, <2>3
<1>5. CASE data = "message"
  <2>1. Handle(pg, data) = setIdle(Answer(pg))
    BY <1>5 DEF Handle, onMessage
  <2> DEFINE q == Write(pg, pg.streamEl, "answer")
             r == Write(pg, pg.streamedBubble, "answer")
  <2>2. /\ q \in GoodPage /\ r \in GoodPage
        /\ q.answers = pg.answers + 1 /\ r.answers = pg.answers + 1
    BY <1>0, <1>a
  <2>3. Answer(pg) = Forget(noStream(q)) \/ Answer(pg) = Forget(r)
    BY DEF Answer
  <2> HIDE DEF q, r
  <2>4. Answer(pg) \in GoodPage /\ Answer(pg).answers = pg.answers + 1
    BY <1>b, <2>2, <2>3
  <2> QED
    BY <1>5, <1>b, <2>1, <2>4
<1>6. CASE data = "aborted"
  <2>1. Handle(pg, data) = onAborted(pg)
    BY <1>6 DEF Handle
  <2> DEFINE q == Write(pg, pg.streamEl, "removed")
  <2>2. q \in GoodPage /\ q.answers = pg.answers
    BY <1>0, <1>a
  <2>3. Handle(pg, data) = setIdle(pg) \/ Handle(pg, data) = setIdle(noStream(q))
    BY <2>1 DEF onAborted
  <2> HIDE DEF q
  <2> QED
    BY <1>0, <1>6, <1>b, <2>2, <2>3
<1> QED
  BY <1>1, <1>2, <1>3, <1>4, <1>5, <1>6 DEF Events

\* A batch: as many answers as it has.
LEMMA BatchCounts ==
    ASSUME NEW pg \in GoodPage, NEW batch \in Batches
    PROVE  /\ HandleAll(pg, batch) \in GoodPage
           /\ HandleAll(pg, batch).answers =
                 pg.answers + Cardinality({i \in DOMAIN batch : batch[i] = "message"})
<1> DEFINE Answers == {i \in DOMAIN batch : batch[i] = "message"}
           n == Len(batch)
           one(data) == IF data = "message" THEN 1 ELSE 0
<1>1. pg.answers \in Nat
  BY DEF GoodPage
<1>2. CASE n = 1
  <2>1. batch[1] \in Events /\ DOMAIN batch = {1}
    BY <1>2 DEF Batches, Events
  <2>2. HandleAll(pg, batch) = Handle(pg, batch[1])
    BY <1>2, HandlesInTurn
  <2>3. Cardinality(Answers) = one(batch[1])
    <3>1. CASE batch[1] = "message"
      <4>1. Answers = {1}
        BY <2>1, <3>1
      <4> QED
        BY <3>1, <4>1, FS_Singleton
    <3>2. CASE batch[1] # "message"
      <4>1. Answers = {}
        BY <2>1, <3>2
      <4> QED
        BY <3>2, <4>1, FS_EmptySet
    <3> QED
      BY <3>1, <3>2
  <2> QED
    BY <2>1, <2>2, <2>3, HandleCounts
<1>3. CASE n = 2
  <2>1. batch[1] \in Events /\ batch[2] \in Events /\ DOMAIN batch = {1, 2}
        /\ batch[1] # "message"
    BY <1>3 DEF Batches, Events
  <2> DEFINE first == Handle(pg, batch[1])
  <2>2. HandleAll(pg, batch) = Handle(first, batch[2])
    BY <1>3, HandlesInTurn
  <2>3. Cardinality(Answers) = one(batch[2])
    <3>1. CASE batch[2] = "message"
      <4>1. Answers = {2}
        BY <2>1, <3>1
      <4> QED
        BY <3>1, <4>1, FS_Singleton
    <3>2. CASE batch[2] # "message"
      <4>1. Answers = {}
        BY <2>1, <3>2
      <4> QED
        BY <3>2, <4>1, FS_EmptySet
    <3> QED
      BY <3>1, <3>2
  <2>4. first \in GoodPage /\ first.answers = pg.answers
    BY <1>1, <2>1, HandleCounts
  <2> HIDE DEF first
  <2> QED
    BY <2>1, <2>2, <2>3, <2>4, HandleCounts
<1>4. CASE n = 3
  <2>1. batch = <<"stream_end", "message", "message">>
    BY <1>4 DEF Batches
  <2>2. /\ batch[1] = "stream_end" /\ batch[2] = "message" /\ batch[3] = "message"
        /\ DOMAIN batch = {1, 2, 3} /\ "stream_end" \in Events /\ "message" \in Events
    BY <2>1 DEF Events
  <2> DEFINE first == Handle(pg, batch[1])
             second == Handle(first, batch[2])
  <2>3. HandleAll(pg, batch) = Handle(second, batch[3])
    BY <1>4, HandlesInTurn
  <2>4. Cardinality(Answers) = 2
    <3>1. Answers = {2} \cup {3}
      BY <2>2
    <3>2. IsFiniteSet({2})
      BY FS_Singleton, Zenon
    <3>3. Cardinality({2}) = 1
      BY FS_Singleton, Zenon
    <3>4. 3 \notin {2}
      OBVIOUS
    <3>5. Cardinality({2} \cup {3}) = Cardinality({2}) + 1
      BY <3>2, <3>4, FS_AddElement
    <3> HIDE DEF Answers
    <3> QED
      BY <3>1, <3>3, <3>5
  <2>5. first \in GoodPage /\ first.answers = pg.answers
    BY <1>1, <2>2, HandleCounts
  <2> HIDE DEF first
  <2>6. second \in GoodPage /\ second.answers = pg.answers + 1
    BY <2>2, <2>5, HandleCounts
  <2> HIDE DEF second
  <2>7. Handle(second, batch[3]) \in GoodPage
        /\ Handle(second, batch[3]).answers = second.answers + 1
    BY <2>2, <2>6, HandleCounts
  <2> QED
    BY <1>1, <2>3, <2>4, <2>6, <2>7
<1>5. n \in {1, 2, 3}
  BY DEF Batches
<1> QED
  BY <1>2, <1>3, <1>4, <1>5

-----------------------------------------------------------------------------
(* What is in flight, and to whom.                                         *)

\* A client has a connection of its own, one there has been, and nothing is in
\* flight on a connection that the server has dropped.
NetworkInv ==
    /\ socket \in [Client -> Connection \cup {None}]
    /\ clients \subseteq used /\ authenticated \subseteq used /\ used \subseteq Connection
    /\ \A who \in Client : socket[who] # None => socket[who] \in used
    /\ \A who, other \in Client :
          socket[who] # None /\ socket[who] = socket[other] => who = other
    /\ inbox \in [Connection -> Seq(Batches)]
    /\ \A c \in Connection : inbox[c] # <<>> => c \in clients

\* The pages, the configuration, and the pages that wait for nothing.
PageInv ==
    /\ page \in [Page -> GoodPage]
    /\ authType \in AuthTypes /\ provided \in Provided /\ missed \subseteq Page

\* The runs are within their iterations, and nobody has more messages queued than
\* there were.
RunsInv ==
    /\ run \in [Session -> [phase : {"none", "thinking", "streaming", "tools"},
                            drained : BOOLEAN, stopped : BOOLEAN,
                            iteration : 0..MaxIterations]]
    /\ messages \in 0..MaxMessages
    /\ waiting \in [Session -> 0..MaxMessages]
    /\ \A s \in Session : waiting[s] <= messages

\* What is in flight stays, or grows by a batch for everyone who listens.
Sent == inbox' = inbox \/ \E batch \in Batches : broadcastToClients(batch)

\* Nobody connects or leaves.
SameConnections == UNCHANGED <<configVars, socket, used, clients>>

\* Somebody may have been left waiting, or nobody.
SomeMissed == missed' = missed \/ \E s \in Session : MissedBy(s)

LEMMA ClientIsNotNone == \A c \in Connection : c # None
BY GatewayAssumption DEF Connection

\* Agents and users only ever add to what is in flight.
LEMMA AgentSends ==
    ASSUME NEW s \in Session, TextChunk(s) \/ RunStep(s) \/ DrainNext(s) \/ AgentAborts(s)
    PROVE  /\ Sent /\ SameConnections
           /\ UNCHANGED <<authenticated, page, messages>>
           /\ SomeMissed
<1> USE DEF SameConnections, SomeMissed, agentStepVars
<1>0. /\ <<"stream_start", "stream_delta">> \in Batches /\ <<"stream_delta">> \in Batches
      /\ <<"stream_end">> \in Batches /\ <<"stream_end", "intermediate">> \in Batches
      /\ <<"message">> \in Batches /\ <<"stream_end", "message">> \in Batches
      /\ <<"stream_end", "message", "message">> \in Batches /\ <<"aborted">> \in Batches
  BY DEF Batches
<1>1. CASE TextChunk(s)
  BY <1>0, <1>1 DEF TextChunk, Sent
<1>2. CASE ToolCalls(s)
  BY <1>0, <1>2 DEF ToolCalls, Sent
<1>3. CASE ToolResults(s)
  BY <1>0, <1>3 DEF ToolResults, Sent
<1>4. CASE FinalResponse(s)
  BY <1>0, <1>4 DEF FinalResponse, Sent
<1>5. CASE AbortAtChunk(s)
  BY <1>0, <1>5 DEF AbortAtChunk, Sent
<1>6. CASE StreamThrows(s)
  BY <1>0, <1>6 DEF StreamThrows, Sent
<1>7. CASE DrainNext(s)
  BY <1>7 DEF DrainNext, Sent
<1>8. CASE AgentAborts(s)
  BY <1>8 DEF AgentAborts, Sent, serverVars
<1> QED
  BY <1>1, <1>2, <1>3, <1>4, <1>5, <1>6, <1>7, <1>8 DEF RunStep

LEMMA InboundSends ==
    ASSUME NEW s \in Session, Inbound(s) \/ StopInbound(s)
    PROVE  Sent /\ SomeMissed
<1>1. <<"aborted">> \in Batches
  BY DEF Batches
<1> QED
  BY <1>1 DEF Inbound, StopInbound, Sent, SomeMissed

LEMMA UserSends ==
    ASSUME NetworkInv, Users
    PROVE  /\ Sent /\ SameConnections /\ SomeMissed
           /\ \/ authenticated' = authenticated
              \/ \E who \in Client : /\ socket[who] \in clients
                                     /\ authenticated' = authenticated \cup {socket[who]}
           /\ \/ page' = page
              \/ \E who \in Client :
                    page' = [p \in Page |-> IF p = who THEN sendMessage(page[p]) ELSE page[p]]
<1> USE DEF SameConnections
<1>1. ASSUME NEW who \in Client, Authenticate(who)
      PROVE  /\ inbox' = inbox /\ SameConnections /\ SomeMissed /\ UNCHANGED page
             /\ socket[who] \in clients
             /\ authenticated' = authenticated \cup {socket[who]}
  BY <1>1 DEF Authenticate, SomeMissed
<1>2. ASSUME NEW who \in Client, Chat(who)
      PROVE  /\ Sent /\ SameConnections /\ SomeMissed /\ UNCHANGED authenticated
             /\ page' = [p \in Page |-> IF p = who THEN sendMessage(page[p]) ELSE page[p]]
  <2>1. socket[who] \in Session
    BY <1>2 DEF Chat, NetworkInv, Session
  <2> QED
    BY <1>2, <2>1, InboundSends DEF Chat, Sent, SomeMissed
<1>3. ASSUME NEW who \in Client, Stop(who)
      PROVE  Sent /\ SameConnections /\ SomeMissed /\ UNCHANGED <<authenticated, page>>
  <2>1. socket[who] \in Session
    BY <1>3 DEF Stop, NetworkInv, Session
  <2> QED
    BY <1>3, <2>1, InboundSends DEF Stop
<1>4. ASSUME NEW r \in Request, Complete(r)
      PROVE  Sent /\ SameConnections /\ SomeMissed /\ UNCHANGED <<authenticated, page>>
  BY <1>4, InboundSends DEF Complete, Session
<1>5. ASSUME NEW r \in Request, Timeout(r)
      PROVE  Sent /\ SameConnections /\ SomeMissed /\ UNCHANGED <<authenticated, page>>
  BY <1>5 DEF Timeout, Sent, SomeMissed, serverVars
<1> HIDE DEF SameConnections
<1>6. CASE \E who \in Client : Authenticate(who)
  BY <1>1, <1>6 DEF Sent
<1>7. CASE \E who \in Client : Chat(who)
  BY <1>2, <1>7
<1> QED
  BY <1>3, <1>4, <1>5, <1>6, <1>7 DEF Users

\* A batch reaches those who listen, who are connected.
LEMMA SentKeepsInbox ==
    ASSUME NetworkInv, Sent, UNCHANGED clients
    PROVE  /\ inbox' \in [Connection -> Seq(Batches)]
           /\ \A c \in Connection : inbox'[c] # <<>> => c \in clients'
<1> USE DEF NetworkInv
<1>1. CASE inbox' = inbox
  BY <1>1
<1>2. ASSUME NEW batch \in Batches, broadcastToClients(batch)
      PROVE  /\ inbox' \in [Connection -> Seq(Batches)]
             /\ \A c \in Connection : inbox'[c] # <<>> => c \in clients'
  <2>1. inbox' = [c \in Connection |->
                     IF c \in Listeners THEN Append(inbox[c], batch) ELSE inbox[c]]
    BY <1>2 DEF broadcastToClients
  <2>2. \A c \in Connection : inbox[c] \in Seq(Batches)
    OBVIOUS
  <2>3. \A c \in Connection : Append(inbox[c], batch) \in Seq(Batches)
    BY <2>2
  <2> QED
    BY <2>1, <2>2, <2>3 DEF Listeners
<1> QED
  BY <1>1, <1>2 DEF Sent

LEMMA NetworkInvInductive ==
    ASSUME NetworkInv, [Next]_vars
    PROVE  NetworkInv'
<1> USE ClientIsNotNone
<1>1. ASSUME Sent, SameConnections,
             \/ authenticated' = authenticated
             \/ \E who \in Client : /\ socket[who] \in clients
                                    /\ authenticated' = authenticated \cup {socket[who]}
      PROVE  NetworkInv'
  <2>1. /\ inbox' \in [Connection -> Seq(Batches)]
        /\ \A c \in Connection : inbox'[c] # <<>> => c \in clients'
    BY <1>1, SentKeepsInbox DEF SameConnections
  <2>2. authenticated' \subseteq used
    BY <1>1 DEF NetworkInv
  <2> QED
    BY <1>1, <2>1, <2>2 DEF NetworkInv, SameConnections
<1>2. CASE Agent
  BY <1>1, <1>2, AgentSends DEF Agent
<1>3. CASE Users
  BY <1>1, <1>3, UserSends
<1>4. ASSUME NEW who \in Client, NEW c \in Connection, handleConnection(who, c)
      PROVE  NetworkInv'
  <2>1. /\ socket' = [socket EXCEPT ![who] = c] /\ c \notin used
        /\ used' = used \cup {c} /\ clients' = clients \cup {c} /\ inbox' = inbox
        /\ authenticated' \subseteq authenticated \cup {c}
    BY <1>4 DEF handleConnection
  <2>2. /\ socket' \in [Client -> Connection \cup {None}]
        /\ \A w \in Client : socket'[w] = IF w = who THEN c ELSE socket[w]
    BY <2>1 DEF NetworkInv
  <2>3. \A w \in Client : socket'[w] # None => socket'[w] \in used'
    BY <2>1, <2>2 DEF NetworkInv
  <2>4. \A w, other \in Client :
           socket'[w] # None /\ socket'[w] = socket'[other] => w = other
    BY <2>1, <2>2 DEF NetworkInv
  <2> QED
    BY <2>1, <2>2, <2>3, <2>4 DEF NetworkInv
<1>5. ASSUME NEW c \in Connection, ConnectionBreaks(c)
      PROVE  NetworkInv'
  <2>1. /\ UNCHANGED <<socket, used, authenticated>> /\ clients' = clients \ {c}
        /\ inbox' = [inbox EXCEPT ![c] = <<>>]
    BY <1>5 DEF ConnectionBreaks
  <2>2. <<>> \in Seq(Batches)
    OBVIOUS
  <2>3. inbox' \in [Connection -> Seq(Batches)]
    BY <2>1, <2>2 DEF NetworkInv
  <2>4. \A d \in Connection : inbox'[d] # <<>> => d \in clients'
    BY <2>1 DEF NetworkInv
  <2> QED
    BY <2>1, <2>3, <2>4 DEF NetworkInv
<1>6. ASSUME NEW who \in Client, ClientSeesClose(who)
      PROVE  NetworkInv'
  <2>1. socket' = [socket EXCEPT ![who] = None] /\ UNCHANGED serverVars
    BY <1>6 DEF ClientSeesClose
  <2>2. /\ socket' \in [Client -> Connection \cup {None}]
        /\ \A w \in Client : socket'[w] = IF w = who THEN None ELSE socket[w]
    BY <2>1 DEF NetworkInv
  <2> QED
    BY <2>1, <2>2 DEF NetworkInv, serverVars
<1>7. ASSUME NEW who \in Client, Receive(who)
      PROVE  NetworkInv'
  <2> DEFINE c == socket[who]
  <2>1. /\ UNCHANGED <<socket, used, clients, authenticated>> /\ c # None
        /\ inbox[c] # <<>> /\ inbox' = [inbox EXCEPT ![c] = Tail(inbox[c])]
    BY <1>7 DEF Receive
  <2>2. c \in Connection /\ inbox[c] \in Seq(Batches)
    BY <2>1 DEF NetworkInv
  <2> HIDE DEF c
  <2>3. Tail(inbox[c]) \in Seq(Batches)
    BY <2>1, <2>2
  <2>4. inbox' \in [Connection -> Seq(Batches)]
    BY <2>1, <2>3 DEF NetworkInv
  <2>5. \A d \in Connection : inbox'[d] # <<>> => d \in clients'
    BY <2>1, <2>2 DEF NetworkInv
  <2> QED
    BY <2>1, <2>4, <2>5 DEF NetworkInv
<1>8. CASE Network
  BY <1>4, <1>5, <1>6, <1>7, <1>8 DEF Network
<1>9. CASE UNCHANGED vars
  BY <1>9 DEF vars, serverVars, NetworkInv
<1> QED
  BY <1>2, <1>3, <1>8, <1>9 DEF Next

LEMMA SomeMissedArePages ==
    ASSUME PageInv, SomeMissed
    PROVE  missed' \subseteq Page
BY DEF PageInv, SomeMissed, MissedBy

\* The pages stay good: what reaches one is a batch.
LEMMA PageInvInductive ==
    ASSUME NetworkInv, PageInv, [Next]_vars
    PROVE  PageInv'
<1>1. CASE Agent
  <2>1. UNCHANGED <<authType, provided, page>>
    BY <1>1, AgentSends DEF Agent, SameConnections, configVars
  <2>2. missed' \subseteq Page
    BY <1>1, AgentSends, SomeMissedArePages DEF Agent
  <2> QED
    BY <2>1, <2>2 DEF PageInv
<1>2. CASE Users
  <2>1. UNCHANGED <<authType, provided>> /\ missed' \subseteq Page
    BY <1>2, UserSends, SomeMissedArePages DEF SameConnections, configVars
  <2>2. \A p \in Page : page[p] \in GoodPage /\ sendMessage(page[p]) \in GoodPage
    BY DEF PageInv, sendMessage, GoodPage
  <2>3. CASE page' = page
    BY <2>1, <2>3 DEF PageInv
  <2>4. ASSUME NEW who \in Client,
               page' = [p \in Page |-> IF p = who THEN sendMessage(page[p]) ELSE page[p]]
        PROVE  PageInv'
    BY <2>1, <2>2, <2>4 DEF PageInv
  <2> QED
    BY <1>2, <2>3, <2>4, UserSends
<1>3. ASSUME NEW who \in Client, Receive(who)
      PROVE  PageInv'
  <2> DEFINE c == socket[who]
  <2>1. /\ UNCHANGED <<authType, provided, missed>> /\ c # None /\ inbox[c] # <<>>
        /\ page' = [p \in Page |->
                      IF p = who THEN HandleAll(page[p], Head(inbox[c])) ELSE page[p]]
    BY <1>3 DEF Receive, configVars
  <2>2. c \in Connection /\ inbox[c] \in Seq(Batches)
    BY <2>1 DEF NetworkInv
  <2> HIDE DEF c
  <2>3. Head(inbox[c]) \in Batches
    BY <2>1, <2>2
  <2>4. \A p \in Page : HandleAll(page[p], Head(inbox[c])) \in GoodPage
    BY <2>3, BatchCounts DEF PageInv
  <2> QED
    BY <2>1, <2>4 DEF PageInv
<1>4. ASSUME NEW who \in Client, NEW c \in Connection,
             \/ handleConnection(who, c) \/ ConnectionBreaks(c) \/ ClientSeesClose(who)
      PROVE  PageInv'
  <2>1. UNCHANGED <<authType, provided, page>>
    BY <1>4 DEF handleConnection, ConnectionBreaks, ClientSeesClose, configVars
  <2>2. missed' \subseteq Page
    BY <1>4 DEF handleConnection, ConnectionBreaks, ClientSeesClose, MissedBy, PageInv
  <2> QED
    BY <2>1, <2>2 DEF PageInv
<1>5. ASSUME NEW c \in Connection, ConnectionBreaks(c)
      PROVE  PageInv'
  BY <1>5 DEF ConnectionBreaks, MissedBy, PageInv, configVars
<1>6. ASSUME NEW who \in Client, ClientSeesClose(who)
      PROVE  PageInv'
  BY <1>6 DEF ClientSeesClose, PageInv, configVars
<1>7. CASE Network
  BY <1>3, <1>4, <1>5, <1>6, <1>7 DEF Network
<1>8. CASE UNCHANGED vars
  BY <1>8 DEF vars, PageInv, configVars
<1> QED
  BY <1>1, <1>2, <1>7, <1>8 DEF Next

-----------------------------------------------------------------------------
(* Runs and queues.                                                        *)

LEMMA FreshRuns ==
    /\ Idle \in [phase : {"none", "thinking", "streaming", "tools"}, drained : BOOLEAN,
                 stopped : BOOLEAN, iteration : 0..MaxIterations]
    /\ \A drained \in BOOLEAN :
          Begin(drained) \in [phase : {"none", "thinking", "streaming", "tools"},
                              drained : BOOLEAN, stopped : BOOLEAN,
                              iteration : 0..MaxIterations]
BY GatewayAssumption DEF Idle, Begin

\* No run goes beyond its last iteration.
LEMMA AgentKeepsRuns ==
    ASSUME RunsInv, NEW s \in Session, TextChunk(s) \/ RunStep(s) \/ DrainNext(s) \/ AgentAborts(s)
    PROVE  RunsInv'
<1> DEFINE Runs == [phase : {"none", "thinking", "streaming", "tools"}, drained : BOOLEAN,
                    stopped : BOOLEAN, iteration : 0..MaxIterations]
<1>0. /\ run[s] \in Runs /\ Idle \in Runs
      /\ [run[s] EXCEPT !.phase = "streaming"] \in Runs
      /\ [run[s] EXCEPT !.phase = "tools"] \in Runs
  BY FreshRuns DEF RunsInv
<1>1. ASSUME NEW r \in Runs, run' = [run EXCEPT ![s] = r], UNCHANGED <<messages, waiting>>
      PROVE  RunsInv'
  BY <1>1 DEF RunsInv
<1>2. CASE TextChunk(s)
  <2>1. /\ UNCHANGED <<messages, waiting>>
        /\ run' = run \/ run' = [run EXCEPT ![s].phase = "streaming"]
    BY <1>2 DEF TextChunk
  <2>2. [run EXCEPT ![s].phase = "streaming"] =
           [run EXCEPT ![s] = [run[s] EXCEPT !.phase = "streaming"]]
    OBVIOUS
  <2>3. CASE run' = run
    BY <2>1, <2>3 DEF RunsInv
  <2> HIDE DEF Runs
  <2> QED
    BY <1>0, <1>1, <2>1, <2>2, <2>3
<1>3. CASE ToolCalls(s)
  <2>1. /\ UNCHANGED <<messages, waiting>>
        /\ \/ run' = [run EXCEPT ![s] = Idle]
           \/ run' = [run EXCEPT ![s] = [run[s] EXCEPT !.phase = "tools"]]
    BY <1>3 DEF ToolCalls, agentStepVars
  <2> HIDE DEF Runs
  <2> QED
    BY <1>0, <1>1, <2>1
<1>4. CASE ToolResults(s)
  <2> DEFINE next == [run[s] EXCEPT !.phase = "thinking", !.iteration = run[s].iteration + 1]
  <2>1. /\ UNCHANGED <<messages, waiting>>
        /\ \/ run' = [run EXCEPT ![s] = Idle]
           \/ ~LastIteration(s) /\ run' = [run EXCEPT ![s] = next]
    BY <1>4 DEF ToolResults, agentStepVars
  <2>2. ASSUME ~LastIteration(s)
        PROVE  next \in Runs
    <3>1. run[s].iteration \in 0..MaxIterations /\ run[s].iteration # MaxIterations
      BY <1>0, <2>2 DEF LastIteration
    <3>2. run[s].iteration + 1 \in 0..MaxIterations
      BY <3>1, GatewayAssumption
    <3> QED
      BY <1>0, <3>2
  <2> HIDE DEF Runs, next
  <2> QED
    BY <1>0, <1>1, <2>1, <2>2
<1>5. CASE FinalResponse(s) \/ AbortAtChunk(s) \/ StreamThrows(s)
  <2>1. UNCHANGED <<messages, waiting>> /\ run' = [run EXCEPT ![s] = Idle]
    BY <1>5 DEF FinalResponse, AbortAtChunk, StreamThrows, EndRun, agentStepVars
  <2> HIDE DEF Runs
  <2> QED
    BY <1>0, <1>1, <2>1
<1>6. CASE DrainNext(s)
  <2>1. /\ waiting[s] > 0 /\ waiting' = [waiting EXCEPT ![s] = waiting[s] - 1]
        /\ run' = [run EXCEPT ![s] = Begin(TRUE)] /\ UNCHANGED messages
    BY <1>6 DEF DrainNext, agentStepVars
  <2>2. run' \in [Session -> Runs]
    <3>1. Begin(TRUE) \in Runs
      BY FreshRuns
    <3> HIDE DEF Runs
    <3> QED
      BY <2>1, <3>1 DEF RunsInv, Runs
  <2>3. waiting[s] - 1 \in 0..MaxMessages /\ waiting[s] - 1 <= messages
    <3>1. waiting[s] \in 0..MaxMessages /\ waiting[s] <= messages /\ messages \in Nat
      BY DEF RunsInv
    <3> QED
      BY <2>1, <3>1, GatewayAssumption
  <2>4. waiting' \in [Session -> 0..MaxMessages] /\ \A t \in Session : waiting'[t] <= messages
    BY <2>1, <2>3 DEF RunsInv
  <2> QED
    BY <2>1, <2>2, <2>4 DEF RunsInv
<1>7. CASE AgentAborts(s)
  <2>1. UNCHANGED <<messages, waiting>> /\ run' = [run EXCEPT ![s].stopped = TRUE]
    BY <1>7 DEF AgentAborts, abortSession
  <2>2. [run EXCEPT ![s].stopped = TRUE] =
           [run EXCEPT ![s] = [run[s] EXCEPT !.stopped = TRUE]]
    OBVIOUS
  <2>3. [run[s] EXCEPT !.stopped = TRUE] \in Runs
    BY <1>0
  <2> HIDE DEF Runs
  <2> QED
    BY <1>1, <2>1, <2>2, <2>3
<1> QED
  BY <1>2, <1>3, <1>4, <1>5, <1>6, <1>7 DEF RunStep

\* What is queued was given to an agent.
LEMMA InboundKeepsRuns ==
    ASSUME RunsInv, NEW s \in Session, Inbound(s) \/ StopInbound(s)
    PROVE  RunsInv'
<1> USE GatewayAssumption DEF RunsInv
<1>1. CASE Inbound(s)
  <2>1. messages < MaxMessages /\ messages' = messages + 1
    BY <1>1 DEF Inbound
  <2>2. CASE Busy(s)
    <3>1. waiting' = [waiting EXCEPT ![s] = waiting[s] + 1] /\ run' = run
      BY <1>1, <2>2 DEF Inbound
    <3>2. waiting[s] + 1 \in 0..MaxMessages /\ waiting[s] + 1 <= messages'
      BY <2>1
    <3> QED
      BY <2>1, <3>1, <3>2
  <2>3. CASE ~Busy(s)
    <3>1. /\ waiting' = waiting
          /\ run' = run \/ run' = [run EXCEPT ![s] = Begin(FALSE)]
      BY <1>1, <2>3 DEF Inbound
    <3> QED
      <4>1. waiting' \in [Session -> 0..MaxMessages]
            /\ \A t \in Session : waiting'[t] <= messages'
        BY <2>1, <3>1
      <4>2. run' \in [Session -> [phase : {"none", "thinking", "streaming", "tools"},
                                  drained : BOOLEAN, stopped : BOOLEAN,
                                  iteration : 0..MaxIterations]]
        BY <3>1, FreshRuns
      <4>3. messages' \in 0..MaxMessages
        BY <2>1
      <4> QED
        BY <4>1, <4>2, <4>3
  <2> QED
    BY <2>2, <2>3
<1>2. CASE StopInbound(s)
  <2>1. /\ waiting' = [waiting EXCEPT ![s] = 0] /\ UNCHANGED messages
        /\ run' = [run EXCEPT ![s].stopped = TRUE]
    BY <1>2 DEF StopInbound, abortSession
  <2>2. waiting' \in [Session -> 0..MaxMessages] /\ \A t \in Session : waiting'[t] <= messages
    BY <2>1
  <2> QED
    BY <2>1, <2>2
<1> QED
  BY <1>1, <1>2

LEMMA RunsInvInductive ==
    ASSUME NetworkInv, RunsInv, [Next]_vars
    PROVE  RunsInv'
<1>1. ASSUME UNCHANGED agentVars
      PROVE  RunsInv'
  BY <1>1 DEF agentVars, RunsInv
<1>2. CASE Network
  BY <1>1, <1>2 DEF Network, handleConnection, ConnectionBreaks, ClientSeesClose, Receive
<1>3. CASE Agent
  BY <1>3, AgentKeepsRuns DEF Agent
<1>4. ASSUME NEW who \in Client, Chat(who) \/ Stop(who)
      PROVE  RunsInv'
  <2>1. socket[who] \in Session
    BY <1>4 DEF Chat, Stop, NetworkInv, Session
  <2> QED
    BY <1>1, <1>4, <2>1, InboundKeepsRuns DEF Chat, Stop
<1>5. ASSUME NEW r \in Request, Complete(r)
      PROVE  RunsInv'
  BY <1>5, InboundKeepsRuns DEF Complete, Session
<1>6. CASE Users
  BY <1>1, <1>4, <1>5, <1>6 DEF Users, Authenticate, Timeout
<1>7. CASE UNCHANGED vars
  BY <1>1, <1>7 DEF vars
<1> QED
  BY <1>2, <1>3, <1>6, <1>7 DEF Next

-----------------------------------------------------------------------------
(* The two theorems.                                                       *)

GatewayInv == NetworkInv /\ PageInv /\ RunsInv /\ SubscriptionsInv

LEMMA GatewayInvHolds == Spec => []GatewayInv
<1>1. Init => GatewayInv
  <2> SUFFICES ASSUME Init PROVE GatewayInv
    OBVIOUS
  <2>1. NetworkInv
    BY DEF Init, NetworkInv
  <2>2. PageInv
    BY DEF Init, PageInv, FreshPage, GoodPage, NoBubble
  <2>3. RunsInv
    BY FreshRuns, GatewayAssumption DEF Init, RunsInv
  <2>4. SubscriptionsInv
    BY DEF Init, SubscriptionsInv, NoLeakedSubscription
  <2> QED
    BY <2>1, <2>2, <2>3, <2>4 DEF GatewayInv
<1>2. GatewayInv /\ [Next]_vars => GatewayInv'
  BY NetworkInvInductive, PageInvInductive, RunsInvInductive, SubscriptionsInductive
     DEF GatewayInv
<1> QED
  BY <1>1, <1>2, PTL DEF Spec

\* For any clients, calls and bounds, in every state: clients hold connections
\* there have been, what is in flight is what agents emit, runs stay within
\* MAX_TOOL_ITERATIONS, and no session queues more than it was given.
THEOREM GatewayTypeCorrect == Spec => []TypeOK
<1>1. GatewayInv => TypeOK
  <2> SUFFICES ASSUME GatewayInv PROVE TypeOK
    OBVIOUS
  <2>1. \A batch \in Batches : batch \in Seq(Events)
    <3>1. \A d \in Events : <<d>> \in Seq(Events)
      OBVIOUS
    <3>2. \A d, e \in Events : <<d, e>> \in Seq(Events)
      OBVIOUS
    <3>3. \A d, e, f \in Events : <<d, e, f>> \in Seq(Events)
      OBVIOUS
    <3>4. {"stream_start", "stream_delta", "stream_end", "intermediate", "message",
           "aborted"} \subseteq Events
      BY DEF Events
    <3> QED
      BY <3>1, <3>2, <3>3, <3>4 DEF Batches
  <2>2. \A c \in Connection : inbox[c] \in Seq(Seq(Events))
    <3> TAKE c \in Connection
    <3>1. inbox[c] \in Seq(Batches)
      BY DEF GatewayInv, NetworkInv
    <3>2. inbox[c] = [i \in 1..Len(inbox[c]) |-> inbox[c][i]]
          /\ Len(inbox[c]) \in Nat
          /\ \A i \in 1..Len(inbox[c]) : inbox[c][i] \in Seq(Events)
      BY <2>1, <3>1
    <3> QED
      BY <3>1, <3>2, <2>1
  <2> QED
    BY <2>2 DEF GatewayInv, NetworkInv, PageInv, RunsInv, SubscriptionsInv, TypeOK
<1> QED
  BY <1>1, GatewayInvHolds, PTL

\* What is received is not what was in flight, nor more than that.
LEMMA TailDiffers ==
    ASSUME NEW S, NEW q \in Seq(S), q # <<>>, NEW e \in S
    PROVE  Tail(q) # q /\ Append(q, e) # Tail(q)
<1>1. Len(Tail(q)) = Len(q) - 1 /\ Len(q) \in Nat /\ Len(Append(q, e)) = Len(q) + 1
  OBVIOUS
<1>2. ASSUME Tail(q) = q PROVE FALSE
  <2>1. Len(Tail(q)) = Len(q)
    BY <1>2, Zenon
  <2> QED
    BY <1>1, <2>1
<1>3. ASSUME Append(q, e) = Tail(q) PROVE FALSE
  <2>1. Len(Append(q, e)) = Len(Tail(q))
    BY <1>3, Zenon
  <2> QED
    BY <1>1, <2>1
<1> QED
  BY <1>2, <1>3

LEMMA TailOfBatches ==
    \A q \in Seq(Batches) : q # <<>> =>
       q # Tail(q) /\ \A batch \in Batches : Append(q, batch) # Tail(q)
<1>1. \E batch : batch \in Batches
  BY DEF Batches
<1> QED
  BY <1>1, TailDiffers, Zenon

\* A step that only adds to what is in flight brings nothing to a page.
LEMMA NothingReceived ==
    ASSUME NetworkInv, Sent, UNCHANGED socket, NEW p \in Page
    PROVE  Received(p) = 0
<1> DEFINE c == socket[p]
<1> SUFFICES ASSUME c # None, inbox[c] # <<>>
             PROVE  inbox'[c] # Tail(inbox[c])
  BY DEF Received
<1>1. c \in Connection
  BY DEF NetworkInv, Client
<1>2. inbox[c] \in Seq(Batches)
  BY <1>1 DEF NetworkInv
<1> HIDE DEF c
<1>3. /\ inbox[c] # Tail(inbox[c])
      /\ \A batch \in Batches : Append(inbox[c], batch) # Tail(inbox[c])
  BY <1>2, TailOfBatches
<1>4. CASE inbox' = inbox
  BY <1>3, <1>4
<1>5. ASSUME NEW batch \in Batches, broadcastToClients(batch)
      PROVE  inbox'[c] # Tail(inbox[c])
  <2>1. inbox'[c] = inbox[c] \/ inbox'[c] = Append(inbox[c], batch)
    BY <1>1, <1>5 DEF broadcastToClients
  <2> QED
    BY <1>3, <2>1
<1> QED
  BY <1>4, <1>5 DEF Sent

\* What the page's user writes is no answer.
LEMMA AnswersOfAStep ==
    ASSUME GatewayInv, [Next]_vars, NEW p \in Page
    PROVE  page'[p].answers = page[p].answers + Received(p)
<1>0. page[p] \in GoodPage /\ page[p].answers \in Nat
  BY DEF GatewayInv, PageInv, GoodPage
<1>1. CASE Agent
  <2>1. page' = page /\ Sent /\ UNCHANGED socket
    BY <1>1, AgentSends DEF Agent, SameConnections
  <2> QED
    BY <1>0, <2>1, NothingReceived DEF GatewayInv
<1>2. CASE Users
  <2>1. Sent /\ UNCHANGED socket
    BY <1>2, UserSends DEF SameConnections, GatewayInv
  <2>2. sendMessage(page[p]).answers = page[p].answers
    BY <1>0 DEF sendMessage, GoodPage
  <2>3. page'[p] = page[p] \/ page'[p] = sendMessage(page[p])
    BY <1>2, UserSends DEF GatewayInv
  <2> QED
    BY <1>0, <2>1, <2>2, <2>3, NothingReceived DEF GatewayInv
<1>3. ASSUME NEW who \in Client, Receive(who)
      PROVE  page'[p].answers = page[p].answers + Received(p)
  <2> DEFINE c == socket[who]
  <2>1. /\ UNCHANGED <<socket, clients>> /\ c # None /\ inbox[c] # <<>>
        /\ page'[p] = IF p = who THEN HandleAll(page[p], Head(inbox[c])) ELSE page[p]
        /\ inbox' = [inbox EXCEPT ![c] = Tail(inbox[c])]
    BY <1>3 DEF Receive
  <2>2. c \in Connection /\ inbox[c] \in Seq(Batches) /\ c \in clients
    BY <2>1 DEF GatewayInv, NetworkInv
  <2>3. CASE p = who
    <3>1. inbox'[c] = Tail(inbox[c])
      BY <2>1, <2>2 DEF GatewayInv, NetworkInv
    <3>2. Received(p) = Cardinality({i \in DOMAIN Head(inbox[c]) :
                                       Head(inbox[c])[i] = "message"})
      BY <2>1, <2>2, <2>3, <3>1 DEF Received
    <3> HIDE DEF c
    <3>3. Head(inbox[c]) \in Batches
      BY <2>1, <2>2
    <3>4. HandleAll(page[p], Head(inbox[c])).answers = page[p].answers + Received(p)
      BY <1>0, <3>2, <3>3, BatchCounts
    <3> QED
      BY <2>1, <2>3, <3>4
  <2>4. CASE p # who
    <3>1. socket[p] # None => socket[p] \in Connection /\ socket[p] # c
      BY <2>1, <2>4 DEF GatewayInv, NetworkInv, Client
    <3>2. socket[p] # None => inbox'[socket[p]] = inbox[socket[p]]
      BY <2>1, <3>1 DEF GatewayInv, NetworkInv
    <3>3. socket[p] # None /\ inbox[socket[p]] # <<>> =>
             inbox[socket[p]] # Tail(inbox[socket[p]])
      <4>1. socket[p] # None => inbox[socket[p]] \in Seq(Batches)
        BY <3>1 DEF GatewayInv, NetworkInv
      <4> QED
        BY <4>1, TailOfBatches
    <3>4. Received(p) = 0
      BY <3>2, <3>3 DEF Received
    <3> QED
      BY <1>0, <2>1, <2>4, <3>4
  <2> QED
    BY <2>3, <2>4
<1>4. ASSUME NEW c \in Connection, ConnectionBreaks(c)
      PROVE  page'[p].answers = page[p].answers + Received(p)
  <2>1. /\ UNCHANGED <<socket, page>> /\ clients' = clients \ {c}
        /\ inbox' = [inbox EXCEPT ![c] = <<>>]
    BY <1>4 DEF ConnectionBreaks
  <2> DEFINE mine == socket[p]
  <2>2. CASE mine \in clients'
    <3>1. mine \in Connection /\ mine # c
      BY <2>1, <2>2 DEF GatewayInv, NetworkInv
    <3>2. inbox'[mine] = inbox[mine] /\ inbox[mine] \in Seq(Batches)
      BY <2>1, <3>1 DEF GatewayInv, NetworkInv
    <3> HIDE DEF mine
    <3>3. inbox[mine] # <<>> => inbox[mine] # Tail(inbox[mine])
      BY <3>2, TailOfBatches
    <3>4. inbox[mine] # <<>> => inbox'[mine] # Tail(inbox[mine])
      BY <3>2, <3>3
    <3>5. Received(p) = 0
      BY <3>4 DEF Received, mine
    <3> QED
      BY <1>0, <2>1, <3>5
  <2>3. CASE mine \notin clients'
    <3>1. Received(p) = 0
      BY <2>3 DEF Received
    <3> QED
      BY <1>0, <2>1, <3>1
  <2> QED
    BY <2>2, <2>3
<1>5. ASSUME UNCHANGED <<inbox, page>>
      PROVE  page'[p].answers = page[p].answers + Received(p)
  <2> DEFINE mine == socket[p]
  <2>1. mine # None => mine \in Connection /\ inbox[mine] \in Seq(Batches)
    BY DEF GatewayInv, NetworkInv, Client
  <2> HIDE DEF mine
  <2>2. mine # None /\ inbox[mine] # <<>> => inbox[mine] # Tail(inbox[mine])
    BY <2>1, TailOfBatches
  <2>3. mine # None /\ inbox[mine] # <<>> => inbox'[mine] # Tail(inbox[mine])
    BY <1>5, <2>2
  <2>4. Received(p) = 0
    BY <2>3 DEF Received, mine
  <2> QED
    BY <1>0, <1>5, <2>4
<1>6. CASE Network
  BY <1>3, <1>4, <1>5, <1>6 DEF Network, handleConnection, ClientSeesClose, serverVars
<1>7. CASE UNCHANGED vars
  BY <1>5, <1>7 DEF vars, serverVars
<1> QED
  BY <1>1, <1>2, <1>6, <1>7 DEF Next

\* For any pages, however many sessions' streams, answers, errors and aborts mix
\* in them and however often their connections break: an answer that reaches a
\* page adds one that can be read there, and nothing else adds or takes one away
\* (ui/index.html 268-352).
THEOREM AnswersCanBeRead == Spec => AnswersStay
<1>1. GatewayInv /\ [Next]_vars =>
         [\A p \in Page : page'[p].answers = page[p].answers + Received(p)]_vars
  BY AnswersOfAStep
<1> QED
  BY <1>1, GatewayInvHolds, PTL DEF Spec, AnswersStay

=============================================================================
