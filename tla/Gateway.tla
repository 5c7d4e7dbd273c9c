------------------------------ MODULE Gateway ------------------------------
(***************************************************************************)
(* The gateway (gateway/server.ts, ws-handler.ts, routes.ts) between its    *)
(* pages, the callers of its completions endpoint and the agents.           *)
(*                                                                         *)
(* A connection gives its messages the user webchat:<client id>, so each    *)
(* connection is a session of its own; what the agents say is broadcast to  *)
(* every connection, whoever asked.  An agent is reduced to the events it   *)
(* emits for a session (AgentRunner has the rest).  ApiSession is the one   *)
(* of the completions endpoint; conversations of channels are like it.      *)
(***************************************************************************)
EXTENDS WebUI, FiniteSets

CONSTANTS
    Page,           \* pages of ui/index.html, which never send a token
    Tool,           \* clients of someone's own, which may
    MaxConnections, \* bound on the connections there will ever be
    MaxRequests,    \* bound on the calls of /v1/chat/completions
    ApiSession,
    AuthTypes,      \* the values of security.auth.type to look at
    Provided,       \* whether agents[0] has a provider: the cases to look at
    MaxMessages,    \* bound on the messages agents are given
    MaxIterations,  \* MAX_TOOL_ITERATIONS (1000)
    MaxInFlight,    \* bound on what a connection has in flight
    None

ASSUME GatewayAssumption ==
    /\ AuthTypes \subseteq {"none", "token"} /\ Provided \subseteq BOOLEAN
    /\ MaxMessages \in Nat /\ MaxIterations \in Nat \ {0} /\ MaxInFlight \in Nat
    /\ Page \cap Tool = {}
    /\ MaxConnections \in Nat /\ MaxRequests \in Nat
    /\ ApiSession \notin Nat /\ None \notin Nat

Client     == Page \cup Tool
Connection == 1..MaxConnections  \* client ids, in the order they are made
Request    == 1..MaxRequests
Session    == Connection \cup {ApiSession}

VARIABLES
    authType,       \* config.security.auth.type
    provided,       \* the agent of pages and completions has a provider
    socket,         \* the connection each client has
    used,           \* the connections there have been
    clients,        \* those in the server's map, that have not broken
    authenticated,  \* those whose client is authenticated
    inbox,          \* what a connection has in flight to its client
    page,           \* the pages (WebUI)
    run,            \* what each session's agent is doing
    waiting,        \* how many messages a session has queued
    messages,       \* how many messages were given to agents
    request,        \* the completions calls
    subscriptions,  \* the calls that wait on the bus for agent:response
    missed          \* pages that nothing may tell any more that their wait is over

configVars  == <<authType, provided>>
serverVars  == <<used, clients, authenticated, inbox>>
agentVars   == <<run, waiting, messages>>
apiVars     == <<request, subscriptions>>
vars == <<configVars, socket, serverVars, page, agentVars, apiVars, missed>>

Idle == [phase |-> "none", drained |-> FALSE, stopped |-> FALSE, iteration |-> 0]

Init ==
    /\ authType \in AuthTypes /\ provided \in Provided
    /\ socket = [c \in Client |-> None]
    /\ used = {} /\ clients = {} /\ authenticated = {}
    /\ inbox = [c \in Connection |-> <<>>]
    /\ page = [p \in Page |-> FreshPage]
    /\ run = [s \in Session |-> Idle]
    /\ waiting = [s \in Session |-> 0]
    /\ messages = 0
    /\ request = [r \in Request |-> "idle"]
    /\ subscriptions = {}
    /\ missed = {}

\* The page of session s may wait for what nothing will tell it.
MissedBy(s) == missed' = missed \cup {p \in Page : socket[p] = s}

-----------------------------------------------------------------------------
(* Connections.                                                            *)

\* A tool is of interest only where there is a token to send.
\* connect() of the page, at first or 3 s after its socket closed, and
\* handleConnection.
handleConnection(who, c) ==
    /\ socket[who] = None
    /\ who \in Page \/ authType = "token"
    /\ c \notin used /\ \A d \in 1..(c - 1) : d \in used
    /\ socket' = [socket EXCEPT ![who] = c]
    /\ used' = used \cup {c}
    /\ clients' = clients \cup {c}
    /\ authenticated' = IF authType = "none" THEN authenticated \cup {c} ELSE authenticated
    /\ UNCHANGED <<configVars, inbox, page, agentVars, apiVars, missed>>

\* The auth message with the token, which only a tool sends.
Authenticate(who) ==
    /\ who \in Tool /\ socket[who] # None
    /\ socket[who] \in clients
    /\ authenticated' = authenticated \cup {socket[who]}
    /\ UNCHANGED <<configVars, socket, used, clients, inbox, page, agentVars, apiVars, missed>>

\* The network fails: what is in flight is lost.  The server drops the client
\* when it learns of it; what it sends until then goes nowhere.
ConnectionBreaks(c) ==
    /\ c \in clients
    /\ clients' = clients \ {c}
    /\ inbox' = [inbox EXCEPT ![c] = <<>>]
    /\ MissedBy(c)
    /\ UNCHANGED <<configVars, socket, used, authenticated, page, agentVars, apiVars>>

\* ws.onclose on the page, which keeps its state.
ClientSeesClose(who) ==
    /\ socket[who] # None /\ socket[who] \notin clients
    /\ socket' = [socket EXCEPT ![who] = None]
    /\ UNCHANGED <<configVars, serverVars, page, agentVars, apiVars, missed>>

\* ws.onmessage.
Receive(who) ==
    /\ socket[who] # None
    /\ LET c == socket[who]
       IN  /\ inbox[c] # <<>>
           /\ page' = [p \in Page |->
                         IF p = who THEN HandleAll(page[p], Head(inbox[c])) ELSE page[p]]
           /\ inbox' = [inbox EXCEPT ![c] = Tail(@)]
    /\ UNCHANGED <<configVars, socket, used, clients, authenticated, agentVars, apiVars, missed>>

-----------------------------------------------------------------------------
(* What the agents emit.                                                   *)

\* The clients broadcastToClients sends to.
Listeners == clients \cap authenticated

\* What an agent emits in one go: the messages come one by one, but nothing that
\* the page does between two of them could not as well come before or after.
broadcastToClients(events) ==
    /\ \A c \in Listeners : Len(inbox[c]) < MaxInFlight
    /\ inbox' = [c \in Connection |->
                IF c \in Listeners THEN Append(inbox[c], events) ELSE inbox[c]]

\* agent:response resolves the first waitFor of every waiting call, whoever the
\* answer is for, and the once-subscriptions are gone.
Respond ==
    /\ request' = [r \in Request |-> IF r \in subscriptions THEN "answered" ELSE request[r]]
    /\ subscriptions' = {}

Busy(s) == run[s].phase # "none"

EndRun(s) == run' = [run EXCEPT ![s] = Idle]

Begin(drained) ==
    [phase |-> "thinking", drained |-> drained, stopped |-> FALSE, iteration |-> 1]

\* message:inbound with a chat: queued when the session is busy (message:queued
\* relabels the send button of every page), served, or, when the agent has no
\* provider, dropped without a word to anybody (agent-runner.ts 326-329).
Inbound(s) ==
    /\ messages < MaxMessages
    /\ messages' = messages + 1
    /\ \/ /\ Busy(s)
          /\ waiting' = [waiting EXCEPT ![s] = @ + 1]
          /\ UNCHANGED <<run, missed>>
       \/ /\ ~Busy(s) /\ provided
          /\ run' = [run EXCEPT ![s] = Begin(FALSE)]
          /\ UNCHANGED <<waiting, missed>>
       \/ /\ ~Busy(s) /\ ~provided
          /\ MissedBy(s)
          /\ UNCHANGED <<waiting, run>>
    /\ UNCHANGED inbox

\* abortSession, of a run that is under way (bound: a run that was aborted
\* before is aborted again only when nothing is in flight).
abortSession(s) ==
    /\ Busy(s)
    /\ run[s].stopped => \A c \in Connection : inbox[c] = <<>>
    /\ run' = [run EXCEPT ![s].stopped = TRUE]

\* message:inbound with a stop command.
StopInbound(s) ==
    /\ abortSession(s)
    /\ waiting' = [waiting EXCEPT ![s] = 0]
    /\ broadcastToClients(<<"aborted">>)
    /\ UNCHANGED <<messages, missed>>

\* agent:abort, which extensions can emit: unlike the stop command it keeps the
\* queue and tells nobody (agent-runner.ts 84-90).
AgentAborts(s) ==
    /\ ~run[s].stopped
    /\ abortSession(s)
    /\ MissedBy(s)
    /\ UNCHANGED <<configVars, serverVars, socket, page, waiting, messages, apiVars>>

\* A chunk of text; the first one of a stream starts it, and the others come (a
\* bound) when nothing is in flight.
TextChunk(s) ==
    /\ ~run[s].stopped
    /\ \/ /\ run[s].phase = "thinking"
          /\ run' = [run EXCEPT ![s].phase = "streaming"]
          /\ broadcastToClients(<<"stream_start", "stream_delta">>)
       \/ /\ run[s].phase = "streaming"
          /\ \A c \in Connection : inbox[c] = <<>>
          /\ broadcastToClients(<<"stream_delta">>)
          /\ UNCHANGED run
    /\ UNCHANGED <<configVars, socket, used, clients, authenticated, page, waiting,
                   messages, apiVars, missed>>

agentStepVars == <<configVars, socket, used, clients, authenticated, page, messages>>

\* The stream ends with tool calls: a text beside them is said, unless it is
\* taken for narration.
ToolCalls(s) ==
    /\ run[s].phase \in {"thinking", "streaming"}
    /\ \/ broadcastToClients(<<"stream_end">>)
       \/ run[s].phase = "streaming" /\ broadcastToClients(<<"stream_end", "intermediate">>)
    /\ run' = [run EXCEPT ![s] =
                 IF run[s].stopped THEN Idle ELSE [run[s] EXCEPT !.phase = "tools"]]
    /\ UNCHANGED <<agentStepVars, waiting, apiVars, missed>>

LastIteration(s) == run[s].iteration = MaxIterations

\* Mutant: one iteration too many.
ToolResultsOnceMore(s) ==
    /\ run[s].phase = "tools"
    /\ run' = [run EXCEPT ![s] =
                 IF run[s].stopped THEN Idle
                 ELSE [run[s] EXCEPT !.phase = "thinking",
                                     !.iteration = run[s].iteration + 1]]
    /\ UNCHANGED <<agentStepVars, inbox, waiting, apiVars, missed>>

\* The tools return: the end of a stopped run, the next iteration, or, after the
\* last one, an answer that says so.
ToolResults(s) ==
    /\ run[s].phase = "tools"
    /\ IF ~run[s].stopped /\ LastIteration(s)
       THEN broadcastToClients(<<"message">>) /\ Respond
       ELSE UNCHANGED <<inbox, apiVars>>
    /\ run' = [run EXCEPT ![s] =
                 IF run[s].stopped \/ LastIteration(s) THEN Idle
                 ELSE [run[s] EXCEPT !.phase = "thinking",
                                     !.iteration = run[s].iteration + 1]]
    /\ UNCHANGED <<agentStepVars, waiting, missed>>

\* The stream ends without tool calls: the final answer, even of a stopped run;
\* in the last iteration the answer that says so comes on top of it.
FinalResponse(s) ==
    /\ run[s].phase \in {"thinking", "streaming"}
    /\ broadcastToClients(IF LastIteration(s) THEN <<"stream_end", "message", "message">>
                          ELSE <<"stream_end", "message">>)
    /\ Respond
    /\ EndRun(s)
    /\ UNCHANGED <<agentStepVars, waiting, missed>>

\* A chunk reaches a stopped run.
AbortAtChunk(s) ==
    /\ run[s].phase \in {"thinking", "streaming"} /\ run[s].stopped
    /\ broadcastToClients(<<"stream_end">>)
    /\ EndRun(s)
    /\ UNCHANGED <<agentStepVars, waiting, apiVars, missed>>

\* Mutant: the error is not sent back as agent:response.
StreamThrowsSilently(s) ==
    /\ run[s].phase \in {"thinking", "streaming"}
    /\ EndRun(s)
    /\ UNCHANGED <<agentStepVars, inbox, waiting, apiVars, missed>>

\* The provider throws: answered with an error when the message came in
\* directly, with nothing the gateway listens to when it had been queued.
StreamThrows(s) ==
    /\ run[s].phase \in {"thinking", "streaming"}
    /\ IF run[s].drained
       THEN MissedBy(s) /\ UNCHANGED <<inbox, apiVars>>
       ELSE broadcastToClients(<<"message">>) /\ Respond /\ UNCHANGED missed
    /\ EndRun(s)
    /\ UNCHANGED <<agentStepVars, waiting>>

\* drainQueue takes the next message.
DrainNext(s) ==
    /\ ~Busy(s) /\ waiting[s] > 0
    /\ waiting' = [waiting EXCEPT ![s] = @ - 1]
    /\ run' = [run EXCEPT ![s] = Begin(TRUE)]
    /\ UNCHANGED <<agentStepVars, inbox, apiVars, missed>>

-----------------------------------------------------------------------------
(* What comes in.                                                          *)

\* The user of a page, or of a tool, writes.  The page shows that it waits,
\* whether the server takes the message (handleWsMessage), answers that it
\* wants a token, or never sees it.
Chat(who) ==
    /\ socket[who] # None
    /\ LET c == socket[who]
       IN IF c \in Listeners
          THEN Inbound(c)
          ELSE UNCHANGED <<agentVars, inbox, missed>>
    /\ page' = [p \in Page |-> IF p = who THEN sendMessage(page[p]) ELSE page[p]]
    /\ UNCHANGED <<configVars, socket, used, clients, authenticated, apiVars>>

Stop(who) ==
    /\ socket[who] # None
    /\ socket[who] \in Listeners
    /\ StopInbound(socket[who])
    /\ UNCHANGED <<configVars, socket, used, clients, authenticated, page, apiVars>>

\* POST /v1/chat/completions, with a message or with "stop".
Complete(r) ==
    /\ request[r] = "idle" /\ \A q \in 1..(r - 1) : request[q] # "idle"
    /\ request' = [request EXCEPT ![r] = "waiting"]
    /\ subscriptions' = subscriptions \cup {r}
    /\ Inbound(ApiSession) \/ StopInbound(ApiSession)
    /\ UNCHANGED <<configVars, socket, used, clients, authenticated, page>>

\* Mutant: waitFor rejects without unsub().
TimeoutLeavingSubscription(r) ==
    /\ request[r] = "waiting"
    /\ request' = [request EXCEPT ![r] = "timeout"]
    /\ UNCHANGED <<configVars, socket, serverVars, page, agentVars, subscriptions, missed>>

\* The 300 s of waitFor are over: 504.
Timeout(r) ==
    /\ request[r] = "waiting"
    /\ request' = [request EXCEPT ![r] = "timeout"]
    /\ subscriptions' = subscriptions \ {r}
    /\ UNCHANGED <<configVars, socket, serverVars, page, agentVars, missed>>

-----------------------------------------------------------------------------
Network ==
    \/ \E who \in Client, c \in Connection : handleConnection(who, c)
    \/ \E c \in Connection : ConnectionBreaks(c)
    \/ \E who \in Client : ClientSeesClose(who) \/ Receive(who)

\* The end of what a run awaits: the provider's stream, or the tools.
RunStep(s) ==
    \/ ToolCalls(s) \/ ToolResults(s) \/ FinalResponse(s)
    \/ AbortAtChunk(s) \/ StreamThrows(s)

Agent == \E s \in Session :
            TextChunk(s) \/ RunStep(s) \/ DrainNext(s) \/ AgentAborts(s)

Users ==
    \/ \E who \in Client : Authenticate(who) \/ Chat(who) \/ Stop(who)
    \/ \E r \in Request : Complete(r) \/ Timeout(r)

Next == Network \/ Agent \/ Users

\* A message on an open connection arrives, a stream and a tool end (the
\* provider and the tools have time limits), the queue is drained, and the
\* timer of waitFor fires.  Nobody has to write, and no connection has to hold.
Fairness ==
    /\ \A who \in Client : WF_vars(Receive(who))
    /\ \A s \in Session : WF_vars(RunStep(s)) /\ WF_vars(DrainNext(s))
    /\ \A r \in Request : WF_vars(Timeout(r))

Spec == Init /\ [][Next]_vars /\ Fairness
-----------------------------------------------------------------------------
(* Properties.                                                             *)

Events == {"stream_start", "stream_delta", "stream_end", "intermediate", "message",
           "aborted"}

\* The state of the gateway, of the bus and of the agents.
TypeOK ==
    /\ authType \in AuthTypes /\ provided \in Provided
    /\ socket \in [Client -> Connection \cup {None}]
    /\ clients \cup authenticated \subseteq used /\ used \subseteq Connection
    /\ \A c \in Connection : inbox[c] \in Seq(Seq(Events))
    /\ run \in [Session -> [phase : {"none", "thinking", "streaming", "tools"},
                            drained : BOOLEAN, stopped : BOOLEAN,
                            iteration : 0..MaxIterations]]
    /\ waiting \in [Session -> 0..MaxMessages] /\ messages \in 0..MaxMessages
    /\ request \in [Request -> {"idle", "waiting", "answered", "timeout"}]
    /\ missed \subseteq Page

\* The bus holds a subscription for each call that waits, and for no other: a
\* call that was answered with 504 leaves nothing behind, whichever of the
\* timer and the agents came first (event-bus.ts 131-143, routes.ts 59-88).
NoLeakedSubscription == subscriptions = {r \in Request : request[r] = "waiting"}

\* The answers in what reaches page p in this step.
Received(p) ==
    LET c == socket[p]
    IN  IF c # None /\ c \in clients' /\ inbox[c] # <<>> /\ inbox'[c] = Tail(inbox[c])
        THEN Cardinality({i \in DOMAIN Head(inbox[c]) : Head(inbox[c])[i] = "message"})
        ELSE 0

\* Each answer that reaches a page can be read there, once, and stays: no stream,
\* answer, error or abort of another session, however they mix in one page,
\* writes over it or takes it away (ui/index.html 268-352).
AnswersStay ==
    [][\A p \in Page :
          page'[p].answers = page[p].answers + Received(p)]_vars

\* A page that shows that it waits does not wait forever (ui/index.html 317-352),
\* but for the five ways the code leaves open: its connection broke, its message
\* failed after it had been queued (agent-runner.ts 256-268), its agent has no
\* provider (326-329), an extension aborted its run (84-90), or it has no token to
\* send.  The first four are what "missed" stands for.
BusyEnds ==
    \A p \in Page :
        page[p].busy ~> \/ ~page[p].busy
                        \/ p \in missed
                        \/ socket[p] \notin authenticated
=============================================================================
