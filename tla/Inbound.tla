------------------------------ MODULE Inbound ------------------------------
(***************************************************************************)
(* The way in: what the adapters take for a message (telegram, discord and  *)
(* whatsapp/adapter.ts), and what channels/router.ts lets through, and to   *)
(* which agent.                                                             *)
(*                                                                         *)
(* A platform's message is a record of what the adapters ask about it.  A   *)
(* user of the router is a pair of the platform and the platform's own id   *)
(* ("telegram:42"): two platforms never share a limit.  `time` counts units *)
(* of which a minute has Minute.                                            *)
(***************************************************************************)
EXTENDS Integers, Sequences, FiniteSets, FiniteSetsExt, Functions

CONSTANTS
    TelegramMessage,  \* [from, to]; from may be None
    DiscordMessage,   \* [from, to, guild, bot, mentioned, content]
    WhatsAppMessage,  \* [participant, remoteJid, fromMe, broadcast, content]
    allowedUsers, allowedGuilds, allowedChannels,  \* the adapters' configurations
    routing,          \* config.routing, a sequence of rules
    agents,           \* config.agents, a sequence
    maxPerMinute,     \* security.rateLimiting.maxPerMinute (30)
    Minute,
    MaxTime,          \* bound on the time
    None

ASSUME InboundAssumption ==
    /\ maxPerMinute \in Nat \ {0} /\ Minute \in Nat \ {0} /\ MaxTime \in Nat
    /\ None \notin [count : Nat, windowStart : Nat]
    /\ agents \in Seq(Range(agents))
    /\ routing \in Seq(Range(routing))
    /\ \A rule \in Range(routing) : rule.priority \in Int

User ==
    {<<"telegram", msg.from>> : msg \in {m \in TelegramMessage : m.from # None}}
        \cup {<<"discord", msg.from>> : msg \in DiscordMessage}
        \cup {<<"whatsapp", msg.participant>> : msg \in WhatsAppMessage}

VARIABLES
    time,
    rateLimits,   \* the router's map: [count, windowStart], or None
    deferring,    \* slash commands whose deferReply is awaited, as <<user, channel>>
    emitted       \* the message:inbound events of the last minute: [user, channel, agent, at],
                  \* told apart by the window and the count they were let through with

vars == <<time, rateLimits, deferring, emitted>>

TypeOK ==
    /\ time \in 0..MaxTime
    /\ rateLimits \in [User -> {None} \cup [count : Nat \ {0}, windowStart : 0..time]]
    /\ \A ask \in deferring : ask[1] \in User
    /\ \A event \in emitted :
           /\ event.user \in User /\ event.agent # None
           /\ event.at \in 0..time
           /\ rateLimits[event.user] # None

Init ==
    /\ time = 0
    /\ rateLimits = [u \in User |-> None]
    /\ deferring = {}
    /\ emitted = {}

Tick ==
    /\ time < MaxTime
    /\ time' = time + 1
    /\ emitted' = {event \in emitted : event.at + Minute > time}
    /\ UNCHANGED <<rateLimits, deferring>>

-----------------------------------------------------------------------------
(* The router.                                                             *)

\* The tests of the loop in resolveAgent: a rule without a channel or a user is
\* for all of them.
Matches(rule, user, channel) ==
    /\ rule.channelType = user[1]
    /\ rule.channelId \in {None, channel}
    /\ rule.userId \in {None, user}

\* Mutant: the sort has its operands swapped, a.priority - b.priority.
LowestFirst(i, j) ==
    \/ routing[i].priority < routing[j].priority
    \/ routing[i].priority = routing[j].priority /\ i < j

\* The constructor's sort by priority, highest first, is stable.
before(i, j) ==
    \/ routing[i].priority > routing[j].priority
    \/ routing[i].priority = routing[j].priority /\ i < j

routes ==
    LET rules == DOMAIN routing
        order == CHOOSE p \in [rules -> rules] :
                     \A i, j \in rules : i < j => before(p[i], p[j])
    IN  [k \in rules |-> routing[order[k]]]

\* The loop returns at the first rule that passes its tests.
resolveAgent(user, channel) ==
    LET matching == {k \in DOMAIN routes : Matches(routes[k], user, channel)}
    IN  IF matching # {} THEN routes[Min(matching)].agentId
        ELSE IF agents # <<>> THEN Head(agents) ELSE None

\* Mutant: the window is over a moment early.
WindowEndsEarly(limit) == limit = None \/ time - limit.windowStart >= Minute

WindowIsOver(limit) == limit = None \/ time - limit.windowStart > Minute

isRateLimited(user) ==
    ~WindowIsOver(rateLimits[user]) /\ rateLimits[user].count >= maxPerMinute

\* Mutant: the message that opens a window is not counted.
CountedFromTheSecond(user) ==
    [rateLimits EXCEPT ![user] =
        IF WindowIsOver(@) THEN [count |-> 0, windowStart |-> time]
        ELSE [count |-> @.count + 1, windowStart |-> @.windowStart]]

\* What isRateLimited does to the map.  A refused message is counted as well;
\* how far the count has passed the limit makes no difference and is not kept.
Counted(user) ==
    [rateLimits EXCEPT ![user] =
        IF WindowIsOver(@) THEN [count |-> 1, windowStart |-> time]
        ELSE IF @.count > maxPerMinute THEN @
        ELSE [count |-> @.count + 1, windowStart |-> @.windowStart]]

handleInbound(user, channel) ==
    LET agent == resolveAgent(user, channel)
        limit == Counted(user)[user]
    IN  /\ rateLimits' = Counted(user)
        /\ emitted' = IF isRateLimited(user) \/ agent = None THEN emitted
                      ELSE emitted \cup {[user |-> user, channel |-> channel,
                                         agent |-> agent, at |-> time,
                                         window |-> limit.windowStart,
                                         nth |-> limit.count]}

-----------------------------------------------------------------------------
(* The adapters.                                                           *)

isUserAllowed(id) == allowedUsers = {} \/ id \in allowedUsers

\* handleTextMessage, handlePhotoMessage, handleDocumentMessage and
\* handleVoiceMessage pass on any message of a user that is allowed.
TelegramArrives(msg) ==
    /\ msg.from # None /\ isUserAllowed(msg.from)
    /\ handleInbound(<<"telegram", msg.from>>, msg.to)
    /\ UNCHANGED <<time, deferring>>

\* handleMessage.  `content`: something is left once the mention is stripped, or
\* something is attached.
DiscordArrives(msg) ==
    /\ ~msg.bot
    /\ msg.guild # None /\ allowedGuilds # {} => msg.guild \in allowedGuilds
    /\ allowedChannels # {} => msg.to \in allowedChannels
    /\ msg.guild = None \/ msg.mentioned
    /\ msg.content
    /\ handleInbound(<<"discord", msg.from>>, msg.to)
    /\ UNCHANGED <<time, deferring>>

\* The command /ask, from the places a Discord message comes from.
Ask(msg) ==
    /\ ~msg.bot
    /\ deferring' = deferring \cup {<<<<"discord", msg.from>>, msg.to>>}
    /\ UNCHANGED <<time, rateLimits, emitted>>

\* Discord has answered deferReply: the message is made when it took it, and is
\* lost when it did not.
AskDeferred(ask) ==
    /\ deferring' = deferring \ {ask}
    /\ \/ handleInbound(ask[1], ask[2])
       \/ UNCHANGED <<rateLimits, emitted>>
    /\ UNCHANGED time

\* handleMessage of the WhatsApp adapter.
WhatsAppArrives(msg) ==
    /\ ~msg.fromMe /\ ~msg.broadcast
    /\ msg.content
    /\ handleInbound(<<"whatsapp", msg.participant>>, msg.remoteJid)
    /\ UNCHANGED <<time, deferring>>

Next ==
    \/ Tick
    \/ \E msg \in TelegramMessage : TelegramArrives(msg)
    \/ \E msg \in DiscordMessage : DiscordArrives(msg) \/ Ask(msg)
    \/ \E ask \in deferring : AskDeferred(ask)
    \/ \E msg \in WhatsAppMessage : WhatsAppArrives(msg)

Spec == Init /\ [][Next]_vars

-----------------------------------------------------------------------------
(* What the router promises to the agents.                                 *)

\* The limit is counted in windows that open with a user's first message after
\* the last one closed (isRateLimited, router.ts:246).  Whatever the moments at
\* which a user writes, in whichever chats and forms, no stretch of a minute
\* lets through more than the tail of one window and the whole of the next: the
\* first message of the old window is always more than a minute before the first
\* of the new one, so twice the limit is never reached.
RouterBound ==
    \A u \in User :
        Cardinality({event \in emitted : event.user = u}) <= 2 * maxPerMinute - 1

\* A message is answered by the agent of the most important rule that is about
\* it, the earlier in the configuration where two are as important, and by the
\* first agent when no rule is: never by one kept for another user or another
\* chat (resolveAgent, router.ts:221, "Rules are sorted by priority (highest
\* first). First match wins.").
About(rule, event) ==
    <<rule.channelType, rule.channelId, rule.userId>>
        \in {event.user[1]} \X {None, event.channel} \X {None, event.user}

RoutedByPriority ==
    \A event \in emitted :
        LET rules == {k \in DOMAIN routing : About(routing[k], event)}
        IN  IF rules = {} THEN event.agent = agents[1]
            ELSE \E k \in rules :
                    /\ event.agent = routing[k].agentId
                    /\ \A other \in rules \ {k} :
                          \/ routing[other].priority < routing[k].priority
                          \/ routing[other].priority = routing[k].priority /\ k < other
=============================================================================
