------------------------------ MODULE Channels ------------------------------
(***************************************************************************)
(* channels/router.ts with one adapter (channels/telegram, discord or       *)
(* whatsapp/adapter.ts): the adapter's connection, and the messages the     *)
(* router sends through it.  The router keeps its adapters in a map by type *)
(* and they share nothing, so one adapter, of a kind chosen at the start,   *)
(* shows what each of them does.                                            *)
(*                                                                         *)
(* The library behind an adapter (grammY, discord.js, Baileys) is known by  *)
(* the calls and callbacks of the adapter only; its events come in any      *)
(* order the adapter's code allows for.                                     *)
(***************************************************************************)
EXTENDS MessageUtils, FiniteSets

CONSTANTS
    Kind,           \* the adapters to look at
    Message,        \* ids of outbound messages
    Char,           \* the characters of a text
    Texts,          \* Texts[m]: the contents message m may have
    Files,          \* Files[m]: how many attachments it has
    MaxLength,      \* characters Discord takes in one message (2000)
    MaxReconnects,  \* maxReconnectAttempts (5)
    MaxSockets,     \* bound on the sockets the WhatsApp adapter ever makes
    None

ASSUME ChannelsAssumption ==
    /\ Kind \subseteq {"telegram", "discord", "whatsapp"}
    /\ Texts \in [Message -> SUBSET Seq(Char)] /\ "file" \notin Char
    /\ Files \in [Message -> Nat]
    /\ MaxLength \in Nat \ {0} /\ MaxReconnects \in Nat /\ MaxSockets \in Nat \ {0}
    /\ None \notin Nat

Socket == 1..MaxSockets

VARIABLES
    kind,        \* the adapter's type
    router,      \* startAll and stopAll: "idle", "starting", "up", "stopped"
    link,        \* this.bot, this.client or this.socket: a socket or None
    socket,      \* what the library does behind it
    connected,   \* this.connected
    connecting,  \* calls of connect() whose awaits are under way (WhatsApp)
    timers,      \* reconnect timers that are set
    attempts,    \* reconnectAttempts
    status,      \* where an outbound message is
    content,     \* its text
    shown        \* how many of its parts the platform has taken

adapterVars  == <<link, socket, connected, connecting, timers, attempts>>
outboundVars == <<status, content, shown>>
vars == <<kind, router, adapterVars, outboundVars>>

Init ==
    /\ kind \in Kind
    /\ router = "idle"
    /\ link = None
    /\ socket = [s \in Socket |-> "none"]
    /\ connected = FALSE
    /\ connecting = 0 /\ timers = 0 /\ attempts = 0
    /\ status = [m \in Message |-> "idle"]
    /\ content = [m \in Message |-> <<>>]
    /\ shown = [m \in Message |-> 0]

-----------------------------------------------------------------------------
(* Starting and stopping.                                                  *)

\* startAll subscribes to message:outbound and calls start().  Telegram's
\* start() does not wait for bot.start(); Discord's waits for login(),
\* WhatsApp's for the awaits of connect().
StartAll ==
    /\ router = "idle"
    /\ \/ /\ kind \in {"telegram", "discord"}
          /\ link' = 1
          /\ socket' = [socket EXCEPT ![1] = "pairing"]
          /\ UNCHANGED connecting
       \/ /\ kind = "whatsapp"
          /\ connecting' = 1
          /\ UNCHANGED <<link, socket>>
    /\ router' = IF kind = "telegram" THEN "up" ELSE "starting"
    /\ UNCHANGED <<kind, connected, timers, attempts, outboundVars>>

\* client.login settles; startAll only logs a rejection.
LoginSettles ==
    /\ kind = "discord" /\ router = "starting"
    /\ router' = "up"
    /\ \/ UNCHANGED socket
       \/ socket[1] = "pairing" /\ socket' = [socket EXCEPT ![1] = "closed"]
    /\ UNCHANGED <<kind, link, connected, connecting, timers, attempts, outboundVars>>

StartSettled == router' = IF router = "starting" THEN "up" ELSE router

\* The end of connect(), called by start() or by a reconnect timer: it does not
\* ask whether the adapter has been stopped meanwhile.
ConnectResolves ==
    /\ connecting > 0
    /\ \E s \in Socket :
          /\ socket[s] = "none"
          /\ \A t \in 1..(s - 1) : socket[t] # "none"
          /\ socket' = [socket EXCEPT ![s] = "pairing"]
          /\ link' = s
    /\ connecting' = connecting - 1
    /\ StartSettled
    /\ UNCHANGED <<kind, connected, timers, attempts, outboundVars>>

\* useMultiFileAuthState or fetchLatestBaileysVersion throws: logged, and nobody
\* tries again.
ConnectRejects ==
    /\ connecting > 0
    /\ connecting' = connecting - 1
    /\ StartSettled
    /\ UNCHANGED <<kind, link, socket, connected, timers, attempts, outboundVars>>

\* What stop() makes of a socket: grammY's onStart may still come when the bot
\* had not started, and Baileys reports the end of a socket by a "close" event.
Stopped(state) ==
    CASE kind = "telegram" /\ state = "pairing" -> "pairing"
      [] kind = "whatsapp" /\ state \in {"pairing", "open"} -> "closing"
      [] OTHER -> "closed"

\* stopAll, once bootstrap is through startAll.
StopAll ==
    /\ router = "up"
    /\ router' = "stopped"
    /\ IF link = None
       THEN UNCHANGED <<link, socket, connected>>
       ELSE /\ socket' = [socket EXCEPT ![link] = Stopped(@)]
            /\ link' = None
            /\ connected' = FALSE
    /\ UNCHANGED <<kind, connecting, timers, attempts, outboundVars>>

-----------------------------------------------------------------------------
(* The library's events.                                                   *)

\* onStart, ClientReady, or connection "open".
Opened(s) ==
    /\ socket[s] = "pairing"
    /\ socket' = [socket EXCEPT ![s] = "open"]
    /\ connected' = TRUE
    /\ attempts' = 0
    /\ UNCHANGED <<kind, router, link, connecting, timers, outboundVars>>

\* bot.start() rejects, at first or while it polls: the promise is nobody's and
\* `connected` keeps its value.
PollingFails ==
    /\ kind = "telegram"
    /\ socket[1] \in {"pairing", "open"}
    /\ socket' = [socket EXCEPT ![1] = "closed"]
    /\ UNCHANGED <<kind, router, link, connected, connecting, timers, attempts,
                   outboundVars>>

\* ShardDisconnect.
ShardDisconnects ==
    /\ kind = "discord"
    /\ socket[1] = "open"
    /\ socket' = [socket EXCEPT ![1] = "closed"]
    /\ connected' = FALSE
    /\ UNCHANGED <<kind, router, link, connecting, timers, attempts, outboundVars>>

\* Mutant: one attempt too many.
SocketClosesOnceMore(s) ==
    /\ kind = "whatsapp"
    /\ socket[s] \in {"pairing", "open", "closing"}
    /\ socket' = [socket EXCEPT ![s] = "closed"]
    /\ connected' = FALSE
    /\ \/ /\ attempts <= MaxReconnects
          /\ attempts' = attempts + 1
          /\ timers' = timers + 1
       \/ /\ socket[s] # "closing" \/ attempts > MaxReconnects
          /\ UNCHANGED <<attempts, timers>>
    /\ UNCHANGED <<kind, router, link, connecting, outboundVars>>

\* connection "close": a timer for the next connect(), unless the phone logged
\* the device out (never the reason when it was stop() that ended the socket)
\* or the attempts are used up.
SocketCloses(s) ==
    /\ kind = "whatsapp"
    /\ socket[s] \in {"pairing", "open", "closing"}
    /\ socket' = [socket EXCEPT ![s] = "closed"]
    /\ connected' = FALSE
    /\ \/ /\ attempts < MaxReconnects
          /\ attempts' = attempts + 1
          /\ timers' = timers + 1
       \/ /\ socket[s] # "closing" \/ attempts = MaxReconnects
          /\ UNCHANGED <<attempts, timers>>
    /\ UNCHANGED <<kind, router, link, connecting, outboundVars>>

\* Mutant: setInterval for setTimeout.
ReconnectRepeatedly ==
    /\ timers > 0 /\ connecting = 0
    /\ connecting' = connecting + 1
    /\ UNCHANGED <<kind, router, link, socket, connected, timers, attempts,
                   outboundVars>>

Reconnect ==
    /\ timers > 0
    /\ timers' = timers - 1
    /\ connecting' = connecting + 1
    /\ UNCHANGED <<kind, router, link, socket, connected, attempts, outboundVars>>

-----------------------------------------------------------------------------
(* Outbound messages.                                                      *)

file == <<"file">>

\* The calls send() makes for a message, one after the other.
Parts(m) ==
    IF kind = "discord"
    THEN splitMessage(content[m], MaxLength)
             \o (IF Files[m] > 0 THEN <<file>> ELSE <<>>)
    ELSE (IF content[m] = <<>> THEN <<>> ELSE <<content[m]>>)
             \o [i \in 1..Files[m] |-> file]

\* No platform takes a text without ink.
Refused(part) == part # file /\ \A i \in 1..Len(part) : part[i] \in Blank

SetStatus(m, s) == status' = [status EXCEPT ![m] = s]

\* handleOutbound, for a channel without an adapter (webchat): logged.
DropOutbound(m) ==
    /\ router # "idle"
    /\ status[m] = "idle"
    /\ SetStatus(m, "unrouted")
    /\ UNCHANGED <<kind, router, adapterVars, content, shown>>

\* handleOutbound, when the adapter says it is not connected, or when send()
\* finds it stopped: message:failed.
RefuseOutbound(m) ==
    /\ router # "idle"
    /\ status[m] = "idle"
    /\ ~connected \/ link = None
    /\ SetStatus(m, "failed")
    /\ UNCHANGED <<kind, router, adapterVars, content, shown>>

\* handleOutbound up to the first await of send().
SendOutbound(m) ==
    /\ router # "idle"
    /\ status[m] = "idle"
    /\ connected /\ link # None
    /\ SetStatus(m, "sending")
    /\ \E text \in Texts[m] : content' = [content EXCEPT ![m] = text]
    /\ UNCHANGED <<kind, router, adapterVars, shown>>

\* The platform takes a part.  Telegram and WhatsApp read this.bot or
\* this.socket again for each part; Discord holds on to the channel object.
PartShown(m) ==
    /\ status[m] = "sending"
    /\ shown[m] < Len(Parts(m))
    /\ ~Refused(Parts(m)[shown[m] + 1])
    /\ kind = "discord" \/ link # None
    /\ shown' = [shown EXCEPT ![m] = @ + 1]
    /\ UNCHANGED <<kind, router, adapterVars, status, content>>

\* Mutant: only a failure of the first call is reported.
FirstPartFails(m) ==
    /\ status[m] = "sending"
    /\ shown[m] = 0 /\ Len(Parts(m)) > 0
    /\ SetStatus(m, "failed")
    /\ UNCHANGED <<kind, router, adapterVars, content, shown>>

\* A call of send() rejects or throws: message:failed, and the parts that were
\* shown stay shown.
PartFails(m) ==
    /\ status[m] = "sending"
    /\ shown[m] < Len(Parts(m))
    /\ SetStatus(m, "failed")
    /\ UNCHANGED <<kind, router, adapterVars, content, shown>>

\* send() resolves: message:delivered.
Delivered(m) ==
    /\ status[m] = "sending"
    /\ shown[m] = Len(Parts(m))
    /\ SetStatus(m, "delivered")
    /\ UNCHANGED <<kind, router, adapterVars, content, shown>>

-----------------------------------------------------------------------------
Lifecycle == StartAll \/ LoginSettles \/ ConnectResolves \/ ConnectRejects \/ StopAll

LibraryEvent ==
    \/ PollingFails \/ ShardDisconnects
    \/ \E s \in Socket : Opened(s) \/ SocketCloses(s)

SendStep(m) == PartShown(m) \/ PartFails(m) \/ Delivered(m)

Outbound(m) == DropOutbound(m) \/ RefuseOutbound(m) \/ SendOutbound(m) \/ SendStep(m)

Next == Lifecycle \/ LibraryEvent \/ Reconnect \/ \E m \in Message : Outbound(m)

\* A call of a platform's API returns or fails: each of the libraries has a
\* time limit of its own.  Nothing is assumed of the connection.
Fairness == \A m \in Message : WF_vars(SendStep(m))

Spec == Init /\ [][Next]_vars /\ Fairness
-----------------------------------------------------------------------------
(* Properties.                                                             *)

\* The state of the router and its adapter; in particular no more reconnects
\* are counted than the adapter allows itself (whatsapp/adapter.ts 106-108).
TypeOK ==
    /\ router \in {"idle", "starting", "up", "stopped"}
    /\ link \in Socket \cup {None}
    /\ socket \in [Socket -> {"none", "pairing", "open", "closing", "closed"}]
    /\ connected \in BOOLEAN
    /\ connecting \in Nat /\ timers \in Nat
    /\ attempts \in 0..MaxReconnects
    /\ status \in [Message -> {"idle", "unrouted", "sending", "delivered", "failed"}]
    /\ \A m \in Message : shown[m] \in 0..Len(Parts(m))

\* However connections break, connects fail and stop() and the timers cross,
\* WhatsApp has at most one session in the making or in use: two sockets with
\* the same credentials would throw each other out (whatsapp/adapter.ts 92-117).
OneConnection ==
    connecting + timers
        + Cardinality({s \in Socket : socket[s] \in {"pairing", "open", "closing"}}) <= 1

\* A text without its blanks.
Ink(text) ==
    LET inkOf[i \in 0..Len(text)] ==
            IF i = 0 THEN <<>>
            ELSE IF text[i] \in Blank THEN inkOf[i - 1]
            ELSE Append(inkOf[i - 1], text[i])
    IN  inkOf[Len(text)]

\* The parts shown so far, without files, in one text.
TextShown(m) ==
    LET upTo[i \in 0..shown[m]] ==
            IF i = 0 THEN <<>>
            ELSE IF Parts(m)[i] = file THEN upTo[i - 1]
            ELSE upTo[i - 1] \o Parts(m)[i]
    IN  upTo[shown[m]]

\* Splitting loses and adds nothing but blanks: what the user has seen is a
\* beginning of the answer, all of it once it is delivered, in pieces that are not
\* too long for Discord and never empty (message-utils.ts 9-36, discord/adapter.ts
\* 161-172).
SplitIsFaithful ==
    \A m \in Message :
        LET seen == Ink(TextShown(m))
            all  == Ink(content[m])
        IN  /\ seen = SubSeq(all, 1, Len(seen))
            /\ status[m] = "delivered" => seen = all
            /\ kind = "discord" =>
                 \A i \in 1..Len(Parts(m)) :
                     /\ Len(Parts(m)[i]) <= MaxLength
                     /\ Len(Parts(m)[i]) > 0 \/ content[m] = <<>>

\* A message's life as Delivery describes it: the parts that are left are those
\* the platform has not taken yet.
D == INSTANCE Delivery WITH
        left <- [m \in Message |->
                    IF status[m] = "sending" THEN Len(Parts(m)) - shown[m] ELSE 0]

\* Each outbound message goes through that life: it is settled once at most, and
\* "delivered" never comes before its last part, although the connection comes
\* and goes during the awaits (router.ts 177-215).
ImplementsDeliverySafely == D!SafeSpec

\* And a message that is being sent is settled in the end, whatever becomes of
\* the connection meanwhile (router.ts 198-214).
ImplementsDelivery == D!Spec
=============================================================================
