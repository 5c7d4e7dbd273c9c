# Zaakify in TLA+

Zaakify is a personal AI assistant: a single Node.js process that takes messages
from a web chat, an HTTP API and chat networks, runs a language model with tools
on them, and sends the answers back. This directory holds TLA+ specifications of
its stateful parts, TLC configurations that check small instances of them, and
proofs, checked by TLAPS, that hold for every instance. Paths below are relative
to the repository; most code is under `src/`.

Contents: [inventory](#1-inventory), [modules](#2-modules-and-how-they-follow-the-code),
[runs](#3-runs), [disagreements](#4-where-code-and-documentation-disagree),
[proofs](#5-proofs), [what is left](#6-not-modelled-and-the-plan).

## 1. Inventory

Everything runs on one JavaScript thread. Concurrency comes from `await`: an
inbound message starts an asynchronous handler, many of them are suspended at any
time, and callbacks of timers, sockets and child processes run in between.
Components talk over one in-process event bus (`kernel/event-bus.ts`), whose
`emit` calls the matching handlers, up to their first `await`, before it returns.

| Component | State | Operations | Hard part | What makes it correct |
|---|---|---|---|---|
| Agent runner `agents/agent-runner.ts` | `activeRuns`, an AbortController per run | inbound handler, stop command, `agent:abort`, tool loop, drain | handlers of one session interleave; abort races chunks and tools; failures | one run per session; nothing stranded, lost silently or processed twice; silence after an abort; every session becomes free |
| Message queue `sessions/message-queue.ts` | a queue per session | enqueue, dequeue, clear | cap, duplicates | order of arrival, cap, every loss has a reason |
| Session manager `sessions/session-manager.ts` | sessions, histories, prune timer | getOrCreate, addMessage, archive, prune | window over a history in use; pruning under a run | histories the provider accepts; no turn lost but by the window |
| History manager `agents/history-manager.ts` | none | `trimHistory` | boundary of the budget | keeps the first message and the pairing of tool turns |
| Extension host `extensions/extension-host.ts` | entries, children, tool registry, waiting calls | discover, start, stop, restart, remove, tool call, stopAll; child callbacks and timers | starts overlap; callbacks of an old child act on a new one; timers race answers | one at a time; no lost child; calls and starts settle; tools match processes |
| Extension runner `extensions/extension-runner.js` | tools of one child | activate, execute | dies anywhere | ready or error, a result per call |
| Scheduler `scheduler/scheduler.ts`, `job-store.ts`, `cron-tool.ts` | jobs, timers, `cron.json` | start, stop, add, remove, toggle, fire | crash between message and save; failing and torn writes; late timers | timers = enabled jobs; durable; no moment twice; silence after removal |
| Event bus `kernel/event-bus.ts` | subscriptions, ring buffer, pending events | emit, on, once, waitFor, pause, resume | nested emits, reordering at resume, timer races event | delivery once, in order; no leaked subscription |
| Gateway `gateway/*.ts` | clients, authentication, waiting API calls | connect, chat, API call, broadcast | answers have no owner: all goes to all; calls time out | no leaked subscription; nobody waits for ever |
| Web UI `ui/index.html` | the busy flag, the bubble under way and the last one | send, handler of each event | runs of several sessions mix in one page | every answer can be read, once |
| Channel router `channels/router.ts`, `message-utils.ts` | adapters, rate windows, sorted rules | start, stop, inbound, outbound | sends overlap; windows; rules that overlap | one report for each send; limit; the right agent |
| Adapters `channels/*/adapter.ts` | connection, reconnect counter and timers | start, stop, send, platform events | reconnects cross old sockets and stop | one session per account; texts split without loss |
| Browser extension `extensions/browser` | browser, tabs, map of refs, attributes in pages | open, click, type, snapshot, close, quit | calls overlap at their awaits; crashes; pages change under the agent; two numberings of refs | no browser lost; a printed ref is the element beside it |
| Gmail extension `extensions/email-gmail` | `config.json`, callback server, code | setup start, redirect, setup check | calls overlap at their awaits; restarts | a token goes with its client |
| Memory `memory/memory-store.ts` | SQLite tables | add, search, delete | external engine | - |
| Workspace, daily log `workspace/*.ts` | files, requests waiting for answers | write templates, log | pairing answers with questions | - |
| Security `security/security.ts` | allow lists, pairing codes | constructed, never called | - | - |
| Tools `tools/*.ts`, provider `agents/provider.ts`, config, media, CLI | small maps, or none | I/O and conversion | - | - |

How a message travels: adapter or gateway -> `message:inbound` -> agent runner
(queue, or run) -> provider and tools, of which some are proxies to extension
children -> `agent:response` (gateway, daily log) and `message:outbound` (router,
adapter). The scheduler injects `message:inbound` like a user. Extensions can emit
any event, `agent:abort` among them.

`PROJECT.json` lists the hazards of each part at their lines, with the properties
that would catch them, or the reason why none does yet.

## 2. Modules and how they follow the code

| Module | Stands for |
|---|---|
| `MessageQueue` | the queue of one session as operators on sequences |
| `AgentRunner` | the runner and the drain of the queue; extends `MessageQueue` |
| `SessionMailbox` | abstract: what runner and queue promise of a session's messages |
| `ExtensionHost` | host, children, IPC channel, timers, shutdown |
| `Scheduler` | scheduler, job store, clock, crashes |
| `MessageUtils` | `splitMessage` as operators on sequences |
| `Channels` | router and adapter: connection, and the way out; extends `MessageUtils` |
| `Delivery` | abstract: the life of an outbound message |
| `Inbound` | adapters and router: the way in, with rate limit and routing |
| `WebUI` | the chat page: what its handlers make of it |
| `Gateway` | connections, broadcasts, API calls and what agents emit; extends `WebUI` |
| `Snapshot` | reading a page: the refs, in the page and in the map |
| `Browser` | the browser extension; extends `Snapshot` |
| `Gmail` | the account setup of the Gmail extension |
| `AgentRunnerProofs`, `AgentMailboxProofs`, `ExtensionHostProofs`, `SchedulerProofs`, `ChannelsProofs`, `InboundProofs`, `GatewayProofs`, `ExtensionsProofs` | theorems and their proofs |
| `MCAgentRunner`, `MCExtensionHost`, `MCScheduler`, `MCChannels`, `MCInbound`, `MCGateway`, `MCExtensions` | instances for TLC; `MCExtensions` extends `Browser` and `Gmail` |

A step is the code between two awaits (or one callback), since nothing else can
run in between. Operators carry the names of the functions they translate.
Definitions whose comment begins with "Mutant:" are broken variants that show that
a property can fail; no specification uses them.

### AgentRunner

A handler of `message:inbound` is named by the message that started it. `pc[h]` is
where handler h is suspended: `off` (not started), `stream` (in `for await` over
the provider's stream), `tools` (in `executeTools`), `unserved` (the early return
for an agent without a provider), `ended`/`failed` (`processMessage` settled,
the handler not yet resumed), `over`. `current[h]` is the message it processes: its
own, then those it drains.

| Code | Model |
|---|---|
| inbound handler: stop command, busy, free | `StopRun`, `QueueMessage`, `ProcessNow` |
| `agent:abort` listener | `AbortEvent` |
| `processMessage` + `handleMessage` to the first await | `processMessage` |
| chunks; abort at a chunk; stream throws | `TextChunk`, `AbortAtChunk`, `StreamThrows` |
| stream ends with / without tool calls | `ToolCalls`, `FinalResponse` |
| a tool settles | `NextTool`, `AbortAtTools`, `ToolResults` |
| `finally` | `EndRun` |
| the catch blocks and the drain loop | `ReportError`, `DrainNext`, `HandlerReturns` |

Abstractions. A message is a model value with a session, an id and a text, given as
constant functions. History turns keep their role and the message they belong to.
Output is the set of kinds emitted for a message. Whether text among tool calls is
narration is a choice. The time window of the deduplication is the number `recent`
of queued items that are younger than the window, chosen freely, as items are
queued in time order. The branch for `max_tokens` without content changes only the
text. The provider ends every stream with a "done" chunk and nothing but
microtasks follows it, so an abort cannot fall between the last chunk and the end
of the loop. `trimHistory` only affects what is sent to the provider.

The model lets other handlers run between the end of `processMessage` and the
resumption of its caller, where the engine only lets other microtasks run: it has
more behaviours than the program, never fewer.

`SessionMailbox` says what is promised: one message served at a time, the others
waiting in the order of arrival, at most `MAX_QUEUE_SIZE`, each one served once or
lost for a reason, none waiting for ever. `AgentRunner` implements it with
`serving <- activeRuns`, `waiting <- queues`.

### ExtensionHost

Children are numbered in the order of their forks. A child's progress is `life`;
what the host knows of it is `resolved` (its `startExtension` was answered),
`exitSeen` and the entry's `process`, `status`, `tools`. `inbox[c]` is the IPC
channel, FIFO per child; exit events and timers are not ordered with it. Tools
per extension are one, which stands for all of them.

`Ext` are the entries of the host's map, not the extensions: a directory that goes
and comes back gets a new entry from `discoverAll`, while the callbacks of an old
child still hold the old one. Map and registry go by the name (`NameOf`). The tool's
handlers list the extensions after a start, an install and a removal, so these
actions discover as well. `npm install` is synchronous
(`execSync`), so a failing install is one step and a successful one is part of the
start.

Nothing orders the operations: two sessions may start extensions together, a second
start of one that is "starting" forks again, and a killed child may live on, and be
heard, beyond its successor's start. The code keeps less of its promises then, and
each property names what is lost, with four history variables: `beside[c]` are the
children whose start was unanswered when c was forked, `readied` those whose "ready"
answered their start, `strayed` those the host has lost sight of, and `intruded` the
entries that ran when a child of an older entry of their name was heard. Only
properties look at them.

Bounds: `MaxForks`; the entries there are for a name; directories change by other
hands before the shutdown only; a tool is registered once per activation; a child does not
answer a call after its timeout (the host ignores such answers). `MayStart` stops
requesting starts once the shutdown is complete.
Not modelled: the two unhandled error events that make the program shut down
(`cli/index.ts:186`), of a fork in a directory that is gone and of a message to a
child whose channel has closed (`StopAll` may come at any time in any case), and
`emit_event`.

### Scheduler

A schedule is the set of moments (`DueAt`) at which croner would run it. `timers[j]`
is the moment a timer waits for, `Never` when the schedule is over, `None` without a
timer. A timer may run late, since `npm install` blocks the event loop for
minutes; croner then continues with the first moment after now. `file` is
`cron.json`: what was saved or `Corrupt`, which is what a crash in
`writeFileSync` leaves. A failing save may leave the file as it was or corrupt;
either way the caller is told that all is well, as in the code. `fired`, `torn`,
`silenced` and `unsaved` are history variables that only properties look at, except
that `Start` forgets with them what the last save did not write.

### Channels

The router keeps its adapters in a map by channel type and they share nothing, so
the module has one adapter, whose `kind` is chosen in `Init`. `link` is the
adapter's `bot`, `client` or `socket`, and `socket[s]` what the library behind it
does. `connected` is what `isConnected()` answers and follows the library's events,
not the truth: when Telegram's polling fails it stays true, and after `stop()` an
event may set it again.

| Code | Model |
|---|---|
| `startAll`, the end of `login()` and of `connect()` | `StartAll`, `LoginSettles`, `ConnectResolves`, `ConnectRejects` |
| `stopAll` with each adapter's `stop()` | `StopAll`, `Stopped` |
| onStart, ClientReady, "open" | `Opened` |
| ShardDisconnect; "close" and its reconnect timer | `ShardDisconnects`; `SocketCloses`, `Reconnect` |
| `handleOutbound` | `DropOutbound`, `RefuseOutbound`, `SendOutbound`, `Delivered`, `PartFails` |
| one awaited call of `send()` | `PartShown` |
| `splitMessage` | `Parts`, and `MessageUtils` |

A text is a sequence of characters (`Char`), of which only the spaces and newlines
matter to `splitMessage`. Which attachments are files and which images is left out. A WhatsApp
reconnect goes on after `stop()`, as in the code: neither the timer nor a
`connect()` under way is cancelled.

### Inbound

A platform's message is a record of what the adapter asks about it. The four
handlers of Telegram differ in the attachments they build and are one action.
`/ask` on Discord is two steps, as it awaits `deferReply`, and skips the tests of
guild and channel that an ordinary message passes, as in the code. `emitted` holds
the `message:inbound` events of the last minute, told apart by the window and the
count they were let through with: what older ones were does not matter to the
properties. Counts beyond the limit are not kept apart. The constructor's sort is
the choice of an order of the rules that puts the higher priority first and, of two
as high, the earlier.
`rateLimiting.enabled` is taken to be true.

### WebUI and Gateway

Of the page's bubbles only the one a stream goes into (`streamEl`) and the one whose
stream ended (`streamedBubble`) can still change; `answers` counts the final
answers that can be read. Dots of "thinking" and the queue's depth are left out.
The handlers are functions from page to page, and `Handle` is `handleWsMessage`.

Every connection is a session (`webchat:<client id>`), the API has one, and
everything is broadcast to every authenticated connection. An agent is reduced to
the events it emits for a session: `run` has the phase, whether the message was
queued, whether it was stopped and the iteration. `provided` says whether the agent
has a provider at all: without one a message ends with no event whatever (`Inbound`).
`AgentAborts` is the `agent:abort` listener, which stops a run and tells nobody.
Events emitted without an await
in between travel as one packet. `subscriptions` are the `waitFor` calls on the
bus; `agent:response` resolves all of them, whoever it is for (`Respond`). `missed`
names the pages that the code leaves waiting: their connection broke, their queued
message failed, their agent has no provider, or an extension aborted their run.

Bounds: `MaxConnections`, `MaxRequests`, `MaxMessages`, `MaxInFlight` packets on the way
to a client; a run that was stopped is stopped again, and further chunks come, only when
nothing is in flight. `stop()` of the gateway is not modelled.

### Snapshot, Browser, Gmail

A page's content is the list of what the walk of the DOM finds, in the order of its
sections, and the interactive nodes of the accessibility tree. The walk writes the
ref into the element (`attrs`) and the extension keeps a map (`refMap`).

The runner starts a handler for every `execute` it is sent (`extension-runner.js:70`)
and the host gives a call up after thirty seconds while its handler goes on
(`extension-host.ts:487`), so browser tools overlap at their awaits. `calls[c]` is the
await at which call c waits, with what it carries over it; several awaits in a row
between which nothing of the extension's state is read or written are one.

| Code | Model |
|---|---|
| `ensureBrowser` up to the launch, and after it | `EnsureBrowser`, `Launched`, `ContextMade`, `ScriptsAdded` |
| `openTab` | `PageOpened`, `Loaded` |
| the tools up to their first await | `Open`, `Navigate`, `Act`, `Click`, `Switch`, `Evaluate`, `ListTabs`, `CloseTab`, `Quit` |
| `closeBrowser`: cookies, close (which may fail), the reset | `CookiesSaved`, `BrowserClosed` |
| `getSnapshot`: reset, walk with the map it took along, one or two trees | `StartSnapshot`, `PageReady`, `PageWalked`, `WalkFailed`, `TreeRead`, `FullTreeRead`, `TreeFailed` |
| an await that throws | `Fails` |

Between steps browsers crash, pages change, close or move to another document, and
the process ends. `holders` are the walks whose map is still `refMap`. `raced`, `unclosed`, `alone` and
`answer` are history variables: the browsers launched while another call was launching
or closing one, those that would not close, the snapshots that no other one has
overlapped, and the last text the agent has read. Bounds: `ToolCall` calls at a time,
`BrowserId` and `Page`, whose names are used again when nothing refers to them, `MaxTabs`
tabs between two quits, and `MaxStart`, the ref from which a walk counts on when
snapshots overlap.

In `Gmail` the setup calls are split at their awaits: `SetupCheck` reads code and
configuration, `Exchanged` writes them back, `Stopped` is the callback of
`server.close`. A code or token is the OAuth client it was issued for.
`config.json` outlives the process (`NextProcess`).

The two share nothing and the host runs one of them at a time, so `MCExtensions` looks
at one in each behaviour: the browser with what its pages show (`pages`), the browser with
blank pages and its life (`life`), or the setup (`setup`).

## 3. Runs

| Run | Question | States |
|---|---|---|
| `AgentRunnerQueue` | Do five racing messages of one session (two of them duplicates, one a stop, three without a provider) keep to the mailbox? | 159 k |
| `AgentRunnerLoop` | With streaming, tools, aborts and failures at every await, are histories well formed, are aborted runs silent, do sessions become free and messages get served? | 146 k |
| `ExtensionHost` | Two extensions, two children, every overlap of operations and callbacks, and a directory that goes and comes back: when do two run together, when is a child lost, and when a running extension's tool? | 2.8 M |
| `ExtensionHostLive` | Does every start and every call settle, and a crash fail the calls at once? | 379 k |
| `Scheduler` | Do jobs, timers and file agree over crashes, and is every moment served once? | 150 k |
| `Channels` | Do connections that break, reconnects and stops leave one session, and is every message settled once, after its last part, unharmed by the splitting? | 149 k |
| `Inbound` | What may a minute let through, and who answers? | @INBOUND@ |
| `Gateway` | With everything broadcast to everybody, does every answer stay readable, every subscription go and every page stop waiting? | 622 k |
| `Extensions` | With overlapping calls, are printed refs known, which browsers are lost, and are tokens saved with their client? | 639 k |
| `AgentRunnerLimit`, `ExtensionHostOverlap`, `BrowserReset` | see section 4 | - |

Bounds, and why they are enough for the questions asked:

* `AgentRunnerQueue`: queue cap 2 and four messages besides the stop command, so the
  queue fills, drops its oldest and is cleared, and a handler drains several
  messages. Most messages have no provider: a run is then a single await, which is
  all that queueing depends on.
* `AgentRunnerLoop`: two iterations of up to two calls reach the limit, a second tool
  and an abort between tools; a window of four turns is shorter than one full run,
  so the window cuts inside a run; two sessions show that they do not touch each
  other.
* `ExtensionHost`: two extensions are what "one at a time" is about; two forks give
  an old and a new child of one extension, under one entry or under two. More forks
  repeat the pairing. The run ends where the shutdown begins (`BeforeShutdown`); the
  shutdown is in `ExtensionHostLive`, with one extension, and the proofs have it for any.
* `Scheduler`: time 0..2 gives a repeating job two moments, one of which can be
  missed; one crash can hit any step, and the restart can crash no more but fail
  its saves.
* `Channels`: every text of 0, 1 or 4 characters of three kinds against a limit of 2
  has every cut `SplitAt` knows (newline, space, neither, too early) twice in a row.
  One reconnect reaches the last attempt, three sockets an old, a current and a
  next one, two messages sends that overlap.
* `Inbound`: a limit of 2 and a minute of 2 units over 6 units of time have two full
  windows and the start of a third, and every position of a message at the borders
  between them. Overlapping rules: three of priorities 0, 1 and 5 about one user, the
  most important one last, one of priority 7 for somebody else, and two of the same
  priority.
* `Gateway`: two connections are a page's old and new one, or a page and a tool, so
  that two sessions stream into one page; with the API that is three. Two messages
  fill a queue, two iterations reach the limit, two calls share an answer.
* `Extensions`: `pages` has two calls, two elements and two contents, of which one has
  doubles, an element in two sections and a result without a link, and the other is
  sparse, with one browser and one tab at a time (`PagesBound`); `life` two calls, two
  browsers beyond which none can be told apart, two tabs, and blank pages. `setup` has
  two mail accounts, two calls of the check and four servers: old, current, next and an
  orphan.

`CHECK_DEADLOCK FALSE` is set where messages, forks or time are bounded and nobody
has to call. `Inbound` and `Extensions` run with the deadlock check.

Fairness. `AgentRunner`: the provider ends or breaks each stream, each tool settles
(requests and tool calls have timeouts), and the engine resumes ready
continuations; nothing is assumed of users. `ExtensionHost`: timers expire, and
messages and exits that have happened are handled; nothing is assumed of the
children, so a child may hang for ever. `Scheduler`: time passes and a timer that
is due runs; nobody has to restart a stopped process. `Channels`: a call of a
platform's API returns or fails (`SendStep`); nothing of connections. `Gateway`: a
message on an open connection arrives, streams and tools end, the queue is drained,
and the timer of `waitFor` fires; nobody has to write, and no connection has to
hold. `Inbound`, `Browser` and `Gmail` state safety only.

### Properties

* Runner: `BusyIffRunning`, `NoStrandedMessage`, `EveryMessageAccounted`,
  `HistoryWellFormed`, `StreamsAreClosed`, `SilentAfterAbort`,
  `DirectMessageIsAnswered`, `SessionBecomesFree`, and the refinements
  `ImplementsMailboxSafely` and `ImplementsMailbox`.
* Host: `OneAtATimeButForOverlaps`, `NoLostChild`, `RunningIsCallable`, `CrashFailsCalls`,
  `EveryCallSettles`, `EveryStartSettles`.
* Scheduler: `TimersFollowJobs`, `MemoryIsOnDisk`, `OneShotOnce`,
  `MomentServedOnce`, `SilencedStaysSilent`, `ArmedMomentIsServed`.
* Channels: `OneConnection`, `SplitIsFaithful`, and the refinement `ImplementsDelivery`:
  its safety part is `ImplementsDeliverySafely`, to which it adds that a message
  which is being sent is settled in the end.
* Inbound: `RouterBound` (no more than twice the limit less one in any minute, which
  is the best the code's windows give), `RoutedByPriority`.
* Gateway: `NoLeakedSubscription`, `AnswersStay`, `BusyEnds`.
* Extensions: `PrintedRefsAreKnown`, `NoLostBrowser`,
  `TokensAreSavedWithTheirClient`.

Each has a comment in its module with the code it is about, and a mutant in
`PROJECT.json` that breaks it.

Some state exceptions that the code forces; each says that there are no others.

* `HistoryWellFormed`: results whose calls the window has cut off are the oldest turn, and
  a run that was aborted between the two leaves calls without results.
* `BusyEnds`: a page whose connection broke, whose queued message failed, whose agent has
  no provider, whose run an extension aborted, or that has no token to send.
* `OneAtATimeButForOverlaps`: two extensions whose starts overlapped.
* `NoLostChild`: a child whose extension was started again while it was starting, or was
  declared crashed by a callback of an older child, or whose directory was gone when the
  extensions were discovered while it started.
* `RunningIsCallable`: an extension that ran when a child of an older entry of its name
  was heard.
* `CrashFailsCalls`: a child that is lost in these ways, or that did not become ready in
  time and got calls because another one of its extension did.
* `NoLostBrowser`: a browser launched while another call was launching or closing one, or
  that would not close. `PrintedRefsAreKnown` speaks of answers whose snapshot no other one
  has overlapped.
* `OneShotOnce`: a job whose process died between the message and the save, or whose save
  failed: it fires again after the restart. `SilencedStaysSilent`: a removal that the
  process never managed to save.

## 4. Where code and documentation disagree

Each of these runs checks one sentence of the repository and TLC finds a behaviour
of the code against it.

* `AgentRunnerLimit`: an answer in the last allowed iteration is followed by the
  "maximum tool iterations" message (`agent-runner.ts:638`), although
  `gateway/server.ts:145` calls `agent:response` *the* final response.
* `ExtensionHostOverlap`: two overlapping starts give two running extensions
  (`extension-host.ts:209`), against the one-at-a-time rule of the changelog.
* `BrowserReset`: refs are not reset in the page. An element keeps the attribute of an
  earlier snapshot (`snapshot.mjs:166`), and after the page changed a ref finds two
  elements; the extension's README (line 289) says that refs reset.

Other behaviours of the code that the models have and a reader should know of; the
properties state their exceptions, and no run is spent on them:

Runner and gateway:

* A queued message that fails is not reported to its user (`agent-runner.ts:261`);
  the direct path does so on purpose (line 181).
* Errors and the iteration limit are answered by `agent:response` only, never by
  `message:outbound`, so a channel's user is told nothing of them.
* A message for an agent without a provider ends in silence (`agent-runner.ts:326`), and so
  does a run that an extension aborts (84-90): a page waits for ever, an API call for its
  300 seconds.
* A copy of the message that is being processed is not recognised, as the queue compares
  with what waits (`message-queue.ts:158`): it is processed again.
* The window may leave results whose calls it has cut off at the head of a history
  (`session-manager.ts:141`), and an abort leaves calls without results
  (`agent-runner.ts:528-541`); `format-openai.ts` sends both as they are.
* Any `agent:response` answers every waiting API call (`routes.ts:59`).

Extension host:

* A start of an extension that is "starting" is not refused (`extension-host.ts:203-243` tests
  for "running"): a second child is forked, `ext.process` is overwritten (343), and a stop
  ends the second one only.
* An extension whose directory is gone is dropped by a discovery while it starts, and
  its child runs on without an entry (176).
* The exit, error or timer of an old child acts on whatever its entry is by now: when a
  killed child exits after its successor is ready, the extension is marked crashed and
  the tools of the live child are unregistered (418). A child of an older entry of the
  same name takes the tools of the new one away.
* `stopAll` never sends SIGKILL: after a first `kill` `proc.killed` is true (747).

Extensions:

* Two calls that find no browser launch one each (`client.mjs:35` and 63), and a launch
  that overlaps a quit is forgotten by it; a close that fails is swallowed (157). In each
  case a browser lives on that `browser-quit` ("Close the browser completely.",
  `quit.mjs:5`) cannot reach.
* A snapshot that overlaps another one loses its map under its walk (`snapshot.mjs:34`, 138,
  514), and hands its counter on.
* A failed `newContext` leaves a browser without a context (`client.mjs:78`); every
  open fails until it is quit.
* The dedup of map results asks `seen.has` twice (`snapshot.mjs:461`), and an element
  that two sections find keeps only its last ref in the page.
* A setup of a second account keeps `configured` and the old refresh token until it is
  completed (`setup-start.mjs:186`), so a restart in between pairs the new client
  with the old token. A check of the first account that ends later writes the first
  account's configuration back over it (`setup-check.mjs:133`), and the callback of an old
  server's `close` resets a new one (`setup-server.mjs:118`).

Adapters:

* Discord's `pendingInteractions` is written and never read (`adapter.ts:118`), so a
  deferred `/ask` is answered in the channel and stays "thinking" itself.

## 5. Proofs

`AgentRunnerProofs`, from `QueueAssumption` and `RunnerAssumption` (any messages,
sessions, caps and limits):

* `TypeCorrect`: `SafeSpec => []TypeOK`, inductive as it stands, with one lemma for
  each operator that assigns several variables.
* `OneRunPerSession` (`BusyIffRunning`) and `NobodyStranded`
  (`NoStrandedMessage`) follow from `ServiceInv`. `BusyIffRunning` alone is not
  inductive in a usable form: `RunInv` says it from both sides, a handler inside
  `processMessage` owns its session's entry, and an entry has such a handler. That
  a drained message leads the drain to its own session needs that a queue holds
  only messages of its session (`QueueOfSession`), and that an arriving message
  starts a fresh handler needs that a handler that is not `off` was started by a
  message that has arrived (`StartedArrived`).

`SchedulerProofs`, from `SchedulerAssumption` (any jobs, schedules, horizon and
number of crashes):

* `BasicInv` (types, `TimersFollowJobs`, a loadable file names known jobs, a
  stopped process holds no jobs) gives `TypeCorrect` and `TimersCorrect`;
  `FirstMoment` shows that a nonempty set of moments has a minimum, by
  well-foundedness of the naturals.
* `JobsAreDurable` (`MemoryIsOnDisk`) is inductive over `BasicInv`.
* `SilenceInv` adds that a silenced job is enabled neither in memory nor in a file
  that is saved; `SilenceIsKept` follows as messages come only from enabled jobs.
* `PastInv` says that the moments served are past and lie before the one a timer
  waits for; `MomentsServedOnce` follows.
* `GoneInv` says that a one-shot job that fired once is gone from memory and from a
  file that is saved; `OneShotsFireOnce` follows.

`ExtensionsProofs`, from the assumptions of `Snapshot` and `Browser` (any browsers, pages,
tabs, clients, servers and overlapping calls):

* `BrowserTypeCorrect` (`BrowserTypeOK`), from `TypeInv`, which adds that a page in the map is
  the one whose listeners were made for that tab.
* `NoBrowserIsLost` (`NoLostBrowser`). `LostInv` says of each launch and close that is
  awaited what it may overwrite: a launch only an excused browser, a close the one it
  closes or an excused one.
* `PrintedRefsStayKnown` (`PrintedRefsAreKnown`), for pages of any length. A snapshot
  numbers what it registers with the refs that follow its counter (`Numbered`), so an
  entry pushes out no other one (`KnownMap`, `EntriesAreKnown`). The
  walk and the map are recursive functions, and what they return is proved by
  induction over the items. `AloneInv` says what an undisturbed snapshot relies on at each
  of its awaits: that no other one is under way, that it holds the map and the counter
  of the moment, and that what it has read so far is known.
* `GmailTypeCorrect` says that `GmailTypeOK` is inductive: a check that waits for Google holds
  a whole configuration. `TokensMatchTheirClient` (`TokensAreSavedWithTheirClient`): the step
  that writes it back is then the only one that changes the token. Of steps that leave
  the token as it is, `SetupStart` among them, nothing is said.

`GatewayProofs`, from the assumptions of `WebUI` and `Gateway` (any pages, clients, calls
and bounds):

* `NoSubscriptionLeaks` (`NoLeakedSubscription`), from `SubscriptionsInv`, which adds
  the statuses of the calls; three steps touch the bus, every other one leaves both
  sides alone.
* `GatewayTypeCorrect` (`TypeOK`), from `NetworkInv` (what is in flight is of an open
  connection), `PageInv` and `RunsInv`. That a page stays a good one over a packet is
  `HandlesInTurn`: a packet is handled event by event.
* `AnswersCanBeRead` (`AnswersStay`): no handler writes over a bubble that holds an
  answer (`WriteCounts`), so each event adds the readable answers it carries
  (`HandleCounts`), and so does a packet (`BatchCounts`).

`InboundProofs`, from `InboundAssumption` (any messages, configurations and limits):

* `InboundTypeCorrect` (`TypeOK`) and `MinuteIsBounded` (`RouterBound`). The bound is not
  inductive. `EventInv` places each event in its window, `WindowInv` relates it to the
  window that is open, and `ApartInv` says that two windows of a user open more than a
  minute apart. The events of a minute are then of two windows at most, and in the
  older of the two the first is missing, so that the places left are twice the limit
  less one (`PlacesBound` counts them).
* `RoutedAsConfigured` (`RoutedByPriority`): the rules can be sorted (by their ranks, whose
  definition counts the rules before a rule), the sorted list holds each of them, and
  the first that matches precedes all others that match.

`ExtensionHostProofs`, from `HostAssumption` (any extensions, names, children and calls)
and no condition on the starts, the operating system or the directories:

* `HostTypeCorrect` (`TypeOK`), with `ShapeInv`: the entries of the map are made and one for a
  name, and their process is their child (`EntriesInv`); the children that were forked,
  and only they, live (`ChildrenInv`).
* `OneExtensionAtATime` (`OneAtATimeButForOverlaps`). `OverlapInv` says the same of pairs
  that are on the way: starts that are unanswered together overlap, and what runs was
  answered beside those that are unanswered still.
* `NoChildOutOfReach` (`NoLostChild`) and `CrashesFailCalls` (`CrashFailsCalls`). `SightInv` says of a
  child in sight (`InSight`) that it is the process of its extension, which runs or starts
  as the child does and is in the map.
* `RunningExtensionsAreCallable` (`RunningIsCallable`), from `ShapeInv`: what takes tools from
  the registry is an entry's own stop, or a child that is heard.

`AgentMailboxProofs`, on the invariants of `AgentRunnerProofs`:

* `NoMessageLost` (`EveryMessageAccounted`): inductive with `NoRepeats`, that a message
  waits in one place of a queue.
* `RunnerImplementsMailbox` (`ImplementsMailboxSafely`): one lemma for each action, which
  is a step of `SessionMailbox` or leaves `serving` and `waiting` alone.
* `NoStreamLeftOpen` (`StreamsAreClosed`) and `AbortSilences` (`SilentAfterAbort`), from
  `HandledInv` (no two handlers process one message) and `OpenInv`.
* `HistoriesWellFormed` (`HistoryWellFormed`): `HistoryInv` adds that the message that runs
  has its turns at the end, with its calls last while tools run, and that calls at the
  end are those of such a run or of an aborted one; a window that cuts
  a history is full and keeps the order of what is left.

`ChannelsProofs`, from `ChannelsAssumption` (any messages, of texts of any length):

* `AtMostOneConnection` (`OneConnection`) counts connects, timers and live sockets; each
  step hands its place on. `ConnectionInv` adds that nothing is connected before
  `startAll`, and the types that the cardinalities need.
* `ChannelsTypeCorrect` (`TypeOK`) and `AdapterImplementsDelivery`
  (`ImplementsDeliverySafely`, what `ImplementsDelivery` says of single steps), from
  `PartsInv`: parts are shown in order, none before its message is sent and all
  before it is delivered.
* `SplitIsFaithfulToText`: of any text and limit, `splitMessage` makes chunks within the
  limit that hold the text's ink in order, none of them empty; `SplittingIsFaithful`
  (`SplitIsFaithful`) takes it to what the adapters have shown.

Induction. The library's theorems of induction take a predicate, which the
provers cannot be given. `LeastNatural` takes from the library's `WFMin` that a
nonempty set of numbers has a least one; with a set in the place of the predicate,
`Induction` and `Iterates` (a function that is defined step by step exists and is
what its steps make it) follow, and with them what the recursive functions of
`MessageUtils`, `Channels` and `Snapshot` return.

Only model-checked: the properties with fairness (`DirectMessageIsAnswered`,
`SessionBecomesFree`, `EveryCallSettles`, `EveryStartSettles`, `ArmedMomentIsServed`,
`BusyEnds`, and the liveness in `ImplementsMailbox` and `ImplementsDelivery`), as
liveness and `ENABLED` are outside the prover's reach. Every invariant and every
action property that a run checks is proved.

## 6. Not modelled, and the plan

Next modules, in this order:

1. `SessionHistory`: `trimHistory` and the history window as functions, against a
   reference definition over bounded inputs; getOrCreate, archive and prune.
2. The daily log's pairing of questions and answers; start and shutdown order of the
   whole process.

Next proofs: the invariants of these modules.

Left out for good: vendor SDKs, HTTP and file formats, templates, prompts, logging,
configuration parsing, the SQLite engine, the mail tools (one API call each), and
`SecurityManager`, which `bootstrap.ts:88` constructs and nothing calls. The event
bus's `pause` and `resume` have no caller either; `once` and `waitFor` are in
`Gateway`.
