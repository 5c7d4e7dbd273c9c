---------------------------- MODULE ExtensionHost ----------------------------
(***************************************************************************)
(* extensions/extension-host.ts: the extensions, the child processes that  *)
(* run them, the tools they add to the registry and the tool calls that    *)
(* are waiting for a child's answer.  A child is one fork of               *)
(* extension-runner.js; host and child talk over the IPC channel, and the  *)
(* host sees a child's messages, its exit and its own timers as separate   *)
(* callbacks, in an order that the operating system decides.               *)
(*                                                                         *)
(* An extension is a directory; Ext are the entries of the host's map, each *)
(* made once by a discovery: a directory that is removed and comes back gets *)
(* a new entry, while callbacks still hold the old one.                     *)
(*                                                                         *)
(* Each extension has one tool, which stands for the tools it registers.   *)
(* The operations are those of the Extension tool, which any session's turn *)
(* may call; sessions run side by side, so their awaits interleave.         *)
(***************************************************************************)
EXTENDS Naturals, Sequences, FiniteSets

CONSTANTS
    Dir,            \* the directories of extensions, which are their names
    Ext,            \* entries of the extensions map
    NameOf,         \* NameOf[e]: the name of the entry
    MaxForks,       \* bound on the children ever forked
    CallId,         \* values of callId: the tool calls that may be made
    HasDeps,        \* directories whose npm install may be needed, and fail
    Volatile,       \* directories that also come and go by other hands
    None

ASSUME HostAssumption ==
    /\ MaxForks \in Nat
    /\ NameOf \in [Ext -> Dir] /\ \A n \in Dir : \E e \in Ext : NameOf[e] = n
    /\ HasDeps \subseteq Dir /\ Volatile \subseteq Dir
    /\ None \notin Nat
    /\ CallId \cap {"register_tool", "ready", "error"} = {}   \* results are told apart

Child == 1..MaxForks

VARIABLES
    onDisk,      \* the directories there are
    known,       \* the entries in the extensions map
    status,      \* ext.status; "none" of an entry that is not made yet
    process,     \* ext.process, a child or None
    tools,       \* extensions whose ext.tools holds their tool
    registry,    \* entries whose tool is in the tool registry
    forks,       \* children forked so far
    extOf,       \* the extension of a child
    life,        \* what a child does: its progress through extension-runner.js
    signal,      \* the strongest signal sent to a child
    resolved,    \* children whose startExtension has been answered
    exitSeen,    \* children whose exit event was handled
    inbox,       \* messages of a child that the host has not handled
    call,        \* where a tool call is
    callee,      \* the child a call was sent to
    shutdown,    \* stopAll: "no", "waiting" for the exits, "done"
    beside,      \* history: the unanswered children when a child was forked
    readied,     \* history: children whose "ready" was the answer to their start
    strayed,     \* history: children that a second start, the callback of an older
                 \* child or a discovery made the host lose sight of
    intruded     \* history: entries that ran when a child of an older entry of their
                 \* name was heard, and have not registered since

vars == <<onDisk, known, status, process, tools, registry, forks, extOf, life, signal,
          resolved, exitSeen, inbox, call, callee, shutdown, beside, readied, strayed,
          intruded>>

childVars == <<forks, extOf, life, exitSeen, beside>>
history   == <<readied, strayed, intruded>>
callVars  == <<call, callee>>

\* An entry for each of the directories.
FirstEntries(names) == {CHOOSE e \in Ext : NameOf[e] = n : n \in names}

\* After the discovery of the start (bootstrap).
Init ==
    /\ onDisk = Dir
    /\ known = FirstEntries(Dir)
    /\ status = [e \in Ext |-> IF e \in known THEN "discovered" ELSE "none"]
    /\ process = [e \in Ext |-> None]
    /\ tools = {}
    /\ registry = {}
    /\ forks = 0
    /\ extOf = [c \in Child |-> None]
    /\ life = [c \in Child |-> "none"]
    /\ signal = [c \in Child |-> "none"]
    /\ resolved = {}
    /\ exitSeen = {}
    /\ inbox = [c \in Child |-> <<>>]
    /\ call = [i \in CallId |-> "idle"]
    /\ callee = [i \in CallId |-> None]
    /\ shutdown = "no"
    /\ beside = [c \in Child |-> {}]
    /\ readied = {} /\ strayed = {} /\ intruded = {}

Forked   == 1..forks
Alive(c) == life[c] \in {"activating", "serving"}
Starting == Forked \ resolved       \* children some startExtension waits for
Running  == {e \in known : status[e] = "running"}

\* The registry and the map go by the name.
Named(S, n) == {e \in S : NameOf[e] = n}
Register(e)   == (registry \ Named(registry, NameOf[e])) \cup {e}
Unregister(e) == IF e \in tools THEN registry \ Named(registry, NameOf[e]) ELSE registry

\* kill("SIGTERM") does not weaken a SIGKILL.
Terminate(c) ==
    IF c = None THEN signal
    ELSE [signal EXCEPT ![c] = IF @ = "kill" THEN @ ELSE "term"]

-----------------------------------------------------------------------------
(* Discovery.                                                              *)

Unmade(n) == {e \in Ext : NameOf[e] = n /\ status[e] = "none"}

\* The children of the entries that a discovery drops while they start, because
\* their directory has gone.
StartsForgotten(disk, entries, state) ==
    {process[e] : e \in {f \in entries : NameOf[f] \notin disk /\ state[f] = "starting"}}

\* Mutant: the entry of an extension that runs goes too.
DiscoverAllForgetsRunning(disk, entries, state) ==
    LET fresh == {CHOOSE e \in Unmade(n) : TRUE :
                     n \in {m \in disk : Named(entries, m) = {} /\ Unmade(m) # {}}}
    IN  /\ known' = {e \in entries : NameOf[e] \in disk} \cup fresh
        /\ strayed' = strayed \cup StartsForgotten(disk, entries, state)
        /\ status' = [e \in Ext |-> IF e \in fresh THEN "discovered" ELSE state[e]]

\* discoverAll, when the map holds the entries in their state: a directory without
\* an entry gets one (bound: if there is one left), and an entry without a directory
\* goes unless it is running.
discoverAll(disk, entries, state) ==
    LET fresh == {CHOOSE e \in Unmade(n) : TRUE :
                     n \in {m \in disk : Named(entries, m) = {} /\ Unmade(m) # {}}}
        kept  == {e \in entries : NameOf[e] \in disk \/ state[e] = "running"}
    IN  /\ known' = kept \cup fresh
        /\ strayed' = strayed \cup StartsForgotten(disk, entries, state)
        /\ status' = [e \in Ext |-> IF e \in fresh THEN "discovered" ELSE state[e]]

\* "list", and what "start" of an extension that runs, or of one that is not in the
\* map, and "install" do before or beside what else they do: the handlers list the
\* extensions to write EXTENSIONS.md.
ListExtensions ==
    /\ shutdown # "done"
    /\ UNCHANGED onDisk
    /\ discoverAll(onDisk, known, status)
    /\ UNCHANGED <<process, tools, registry, signal, resolved, inbox, shutdown,
                   childVars, callVars, readied, intruded>>

\* Somebody puts a directory there, or deletes one (bounds: while there is an entry
\* left for it, and until the shutdown).
DirectoryAppears(n) ==
    /\ n \in Volatile /\ shutdown = "no"
    /\ n \notin onDisk /\ Unmade(n) # {}
    /\ onDisk' = onDisk \cup {n}
    /\ UNCHANGED <<known, status, process, tools, registry, signal, resolved, inbox,
                   shutdown, childVars, callVars, history>>

DirectoryDisappears(n) ==
    /\ n \in Volatile \cap onDisk /\ Unmade(n) # {} /\ shutdown = "no"
    /\ onDisk' = onDisk \ {n}
    /\ UNCHANGED <<known, status, process, tools, registry, signal, resolved, inbox,
                   shutdown, childVars, callVars, history>>

-----------------------------------------------------------------------------
(* The operations of the Extension tool.  Each runs without a callback in  *)
(* between up to the fork.                                                 *)

\* A fork whose directory is gone has no child: the error event, which nobody
\* handles, ends the program.  It is left out.
MayStart(e) ==
    /\ e \in known
    /\ NameOf[e] \in onDisk
    /\ shutdown # "done"

\* The child that a start of an extension which is "starting" already leaves behind:
\* only "running" is tested for.
Abandons(e) == IF status[e] = "starting" THEN {process[e]} ELSE {}

\* forkProcess up to the point where it waits for the child.
Fork(e) ==
    /\ forks < MaxForks
    /\ forks' = forks + 1
    /\ extOf' = [extOf EXCEPT ![forks'] = e]
    /\ life' = [life EXCEPT ![forks'] = "activating"]
    /\ process' = [process EXCEPT ![e] = forks']
    /\ status' = [status EXCEPT ![e] = "starting"]
    /\ tools' = tools \ {e}
    /\ beside' = [beside EXCEPT ![forks'] = Starting]
    /\ UNCHANGED <<onDisk, known, resolved, exitSeen, inbox, call, callee, shutdown,
                   readied, intruded>>

\* Mutant: no test for another extension that runs.
StartExtensionUnchecked(e) ==
    /\ MayStart(e)
    /\ status[e] # "running"
    /\ Fork(e)
    /\ strayed' = strayed \cup Abandons(e)
    /\ UNCHANGED <<registry, signal>>

\* Mutant: the status of the install stays while the child starts.
StartExtensionInstalling(e) ==
    /\ MayStart(e)
    /\ status[e] # "running"
    /\ Running \ {e} = {}
    /\ forks < MaxForks
    /\ forks' = forks + 1
    /\ extOf' = [extOf EXCEPT ![forks'] = e]
    /\ life' = [life EXCEPT ![forks'] = "activating"]
    /\ process' = [process EXCEPT ![e] = forks']
    /\ status' = [status EXCEPT ![e] = "installing"]
    /\ tools' = tools \ {e}
    /\ beside' = [beside EXCEPT ![forks'] = Starting]
    /\ strayed' = strayed \cup Abandons(e)
    /\ UNCHANGED <<onDisk, known, registry, signal, resolved, exitSeen, inbox,
                   shutdown, callVars, readied, intruded>>

\* startExtension, when it is not already running and no other one is.
StartExtension(e) ==
    /\ MayStart(e)
    /\ status[e] # "running"
    /\ Running \ {e} = {}
    /\ Fork(e)
    /\ strayed' = strayed \cup Abandons(e)
    /\ UNCHANGED <<registry, signal>>

\* startExtension, when npm install fails.  The install itself is synchronous.
InstallFails(e) ==
    /\ MayStart(e)
    /\ NameOf[e] \in HasDeps
    /\ status[e] # "running"
    /\ Running \ {e} = {}
    /\ status' = [status EXCEPT ![e] = "crashed"]
    /\ strayed' = strayed \cup Abandons(e)
    /\ UNCHANGED <<onDisk, known, process, tools, registry, signal, resolved, inbox,
                   shutdown, childVars, callVars, readied, intruded>>

Stoppable(e) == e \in known /\ status[e] \in {"running", "starting"}

\* stopExtension; the calls that wait for the child are left to their timers.
StopExtension(e) ==
    /\ Stoppable(e)
    /\ signal' = Terminate(process[e])
    /\ process' = [process EXCEPT ![e] = None]
    /\ registry' = Unregister(e)
    /\ status' = [status EXCEPT ![e] = "stopped"]
    /\ tools' = tools \ {e}
    /\ UNCHANGED <<onDisk, known, resolved, inbox, shutdown, childVars, callVars, history>>

\* restartExtension: the stop and the fork follow each other at once.
RestartExtension(e) ==
    /\ MayStart(e)
    /\ Stoppable(e)
    /\ Running \ {e} = {}
    /\ signal' = Terminate(process[e])
    /\ registry' = Unregister(e)
    /\ Fork(e)
    /\ UNCHANGED strayed

\* removeExtension: stop, delete the directory, forget the entry; then the
\* extensions are listed.
RemoveExtension(e) ==
    /\ e \in known
    /\ onDisk' = onDisk \ {NameOf[e]}
    /\ IF Stoppable(e)
       THEN /\ signal' = Terminate(process[e])
            /\ process' = [process EXCEPT ![e] = None]
            /\ registry' = Unregister(e)
            /\ tools' = tools \ {e}
            /\ discoverAll(onDisk', known \ {e}, [status EXCEPT ![e] = "stopped"])
       ELSE /\ discoverAll(onDisk', known \ {e}, status)
            /\ UNCHANGED <<signal, process, registry, tools>>
    /\ UNCHANGED <<resolved, inbox, shutdown, childVars, callVars, readied, intruded>>

\* The handler of the extension's tool: it refuses, or sends the call on.
CallTool(e, i) ==
    /\ e \in registry
    /\ call[i] = "idle"
    /\ IF process[e] = None \/ status[e] # "running"
       THEN call' = [call EXCEPT ![i] = "settled"] /\ UNCHANGED callee
       ELSE /\ call' = [call EXCEPT ![i] = "pending"]
            /\ callee' = [callee EXCEPT ![i] = process[e]]
    /\ UNCHANGED <<onDisk, known, status, process, tools, registry, signal, resolved,
                   inbox, shutdown, childVars, history>>

-----------------------------------------------------------------------------
(* The child: extension-runner.js and the extension's own code.            *)

Send(c, msg) == inbox' = [inbox EXCEPT ![c] = Append(@, msg)]

hostVars == <<onDisk, known, status, process, tools, registry, signal, resolved, call,
              callee, shutdown, forks, extOf, exitSeen, beside, history>>

\* sdk.registerTool, called by activate.
ChildRegisters(c) ==
    /\ life[c] = "activating"
    /\ inbox[c] = <<>> /\ extOf[c] \notin tools     \* bound: once
    /\ Send(c, "register_tool")
    /\ UNCHANGED <<life, hostVars>>

ChildIsReady(c) ==
    /\ life[c] = "activating"
    /\ life' = [life EXCEPT ![c] = "serving"]
    /\ Send(c, "ready")
    /\ UNCHANGED hostVars

\* activate throws: report it and exit.
ChildFails(c) ==
    /\ life[c] = "activating"
    /\ life' = [life EXCEPT ![c] = "dead"]
    /\ Send(c, "error")
    /\ UNCHANGED hostVars

\* A tool handler returns or throws; both are a result.
ChildAnswers(c, i) ==
    /\ life[c] = "serving"
    /\ callee[i] = c
    /\ i \notin {inbox[c][k] : k \in 1..Len(inbox[c])}
    /\ call[i] = "pending"      \* bound: nothing is answered after the timeout
    /\ Send(c, i)
    /\ UNCHANGED <<life, hostVars>>

\* The process ends: a signal, a crash, or of its own accord.
ChildDies(c) ==
    /\ Alive(c)
    /\ life' = [life EXCEPT ![c] = "dead"]
    /\ UNCHANGED <<inbox, hostVars>>

-----------------------------------------------------------------------------
(* The callbacks of forkProcess.                                           *)

Take(c, msg) ==
    /\ inbox[c] # <<>>
    /\ Head(inbox[c]) = msg
    /\ inbox' = [inbox EXCEPT ![c] = Tail(@)]

\* The entries of the same name that run while a child of another one is heard.
Intruded(c) ==
    {f \in Ext \ {extOf[c]} : NameOf[f] = NameOf[extOf[c]] /\ status[f] = "running"}

\* The child that the callback of an older one declares crashed.
Misjudged(c) == {process[extOf[c]]} \ {c, None}

\* A proxy for each tool of the extension goes to the registry.
RegisterTools(e) == registry' = Register(e)

OnRegisterTool(c) ==
    LET e == extOf[c] IN
    /\ Take(c, "register_tool")
    /\ tools' = tools \cup {e}
    /\ RegisterTools(e)
    /\ intruded' = (intruded \ {e}) \cup Intruded(c)
    /\ UNCHANGED <<onDisk, known, status, process, signal, resolved, shutdown,
                   childVars, callVars, readied, strayed>>

\* Mutant: the rest of startExtension forgets to register the proxies, which
\* a restart needs although the child registered them while it was activating.
OnReadyUnregistered(c) ==
    LET e == extOf[c] IN
    /\ Take(c, "ready")
    /\ IF c \in resolved
       THEN UNCHANGED <<tools, known, status, resolved, history>>
       ELSE /\ tools' = tools \cup {e}
            /\ discoverAll(onDisk, known, [status EXCEPT ![e] = "running"])
            /\ resolved' = resolved \cup {c}
            /\ readied' = readied \cup {c}
            /\ intruded' = (intruded \ {e}) \cup Intruded(c)
    /\ UNCHANGED <<onDisk, process, registry, signal, shutdown, childVars, callVars>>

\* "ready", and the rest of the startExtension that waited for it, and of its
\* handler, which lists the extensions.
OnReady(c) ==
    LET e == extOf[c] IN
    /\ Take(c, "ready")
    /\ IF c \in resolved
       THEN UNCHANGED <<tools, known, status, registry, resolved, history>>
       ELSE /\ tools' = tools \cup {e}
            /\ discoverAll(onDisk, known, [status EXCEPT ![e] = "running"])
            /\ RegisterTools(e)
            /\ resolved' = resolved \cup {c}
            /\ readied' = readied \cup {c}
            /\ intruded' = (intruded \ {e}) \cup Intruded(c)
    /\ UNCHANGED <<onDisk, process, signal, shutdown, childVars, callVars>>

OnError(c) ==
    /\ Take(c, "error")
    /\ status' = IF c \in resolved THEN status
                 ELSE [status EXCEPT ![extOf[c]] = "crashed"]
    /\ strayed' = IF c \in resolved THEN strayed ELSE strayed \cup Misjudged(c)
    /\ resolved' = resolved \cup {c}
    /\ UNCHANGED <<onDisk, known, process, tools, registry, signal, shutdown,
                   childVars, callVars, readied, intruded>>

\* handleResult: only a call that still waits is answered.
OnResult(c, i) ==
    /\ Take(c, i)
    /\ call' = [call EXCEPT ![i] = "settled"]
    /\ UNCHANGED <<onDisk, known, status, process, tools, registry, signal, resolved,
                   callee, shutdown, childVars, history>>

\* Mutant: the timer gives up when the child is not the current one any more.
ReadyTimeoutOfCurrent(c) ==
    /\ c \in Starting
    /\ process[extOf[c]] = c
    /\ resolved' = resolved \cup {c}
    /\ status' = [status EXCEPT ![extOf[c]] = "crashed"]
    /\ signal' = [signal EXCEPT ![c] = "kill"]
    /\ strayed' = strayed \cup Misjudged(c)
    /\ UNCHANGED <<onDisk, known, process, tools, registry, inbox, shutdown, childVars,
                   callVars, readied, intruded>>

\* The 10 s start-up timer.
ReadyTimeout(c) ==
    /\ c \in Starting
    /\ resolved' = resolved \cup {c}
    /\ status' = [status EXCEPT ![extOf[c]] = "crashed"]
    /\ signal' = [signal EXCEPT ![c] = "kill"]
    /\ strayed' = strayed \cup Misjudged(c)
    /\ UNCHANGED <<onDisk, known, process, tools, registry, inbox, shutdown, childVars,
                   callVars, readied, intruded>>

Pending == {i \in CallId : call[i] = "pending"}

\* Mutant: the exit of a running extension leaves the waiting calls alone and
\* keeps its tools.
OnExitForgetful(c) ==
    LET e == extOf[c] IN
    /\ life[c] = "dead"
    /\ c \in Forked \ exitSeen
    /\ exitSeen' = exitSeen \cup {c}
    /\ resolved' = resolved \cup {c}
    /\ status' = IF c \notin resolved \/ status[e] = "running"
                 THEN [status EXCEPT ![e] = "crashed"] ELSE status
    /\ strayed' = IF c \notin resolved \/ status[e] = "running"
                  THEN strayed \cup Misjudged(c) ELSE strayed
    /\ intruded' = intruded \cup Intruded(c)
    /\ UNCHANGED <<onDisk, known, process, tools, registry, signal, inbox, shutdown,
                   forks, extOf, life, beside, callVars, readied>>

\* The exit event.  An unanswered start fails; and an extension that is
\* "running" has crashed: every waiting call fails and its tools go.
OnExit(c) ==
    LET e == extOf[c] IN
    /\ life[c] = "dead"
    /\ c \in Forked \ exitSeen
    /\ exitSeen' = exitSeen \cup {c}
    /\ resolved' = resolved \cup {c}
    /\ status' = IF c \notin resolved \/ status[e] = "running"
                 THEN [status EXCEPT ![e] = "crashed"] ELSE status
    /\ strayed' = IF c \notin resolved \/ status[e] = "running"
                  THEN strayed \cup Misjudged(c) ELSE strayed
    /\ intruded' = intruded \cup Intruded(c)
    /\ IF c \in resolved /\ status[e] = "running"
       THEN /\ call' = [i \in CallId |->
                           IF i \in Pending THEN "settled" ELSE call[i]]
            /\ registry' = Unregister(e)
       ELSE UNCHANGED <<call, registry>>
    /\ UNCHANGED <<onDisk, known, process, tools, signal, inbox, callee, shutdown,
                   forks, extOf, life, beside, readied>>

\* Mutant: no timer for the calls of an extension that has been stopped.
CallTimeoutOfRunning(i) ==
    /\ call[i] = "pending"
    /\ status[extOf[callee[i]]] = "running"
    /\ call' = [call EXCEPT ![i] = "settled"]
    /\ UNCHANGED <<onDisk, known, status, process, tools, registry, signal, resolved,
                   inbox, callee, shutdown, childVars, history>>

\* The 30 s timer of a call.
CallTimeout(i) ==
    /\ call[i] = "pending"
    /\ call' = [call EXCEPT ![i] = "settled"]
    /\ UNCHANGED <<onDisk, known, status, process, tools, registry, signal, resolved,
                   inbox, callee, shutdown, childVars, history>>

-----------------------------------------------------------------------------
(* Shutdown.                                                               *)

Owned == {process[e] : e \in known} \ {None}

\* stopAll up to its await.
StopAll ==
    /\ shutdown = "no"
    /\ shutdown' = "waiting"
    /\ signal' = [c \in Child |-> IF c \in Owned /\ signal[c] = "none"
                                  THEN "term" ELSE signal[c]]
    /\ UNCHANGED <<onDisk, known, status, process, tools, registry, resolved, inbox,
                   childVars, callVars, history>>

\* stopAll goes on when every child has exited or had its 2 s.  After a first
\* kill() proc.killed is true, so no SIGKILL follows.
StopAllReturns ==
    /\ shutdown = "waiting"
    /\ shutdown' = "done"
    /\ known' = {}
    /\ UNCHANGED <<onDisk, status, process, tools, registry, signal, resolved, inbox,
                   childVars, callVars, history>>

-----------------------------------------------------------------------------
Operation(e) ==
    \/ StartExtension(e) \/ InstallFails(e) \/ StopExtension(e)
    \/ RestartExtension(e) \/ RemoveExtension(e)
    \/ \E i \in CallId : CallTool(e, i)

Deliver(c) ==
    \/ OnRegisterTool(c) \/ OnReady(c) \/ OnError(c)
    \/ \E i \in CallId : OnResult(c, i)

ChildStep(c) ==
    \/ ChildRegisters(c) \/ ChildIsReady(c) \/ ChildFails(c) \/ ChildDies(c)
    \/ \E i \in CallId : ChildAnswers(c, i)

Next ==
    \/ \E e \in Ext : Operation(e)
    \/ ListExtensions
    \/ \E n \in Dir : DirectoryAppears(n) \/ DirectoryDisappears(n)
    \/ \E c \in Child : ChildStep(c) \/ Deliver(c) \/ ReadyTimeout(c) \/ OnExit(c)
    \/ \E i \in CallId : CallTimeout(i)
    \/ StopAll \/ StopAllReturns

\* Timers expire and events that have happened are handled; nothing is assumed
\* of the children, nor that anybody calls the host.
Fairness ==
    /\ \A c \in Child : WF_vars(Deliver(c)) /\ WF_vars(ReadyTimeout(c))
                        /\ WF_vars(OnExit(c))
    /\ \A i \in CallId : WF_vars(CallTimeout(i))

SafeSpec == Init /\ [][Next]_vars
Spec == SafeSpec /\ Fairness
-----------------------------------------------------------------------------
(* Properties.                                                             *)

\* The state is what extension-host.ts may hold: entries, the statuses visible
\* between callbacks, and per-child records.
TypeOK ==
    /\ onDisk \subseteq Dir
    /\ known \subseteq Ext
    /\ status \in [Ext -> {"none", "discovered", "starting", "running", "stopped",
                          "crashed"}]
    /\ process \in [Ext -> Child \cup {None}]
    /\ tools \subseteq Ext /\ registry \subseteq Ext
    /\ forks \in 0..MaxForks
    /\ extOf \in [Child -> Ext \cup {None}]
    /\ life \in [Child -> {"none", "activating", "serving", "dead"}]
    /\ signal \in [Child -> {"none", "term", "kill"}]
    /\ resolved \subseteq Forked /\ exitSeen \subseteq Forked
    /\ call \in [CallId -> {"idle", "pending", "settled"}]
    /\ callee \in [CallId -> Child \cup {None}]
    /\ shutdown \in {"no", "waiting", "done"}
    /\ beside \in [Child -> SUBSET Child]
    /\ readied \subseteq Forked /\ strayed \subseteq Forked /\ intruded \subseteq Ext

\* One extension runs at a time ("One-extension-at-a-time enforcement in code",
\* CHANGELOG.md:20; extension-host.ts:207-216).
OneAtATime == \A e, f \in Running : e = f

\* The test for an extension that runs, and the one way past it: of two extensions
\* that run, one was forked while the start of the other was unanswered.  No stop,
\* restart, crash, removal or late callback in between brings two together otherwise.
OneAtATimeButForOverlaps ==
    \A e, f \in Running : e # f =>
        \E c, d \in readied : /\ extOf[c] = e /\ extOf[d] = f
                              /\ c \in beside[d] \/ d \in beside[c]

Unharmed(c) == Alive(c) /\ signal[c] = "none"

\* A child nobody asked to end is the process of its extension, which is starting or
\* running, and that extension is in the map: "stop" reaches it.  There are three ways
\* to lose one, and no others: its extension was started again while it was
\* "starting" (203-243 and 343), the exit, error or timer of an older child declared
\* its extension crashed, or its directory was gone when the extensions were
\* discovered while it started.
NoLostChild ==
    \A c \in Forked \ strayed : Unharmed(c) =>
        /\ extOf[c] \in known \/ shutdown = "done"
        /\ process[extOf[c]] = c
        /\ status[extOf[c]] \in {"starting", "running"}

\* The tools of a running extension are in the registry, however it came to run: by a
\* start, a restart, or a "ready" that arrives after a stop.  Only a child of an older
\* entry of the same name (removed, and put back) takes them away, by its late messages
\* or its exit: the registry goes by the name.
RunningIsCallable == Running \subseteq registry \cup intruded

\* When the exit of a child that nobody asked to end is handled, the calls that wait
\* for it fail at once, and not by their timers (extension-host.ts:423-431).  The
\* exceptions are a child that the host has lost sight of, and one that was not ready
\* itself but got calls because another child of its extension was.
CrashFailsCalls ==
    [][\A c \in (exitSeen' \ exitSeen) \cap (readied \ strayed) : signal[c] = "none" =>
           \A i \in Pending : callee[i] = c => call'[i] = "settled"]_vars

\* Every tool call gets a result, from the child, its crash or the timer.
EveryCallSettles ==
    \A i \in CallId : call[i] = "pending" ~> call[i] = "settled"

\* Every startExtension returns, whatever the child does and whoever stops,
\* restarts or removes the extension meanwhile.
EveryStartSettles == \A c \in Child : c \in Starting ~> c \in resolved
=============================================================================
