----------------------------- MODULE AgentRunner -----------------------------
(***************************************************************************)
(* agents/agent-runner.ts: the subscriber of "message:inbound" that turns  *)
(* a message into a run of the model and its tools.                        *)
(*                                                                         *)
(* JavaScript runs one callback at a time, so a step of this module is the *)
(* code between two awaits.  Each inbound event starts a handler, named by *)
(* the message that started it; the handler processes that message and     *)
(* then drains the session's queue, so one handler may process several     *)
(* messages, one after the other.                                          *)
(***************************************************************************)
EXTENDS MessageQueue

CONSTANTS
    StopCommand,          \* messages whose text is "stop" or "/stop"
    Served,               \* messages whose agent has a provider and a config
    OnChannel,            \* messages of a channel other than webchat
    MAX_TOOL_ITERATIONS,
    MaxCalls,             \* bound on the tool calls of one model answer
    maxHistoryPerSession,
    None                  \* the absence of a run

ASSUME RunnerAssumption ==
    /\ StopCommand \subseteq Message
    /\ MAX_TOOL_ITERATIONS \in Nat \ {0}
    /\ MaxCalls \in Nat \ {0}
    /\ maxHistoryPerSession \in Nat \ {0}
    /\ None \notin Message

VARIABLES
    arrived,      \* messages delivered on the bus
    activeRuns,   \* the message that keeps a session busy, or None
    aborted,      \* messages whose AbortController was aborted
    queues,       \* the MessageQueue of each session
    pc,           \* where the handler started by a message is suspended
    current,      \* the message that handler processes
    iterations,   \* its iteration of the tool loop
    calls,        \* tool calls of this iteration that have not settled
    open,         \* messages with a stream_start and no stream_end yet
    history,      \* the history of each session
    out,          \* what the runner emitted for a message, by correlationId
    handled,      \* messages for which processMessage was called
    discarded     \* messages the queue refused, dropped or cleared

vars == <<arrived, activeRuns, aborted, queues, pc, current, iterations,
          calls, open, history, out, handled, discarded>>

Running == {"stream", "tools", "unserved"}   \* inside processMessage
Ended   == {"ended", "failed"}               \* processMessage has settled

Turn   == [role : {"user", "calls", "results", "answer"}, msg : Message]
Output == {"intermediate", "answer", "limit", "error", "outbound"}

Init ==
    /\ arrived = {}
    /\ activeRuns = [s \in Session |-> None]
    /\ aborted = {}
    /\ queues = [s \in Session |-> <<>>]
    /\ pc = [m \in Message |-> "off"]
    /\ current = [m \in Message |-> m]
    /\ iterations = [m \in Message |-> 0]
    /\ calls = [m \in Message |-> 0]
    /\ open = {}
    /\ history = [s \in Session |-> <<>>]
    /\ out = [m \in Message |-> {}]
    /\ handled = {}
    /\ discarded = {}

isSessionBusy(s) == activeRuns[s] # None

\* SessionManager.addMessage on a history without system messages.
addMessage(h, role, m) ==
    LET longer == Append(h, [role |-> role, msg |-> m])
    IN  IF Len(longer) > maxHistoryPerSession THEN Tail(longer) ELSE longer

Record(role, m) ==
    history' = [history EXCEPT ![SessionOf[m]] = addMessage(@, role, m)]

Emit(m, kinds) == out' = [out EXCEPT ![m] = @ \cup kinds]

\* The final text of a message also goes to the adapter of its channel.
ToChannel(m) == IF m \in OnChannel THEN {"outbound"} ELSE {}

-----------------------------------------------------------------------------
(* The start and the end of processMessage.                                *)

\* processMessage and handleMessage up to their first await, in handler h.
processMessage(h, m) ==
    /\ activeRuns' = [activeRuns EXCEPT ![SessionOf[m]] = m]
    /\ handled' = handled \cup {m}
    /\ current' = [current EXCEPT ![h] = m]
    /\ IF m \in Served
       THEN /\ pc' = [pc EXCEPT ![h] = "stream"]
            /\ iterations' = [iterations EXCEPT ![h] = 1]
            /\ Record("user", m)
       ELSE /\ pc' = [pc EXCEPT ![h] = "unserved"]
            /\ UNCHANGED <<iterations, history>>

\* The `finally` of processMessage: the session is no longer busy.
EndRun(h, how) ==
    /\ activeRuns' = [activeRuns EXCEPT ![SessionOf[current[h]]] = None]
    /\ pc' = [pc EXCEPT ![h] = how]

-----------------------------------------------------------------------------
(* The handler of "message:inbound".                                       *)

Arrive(m) ==
    /\ m \notin arrived
    /\ arrived' = arrived \cup {m}

StopRun(m) ==
    LET s == SessionOf[m] IN
    /\ Arrive(m)
    /\ m \in StopCommand
    /\ IF isSessionBusy(s)
       THEN /\ aborted' = aborted \cup {activeRuns[s]}
            /\ queues' = [queues EXCEPT ![s] = <<>>]
            /\ discarded' = discarded \cup Queued(queues[s])
       ELSE UNCHANGED <<aborted, queues, discarded>>
    /\ UNCHANGED <<activeRuns, pc, current, iterations, calls, open, history,
                   out, handled>>

QueueMessage(m, recent) ==
    LET s == SessionOf[m] IN
    /\ Arrive(m)
    /\ m \notin StopCommand
    /\ isSessionBusy(s)
    /\ IF IsDuplicate(queues[s], m, recent)
       THEN /\ discarded' = discarded \cup {m}
            /\ UNCHANGED queues
       ELSE /\ discarded' = discarded \cup Dropped(queues[s])
            /\ queues' = [queues EXCEPT ![s] = Enqueue(@, m)]
    /\ UNCHANGED <<activeRuns, aborted, pc, current, iterations, calls, open,
                   history, out, handled>>

\* Mutant: a message is processed at once whether or not the session is busy.
ProcessNowWhileBusy(m) ==
    /\ Arrive(m)
    /\ m \notin StopCommand
    /\ processMessage(m, m)
    /\ UNCHANGED <<aborted, queues, calls, open, out, discarded>>

ProcessNow(m) ==
    /\ Arrive(m)
    /\ m \notin StopCommand
    /\ ~isSessionBusy(SessionOf[m])
    /\ processMessage(m, m)
    /\ UNCHANGED <<aborted, queues, calls, open, out, discarded>>

\* The handler of "agent:abort", which extensions can emit: unlike the stop
\* command it leaves the queue alone.
AbortEvent(s) ==
    /\ isSessionBusy(s)
    /\ aborted' = aborted \cup {activeRuns[s]}
    /\ UNCHANGED <<arrived, activeRuns, queues, pc, current, iterations, calls,
                   open, history, out, handled, discarded>>

-----------------------------------------------------------------------------
(* The agent loop of handleMessage.                                        *)

isAborted(h) == current[h] \in aborted

\* The agent has no provider: handleMessage returns, nobody is told.
ReturnUnserved(h) ==
    /\ pc[h] = "unserved"
    /\ EndRun(h, "ended")
    /\ UNCHANGED <<arrived, aborted, queues, current, iterations, calls, open,
                   history, out, handled, discarded>>

\* A text chunk: stream_start before the first one, a delta for each.
TextChunk(h) ==
    /\ pc[h] = "stream"
    /\ ~isAborted(h)
    /\ open' = open \cup {current[h]}
    /\ UNCHANGED <<arrived, activeRuns, aborted, queues, pc, current,
                   iterations, calls, history, out, handled, discarded>>

\* Mutant: an aborted stream gets no stream_end.
AbortAtChunkLeavesOpen(h) ==
    /\ pc[h] = "stream"
    /\ isAborted(h)
    /\ EndRun(h, "ended")
    /\ UNCHANGED <<arrived, aborted, queues, current, iterations, calls, open,
                   history, out, handled, discarded>>

\* Any chunk that arrives after the abort ends the stream and the run.
AbortAtChunk(h) ==
    /\ pc[h] = "stream"
    /\ isAborted(h)
    /\ open' = open \ {current[h]}
    /\ EndRun(h, "ended")
    /\ UNCHANGED <<arrived, aborted, queues, current, iterations, calls,
                   history, out, handled, discarded>>

\* Mutant: no `finally`, so a run that throws leaves its session busy.
StreamThrowsStaysBusy(h) ==
    /\ pc[h] = "stream"
    /\ pc' = [pc EXCEPT ![h] = "failed"]
    /\ UNCHANGED <<arrived, activeRuns, aborted, queues, current, iterations,
                   calls, open, history, out, handled, discarded>>

\* The request or the stream of the provider throws.
StreamThrows(h) ==
    /\ pc[h] = "stream"
    /\ EndRun(h, "failed")
    /\ UNCHANGED <<arrived, aborted, queues, current, iterations, calls, open,
                   history, out, handled, discarded>>

\* The stream ends with n tool calls: they are recorded and the first starts.
ToolCalls(h, n) ==
    /\ pc[h] = "stream"
    /\ ~isAborted(h)
    /\ open' = open \ {current[h]}
    /\ Record("calls", current[h])
    /\ \/ Emit(current[h], {"intermediate"} \cup ToChannel(current[h]))
       \/ UNCHANGED out           \* no text, or text that is only narration
    /\ calls' = [calls EXCEPT ![h] = n]
    /\ pc' = [pc EXCEPT ![h] = "tools"]
    /\ UNCHANGED <<arrived, activeRuns, aborted, queues, current, iterations,
                   handled, discarded>>

\* Mutant: the abort is not looked at when the stream ends.
FinalResponseUnchecked(h) ==
    /\ pc[h] = "stream"
    /\ open' = open \ {current[h]}
    /\ Record("answer", current[h])
    /\ Emit(current[h], {"answer"} \cup ToChannel(current[h]))
    /\ EndRun(h, "ended")
    /\ UNCHANGED <<arrived, aborted, queues, current, iterations, calls,
                   handled, discarded>>

\* The stream ends without tool calls: the final response, and after the loop
\* the test of the iteration limit.
FinalResponse(h) ==
    /\ pc[h] = "stream"
    /\ ~isAborted(h)
    /\ open' = open \ {current[h]}
    /\ Record("answer", current[h])
    /\ Emit(current[h], {"answer"} \cup ToChannel(current[h])
                        \cup (IF iterations[h] >= MAX_TOOL_ITERATIONS
                              THEN {"limit"} ELSE {}))
    /\ EndRun(h, "ended")
    /\ UNCHANGED <<arrived, aborted, queues, current, iterations, calls,
                   handled, discarded>>

\* A tool settles and the next one of the same answer starts.
NextTool(h) ==
    /\ pc[h] = "tools"
    /\ calls[h] > 1
    /\ ~isAborted(h)
    /\ calls' = [calls EXCEPT ![h] = @ - 1]
    /\ UNCHANGED <<arrived, activeRuns, aborted, queues, pc, current,
                   iterations, open, history, out, handled, discarded>>

\* A tool settles after the abort: the others are skipped, no result is kept.
AbortAtTools(h) ==
    /\ pc[h] = "tools"
    /\ isAborted(h)
    /\ calls' = [calls EXCEPT ![h] = 0]
    /\ EndRun(h, "ended")
    /\ UNCHANGED <<arrived, aborted, queues, current, iterations, open,
                   history, out, handled, discarded>>

\* The last tool settles: its results go to the history and the loop
\* continues, or stops at the limit.
ToolResults(h) ==
    /\ pc[h] = "tools"
    /\ calls[h] = 1
    /\ ~isAborted(h)
    /\ calls' = [calls EXCEPT ![h] = 0]
    /\ Record("results", current[h])
    /\ IF iterations[h] < MAX_TOOL_ITERATIONS
       THEN /\ iterations' = [iterations EXCEPT ![h] = @ + 1]
            /\ pc' = [pc EXCEPT ![h] = "stream"]
            /\ UNCHANGED <<activeRuns, out>>
       ELSE /\ Emit(current[h], {"limit"})
            /\ EndRun(h, "ended")
            /\ UNCHANGED iterations
    /\ UNCHANGED <<arrived, aborted, queues, current, open, handled, discarded>>

-----------------------------------------------------------------------------
(* The handler resumes after processMessage settled.  An error of the      *)
(* message that started the handler is reported to the user; an error of a *)
(* drained message only becomes an agent:error event.                      *)

\* Mutant: an error only becomes an agent:error event.
ReportErrorNever(h) == UNCHANGED out

ReportError(h) ==
    IF pc[h] = "failed" /\ current[h] = h THEN Emit(h, {"error"})
                                          ELSE UNCHANGED out

\* Mutant: the drain loop does not look whether the session is busy again.
DrainNextWhileBusy(h) ==
    LET s == SessionOf[current[h]] IN
    /\ pc[h] \in Ended
    /\ queues[s] # <<>>
    /\ ReportError(h)
    /\ queues' = [queues EXCEPT ![s] = Tail(@)]
    /\ processMessage(h, Head(queues[s]))
    /\ UNCHANGED <<arrived, aborted, calls, open, discarded>>

\* Mutant: the drain loop reads the queue without removing what it read.
DrainNextPeeks(h) ==
    LET s == SessionOf[current[h]] IN
    /\ pc[h] \in Ended
    /\ queues[s] # <<>>
    /\ ~isSessionBusy(s)
    /\ ReportError(h)
    /\ processMessage(h, Head(queues[s]))
    /\ UNCHANGED <<arrived, aborted, queues, calls, open, discarded>>

\* Mutant: the drain loop takes the newest message (pop instead of shift).
DrainNewest(h) ==
    LET s == SessionOf[current[h]]
        q == queues[s] IN
    /\ pc[h] \in Ended
    /\ q # <<>>
    /\ ~isSessionBusy(s)
    /\ ReportError(h)
    /\ queues' = [queues EXCEPT ![s] = SubSeq(q, 1, Len(q) - 1)]
    /\ processMessage(h, q[Len(q)])
    /\ UNCHANGED <<arrived, aborted, calls, open, discarded>>

DrainNext(h) ==
    LET s == SessionOf[current[h]] IN
    /\ pc[h] \in Ended
    /\ queues[s] # <<>>
    /\ ~isSessionBusy(s)
    /\ ReportError(h)
    /\ queues' = [queues EXCEPT ![s] = Tail(@)]
    /\ processMessage(h, Head(queues[s]))
    /\ UNCHANGED <<arrived, aborted, calls, open, discarded>>

\* Mutant: the handler may return although messages are waiting.
HandlerReturnsEarly(h) ==
    /\ pc[h] \in Ended
    /\ ReportError(h)
    /\ pc' = [pc EXCEPT ![h] = "over"]
    /\ UNCHANGED <<arrived, activeRuns, aborted, queues, current, iterations,
                   calls, open, history, handled, discarded>>

HandlerReturns(h) ==
    LET s == SessionOf[current[h]] IN
    /\ pc[h] \in Ended
    /\ queues[s] = <<>> \/ isSessionBusy(s)
    /\ ReportError(h)
    /\ pc' = [pc EXCEPT ![h] = "over"]
    /\ UNCHANGED <<arrived, activeRuns, aborted, queues, current, iterations,
                   calls, open, history, handled, discarded>>

-----------------------------------------------------------------------------
Inbound(m) ==
    \/ StopRun(m)
    \/ \E recent \in 0..MAX_QUEUE_SIZE : QueueMessage(m, recent)
    \/ ProcessNow(m)

StreamEnds(h) ==
    \/ AbortAtChunk(h)
    \/ StreamThrows(h)
    \/ \E n \in 1..MaxCalls : ToolCalls(h, n)
    \/ FinalResponse(h)

ToolSettles(h) == NextTool(h) \/ AbortAtTools(h) \/ ToolResults(h)

Resume(h) == DrainNext(h) \/ HandlerReturns(h)

Next ==
    \/ \E m \in Message : Inbound(m)
    \/ \E s \in Session : AbortEvent(s)
    \/ \E h \in Message :
          ReturnUnserved(h) \/ TextChunk(h) \/ StreamEnds(h)
          \/ ToolSettles(h) \/ Resume(h)

\* The provider ends or breaks every stream and every tool settles (both have
\* timeouts); the JavaScript engine resumes what is ready to run.
Fairness ==
    \A h \in Message :
        /\ WF_vars(ReturnUnserved(h))
        /\ WF_vars(StreamEnds(h))
        /\ WF_vars(ToolSettles(h))
        /\ WF_vars(Resume(h))

SafeSpec == Init /\ [][Next]_vars
Spec == SafeSpec /\ Fairness
-----------------------------------------------------------------------------
(* Properties.                                                             *)

\* The shape of the state; no queue exceeds its cap, no history its window.
TypeOK ==
    /\ arrived \subseteq Message
    /\ activeRuns \in [Session -> Message \cup {None}]
    /\ aborted \subseteq Message
    /\ queues \in [Session -> Seq(Message)]
    /\ \A s \in Session : Len(queues[s]) <= MAX_QUEUE_SIZE
    /\ pc \in [Message -> Running \cup Ended \cup {"off", "over"}]
    /\ current \in [Message -> Message]
    /\ iterations \in [Message -> 0..MAX_TOOL_ITERATIONS]
    /\ calls \in [Message -> 0..MaxCalls]
    /\ open \subseteq Message
    /\ history \in [Session -> Seq(Turn)]
    /\ \A s \in Session : Len(history[s]) <= maxHistoryPerSession
    /\ out \in [Message -> SUBSET Output]
    /\ handled \subseteq Message
    /\ discarded \subseteq Message

\* The handlers that are inside processMessage for a session.
RunsOf(s) == {h \in Message : pc[h] \in Running /\ SessionOf[current[h]] = s}

\* The entry of activeRuns is there exactly while one handler runs a message
\* of the session, and it is the entry of that message: an abort reaches the
\* run it is meant for, and no handler deletes the entry of another.
BusyIffRunning ==
    \A s \in Session :
        IF isSessionBusy(s)
        THEN \E h \in Message : RunsOf(s) = {h} /\ current[h] = activeRuns[s]
        ELSE RunsOf(s) = {}

\* Messages wait only while some handler of their session is still to look at
\* the queue: nothing is queued just after the last handler has left.
NoStrandedMessage ==
    \A s \in Session :
        queues[s] # <<>> =>
            \E h \in Message : /\ pc[h] \in Running \cup Ended
                              /\ SessionOf[current[h]] = s

Waiting == UNION {Queued(queues[s]) : s \in Session}

\* A message that arrived has exactly one fate: it is being or was processed,
\* it waits, or it was discarded.  None is processed again or lost silently.
EveryMessageAccounted ==
    /\ arrived \ StopCommand = handled \cup discarded \cup Waiting
    /\ handled \cap discarded = {}
    /\ Waiting \cap (handled \cup discarded) = {}

\* What the provider is sent of a session: the turns of one message are contiguous,
\* tool results directly follow the assistant turn that called the tools, and such a
\* turn is directly followed by its results.  The two ways in which a pair is broken,
\* and no others: the window has cut the calls off, so that their results are the
\* oldest turn (session-manager.ts:141), or the run was aborted between the two
\* (agent-runner.ts:528-541).
HistoryWellFormed ==
    \A s \in Session :
        LET h == history[s] IN
        /\ \A i, j, k \in 1..Len(h) :
              i < j /\ j < k /\ h[i].msg = h[k].msg => h[j].msg = h[i].msg
        /\ \A i \in 1..Len(h) : h[i].role = "results" =>
              IF i = 1 THEN Len(h) = maxHistoryPerSession
                       ELSE h[i-1] = [h[i] EXCEPT !.role = "calls"]
        /\ \A i \in 1..(Len(h) - 1) : h[i].role = "calls" =>
              h[i+1] = [h[i] EXCEPT !.role = "results"] \/ h[i].msg \in aborted

\* Once a run is aborted it tells the user nothing more but an error, and
\* leaves no further turn in the history.
SilentAfterAbort ==
    [][ /\ \A m \in aborted : out'[m] \subseteq out[m] \cup {"error"}
        /\ \A s \in Session :
              history'[s] # history[s] =>
                  history'[s][Len(history'[s])].msg \notin aborted ]_vars

\* A stream shown to the user is closed when its run is over, unless the
\* provider broke it.
StreamsAreClosed ==
    \A h \in Message : pc[h] = "ended" => current[h] \notin open

Responses == {"answer", "limit", "error"}    \* the kinds of agent:response

\* The user of a message that is processed at once gets an agent:response,
\* or has stopped the run.
DirectMessageIsAnswered ==
    \A m \in Served :
        (pc[m] # "off") ~> (out[m] \cap Responses # {} \/ m \in aborted)

\* No session stays busy for ever.
SessionBecomesFree == \A s \in Session : []<>(~isSessionBusy(s))

\* The runner implements the mailbox: what is served is the active run, what
\* waits is the queue.
Mailbox == INSTANCE SessionMailbox WITH serving <- activeRuns, waiting <- queues

ImplementsMailboxSafely == Mailbox!SafeSpec

ImplementsMailbox == Mailbox!Spec

\* "Final response": a message gets at most one agent:response.
AtMostOneResponse ==
    \A m \in Message : \A a, b \in out[m] \cap Responses : a = b
=============================================================================
