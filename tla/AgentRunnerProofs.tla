-------------------------- MODULE AgentRunnerProofs --------------------------
(***************************************************************************)
(* Proofs about AgentRunner, for any sets of messages and sessions and any *)
(* value of the bounds.                                                    *)
(***************************************************************************)
EXTENDS AgentRunner, TLAPS

(* Lemmas about the operators on queues and histories.                     *)

\* Enqueueing keeps a queue a sequence of messages within the cap
\* (message-queue.ts, enqueue).
LEMMA EnqueueType ==
    ASSUME NEW q \in Seq(Message), Len(q) <= MAX_QUEUE_SIZE, NEW m \in Message
    PROVE  /\ Enqueue(q, m) \in Seq(Message)
           /\ Len(Enqueue(q, m)) <= MAX_QUEUE_SIZE
BY QueueAssumption DEF Enqueue, DropOldest

\* What a full queue drops is a message (message-queue.ts, enqueue).
LEMMA DroppedType ==
    ASSUME NEW q \in Seq(Message)
    PROVE  Dropped(q) \subseteq Message
BY QueueAssumption DEF Dropped

\* The messages of a queue are messages.
LEMMA QueuedType ==
    ASSUME NEW q \in Seq(Message)
    PROVE  Queued(q) \subseteq Message
BY DEF Queued

\* Adding a turn keeps a history within its window
\* (session-manager.ts, addMessage).
LEMMA AddMessageType ==
    ASSUME NEW h \in Seq(Turn), Len(h) <= maxHistoryPerSession,
           NEW role \in {"user", "calls", "results", "answer"}, NEW m \in Message
    PROVE  /\ addMessage(h, role, m) \in Seq(Turn)
           /\ Len(addMessage(h, role, m)) <= maxHistoryPerSession
<1> DEFINE turn == [role |-> role, msg |-> m]
<1>1. turn \in Turn
  BY DEF Turn
<1>2. Append(h, turn) \in Seq(Turn) /\ Len(Append(h, turn)) = Len(h) + 1
  BY <1>1
<1> QED
  BY <1>2, RunnerAssumption DEF addMessage

\* So a step that records a turn keeps the history well typed.
LEMMA RecordType ==
    ASSUME TypeOK, NEW role \in {"user", "calls", "results", "answer"},
           NEW m \in Message, Record(role, m)
    PROVE  /\ history' \in [Session -> Seq(Turn)]
           /\ \A s \in Session : Len(history'[s]) <= maxHistoryPerSession
<1>1. SessionOf[m] \in Session
  BY QueueAssumption
<1>2. /\ addMessage(history[SessionOf[m]], role, m) \in Seq(Turn)
      /\ Len(addMessage(history[SessionOf[m]], role, m)) <= maxHistoryPerSession
  BY <1>1, AddMessageType DEF TypeOK
<1> QED
  BY <1>1, <1>2 DEF TypeOK, Record

\* Emitting output of the known kinds keeps `out` well typed.
LEMMA EmitType ==
    ASSUME TypeOK, NEW m \in Message, NEW kinds \in SUBSET Output, Emit(m, kinds)
    PROVE  out' \in [Message -> SUBSET Output]
BY DEF TypeOK, Emit

\* processMessage keeps what it assigns well typed.
LEMMA ProcessType ==
    ASSUME TypeOK, NEW h \in Message, NEW m \in Message, processMessage(h, m)
    PROVE  /\ activeRuns' \in [Session -> Message \cup {None}]
           /\ pc' \in [Message -> Running \cup Ended \cup {"off", "over"}]
           /\ current' \in [Message -> Message]
           /\ iterations' \in [Message -> 0..MAX_TOOL_ITERATIONS]
           /\ history' \in [Session -> Seq(Turn)]
           /\ \A s \in Session : Len(history'[s]) <= maxHistoryPerSession
           /\ handled' \subseteq Message
<1>1. CASE m \in Served
  <2>1. Record("user", m)
    BY <1>1 DEF processMessage
  <2>2. /\ history' \in [Session -> Seq(Turn)]
        /\ \A s \in Session : Len(history'[s]) <= maxHistoryPerSession
    BY <2>1, RecordType
  <2>3. 1 \in 0..MAX_TOOL_ITERATIONS
    BY RunnerAssumption
  <2> QED
    BY <1>1, <2>2, <2>3, QueueAssumption
    DEF processMessage, TypeOK, Running
<1>2. CASE m \notin Served
  BY <1>2, QueueAssumption DEF processMessage, TypeOK, Running
<1> QED
  BY <1>1, <1>2

\* The end of a run keeps what it assigns well typed.
LEMMA EndRunType ==
    ASSUME TypeOK, NEW h \in Message, NEW how \in Ended, EndRun(h, how)
    PROVE  /\ activeRuns' \in [Session -> Message \cup {None}]
           /\ pc' \in [Message -> Running \cup Ended \cup {"off", "over"}]
BY QueueAssumption DEF EndRun, TypeOK

-----------------------------------------------------------------------------
(* Type correctness.                                                       *)

\* A runner that has just started is well typed: nothing runs, nothing waits.
LEMMA TypeInit == Init => TypeOK
<1> SUFFICES ASSUME Init PROVE TypeOK
  OBVIOUS
<1> <<>> \in Seq(Message) /\ <<>> \in Seq(Turn) /\ Len(<<>>) = 0
  OBVIOUS
<1> QED
  BY QueueAssumption, RunnerAssumption
  DEF Init, TypeOK, Running, Ended, Output

\* Every step keeps the state well typed; each action assigns only values of
\* the declared kinds, and the caps of queue and history hold.
LEMMA TypeStep == TypeOK /\ [Next]_vars => TypeOK'
<1> SUFFICES ASSUME TypeOK, [Next]_vars PROVE TypeOK'
  OBVIOUS
<1> USE DEF Arrive
<1>1. ASSUME NEW m \in Message, StopRun(m) PROVE TypeOK'
  <2>1. SessionOf[m] \in Session /\ Queued(queues[SessionOf[m]]) \subseteq Message
    BY QueueAssumption, QueuedType DEF TypeOK
  <2>2. <<>> \in Seq(Message) /\ Len(<<>>) <= MAX_QUEUE_SIZE
    BY QueueAssumption
  <2>3. /\ aborted' \subseteq Message
        /\ discarded' \subseteq Message
        /\ queues' \in [Session -> Seq(Message)]
    BY <1>1, <2>1, <2>2 DEF StopRun, isSessionBusy, TypeOK
  <2>4. \A s \in Session : Len(queues'[s]) <= MAX_QUEUE_SIZE
    BY <1>1, <2>1, <2>2 DEF StopRun, TypeOK
  <2> QED
    BY <1>1, <2>3, <2>4 DEF StopRun, TypeOK
<1>2. ASSUME NEW m \in Message, NEW r \in 0..MAX_QUEUE_SIZE, QueueMessage(m, r)
      PROVE  TypeOK'
  <2>1. SessionOf[m] \in Session
    BY QueueAssumption
  <2>2. /\ Enqueue(queues[SessionOf[m]], m) \in Seq(Message)
        /\ Len(Enqueue(queues[SessionOf[m]], m)) <= MAX_QUEUE_SIZE
        /\ Dropped(queues[SessionOf[m]]) \subseteq Message
    BY <2>1, EnqueueType, DroppedType DEF TypeOK
  <2> QED
    BY <1>2, <2>1, <2>2 DEF QueueMessage, TypeOK
<1>3. ASSUME NEW m \in Message, ProcessNow(m) PROVE TypeOK'
  BY <1>3, ProcessType DEF ProcessNow, TypeOK
<1>4. ASSUME NEW s \in Session, AbortEvent(s) PROVE TypeOK'
  BY <1>4 DEF AbortEvent, isSessionBusy, TypeOK
<1>5. ASSUME NEW h \in Message, ReturnUnserved(h) PROVE TypeOK'
  BY <1>5, EndRunType DEF ReturnUnserved, TypeOK, Ended
<1>6. ASSUME NEW h \in Message, TextChunk(h) PROVE TypeOK'
  BY <1>6 DEF TextChunk, TypeOK
<1>7. ASSUME NEW h \in Message, AbortAtChunk(h) PROVE TypeOK'
  BY <1>7, EndRunType DEF AbortAtChunk, TypeOK, Ended
<1>8. ASSUME NEW h \in Message, StreamThrows(h) PROVE TypeOK'
  BY <1>8, EndRunType DEF StreamThrows, TypeOK, Ended
<1>9. ASSUME NEW h \in Message, NEW n \in 1..MaxCalls, ToolCalls(h, n)
      PROVE  TypeOK'
  <2>1. current[h] \in Message
    BY DEF TypeOK
  <2>2. /\ history' \in [Session -> Seq(Turn)]
        /\ \A s \in Session : Len(history'[s]) <= maxHistoryPerSession
    BY <1>9, <2>1, RecordType DEF ToolCalls
  <2>3. {"intermediate"} \cup ToChannel(current[h]) \in SUBSET Output
    BY DEF ToChannel, Output
  <2>4. out' \in [Message -> SUBSET Output]
    BY <1>9, <2>1, <2>3, EmitType DEF ToolCalls, TypeOK
  <2>5. n \in 0..MaxCalls
    BY RunnerAssumption
  <2> QED
    BY <1>9, <2>1, <2>2, <2>4, <2>5 DEF ToolCalls, TypeOK, Running
<1>10. ASSUME NEW h \in Message, FinalResponse(h) PROVE TypeOK'
  <2>1. current[h] \in Message
    BY DEF TypeOK
  <2>2. /\ history' \in [Session -> Seq(Turn)]
        /\ \A s \in Session : Len(history'[s]) <= maxHistoryPerSession
    BY <1>10, <2>1, RecordType DEF FinalResponse
  <2>3. {"answer"} \cup ToChannel(current[h])
          \cup (IF iterations[h] >= MAX_TOOL_ITERATIONS THEN {"limit"} ELSE {})
            \in SUBSET Output
    BY DEF ToChannel, Output
  <2>4. out' \in [Message -> SUBSET Output]
    BY <1>10, <2>1, <2>3, EmitType DEF FinalResponse
  <2> QED
    BY <1>10, <2>1, <2>2, <2>4, EndRunType DEF FinalResponse, TypeOK, Ended
<1>11. ASSUME NEW h \in Message, NextTool(h) PROVE TypeOK'
  BY <1>11, RunnerAssumption DEF NextTool, TypeOK
<1>12. ASSUME NEW h \in Message, AbortAtTools(h) PROVE TypeOK'
  BY <1>12, EndRunType, RunnerAssumption DEF AbortAtTools, TypeOK, Ended
<1>13. ASSUME NEW h \in Message, ToolResults(h) PROVE TypeOK'
  <2>1. current[h] \in Message
    BY DEF TypeOK
  <2>2. /\ history' \in [Session -> Seq(Turn)]
        /\ \A s \in Session : Len(history'[s]) <= maxHistoryPerSession
    BY <1>13, <2>1, RecordType DEF ToolResults
  <2>3. calls' \in [Message -> 0..MaxCalls]
    BY <1>13, RunnerAssumption DEF ToolResults, TypeOK
  <2>4. CASE iterations[h] < MAX_TOOL_ITERATIONS
    <3>1. iterations[h] \in 0..MAX_TOOL_ITERATIONS /\ MAX_TOOL_ITERATIONS \in Nat
      BY RunnerAssumption DEF TypeOK
    <3>2. iterations[h] + 1 \in 0..MAX_TOOL_ITERATIONS
      BY <2>4, <3>1
    <3>3. iterations' \in [Message -> 0..MAX_TOOL_ITERATIONS]
      BY <1>13, <2>4, <3>2 DEF ToolResults, TypeOK
    <3> QED
      BY <1>13, <2>2, <2>3, <2>4, <3>3 DEF ToolResults, TypeOK, Running
  <2>5. CASE ~(iterations[h] < MAX_TOOL_ITERATIONS)
    <3>1. out' \in [Message -> SUBSET Output]
      BY <1>13, <2>1, <2>5, EmitType DEF ToolResults, Output
    <3> QED
      BY <1>13, <2>2, <2>3, <2>5, <3>1, EndRunType DEF ToolResults, TypeOK, Ended
  <2> QED
    BY <2>4, <2>5
<1>14. ASSUME NEW h \in Message, ReportError(h)
       PROVE  out' \in [Message -> SUBSET Output]
  BY <1>14, EmitType DEF ReportError, TypeOK, Output
<1>15. ASSUME NEW h \in Message, DrainNext(h) PROVE TypeOK'
  <2> DEFINE s == SessionOf[current[h]]
  <2>1. s \in Session /\ queues[s] \in Seq(Message) /\ queues[s] # <<>>
    BY <1>15, QueueAssumption DEF DrainNext, TypeOK
  <2>2. /\ Head(queues[s]) \in Message
        /\ Tail(queues[s]) \in Seq(Message)
        /\ Len(Tail(queues[s])) <= MAX_QUEUE_SIZE
    BY <2>1, QueueAssumption DEF TypeOK
  <2>3. out' \in [Message -> SUBSET Output]
    BY <1>14, <1>15 DEF DrainNext
  <2> QED
    BY <1>15, <2>1, <2>2, <2>3, ProcessType DEF DrainNext, TypeOK
<1>16. ASSUME NEW h \in Message, HandlerReturns(h) PROVE TypeOK'
  BY <1>14, <1>16 DEF HandlerReturns, TypeOK
<1>17. CASE UNCHANGED vars
  BY <1>17 DEF vars, TypeOK
<1> QED
  BY <1>1, <1>2, <1>3, <1>4, <1>5, <1>6, <1>7, <1>8, <1>9, <1>10, <1>11,
     <1>12, <1>13, <1>15, <1>16, <1>17
  DEF Next, Inbound, StreamEnds, ToolSettles, Resume

\* Type correctness of the agent runner: in particular no session's queue
\* grows beyond MAX_QUEUE_SIZE and no history beyond its window.
THEOREM TypeCorrect == SafeSpec => []TypeOK
BY TypeInit, TypeStep, PTL DEF SafeSpec

-----------------------------------------------------------------------------
(* One run at a time, and nobody left waiting.                             *)

\* A run keeps its session busy under the name of its own message.
RunsAreBusy ==
    \A h \in Message :
        pc[h] \in Running => activeRuns[SessionOf[current[h]]] = current[h]

\* Two handlers never run messages of one session.
OneRun ==
    \A h, g \in Message :
        /\ pc[h] \in Running /\ pc[g] \in Running
        /\ SessionOf[current[h]] = SessionOf[current[g]]
        => h = g

\* A busy session has a run.
BusyHasRun ==
    \A s \in Session :
        activeRuns[s] # None =>
            \E h \in Message : /\ pc[h] \in Running
                              /\ current[h] = activeRuns[s]
                              /\ SessionOf[current[h]] = s

RunInv == RunsAreBusy /\ OneRun /\ BusyHasRun

\* A handler exists only for a message that arrived.
StartedArrived == \A h \in Message : pc[h] # "off" => h \in arrived

\* A queue holds messages of its own session.
QueueOfSession ==
    \A s \in Session : \A i \in 1..Len(queues[s]) : SessionOf[queues[s][i]] = s

\* The inductive invariant: what is on the way of a message from its arrival
\* to the end of its handler.
ServiceInv == RunInv /\ StartedArrived /\ QueueOfSession /\ NoStrandedMessage

\* processMessage starts a run in a free session: the map and the handlers
\* agree again.
LEMMA StartKeepsRunInv ==
    ASSUME TypeOK, RunInv, NEW h \in Message, NEW m \in Message,
           pc[h] \notin Running, ~isSessionBusy(SessionOf[m]),
           processMessage(h, m)
    PROVE  RunInv' /\ pc'[h] \in Running /\ current'[h] = m
           /\ \A g \in Message \ {h} : pc'[g] = pc[g] /\ current'[g] = current[g]
<1>1. SessionOf[m] \in Session /\ m # None
  BY QueueAssumption, RunnerAssumption
<1>2. /\ pc'[h] \in Running /\ current'[h] = m
      /\ \A g \in Message \ {h} : pc'[g] = pc[g] /\ current'[g] = current[g]
  BY DEF processMessage, TypeOK, Running
<1>3. activeRuns' = [activeRuns EXCEPT ![SessionOf[m]] = m]
  BY DEF processMessage
<1>4. \A g \in Message : pc[g] \in Running => SessionOf[current[g]] # SessionOf[m]
  BY RunnerAssumption DEF RunInv, RunsAreBusy, isSessionBusy, TypeOK
<1>5. \A g \in Message : current[g] \in Message /\ SessionOf[current[g]] \in Session
  BY QueueAssumption DEF TypeOK
<1>6. RunsAreBusy'
  BY <1>1, <1>2, <1>3, <1>4, <1>5 DEF RunsAreBusy, RunInv, TypeOK
<1>7. OneRun'
  BY <1>1, <1>2, <1>4 DEF OneRun, RunInv
<1>8. BusyHasRun'
  <2> SUFFICES ASSUME NEW s \in Session, activeRuns'[s] # None
               PROVE  \E g \in Message : /\ pc'[g] \in Running
                                        /\ current'[g] = activeRuns'[s]
                                        /\ SessionOf[current'[g]] = s
    BY DEF BusyHasRun
  <2>1. CASE s = SessionOf[m]
    BY <1>1, <1>2, <1>3, <2>1 DEF TypeOK
  <2>2. CASE s # SessionOf[m]
    <3>1. activeRuns'[s] = activeRuns[s]
      BY <1>3, <2>2 DEF TypeOK
    <3>2. PICK g \in Message : /\ pc[g] \in Running
                             /\ current[g] = activeRuns[s]
                             /\ SessionOf[current[g]] = s
      BY <3>1 DEF RunInv, BusyHasRun
    <3> QED
      BY <1>2, <3>1, <3>2
  <2> QED
    BY <2>1, <2>2
<1> QED
  BY <1>2, <1>6, <1>7, <1>8 DEF RunInv

\* The `finally` of processMessage removes the entry of its own run.
LEMMA EndKeepsRunInv ==
    ASSUME TypeOK, RunInv, NEW h \in Message, NEW how \in Ended,
           pc[h] \in Running, EndRun(h, how), current' = current
    PROVE  RunInv' /\ pc'[h] = how
           /\ \A g \in Message \ {h} : pc'[g] = pc[g]
<1>1. /\ pc'[h] = how /\ how \notin Running
      /\ \A g \in Message \ {h} : pc'[g] = pc[g]
  BY DEF EndRun, TypeOK, Running, Ended
<1>2. activeRuns' = [activeRuns EXCEPT ![SessionOf[current[h]]] = None]
  BY DEF EndRun
<1>3. \A g \in Message : SessionOf[current[g]] \in Session
  BY QueueAssumption DEF TypeOK
<1>4. \A g \in Message \ {h} :
        pc[g] \in Running => SessionOf[current[g]] # SessionOf[current[h]]
  BY DEF RunInv, OneRun
<1>5. RunsAreBusy'
  BY <1>1, <1>2, <1>3, <1>4 DEF RunsAreBusy, RunInv, TypeOK
<1>6. OneRun'
  BY <1>1 DEF OneRun, RunInv
<1>7. BusyHasRun'
  <2> SUFFICES ASSUME NEW s \in Session, activeRuns'[s] # None
               PROVE  \E g \in Message : /\ pc'[g] \in Running
                                        /\ current'[g] = activeRuns'[s]
                                        /\ SessionOf[current'[g]] = s
    BY DEF BusyHasRun
  <2>1. s # SessionOf[current[h]] /\ activeRuns'[s] = activeRuns[s]
    BY <1>2, <1>3 DEF TypeOK
  <2>2. PICK g \in Message : /\ pc[g] \in Running
                           /\ current[g] = activeRuns[s]
                           /\ SessionOf[current[g]] = s
    BY <2>1 DEF RunInv, BusyHasRun
  <2> QED
    BY <1>1, <2>1, <2>2
<1> QED
  BY <1>1, <1>5, <1>6, <1>7 DEF RunInv

\* A step that neither starts nor ends a run keeps the agreement.
LEMMA QuietKeepsRunInv ==
    ASSUME RunInv, current' = current, activeRuns' = activeRuns,
           \A g \in Message : pc'[g] \in Running <=> pc[g] \in Running
    PROVE  RunInv'
BY DEF RunInv, RunsAreBusy, OneRun, BusyHasRun

\* So is a queue without its first message.
LEMMA TailOfSession ==
    ASSUME NEW s \in Session, NEW q \in Seq(Message), q # <<>>,
           \A i \in 1..Len(q) : SessionOf[q[i]] = s
    PROVE  \A i \in 1..Len(Tail(q)) : SessionOf[Tail(q)[i]] = s
<1>1. /\ Tail(q) \in Seq(Message) /\ Len(Tail(q)) = Len(q) - 1
      /\ \A i \in 1..Len(Tail(q)) : Tail(q)[i] = q[i+1]
  OBVIOUS
<1> SUFFICES ASSUME NEW i \in 1..Len(Tail(q)) PROVE SessionOf[Tail(q)[i]] = s
  OBVIOUS
<1>2. i + 1 \in 1..Len(q)
  BY <1>1
<1> QED
  BY <1>1, <1>2

\* Enqueueing keeps the queue one of its session.
LEMMA EnqueueOfSession ==
    ASSUME NEW s \in Session, NEW q \in Seq(Message), NEW m \in Message,
           SessionOf[m] = s, \A i \in 1..Len(q) : SessionOf[q[i]] = s
    PROVE  \A i \in 1..Len(Enqueue(q, m)) : SessionOf[Enqueue(q, m)[i]] = s
<1>1. CASE Len(q) >= MAX_QUEUE_SIZE
  <2>1. q # <<>>
    BY <1>1, QueueAssumption
  <2> DEFINE t == Tail(q)
  <2>2. t \in Seq(Message) /\ \A i \in 1..Len(t) : SessionOf[t[i]] = s
    BY <2>1, TailOfSession
  <2>3. Enqueue(q, m) = Append(t, m)
    BY <1>1 DEF Enqueue, DropOldest
  <2> HIDE DEF t
  <2> QED
    BY <2>2, <2>3
<1>2. CASE ~(Len(q) >= MAX_QUEUE_SIZE)
  BY <1>2 DEF Enqueue, DropOldest
<1> QED
  BY <1>1, <1>2

\* While the live handlers stay and serve the same sessions, and nothing is
\* added to an unattended queue, no message is stranded.
LEMMA StillAttended ==
    ASSUME NoStrandedMessage,
           \A s \in Session :
              queues'[s] # <<>> =>
                 \/ queues[s] # <<>>
                 \/ \E g \in Message : /\ pc[g] \in Running \cup Ended
                                      /\ SessionOf[current[g]] = s,
           \A g \in Message :
              pc[g] \in Running \cup Ended =>
                 /\ pc'[g] \in Running \cup Ended
                 /\ SessionOf[current'[g]] = SessionOf[current[g]]
    PROVE  NoStrandedMessage'
<1> SUFFICES ASSUME NEW s \in Session, queues'[s] # <<>>
             PROVE  \E g \in Message : /\ pc'[g] \in Running \cup Ended
                                      /\ SessionOf[current'[g]] = s
  BY DEF NoStrandedMessage
<1>1. PICK g \in Message : /\ pc[g] \in Running \cup Ended
                         /\ SessionOf[current[g]] = s
  BY DEF NoStrandedMessage
<1> QED
  BY <1>1

\* Before the first message no session is busy and no queue needs a handler.
LEMMA ServiceInit == Init => ServiceInv
<1> SUFFICES ASSUME Init PROVE ServiceInv
  OBVIOUS
<1> QED
  BY DEF Init, ServiceInv, RunInv, RunsAreBusy, OneRun, BusyHasRun,
         StartedArrived, QueueOfSession, NoStrandedMessage, Running

\* The steps of a handler that end its run: only its own pc changes, and the
\* queues do not.
LEMMA EndKeepsService ==
    ASSUME TypeOK, ServiceInv, NEW h \in Message, NEW how \in Ended,
           pc[h] \in Running, EndRun(h, how), UNCHANGED <<arrived, queues, current>>
    PROVE  ServiceInv'
<1>1. /\ RunInv' /\ pc'[h] \in Ended
      /\ \A g \in Message \ {h} : pc'[g] = pc[g]
  BY EndKeepsRunInv DEF ServiceInv
<1>2. StartedArrived'
  BY <1>1 DEF ServiceInv, StartedArrived, Running
<1>3. QueueOfSession'
  BY DEF ServiceInv, QueueOfSession
<1>4. NoStrandedMessage'
  BY <1>1, StillAttended DEF ServiceInv
<1> QED
  BY <1>1, <1>2, <1>3, <1>4 DEF ServiceInv

\* The steps inside a run, and those that do not touch a handler.
LEMMA QuietKeepsService ==
    ASSUME ServiceInv,
           \A g \in Message : pc'[g] = pc[g] \/ {pc[g], pc'[g]} \subseteq Running,
           UNCHANGED <<activeRuns, queues, current>>, arrived \subseteq arrived'
    PROVE  ServiceInv'
<1>1. RunInv'
  BY QuietKeepsRunInv DEF ServiceInv
<1>2. StartedArrived'
  BY DEF ServiceInv, StartedArrived, Running
<1>3. QueueOfSession'
  BY DEF ServiceInv, QueueOfSession
<1>4. NoStrandedMessage'
  BY StillAttended DEF ServiceInv
<1> QED
  BY <1>1, <1>2, <1>3, <1>4 DEF ServiceInv

\* The main step: whatever handler moves, its session has at most one run and
\* nobody is left waiting.  The cases that matter are a message that finds the
\* session busy, a handler that drains, and a handler that leaves.
LEMMA ServiceStep == TypeOK /\ ServiceInv /\ [Next]_vars => ServiceInv'
<1> SUFFICES ASSUME TypeOK, ServiceInv, [Next]_vars PROVE ServiceInv'
  OBVIOUS
<1> USE DEF Arrive
<1>1. ASSUME NEW m \in Message, StopRun(m) PROVE ServiceInv'
  <2>1. RunInv'
    BY <1>1, QuietKeepsRunInv DEF StopRun, ServiceInv
  <2>2. StartedArrived'
    BY <1>1 DEF StopRun, ServiceInv, StartedArrived
  <2>3. \A s \in Session : queues'[s] = queues[s] \/ queues'[s] = <<>>
    BY <1>1, QueueAssumption DEF StopRun, TypeOK
  <2>4. QueueOfSession'
    BY <2>3 DEF ServiceInv, QueueOfSession
  <2>5. NoStrandedMessage'
    BY <1>1, <2>3, StillAttended DEF StopRun, ServiceInv
  <2> QED
    BY <2>1, <2>2, <2>4, <2>5 DEF ServiceInv
<1>2. ASSUME NEW m \in Message, NEW r \in 0..MAX_QUEUE_SIZE, QueueMessage(m, r)
      PROVE  ServiceInv'
  <2> DEFINE s == SessionOf[m]
  <2>1. s \in Session /\ queues[s] \in Seq(Message)
    BY QueueAssumption DEF TypeOK
  <2>2. \A z \in Session :
           \/ queues'[z] = queues[z]
           \/ z = s /\ queues'[z] = Enqueue(queues[z], m)
    BY <1>2, <2>1 DEF QueueMessage, TypeOK
  <2>3. RunInv'
    BY <1>2, QuietKeepsRunInv DEF QueueMessage, ServiceInv
  <2>4. StartedArrived'
    BY <1>2 DEF QueueMessage, ServiceInv, StartedArrived
  <2>5. QueueOfSession'
    BY <2>1, <2>2, EnqueueOfSession DEF ServiceInv, QueueOfSession
  <2>6. PICK g \in Message : pc[g] \in Running /\ SessionOf[current[g]] = s
    BY <1>2, <2>1 DEF QueueMessage, isSessionBusy, ServiceInv, RunInv, BusyHasRun
  <2>7. NoStrandedMessage'
    BY <1>2, <2>2, <2>6, StillAttended DEF QueueMessage, ServiceInv
  <2> QED
    BY <2>3, <2>4, <2>5, <2>7 DEF ServiceInv
<1>3. ASSUME NEW m \in Message, ProcessNow(m) PROVE ServiceInv'
  <2>1. pc[m] = "off"
    BY <1>3 DEF ProcessNow, ServiceInv, StartedArrived
  <2>2. /\ RunInv' /\ pc'[m] \in Running
        /\ \A g \in Message \ {m} : pc'[g] = pc[g] /\ current'[g] = current[g]
    BY <1>3, <2>1, StartKeepsRunInv DEF ProcessNow, ServiceInv, Running
  <2>3. StartedArrived'
    BY <1>3, <2>2 DEF ProcessNow, ServiceInv, StartedArrived
  <2>4. QueueOfSession'
    BY <1>3 DEF ProcessNow, ServiceInv, QueueOfSession
  <2>5. NoStrandedMessage'
    BY <1>3, <2>1, <2>2, StillAttended DEF ProcessNow, ServiceInv, Running, Ended
  <2> QED
    BY <2>2, <2>3, <2>4, <2>5 DEF ServiceInv
<1>4. ASSUME NEW s \in Session, AbortEvent(s) PROVE ServiceInv'
  BY <1>4, QuietKeepsService DEF AbortEvent
<1>5. ASSUME NEW h \in Message, ReturnUnserved(h) PROVE ServiceInv'
  BY <1>5, EndKeepsService DEF ReturnUnserved, Running, Ended
<1>6. ASSUME NEW h \in Message, TextChunk(h) PROVE ServiceInv'
  BY <1>6, QuietKeepsService DEF TextChunk
<1>7. ASSUME NEW h \in Message, AbortAtChunk(h) PROVE ServiceInv'
  BY <1>7, EndKeepsService DEF AbortAtChunk, Running, Ended
<1>8. ASSUME NEW h \in Message, StreamThrows(h) PROVE ServiceInv'
  BY <1>8, EndKeepsService DEF StreamThrows, Running, Ended
<1>9. ASSUME NEW h \in Message, NEW n \in 1..MaxCalls, ToolCalls(h, n)
      PROVE  ServiceInv'
  <2>1. \A g \in Message : pc'[g] = pc[g] \/ {pc[g], pc'[g]} \subseteq Running
    BY <1>9 DEF ToolCalls, TypeOK, Running
  <2> QED
    BY <1>9, <2>1, QuietKeepsService DEF ToolCalls
<1>10. ASSUME NEW h \in Message, FinalResponse(h) PROVE ServiceInv'
  BY <1>10, EndKeepsService DEF FinalResponse, Running, Ended
<1>11. ASSUME NEW h \in Message, NextTool(h) PROVE ServiceInv'
  BY <1>11, QuietKeepsService DEF NextTool
<1>12. ASSUME NEW h \in Message, AbortAtTools(h) PROVE ServiceInv'
  BY <1>12, EndKeepsService DEF AbortAtTools, Running, Ended
<1>13. ASSUME NEW h \in Message, ToolResults(h) PROVE ServiceInv'
  <2>1. CASE iterations[h] < MAX_TOOL_ITERATIONS
    <3>1. \A g \in Message : pc'[g] = pc[g] \/ {pc[g], pc'[g]} \subseteq Running
      BY <1>13, <2>1 DEF ToolResults, TypeOK, Running
    <3> QED
      BY <1>13, <2>1, <3>1, QuietKeepsService DEF ToolResults
  <2>2. CASE ~(iterations[h] < MAX_TOOL_ITERATIONS)
    BY <1>13, <2>2, EndKeepsService DEF ToolResults, Running, Ended
  <2> QED
    BY <2>1, <2>2
<1>14. ASSUME NEW h \in Message, DrainNext(h) PROVE ServiceInv'
  <2> DEFINE s == SessionOf[current[h]]
             q == queues[s]
  <2>1. /\ s \in Session /\ q \in Seq(Message) /\ q # <<>>
        /\ pc[h] \in Ended /\ ~isSessionBusy(s)
    BY <1>14, QueueAssumption DEF DrainNext, TypeOK
  <2>2. Head(q) \in Message /\ SessionOf[Head(q)] = s
    BY <2>1 DEF ServiceInv, QueueOfSession
  <2>3. processMessage(h, Head(q)) /\ queues' = [queues EXCEPT ![s] = Tail(q)]
    BY <1>14 DEF DrainNext
  <2>4. /\ RunInv' /\ pc'[h] \in Running /\ current'[h] = Head(q)
        /\ \A g \in Message \ {h} : pc'[g] = pc[g] /\ current'[g] = current[g]
    BY <2>1, <2>2, <2>3, StartKeepsRunInv DEF ServiceInv, Running, Ended
  <2>5. StartedArrived'
    BY <1>14, <2>1, <2>4 DEF DrainNext, ServiceInv, StartedArrived, Ended
  <2>6. \A i \in 1..Len(Tail(q)) : SessionOf[Tail(q)[i]] = s
    BY <2>1, TailOfSession DEF ServiceInv, QueueOfSession
  <2>7. \A z \in Session : queues'[z] = IF z = s THEN Tail(q) ELSE queues[z]
    BY <2>1, <2>3 DEF TypeOK
  <2>8. QueueOfSession'
    <3> HIDE DEF q, s
    <3> QED
      BY <2>6, <2>7 DEF ServiceInv, QueueOfSession
  <2>9. NoStrandedMessage'
    <3>1. \A z \in Session : queues'[z] # <<>> => queues[z] # <<>>
      BY <2>1, <2>7
    <3>2. \A g \in Message :
             pc[g] \in Running \cup Ended =>
                /\ pc'[g] \in Running \cup Ended
                /\ SessionOf[current'[g]] = SessionOf[current[g]]
      BY <2>2, <2>4
    <3> QED
      BY <3>1, <3>2, StillAttended DEF ServiceInv
  <2> QED
    BY <2>4, <2>5, <2>8, <2>9 DEF ServiceInv
<1>15. ASSUME NEW h \in Message, HandlerReturns(h) PROVE ServiceInv'
  <2> DEFINE s == SessionOf[current[h]]
  <2>1. /\ s \in Session /\ pc[h] \in Ended
        /\ queues[s] = <<>> \/ isSessionBusy(s)
        /\ pc'[h] = "over" /\ \A g \in Message \ {h} : pc'[g] = pc[g]
        /\ UNCHANGED <<arrived, activeRuns, queues, current>>
    BY <1>15, QueueAssumption DEF HandlerReturns, TypeOK
  <2>2. RunInv'
    BY <2>1, QuietKeepsRunInv DEF ServiceInv, Running, Ended
  <2>3. StartedArrived'
    BY <2>1 DEF ServiceInv, StartedArrived, Ended
  <2>4. QueueOfSession'
    BY <2>1 DEF ServiceInv, QueueOfSession
  <2>5. NoStrandedMessage'
    <3> SUFFICES ASSUME NEW z \in Session, queues[z] # <<>>
                 PROVE  \E g \in Message : /\ pc'[g] \in Running \cup Ended
                                          /\ SessionOf[current[g]] = z
      BY <2>1 DEF NoStrandedMessage
    <3>1. CASE z = s
      <4>1. PICK g \in Message : pc[g] \in Running /\ SessionOf[current[g]] = s
        BY <2>1, <3>1 DEF isSessionBusy, ServiceInv, RunInv, BusyHasRun
      <4> QED
        BY <2>1, <3>1, <4>1 DEF Running, Ended
    <3>2. CASE z # s
      <4>1. PICK g \in Message : pc[g] \in Running \cup Ended /\ SessionOf[current[g]] = z
        BY DEF ServiceInv, NoStrandedMessage
      <4> QED
        BY <2>1, <3>2, <4>1
    <3> QED
      BY <3>1, <3>2
  <2> QED
    BY <2>2, <2>3, <2>4, <2>5 DEF ServiceInv
<1>16. CASE UNCHANGED vars
  BY <1>16, QuietKeepsService DEF vars
<1> QED
  BY <1>1, <1>2, <1>3, <1>4, <1>5, <1>6, <1>7, <1>8, <1>9, <1>10, <1>11,
     <1>12, <1>13, <1>14, <1>15, <1>16
  DEF Next, Inbound, StreamEnds, ToolSettles, Resume

\* The invariant on runs, queues and handlers holds in every reachable state.
LEMMA ServiceCorrect == SafeSpec => []ServiceInv
BY ServiceInit, ServiceStep, TypeCorrect, PTL DEF SafeSpec

\* activeRuns holds a message exactly while one handler runs it: the busy test,
\* the abort and the `finally` always speak of the same run.
THEOREM OneRunPerSession == SafeSpec => []BusyIffRunning
<1>1. ASSUME TypeOK, ServiceInv PROVE BusyIffRunning
  <2> SUFFICES ASSUME NEW s \in Session
               PROVE  IF isSessionBusy(s)
                      THEN \E h \in Message : /\ RunsOf(s) = {h}
                                             /\ current[h] = activeRuns[s]
                      ELSE RunsOf(s) = {}
    BY DEF BusyIffRunning
  <2>1. CASE isSessionBusy(s)
    <3>1. PICK h \in Message : /\ pc[h] \in Running
                             /\ current[h] = activeRuns[s]
                             /\ SessionOf[current[h]] = s
      BY <1>1, <2>1 DEF isSessionBusy, ServiceInv, RunInv, BusyHasRun
    <3>2. RunsOf(s) = {h}
      BY <1>1, <3>1 DEF RunsOf, ServiceInv, RunInv, OneRun
    <3> QED
      BY <2>1, <3>1, <3>2
  <2>2. CASE ~isSessionBusy(s)
    <3>1. \A h \in Message : current[h] # None
      BY <1>1, RunnerAssumption DEF TypeOK
    <3>2. RunsOf(s) = {}
      BY <1>1, <2>2, <3>1 DEF RunsOf, isSessionBusy, ServiceInv, RunInv, RunsAreBusy
    <3> QED
      BY <2>2, <3>2
  <2> QED
    BY <2>1, <2>2
<1> QED
  BY <1>1, TypeCorrect, ServiceCorrect, PTL

\* Messages never wait in the queue of a session that no handler will look at.
THEOREM NobodyStranded == SafeSpec => []NoStrandedMessage
<1>1. ServiceInv => NoStrandedMessage
  BY DEF ServiceInv
<1> QED
  BY <1>1, ServiceCorrect, PTL

=============================================================================
