-------------------------- MODULE AgentMailboxProofs --------------------------
(***************************************************************************)
(* More proofs about AgentRunner, on the invariants of AgentRunnerProofs:  *)
(* what becomes of a message (it is processed once or lost for a reason),  *)
(* that the runner implements SessionMailbox, and what a run leaves in the *)
(* history, on the user's screen and, once aborted, nowhere.               *)
(***************************************************************************)
EXTENDS AgentRunnerProofs

(* The invariants.                                                         *)

\* A message waits at one place of a queue.
NoRepeats(q) == \A i, j \in 1..Len(q) : q[i] = q[j] => i = j

\* With the two kinds of queue invariants, the accounting is inductive.
AccountInv ==
    /\ EveryMessageAccounted
    /\ \A s \in Session : NoRepeats(queues[s])

\* What a handler processes, and what was aborted or shown, was handled; and no
\* two handlers process one message.
HandledInv ==
    /\ \A h \in Message : pc[h] # "off" => current[h] \in handled
    /\ \A h, g \in Message :
          pc[h] # "off" /\ pc[g] # "off" /\ current[h] = current[g] => h = g
    /\ aborted \subseteq handled
    /\ open \subseteq handled

\* A stream is open only while it is read or after it broke.
OpenInv ==
    \A h \in Message :
        pc[h] \in {"unserved", "tools", "ended"} => current[h] \notin open

\* The turns of one message are contiguous in a history.
Contiguous(h) ==
    \A i, j, k \in 1..Len(h) :
        i < j /\ j < k /\ h[i].msg = h[k].msg => h[j].msg = h[i].msg

\* Tool results directly follow the turn that called the tools, unless the window has
\* cut that off.
ResultsFollowCalls(h) ==
    \A i \in 1..Len(h) :
        h[i].role = "results" =>
            IF i = 1 THEN Len(h) = maxHistoryPerSession
                     ELSE h[i-1] = [h[i] EXCEPT !.role = "calls"]

\* A turn that called tools is directly followed by their results, unless its message
\* is one of A.
CallsGetResults(h, A) ==
    \A i \in 1..(Len(h) - 1) :
        h[i].role = "calls" =>
            h[i+1] = [h[i] EXCEPT !.role = "results"] \/ h[i].msg \in A

\* No calls at the end wait for their results, but those of A.
NoOpenCalls(h, A) ==
    Len(h) > 0 /\ h[Len(h)].role = "calls" => h[Len(h)].msg \in A

\* Nothing of another message follows a turn of m.
AtTheEnd(h, m) ==
    \A i, j \in 1..Len(h) : i < j /\ h[i].msg = m => h[j].msg = m

\* The last turn is the one by which m called its tools.
EndsWithCalls(h, m) == Len(h) > 0 /\ h[Len(h)] = [role |-> "calls", msg |-> m]

\* A history is well formed and speaks only of messages of its session that were
\* handled; the message that runs has its turns at the end, its calls last while tools
\* run; and calls at the end are those of such a run, or of one that was aborted.
HistoryInv ==
    /\ \A s \in Session :
          /\ Contiguous(history[s])
          /\ ResultsFollowCalls(history[s])
          /\ CallsGetResults(history[s], aborted)
          /\ \/ NoOpenCalls(history[s], aborted)
             \/ \E h \in Message : pc[h] = "tools" /\ EndsWithCalls(history[s], current[h])
          /\ \A i \in 1..Len(history[s]) :
                history[s][i].msg \in handled /\ SessionOf[history[s][i].msg] = s
    /\ \A h \in Message :
          /\ pc[h] \in Running =>
                AtTheEnd(history[SessionOf[current[h]]], current[h])
          /\ pc[h] = "tools" =>
                EndsWithCalls(history[SessionOf[current[h]]], current[h])

-----------------------------------------------------------------------------
(* Lemmas about queues.                                                    *)

\* The first message of a queue is one of its messages, the others are those of
\* its tail; without repeats the first is not among the others.
LEMMA QueuedTail ==
    ASSUME NEW q \in Seq(Message), q # <<>>, NoRepeats(q)
    PROVE  /\ Head(q) \in Queued(q)
           /\ Queued(Tail(q)) = Queued(q) \ {Head(q)}
           /\ NoRepeats(Tail(q))
<1>1. /\ Tail(q) \in Seq(Message) /\ Len(Tail(q)) = Len(q) - 1
      /\ \A i \in 1..Len(Tail(q)) : Tail(q)[i] = q[i+1]
      /\ Head(q) = q[1] /\ Len(q) \in Nat \ {0}
  OBVIOUS
<1>2. \A i \in 1..Len(Tail(q)) : i + 1 \in 1..Len(q) /\ i + 1 # 1
  BY <1>1
<1>3. NoRepeats(Tail(q))
  BY <1>1, <1>2 DEF NoRepeats
<1>4. Head(q) \in Queued(q)
  BY <1>1 DEF Queued
<1>5. Queued(Tail(q)) \subseteq Queued(q) \ {Head(q)}
  BY <1>1, <1>2 DEF Queued, NoRepeats
<1>6. Queued(q) \ {Head(q)} \subseteq Queued(Tail(q))
  <2> SUFFICES ASSUME NEW i \in 1..Len(q), q[i] # Head(q)
               PROVE  \E k \in 1..Len(Tail(q)) : Tail(q)[k] = q[i]
    BY DEF Queued
  <2>1. i - 1 \in 1..Len(Tail(q))
    BY <1>1
  <2> QED
    BY <1>1, <2>1
<1> QED
  BY <1>3, <1>4, <1>5, <1>6

\* Appending adds a message to a queue.
LEMMA QueuedAppend ==
    ASSUME NEW q \in Seq(Message), NEW m \in Message, m \notin Queued(q),
           NoRepeats(q)
    PROVE  Queued(Append(q, m)) = Queued(q) \cup {m} /\ NoRepeats(Append(q, m))
<1>1. /\ Len(Append(q, m)) = Len(q) + 1 /\ Len(q) \in Nat
      /\ \A i \in 1..Len(q) : Append(q, m)[i] = q[i]
      /\ Append(q, m)[Len(q) + 1] = m
  OBVIOUS
<1>2. \A i \in 1..(Len(q) + 1) : i \in 1..Len(q) \/ i = Len(q) + 1
  BY <1>1
<1>3. \A i \in 1..Len(q) : i \in 1..(Len(q) + 1) /\ q[i] # m
  BY <1>1 DEF Queued
<1>4. Len(q) + 1 \in 1..(Len(q) + 1)
  BY <1>1
<1>5. Queued(Append(q, m)) = Queued(q) \cup {m}
  BY <1>1, <1>2, <1>3, <1>4 DEF Queued
<1>6. NoRepeats(Append(q, m))
  BY <1>1, <1>2, <1>3 DEF NoRepeats
<1> QED
  BY <1>5, <1>6

\* Enqueueing replaces what it drops by the new message.
LEMMA QueuedEnqueue ==
    ASSUME NEW q \in Seq(Message), NEW m \in Message, m \notin Queued(q),
           NoRepeats(q)
    PROVE  /\ Dropped(q) \subseteq Queued(q)
           /\ Queued(Enqueue(q, m)) = (Queued(q) \ Dropped(q)) \cup {m}
           /\ NoRepeats(Enqueue(q, m))
<1>1. CASE Len(q) >= MAX_QUEUE_SIZE
  <2>1. q # <<>>
    BY <1>1, QueueAssumption
  <2> DEFINE t == Tail(q)
  <2>2. /\ t \in Seq(Message) /\ NoRepeats(t)
        /\ Queued(t) = Queued(q) \ {Head(q)} /\ Head(q) \in Queued(q)
    BY <2>1, QueuedTail
  <2>3. Enqueue(q, m) = Append(t, m) /\ Dropped(q) = {Head(q)}
    BY <1>1 DEF Enqueue, DropOldest, Dropped
  <2> HIDE DEF t
  <2>4. Queued(Append(t, m)) = Queued(t) \cup {m} /\ NoRepeats(Append(t, m))
    BY <2>2, QueuedAppend
  <2> QED
    BY <2>2, <2>3, <2>4
<1>2. CASE ~(Len(q) >= MAX_QUEUE_SIZE)
  BY <1>2, QueuedAppend DEF Enqueue, DropOldest, Dropped
<1> QED
  BY <1>1, <1>2

\* When one queue changes, what waits changes by that queue alone.
LEMMA WaitingOfOne ==
    ASSUME QueueOfSession, queues \in [Session -> Seq(Message)],
           NEW s \in Session, NEW q, queues' = [queues EXCEPT ![s] = q]
    PROVE  /\ Waiting' = (Waiting \ Queued(queues[s])) \cup Queued(q)
           /\ Queued(queues[s]) \subseteq Waiting
<1>1. \A z \in Session : queues'[z] = IF z = s THEN q ELSE queues[z]
  OBVIOUS
<1>2. \A z \in Session : \A m \in Queued(queues[z]) : SessionOf[m] = z
  BY DEF QueueOfSession, Queued
<1>3. Waiting' = UNION {Queued(queues'[z]) : z \in Session}
  BY DEF Waiting
<1>4. \A m : m \in Waiting' <=> \E z \in Session : m \in Queued(queues'[z])
  BY <1>3
<1>5. \A m : m \in Waiting <=> \E z \in Session : m \in Queued(queues[z])
  BY DEF Waiting
<1>6. Queued(queues[s]) \subseteq Waiting
  BY <1>5
<1>7. ASSUME NEW m \in Waiting'
      PROVE  m \in (Waiting \ Queued(queues[s])) \cup Queued(q)
  <2>1. PICK z \in Session : m \in Queued(queues'[z])
    BY <1>4, <1>7
  <2>2. CASE z = s
    BY <1>1, <2>1, <2>2
  <2>3. CASE z # s
    <3>1. m \in Queued(queues[z])
      BY <1>1, <2>1, <2>3
    <3>2. m \notin Queued(queues[s])
      BY <1>2, <2>3, <3>1
    <3> QED
      BY <1>5, <3>1, <3>2
  <2> QED
    BY <2>2, <2>3
<1>8. ASSUME NEW m \in (Waiting \ Queued(queues[s])) \cup Queued(q)
      PROVE  m \in Waiting'
  <2>1. CASE m \in Queued(q)
    BY <1>1, <1>4, <2>1
  <2>2. CASE m \notin Queued(q)
    <3>1. PICK z \in Session : m \in Queued(queues[z])
      BY <1>5, <1>8, <2>2
    <3>2. z # s
      BY <1>8, <2>2, <3>1
    <3> QED
      BY <1>1, <1>4, <3>1, <3>2
  <2> QED
    BY <2>1, <2>2
<1> QED
  BY <1>6, <1>7, <1>8

-----------------------------------------------------------------------------
(* Every message is accounted for.                                         *)

\* Before the first message nothing waits and nothing was handled.
LEMMA AccountInit == Init => AccountInv
<1> SUFFICES ASSUME Init PROVE AccountInv
  OBVIOUS
<1>1. \A s \in Session : queues[s] = <<>>
  BY DEF Init
<1>2. Waiting = {} /\ \A s \in Session : NoRepeats(queues[s])
  BY <1>1 DEF Waiting, Queued, NoRepeats
<1> QED
  BY <1>2 DEF Init, AccountInv, EveryMessageAccounted

\* The step: a message moves between "not yet here", "waits", "handled" and
\* "discarded" and is never in two of them (agent-runner.ts, the handler of
\* "message:inbound" and the drain loop; message-queue.ts).
LEMMA AccountStep ==
    TypeOK /\ ServiceInv /\ AccountInv /\ [Next]_vars => AccountInv'
<1> SUFFICES ASSUME TypeOK, ServiceInv, AccountInv, [Next]_vars
             PROVE  AccountInv'
  OBVIOUS
<1> USE DEF Arrive
<1>t. /\ queues \in [Session -> Seq(Message)] /\ QueueOfSession
      /\ \A m \in Message : SessionOf[m] \in Session
      /\ EveryMessageAccounted /\ \A s \in Session : NoRepeats(queues[s])
  BY QueueAssumption DEF TypeOK, ServiceInv, AccountInv
<1>q. ASSUME UNCHANGED <<arrived, queues, handled, discarded>> PROVE AccountInv'
  BY <1>q, <1>t DEF AccountInv, EveryMessageAccounted, Waiting
<1>1. ASSUME NEW m \in Message, StopRun(m) PROVE AccountInv'
  <2> DEFINE s == SessionOf[m]
  <2>1. arrived' \ StopCommand = arrived \ StopCommand /\ handled' = handled
    BY <1>1 DEF StopRun
  <2>2. CASE isSessionBusy(s)
    <3>1. /\ queues' = [queues EXCEPT ![s] = <<>>]
          /\ discarded' = discarded \cup Queued(queues[s])
      BY <1>1, <2>2 DEF StopRun
    <3>2. Queued(<<>>) = {} /\ NoRepeats(<<>>)
      BY DEF Queued, NoRepeats
    <3>3. /\ Waiting' = Waiting \ Queued(queues[s])
          /\ Queued(queues[s]) \subseteq Waiting
      BY <1>t, <3>1, <3>2, WaitingOfOne
    <3>4. \A z \in Session : NoRepeats(queues'[z])
      BY <1>t, <3>1, <3>2
    <3>5. EveryMessageAccounted'
      BY <1>t, <2>1, <3>1, <3>3 DEF EveryMessageAccounted
    <3> QED
      BY <3>4, <3>5 DEF AccountInv
  <2>3. CASE ~isSessionBusy(s)
    BY <1>1, <1>t, <2>1, <2>3 DEF StopRun, AccountInv, EveryMessageAccounted, Waiting
  <2> QED
    BY <2>2, <2>3
<1>2. ASSUME NEW m \in Message, NEW r \in 0..MAX_QUEUE_SIZE, QueueMessage(m, r)
      PROVE  AccountInv'
  <2> DEFINE s == SessionOf[m]
  <2>1. /\ arrived' \ StopCommand = (arrived \ StopCommand) \cup {m}
        /\ m \notin arrived /\ handled' = handled
    BY <1>2 DEF QueueMessage
  <2>2. m \notin handled \cup discarded \cup Waiting
    BY <1>t, <2>1 DEF EveryMessageAccounted
  <2>3. CASE IsDuplicate(queues[s], m, r)
    <3>1. queues' = queues /\ discarded' = discarded \cup {m}
      BY <1>2, <2>3 DEF QueueMessage
    <3> QED
      BY <1>t, <2>1, <2>2, <3>1 DEF AccountInv, EveryMessageAccounted, Waiting
  <2>4. CASE ~IsDuplicate(queues[s], m, r)
    <3>1. /\ queues' = [queues EXCEPT ![s] = Enqueue(queues[s], m)]
          /\ discarded' = discarded \cup Dropped(queues[s])
      BY <1>2, <2>4 DEF QueueMessage
    <3>2. /\ Waiting' = (Waiting \ Queued(queues[s])) \cup Queued(Enqueue(queues[s], m))
          /\ Queued(queues[s]) \subseteq Waiting
      BY <1>t, <3>1, WaitingOfOne
    <3>3. /\ Dropped(queues[s]) \subseteq Queued(queues[s])
          /\ Queued(Enqueue(queues[s], m))
                = (Queued(queues[s]) \ Dropped(queues[s])) \cup {m}
          /\ NoRepeats(Enqueue(queues[s], m))
      BY <1>t, <2>2, <3>2, QueuedEnqueue
    <3>4. \A z \in Session : NoRepeats(queues'[z])
      BY <1>t, <3>1, <3>3
    <3>5. EveryMessageAccounted'
      BY <1>t, <2>1, <2>2, <3>1, <3>2, <3>3 DEF EveryMessageAccounted
    <3> QED
      BY <3>4, <3>5 DEF AccountInv
  <2> QED
    BY <2>3, <2>4
<1>3. ASSUME NEW m \in Message, ProcessNow(m) PROVE AccountInv'
  <2>1. /\ arrived' \ StopCommand = (arrived \ StopCommand) \cup {m}
        /\ m \notin arrived /\ handled' = handled \cup {m}
        /\ UNCHANGED <<queues, discarded>>
    BY <1>3 DEF ProcessNow, processMessage
  <2> QED
    BY <1>t, <2>1 DEF AccountInv, EveryMessageAccounted, Waiting
<1>4. ASSUME NEW h \in Message, DrainNext(h) PROVE AccountInv'
  <2> DEFINE s == SessionOf[current[h]]
             q == queues[s]
  <2>1. /\ s \in Session /\ q \in Seq(Message) /\ q # <<>>
        /\ queues' = [queues EXCEPT ![s] = Tail(q)]
        /\ handled' = handled \cup {Head(q)}
        /\ UNCHANGED <<arrived, discarded>>
    BY <1>4, QueueAssumption DEF DrainNext, processMessage, TypeOK
  <2>2. /\ Waiting' = (Waiting \ Queued(q)) \cup Queued(Tail(q))
        /\ Queued(q) \subseteq Waiting
    BY <1>t, <2>1, WaitingOfOne
  <2>3. /\ Head(q) \in Queued(q) /\ Queued(Tail(q)) = Queued(q) \ {Head(q)}
        /\ NoRepeats(Tail(q))
    BY <1>t, <2>1, QueuedTail
  <2>4. \A z \in Session : NoRepeats(queues'[z])
    BY <1>t, <2>1, <2>3
  <2> HIDE DEF q, s
  <2>5. EveryMessageAccounted'
    BY <1>t, <2>1, <2>2, <2>3 DEF EveryMessageAccounted
  <2> QED
    BY <2>4, <2>5 DEF AccountInv
<1>5. ASSUME NEW h \in Message,
             ReturnUnserved(h) \/ TextChunk(h) \/ StreamEnds(h)
               \/ ToolSettles(h) \/ HandlerReturns(h)
      PROVE  UNCHANGED <<arrived, queues, handled, discarded>>
  BY <1>5 DEF ReturnUnserved, TextChunk, StreamEnds, AbortAtChunk, StreamThrows,
     ToolCalls, FinalResponse, ToolSettles, NextTool, AbortAtTools, ToolResults,
     HandlerReturns
<1>6. ASSUME NEW s \in Session, AbortEvent(s) PROVE AccountInv'
  BY <1>6, <1>q DEF AbortEvent
<1>7. CASE UNCHANGED vars
  BY <1>7, <1>q DEF vars
<1> QED
  BY <1>1, <1>2, <1>3, <1>4, <1>5, <1>6, <1>7, <1>q DEF Next, Inbound, Resume

LEMMA AccountCorrect == SafeSpec => []AccountInv
BY AccountInit, AccountStep, TypeCorrect, ServiceCorrect, PTL DEF SafeSpec

\* A message that arrived has exactly one fate, for any number of messages and
\* sessions and any queue cap: none is processed twice, none is lost silently.
THEOREM NoMessageLost == SafeSpec => []EveryMessageAccounted
<1>1. AccountInv => EveryMessageAccounted
  BY DEF AccountInv
<1> QED
  BY <1>1, AccountCorrect, PTL

-----------------------------------------------------------------------------
(* The runner implements the mailbox.                                      *)

\* A message that has just arrived is new to the mailbox.
LEMMA ArrivalIsNew ==
    ASSUME AccountInv, NEW m \in Message, m \notin arrived, m \notin StopCommand,
           SessionOf[m] \in Session
    PROVE  Mailbox!IsNew(m) /\ m \notin Queued(queues[SessionOf[m]])
<1>1. m \notin handled \cup discarded \cup Waiting
  BY DEF AccountInv, EveryMessageAccounted
<1>2. Queued(queues[SessionOf[m]]) \subseteq Waiting
  BY DEF Waiting
<1> QED
  BY <1>1, <1>2 DEF Mailbox!IsNew, Mailbox!WaitingSet, Queued

\* A message that finds its session busy is refused or waits: what the queue's
\* window, cap and order make of it is what the mailbox allows
\* (message-queue.ts, enqueue).
LEMMA QueueMessageImplements ==
    ASSUME TypeOK, AccountInv, NEW m \in Message, NEW r \in 0..MAX_QUEUE_SIZE,
           QueueMessage(m, r)
    PROVE  Mailbox!Refuse(m) \/ Mailbox!Accept(m) \/ Mailbox!AcceptDropping(m)
<1> DEFINE s == SessionOf[m]
           q == queues[s]
<1>1. /\ s \in Session /\ q \in Seq(Message) /\ Len(q) <= MAX_QUEUE_SIZE
      /\ m \notin arrived /\ m \notin StopCommand /\ activeRuns[s] # None
      /\ UNCHANGED <<activeRuns, handled>>
  BY QueueAssumption DEF QueueMessage, Arrive, isSessionBusy, TypeOK
<1>2. Mailbox!IsNew(m)
  BY <1>1, ArrivalIsNew
<1>3. CASE IsDuplicate(q, m, r)
  <2>1. q # <<>>
    BY <1>3 DEF IsDuplicate
  <2>2. discarded' = discarded \cup {m} /\ queues' = queues
    BY <1>3 DEF QueueMessage
  <2> QED
    BY <1>1, <1>2, <2>1, <2>2 DEF Mailbox!Refuse
<1>4. CASE ~IsDuplicate(q, m, r)
  <2>1. /\ discarded' = discarded \cup Dropped(q)
        /\ queues' = [queues EXCEPT ![s] = Enqueue(q, m)]
    BY <1>4 DEF QueueMessage
  <2>2. CASE Len(q) < MAX_QUEUE_SIZE
    <3>1. Enqueue(q, m) = Append(q, m) /\ Dropped(q) = {}
      BY <1>1, <2>2, QueueAssumption DEF Enqueue, DropOldest, Dropped
    <3> QED
      BY <1>1, <1>2, <2>1, <2>2, <3>1 DEF Mailbox!Accept
  <2>3. CASE Len(q) = MAX_QUEUE_SIZE
    <3>1. Enqueue(q, m) = Append(Tail(q), m) /\ Dropped(q) = {Head(q)}
      BY <2>3, QueueAssumption DEF Enqueue, DropOldest, Dropped
    <3> QED
      BY <1>1, <1>2, <2>1, <2>3, <3>1 DEF Mailbox!AcceptDropping
  <2> QED
    BY <1>1, <2>2, <2>3, QueueAssumption
<1> QED
  BY <1>3, <1>4

\* The `finally` of a run is the mailbox's Finish of its session.
LEMMA EndRunImplements ==
    ASSUME TypeOK, ServiceInv, NEW h \in Message, NEW how, pc[h] \in Running,
           EndRun(h, how), UNCHANGED <<queues, handled, discarded>>
    PROVE  \E s \in Session : Mailbox!Finish(s)
<1> DEFINE s == SessionOf[current[h]]
<1>1. s \in Session /\ current[h] # None
  BY QueueAssumption, RunnerAssumption DEF TypeOK
<1>2. activeRuns[s] # None
  BY <1>1 DEF ServiceInv, RunInv, RunsAreBusy
<1>3. Mailbox!Finish(s)
  BY <1>2 DEF EndRun, Mailbox!Finish
<1> QED
  BY <1>1, <1>3

\* Nothing is served and nothing waits at the start of either.
LEMMA MailboxInit == Init => Mailbox!Init
BY DEF Init, Mailbox!Init

\* Every step of the runner is a step of the mailbox or none.
LEMMA MailboxStep ==
    TypeOK /\ ServiceInv /\ AccountInv /\ [Next]_vars
        => [Mailbox!Next]_(Mailbox!mvars)
<1> SUFFICES ASSUME TypeOK, ServiceInv, AccountInv, [Next]_vars
             PROVE  Mailbox!Next \/ UNCHANGED <<activeRuns, queues, handled, discarded>>
  BY DEF Mailbox!mvars
<1> USE DEF Arrive
<1>1. ASSUME NEW m \in Message, StopRun(m)
      PROVE  Mailbox!Next \/ UNCHANGED <<activeRuns, queues, handled, discarded>>
  <2> DEFINE s == SessionOf[m]
  <2>1. s \in Session
    BY QueueAssumption
  <2>2. CASE isSessionBusy(s)
    <3>1. Mailbox!Cancel(s)
      BY <1>1, <2>2 DEF StopRun, isSessionBusy, Queued, Mailbox!Cancel, Mailbox!WaitingSet
    <3> QED
      BY <2>1, <3>1 DEF Mailbox!Next
  <2>3. CASE ~isSessionBusy(s)
    BY <1>1, <2>3 DEF StopRun
  <2> QED
    BY <2>2, <2>3
<1>2. ASSUME NEW m \in Message, NEW r \in 0..MAX_QUEUE_SIZE, QueueMessage(m, r)
      PROVE  Mailbox!Next
  BY <1>2, QueueMessageImplements DEF Mailbox!Next
<1>3. ASSUME NEW m \in Message, ProcessNow(m) PROVE Mailbox!Next
  <2>1. SessionOf[m] \in Session /\ Mailbox!IsNew(m)
    BY <1>3, ArrivalIsNew, QueueAssumption DEF ProcessNow
  <2>2. Mailbox!Begin(m)
    BY <1>3, <2>1 DEF ProcessNow, isSessionBusy, processMessage, Mailbox!Begin
  <2> QED
    BY <2>2 DEF Mailbox!Next
<1>4. ASSUME NEW s \in Session, AbortEvent(s)
      PROVE  UNCHANGED <<activeRuns, queues, handled, discarded>>
  BY <1>4 DEF AbortEvent
<1>5. ASSUME NEW h \in Message, ReturnUnserved(h) PROVE Mailbox!Next
  BY <1>5, EndRunImplements DEF ReturnUnserved, Running, Mailbox!Next
<1>6. ASSUME NEW h \in Message, AbortAtChunk(h) \/ StreamThrows(h) \/ FinalResponse(h)
      PROVE  Mailbox!Next
  BY <1>6, EndRunImplements
  DEF AbortAtChunk, StreamThrows, FinalResponse, Running, Mailbox!Next
<1>7. ASSUME NEW h \in Message, AbortAtTools(h) PROVE Mailbox!Next
  BY <1>7, EndRunImplements DEF AbortAtTools, Running, Mailbox!Next
<1>8. ASSUME NEW h \in Message, ToolResults(h)
      PROVE  Mailbox!Next \/ UNCHANGED <<activeRuns, queues, handled, discarded>>
  <2>1. CASE iterations[h] < MAX_TOOL_ITERATIONS
    BY <1>8, <2>1 DEF ToolResults
  <2>2. CASE ~(iterations[h] < MAX_TOOL_ITERATIONS)
    BY <1>8, <2>2, EndRunImplements DEF ToolResults, Running, Mailbox!Next
  <2> QED
    BY <2>1, <2>2
<1>9. ASSUME NEW h \in Message,
             TextChunk(h) \/ (\E n \in 1..MaxCalls : ToolCalls(h, n))
               \/ NextTool(h) \/ HandlerReturns(h)
      PROVE  UNCHANGED <<activeRuns, queues, handled, discarded>>
  BY <1>9 DEF TextChunk, ToolCalls, NextTool, HandlerReturns
<1>10. ASSUME NEW h \in Message, DrainNext(h) PROVE Mailbox!Next
  <2> DEFINE s == SessionOf[current[h]]
             m == Head(queues[s])
  <2>1. /\ s \in Session /\ queues[s] \in Seq(Message) /\ queues[s] # <<>>
        /\ activeRuns[s] = None
        /\ queues' = [queues EXCEPT ![s] = Tail(@)] /\ discarded' = discarded
        /\ processMessage(h, m)
    BY <1>10, QueueAssumption DEF DrainNext, isSessionBusy, TypeOK
  <2>2. SessionOf[m] = s
    BY <2>1 DEF ServiceInv, QueueOfSession
  <2>3. Mailbox!Serve(s)
    <3> HIDE DEF s
    <3> QED
      BY <2>1, <2>2 DEF processMessage, Mailbox!Serve
  <2> QED
    BY <2>1, <2>3 DEF Mailbox!Next
<1>11. CASE UNCHANGED vars
  BY <1>11 DEF vars
<1> QED
  BY <1>1, <1>2, <1>3, <1>4, <1>5, <1>6, <1>7, <1>8, <1>9, <1>10, <1>11
  DEF Next, Inbound, StreamEnds, ToolSettles, Resume

\* The agent runner and its queue keep the promise of SessionMailbox, whatever
\* the provider and the tools do: one message of a session at a time, the others
\* in the order of their arrival, each served once or lost for a stated reason.
THEOREM RunnerImplementsMailbox == SafeSpec => ImplementsMailboxSafely
<1>1. SafeSpec => Mailbox!Init /\ [][Mailbox!Next]_(Mailbox!mvars)
  BY MailboxInit, MailboxStep, TypeCorrect, ServiceCorrect, AccountCorrect, PTL
  DEF SafeSpec
<1> QED
  BY <1>1 DEF ImplementsMailboxSafely, Mailbox!SafeSpec

-----------------------------------------------------------------------------
(* Who processed what, and the streams that are open.                      *)

\* What processMessage is called for was not handled before: the message has
\* just arrived or leaves the queue.
LEMMA ProcessedIsNew ==
    ASSUME TypeOK, AccountInv
    PROVE  /\ \A m \in Message : ProcessNow(m) => m \notin handled
           /\ \A h \in Message :
                 DrainNext(h) => /\ Head(queues[SessionOf[current[h]]]) \in Message
                                 /\ Head(queues[SessionOf[current[h]]]) \notin handled
<1>1. ASSUME NEW m \in Message, ProcessNow(m) PROVE m \notin handled
  BY <1>1 DEF ProcessNow, Arrive, AccountInv, EveryMessageAccounted
<1>2. ASSUME NEW h \in Message, DrainNext(h)
      PROVE  /\ Head(queues[SessionOf[current[h]]]) \in Message
             /\ Head(queues[SessionOf[current[h]]]) \notin handled
  <2> DEFINE s == SessionOf[current[h]]
             q == queues[s]
  <2>1. s \in Session /\ q \in Seq(Message) /\ q # <<>>
    BY <1>2, QueueAssumption DEF DrainNext, TypeOK
  <2>2. Head(q) \in Queued(q)
    BY <2>1, QueuedTail DEF AccountInv
  <2>3. Head(q) \in Waiting
    BY <2>1, <2>2 DEF Waiting
  <2> QED
    BY <2>1, <2>3 DEF AccountInv, EveryMessageAccounted
<1> QED
  BY <1>1, <1>2

\* No handler has started, no run was aborted, no stream is open.
LEMMA HandledInit == Init => HandledInv /\ OpenInv
BY DEF Init, HandledInv, OpenInv

\* processMessage takes a message that nobody handled.
LEMMA ProcessKeepsHandled ==
    ASSUME TypeOK, HandledInv, OpenInv, NEW h \in Message, NEW m \in Message,
           m \notin handled, processMessage(h, m), UNCHANGED <<aborted, open>>
    PROVE  HandledInv' /\ OpenInv'
<1>1. /\ handled' = handled \cup {m}
      /\ \A g \in Message : current'[g] = IF g = h THEN m ELSE current[g]
      /\ \A g \in Message \ {h} : pc'[g] = pc[g]
  BY DEF processMessage, TypeOK
<1> QED
  BY <1>1 DEF HandledInv, OpenInv

\* A step that processes nothing new keeps who processed what, and the streams
\* closed if it opens only the stream of a handler that reads it.
LEMMA QuietKeepsHandled ==
    ASSUME HandledInv, OpenInv,
           \A h \in Message : pc'[h] # "off" <=> pc[h] # "off",
           UNCHANGED <<current, handled>>, aborted' \subseteq handled,
           open' \subseteq handled,
           \A h \in Message :
              pc'[h] \in {"unserved", "tools", "ended"} => current[h] \notin open'
    PROVE  HandledInv' /\ OpenInv'
BY DEF HandledInv, OpenInv

\* The step: a message has one handler, and only what was handled is aborted or
\* has a stream, which is open only while the handler reads it or after it broke.
LEMMA HandledStep ==
    TypeOK /\ ServiceInv /\ AccountInv /\ HandledInv /\ OpenInv /\ [Next]_vars
        => HandledInv' /\ OpenInv'
<1> SUFFICES ASSUME TypeOK, ServiceInv, AccountInv, HandledInv, OpenInv, [Next]_vars
             PROVE  HandledInv' /\ OpenInv'
  OBVIOUS
<1> USE DEF Running, Ended
<1>a. \A s \in Session : isSessionBusy(s) => activeRuns[s] \in handled
  BY DEF isSessionBusy, ServiceInv, RunInv, BusyHasRun, HandledInv
<1>b. \A h \in Message : SessionOf[current[h]] \in Session
  BY QueueAssumption DEF TypeOK
<1>1. ASSUME NEW m \in Message, StopRun(m) PROVE HandledInv' /\ OpenInv'
  <2>1. SessionOf[m] \in Session
    BY QueueAssumption
  <2>2. aborted' \subseteq handled
    BY <1>1, <1>a, <2>1 DEF StopRun, HandledInv
  <2> QED
    BY <1>1, <2>2, QuietKeepsHandled DEF StopRun, HandledInv, OpenInv
<1>2. ASSUME NEW m \in Message, NEW r \in 0..MAX_QUEUE_SIZE, QueueMessage(m, r)
      PROVE  HandledInv' /\ OpenInv'
  BY <1>2, QuietKeepsHandled DEF QueueMessage, HandledInv, OpenInv
<1>3. ASSUME NEW m \in Message, ProcessNow(m) PROVE HandledInv' /\ OpenInv'
  BY <1>3, ProcessedIsNew, ProcessKeepsHandled DEF ProcessNow
<1>4. ASSUME NEW s \in Session, AbortEvent(s) PROVE HandledInv' /\ OpenInv'
  <2>1. aborted' \subseteq handled
    BY <1>4, <1>a DEF AbortEvent, HandledInv
  <2> QED
    BY <1>4, <2>1, QuietKeepsHandled DEF AbortEvent, HandledInv, OpenInv
<1>5. ASSUME NEW h \in Message, ReturnUnserved(h) PROVE HandledInv' /\ OpenInv'
  <2>1. \A g \in Message : pc'[g] = IF g = h THEN "ended" ELSE pc[g]
    BY <1>5 DEF ReturnUnserved, EndRun, TypeOK
  <2> QED
    BY <1>5, <2>1, QuietKeepsHandled DEF ReturnUnserved, HandledInv, OpenInv
<1>6. ASSUME NEW h \in Message, TextChunk(h) PROVE HandledInv' /\ OpenInv'
  <2>1. /\ pc[h] = "stream" /\ current[h] \in handled
        /\ open' = open \cup {current[h]}
        /\ UNCHANGED <<pc, current, handled, aborted>>
    BY <1>6 DEF TextChunk, HandledInv
  <2>2. \A g \in Message :
           pc[g] \in {"unserved", "tools", "ended"} => current[g] # current[h]
    BY <2>1 DEF HandledInv
  <2> QED
    BY <2>1, <2>2, QuietKeepsHandled DEF HandledInv, OpenInv
<1>7. ASSUME NEW h \in Message, AbortAtChunk(h) PROVE HandledInv' /\ OpenInv'
  <2>1. /\ pc[h] = "stream" /\ open' = open \ {current[h]}
        /\ \A g \in Message : pc'[g] = IF g = h THEN "ended" ELSE pc[g]
        /\ UNCHANGED <<current, handled, aborted>>
    BY <1>7 DEF AbortAtChunk, EndRun, TypeOK
  <2> QED
    BY <2>1, QuietKeepsHandled DEF HandledInv, OpenInv
<1>8. ASSUME NEW h \in Message, StreamThrows(h) PROVE HandledInv' /\ OpenInv'
  <2>1. /\ pc[h] = "stream"
        /\ \A g \in Message : pc'[g] = IF g = h THEN "failed" ELSE pc[g]
        /\ UNCHANGED <<current, handled, aborted, open>>
    BY <1>8 DEF StreamThrows, EndRun, TypeOK
  <2> QED
    BY <2>1, QuietKeepsHandled DEF HandledInv, OpenInv
<1>9. ASSUME NEW h \in Message, NEW n \in 1..MaxCalls, ToolCalls(h, n)
      PROVE  HandledInv' /\ OpenInv'
  <2>1. /\ pc[h] = "stream" /\ open' = open \ {current[h]}
        /\ \A g \in Message : pc'[g] = IF g = h THEN "tools" ELSE pc[g]
        /\ UNCHANGED <<current, handled, aborted>>
    BY <1>9 DEF ToolCalls, TypeOK
  <2> QED
    BY <2>1, QuietKeepsHandled DEF HandledInv, OpenInv
<1>10. ASSUME NEW h \in Message, FinalResponse(h) PROVE HandledInv' /\ OpenInv'
  <2>1. /\ pc[h] = "stream" /\ open' = open \ {current[h]}
        /\ \A g \in Message : pc'[g] = IF g = h THEN "ended" ELSE pc[g]
        /\ UNCHANGED <<current, handled, aborted>>
    BY <1>10 DEF FinalResponse, EndRun, TypeOK
  <2> QED
    BY <2>1, QuietKeepsHandled DEF HandledInv, OpenInv
<1>11. ASSUME NEW h \in Message, NextTool(h) PROVE HandledInv' /\ OpenInv'
  BY <1>11, QuietKeepsHandled DEF NextTool, HandledInv, OpenInv
<1>12. ASSUME NEW h \in Message, AbortAtTools(h) \/ ToolResults(h)
       PROVE  HandledInv' /\ OpenInv'
  <2>1. /\ pc[h] = "tools"
        /\ \A g \in Message \ {h} : pc'[g] = pc[g]
        /\ pc'[h] \in {"ended", "stream"}
        /\ UNCHANGED <<current, handled, aborted, open>>
    BY <1>12 DEF AbortAtTools, ToolResults, EndRun, TypeOK
  <2> QED
    BY <2>1, QuietKeepsHandled DEF HandledInv, OpenInv
<1>13. ASSUME NEW h \in Message, DrainNext(h) PROVE HandledInv' /\ OpenInv'
  <2> DEFINE m == Head(queues[SessionOf[current[h]]])
  <2>1. m \in Message /\ m \notin handled
    BY <1>13, ProcessedIsNew
  <2>2. processMessage(h, m) /\ UNCHANGED <<aborted, open>>
    BY <1>13 DEF DrainNext
  <2> HIDE DEF m
  <2> QED
    BY <2>1, <2>2, ProcessKeepsHandled
<1>14. ASSUME NEW h \in Message, HandlerReturns(h) PROVE HandledInv' /\ OpenInv'
  <2>1. /\ pc[h] \in {"ended", "failed"}
        /\ \A g \in Message : pc'[g] = IF g = h THEN "over" ELSE pc[g]
        /\ UNCHANGED <<current, handled, aborted, open>>
    BY <1>14 DEF HandlerReturns, TypeOK
  <2> QED
    BY <2>1, QuietKeepsHandled DEF HandledInv, OpenInv
<1>15. CASE UNCHANGED vars
  BY <1>15, QuietKeepsHandled DEF vars, HandledInv, OpenInv
<1> QED
  BY <1>1, <1>2, <1>3, <1>4, <1>5, <1>6, <1>7, <1>8, <1>9, <1>10, <1>11,
     <1>12, <1>13, <1>14, <1>15
  DEF Next, Inbound, StreamEnds, ToolSettles, Resume

LEMMA HandledCorrect == SafeSpec => [](HandledInv /\ OpenInv)
BY HandledInit, HandledStep, TypeCorrect, ServiceCorrect, AccountCorrect, PTL
DEF SafeSpec

\* A stream that was opened for the user is closed by the time its run ends,
\* however it ends, unless the provider broke it.
THEOREM NoStreamLeftOpen == SafeSpec => []StreamsAreClosed
<1>1. OpenInv => StreamsAreClosed
  BY DEF OpenInv, StreamsAreClosed
<1> QED
  BY <1>1, HandledCorrect, PTL

-----------------------------------------------------------------------------
(* An aborted run is silent.                                               *)

\* The turn that is recorded is the last of the history, whether or not the
\* window cut the first (session-manager.ts, addMessage).
LEMMA RecordedIsLast ==
    ASSUME TypeOK, NEW role \in {"user", "calls", "results", "answer"},
           NEW m \in Message, Record(role, m), NEW s \in Session,
           history'[s] # history[s]
    PROVE  history'[s][Len(history'[s])].msg = m
<1> DEFINE turn == [role |-> role, msg |-> m]
           h == history[s]
           longer == Append(h, turn)
<1>1. h \in Seq(Turn) /\ turn \in Turn
  BY DEF TypeOK, Turn
<1>2. history'[s] = addMessage(h, role, m)
  BY DEF Record, TypeOK
<1>3. /\ longer \in Seq(Turn) /\ Len(longer) = Len(h) + 1 /\ Len(h) \in Nat
      /\ longer[Len(longer)] = turn
  BY <1>1
<1>4. CASE Len(longer) > maxHistoryPerSession
  <2>1. history'[s] = Tail(longer)
    BY <1>2, <1>4 DEF addMessage
  <2>2. Len(longer) >= 2 /\ longer # <<>>
    BY <1>3, <1>4, RunnerAssumption
  <2>3. /\ Len(Tail(longer)) = Len(longer) - 1
        /\ \A i \in 1..Len(Tail(longer)) : Tail(longer)[i] = longer[i+1]
    BY <1>3, <2>2
  <2> HIDE DEF longer
  <2>4. Tail(longer)[Len(Tail(longer))] = longer[Len(longer)]
    BY <1>3, <2>2, <2>3
  <2> QED
    BY <1>3, <2>1, <2>4
<1>5. CASE ~(Len(longer) > maxHistoryPerSession)
  <2>1. history'[s] = longer
    BY <1>2, <1>5 DEF addMessage
  <2> QED
    BY <1>3, <2>1
<1> QED
  BY <1>4, <1>5

\* What a step may say of the messages that were aborted before it.
Silent ==
    /\ \A m \in aborted : out'[m] \subseteq out[m] \cup {"error"}
    /\ \A s \in Session :
          history'[s] # history[s] =>
              history'[s][Len(history'[s])].msg \notin aborted

\* A step that speaks only of a message that is not aborted is silent about the
\* others.
LEMMA SpeaksOfOne ==
    ASSUME TypeOK, NEW role \in {"user", "calls", "results", "answer"},
           NEW m \in Message, m \notin aborted, Record(role, m),
           out' = out \/ \E kinds : Emit(m, kinds)
    PROVE  Silent
<1>1. \A g \in aborted : out'[g] = out[g]
  BY DEF Emit, TypeOK
<1>2. \A s \in Session :
         history'[s] # history[s] => history'[s][Len(history'[s])].msg = m
  BY RecordedIsLast
<1> QED
  BY <1>1, <1>2 DEF Silent

\* The report of an error is all that an ended run still says.
LEMMA ReportIsError ==
    ASSUME TypeOK, NEW h \in Message, ReportError(h)
    PROVE  \A m \in aborted : out'[m] \subseteq out[m] \cup {"error"}
BY DEF ReportError, Emit, TypeOK

\* Nor does a message that starts bring back an aborted one: what was aborted
\* was handled, and what starts was not.
LEMMA StartIsSilent ==
    ASSUME TypeOK, HandledInv, NEW h \in Message, NEW m \in Message, m \notin handled,
           processMessage(h, m),
           \A g \in aborted : out'[g] \subseteq out[g] \cup {"error"}
    PROVE  Silent
<1>1. m \notin aborted
  BY DEF HandledInv
<1>2. CASE m \in Served
  <2>1. Record("user", m)
    BY <1>2 DEF processMessage
  <2>2. \A s \in Session :
           history'[s] # history[s] => history'[s][Len(history'[s])].msg = m
    BY <2>1, RecordedIsLast
  <2> QED
    BY <1>1, <2>2 DEF Silent
<1>3. CASE m \notin Served
  BY <1>3 DEF processMessage, Silent
<1> QED
  BY <1>2, <1>3

\* After an abort, by "stop" or by "agent:abort", whatever arrives late for the
\* run, a chunk, the end of its stream, a tool's result, the user is told nothing
\* but an error and the history gets no turn of it.
THEOREM AbortSilences == SafeSpec => SilentAfterAbort
<1>1. ASSUME TypeOK, AccountInv, HandledInv, [Next]_vars
      PROVE  Silent \/ UNCHANGED vars
  <2>1. ASSUME UNCHANGED <<out, history>> PROVE Silent
    BY <2>1 DEF Silent
  <2>2. ASSUME NEW m \in Message, ProcessNow(m) PROVE Silent
    BY <1>1, <2>2, ProcessedIsNew, StartIsSilent DEF ProcessNow
  <2>3. ASSUME NEW h \in Message, NEW n \in 1..MaxCalls, ToolCalls(h, n)
        PROVE  Silent
    BY <1>1, <2>3, SpeaksOfOne DEF ToolCalls, isAborted, TypeOK
  <2>4. ASSUME NEW h \in Message, FinalResponse(h) PROVE Silent
    BY <1>1, <2>4, SpeaksOfOne DEF FinalResponse, isAborted, TypeOK
  <2>5. ASSUME NEW h \in Message, ToolResults(h) PROVE Silent
    BY <1>1, <2>5, SpeaksOfOne DEF ToolResults, isAborted, TypeOK
  <2>6. ASSUME NEW h \in Message, DrainNext(h) PROVE Silent
    <3> DEFINE m == Head(queues[SessionOf[current[h]]])
    <3>1. m \in Message /\ m \notin handled
      BY <1>1, <2>6, ProcessedIsNew
    <3>2. processMessage(h, m) /\ ReportError(h)
      BY <2>6 DEF DrainNext
    <3> HIDE DEF m
    <3> QED
      BY <1>1, <3>1, <3>2, ReportIsError, StartIsSilent
  <2>7. ASSUME NEW h \in Message, HandlerReturns(h) PROVE Silent
    BY <1>1, <2>7, ReportIsError DEF HandlerReturns, Silent
  <2>8. ASSUME NEW m \in Message,
               StopRun(m) \/ \E r \in 0..MAX_QUEUE_SIZE : QueueMessage(m, r)
        PROVE  Silent
    BY <2>1, <2>8 DEF StopRun, QueueMessage
  <2>9. ASSUME NEW h \in Message,
               ReturnUnserved(h) \/ TextChunk(h) \/ AbortAtChunk(h)
                 \/ StreamThrows(h) \/ NextTool(h) \/ AbortAtTools(h)
        PROVE  Silent
    BY <2>1, <2>9 DEF ReturnUnserved, TextChunk, AbortAtChunk, StreamThrows,
       NextTool, AbortAtTools
  <2>10. ASSUME NEW s \in Session, AbortEvent(s) PROVE Silent
    BY <2>1, <2>10 DEF AbortEvent
  <2> QED
    BY <1>1, <2>2, <2>3, <2>4, <2>5, <2>6, <2>7, <2>8, <2>9, <2>10
    DEF Next, Inbound, StreamEnds, ToolSettles, Resume
<1>2. TypeOK /\ AccountInv /\ HandledInv /\ [Next]_vars => [Silent]_vars
  BY <1>1
<1>3. SafeSpec => [][Silent]_vars
  BY <1>2, TypeCorrect, AccountCorrect, HandledCorrect, PTL DEF SafeSpec
<1> QED
  BY <1>3 DEF SilentAfterAbort, Silent

-----------------------------------------------------------------------------
(* The history of a session is well formed.                                *)

\* A history with one more turn is the old one, possibly without its first turn,
\* and that turn (session-manager.ts, addMessage).
LEMMA AddMessageShifts ==
    ASSUME NEW h \in Seq(Turn), NEW role \in {"user", "calls", "results", "answer"},
           NEW m \in Message, Len(h) <= maxHistoryPerSession
    PROVE  \E d \in {0, 1} :
              /\ Len(addMessage(h, role, m)) = Len(h) + 1 - d
              /\ IF d = 1 THEN Len(h) = maxHistoryPerSession
                          ELSE Len(h) < maxHistoryPerSession
              /\ Len(addMessage(h, role, m)) >= 1
              /\ \A i \in 1..Len(addMessage(h, role, m)) :
                    addMessage(h, role, m)[i]
                      = IF i + d <= Len(h) THEN h[i + d]
                                           ELSE [role |-> role, msg |-> m]
<1> DEFINE turn == [role |-> role, msg |-> m]
           longer == Append(h, turn)
<1>1. turn \in Turn
  BY DEF Turn
<1>2. /\ longer \in Seq(Turn) /\ Len(longer) = Len(h) + 1 /\ Len(h) \in Nat
      /\ \A i \in 1..Len(longer) : longer[i] = IF i <= Len(h) THEN h[i] ELSE turn
  BY <1>1
<1>3. CASE Len(longer) > maxHistoryPerSession
  <2>1. addMessage(h, role, m) = Tail(longer)
    BY <1>3 DEF addMessage
  <2>2. longer # <<>> /\ Len(longer) >= 2
    BY <1>2, <1>3, RunnerAssumption
  <2> HIDE DEF longer, turn
  <2>3. /\ Len(Tail(longer)) = Len(longer) - 1
        /\ \A i \in 1..Len(Tail(longer)) : Tail(longer)[i] = longer[i + 1]
    BY <1>2, <2>2
  <2>4. \A i \in 1..Len(Tail(longer)) : i + 1 \in 1..Len(longer)
    BY <1>2, <2>3
  <2>5. \A i \in 1..Len(Tail(longer)) :
           Tail(longer)[i] = IF i + 1 <= Len(h) THEN h[i + 1] ELSE turn
    BY <1>2, <2>3, <2>4
  <2>6. /\ Len(Tail(longer)) = Len(h) + 1 - 1 /\ Len(Tail(longer)) >= 1
        /\ Len(h) = maxHistoryPerSession
    BY <1>2, <1>3, <2>2, <2>3, RunnerAssumption
  <2> QED
    BY <2>1, <2>5, <2>6 DEF turn
<1>4. CASE ~(Len(longer) > maxHistoryPerSession)
  <2>1. addMessage(h, role, m) = longer
    BY <1>4 DEF addMessage
  <2> HIDE DEF longer, turn
  <2>2. \A i \in 1..Len(longer) :
           longer[i] = IF i + 0 <= Len(h) THEN h[i + 0] ELSE turn
    BY <1>2
  <2>3. /\ Len(longer) = Len(h) + 1 - 0 /\ Len(longer) >= 1
        /\ Len(h) < maxHistoryPerSession
    BY <1>2, <1>4, RunnerAssumption
  <2> QED
    BY <2>1, <2>2, <2>3 DEF turn
<1> QED
  BY <1>3, <1>4

\* A turn of a message whose turns are at the end leaves a history well formed,
\* provided that results come right after their calls.
LEMMA AddKeepsHistory ==
    ASSUME NEW h \in Seq(Turn), NEW role \in {"user", "calls", "results", "answer"},
           NEW m \in Message, NEW S, NEW A, Len(h) <= maxHistoryPerSession,
           Contiguous(h), ResultsFollowCalls(h), CallsGetResults(h, A), AtTheEnd(h, m),
           IF role = "results" THEN EndsWithCalls(h, m) ELSE NoOpenCalls(h, A),
           \A i \in 1..Len(h) : h[i].msg \in S, m \in S
    PROVE  LET longer == addMessage(h, role, m)
           IN  /\ Contiguous(longer)
               /\ ResultsFollowCalls(longer)
               /\ CallsGetResults(longer, A)
               /\ role # "calls" => NoOpenCalls(longer, A)
               /\ AtTheEnd(longer, m)
               /\ role = "calls" => EndsWithCalls(longer, m)
               /\ \A i \in 1..Len(longer) : longer[i].msg \in S
<1> DEFINE turn == [role |-> role, msg |-> m]
           g == addMessage(h, role, m)
<1>1. PICK d \in {0, 1} :
         /\ Len(g) = Len(h) + 1 - d /\ Len(g) >= 1
         /\ IF d = 1 THEN Len(h) = maxHistoryPerSession
                     ELSE Len(h) < maxHistoryPerSession
         /\ \A i \in 1..Len(g) :
               g[i] = IF i + d <= Len(h) THEN h[i + d] ELSE turn
  BY AddMessageShifts
<1> HIDE DEF g
<1>2. Len(h) \in Nat /\ Len(g) \in Nat /\ turn.msg = m /\ turn.role = role
  BY <1>1
<1>3. \A i \in 1..Len(g) : i < Len(g) => i + d \in 1..Len(h) /\ g[i] = h[i + d]
  BY <1>1, <1>2
<1>4. g[Len(g)] = turn
  BY <1>1, <1>2
<1>5. \A i \in 1..Len(g) : i = Len(g) \/ i < Len(g)
  BY <1>2
<1> HIDE DEF turn
<1>6. AtTheEnd(g, m)
  <2> SUFFICES ASSUME NEW i \in 1..Len(g), NEW j \in 1..Len(g), i < j, g[i].msg = m
               PROVE  g[j].msg = m
    BY DEF AtTheEnd
  <2>1. CASE j = Len(g)
    BY <1>2, <1>4, <2>1
  <2>2. CASE j < Len(g)
    <3>1. /\ i + d \in 1..Len(h) /\ g[i] = h[i + d]
          /\ j + d \in 1..Len(h) /\ g[j] = h[j + d] /\ i + d < j + d
      BY <1>2, <1>3, <2>2
    <3> QED
      BY <3>1 DEF AtTheEnd
  <2> QED
    BY <1>5, <2>1, <2>2
<1>7. Contiguous(g)
  <2> SUFFICES ASSUME NEW i \in 1..Len(g), NEW j \in 1..Len(g), NEW k \in 1..Len(g),
                      i < j, j < k, g[i].msg = g[k].msg
               PROVE  g[j].msg = g[i].msg
    BY DEF Contiguous
  <2>1. /\ i + d \in 1..Len(h) /\ g[i] = h[i + d]
        /\ j + d \in 1..Len(h) /\ g[j] = h[j + d] /\ i + d < j + d
    BY <1>2, <1>3
  <2>2. CASE k = Len(g)
    BY <1>2, <1>4, <2>1, <2>2 DEF AtTheEnd
  <2>3. CASE k < Len(g)
    <3>1. k + d \in 1..Len(h) /\ g[k] = h[k + d] /\ j + d < k + d
      BY <1>2, <1>3, <2>3
    <3> QED
      BY <2>1, <3>1 DEF Contiguous
  <2> QED
    BY <1>5, <2>2, <2>3
<1>8. ResultsFollowCalls(g)
  <2> SUFFICES ASSUME NEW i \in 1..Len(g), g[i].role = "results"
               PROVE  IF i = 1 THEN Len(g) = maxHistoryPerSession
                               ELSE g[i-1] = [g[i] EXCEPT !.role = "calls"]
    BY DEF ResultsFollowCalls
  <2>1. CASE i = Len(g)
    <3>1. role = "results" /\ g[i] = turn /\ EndsWithCalls(h, m)
      BY <1>2, <1>4, <2>1
    <3>2. (i + d) - 1 = Len(h) /\ Len(h) > 0
      BY <1>1, <1>2, <2>1, <3>1 DEF EndsWithCalls
    <3>3. CASE i = 1
      BY <1>1, <1>2, <2>1, <3>2, <3>3
    <3>4. CASE i # 1
      <4>1. i - 1 \in 1..Len(g) /\ i - 1 < Len(g) /\ (i - 1) + d = (i + d) - 1
        BY <1>2, <3>4
      <4>2. g[i-1] = h[(i + d) - 1]
        BY <1>3, <4>1
      <4> QED
        BY <3>1, <3>2, <3>4, <4>2 DEF EndsWithCalls, turn
    <3> QED
      BY <3>3, <3>4
  <2>2. CASE i < Len(g)
    <3>1. i + d \in 1..Len(h) /\ g[i] = h[i + d]
      BY <1>2, <1>3, <2>2
    <3>2. CASE i = 1
      <4>1. d = 1 => Len(g) = maxHistoryPerSession
        BY <1>1, <1>2
      <4>2. ASSUME d = 0
            PROVE  Len(h) = maxHistoryPerSession
        <5>1. 1 \in 1..Len(h) /\ i + d = 1
          BY <3>1, <3>2, <4>2
        <5>2. h[1].role = "results"
          BY <3>1, <5>1
        <5> QED
          BY <5>1, <5>2 DEF ResultsFollowCalls
      <4> QED
        BY <1>1, <1>2, <3>2, <4>1, <4>2, RunnerAssumption
    <3>3. CASE i # 1
      <4>1. /\ i - 1 \in 1..Len(g) /\ i - 1 < Len(g) /\ (i - 1) + d = (i + d) - 1
            /\ i + d # 1
        BY <1>2, <3>3
      <4>2. g[i-1] = h[(i + d) - 1]
        BY <1>3, <4>1
      <4>3. h[(i + d) - 1] = [h[i + d] EXCEPT !.role = "calls"]
        BY <3>1, <4>1 DEF ResultsFollowCalls
      <4> QED
        BY <3>1, <3>3, <4>2, <4>3
    <3> QED
      BY <3>2, <3>3
  <2> QED
    BY <1>5, <2>1, <2>2
<1>11. CallsGetResults(g, A)
  <2> SUFFICES ASSUME NEW i \in 1..(Len(g) - 1), g[i].role = "calls"
               PROVE  g[i+1] = [g[i] EXCEPT !.role = "results"] \/ g[i].msg \in A
    BY DEF CallsGetResults
  <2>1. i \in 1..Len(g) /\ i < Len(g) /\ i + d \in 1..Len(h) /\ g[i] = h[i + d]
    BY <1>2, <1>3
  <2>2. CASE i + 1 = Len(g)
    <3>1. g[i+1] = turn /\ i + d = Len(h) /\ Len(h) > 0
      BY <1>1, <1>2, <1>4, <2>1, <2>2
    <3>2. CASE role = "results"
      BY <1>2, <2>1, <3>1, <3>2 DEF EndsWithCalls, turn
    <3>3. CASE role # "results"
      BY <2>1, <3>1, <3>3 DEF NoOpenCalls
    <3> QED
      BY <3>2, <3>3
  <2>3. CASE i + 1 < Len(g)
    <3>1. /\ (i + 1) + d \in 1..Len(h) /\ g[i+1] = h[(i + 1) + d]
          /\ (i + 1) + d = (i + d) + 1 /\ i + d \in 1..(Len(h) - 1)
      BY <1>2, <1>3, <2>1, <2>3
    <3>2. h[(i + d) + 1] = [h[i + d] EXCEPT !.role = "results"] \/ h[i + d].msg \in A
      BY <2>1, <3>1 DEF CallsGetResults
    <3> QED
      BY <2>1, <3>1, <3>2
  <2> QED
    BY <1>2, <2>1, <2>2, <2>3
<1>12. role # "calls" => NoOpenCalls(g, A)
  BY <1>2, <1>4 DEF NoOpenCalls
<1>9. role = "calls" => EndsWithCalls(g, m)
  BY <1>1, <1>2, <1>4 DEF EndsWithCalls, turn
<1>10. \A i \in 1..Len(g) : g[i].msg \in S
  BY <1>2, <1>3, <1>4, <1>5
<1> QED
  BY <1>6, <1>7, <1>8, <1>9, <1>10, <1>11, <1>12 DEF g

\* No session has a history yet.
LEMMA HistoryInit == Init => HistoryInv
<1> SUFFICES ASSUME Init PROVE HistoryInv
  OBVIOUS
<1>1. \A s \in Session : history[s] = <<>>
  BY DEF Init
<1> QED
  BY <1>1 DEF Init, HistoryInv, Contiguous, ResultsFollowCalls, CallsGetResults,
     NoOpenCalls, Running

\* A step that records nothing keeps the histories well formed, unless a handler
\* starts a run, comes to its tools, or leaves them before it is aborted.
LEMMA QuietKeepsHistory ==
    ASSUME HistoryInv, UNCHANGED <<history, current, handled>>, aborted \subseteq aborted',
           \A h \in Message :
              /\ pc'[h] \in Running => pc[h] \in Running
              /\ pc'[h] = "tools" => pc[h] = "tools"
              /\ pc[h] = "tools" => pc'[h] = "tools" \/ current[h] \in aborted
    PROVE  HistoryInv'
<1>1. ASSUME NEW s \in Session
      PROVE  /\ CallsGetResults(history[s], aborted')
             /\ \/ NoOpenCalls(history[s], aborted')
                \/ \E h \in Message :
                      pc'[h] = "tools" /\ EndsWithCalls(history[s], current[h])
  <2>1. CallsGetResults(history[s], aborted')
    BY DEF HistoryInv, CallsGetResults
  <2>2. CASE NoOpenCalls(history[s], aborted)
    BY <2>1, <2>2 DEF NoOpenCalls
  <2>3. CASE ~NoOpenCalls(history[s], aborted)
    <3>1. PICK h \in Message : pc[h] = "tools" /\ EndsWithCalls(history[s], current[h])
      BY <2>3 DEF HistoryInv
    <3>2. CASE pc'[h] = "tools"
      BY <2>1, <3>1, <3>2
    <3>3. CASE pc'[h] # "tools"
      BY <2>1, <3>1, <3>3 DEF NoOpenCalls, EndsWithCalls
    <3> QED
      BY <3>2, <3>3
  <2> QED
    BY <2>2, <2>3
<1> QED
  BY <1>1 DEF HistoryInv

\* A turn recorded for the message that handler h runs keeps the histories well
\* formed: no other handler runs a message of the session.
LEMMA RecordKeepsHistory ==
    ASSUME TypeOK, RunInv, HistoryInv, NEW h \in Message,
           pc[h] \in Running, current[h] \in handled,
           NEW role \in {"calls", "results", "answer"}, Record(role, current[h]),
           (role = "results") <=> (pc[h] = "tools"),
           UNCHANGED <<current, handled, aborted>>,
           \A g \in Message \ {h} : pc'[g] = pc[g],
           (pc'[h] = "tools") <=> (role = "calls")
    PROVE  HistoryInv'
<1> DEFINE m == current[h]
           s == SessionOf[m]
           longer == addMessage(history[s], role, m)
<1>1. /\ m \in Message /\ s \in Session /\ history[s] \in Seq(Turn)
      /\ Len(history[s]) <= maxHistoryPerSession
  BY QueueAssumption DEF TypeOK
<1>2. /\ Contiguous(history[s]) /\ ResultsFollowCalls(history[s])
      /\ CallsGetResults(history[s], aborted)
      /\ AtTheEnd(history[s], m)
      /\ \A i \in 1..Len(history[s]) :
            history[s][i].msg \in handled /\ SessionOf[history[s][i].msg] = s
  BY <1>1 DEF HistoryInv
<1>o. \A g \in Message \ {h} : pc[g] \in Running => SessionOf[current[g]] # s
  BY DEF RunInv, OneRun
<1>e. IF role = "results" THEN EndsWithCalls(history[s], m)
                          ELSE NoOpenCalls(history[s], aborted)
  <2>1. CASE role = "results"
    BY <2>1 DEF HistoryInv
  <2>2. CASE role # "results"
    <3> SUFFICES ASSUME NEW g \in Message, pc[g] = "tools",
                        EndsWithCalls(history[s], current[g])
                 PROVE  FALSE
      BY <1>1, <2>2 DEF HistoryInv
    <3>1. SessionOf[current[g]] = s
      BY <1>1, <1>2 DEF EndsWithCalls
    <3> QED
      BY <1>o, <2>2, <3>1 DEF Running
  <2> QED
    BY <2>1, <2>2
<1> DEFINE S == {z \in handled : SessionOf[z] = s}
<1>3. /\ Contiguous(longer) /\ ResultsFollowCalls(longer) /\ AtTheEnd(longer, m)
      /\ CallsGetResults(longer, aborted)
      /\ (role = "calls" => EndsWithCalls(longer, m))
      /\ (role # "calls" => NoOpenCalls(longer, aborted))
      /\ \A i \in 1..Len(longer) : longer[i].msg \in S
  <2>1. m \in S /\ \A i \in 1..Len(history[s]) : history[s][i].msg \in S
    BY <1>2
  <2> HIDE DEF S
  <2> QED
    BY <1>1, <1>2, <1>e, <2>1, AddKeepsHistory
<1>4. \A z \in Session : history'[z] = IF z = s THEN longer ELSE history[z]
  BY <1>1 DEF Record, TypeOK
<1>5. \A g \in Message \ {h} : pc'[g] \in Running => SessionOf[current[g]] # s
  BY DEF RunInv, OneRun
<1>6. \A g \in Message : SessionOf[current[g]] \in Session
  BY QueueAssumption DEF TypeOK
<1> HIDE DEF longer
<1>7. ASSUME NEW z \in Session
      PROVE  /\ Contiguous(history'[z]) /\ ResultsFollowCalls(history'[z])
             /\ CallsGetResults(history'[z], aborted)
             /\ \/ NoOpenCalls(history'[z], aborted)
                \/ \E g \in Message :
                      pc'[g] = "tools" /\ EndsWithCalls(history'[z], current[g])
             /\ \A i \in 1..Len(history'[z]) :
                   history'[z][i].msg \in handled /\ SessionOf[history'[z][i].msg] = z
  <2>1. CASE z = s
    <3>1. history'[z] = longer
      BY <1>4, <2>1
    <3>2. \/ NoOpenCalls(longer, aborted)
          \/ pc'[h] = "tools" /\ EndsWithCalls(longer, current[h])
      BY <1>3
    <3> QED
      BY <1>3, <2>1, <3>1, <3>2
  <2>2. CASE z # s
    <3>1. history'[z] = history[z]
      BY <1>4, <2>2
    <3>2. \A g \in Message : EndsWithCalls(history[z], current[g]) => g # h
      BY <2>2 DEF EndsWithCalls, HistoryInv
    <3>3. ASSUME NEW g \in Message, pc[g] = "tools", EndsWithCalls(history[z], current[g])
          PROVE  pc'[g] = "tools"
      BY <3>2, <3>3
    <3> QED
      BY <3>1, <3>3 DEF HistoryInv
  <2> QED
    BY <2>1, <2>2
<1>8. ASSUME NEW g \in Message
      PROVE  /\ pc'[g] \in Running =>
                    AtTheEnd(history'[SessionOf[current'[g]]], current'[g])
             /\ pc'[g] = "tools" =>
                    EndsWithCalls(history'[SessionOf[current'[g]]], current'[g])
  <2>1. CASE g = h
    BY <1>1, <1>3, <1>4, <2>1
  <2>2. CASE g # h
    BY <1>4, <1>5, <1>6, <2>2 DEF HistoryInv, Running
  <2> QED
    BY <2>1, <2>2
<1> QED
  BY <1>7, <1>8 DEF HistoryInv

\* So does the message that a run starts with: no turn is of it yet, and no other
\* handler runs a message of its session.
LEMMA StartKeepsHistory ==
    ASSUME TypeOK, RunInv, HistoryInv, NEW h \in Message, NEW m \in Message,
           pc[h] \notin Running, ~isSessionBusy(SessionOf[m]), m \notin handled,
           processMessage(h, m), aborted' = aborted
    PROVE  HistoryInv'
<1> DEFINE s == SessionOf[m]
           longer == addMessage(history[s], "user", m)
           S == {z \in handled' : SessionOf[z] = s}
<1>1. /\ s \in Session /\ history[s] \in Seq(Turn)
      /\ Len(history[s]) <= maxHistoryPerSession
  BY QueueAssumption DEF TypeOK
<1>2. /\ Contiguous(history[s]) /\ ResultsFollowCalls(history[s])
      /\ CallsGetResults(history[s], aborted)
      /\ \A i \in 1..Len(history[s]) :
            history[s][i].msg \in handled /\ SessionOf[history[s][i].msg] = s
  BY <1>1 DEF HistoryInv
<1>o. \A g \in Message : pc[g] \in Running => SessionOf[current[g]] # s
  <2>1. \A g \in Message : current[g] # None
    BY RunnerAssumption DEF TypeOK
  <2> QED
    BY <2>1 DEF RunInv, RunsAreBusy, isSessionBusy
<1>e. NoOpenCalls(history[s], aborted)
  <2> SUFFICES ASSUME NEW g \in Message, pc[g] = "tools",
                      EndsWithCalls(history[s], current[g])
               PROVE  FALSE
    BY <1>1 DEF HistoryInv
  <2>1. SessionOf[current[g]] = s
    BY <1>1, <1>2 DEF EndsWithCalls
  <2> QED
    BY <1>o, <2>1 DEF Running
<1>3. AtTheEnd(history[s], m)
  BY <1>2 DEF AtTheEnd
<1>4. /\ handled' = handled \cup {m} /\ pc'[h] \in {"stream", "unserved"}
      /\ \A g \in Message \ {h} : pc'[g] = pc[g]
      /\ \A g \in Message : current'[g] = IF g = h THEN m ELSE current[g]
  BY DEF processMessage, TypeOK
<1>5. /\ Contiguous(longer) /\ ResultsFollowCalls(longer) /\ AtTheEnd(longer, m)
      /\ CallsGetResults(longer, aborted) /\ NoOpenCalls(longer, aborted)
      /\ \A i \in 1..Len(longer) : longer[i].msg \in S
  <2>1. m \in S /\ \A i \in 1..Len(history[s]) : history[s][i].msg \in S
    BY <1>2, <1>4
  <2> HIDE DEF S
  <2> QED
    BY <1>1, <1>2, <1>3, <1>e, <2>1, AddKeepsHistory
<1>6. \A z \in Session : \/ history'[z] = history[z]
                         \/ z = s /\ history'[z] = longer
  BY <1>1 DEF processMessage, Record, TypeOK
<1>7. \A g \in Message \ {h} :
         pc'[g] \in Running => pc[g] \in Running /\ SessionOf[current[g]] # s
  <2>1. \A g \in Message : current[g] # None
    BY RunnerAssumption DEF TypeOK
  <2> QED
    BY <1>4, <2>1 DEF RunInv, RunsAreBusy, isSessionBusy
<1>8. \A g \in Message : SessionOf[current[g]] \in Session
  BY QueueAssumption DEF TypeOK
<1> HIDE DEF longer
<1>9. ASSUME NEW z \in Session
      PROVE  /\ Contiguous(history'[z]) /\ ResultsFollowCalls(history'[z])
             /\ CallsGetResults(history'[z], aborted)
             /\ \/ NoOpenCalls(history'[z], aborted)
                \/ \E g \in Message :
                      pc'[g] = "tools" /\ EndsWithCalls(history'[z], current'[g])
             /\ \A i \in 1..Len(history'[z]) :
                   history'[z][i].msg \in handled' /\ SessionOf[history'[z][i].msg] = z
  <2>1. CASE z = s /\ history'[z] = longer
    BY <1>5, <2>1
  <2>2. CASE history'[z] = history[z]
    <3>1. \A g \in Message : pc[g] = "tools" => pc'[g] = "tools" /\ current'[g] = current[g]
      BY <1>4 DEF Running
    <3> QED
      BY <1>4, <2>2, <3>1 DEF HistoryInv
  <2> QED
    BY <1>6, <2>1, <2>2
<1>10. ASSUME NEW g \in Message
       PROVE  /\ pc'[g] \in Running =>
                     AtTheEnd(history'[SessionOf[current'[g]]], current'[g])
              /\ pc'[g] = "tools" =>
                     EndsWithCalls(history'[SessionOf[current'[g]]], current'[g])
  <2>1. CASE g = h
    BY <1>1, <1>3, <1>4, <1>5, <1>6, <2>1
  <2>2. CASE g # h
    BY <1>4, <1>6, <1>7, <1>8, <2>2 DEF HistoryInv, Running
  <2> QED
    BY <2>1, <2>2
<1> QED
  BY <1>9, <1>10 DEF HistoryInv

\* The step: only the one run of a session records turns in its history.
LEMMA HistoryStep ==
    TypeOK /\ ServiceInv /\ AccountInv /\ HandledInv /\ HistoryInv /\ [Next]_vars
        => HistoryInv'
<1> SUFFICES ASSUME TypeOK, ServiceInv, AccountInv, HandledInv, HistoryInv,
                    [Next]_vars
             PROVE  HistoryInv'
  OBVIOUS
<1>r. RunInv
  BY DEF ServiceInv
<1>1. ASSUME NEW m \in Message,
             StopRun(m) \/ \E r \in 0..MAX_QUEUE_SIZE : QueueMessage(m, r)
      PROVE  HistoryInv'
  BY <1>1, QuietKeepsHistory DEF StopRun, QueueMessage
<1>2. ASSUME NEW m \in Message, ProcessNow(m) PROVE HistoryInv'
  <2>1. pc[m] = "off"
    BY <1>2 DEF ProcessNow, Arrive, ServiceInv, StartedArrived
  <2>2. pc[m] \notin Running /\ m \notin handled
    BY <1>2, <2>1, ProcessedIsNew DEF Running
  <2> QED
    BY <1>2, <1>r, <2>2, StartKeepsHistory DEF ProcessNow
<1>3. ASSUME NEW s \in Session, AbortEvent(s) PROVE HistoryInv'
  BY <1>3, QuietKeepsHistory DEF AbortEvent
<1>4. ASSUME NEW h \in Message,
             ReturnUnserved(h) \/ AbortAtChunk(h) \/ StreamThrows(h) \/ AbortAtTools(h)
      PROVE  HistoryInv'
  <2>1. /\ pc'[h] \in Ended /\ \A g \in Message \ {h} : pc'[g] = pc[g]
        /\ UNCHANGED <<history, current, handled, aborted>>
    BY <1>4 DEF ReturnUnserved, AbortAtChunk, StreamThrows, AbortAtTools, EndRun,
       TypeOK, Ended
  <2> QED
    BY <1>4, <2>1, QuietKeepsHistory DEF ReturnUnserved, AbortAtChunk, StreamThrows,
       AbortAtTools, isAborted, Running, Ended
<1>5. ASSUME NEW h \in Message, TextChunk(h) \/ NextTool(h) PROVE HistoryInv'
  BY <1>5, QuietKeepsHistory DEF TextChunk, NextTool
<1>6. ASSUME NEW h \in Message, NEW n \in 1..MaxCalls, ToolCalls(h, n)
      PROVE  HistoryInv'
  <2>1. /\ pc[h] \in Running /\ current[h] \in handled
        /\ Record("calls", current[h]) /\ UNCHANGED <<current, handled, aborted>>
        /\ pc[h] # "tools" /\ pc'[h] = "tools"
        /\ \A g \in Message \ {h} : pc'[g] = pc[g]
    BY <1>6 DEF ToolCalls, HandledInv, TypeOK, Running
  <2> QED
    BY <1>r, <2>1, RecordKeepsHistory
<1>7. ASSUME NEW h \in Message, FinalResponse(h) PROVE HistoryInv'
  <2>1. /\ pc[h] \in Running /\ current[h] \in handled
        /\ Record("answer", current[h]) /\ UNCHANGED <<current, handled, aborted>>
        /\ pc[h] # "tools" /\ pc'[h] # "tools" /\ \A g \in Message \ {h} : pc'[g] = pc[g]
    BY <1>7 DEF FinalResponse, EndRun, HandledInv, TypeOK, Running
  <2> QED
    BY <1>r, <2>1, RecordKeepsHistory
<1>8. ASSUME NEW h \in Message, ToolResults(h) PROVE HistoryInv'
  <2>1. /\ pc[h] = "tools" /\ pc[h] \in Running /\ current[h] \in handled
        /\ Record("results", current[h]) /\ UNCHANGED <<current, handled, aborted>>
        /\ pc'[h] # "tools" /\ \A g \in Message \ {h} : pc'[g] = pc[g]
    BY <1>8 DEF ToolResults, EndRun, HandledInv, TypeOK, Running
  <2> QED
    BY <1>r, <2>1, RecordKeepsHistory
<1>9. ASSUME NEW h \in Message, DrainNext(h) PROVE HistoryInv'
  <2> DEFINE s == SessionOf[current[h]]
             m == Head(queues[s])
  <2>1. m \in Message /\ m \notin handled
    BY <1>9, ProcessedIsNew
  <2>2. /\ s \in Session /\ queues[s] \in Seq(Message) /\ queues[s] # <<>>
        /\ processMessage(h, m) /\ ~isSessionBusy(s) /\ pc[h] \notin Running
        /\ aborted' = aborted
    BY <1>9, QueueAssumption DEF DrainNext, TypeOK, Running, Ended
  <2>3. SessionOf[m] = s
    BY <2>2 DEF ServiceInv, QueueOfSession
  <2> HIDE DEF m, s
  <2> QED
    BY <1>r, <2>1, <2>2, <2>3, StartKeepsHistory
<1>10. ASSUME NEW h \in Message, HandlerReturns(h) PROVE HistoryInv'
  <2>1. /\ pc'[h] = "over" /\ \A g \in Message \ {h} : pc'[g] = pc[g]
        /\ pc[h] # "tools" /\ UNCHANGED <<history, current, handled, aborted>>
    BY <1>10 DEF HandlerReturns, TypeOK, Ended
  <2> QED
    BY <2>1, QuietKeepsHistory DEF Running
<1>11. CASE UNCHANGED vars
  BY <1>11, QuietKeepsHistory DEF vars
<1> QED
  BY <1>1, <1>2, <1>3, <1>4, <1>5, <1>6, <1>7, <1>8, <1>9, <1>10, <1>11
  DEF Next, Inbound, StreamEnds, ToolSettles, Resume

\* What the provider is sent of a session is well formed, however messages, drains
\* and aborts interleave: the turns of a message stand together, and calls and results
\* stand in pairs, but for results whose calls the window has cut off, which are the
\* oldest turn, and for the calls of a run that was aborted before its results.
THEOREM HistoriesWellFormed == SafeSpec => []HistoryWellFormed
<1>1. SafeSpec => []HistoryInv
  BY HistoryInit, HistoryStep, TypeCorrect, ServiceCorrect, AccountCorrect,
     HandledCorrect, PTL DEF SafeSpec
<1>2. HistoryInv => HistoryWellFormed
  BY DEF HistoryInv, HistoryWellFormed, Contiguous, ResultsFollowCalls, CallsGetResults
<1> QED
  BY <1>1, <1>2, PTL

=============================================================================
