--------------------------- MODULE SessionMailbox ---------------------------
(***************************************************************************)
(* What the agent runner and its queue promise of the messages of a        *)
(* session, whatever the model and the tools do: one message is served at  *)
(* a time; the others wait in the order of their arrival, at most          *)
(* MAX_QUEUE_SIZE of them; every message is served once or lost for a      *)
(* reason (refused, dropped as the oldest, cancelled); and a message that  *)
(* waits does not wait for ever.                                           *)
(***************************************************************************)
EXTENDS Naturals, Sequences

CONSTANTS Message, Session, SessionOf, MAX_QUEUE_SIZE, None

VARIABLES serving, waiting, handled, discarded

mvars == <<serving, waiting, handled, discarded>>

Init ==
    /\ serving = [s \in Session |-> None]
    /\ waiting = [s \in Session |-> <<>>]
    /\ handled = {}
    /\ discarded = {}

WaitingSet(s) == {waiting[s][i] : i \in 1..Len(waiting[s])}

IsNew(m) == m \notin handled \cup discarded \cup WaitingSet(SessionOf[m])

\* A message finds its session free and is served at once.
Begin(m) ==
    LET s == SessionOf[m] IN
    /\ IsNew(m)
    /\ serving[s] = None
    /\ serving' = [serving EXCEPT ![s] = m]
    /\ handled' = handled \cup {m}
    /\ UNCHANGED <<waiting, discarded>>

\* A message finds its session busy and waits.
Accept(m) ==
    LET s == SessionOf[m] IN
    /\ IsNew(m)
    /\ serving[s] # None
    /\ Len(waiting[s]) < MAX_QUEUE_SIZE
    /\ waiting' = [waiting EXCEPT ![s] = Append(@, m)]
    /\ UNCHANGED <<serving, handled, discarded>>

\* A message finds its session busy and the queue full: the message that
\* waited longest is lost.
AcceptDropping(m) ==
    LET s == SessionOf[m] IN
    /\ IsNew(m)
    /\ serving[s] # None
    /\ Len(waiting[s]) = MAX_QUEUE_SIZE
    /\ waiting' = [waiting EXCEPT ![s] = Append(Tail(@), m)]
    /\ discarded' = discarded \cup {Head(waiting[s])}
    /\ UNCHANGED <<serving, handled>>

\* A message is refused: it repeats one that waits.
Refuse(m) ==
    LET s == SessionOf[m] IN
    /\ IsNew(m)
    /\ serving[s] # None
    /\ waiting[s] # <<>>
    /\ discarded' = discarded \cup {m}
    /\ UNCHANGED <<serving, waiting, handled>>

\* The user stops the session: what waits is lost.
Cancel(s) ==
    /\ serving[s] # None
    /\ waiting' = [waiting EXCEPT ![s] = <<>>]
    /\ discarded' = discarded \cup WaitingSet(s)
    /\ UNCHANGED <<serving, handled>>

Finish(s) ==
    /\ serving[s] # None
    /\ serving' = [serving EXCEPT ![s] = None]
    /\ UNCHANGED <<waiting, handled, discarded>>

\* The message that waited longest is served.
Serve(s) ==
    /\ serving[s] = None
    /\ waiting[s] # <<>>
    /\ serving' = [serving EXCEPT ![s] = Head(waiting[s])]
    /\ waiting' = [waiting EXCEPT ![s] = Tail(@)]
    /\ handled' = handled \cup {Head(waiting[s])}
    /\ UNCHANGED discarded

Next ==
    \/ \E m \in Message : Begin(m) \/ Accept(m) \/ AcceptDropping(m) \/ Refuse(m)
    \/ \E s \in Session : Cancel(s) \/ Finish(s) \/ Serve(s)

SafeSpec == Init /\ [][Next]_mvars

Spec == SafeSpec /\ \A s \in Session : WF_mvars(Finish(s)) /\ WF_mvars(Serve(s))
=============================================================================
