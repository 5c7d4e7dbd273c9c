---------------------------- MODULE MessageQueue ----------------------------
(***************************************************************************)
(* The per-session queue of sessions/message-queue.ts: the messages that   *)
(* arrived while their session was busy, oldest first.  A queue is a       *)
(* sequence of messages; what the queue looks at in a message (its id, its *)
(* trimmed text, the session it belongs to) is given by constant functions.*)
(***************************************************************************)
EXTENDS Naturals, Sequences

CONSTANTS
    Message,          \* the inbound messages, one per delivery on the event bus
    Session,          \* the conversation sessions
    SessionOf,        \* the session that a message resolves to (getOrCreate)
    IdOf,             \* message.id
    TextOf,           \* message.content.trim()
    MAX_QUEUE_SIZE    \* the queue cap

ASSUME QueueAssumption ==
    /\ SessionOf \in [Message -> Session]
    /\ MAX_QUEUE_SIZE \in Nat \ {0}

\* `recent` is how many of the newest items were queued less than
\* DEDUPE_WINDOW_MS ago; items are queued in the order of their enqueuedAt.
IsDuplicate(q, m, recent) ==
    \E i \in 1..Len(q) :
        \/ IdOf[q[i]] = IdOf[m]
        \/ i > Len(q) - recent /\ TextOf[q[i]] = TextOf[m]

\* Mutant: the cap is not enforced.
DropNothing(q) == q

\* The oldest message makes room when the queue is full.
DropOldest(q) == IF Len(q) >= MAX_QUEUE_SIZE THEN Tail(q) ELSE q

Enqueue(q, m) == Append(DropOldest(q), m)

\* What enqueueing loses: the oldest message, when the queue was full.
Dropped(q) == IF Len(q) >= MAX_QUEUE_SIZE THEN {Head(q)} ELSE {}

\* The messages of a queue, as a set.
Queued(q) == {q[i] : i \in 1..Len(q)}
=============================================================================
