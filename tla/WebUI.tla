------------------------------- MODULE WebUI -------------------------------
(***************************************************************************)
(* The chat page of ui/index.html: what its handlers make of the page.      *)
(*                                                                         *)
(* Of its bubbles only the two that the script still holds on to can        *)
(* change: streamEl, with a stream under way ("dots" before its first       *)
(* text), and streamedBubble, the one whose stream has ended.  `answers`    *)
(* counts the final answers that can be read on the page.  The label of the *)
(* send button (the queue's depth) and the dots of "thinking" are left out.  *)
(***************************************************************************)
EXTENDS Naturals, Sequences

NoBubble == "none"

FreshPage ==
    [busy |-> FALSE, streamEl |-> NoBubble, streamText |-> FALSE,
     streamedBubble |-> NoBubble, answers |-> 0]

\* sendMessage, for a chat that is not a stop command, while the socket is open.
sendMessage(page) == [page EXCEPT !.busy = TRUE]

setIdle(page) == [page EXCEPT !.busy = FALSE]

noStream(page) == [page EXCEPT !.streamEl = NoBubble, !.streamText = FALSE]

Forget(page) == [page EXCEPT !.streamedBubble = NoBubble]

\* The bubble `old` gets new content, or is new itself when `old` is NoBubble.
Write(page, old, new) ==
    [page EXCEPT !.answers =
        IF old = "answer" /\ new # "answer" THEN @ - 1
        ELSE IF old # "answer" /\ new = "answer" THEN @ + 1 ELSE @]

onStreamStart(page) ==
    [Forget(page) EXCEPT !.streamText = FALSE, !.streamEl = "dots"]

onStreamDelta(page) ==
    LET p == [page EXCEPT !.streamText = TRUE]
    IN  IF p.streamEl = NoBubble THEN p
        ELSE [Write(p, p.streamEl, "partial") EXCEPT !.streamEl = "partial"]

onStreamEnd(page) ==
    noStream(IF page.streamEl # NoBubble /\ page.streamText
             THEN [Write(page, page.streamEl, "text") EXCEPT !.streamedBubble = "text"]
             ELSE page)

onIntermediate(page) ==
    IF page.streamEl # NoBubble /\ page.streamText
    THEN Forget(noStream(Write(page, page.streamEl, "text")))
    ELSE Forget(Write(page, page.streamedBubble, "text"))

\* Mutant: streamedBubble = null is forgotten.
AnswerKeepingBubble(page) ==
    IF page.streamEl # NoBubble THEN noStream(Write(page, page.streamEl, "answer"))
    ELSE [Write(page, page.streamedBubble, "answer") EXCEPT !.streamedBubble = "answer"]

\* The stream under way, else the one that ended, becomes the answer.
Answer(page) ==
    IF page.streamEl # NoBubble THEN Forget(noStream(Write(page, page.streamEl, "answer")))
    ELSE Forget(Write(page, page.streamedBubble, "answer"))

onMessage(page) == setIdle(Answer(page))

onAborted(page) ==
    setIdle(IF page.streamEl = NoBubble THEN page
            ELSE noStream(Write(page, page.streamEl, "removed")))

\* handleWsMessage of the page.
Handle(page, data) ==
    CASE data = "stream_start" -> onStreamStart(page)
      [] data = "stream_delta" -> onStreamDelta(page)
      [] data = "stream_end"   -> onStreamEnd(page)
      [] data = "intermediate" -> onIntermediate(page)
      [] data = "message"      -> onMessage(page)
      [] data = "aborted"      -> onAborted(page)

HandleAll(page, events) ==
    LET after[k \in 0..Len(events)] ==
            IF k = 0 THEN page ELSE Handle(after[k - 1], events[k])
    IN  after[Len(events)]
=============================================================================
