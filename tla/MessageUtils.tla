---------------------------- MODULE MessageUtils ----------------------------
(***************************************************************************)
(* channels/message-utils.ts: splitMessage, which cuts a long text into     *)
(* chunks a platform accepts.  A text is a sequence of characters: "n" is a *)
(* newline, "b" a space, everything else is ink.  Positions are offsets     *)
(* from 0, as in the code.                                                  *)
(***************************************************************************)
EXTENDS Integers, Sequences, FiniteSetsExt

Blank == {"n", "b"}

\* remaining.lastIndexOf(ch, max) for the text after offset i, -1 if there is none.
LastIndexOf(s, i, ch, max) ==
    Max({k \in 0..max : i + k < Len(s) /\ s[i + k + 1] = ch} \cup {-1})

\* Where the next chunk ends: the last newline, else the last space, unless
\* that would leave the chunk less than half full.
SplitAt(s, i, max) ==
    LET newline == LastIndexOf(s, i, "n", max)
        space   == LastIndexOf(s, i, "b", max)
        tooEarly(k) == k = -1 \/ 2 * k < max
    IN  IF ~tooEarly(newline) THEN newline
        ELSE IF ~tooEarly(space) THEN space
        ELSE max

\* Mutant: the character at the cut is taken for the blank that was looked for.
TrimStartPastCut(s, k) ==
    Min({j \in k..Len(s) : j = Len(s) \/ (j > k /\ s[j + 1] \notin Blank)})

\* slice(splitAt).trimStart(): the first offset from k on that holds ink.
TrimStart(s, k) ==
    Min({j \in k..Len(s) : j = Len(s) \/ s[j + 1] \notin Blank})

splitMessage(s, max) ==
    LET chunksFrom[i \in 0..Len(s)] ==
            IF i = Len(s) THEN <<>>
            ELSE IF Len(s) - i <= max THEN <<SubSeq(s, i + 1, Len(s))>>
            ELSE LET cut == SplitAt(s, i, max)
                 IN  <<SubSeq(s, i + 1, i + cut)>> \o chunksFrom[TrimStart(s, i + cut)]
    IN  IF Len(s) <= max THEN <<s>> ELSE chunksFrom[0]
=============================================================================
