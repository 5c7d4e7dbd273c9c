----------------------------- MODULE MCChannels -----------------------------
(* Instance of Channels: m1 has any text of 0, 1 or TextLength characters and   *)
(* no attachment, m2 a short text and an attachment.                         *)
EXTENDS Channels, SequencesExt

CONSTANTS m1, m2, TextLength

MCTexts == [m \in Message |->
              IF m = m1 THEN UNION {[1..n -> Char] : n \in {0, 1, TextLength}}
              ELSE {<<"x">>}]
MCFiles == [m \in Message |-> IF m = m1 THEN 0 ELSE 1]
=============================================================================
