--------------------------- MODULE MCMailBoxQueue ---------------------------
(* Instances of MailBoxQueue for TLC: three or four blocks share a mailbox. *)
EXTENDS MailBoxQueue, TLC

CONSTANTS a, b, c, d

Blocks == {a, b, c}
MoreBlocks == {a, b, c, d}

\* Blocks that may leave without a word, beside patient ones.
Leaving == {a, b}
=============================================================================
