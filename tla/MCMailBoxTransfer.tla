------------------------- MODULE MCMailBoxTransfer -------------------------
(* An instance of MailBoxTransfer for TLC: blocks of 2 bytes in place of 4, *)
(* lengths up to 3 in place of 255.  The last request is too long for them. *)
EXTENDS MailBoxTransfer

SmallRequests == {<<>>, <<1, 0>>, <<0, 0, 1>>, <<1, 0, 0, 0, 0>>}
SmallAnswers == {<<>>, <<0, 2>>, <<2, 1, 0>>}
=============================================================================
