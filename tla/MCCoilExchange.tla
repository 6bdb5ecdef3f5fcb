--------------------------- MODULE MCCoilExchange ---------------------------
(* An instance of CoilExchange for TLC: three outputs with a gap, bytes of two *)
(* bits, the first output can be deleted and created again.                    *)
EXTENDS CoilExchange

At013 == <<0, 1, 3>>
=============================================================================
