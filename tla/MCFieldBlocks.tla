--------------------------- MODULE MCFieldBlocks ---------------------------
(* Three pins for TLC: a wire between two, and one that is free. *)
EXTENDS FieldBlocks

FromTo(a, b) == [min |-> a, max |-> b]

\* A range, one that does not begin at zero, a point, and one upside down.
FourRanges == {FromTo(-1, 1), FromTo(1, 4), FromTo(2, 2), FromTo(3, 0)}
Below == -2
Asks == {Below, 0, 2, 3, 7}

Wires == <<2, 1, 3>>
=============================================================================
