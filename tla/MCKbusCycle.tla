---------------------------- MODULE MCKbusCycle ----------------------------
(* An instance of KbusCycle for TLC: five clamps, images of six bytes of two *)
(* bits each, the last two bytes digital.                                    *)
EXTENDS KbusCycle

Plant == <<"AO", "SO", "DO", "AI", "DI">>

Low == ZeroByte
High == [b \in 0..Bits - 1 |-> 1]
Mixed == [b \in 0..Bits - 1 |-> b % 2]

\* The outputs may overlap, lie inside one another and in the digital bytes,
\* the digital input in the analog ones.
Addresses == <<{1, 4}, {0, 2}, {5}, {0}, {1, 4}>>
Widths == <<{2}, {1, 4}, {0, 1}, {2}, {0}>>
BitOffsets == <<{0}, {0}, {0, 1, 2}, {0, 1}, {0}>>
OnOrOff == <<{TRUE}, {TRUE}, {TRUE}, BOOLEAN, {TRUE}>>
ReadBack == <<{FALSE}, {FALSE}, BOOLEAN, {FALSE}, {FALSE}>>
Values == <<{<<High, Mixed>>}, {<<High, High, Low, High>>}, {1}, {}, {}>>
TwoFields == {[a \in 0..Size - 1 |-> Mixed], [a \in 0..Size - 1 |-> IF a = 0 THEN Low ELSE High]}
=============================================================================
