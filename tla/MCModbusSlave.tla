--------------------------- MODULE MCModbusSlave ---------------------------
(* Instances of ModbusSlave for TLC: plants of two or three channels, with a *)
(* request limit of 3 items in place of 125 registers or 2000 bits.          *)
EXTENDS ModbusSlave

SmallLimit == [k \in {"AoRI", "AoRO", "DI", "DO"} |-> 3]

TwoRegisters == <<"AoRI", "AoRI">>
ThreeRegisters == <<"AoRI", "AoRI", "AoRI">>
BitsInRegisterOut == <<"DI", "DI", "AoRO">>
RegistersAndCoil == <<"AoRI", "AoRI", "DO">>

\* Channel 2 can lie below, inside, at the edge of and beyond the window that
\* channel 1 opens.
Moving2 == <<{0, 2}, {1, 3}>>
Moving3 == <<{0, 2}, {1}, {2}>>
Fixed3(a, b, c) == <<{a}, {b}, {c}>>
At021 == Fixed3(0, 2, 1)   \* the second channel fills the request
At210 == Fixed3(2, 1, 1)   \* grows downwards
At029 == Fixed3(0, 2, 9)   \* a full request and a channel out of reach

AlwaysOn2 == <<{TRUE}, {TRUE}>>
AlwaysOn3 == <<{TRUE}, {TRUE}, {TRUE}>>
OnOrOff2 == <<BOOLEAN, BOOLEAN>>
OnOrOff3 == <<BOOLEAN, BOOLEAN, BOOLEAN>>

OneUnit2 == <<{1}, {1}>>
OneUnit3 == <<{1}, {1}, {1}>>

\* Two units behind one gateway: no run has them, since RightRegister does not
\* hold for them.
Gateway2 == <<{1}, {2}>>
=============================================================================
