------------------------- MODULE FieldBlocksProofs -------------------------
(***************************************************************************)
(* What holds of the driver blocks for every loop, range, setpoint and     *)
(* wiring: what is conveyed is within 0.0 .. 1.0 and scaled back to the    *)
(* setpoint, pins are set up before they are used.                         *)
(***************************************************************************)
EXTENDS FieldBlocks, TLAPS

-----------------------------------------------------------------------------
(* Scaling.                                                                *)

\* AI undoes what AO does, for every setpoint and every range that has a width.
THEOREM RoundTrip ==
  ASSUME NEW s \in Int, NEW r \in [min : Int, max : Int], r.min < r.max
  PROVE  LET x == FromField(ToField(s, r), r)
         IN  x.den > 0 /\ x.num = x.den * Limited(s, r)
<1>1. CASE s > r.max
  BY <1>1 DEF ToField, FromField, Limited, Whole, Fraction, IsNumber
<1>2. CASE s < r.min
  BY <1>2 DEF ToField, FromField, Limited, Whole, Fraction, IsNumber
<1>3. CASE r.min <= s /\ s <= r.max
  <2> DEFINE n == s - r.min
             d == r.max - r.min
  <2>1. ToField(s, r) = Fraction(n, d) /\ Limited(s, r) = s
    BY <1>3 DEF ToField, Limited
  <2>2. n \in Int /\ d \in Int /\ 0 <= n /\ n <= d /\ d > 0
    BY <1>3
  <2>3. FromField(Fraction(n, d), r) = Fraction(n * d + r.min * d, d)
    BY <2>2 DEF FromField, Fraction, IsNumber, Whole
  <2>4. n * d + r.min * d = d * s
    <3>1. \A a, b, c \in Int : (a - b) * c + b * c = c * a
      OBVIOUS
    <3>. QED BY <3>1, <2>2
  <2>. QED BY <2>1, <2>2, <2>3, <2>4 DEF Fraction
<1>. QED BY <1>1, <1>2, <1>3

\* What AO conveys is a fraction of whole numbers, within 0.0 .. 1.0 if it is one.
LEMMA ToFieldInRange ==
  ASSUME NEW s \in Int, NEW r \in [min : Int, max : Int]
  PROVE  LET x == ToField(s, r)
         IN  /\ x \in [num : Int, den : Int]
             /\ \/ IsNumber(x) /\ 0 <= x.num /\ x.num <= x.den
                \/ ~IsNumber(x) /\ r.min = r.max
BY DEF ToField, Whole, Fraction, IsNumber

LEMMA FromFieldType ==
  ASSUME NEW x \in [num : Int, den : Int], NEW r \in [min : Int, max : Int]
  PROVE  FromField(x, r) \in [num : Int, den : Int]
BY DEF FromField, Whole, Fraction, IsNumber

-----------------------------------------------------------------------------
(* The invariant.                                                          *)

\* A digital loop has pins and conveys nothing but 0 and 1.
Digital ==
  /\ loop = "gpio" => /\ pin \in [Block -> Pin]
                      /\ range = ZeroOne /\ sp \in {0, 1}
                      /\ {out, simulated} \subseteq {Whole(0), Whole(1)}
  /\ loop = "analog" => sp \in Int /\ range \in Ranges /\ initialized = [b \in Block |-> FALSE]

\* Without wiringPi nobody's pin can be set up.
Lost == ~library => \A b \in Block : disturbed[b]

Inv == TypeOK /\ Digital /\ Lost /\ OutInRange /\ PinsReady

LEMMA RangeType == TypeOK => range \in [min : Int, max : Int]
BY FieldAssumption DEF TypeOK, ZeroOne

LEMMA Initially == Init => Inv
<1> SUFFICES ASSUME Init PROVE Inv
  OBVIOUS
<1>1. TypeOK
  <2>1. /\ pin \in [Block -> Pin \cup {0}]
        /\ range \in Ranges \cup {ZeroOne}
    BY DEF Init
  <2>2. {out, simulated, pv} \subseteq [num : Int, den : Int]
    BY DEF Init, Whole, Fraction
  <2>3. /\ initialized \in [Block -> BOOLEAN] /\ disturbed \in [Block -> BOOLEAN]
        /\ mode \in [Pin -> {"none", "output", "input"}] /\ level \in [Pin -> {0, 1}]
    BY DEF Init
  <2>4. events \in 0..MaxEvents /\ sp \in Setpoints \cup {0, 1} /\ pull \in Pulls \cup {0}
    BY FieldAssumption DEF Init
  <2>. QED BY <2>1, <2>2, <2>3, <2>4 DEF Init, TypeOK
<1>2. Digital
  BY FieldAssumption DEF Init, Digital, Analog, Whole, Fraction
<1>3. OutInRange
  BY DEF Init, OutInRange, IsNumber, Whole, Fraction
<1>4. PinsReady
  BY DEF Init, PinsReady
<1>5. Lost
  BY DEF Init, Lost
<1>. QED BY <1>1, <1>2, <1>3, <1>4, <1>5 DEF Inv

\* The output blocks.
LEMMA OutputBlockKeeps == Inv /\ OutputBlock => Inv'
<1> SUFFICES ASSUME Inv, OutputBlock PROVE Inv'
  OBVIOUS
<1> USE DEF Inv, OutputBlock, chart, gpio, pins
<1> DEFINE v == IF Analog THEN ToField(sp, range) ELSE Whole(sp)
<1>1. /\ v \in [num : Int, den : Int]
      /\ \/ IsNumber(v) /\ 0 <= v.num /\ v.num <= v.den
         \/ ~IsNumber(v) /\ range.min = range.max
      /\ ~Analog => v \in {Whole(0), Whole(1)}
  <2>1. CASE Analog
    BY <2>1, ToFieldInRange, RangeType DEF Digital, Analog
  <2>2. CASE ~Analog
    BY <2>2, FieldAssumption DEF Digital, TypeOK, Analog, Whole, Fraction, IsNumber
  <2>. QED BY <2>1, <2>2
<1>2. {out', simulated'} \subseteq {out, simulated, v}
  BY DEF Convey
<1> HIDE DEF v
<1>3. TypeOK'
  BY <1>1, <1>2 DEF TypeOK
<1>4. Digital'
  BY <1>1, <1>2, FieldAssumption DEF Digital, Analog, TypeOK
<1>5. OutInRange'
  BY <1>1, <1>2 DEF OutInRange
<1>6. PinsReady' /\ Lost'
  BY DEF PinsReady, Lost
<1>. QED BY <1>3, <1>4, <1>5, <1>6

\* The input blocks.
LEMMA InputBlockKeeps == Inv /\ InputBlock => Inv'
<1> SUFFICES ASSUME Inv, InputBlock PROVE Inv'
  OBVIOUS
<1> USE DEF Inv, InputBlock, chart, gpio, pins
<1>1. FromWire \in [num : Int, den : Int]
  BY DEF TypeOK, FromWire, Whole, Fraction
<1>2. pv' \in [num : Int, den : Int]
  BY <1>1, FromFieldType, RangeType
<1>3. pvState' \in {"unknown", "good", "bad", "notSupported"}
  BY DEF TypeOK
<1>4. TypeOK'
  BY <1>2, <1>3 DEF TypeOK
<1>5. Digital' /\ Lost' /\ OutInRange' /\ PinsReady'
  BY DEF Digital, Lost, OutInRange, PinsReady
<1>. QED BY <1>4, <1>5

\* Setting up a pin makes it ready for its block and disturbs the others on it.
LEMMA PinModeReady ==
  ASSUME NEW b \in Block, TypeOK, PinsReady, Lost, pin \in [Block -> Pin],
         PinMode(b), UNCHANGED <<pin, library>>,
         \A a \in Block : a # b => initialized'[a] = initialized[a]
  PROVE  PinsReady' /\ Lost' /\ mode' \in [Pin -> {"none", "output", "input"}]
                    /\ disturbed' \in [Block -> BOOLEAN]
<1>1. CASE library
  <2>1. mode' \in [Pin -> {"none", "output", "input"}] /\ mode'[pin[b]] = Direction(b)
    BY <1>1 DEF TypeOK, PinMode, Direction
  <2>2. disturbed' \in [Block -> BOOLEAN]
    BY <1>1 DEF TypeOK, PinMode
  <2>3. ASSUME NEW a \in Block, a # b, ~disturbed'[a], initialized'[a]
        PROVE  mode'[pin[a]] = Direction(a)
    <3>1. ~disturbed[a] /\ pin[a] # pin[b] /\ initialized[a]
      BY <1>1, <2>3 DEF PinMode
    <3>2. mode'[pin[a]] = mode[pin[a]]
      BY <1>1, <3>1 DEF PinMode, TypeOK
    <3>. QED BY <3>1, <3>2 DEF PinsReady
  <2>4. PinsReady'
    <3>1. Direction(b)' = Direction(b) /\ \A a \in Block : Direction(a)' = Direction(a)
      BY DEF Direction
    <3>2. pin' = pin
      OBVIOUS
    <3>. QED BY <2>1, <2>3, <3>1, <3>2 DEF PinsReady, Direction
  <2>5. Lost'
    BY <1>1 DEF Lost
  <2>. QED BY <2>1, <2>2, <2>4, <2>5
<1>2. CASE ~library
  BY <1>2 DEF PinMode, Lost, PinsReady, TypeOK
<1>. QED BY <1>1, <1>2 DEF TypeOK

\* The block that drives a pin.
LEMMA GpioOutKeeps == Inv /\ GpioOut => Inv'
<1> SUFFICES ASSUME Inv, GpioOut PROVE Inv'
  OBVIOUS
<1> USE DEF Inv, GpioOut, chart
<1>0. loop = "gpio" /\ loop # "analog"
  BY FieldAssumption DEF TypeOK, Analog
<1>1. "gpioOut" \in Block /\ pin \in [Block -> Pin] /\ out.num \in {0, 1}
  BY <1>0 DEF Digital, Block, Whole, Fraction
<1>2. /\ PinsReady' /\ Lost'
      /\ mode' \in [Pin -> {"none", "output", "input"}]
      /\ disturbed' \in [Block -> BOOLEAN]
  <2>1. CASE initialized["gpioOut"]
    <3>1. \A b \in Block : initialized'[b] = initialized[b]
      BY <2>1, <1>1 DEF TypeOK
    <3>. QED BY <2>1, <3>1 DEF PinsReady, Lost, TypeOK, Direction
  <2>2. CASE ~initialized["gpioOut"]
    BY <2>2, <1>1, PinModeReady DEF TypeOK
  <2>. QED BY <2>1, <2>2
<1>3. initialized' \in [Block -> BOOLEAN] /\ level' \in [Pin -> {0, 1}]
  BY <1>1 DEF TypeOK
<1>4. TypeOK'
  BY <1>2, <1>3 DEF TypeOK
<1>5. Digital'
  BY <1>0 DEF Digital
<1>6. OutInRange'
  BY DEF OutInRange
<1>. QED BY <1>2, <1>4, <1>5, <1>6

\* The block that reads one.
LEMMA GpioInKeeps == Inv /\ GpioIn => Inv'
<1> SUFFICES ASSUME Inv, GpioIn PROVE Inv'
  OBVIOUS
<1> USE DEF Inv, GpioIn, chart
<1>0. loop = "gpio" /\ loop # "analog"
  BY FieldAssumption DEF TypeOK, Analog
<1>1. "gpioIn" \in Block /\ pin \in [Block -> Pin]
  BY <1>0 DEF Digital, Block
<1>2. pin' = pin /\ initialized' \in [Block -> BOOLEAN] /\ error' \in BOOLEAN
  BY DEF ReadPin, RefusePull, TypeOK
<1>3. /\ PinsReady' /\ Lost'
      /\ mode' \in [Pin -> {"none", "output", "input"}]
      /\ disturbed' \in [Block -> BOOLEAN]
  <2>1. CASE ReadPin /\ initialized["gpioIn"]
    <3>1. \A b \in Block : initialized'[b] = initialized[b]
      BY <2>1, <1>1 DEF TypeOK, ReadPin
    <3>. QED BY <2>1, <3>1, <1>2 DEF PinsReady, Lost, TypeOK, Direction, ReadPin
  <2>2. CASE PinMode("gpioIn")
    <3>1. \A a \in Block : a # "gpioIn" => initialized'[a] = initialized[a]
      BY DEF ReadPin, RefusePull, TypeOK
    <3>. QED BY <2>2, <3>1, <1>1, <1>2, PinModeReady
  <2>. QED BY <2>1, <2>2 DEF ReadPin, RefusePull
<1>4. read' \in {0, 1}
  <2>1. ASSUME NEW p \in Pin, NEW m PROVE Levels(p, m) \subseteq {0, 1}
    BY FieldAssumption DEF Levels, TypeOK
  <2>. QED BY <2>1, <1>1 DEF ReadPin, RefusePull, TypeOK
<1>5. TypeOK'
  BY <1>2, <1>3, <1>4 DEF TypeOK
<1>6. Digital' /\ OutInRange'
  BY <1>0, <1>2 DEF Digital, OutInRange
<1>. QED BY <1>3, <1>5, <1>6

\* A client, the chart, and a restart.
LEMMA EventKeeps == Inv /\ (SetChart \/ PinSet \/ PullSet \/ CreateBlock \/ Restart) => Inv'
<1> USE DEF Inv, chart, gpio, pins
<1>0. Inv /\ Event => events' \in 0..MaxEvents
  BY FieldAssumption DEF Event, TypeOK
<1>1. ASSUME Inv, SetChart PROVE Inv'
  <2>1. sp' \in Setpoints \cup {0, 1} /\ (~Analog => sp' \in {0, 1})
    BY <1>1, FieldAssumption DEF SetChart, Asked, TypeOK, Digital, Analog
  <2>2. /\ simOut' \in BOOLEAN /\ simIn' \in BOOLEAN /\ pvSwitch' \in BOOLEAN
        /\ inState' \in {"unknown", "good", "bad"}
    BY <1>1 DEF SetChart, TypeOK
  <2>4. TypeOK'
    <3>1. events' \in 0..MaxEvents
      BY <1>0, <1>1 DEF SetChart
    <3>. QED BY <3>1, <1>1, <2>1, <2>2 DEF SetChart, TypeOK
  <2>3. Digital'
    BY <1>1, <2>1, FieldAssumption DEF SetChart, Digital, Analog, TypeOK
  <2>. QED BY <1>1, <2>3, <2>4 DEF SetChart, OutInRange, PinsReady, Lost
<1>2. ASSUME Inv, PinSet PROVE Inv'
  <2>0. loop = "gpio" /\ loop # "analog"
    BY <1>2, FieldAssumption DEF PinSet, TypeOK, Analog
  <2>1. PICK b \in Block, p \in Pin : pin' = [pin EXCEPT ![b] = p] /\ SetUpAgain(b)
    BY <1>2 DEF PinSet
  <2>2. TypeOK'
    BY <1>0, <1>2, <2>1 DEF PinSet, TypeOK, SetUpAgain
  <2>3. Digital'
    BY <1>2, <2>0, <2>1 DEF PinSet, Digital
  <2>4. PinsReady'
    BY <1>2, <2>1 DEF PinSet, PinsReady, SetUpAgain, TypeOK, Direction
  <2>. QED BY <1>2, <2>2, <2>3, <2>4 DEF PinSet, OutInRange, Lost
<1>3. ASSUME Inv, PullSet PROVE Inv'
  <2>1. TypeOK'
    BY <1>0, <1>3 DEF PullSet, TypeOK
  <2>. QED BY <1>3, <2>1 DEF PullSet, Digital, Lost, OutInRange, PinsReady
<1>4. ASSUME Inv, CreateBlock PROVE Inv'
  <2>1. TypeOK'
    BY <1>0, <1>4 DEF CreateBlock, TypeOK
  <2>. QED BY <1>4, <2>1 DEF CreateBlock, Digital, Lost, OutInRange, PinsReady
<1>5. ASSUME Inv, Restart PROVE Inv'
  <2>1. TypeOK'
    <3>1. /\ events' \in 0..MaxEvents
          /\ mode' \in [Pin -> {"none", "output", "input"}]
          /\ level' \in [Pin -> {0, 1}]
          /\ disturbed' \in [Block -> BOOLEAN]
      <4>1. events' \in 0..MaxEvents /\ disturbed' \in [Block -> BOOLEAN]
        BY <1>0, <1>5 DEF Restart
      <4>2. mode' = mode \/ mode' = [p \in Pin |-> "none"]
        BY <1>5 DEF Restart
      <4>3. level' = level \/ level' = [p \in Pin |-> 0]
        BY <1>5 DEF Restart
      <4>4. /\ [p \in Pin |-> "none"] \in [Pin -> {"none", "output", "input"}]
            /\ [p \in Pin |-> 0] \in [Pin -> {0, 1}]
        OBVIOUS
      <4>5. mode' \in [Pin -> {"none", "output", "input"}]
        BY <1>5, <4>2, <4>4 DEF TypeOK
      <4>6. level' \in [Pin -> {0, 1}]
        BY <1>5, <4>3, <4>4 DEF TypeOK
      <4>. QED BY <4>1, <4>5, <4>6
    <3>2. library' \in BOOLEAN /\ UNCHANGED <<chart, out, simulated, pv, pvState, gpio>>
      BY <1>5 DEF Restart
    <3>. QED BY <1>5, <3>1, <3>2 DEF TypeOK
  <2>. QED BY <1>5, <2>1 DEF Restart, Digital, Lost, OutInRange, PinsReady
<1>. QED BY <1>1, <1>2, <1>3, <1>4, <1>5

LEMMA Invariance == Spec => []Inv
<1>1. Inv /\ [Next]_vars => Inv'
  <2>1. Inv /\ UNCHANGED vars => Inv'
    BY DEF Inv, vars, chart, gpio, pins, TypeOK, Digital, Lost, OutInRange, PinsReady
  <2>. QED BY <2>1, OutputBlockKeeps, InputBlockKeeps, GpioOutKeeps, GpioInKeeps,
              EventKeeps DEF Next
<1>. QED BY Initially, <1>1, PTL DEF Spec

-----------------------------------------------------------------------------
(* The theorems.                                                           *)

\* The variables keep their types; a digital loop carries nothing but 0 and 1.
THEOREM FieldTypes == Spec => []TypeOK
<1>1. Inv => TypeOK
  BY DEF Inv
<1>. QED BY <1>1, Invariance, PTL

\* Field and simulation get nothing but 0.0 .. 1.0, however a client changes
\* setpoint and modes, unless the range is a point.
THEOREM ConveyedInRange == Spec => []OutInRange
<1>1. Inv => OutInRange
  BY DEF Inv
<1>. QED BY <1>1, Invariance, PTL

\* A block that believes its pin set up is right until a restart or another block
\* changes the pin.
THEOREM PinsSetUp == Spec => []PinsReady
<1>1. Inv => PinsReady
  BY DEF Inv
<1>. QED BY <1>1, Invariance, PTL
=============================================================================
