---------------------------- MODULE FieldBlocks ----------------------------
(***************************************************************************)
(* The driver blocks between a function chart and the field: IOdriverlib's *)
(* AO or DO conveys a setpoint to the field or to a simulation, its AI or  *)
(* DI takes the process value from either, and raspi's gpioOut and gpioIn  *)
(* are the field of the digital ones.  The blocks form a loop, whose field *)
(* is a wire and whose simulation hands back what it is given.             *)
(*                                                                         *)
(* The task list executes each block again and again; the connections of   *)
(* the fb library bring the inputs when a block is executed.  Analog values *)
(* are exact: fractions of whole numbers.  Time stamps are left out.       *)
(***************************************************************************)
EXTENDS Integers

CONSTANTS
  Loops,      \* the loops looked at: "analog", or "gpio" for the digital one
  Setpoints,  \* what the chart may ask of an analog output
  Ranges,     \* the v_Min and v_Max of both analog blocks
  Pin, Wired, \* the pins, and the pin at the other end of the wire of each, or itself
  Pulls,      \* what a client may set v_pullUpDown to
  MaxEvents   \* bound: what clients and restarts do

ASSUME FieldAssumption ==
  /\ Loops \subseteq {"analog", "gpio"}
  /\ Setpoints \subseteq Int
  /\ Ranges \subseteq [min : Int, max : Int]
  /\ Wired \in [Pin -> Pin] /\ \A p \in Pin : Wired[Wired[p]] = p
  /\ Pulls \subseteq Int
  /\ MaxEvents \in Nat

-----------------------------------------------------------------------------
(* Scaling.                                                                *)

\* A fraction; 0 / 0, as the hardware has it, is not a number.
Fraction(n, d) == [num |-> n, den |-> d]
Whole(n) == Fraction(n, 1)
IsNumber(x) == x.den # 0

\* Slip: a setpoint out of range is scaled like any other.
ToFieldUnlimited(sp, r) == Fraction(sp - r.min, r.max - r.min)

\* AO: the range of the setpoint becomes 0.0 .. 1.0.
ToField(sp, r) ==
  IF sp > r.max THEN Whole(1)
  ELSE IF sp < r.min THEN Whole(0)
  ELSE Fraction(sp - r.min, r.max - r.min)

\* Slip: the lower end of the range is forgotten.
FromFieldUnshifted(x, r) ==
  IF x.num > x.den THEN Whole(r.max)
  ELSE IF x.num < 0 THEN Whole(r.min)
  ELSE Fraction(x.num * (r.max - r.min), x.den)

\* AI: 0.0 .. 1.0 becomes the range.  No comparison with what is not a number is
\* true, it is scaled and stays none.
FromField(x, r) ==
  IF IsNumber(x) /\ x.num > x.den THEN Whole(r.max)
  ELSE IF IsNumber(x) /\ x.num < 0 THEN Whole(r.min)
  ELSE Fraction(x.num * (r.max - r.min) + r.min * x.den, x.den)

\* The setpoint, or the end of the range it is beyond.
Limited(sp, r) == IF sp > r.max THEN r.max ELSE IF sp < r.min THEN r.min ELSE sp

-----------------------------------------------------------------------------
VARIABLES
  loop, range,      \* which of the loops; v_Min and v_Max
  sp,               \* v_Sp of AO or DO
  simOut, simIn,    \* v_SimOn of the output and of the input block
  out, simulated,   \* v_Out and v_SimOut
  pv,               \* v_Pv of AI or DI
  pvSwitch, inState, pvState,
                    \* v_PvSwitch, the state of v_InPv and v_SimInPv, that of v_PvPv
  pin, initialized, \* v_pin and v_initialized of gpioOut and gpioIn
  pull, error,      \* v_pullUpDown and v_error of gpioIn
  read,             \* v_output of gpioIn
  mode, level,      \* of the pins: the mode and, as an output, the level
  library,          \* wiringPi is set up in this process
  disturbed,        \* history: the pin of a block may have been set up otherwise since
  events            \* bounded by MaxEvents

chart == <<loop, range, sp, simOut, simIn, pvSwitch, inState>>
gpio == <<pin, initialized, pull, error, read>>
pins == <<mode, level, library, disturbed>>
vars == <<chart, out, simulated, pv, pvState, gpio, pins, events>>

\* The blocks with a pin, and what they use it as.
Block == {"gpioOut", "gpioIn"}
Direction(b) == IF b = "gpioOut" THEN "output" ELSE "input"
Analog == loop = "analog"

\* Slip: a digital output takes the values of an analog one.
AskedOfAny == Setpoints \cup {0, 1}

\* What may be asked of the loop.
Asked == IF Analog THEN Setpoints ELSE {0, 1}

\* The range of the values of a digital loop; the blocks of it have no other.
ZeroOne == [min |-> 0, max |-> 1]

Init ==
  /\ loop \in Loops /\ sp = 0
  /\ range \in (IF Analog THEN Ranges ELSE {ZeroOne})
  /\ simOut = FALSE /\ simIn = FALSE
  /\ out = Whole(0) /\ simulated = Whole(0) /\ pv = Whole(0)
  /\ pvSwitch = TRUE /\ inState = "unknown" /\ pvState = "notSupported"
  /\ pin \in (IF Analog THEN [Block -> {0}] ELSE [Block -> Pin])
  /\ initialized = [b \in Block |-> FALSE]
  /\ pull = 0 /\ error = FALSE /\ read = 0
  /\ mode = [p \in Pin |-> "none"] /\ level = [p \in Pin |-> 0]
  /\ library = TRUE /\ disturbed = [b \in Block |-> FALSE]
  /\ events = 0

-----------------------------------------------------------------------------
(* The blocks of IOdriverlib.                                              *)

\* To one of the two outputs; the other keeps what it had.
Convey(v) ==
  IF simOut THEN simulated' = v /\ UNCHANGED out ELSE out' = v /\ UNCHANGED simulated

\* typemethod of AO and DO.
OutputBlock ==
  /\ Convey(IF Analog THEN ToField(sp, range) ELSE Whole(sp))
  /\ UNCHANGED <<chart, pv, pvState, gpio, pins, events>>

\* What the connections bring: the wire of the analog field ends at the input,
\* that of the digital one at gpioIn.
FromWire == IF simIn THEN simulated ELSE IF Analog THEN out ELSE Whole(read)

\* typemethod of AI and DI.  With PvSwitch the state is that of the PV taken;
\* without it AI has none to give, and DI leaves the one there was.
InputBlock ==
  /\ pv' = (IF Analog THEN FromField(FromWire, range) ELSE FromWire)
  /\ pvState' = (IF pvSwitch THEN inState ELSE IF Analog THEN "notSupported" ELSE pvState)
  /\ UNCHANGED <<chart, out, simulated, gpio, pins, events>>

-----------------------------------------------------------------------------
(* The blocks of raspi.                                                    *)

\* pinMode: whoever else believes to have set up that pin is mistaken now.  The
\* functions of wiringPi do nothing in a process that has not set it up.
PinMode(b) ==
  IF library
  THEN /\ mode' = [mode EXCEPT ![pin[b]] = Direction(b)]
       /\ disturbed' = [a \in Block |-> a # b /\ (disturbed[a] \/ pin[a] = pin[b])]
  ELSE UNCHANGED <<mode, disturbed>>

\* What a pin may read as, given the modes of all; an undriven one as anything,
\* whatever its resistor.
Levels(p, m) ==
  LET Driving == {q \in {p, Wired[p]} : m[q] = "output"}
  IN  IF ~library \/ Driving = {} THEN {0, 1} ELSE {level[q] : q \in Driving}

\* typemethod of gpioOut.
GpioOut ==
  /\ ~Analog
  /\ IF initialized["gpioOut"] THEN UNCHANGED <<mode, disturbed>> ELSE PinMode("gpioOut")
  /\ initialized' = [initialized EXCEPT !["gpioOut"] = TRUE]
  /\ level' = (IF library THEN [level EXCEPT ![pin["gpioOut"]] = out.num] ELSE level)
  /\ UNCHANGED <<chart, out, simulated, pv, pvState, pin, pull, error, read, library,
                 events>>

\* typemethod of gpioIn, which sets the pin up first.
ReadPin ==
  /\ initialized["gpioIn"] \/ pull \in 0..2
  /\ IF initialized["gpioIn"] THEN UNCHANGED <<mode, disturbed>> ELSE PinMode("gpioIn")
  /\ initialized' = [initialized EXCEPT !["gpioIn"] = TRUE]
  /\ read' \in Levels(pin["gpioIn"], mode')
  /\ error' = FALSE
  /\ UNCHANGED pin

\* A resistor there is none of: the pin is an input already, but not read.
RefusePull ==
  /\ ~initialized["gpioIn"] /\ pull \notin 0..2
  /\ PinMode("gpioIn")
  /\ error' = TRUE
  /\ UNCHANGED <<pin, initialized, read>>

GpioIn ==
  /\ ~Analog
  /\ UNCHANGED <<chart, out, simulated, pv, pvState, pull, level, library, events>>
  /\ ReadPin \/ RefusePull

-----------------------------------------------------------------------------
(* Clients and restarts.                                                   *)

Event == events < MaxEvents /\ events' = events + 1

\* A client, or the chart, changes an input of a block.
SetChart ==
  /\ Event
  /\ \/ sp' \in Asked /\ UNCHANGED <<simOut, simIn, pvSwitch, inState>>
     \/ simOut' = ~simOut /\ UNCHANGED <<sp, simIn, pvSwitch, inState>>
     \/ simIn' = ~simIn /\ UNCHANGED <<sp, simOut, pvSwitch, inState>>
     \/ pvSwitch' = ~pvSwitch /\ UNCHANGED <<sp, simOut, simIn, inState>>
     \/ inState' \in {"good", "bad"} /\ UNCHANGED <<sp, simOut, simIn, pvSwitch>>
  /\ UNCHANGED <<loop, range, out, simulated, pv, pvState, gpio, pins>>

\* Slip: the new pin is not set up.
PinSetOnly(b) == UNCHANGED initialized

\* The block sets the pin up when it is executed next.
SetUpAgain(b) == initialized' = [initialized EXCEPT ![b] = FALSE]

\* pin_set of gpioOut and gpioIn.  The pin left behind keeps its mode and level.
PinSet ==
  /\ Event /\ ~Analog
  /\ \E b \in Block : \E p \in Pin : pin' = [pin EXCEPT ![b] = p] /\ SetUpAgain(b)
  /\ UNCHANGED <<chart, out, simulated, pv, pvState, pull, error, read, pins>>

\* v_pullUpDown has no accessor.
PullSet ==
  /\ Event /\ ~Analog
  /\ pull' \in Pulls
  /\ UNCHANGED <<chart, out, simulated, pv, pvState, pin, initialized, error, read, pins>>

\* The constructor of one more block of either class sets wiringPi up.
CreateBlock ==
  /\ Event /\ ~Analog
  /\ library' = TRUE
  /\ UNCHANGED <<chart, out, simulated, pv, pvState, gpio, mode, level, disturbed>>

\* The server starts anew with its database, and perhaps the machine with it, whose
\* pins are no outputs then.  No constructor is called.
Restart ==
  /\ Event /\ ~Analog
  /\ library' = FALSE
  /\ \/ UNCHANGED <<mode, level>>
     \/ mode' = [p \in Pin |-> "none"] /\ level' = [p \in Pin |-> 0]
  /\ disturbed' = [b \in Block |-> TRUE]
  /\ UNCHANGED <<chart, out, simulated, pv, pvState, gpio>>

Next ==
  \/ OutputBlock \/ InputBlock \/ GpioOut \/ GpioIn
  \/ SetChart \/ PinSet \/ PullSet \/ CreateBlock \/ Restart

Spec == Init /\ [][Next]_vars

\* The task list executes the blocks.
Fairness ==
  WF_vars(OutputBlock) /\ WF_vars(InputBlock) /\ WF_vars(GpioOut) /\ WF_vars(GpioIn)

FairSpec == Spec /\ Fairness

-----------------------------------------------------------------------------
(* Properties.                                                             *)

\* The variables have their types.
TypeOK ==
  /\ loop \in Loops /\ range \in Ranges \cup {ZeroOne} /\ sp \in Setpoints \cup {0, 1}
  /\ simOut \in BOOLEAN /\ simIn \in BOOLEAN /\ pvSwitch \in BOOLEAN
  /\ {out, simulated, pv} \subseteq [num : Int, den : Int]
  /\ inState \in {"unknown", "good", "bad"}
  /\ pvState \in {"unknown", "good", "bad", "notSupported"}
  /\ pin \in [Block -> Pin \cup {0}] /\ initialized \in [Block -> BOOLEAN]
  /\ pull \in Pulls \cup {0} /\ error \in BOOLEAN /\ read \in {0, 1}
  /\ mode \in [Pin -> {"none", "output", "input"}] /\ level \in [Pin -> {0, 1}]
  /\ library \in BOOLEAN /\ disturbed \in [Block -> BOOLEAN]
  /\ events \in 0..MaxEvents

\* The field and the simulation get values of 0.0 .. 1.0, except from an analog
\* output whose range is a point: it divides by zero.
OutInRange ==
  \A x \in {out, simulated} :
    \/ IsNumber(x) /\ 0 <= x.num /\ x.num <= x.den
    \/ ~IsNumber(x) /\ range.min = range.max

\* A block that believes its pin set up is right, unless a restart or another block
\* that was given the pin has come since.
PinsReady ==
  \A b \in Block : initialized[b] /\ ~disturbed[b] => mode[pin[b]] = Direction(b)

\* What keeps a loop from closing: its ends are in different modes, the pins are
\* not those of the wire, there is no such resistor, a pin was taken away.
Open ==
  \/ simOut # simIn
  \/ range.min >= range.max
  \/ ~Analog /\ ~simIn /\ \/ pin["gpioIn"] # Wired[pin["gpioOut"]]
                          \/ pull \notin 0..2
                          \/ \E b \in Block : disturbed[b]

\* The process value is the setpoint, limited to the range.
Follows == pv.num = pv.den * Limited(sp, range)

\* Once clients are done the process value is the setpoint, limited to the range:
\* through field or simulation, after any switching between them.
LoopFollows == <>[](Open \/ Follows)
=============================================================================
