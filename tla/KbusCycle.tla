----------------------------- MODULE KbusCycle -----------------------------
(***************************************************************************)
(* The cycle of a bus manager between the clamps, its process image in     *)
(* memory and the field: wagoIPClib's WagoIPCManager and wagoFBKlib's      *)
(* WagoFBKManager.  A database holds one manager (BusManager's checkinit), *)
(* so a behaviour has one of the two.                                      *)
(*                                                                         *)
(* One call of typemethod runs through without another handler of the      *)
(* server in between; it is split into a step for each call of the driver  *)
(* and one for each clamp.  Every call of the driver may fail, with one of *)
(* the codes that the switches behind it list.                             *)
(***************************************************************************)
EXTENDS KbusClamps

CONSTANTS
  Manager,       \* the classes of manager looked at
  DigIn, DigOut, \* first byte of the digital clamps in the two images
  MailBoxByte,   \* where a mailbox lies in the output image
  FieldImages,   \* what the field may show to the inputs
  MaxEvents      \* bound: what happens from outside, in all cycles together

ASSUME CycleAssumption ==
  /\ Manager \subseteq {"IPC", "FBK"}
  /\ DigIn \in Nat /\ DigOut \in Nat /\ MailBoxByte \in 0..Size - 1
  /\ FieldImages \subseteq Image
  /\ MaxEvents \in Nat

VARIABLES
  manager,
  pc, pos,           \* where typemethod is, and its clamp
  write,             \* local of WagoIPCManager's: an output was changed
  actimode,
  error,             \* v_Error is FALSE
  imageIn, imageOut, \* the process image in memory
  fieldIn, fieldOut, \* what the driver reads from and writes to the clamps
  events             \* bounded by MaxEvents

cycle == <<pc, pos, write, actimode, error>>
images == <<imageIn, imageOut>>
context == <<manager, events>>
vars == <<clampVars, context, cycle, images, fieldIn, fieldOut>>

Init ==
  /\ InitClamps
  /\ manager \in Manager
  /\ pc = "idle" /\ pos = 1 /\ write = FALSE
  /\ actimode = FALSE
  /\ error = FALSE
  /\ imageIn = ZeroImage /\ imageOut = ZeroImage
  /\ fieldIn \in FieldImages
  /\ fieldOut = ZeroImage
  /\ events = 0

-----------------------------------------------------------------------------
(* typemethod.                                                             *)

\* The status of the bus is read first; if that fails the cycle is left out.
\* Otherwise the error of the last cycle is forgotten.
ExecuteIPC ==
  /\ manager = "IPC" /\ pc = "idle" /\ actimode
  /\ \/ error' = FALSE /\ pc' = "readInput"
     \/ error' = TRUE /\ UNCHANGED pc
  /\ UNCHANGED <<clampVars, context, pos, write, actimode, images, fieldIn, fieldOut>>

\* The image cannot be read or written: the manager switches itself off.
Stop ==
  /\ error' = TRUE /\ actimode' = FALSE /\ pc' = "idle"
  /\ UNCHANGED <<clampVars, context, pos, write, images, fieldIn, fieldOut>>

ReadInput ==
  /\ pc = "readInput"
  /\ \/ /\ imageIn' = fieldIn /\ pc' = "readOutput"
        /\ UNCHANGED <<clampVars, context, pos, write, actimode, error, imageOut, fieldIn, fieldOut>>
     \/ Stop

\* Slip: the outputs are taken from memory, they were read in an earlier cycle.
ReadOutputCached ==
  /\ pc = "readOutput"
  /\ \/ /\ pc' = "clamps" /\ pos' = 1 /\ write' = FALSE
        /\ UNCHANGED <<clampVars, context, actimode, error, images, fieldIn, fieldOut>>
     \/ Stop

ReadOutput ==
  /\ pc = "readOutput"
  /\ \/ /\ imageOut' = fieldOut /\ pc' = "clamps" /\ pos' = 1 /\ write' = FALSE
        /\ UNCHANGED <<clampVars, context, actimode, error, imageIn, fieldIn, fieldOut>>
     \/ Stop

ExecuteFBK ==
  /\ manager = "FBK" /\ pc = "idle" /\ actimode
  /\ error' = FALSE /\ pc' = "outputs" /\ pos' = 1
  /\ UNCHANGED <<clampVars, context, write, actimode, images, fieldIn, fieldOut>>

\* WagoIPCManager compares the address with the first digital byte, which an
\* analog clamp may have too; WagoFBKManager does not look.
InPlace(c) ==
  \/ manager = "FBK"
  \/ LET first == IF c \in Outputs THEN DigOut ELSE DigIn
     IN IF c \in Digital THEN address[c] >= first ELSE address[c] <= first

\* The clamp the foreach has come to, of those its loop is about.
Turn(c) ==
  /\ c = pos
  /\ pc = "clamps" \/ (pc = "outputs" /\ c \in Outputs) \/ (pc = "inputs" /\ c \notin Outputs)
  /\ pos' = pos + 1
  /\ UNCHANGED <<config, context, pc, actimode, error, imageIn, fieldIn, fieldOut>>

Unchanged == UNCHANGED <<write, imageOut>>

\* Slip: a disabled input keeps its state.
LeaveDisabledGood(c) ==
  Turn(c) /\ ~enabled[c] /\ Fails(c, "disabled") /\ UNCHANGED reading /\ Unchanged

LeaveDisabled(c) == Turn(c) /\ ~enabled[c] /\ LeaveOut(c, "disabled") /\ Unchanged

LeaveMisplaced(c) ==
  Turn(c) /\ enabled[c] /\ ~InPlace(c) /\ LeaveOut(c, "noClamp") /\ Unchanged

\* The two lowest bits of an analog word tell WagoIPCManager that it is bad.
State(c) ==
  IF KindOf[c] = "SI" THEN "unknown"
  ELSE IF KindOf[c] = "AI" /\ manager = "IPC" /\ \E b \in {0, 1} : Fetch(c, imageIn)[1][b] = 1
       THEN "bad"
  ELSE "good"

FeedInput(c) ==
  Turn(c) /\ c \notin Outputs /\ enabled[c] /\ InPlace(c) /\ Read(c, imageIn, State(c)) /\ Unchanged

\* Value_set refuses what is out of range, so an analog value never is here.
FeedOutput(c) ==
  /\ Turn(c) /\ c \in Outputs /\ enabled[c] /\ InPlace(c)
  /\ Read(c, imageOut, "unknown")
  /\ \/ readBackOnly[c] /\ Unchanged
     \/ ~readBackOnly[c] /\ write' = (manager = "IPC") /\ imageOut' = Store(c, imageOut)

\* The foreach passes by the clamps of the other loop of WagoFBKManager.
PassBy ==
  /\ pos \in Clamp
  /\ (pc = "outputs" /\ pos \notin Outputs) \/ (pc = "inputs" /\ pos \in Outputs)
  /\ pos' = pos + 1
  /\ UNCHANGED <<clampVars, context, pc, write, actimode, error, images, fieldIn, fieldOut>>

Visit == (\E c \in Clamp : LeaveDisabled(c) \/ LeaveMisplaced(c) \/ FeedInput(c) \/ FeedOutput(c))
         \/ PassBy

WriteBack ==
  /\ pc = "clamps" /\ pos > NumClamp
  /\ \/ /\ fieldOut' = (IF write THEN imageOut ELSE fieldOut) /\ pc' = "idle"
        /\ UNCHANGED <<clampVars, context, pos, write, actimode, error, images, fieldIn>>
     \/ write /\ Stop

\* Slip: the failure is not reported.
UpdateSilent ==
  /\ pc = "outputs" /\ pos > NumClamp
  /\ pc' = "inputs" /\ pos' = 1
  /\ \/ fieldOut' = imageOut /\ imageIn' = fieldIn
     \/ UNCHANGED <<fieldOut, imageIn>>
  /\ UNCHANGED <<clampVars, context, write, actimode, error, imageOut, fieldIn>>

\* If the update fails the cycle goes on and takes the inputs from the old image.
Update ==
  /\ pc = "outputs" /\ pos > NumClamp
  /\ pc' = "inputs" /\ pos' = 1
  /\ \/ fieldOut' = imageOut /\ imageIn' = fieldIn /\ UNCHANGED error
     \/ error' = TRUE /\ UNCHANGED <<fieldOut, imageIn>>
  /\ UNCHANGED <<clampVars, context, write, actimode, imageOut, fieldIn>>

Return ==
  /\ pc = "inputs" /\ pos > NumClamp
  /\ pc' = "idle"
  /\ UNCHANGED <<clampVars, context, pos, write, actimode, error, images, fieldIn, fieldOut>>

Typemethod == ExecuteIPC \/ ReadInput \/ ReadOutput \/ WriteBack \/ ExecuteFBK \/ Update
              \/ Return \/ Visit

-----------------------------------------------------------------------------
(* Between two cycles: clients, the communication task, the field.  A      *)
(* change of the field during a cycle counts as one before or after it.    *)

Event == events < MaxEvents /\ events' = events + 1 /\ UNCHANGED manager

Client ==
  /\ pc = "idle"
  /\ \/ Event /\ (\E c \in Clamp : Configure(c)) /\ UNCHANGED actimode
     \/ actimode' = ~actimode /\ UNCHANGED <<clampVars, context>>
  /\ UNCHANGED <<pc, pos, write, error, images, fieldIn, fieldOut>>

\* WagoIPCCom reads both images, steps a mailbox and writes the outputs back.
Com ==
  /\ pc = "idle" /\ manager = "IPC" /\ Event
  /\ imageIn' = fieldIn
  /\ \E command \in {fieldOut[MailBoxByte], ZeroByte, [b \in 0..Bits - 1 |-> 1]} :
       imageOut' = [fieldOut EXCEPT ![MailBoxByte] = command]
  /\ fieldOut' = imageOut' \/ UNCHANGED fieldOut
  /\ UNCHANGED <<clampVars, cycle, fieldIn>>

Field ==
  /\ pc = "idle" /\ Event
  /\ fieldIn' \in FieldImages \ {fieldIn}
  /\ UNCHANGED <<clampVars, cycle, images, fieldOut>>

\* The server starts again with empty memory; the driver may have reset the
\* outputs, or may not be there (error).
Restart ==
  /\ Event
  /\ StartClamps
  /\ pc' = "idle" /\ pos' = 1 /\ write' = FALSE
  /\ error' \in {error, TRUE}
  /\ imageIn' = ZeroImage /\ imageOut' = ZeroImage
  /\ fieldOut' \in {fieldOut, ZeroImage}
  /\ UNCHANGED <<actimode, fieldIn>>

Next == Typemethod \/ Client \/ Com \/ Field \/ Restart

Spec == Init /\ [][Next]_vars

-----------------------------------------------------------------------------
(* Properties.                                                             *)

\* Every variable has its type, and every clamp stands for bits of the image.
TypeOK ==
  /\ \A c \in Clamp : Place(c) \subseteq Position
  /\ clampError \in [Clamp -> {"none", "disabled", "noClamp", "exists", "badParam", "notAllowed"}]
  /\ \A c \in Clamp : reading[c].state \in {"unknown", "bad", "good"}
  /\ enabled \in [Clamp -> BOOLEAN] /\ readBackOnly \in [Clamp -> BOOLEAN]
  /\ manager \in Manager /\ events \in 0..MaxEvents
  /\ pc \in {"idle", "readInput", "readOutput", "clamps", "outputs", "inputs"}
  /\ pos \in 1..NumClamp + 1
  /\ write \in BOOLEAN /\ actimode \in BOOLEAN /\ error \in BOOLEAN
  /\ imageIn \in Image /\ imageOut \in Image /\ fieldIn \in Image /\ fieldOut \in Image

\* The outputs a cycle drives, and the bit that one wants at a position.
Drives(c) ==
  c \in Outputs /\ enabled[c] /\ InPlace(c) /\ ~readBackOnly[c]
  /\ (c \in Special => value[c] # <<>>)
Wanted(c, p) == IF c \in Digital THEN value[c] ELSE value[c][p[1] - FirstByte(c) + 1][p[2]]
CycleEnds == WriteBack \/ Return

\* When typemethod returns and neither the manager nor the output shows an
\* error, the value of the output is in the field, unless a later clamp drives
\* the same bit.
OutputsFollow ==
  [][CycleEnds /\ ~error' =>
       \A c \in Outputs :
         clampError'[c] = "none" /\ ~readBackOnly[c] /\ (c \in Special => value[c] # <<>>) =>
           \A p \in Place(c) :
             \/ \E d \in Clamp : d > c /\ Drives(d) /\ p \in Place(d)
             \/ fieldOut'[p[1]][p[2]] = Wanted(c, p)]_vars

\* WagoIPCManager leaves every other bit of the outputs alone: those of disabled
\* and read-back-only outputs and of mailboxes, whatever failed before.
OthersKept ==
  [][CycleEnds /\ manager = "IPC" =>
       \A p \in Position :
         \/ \E c \in Clamp : Drives(c) /\ p \in Place(c)
         \/ fieldOut'[p[1]][p[2]] = fieldOut[p[1]][p[2]]]_vars

\* When typemethod returns and the manager shows no error, a good value is what
\* the field shows at the place of an enabled clamp.
GoodIsField ==
  [][CycleEnds /\ ~error' =>
       \A c \in Clamp : reading[c].state = "good" =>
         enabled[c] /\ reading[c].val = Fetch(c, fieldIn)]_vars

\* An analog output at an odd address drives the byte below it instead of its
\* second one, which the accessors take no notice of.
Below(c) == IF c \in Analog /\ address[c] % 2 = 1 THEN {address[c] - 1} ELSE {}
Inside(c, o) ==
  address[o] < address[c] /\ address[c] + width[c] < address[o] + width[o]

\* A byte output that was moved or widened shares no byte it drives with another
\* one - except into the middle of a wider one, which the accessors do not see,
\* and except for the byte below an odd address.  Without the two exceptions it
\* would say what Clamp.c logs, "this space in the OUTput image is already served
\* by", and would not hold.
Moved(c) == <<address[c], width[c]>>' # <<address[c], width[c]>>
MovesAreClear ==
  [][\A c \in ByteOutputs : Moved(c) =>
       \A o \in ByteOutputs \ {c} :
         (Bytes(c) \cap Bytes(o) \subseteq Below(c) \cup Below(o))' \/ Inside(c, o)']_vars

=============================================================================
