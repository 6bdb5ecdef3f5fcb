----------------------------- MODULE KbusDetect -----------------------------
(***************************************************************************)
(* The automatic detection of clamps: a bus manager deletes its clamps and *)
(* creates one for each channel of the terminals that the driver reports   *)
(* (WagoIPCManager) or the configuration file lists (WagoFBKManager); and  *)
(* the creation of a manager itself (BusManager's checkinit).              *)
(*                                                                         *)
(* A detection is a part of one call of typemethod; it is split into a     *)
(* step for each thing that may fail.  The rest of the cycle is the        *)
(* subject of KbusCycle.                                                   *)
(***************************************************************************)
EXTENDS Integers, Sequences, FiniteSets

CONSTANTS
  Class,     \* the classes of manager looked at
  Racks,     \* the racks each may find: a rack is a sequence of terminals
  MaxFiles   \* files a process may have open (RLIMIT_NOFILE)

(***************************************************************************)
(* The classes of clamps a terminal is given.                              *)
(***************************************************************************)

\* WagoIPCManager looks at the number of the product.
KindIPC(name) ==
  CASE name = 209 -> "DI"
    [] name = 210 -> "DO"
    [] name = 211 -> "DIO"
    [] name \in 401..499 \ {404, 482, 484} -> "AI"
    [] name \in {482, 484} -> "HART"
    [] name \in 501..599 \ {511} -> "AO"
    [] OTHER -> "special"

\* WagoFBKManager looks for these in the article number ("750-6" at its start),
\* and at the format of the entry.
KindFBK(name) ==
  LET article == name[1]
      format == name[2]
  IN CASE article \in {"750-6", "750-404", "750-511", "750-???"} -> "special"
       [] article = "750-4xx" /\ format = "n" -> "DI"
       [] article = "750-5xx" /\ format = "n" -> "DO"
       [] article \in {"750-4", "750-4xx"} /\ format # "n" -> "AI"
       [] article \in {"750-5", "750-5xx"} /\ format # "n" -> "AO"
       [] OTHER -> "none"

Kind(m, t) == IF m = "IPC" THEN KindIPC(t.name) ELSE KindFBK(t.name)

\* The bits of an image that belong to a terminal: a record of its name, its
\* place in the input and in the output image, in bits, and its channels.
Area(t, image) ==
  IF image = "in" THEN t.in..(t.in + t.inSize - 1) ELSE t.out..(t.out + t.outSize - 1)

\* What the hardware guarantees: terminals have areas of their own, an analog
\* channel is a word, the area of a HART terminal is a status word, six bytes
\* of mailbox and, for the inputs, two words.
WellFormed(m, t) ==
  LET kind == Kind(m, t) IN
  /\ kind \in {"AI", "HART", "special"} => t.in % 16 = 0
  /\ kind \in {"AO", "HART", "special"} => t.out % 16 = 0
  /\ kind = "AI" => t.inSize = 16 * t.channels
  /\ kind = "AO" => t.outSize = 16 * t.channels
  /\ kind = "HART" => t.inSize >= 96 /\ t.outSize >= 64

Apart(rack) ==
  \A i, j \in DOMAIN rack : i # j =>
    \A image \in {"in", "out"} : Area(rack[i], image) \cap Area(rack[j], image) = {}

ASSUME DetectAssumption ==
  /\ Class \subseteq {"IPC", "FBK"}
  /\ MaxFiles \in Nat
ASSUME RackAssumption ==
  \A m \in Class : \A rack \in Racks[m] :
    /\ DOMAIN rack = 1..Len(rack) /\ Len(rack) \in Nat
    /\ \A i \in DOMAIN rack :
         /\ {"in", "inSize", "out", "outSize", "channels"} \subseteq DOMAIN rack[i]
         /\ rack[i].in \in Nat /\ rack[i].inSize \in Nat
         /\ rack[i].out \in Nat /\ rack[i].outSize \in Nat
         /\ rack[i].channels \in Nat
         /\ WellFormed(m, rack[i])
    /\ Apart(rack)
    /\ m = "IPC" => rack # <<>>

-----------------------------------------------------------------------------
(* The clamps of one terminal, in the order they are created.  "out" is the *)
(* address in the output image of a mailbox, which has a place in both.     *)

NewClamp(class, byte, bit, width, out) ==
  [class |-> class, byte |-> byte, bit |-> bit, width |-> width, out |-> out]

\* Slip: the address stays that of the first byte.
DigitalClampFirstByte(class, pos, j) ==
  NewClamp(class, pos \div 8, ((pos % 8) + j) % 8, 0, 0)

DigitalClamp(class, pos, j) ==
  NewClamp(class, pos \div 8 + ((pos % 8) + j) \div 8, ((pos % 8) + j) % 8, 0, 0)

\* The width is 2 for WagoIPCManager; WagoFBKManager divides the size of the
\* terminal by its channels, which is the same for words.
WordClamp(class, pos, j) == NewClamp(class, pos \div 8 + 2 * j, 0, 2, 0)

\* A channel gets its share of the bytes, the only one of a terminal without
\* channels all of them.
SpecialClamp(class, pos, size, channels, j) ==
  LET share == IF channels = 0 THEN size \div 8 ELSE (size \div 8) \div channels
  IN NewClamp(class, pos \div 8 + (IF channels = 0 THEN 0 ELSE j * share), 0, share, 0)

\* The loop for special clamps runs at least once.
Rounds(t) == IF t.channels = 0 THEN 1 ELSE t.channels

\* Each round creates an input, an output or both.
SpecialClamps(t) ==
  LET rounds == Rounds(t)
      input(j) == SpecialClamp("SI", t.in, t.inSize, t.channels, j)
      output(j) == SpecialClamp("SO", t.out, t.outSize, t.channels, j)
  IN CASE t.inSize > 0 /\ t.outSize > 0 ->
            [k \in 1..2 * rounds |->
               IF k % 2 = 1 THEN input(k \div 2) ELSE output(k \div 2 - 1)]
       [] t.inSize > 0 /\ t.outSize = 0 -> [k \in 1..rounds |-> input(k - 1)]
       [] t.inSize = 0 /\ t.outSize > 0 -> [k \in 1..rounds |-> output(k - 1)]
       [] OTHER -> <<>>

\* A HART terminal: a mailbox behind the status word, and two inputs.
HartClamps(t) ==
  [k \in 1..3 |->
     IF k = 1 THEN NewClamp("MailBox", t.in \div 8 + 2, 0, 6, t.out \div 8 + 2)
     ELSE WordClamp("HARTAI", t.in + 64, k - 2)]

\* Inputs before outputs.
MixedClamps(t) ==
  [k \in 1..t.inSize + t.outSize |->
     IF k <= t.inSize THEN DigitalClamp("DI", t.in, k - 1)
     ELSE DigitalClamp("DO", t.out, k - t.inSize - 1)]

ClampsOf(m, t) ==
  LET kind == Kind(m, t) IN
  CASE kind = "DI"  -> [k \in 1..t.inSize |-> DigitalClamp("DI", t.in, k - 1)]
    [] kind = "DO"  -> [k \in 1..t.outSize |-> DigitalClamp("DO", t.out, k - 1)]
    [] kind = "DIO" -> MixedClamps(t)
    [] kind = "AI"  -> [k \in 1..t.channels |-> WordClamp("AI", t.in, k - 1)]
    [] kind = "AO"  -> [k \in 1..t.channels |-> WordClamp("AO", t.out, k - 1)]
    [] kind = "HART" -> HartClamps(t)
    [] kind = "special" -> SpecialClamps(t)
    [] OTHER -> <<>>

-----------------------------------------------------------------------------
VARIABLES
  manager,     \* managers of each class in the database
  rack,        \* what is plugged in
  seen,        \* what the last detection read
  clamps,      \* clamps of the manager
  com,         \* it has a WagoIPCCom named "com"
  autodetect,
  error,       \* v_ErrorCode; v_Error is FALSE unless it is "none"
  number,      \* v_nrDI, v_nrDO, v_nrAI, v_nrAO and v_nrSP of WagoFBKManager
  files,       \* files the process has open
  pc, at, nr,  \* where typemethod is: its terminal and the clamp of it
  hartCount    \* local of WagoIPCManager's

place == <<pc, at, nr, hartCount>>
vars == <<manager, rack, seen, clamps, com, autodetect, error, number, files, place>>

\* The class whose manager works.
Managed == {m \in Class : manager[m] > 0}
IPC == "IPC" \in Managed
FBK == "FBK" \in Managed

NoClamps == [c \in {"DI", "DO", "AI", "AO", "SP"} |-> 0]

Init ==
  /\ manager = [m \in Class |-> 0]
  /\ rack = <<>> /\ seen = <<>>
  /\ clamps = {} /\ com = FALSE
  /\ autodetect = FALSE /\ error = "none"
  /\ number = NoClamps
  /\ files = 0
  /\ pc = "idle" /\ at = 1 /\ nr = 1 /\ hartCount = 0

-----------------------------------------------------------------------------
(* What happens between the cycles.                                        *)

\* Slip: only managers of the same class are looked for.
CheckInitOwnClass(instances) == \A m \in Class : instances[m] <= 1

\* The manager that is checked is itself one of the instances.
CheckInit(instances) ==
  /\ \A m \in Class : instances[m] <= 1
  /\ \A m, n \in Class : instances[m] > 0 /\ instances[n] > 0 => m = n

\* One that does not pass is not created.
CreateManager ==
  /\ pc = "idle"
  /\ \E m \in Class :
       /\ CheckInit([manager EXCEPT ![m] = @ + 1])
       /\ manager' = [manager EXCEPT ![m] = @ + 1]
       /\ rack' \in Racks[m]
  /\ UNCHANGED <<seen, clamps, com, autodetect, error, number, files, place>>

\* With its children.
DeleteManager ==
  /\ pc = "idle"
  /\ \E m \in Managed : manager' = [manager EXCEPT ![m] = @ - 1]
  /\ clamps' = {} /\ com' = FALSE /\ autodetect' = FALSE /\ error' = "none"
  /\ number' = NoClamps /\ seen' = <<>> /\ rack' = <<>>
  /\ UNCHANGED <<files, place>>

\* A client asks for a detection.
Ask ==
  /\ pc = "idle" /\ Managed # {} /\ ~autodetect
  /\ autodetect' = TRUE
  /\ UNCHANGED <<manager, rack, seen, clamps, com, error, number, files, place>>

\* A client deletes the com block.
DeleteCom ==
  /\ pc = "idle" /\ com
  /\ com' = FALSE
  /\ UNCHANGED <<manager, rack, seen, clamps, autodetect, error, number, files, place>>

\* The machine is switched off between two cycles, or the server has crashed;
\* terminals may be plugged in and out before the server runs again.  The
\* database persists.
Restart ==
  /\ pc \in {"idle", "crashed"}
  /\ \E m \in Managed : rack' \in Racks[m]
  /\ files' = 0 /\ pc' = "idle"
  /\ UNCHANGED <<manager, seen, clamps, com, autodetect, error, number, at, nr, hartCount>>

\* The same in the middle of a detection.  A clamp that has been created but not
\* placed yet is disabled (the last thing set is Enabled), so it has no bits, and
\* the next detection deletes it with the others: it is not in clamps.
PowerFails ==
  /\ pc \in {"terminal", "clamp"}
  /\ \E m \in Managed : rack' \in Racks[m]
  /\ files' = 0 /\ pc' = "idle"
  /\ UNCHANGED <<manager, seen, clamps, com, autodetect, error, number, at, nr, hartCount>>

-----------------------------------------------------------------------------
(* typemethod.                                                             *)

\* No clamp is detected, the error of the cycle before is forgotten.
ExecuteWithout ==
  /\ pc = "idle" /\ Managed # {} /\ ~autodetect
  /\ error' = "none"
  /\ UNCHANGED <<manager, rack, seen, clamps, com, autodetect, number, files, place>>

\* Slip: what was counted by the last detection stays.
ResetNumbersNever == number' = number

ResetNumbers == number' = IF FBK THEN NoClamps ELSE number

\* The order of the clamps below the manager is that of their creation.
Older(c, d) == c.at < d.at \/ (c.at = d.at /\ c.nr < d.nr)

\* The return after which nothing is tried again.
GiveUp == autodetect' = FALSE /\ error' = "autodetect" /\ pc' = "idle"

\* A clamp cannot be deleted; those before it have been.
DeletionFails ==
  /\ pc = "idle" /\ autodetect
  /\ ResetNumbers
  /\ \E c \in clamps : clamps' = {d \in clamps : ~Older(d, c)}
  /\ GiveUp
  /\ UNCHANGED <<manager, rack, seen, com, files, at, nr, hartCount>>

\* WagoFBKManager cannot open the configuration file, always so if the process
\* has no descriptor left.  The detection stays asked for.
OpenFails ==
  /\ pc = "idle" /\ autodetect /\ FBK
  /\ ResetNumbers /\ clamps' = {}
  /\ error' = "autodetect"
  /\ UNCHANGED <<manager, rack, seen, com, autodetect, files, place>>

\* Slip: a loop over the children stops at the com block.
DeleteUpToCom == clamps' = IF com THEN clamps ELSE {}

\* What is not a clamp is skipped.
DeleteClamps == clamps' = {}

\* The clamps are deleted and the terminals about to be read.  Nothing closes
\* the file again.
Execute ==
  /\ pc = "idle" /\ autodetect
  /\ FBK => files < MaxFiles
  /\ files' = IF FBK THEN files + 1 ELSE files
  /\ ResetNumbers /\ DeleteClamps
  /\ error' = "none"
  /\ seen' = rack
  /\ pc' = "terminal" /\ at' = 1 /\ nr' = 1 /\ hartCount' = 0
  /\ UNCHANGED <<manager, rack, com, autodetect>>

\* The number that the turn of a clamp adds to: digital clamps and the channels
\* of special ones are counted one by one, before they are created.
Adds(t, clamp) ==
  CASE clamp.class \in {"DI", "DO"} -> clamp.class
    [] clamp.class = "SI" \/ (clamp.class = "SO" /\ t.inSize = 0) -> "SP"
    [] OTHER -> "none"

Count(what, n) ==
  number' = IF FBK /\ what # "none" THEN [number EXCEPT ![what] = @ + n] ELSE number

TheManager == CHOOSE m \in Managed : TRUE
Terminal == seen[at]
Clamps == ClampsOf(TheManager, Terminal)

\* The channels of an analog terminal are counted at once, and the channel of
\* a special one that has no bytes in either image.
ReadTerminal ==
  /\ pc = "terminal" /\ at \in DOMAIN seen
  /\ LET kind == Kind(TheManager, Terminal) IN
       CASE kind \in {"AI", "AO"} -> Count(kind, Terminal.channels)
         [] kind = "special" /\ Clamps = <<>> -> Count("SP", Rounds(Terminal))
         [] OTHER -> Count("none", 0)
  /\ pc' = "clamp" /\ nr' = 1
  /\ UNCHANGED <<manager, rack, seen, clamps, com, autodetect, error, files, at, hartCount>>

\* WagoIPCManager's kbus_checkerr: the next cycle tries again.
ReadFails ==
  /\ pc = "terminal" /\ at \in DOMAIN seen /\ IPC
  /\ error' = "bus" /\ pc' = "idle"
  /\ UNCHANGED <<manager, rack, seen, clamps, com, autodetect, number, files, at, nr, hartCount>>

\* Slip: a mailbox is numbered before it is counted.
SlotBefore == hartCount

\* v_slot of a mailbox: hartCount, counted up just before.
Slot == hartCount + 1

\* The next clamp of the terminal.  An input of a HART terminal is linked to
\* the mailbox created last, whose slot is kept with it; other clamps have none.
CreateClamp ==
  /\ pc = "clamp" /\ nr \in DOMAIN Clamps
  /\ LET clamp == Clamps[nr]
         box == clamp.class = "MailBox"
     IN /\ clamps' = clamps \cup
             {[at |-> at, nr |-> nr, shape |-> clamp,
               slot |-> CASE box -> Slot
                          [] clamp.class = "HARTAI" -> hartCount
                          [] OTHER -> 0]}
        /\ hartCount' = IF box THEN hartCount + 1 ELSE hartCount
        /\ Count(Adds(Terminal, clamp), 1)
  /\ nr' = nr + 1
  /\ UNCHANGED <<manager, rack, seen, com, autodetect, error, files, pc, at>>

CreationFails ==
  /\ pc = "clamp" /\ nr \in DOMAIN Clamps
  /\ Count(Adds(Terminal, Clamps[nr]), 1)
  /\ GiveUp
  /\ UNCHANGED <<manager, rack, seen, clamps, com, files, at, nr, hartCount>>

NextTerminal ==
  /\ pc = "clamp" /\ nr \notin DOMAIN Clamps
  /\ pc' = "terminal" /\ at' = at + 1
  /\ UNCHANGED <<manager, rack, seen, clamps, com, autodetect, error, number, files, nr, hartCount>>

\* Slip: the detection stays asked for.
DoneStillOn == pc' = "idle" /\ UNCHANGED autodetect

Done == pc' = "idle" /\ autodetect' = FALSE

\* WagoFBKManager's loop takes a line that cannot be read for the end of the file:
\* the detection is done, without an error, and the terminals from there on have
\* no clamps.
ReadBreaksOff ==
  /\ pc = "terminal" /\ at \in DOMAIN seen /\ FBK
  /\ Done
  /\ UNCHANGED <<manager, rack, seen, clamps, com, error, number, files, at, nr, hartCount>>

\* Slip: the com block is not looked for.
ComFoundNever == FALSE

\* The com block is looked for, but only if there are HART terminals.
ComFound == com /\ hartCount > 0

\* No terminal is left.  WagoIPCManager creates its com block if it found none.
Finish ==
  /\ pc = "terminal" /\ at \notin DOMAIN seen
  /\ FBK \/ ComFound \/ ~com
  /\ com' = (com \/ IPC)
  /\ Done
  /\ UNCHANGED <<manager, rack, seen, clamps, error, number, files, at, nr, hartCount>>

\* The com block cannot be created, its name is taken or there is no memory for
\* it: this is logged, then v_cycInterval is written through the NULL pointer.
Crash ==
  /\ pc = "terminal" /\ at \notin DOMAIN seen /\ IPC
  /\ ~ComFound
  /\ pc' = "crashed"
  /\ UNCHANGED <<manager, rack, seen, clamps, com, autodetect, error, number, files, at, nr, hartCount>>

-----------------------------------------------------------------------------
Detection ==
  \/ Execute \/ ReadTerminal \/ ReadFails \/ CreateClamp \/ CreationFails
  \/ NextTerminal \/ ReadBreaksOff \/ Finish \/ Crash
Next ==
  \/ CreateManager \/ DeleteManager \/ Ask \/ DeleteCom \/ Restart \/ PowerFails
  \/ ExecuteWithout \/ DeletionFails \/ OpenFails \/ Detection

Spec == Init /\ [][Next]_vars

\* The server runs the manager, and neither the file nor a terminal fails every
\* time it is tried.  Creating may fail, that ends a detection.
Fairness ==
  /\ SF_vars(Execute)
  /\ \A i \in UNION {UNION {DOMAIN r : r \in Racks[m]} : m \in Class} :
       SF_vars(ReadTerminal /\ at = i)
  /\ WF_vars(CreateClamp \/ CreationFails)
  /\ WF_vars(NextTerminal)
  /\ WF_vars(Finish \/ Crash)

FairSpec == Spec /\ Fairness

-----------------------------------------------------------------------------
(* Properties.                                                             *)

\* The bits of an image that a clamp exchanges with it (KbusClamps): analog
\* clamps index the image as words.
BitsOf(shape, image) ==
  LET inputs == image = "in"
      bytes(first, n) == 8 * first..8 * (first + n) - 1
      word == 2 * (shape.byte \div 2)
  IN CASE shape.class = (IF inputs THEN "DI" ELSE "DO") -> {8 * shape.byte + shape.bit}
       [] inputs /\ shape.class \in {"AI", "HARTAI"} -> bytes(word, 2)
       [] ~inputs /\ shape.class = "AO" -> bytes(word, 2)
       [] shape.class = (IF inputs THEN "SI" ELSE "SO") -> bytes(shape.byte, shape.width)
       [] shape.class = "MailBox" -> bytes(IF inputs THEN shape.byte ELSE shape.out, shape.width)
       [] OTHER -> {}

Shape == [class : {"DI", "DO", "AI", "AO", "SI", "SO", "HARTAI", "MailBox"},
          byte : Nat, bit : 0..7, width : Nat, out : Nat]

\* The variables have their types; there is never more than one manager, of
\* whatever class (BusManager's checkinit).
TypeOK ==
  /\ manager \in [Class -> {0, 1}] /\ (\A m, n \in Managed : m = n)
  /\ clamps \subseteq [at : Nat, nr : Nat, shape : Shape, slot : Nat]
  /\ com \in BOOLEAN /\ autodetect \in BOOLEAN
  /\ error \in {"none", "autodetect", "bus"}
  /\ number \in [{"DI", "DO", "AI", "AO", "SP"} -> Nat]
  /\ files \in 0..MaxFiles
  /\ pc \in {"idle", "terminal", "clamp", "crashed"}
  /\ at \in Nat /\ nr \in Nat /\ hartCount \in Nat

\* Whenever and wherever a detection fails, no two clamps share a bit of an
\* image: what one clamp writes or reads is never another one's value.
ClampsApart ==
  \A c, d \in clamps : c # d =>
    \A image \in {"in", "out"} : BitsOf(c.shape, image) \cap BitsOf(d.shape, image) = {}

\* Each clamp stays within the area of its terminal.  Nothing in the code compares
\* a place with the size of an image: that a cycle (KbusCycle's PlaceAssumption)
\* stays in the image rests on this.
ClampsInside ==
  \A c \in clamps : /\ c.at \in DOMAIN seen
                    /\ \A image \in {"in", "out"} :
                         BitsOf(c.shape, image) \subseteq Area(seen[c.at], image)

\* Every clamp has bits of its own, those of its terminal.
ClampsPlaced == ClampsApart /\ ClampsInside

\* The bits of a terminal that carry values: all, without the status words of a
\* HART terminal and what nobody knows how to divide.  That of a terminal which no
\* branch of WagoFBKManager is about ("none") is its whole area.
ValueBits(m, t, image) ==
  LET kind == Kind(m, t)
      inputs == image = "in"
  IN CASE kind \in {"DI", "AI"} /\ inputs -> Area(t, image)
       [] kind \in {"DO", "AO"} /\ ~inputs -> Area(t, image)
       [] kind \in {"DIO", "special", "none"} -> Area(t, image)
       [] kind = "HART" -> IF inputs THEN t.in + 16..t.in + 95 ELSE t.out + 16..t.out + 63
       [] OTHER -> {}

\* The step in which a detection ends and reports no error.
Succeeds == autodetect /\ ~autodetect' /\ pc # "idle" /\ pc' = "idle" /\ error' = "none"

\* Every bit of terminal i, as it is plugged in now, that carries a value belongs
\* to one of the clamps in made.
HasClamps(i, made) ==
  \A image \in {"in", "out"} :
    ValueBits(TheManager, rack[i], image) \subseteq UNION {BitsOf(c.shape, image) : c \in made}

\* What WagoFBKManager leaves out without an error: terminals from a line on that
\* could not be read, and those whose article no branch is about.
LeftOut(i) == FBK /\ (i >= at \/ Kind("FBK", rack[i]) = "none")

\* A detection that ends without an error has created the clamps of the whole rack
\* as it is now, but for what WagoFBKManager leaves out silently.  That leaves
\* nothing out with WagoIPCManager, and no terminal of a known article when
\* the file could be read to its end (at is then behind the rack).
AllCovered == [][Succeeds => \A i \in DOMAIN rack : LeftOut(i) \/ HasClamps(i, clamps')]_vars

\* The clamps of a class.
Made(class) == {c \in clamps : c.shape.class = class}

\* After it the mailboxes have the slots 1, 2, ..., each HART input asks the
\* mailbox of its own terminal (WagoIPCCom addresses a card by the slot), and
\* WagoFBKManager's numbers are those of its clamps, however often a detection
\* has been tried before.
NumbersMatch ==
  [][Succeeds =>
       /\ {c.slot : c \in Made("MailBox")'} = 1..Cardinality(Made("MailBox")')
       /\ \A c \in Made("HARTAI")' : \E b \in Made("MailBox")' : b.at = c.at /\ b.slot = c.slot
       /\ FBK => \A class \in {"DI", "DO", "AI", "AO"} :
                  number'[class] = Cardinality(Made(class)')]_vars

\* With a HART terminal in the rack a detection can be repeated: if the server
\* crashes although there is a com block, there is none.
RepeatsWithHart ==
  pc = "crashed" /\ com => \A i \in DOMAIN seen : Kind(TheManager, seen[i]) # "HART"

\* A detection that is asked for ends, and is not begun again, unless the server
\* crashes or has no file descriptor left, or the power fails in it again and again.
DetectionEnds ==
  []<>(~autodetect \/ pc = "crashed" \/ files = MaxFiles) \/ []<><<PowerFails>>_vars
=============================================================================
