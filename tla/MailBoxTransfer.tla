-------------------------- MODULE MailBoxTransfer --------------------------
(***************************************************************************)
(* One telegram and its answer through the mailbox of a KBus clamp:        *)
(* kbuslib's MailBox_readwrite, driven by wagoIPClib's WagoIPCCom against  *)
(* the process image and the firmware of the clamp.                        *)
(*                                                                         *)
(* A command in the output image (PAA) is new when its toggle bit has      *)
(* flipped, and so is the reply in the input image (PAE).  A telegram goes *)
(* down in blocks, the answer comes up in blocks, and each direction ends  *)
(* with a sum of its bytes.  One call of WagoIPCCom's typemethod is one    *)
(* action: it reads the image, takes one step and writes the image back.   *)
(* The write may fail after the step was taken.  A call that cannot read   *)
(* the image, or that finds no new reply, changes nothing.                 *)
(***************************************************************************)
EXTENDS Integers, Sequences

CONSTANTS
  Requests,      \* telegrams the users of the mailbox may send
  Answers,       \* telegrams the device may answer with
  BlockLen,      \* bytes of a block (4)
  LengthWrap,    \* values of the one byte that holds a length (256)
  MaxFaults,     \* bound on failing writes of the process image
  MaxRestarts    \* bound on restarts of the server

ASSUME TelegramAssumption ==
  /\ Requests \subseteq Seq(Nat)
  /\ Answers \subseteq {s \in Seq(Nat) : Len(s) < LengthWrap}
ASSUME WidthAssumption ==
  /\ BlockLen \in Nat \ {0}
  /\ LengthWrap \in Nat \ {0}
ASSUME EnvAssumption == MaxFaults \in Nat /\ MaxRestarts \in Nat

Settled == {"idle", "finished", "errorState"}
Waiting == {"sending", "startRead", "startRead2", "reading", "stopRead"}
Bit == {0, 1}
Op == {"none", "start", "cont", "end"}

VARIABLES
  state,        \* v_state; "stopSend" is never entered
  request,      \* v_writeBuffer
  writePos,
  readBuffer,
  readPos,
  status,       \* the toggle bit of StatusByte: the last reply seen
  out,          \* the mailbox's bytes of the output image, as last written
  in,           \* the mailbox's bytes of the input image
  device,       \* the firmware
  fresh,        \* history: the device took this telegram since it was started
  faults, restarts   \* counters of the bounds

mailbox == <<state, request, writePos, readBuffer, readPos, status>>
vars == <<mailbox, out, in, device, fresh, faults, restarts>>

Block == [1..BlockLen -> Nat]
Zeros == [i \in 1..BlockLen |-> 0]
Command == [op : Op, toggle : Bit, up : BOOLEAN, len : Nat, block : Block, crc : Nat]
Reply == [op : Op, toggle : Bit, fault : BOOLEAN, len : Nat, block : Block, crc : Nat]
Device == [seen : Bit, busy : BOOLEAN, cmd : Command, mode : {"none", "down", "asked", "up"},
           want : Nat, got : Seq(Nat), answer : Seq(Nat), pos : Nat]

\* Slips: the bytes of a block in reverse; the last block is shorter.
BlockReversed(s, pos) ==
  [i \in 1..BlockLen |-> LET j == pos + BlockLen + 1 - i
                         IN IF j <= Len(s) THEN s[j] ELSE 0]
BlockUnpadded(s, pos) ==
  SubSeq(s, pos + 1, IF pos + BlockLen <= Len(s) THEN pos + BlockLen ELSE Len(s))

\* The block of s behind position pos, filled up with zeros.
BlockAt(s, pos) ==
  [i \in 1..BlockLen |-> IF pos + i <= Len(s) THEN s[pos + i] ELSE 0]

\* Both sides add up the bytes.  The sum of 255 bytes does not wrap 32 bits.
Crc(s) ==
  LET sum[i \in 0..Len(s)] == IF i = 0 THEN 0 ELSE sum[i - 1] + s[i] IN sum[Len(s)]

NoCommand == [op |-> "none", toggle |-> 0, up |-> FALSE, len |-> 0, block |-> Zeros, crc |-> 0]

Init ==
  /\ state = "idle"
  /\ request = <<>>
  /\ writePos = 0
  /\ readBuffer = <<>>
  /\ readPos = 0
  /\ status = 0
  /\ out = NoCommand
  /\ in = [op |-> "none", toggle |-> 0, fault |-> FALSE, len |-> 0, block |-> Zeros, crc |-> 0]
  /\ device = [seen |-> 0, busy |-> FALSE, cmd |-> NoCommand, mode |-> "none",
               want |-> 0, got |-> <<>>, answer |-> <<>>, pos |-> 0]
  /\ fresh = FALSE
  /\ faults = 0
  /\ restarts = 0

-----------------------------------------------------------------------------
(* readwrite, and the write of the image behind it.                        *)

\* Slip: the echo of the operation is taken for the reply.
AnsweredByEcho == in.op = out.op

\* The toggle bit tells that the device has answered the last command.
Answered == in.toggle # status

Accepts(op) == Answered /\ in.op = op /\ ~in.fault

\* The toggle bit is flipped in the image that was read back from the bus.  If
\* the write fails the command is lost, although the mailbox has moved on.
Write(cmd) ==
  \/ out' = [cmd EXCEPT !.toggle = 1 - out.toggle] /\ UNCHANGED faults
  \/ faults < MaxFaults /\ faults' = faults + 1 /\ UNCHANGED out

Goto(s) == state' = s /\ status' = in.toggle

Others == UNCHANGED <<in, device, fresh, restarts>>

StartSend ==
  /\ state = "startSend"
  /\ writePos' = 0
  /\ Write([NoCommand EXCEPT !.op = "start", !.len = Len(request) % LengthWrap])
  /\ Goto("sending")
  /\ UNCHANGED <<request, readBuffer, readPos>> /\ Others

SendBlock ==
  /\ state = "sending" /\ Accepts(out.op)
  /\ writePos < Len(request)
  /\ Write([NoCommand EXCEPT !.op = "cont", !.block = BlockAt(request, writePos)])
  /\ writePos' = writePos + BlockLen
  /\ Goto("sending")
  /\ UNCHANGED <<request, readBuffer, readPos>> /\ Others

\* Slip: the toggle bit is not flipped with the last command.
SendEndSilent ==
  /\ state = "sending" /\ Accepts(out.op)
  /\ writePos >= Len(request)
  /\ out' = [NoCommand EXCEPT !.op = "end", !.crc = Crc(request), !.toggle = out.toggle]
  /\ Goto("startRead")
  /\ UNCHANGED <<request, writePos, readBuffer, readPos, faults>> /\ Others

SendEnd ==
  /\ state = "sending" /\ Accepts(out.op)
  /\ writePos >= Len(request)
  /\ Write([NoCommand EXCEPT !.op = "end", !.crc = Crc(request)])
  /\ Goto("startRead")
  /\ UNCHANGED <<request, writePos, readBuffer, readPos>> /\ Others

StartRead ==
  /\ state = "startRead" /\ Accepts("end")
  /\ readPos' = 0
  /\ Write([NoCommand EXCEPT !.op = "start", !.up = TRUE])
  /\ Goto("startRead2")
  /\ UNCHANGED <<request, writePos, readBuffer>> /\ Others

\* The new bytes of the buffer are not set yet; all are before they are used.
StartRead2 ==
  /\ state = "startRead2" /\ Accepts(out.op)
  /\ readBuffer' = [i \in 1..in.len |-> 0]
  /\ Write([NoCommand EXCEPT !.op = "cont"])
  /\ Goto("reading")
  /\ UNCHANGED <<request, writePos, readPos>> /\ Others

ReadBlock ==
  /\ state = "reading" /\ Accepts(out.op)
  /\ readBuffer' = [i \in 1..Len(readBuffer) |->
                      IF i \in (readPos + 1)..(readPos + BlockLen)
                      THEN in.block[i - readPos] ELSE readBuffer[i]]
  /\ readPos' = readPos + BlockLen
  /\ \/ /\ readPos' < Len(readBuffer)
        /\ Write([NoCommand EXCEPT !.op = "cont"])
        /\ Goto("reading")
     \/ /\ readPos' >= Len(readBuffer)
        /\ Write([NoCommand EXCEPT !.op = "end"])
        /\ Goto("stopRead")
  /\ UNCHANGED <<request, writePos>> /\ Others

StopRead ==
  /\ state = "stopRead" /\ Accepts("end")
  /\ Goto(IF in.crc = Crc(readBuffer) THEN "finished" ELSE "errorState")
  /\ UNCHANGED <<request, writePos, readBuffer, readPos, out, faults>> /\ Others

\* A reply with another operation or with an error ends the transfer.
Expected == IF state \in {"startRead", "stopRead"} THEN "end" ELSE out.op

Refused ==
  /\ state \in Waiting
  /\ Answered /\ ~Accepts(Expected)
  /\ Goto("errorState")
  /\ UNCHANGED <<request, writePos, readBuffer, readPos, out, faults>> /\ Others

Com == StartSend \/ SendBlock \/ SendEnd \/ StartRead \/ StartRead2 \/ ReadBlock
       \/ StopRead \/ Refused

-----------------------------------------------------------------------------
(* The user of the mailbox and the server.                                 *)

\* A user fills the write buffer and starts, once the last transfer is settled.
Start ==
  /\ state \in Settled
  /\ request' \in Requests
  /\ state' = "startSend"
  /\ fresh' = FALSE
  /\ UNCHANGED <<writePos, readBuffer, readPos, status, out, in, device, faults, restarts>>

\* startup empties the buffers and sets the state; positions, the status byte
\* and the process image stay as they are.
Restart ==
  /\ restarts < MaxRestarts /\ restarts' = restarts + 1
  /\ state' = "idle"
  /\ request' = <<>>
  /\ readBuffer' = <<>>
  /\ UNCHANGED <<writePos, readPos, status, out, in, device, fresh, faults>>

-----------------------------------------------------------------------------
(* The firmware of the clamp, as far as readwrite relies on it.            *)

Take ==
  /\ ~device.busy /\ out.toggle # device.seen
  /\ device' = [device EXCEPT !.seen = out.toggle, !.busy = TRUE, !.cmd = out]
  /\ UNCHANGED <<mailbox, out, in, fresh, faults, restarts>>

\* What the device knows and replies after a command.
Replies(d, fault, len, block, crc) ==
  /\ device' = [d EXCEPT !.busy = FALSE]
  /\ in' = [op |-> d.cmd.op, toggle |-> 1 - in.toggle, fault |-> fault,
            len |-> len, block |-> block, crc |-> crc]

TakesDown ==
  /\ device.cmd.op = "start" /\ ~device.cmd.up
  /\ Replies([device EXCEPT !.mode = "down", !.want = device.cmd.len, !.got = <<>>],
             FALSE, 0, Zeros, 0)
  /\ UNCHANGED fresh

TakesBlock ==
  /\ device.cmd.op = "cont" /\ device.mode = "down"
  /\ LET room == device.want - Len(device.got)
         n == IF room < BlockLen THEN room ELSE BlockLen
     IN Replies([device EXCEPT !.got = @ \o [i \in 1..n |-> device.cmd.block[i]]],
                FALSE, 0, Zeros, 0)
  /\ UNCHANGED fresh

TakesEnd ==
  /\ device.cmd.op = "end" /\ device.mode = "down"
  /\ Len(device.got) = device.want /\ device.cmd.crc = Crc(device.got)
  /\ \E a \in Answers :
        Replies([device EXCEPT !.mode = "asked", !.answer = a], FALSE, 0, Zeros, 0)
  /\ fresh' = TRUE

GivesLength ==
  /\ device.cmd.op = "start" /\ device.cmd.up /\ device.mode = "asked"
  /\ Replies([device EXCEPT !.mode = "up", !.pos = 0], FALSE, Len(device.answer), Zeros, 0)
  /\ UNCHANGED fresh

GivesBlock ==
  /\ device.cmd.op = "cont" /\ device.mode = "up"
  /\ Replies([device EXCEPT !.pos = @ + BlockLen], FALSE, 0,
             BlockAt(device.answer, device.pos), 0)
  /\ UNCHANGED fresh

GivesEnd ==
  /\ device.cmd.op = "end" /\ device.mode = "up"
  /\ Replies([device EXCEPT !.mode = "none"], FALSE, 0, Zeros, Crc(device.answer))
  /\ UNCHANGED fresh

\* The device may refuse any command, and refuses what does not fit.
Refuses ==
  /\ Replies([device EXCEPT !.mode = "none"], TRUE, 0, Zeros, 0)
  /\ UNCHANGED fresh

Answer ==
  /\ device.busy
  /\ TakesDown \/ TakesBlock \/ TakesEnd \/ GivesLength \/ GivesBlock \/ GivesEnd \/ Refuses
  /\ UNCHANGED <<mailbox, out, faults, restarts>>

Next == Com \/ Start \/ Restart \/ Take \/ Answer

Spec == Init /\ [][Next]_vars

-----------------------------------------------------------------------------
(* Properties.                                                             *)

\* Every variable has its type; a block always has its full length.
TypeOK ==
  /\ state \in Settled \cup Waiting \cup {"startSend"}
  /\ request \in Seq(Nat)
  /\ writePos \in Nat
  /\ readBuffer \in Seq(Nat)
  /\ readPos \in Nat
  /\ status \in Bit
  /\ out \in Command
  /\ in \in Reply
  /\ device \in Device
  /\ fresh \in BOOLEAN
  /\ faults \in Nat
  /\ restarts \in Nat

\* The server ran on, or restarted once and no write was lost.  More than that
\* and replies to an earlier transfer may pass for replies to this one.
Undisturbed == restarts = 0 \/ (restarts = 1 /\ faults = 0)

\* A finished transfer has taken the whole telegram to the device and the whole
\* answer back, of this call and no earlier one - also when a restart cut an
\* earlier transfer off and late replies to it are still to come.  Of a telegram
\* too long for the length byte the device may take the head for the whole, if
\* the rest adds up to nothing.
AnswerIsGenuine ==
  [][state # "finished" /\ state' = "finished" /\ Undisturbed =>
       /\ fresh /\ readBuffer = device.answer
       /\ Len(request) < LengthWrap => device.got = request]_vars

\* As long as the server runs, a command is only written while the device has
\* taken and answered the one before: none is overwritten, and no flip of the
\* toggle bit undoes another one the device has not seen.
OneCommandAtATime ==
  [][restarts = 0 /\ out' # out => ~device.busy /\ device.seen = out.toggle]_vars

\* The communication task is called again and again, and the device takes and
\* answers commands.
Fairness == WF_vars(Com) /\ WF_vars(Take) /\ WF_vars(Answer)

FairSpec == Spec /\ Fairness

\* A transfer ends, well or with an error, whatever the device replies - unless
\* a write of the process image was lost or the server restarted.
TransferEnds ==
  state = "startSend" ~> state \in Settled \/ faults > 0 \/ restarts > 0

=============================================================================
