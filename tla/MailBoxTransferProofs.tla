----------------------- MODULE MailBoxTransferProofs -----------------------
(***************************************************************************)
(* Theorems about MailBoxTransfer, for any telegrams, block length and     *)
(* length byte: the types; that a finished transfer took this telegram     *)
(* down and this answer up; and that no command overruns the device.       *)
(*                                                                         *)
(* The bits the two sides toggle and the bits each has seen last tell      *)
(* whose turn it is.  While they are in step, what the device has of the   *)
(* telegram and the mailbox of the answer is fixed by the command in the   *)
(* image (Together).  After a restart a reply to the cut-off transfer may  *)
(* put the mailbox one command ahead (Ahead); then the operation in the    *)
(* replies gives it away before it can finish.                             *)
(***************************************************************************)
EXTENDS MailBoxTransfer, SequenceTheorems, SetInduction

-----------------------------------------------------------------------------
(* Types.                                                                  *)

\* Sums of bytes are numbers.
LEMMA CrcType ==
  ASSUME NEW s \in Seq(Nat)
  PROVE  Crc(s) \in Nat
<1> DEFINE step == [p \in Nat \X (1..Len(s)) |-> p[1] + s[p[2]]]
           IsSum(f) == f = [i \in 0..Len(s) |-> IF i = 0 THEN 0 ELSE f[i - 1] + s[i]]
           sum == CHOOSE f : IsSum(f)
           T == {i \in 0..Len(s) : sum[i] \in Nat}
<1>1. Len(s) \in Nat /\ \A i \in 1..Len(s) : s[i] \in Nat
  BY LenProperties
<1>2. PICK f : IsIteration(f, Nat, 0, Len(s), step)
  <2>1. step \in [Nat \X (1..Len(s)) -> Nat] /\ 0 \in Nat
    BY <1>1
  <2> HIDE DEF step
  <2> QED BY <1>1, <2>1, Iterates, Zenon
<1>3. IsSum(f)
  <2>1. f \in [0..Len(s) -> Nat] /\ f[0] = 0
    BY <1>2 DEF IsIteration
  <2>2. ASSUME NEW i \in 1..Len(s) PROVE f[i] = f[i - 1] + s[i]
    <3>1. i - 1 \in 0..Len(s)
      BY <1>1
    <3>2. f[i - 1] \in Nat
      BY <2>1, <3>1
    <3>3. f[i] = step[<<f[i - 1], i>>]
      <4> HIDE DEF step
      <4> QED BY <1>2 DEF IsIteration
    <3> QED BY <3>2, <3>3
  <2>3. \A i \in 0..Len(s) : f[i] = IF i = 0 THEN 0 ELSE f[i - 1] + s[i]
    BY <1>1, <2>1, <2>2
  <2> QED BY <2>1, <2>3
<1>4. IsSum(sum)
  <2> HIDE DEF IsSum
  <2> QED BY <1>3
<1>5. 0 \in T /\ \A i \in 1..Len(s) : i - 1 \in T => i \in T
  <2>1. /\ 0 \in 0..Len(s) => sum[0] = 0
        /\ \A i \in 1..Len(s) : sum[i] = sum[i - 1] + s[i]
    <3> HIDE DEF sum
    <3> QED BY <1>1, <1>4
  <2> HIDE DEF sum
  <2> QED BY <1>1, <2>1
<1>6. Len(s) \in T
  <2> HIDE DEF T
  <2>1. 0..Len(s) \subseteq T
    BY <1>1, <1>5, UpTo
  <2> QED BY <1>1, <2>1
<1> QED BY <1>6 DEF Crc

\* A block of a telegram has its full length.
LEMMA BlockType ==
  ASSUME NEW s \in Seq(Nat), NEW n \in Nat
  PROVE  BlockAt(s, n) \in Block
BY LenProperties DEF BlockAt, Block

\* So have the zeros of an empty command.
LEMMA ZeroType == Zeros \in Block /\ NoCommand \in Command
BY DEF Zeros, Block, NoCommand, Command, Op, Bit

\* The types hold at the start.
LEMMA TypesStart == Init => TypeOK
<1> SUFFICES ASSUME Init PROVE TypeOK
  OBVIOUS
<1>1. in \in Reply
  BY ZeroType DEF Init, Reply, Op, Bit
<1>2. device \in Device
  BY ZeroType DEF Init, Device, Bit
<1>3. <<>> \in Seq(Nat)
  OBVIOUS
<1> QED BY <1>1, <1>2, <1>3, ZeroType DEF Init, TypeOK, Settled, Bit

\* What is written is a command.
LEMMA WriteType ==
  ASSUME TypeOK, NEW c \in Command, Write(c)
  PROVE  out' \in Command /\ faults' \in Nat
<1>1. 1 - out.toggle \in Bit /\ out \in Command /\ faults \in Nat
  BY DEF TypeOK, Command, Bit
<1>2. [c EXCEPT !.toggle = 1 - out.toggle] \in Command
  BY <1>1 DEF Command
<1> QED BY <1>1, <1>2 DEF Write

\* They hold after a call of the communication task.
LEMMA ComTypes ==
  ASSUME TypeOK, Com
  PROVE  TypeOK'
<1> USE DEF Others, Goto, Settled, Waiting
<1>1. CASE StartSend
  <2>1. [NoCommand EXCEPT !.op = "start", !.len = Len(request) % LengthWrap] \in Command
    <3>1. Len(request) % LengthWrap \in Nat
      BY WidthAssumption, LenProperties DEF TypeOK
    <3> QED BY <3>1, ZeroType DEF Command, Op
  <2>2. out' \in Command /\ faults' \in Nat
    BY <1>1, <2>1, WriteType DEF StartSend
  <2> QED BY <1>1, <2>2 DEF StartSend, TypeOK, Reply
<1>2. CASE SendBlock
  <2>1. [NoCommand EXCEPT !.op = "cont", !.block = BlockAt(request, writePos)] \in Command
    BY ZeroType, BlockType DEF TypeOK, NoCommand, Command, Op
  <2>2. out' \in Command /\ faults' \in Nat
    BY <1>2, <2>1, WriteType DEF SendBlock
  <2> QED BY <1>2, <2>2, WidthAssumption DEF SendBlock, TypeOK, Reply
<1>3. CASE SendEnd
  <2>1. [NoCommand EXCEPT !.op = "end", !.crc = Crc(request)] \in Command
    BY ZeroType, CrcType DEF TypeOK, NoCommand, Command, Op
  <2>2. out' \in Command /\ faults' \in Nat
    BY <1>3, <2>1, WriteType DEF SendEnd
  <2> QED BY <1>3, <2>2 DEF SendEnd, TypeOK, Reply
<1>4. CASE StartRead
  <2>1. [NoCommand EXCEPT !.op = "start", !.up = TRUE] \in Command
    BY ZeroType DEF NoCommand, Command, Op
  <2>2. out' \in Command /\ faults' \in Nat
    BY <1>4, <2>1, WriteType DEF StartRead
  <2> QED BY <1>4, <2>2 DEF StartRead, TypeOK, Reply
<1>5. CASE StartRead2
  <2>1. [NoCommand EXCEPT !.op = "cont"] \in Command
    BY ZeroType DEF NoCommand, Command, Op
  <2>2. out' \in Command /\ faults' \in Nat
    BY <1>5, <2>1, WriteType DEF StartRead2
  <2>3. readBuffer' \in Seq(Nat)
    <3>1. in.len \in Nat
      BY DEF TypeOK, Reply
    <3>2. [i \in 1..in.len |-> 0] \in [1..in.len -> Nat]
      OBVIOUS
    <3> QED BY <1>5, <3>1, <3>2 DEF StartRead2
  <2> QED BY <1>5, <2>2, <2>3 DEF StartRead2, TypeOK, Reply
<1>6. CASE ReadBlock
  <2>1. /\ [NoCommand EXCEPT !.op = "cont"] \in Command
        /\ [NoCommand EXCEPT !.op = "end"] \in Command
    BY ZeroType DEF NoCommand, Command, Op
  <2>2. out' \in Command /\ faults' \in Nat
    BY <1>6, <2>1, WriteType DEF ReadBlock
  <2>3. readBuffer' \in Seq(Nat)
    <3>1. \A i \in 1..Len(readBuffer) : readBuffer[i] \in Nat
      BY LenProperties DEF TypeOK
    <3>2. ASSUME NEW i \in 1..Len(readBuffer), i \in (readPos + 1)..(readPos + BlockLen)
          PROVE  in.block[i - readPos] \in Nat
      BY <3>2, WidthAssumption, LenProperties DEF TypeOK, Reply, Block
    <3>3. readBuffer' \in [1..Len(readBuffer) -> Nat]
      BY <1>6, <3>1, <3>2 DEF ReadBlock
    <3>4. Len(readBuffer) \in Nat
      BY LenProperties DEF TypeOK
    <3> QED BY <3>3, <3>4
  <2>4. readPos' \in Nat
    BY <1>6, WidthAssumption DEF ReadBlock, TypeOK
  <2> QED BY <1>6, <2>2, <2>3, <2>4 DEF ReadBlock, TypeOK, Reply
<1>7. CASE StopRead
  BY <1>7 DEF StopRead, TypeOK, Reply
<1>8. CASE Refused
  BY <1>8 DEF Refused, TypeOK, Reply
<1> QED BY <1>1, <1>2, <1>3, <1>4, <1>5, <1>6, <1>7, <1>8 DEF Com

\* The device's side of a reply.
LEMMA RepliesType ==
  ASSUME TypeOK, NEW d \in Device, d.cmd \in Command, NEW fault \in BOOLEAN, NEW len \in Nat,
         NEW block \in Block, NEW crc \in Nat, Replies(d, fault, len, block, crc)
  PROVE  device' \in Device /\ in' \in Reply
<1>1. 1 - in.toggle \in Bit /\ d.cmd.op \in Op
  BY DEF TypeOK, Reply, Command, Bit
<1>2. [d EXCEPT !.busy = FALSE] \in Device
  BY DEF Device
<1> QED BY <1>1, <1>2 DEF Replies, Reply

\* They hold after an answer of the device.
LEMMA AnswerTypes ==
  ASSUME TypeOK, Answer
  PROVE  device' \in Device /\ in' \in Reply /\ fresh' \in BOOLEAN
<1>0. device \in Device /\ device.cmd \in Command /\ device.want \in Nat /\ device.pos \in Nat
      /\ device.got \in Seq(Nat) /\ device.answer \in Seq(Nat) /\ fresh \in BOOLEAN
  BY DEF TypeOK, Device
<1>1. CASE TakesDown
  <2>1. [device EXCEPT !.mode = "down", !.want = device.cmd.len, !.got = <<>>] \in Device
    <3>1. device.cmd.len \in Nat /\ <<>> \in Seq(Nat)
      BY <1>0 DEF Command
    <3> QED BY <1>0, <3>1 DEF Device
  <2> QED BY <1>1, <1>0, <2>1, RepliesType, ZeroType DEF TakesDown, Device
<1>2. CASE TakesBlock
  <2> DEFINE room == device.want - Len(device.got)
             n == IF room < BlockLen THEN room ELSE BlockLen
             piece == [i \in 1..n |-> device.cmd.block[i]]
  <2>1. n \in Int /\ n <= BlockLen
    BY <1>0, WidthAssumption, LenProperties
  <2>2. piece \in Seq(Nat)
    <3>1. \A i \in 1..n : device.cmd.block[i] \in Nat
      BY <1>0, <2>1, WidthAssumption DEF Command, Block
    <3>2. CASE n >= 0 BY <2>1, <3>1, <3>2
    <3>3. CASE n < 0
      <4>1. 1..n = 1..0
        BY <2>1, <3>3
      <4>2. piece = <<>>
        BY <4>1
      <4> QED BY <4>2, EmptySeq
    <3> QED BY <2>1, <3>2, <3>3
  <2>3. [device EXCEPT !.got = @ \o piece] \in Device
    <3> HIDE DEF piece
    <3>1. device.got \o piece \in Seq(Nat)
      BY <1>0, <2>2, ConcatProperties
    <3> QED BY <1>0, <3>1 DEF Device
  <2>4. Replies([device EXCEPT !.got = @ \o piece], FALSE, 0, Zeros, 0) /\ UNCHANGED fresh
    BY <1>2 DEF TakesBlock
  <2> HIDE DEF piece
  <2> QED BY <1>0, <2>3, <2>4, RepliesType, ZeroType DEF Device
<1>3. CASE TakesEnd
  <2>1. PICK a \in Answers :
          Replies([device EXCEPT !.mode = "asked", !.answer = a], FALSE, 0, Zeros, 0)
    BY <1>3 DEF TakesEnd
  <2>2. [device EXCEPT !.mode = "asked", !.answer = a] \in Device
    BY <1>0, TelegramAssumption DEF Device
  <2> QED BY <1>3, <1>0, <2>1, <2>2, RepliesType, ZeroType DEF TakesEnd, Device
<1>4. CASE GivesLength
  <2>1. [device EXCEPT !.mode = "up", !.pos = 0] \in Device
    BY <1>0 DEF Device
  <2> QED BY <1>4, <1>0, <2>1, RepliesType, ZeroType, LenProperties DEF GivesLength, Device
<1>5. CASE GivesBlock
  <2>1. [device EXCEPT !.pos = @ + BlockLen] \in Device
    <3>1. device.pos + BlockLen \in Nat
      BY <1>0, WidthAssumption
    <3> QED BY <1>0, <3>1 DEF Device
  <2> QED BY <1>5, <1>0, <2>1, RepliesType, BlockType DEF GivesBlock, Device
<1>6. CASE GivesEnd
  <2>1. [device EXCEPT !.mode = "none"] \in Device
    BY <1>0 DEF Device
  <2> QED BY <1>6, <1>0, <2>1, RepliesType, ZeroType, CrcType DEF GivesEnd, Device
<1>7. CASE Refuses
  <2>1. [device EXCEPT !.mode = "none"] \in Device
    BY <1>0 DEF Device
  <2> QED BY <1>7, <1>0, <2>1, RepliesType, ZeroType DEF Refuses, Device
<1> QED BY <1>1, <1>2, <1>3, <1>4, <1>5, <1>6, <1>7 DEF Answer

\* Every step keeps them.
LEMMA TypesKept == TypeOK /\ [Next]_vars => TypeOK'
<1> SUFFICES ASSUME TypeOK, [Next]_vars PROVE TypeOK'
  OBVIOUS
<1>1. CASE Com BY <1>1, ComTypes
<1>2. CASE Start
  BY <1>2, TelegramAssumption DEF Start, TypeOK, Settled, Waiting
<1>3. CASE Restart
  BY <1>3 DEF Restart, TypeOK, Settled, Waiting
<1>4. CASE Take
  BY <1>4 DEF Take, TypeOK, Device, Command, mailbox
<1>5. CASE Answer
  BY <1>5, AnswerTypes DEF Answer, TypeOK, mailbox
<1>6. CASE UNCHANGED vars
  BY <1>6 DEF vars, mailbox, TypeOK
<1> QED BY <1>1, <1>2, <1>3, <1>4, <1>5, <1>6 DEF Next

\* Every variable of a transfer has its type in every reachable state: the state
\* machine of MailBox_readwrite, its buffers and positions, and both images.
THEOREM TransferTypes == Spec => []TypeOK
  BY TypesStart, TypesKept, PTL DEF Spec
-----------------------------------------------------------------------------
(* The content of a transfer.                                              *)

Least(a, b) == IF a < b THEN a ELSE b
Fits == Len(request) < LengthWrap

\* s is the first n bytes of t, or all of it.
IsPrefixOf(s, n, t) ==
  Len(s) = Least(n, Len(t)) /\ \A i \in 1..Least(n, Len(t)) : s[i] = t[i]

\* The device has the first n bytes of the telegram, or all of it.
Got(n) ==
  Fits => device.want = Len(request) /\ IsPrefixOf(device.got, n, request)
Delivered == fresh /\ (Fits => device.got = request)

\* s has room for t, and has its first n bytes, or all of it.
Agrees(s, n, t) ==
  Len(s) = Len(t) /\ \A i \in 1..Least(n, Len(s)) : s[i] = t[i]

\* The mailbox has the first n bytes of the answer, or all of it.
ReadSoFar(n) == Agrees(readBuffer, n, device.answer)

\* A command is in the image, and the device has answered all before it.
Before ==
  \/ /\ state = "sending" /\ out.op = "start" /\ ~out.up /\ writePos = 0
     /\ out.len = Len(request) % LengthWrap
  \/ /\ state = "sending" /\ out.op = "cont" /\ device.mode = "down"
     /\ writePos >= BlockLen /\ out.block = BlockAt(request, writePos - BlockLen)
     /\ Got(writePos - BlockLen)
  \/ /\ state = "startRead" /\ out.op = "end" /\ device.mode = "down"
     /\ Fits => device.got = request
  \/ /\ state = "startRead2" /\ out.op = "start" /\ out.up /\ readPos = 0 /\ Delivered
  \/ /\ state = "reading" /\ out.op = "cont" /\ device.mode = "up" /\ Delivered
     /\ device.pos = readPos /\ ReadSoFar(readPos)
  \/ /\ state = "stopRead" /\ out.op = "end" /\ device.mode = "up" /\ Delivered
     /\ readBuffer = device.answer

\* The device has answered it, and did not refuse.
After ==
  \/ state = "sending" /\ device.mode = "down" /\ Got(writePos)
  \/ state = "startRead" /\ Delivered
  \/ /\ state = "startRead2" /\ device.mode = "up" /\ device.pos = 0 /\ Delivered
     /\ readPos = 0 /\ in.len = Len(device.answer)
  \/ /\ state = "reading" /\ device.mode = "up" /\ Delivered
     /\ device.pos = readPos + BlockLen /\ ReadSoFar(readPos)
     /\ in.block = BlockAt(device.answer, readPos)
  \/ state = "stopRead" /\ Delivered /\ readBuffer = device.answer

-----------------------------------------------------------------------------
(* Whose turn it is.                                                       *)

Written == out.toggle # device.seen

\* Mailbox and device are at the same command: it is in the image, the device
\* has taken it, or the device has answered it.
Asked == ~device.busy /\ Written /\ ~Answered /\ Before
AtWork == device.busy /\ ~Written /\ ~Answered /\ device.cmd = out /\ Before
Replied == ~device.busy /\ ~Written /\ Answered /\ (~in.fault => After)
Together == Asked \/ AtWork \/ Replied

\* Nothing is on its way to either side: the mailbox waits for ever.
Stuck == ~device.busy /\ ~Written /\ ~Answered

\* A reply to an earlier transfer comes before the reply to this one, so that
\* the mailbox is a command ahead.
OneTooMany ==
  \/ device.busy /\ Written /\ ~Answered
  \/ ~device.busy /\ Written /\ Answered
  \/ device.busy /\ ~Written /\ Answered

\* The first such reply may be taken for the one to "start", the second one is
\* the real one to "start" and refuted by its operation.
Ahead ==
  /\ OneTooMany
  /\ \/ /\ state = "sending" /\ out.op = "start"
        /\ device.busy /\ ~Written => device.cmd.op = "start"
     \/ /\ (state = "sending" /\ out.op = "cont") \/ state = "startRead"
        /\ IF Answered THEN in.op = "start" ELSE device.cmd.op = "start"

Turn ==
  /\ state \in Waiting => Together \/ Stuck \/ (restarts = 1 /\ Ahead)
  /\ state \notin Waiting =>
       IF restarts = 0 THEN Stuck ELSE ~(device.busy /\ Written)

Follows == Undisturbed => Turn

-----------------------------------------------------------------------------
(* Facts about the parts.                                                  *)

\* How many bytes of a block the device takes of w, when it has g; and the bytes.
Room(w, g) == IF w - Len(g) < BlockLen THEN w - Len(g) ELSE BlockLen
Piece(b, k) == [i \in 1..k |-> b[i]]

\* A block appended to a prefix is a longer prefix.
LEMMA GotMore ==
  ASSUME NEW got \in Seq(Nat), NEW req \in Seq(Nat), NEW n \in Nat, IsPrefixOf(got, n, req)
  PROVE  IsPrefixOf(got \o Piece(BlockAt(req, n), Room(Len(req), got)), n + BlockLen, req)
<1> DEFINE g == Len(got)
           l == Len(req)
           k == Room(l, got)
           piece == Piece(BlockAt(req, n), k)
<1>1. l \in Nat /\ BlockLen \in Nat \ {0}
  BY WidthAssumption, LenProperties
<1>2. g = Least(n, l) /\ \A i \in 1..g : got[i] = req[i]
  BY DEF IsPrefixOf
<1>3. k = IF l - g < BlockLen THEN l - g ELSE BlockLen
  BY DEF Room
<1> HIDE DEF g, l, k
<1>4. g \in Nat /\ k \in 0..BlockLen /\ g + k = Least(n + BlockLen, l)
  BY <1>1, <1>2, <1>3 DEF Least
<1>5. \A i \in 1..k : i \in 1..BlockLen /\ g = n /\ n + i <= l
  BY <1>1, <1>2, <1>3 DEF Least
<1>6. ASSUME NEW i \in 1..k PROVE piece[i] = req[g + i] /\ piece[i] \in Nat
  <2>0. piece[i] = BlockAt(req, n)[i]
    BY DEF Piece
  <2>1. i \in 1..BlockLen /\ g + i \in 1..l
    <3>1. g = n /\ i \in 1..BlockLen /\ n + i <= l
      BY <1>5
    <3> QED BY <1>1, <1>4, <3>1
  <2>2. BlockAt(req, n)[i] = req[g + i]
    BY <1>5, <2>1 DEF BlockAt, l
  <2>3. req[g + i] \in Nat
    BY <2>1, ElementOfSeq DEF l
  <2> QED BY <2>0, <2>2, <2>3
<1>7. piece \in Seq(Nat) /\ Len(piece) = k
  <2>1. k \in Nat /\ DOMAIN piece = 1..k /\ piece = [i \in 1..k |-> piece[i]]
    BY <1>4 DEF Piece
  <2>2. piece \in [1..k -> Nat]
    BY <1>6, <2>1
  <2> HIDE DEF piece
  <2> QED BY <2>1, <2>2
<1> HIDE DEF piece
<1>8. /\ Len(got \o piece) = g + k
      /\ \A i \in 1..g + k : (got \o piece)[i] = IF i <= g THEN got[i] ELSE piece[i - g]
  BY <1>7, ConcatProperties DEF g
<1>9. ASSUME NEW i \in 1..g + k PROVE (got \o piece)[i] = req[i]
  <2>1. CASE i <= g
    BY <1>2, <1>4, <1>8, <2>1
  <2>2. CASE ~(i <= g)
    <3>1. i - g \in 1..k /\ g + (i - g) = i
      BY <1>4, <2>2
    <3>2. piece[i - g] = req[g + (i - g)]
      BY <1>6, <3>1
    <3> QED BY <1>8, <2>2, <3>1, <3>2
  <2> QED BY <2>1, <2>2
<1> QED BY <1>4, <1>8, <1>9 DEF IsPrefixOf, l, k, piece

\* The whole telegram is a prefix of itself.
LEMMA GotAll ==
  ASSUME TypeOK, NEW n \in Nat, n >= Len(request), Got(n), Fits
  PROVE  device.got = request
<1>1. device.got \in Seq(Nat) /\ request \in Seq(Nat) /\ Len(request) \in Nat
  BY LenProperties DEF TypeOK, Device
<1>2. Least(n, Len(request)) = Len(request)
  BY <1>1 DEF Least
<1>3. Len(device.got) = Len(request) /\ \A i \in 1..Len(device.got) : device.got[i] = request[i]
  BY <1>2 DEF Got, IsPrefixOf
<1> QED BY <1>1, <1>3, SeqEqual

-----------------------------------------------------------------------------
(* What the device does to the content.                                    *)

\* The reply to the command in the image says what the command asked for.
LEMMA AnswerContent ==
  ASSUME TypeOK, Answer, device.busy, device.cmd = out, Before
  PROVE  ~in'.fault => After'
<1> SUFFICES ASSUME ~in'.fault PROVE After'
  OBVIOUS
<1>0. /\ UNCHANGED <<state, request, writePos, readBuffer, readPos, out>>
      /\ device \in Device /\ request \in Seq(Nat) /\ writePos \in Nat /\ readPos \in Nat
      /\ Len(request) \in Nat /\ BlockLen \in Nat /\ LengthWrap \in Nat \ {0}
  BY WidthAssumption, LenProperties DEF Answer, mailbox, TypeOK
<1>1. CASE TakesDown
  <2>1. state = "sending" /\ writePos = 0 /\ out.len = Len(request) % LengthWrap
    BY <1>1 DEF TakesDown, Before
  <2>2. device' = [[device EXCEPT !.mode = "down", !.want = device.cmd.len, !.got = <<>>] EXCEPT !.busy = FALSE]
    BY <1>1 DEF TakesDown, Replies
  <2>3. device'.mode = "down" /\ device'.want = out.len /\ device'.got = <<>>
    BY <1>0, <2>2 DEF Device
  <2>4. Got(writePos)'
    <3>1. Len(request) < LengthWrap => Len(request) % LengthWrap = Len(request)
      BY <1>0
    <3>2. Least(0, Len(request)) = 0
      BY <1>0 DEF Least
    <3> QED BY <1>0, <2>1, <2>3, <3>1, <3>2 DEF Got, Fits, IsPrefixOf
  <2> QED BY <1>0, <2>1, <2>3, <2>4 DEF After
<1>2. CASE TakesBlock
  <2>1. /\ state = "sending" /\ writePos >= BlockLen /\ out.block = BlockAt(request, writePos - BlockLen)
        /\ device.mode = "down" /\ Got(writePos - BlockLen)
    BY <1>2 DEF TakesBlock, Before
  <2> DEFINE piece == Piece(out.block, Room(device.want, device.got))
  <2>2. device' = [[device EXCEPT !.got = @ \o piece] EXCEPT !.busy = FALSE]
    BY <1>2 DEF TakesBlock, Replies, Room, Piece
  <2>3. /\ device'.mode = "down" /\ device'.want = device.want
        /\ device'.got = device.got \o piece
    <3> HIDE DEF piece
    <3> QED BY <1>0, <2>1, <2>2 DEF Device
  <2>4. Got(writePos)'
    <3> SUFFICES ASSUME Fits PROVE Got(writePos)'
      BY <1>0 DEF Got, Fits
    <3> DEFINE n == writePos - BlockLen
    <3>1. n \in Nat /\ n + BlockLen = writePos
      BY <1>0, <2>1
    <3>2. /\ device.want = Len(request) /\ IsPrefixOf(device.got, n, request)
          /\ device.got \in Seq(Nat)
      BY <1>0, <2>1 DEF Got, Device
    <3>3. piece = Piece(BlockAt(request, n), Room(Len(request), device.got))
      BY <2>1, <3>2
    <3>4. IsPrefixOf(device.got \o piece, writePos, request)
      <4> HIDE DEF n, piece
      <4>1. IsPrefixOf(device.got \o Piece(BlockAt(request, n), Room(Len(request), device.got)),
                       n + BlockLen, request)
        BY <1>0, <3>1, <3>2, GotMore
      <4> QED BY <3>1, <3>3, <4>1
    <3> HIDE DEF piece
    <3> QED BY <1>0, <2>3, <3>2, <3>4 DEF Got
  <2> HIDE DEF piece
  <2> QED BY <1>0, <2>1, <2>3, <2>4 DEF After
<1>3. CASE TakesEnd
  <2>1. state = "startRead" /\ (Fits => device.got = request)
    BY <1>3 DEF TakesEnd, Before
  <2>2. PICK a \in Answers :
          Replies([device EXCEPT !.mode = "asked", !.answer = a], FALSE, 0, Zeros, 0)
    BY <1>3 DEF TakesEnd
  <2>3. device'.got = device.got
    BY <1>0, <2>2 DEF Replies, Device
  <2>4. fresh'
    BY <1>3 DEF TakesEnd
  <2> QED BY <1>0, <2>1, <2>3, <2>4 DEF After, Delivered, Fits
<1>4. CASE GivesLength
  <2>1. state = "startRead2" /\ readPos = 0 /\ Delivered
    BY <1>4 DEF GivesLength, Before
  <2>2. /\ device'.got = device.got /\ device'.answer = device.answer
        /\ device'.mode = "up" /\ device'.pos = 0
        /\ in'.len = Len(device.answer) /\ UNCHANGED fresh
    BY <1>0, <1>4 DEF GivesLength, Replies, Device
  <2> QED BY <1>0, <2>1, <2>2 DEF After, Delivered, Fits
<1>5. CASE GivesBlock
  <2>1. state = "reading" /\ device.mode = "up" /\ Delivered /\ device.pos = readPos /\ ReadSoFar(readPos)
    BY <1>5 DEF GivesBlock, Before
  <2>2. /\ device'.got = device.got /\ device'.answer = device.answer
        /\ device'.mode = "up" /\ device'.pos = device.pos + BlockLen
        /\ in'.block = BlockAt(device.answer, device.pos) /\ UNCHANGED fresh
    BY <1>0, <1>5, <2>1 DEF GivesBlock, Replies, Device
  <2> QED BY <1>0, <2>1, <2>2 DEF After, Delivered, Fits, ReadSoFar
<1>6. CASE GivesEnd
  <2>1. state = "stopRead" /\ Delivered /\ readBuffer = device.answer
    BY <1>6 DEF GivesEnd, Before
  <2>2. /\ device'.got = device.got /\ device'.answer = device.answer /\ UNCHANGED fresh
    BY <1>0, <1>6 DEF GivesEnd, Replies, Device
  <2> QED BY <1>0, <2>1, <2>2 DEF After, Delivered, Fits
<1>7. CASE Refuses
  BY <1>7 DEF Refuses, Replies
<1> QED BY <1>1, <1>2, <1>3, <1>4, <1>5, <1>6, <1>7 DEF Answer
-----------------------------------------------------------------------------
(* The steps.                                                              *)

\* The command is in the image, with the toggle bit flipped.
Sent(cmd) == out' = [cmd EXCEPT !.toggle = 1 - out.toggle]

\* The toggle bits and counters.
LEMMA Bits ==
  ASSUME TypeOK
  PROVE  /\ out.toggle \in Bit /\ in.toggle \in Bit /\ status \in Bit /\ device.seen \in Bit
         /\ device.busy \in BOOLEAN /\ in.fault \in BOOLEAN
         /\ restarts \in Nat /\ faults \in Nat /\ BlockLen \in Nat \ {0} /\ LengthWrap \in Nat \ {0}
BY WidthAssumption DEF TypeOK, Command, Reply, Device

\* What becomes of whose turn it is when the mailbox writes a command.
LEMMA Commanded ==
  ASSUME TypeOK, NEW cmd \in Command, Write(cmd), Others, status' = in.toggle, Undisturbed'
  PROVE  /\ ~Answered'
         /\ ~device.busy /\ ~Written => Stuck' \/ (~device'.busy /\ Written' /\ Sent(cmd))
         /\ restarts = 1 /\ ~device.busy /\ Written => Stuck'
         /\ restarts = 1 /\ device.busy /\ ~Written => device'.busy /\ Written' /\ Sent(cmd)
<1>1. device' = device /\ in' = in /\ restarts' = restarts
  BY DEF Others
<1>2. ~Answered'
  BY <1>1 DEF Answered
<1>3. CASE out' = [cmd EXCEPT !.toggle = 1 - out.toggle]
  <2>1. out'.toggle = 1 - out.toggle
    BY <1>3 DEF Command
  <2>2. Written' <=> ~Written
    BY <1>1, <2>1, Bits DEF Written, Bit
  <2> QED BY <1>1, <1>2, <1>3, <2>2, Bits DEF Stuck, Sent
<1>4. CASE out' = out /\ faults' = faults + 1
  <2>1. Written' <=> Written
    BY <1>1, <1>4 DEF Written
  <2>2. restarts # 1
    BY <1>1, <1>4, Bits DEF Undisturbed
  <2> QED BY <1>1, <1>2, <2>1, <2>2, Bits DEF Stuck
<1> QED BY <1>3, <1>4 DEF Write

\* The mailbox is at a reply it accepts.
LEMMA AtReply ==
  ASSUME TypeOK, Turn, state \in Waiting, Answered
  PROVE  \/ Replied
         \/ /\ restarts = 1 /\ Ahead
            /\ (~device.busy /\ Written) \/ (device.busy /\ ~Written)
BY Bits DEF Turn, Together, Asked, AtWork, Stuck, Ahead, OneTooMany

\* The first command: a reply to an earlier transfer may still be on its way.
LEMMA StartSendTurn ==
  ASSUME TypeOK, StartSend, Turn, Undisturbed'
  PROVE  Turn'
<1> DEFINE cmd == [NoCommand EXCEPT !.op = "start", !.len = Len(request) % LengthWrap]
<1>1. /\ state = "startSend" /\ state' = "sending" /\ writePos' = 0 /\ status' = in.toggle
      /\ Write(cmd) /\ Others /\ request' = request
      /\ device' = device /\ in' = in /\ restarts' = restarts
  BY DEF StartSend, Goto, Others
<1>2. cmd \in Command
  <2>1. Len(request) % LengthWrap \in Nat
    <3>1. Len(request) \in Nat /\ LengthWrap \in Nat \ {0}
      BY Bits, LenProperties DEF TypeOK
    <3> QED BY <3>1
  <2> QED BY <2>1, ZeroType DEF Command, NoCommand, Op, Bit
<1>3. Sent(cmd) => /\ out'.op = "start" /\ ~out'.up
                   /\ out'.len = Len(request) % LengthWrap
  BY DEF Sent, NoCommand
<1>4. Sent(cmd) => Before'
  BY <1>1, <1>3 DEF Before
<1> HIDE DEF cmd
<1>5. /\ ~Answered'
      /\ ~device.busy /\ ~Written => Stuck' \/ (~device'.busy /\ Written' /\ Sent(cmd))
      /\ restarts = 1 /\ ~device.busy /\ Written => Stuck'
      /\ restarts = 1 /\ device.busy /\ ~Written => device'.busy /\ Written' /\ Sent(cmd)
  BY <1>1, <1>2, Commanded
<1>6. restarts \in {0, 1} /\ (restarts = 0 => Stuck) /\ (restarts = 1 => ~(device.busy /\ Written))
  BY <1>1 DEF Turn, Waiting, Undisturbed
<1>7. ~device.busy /\ ~Written => Turn'
  BY <1>1, <1>4, <1>5 DEF Turn, Waiting, Together, Asked
<1>8. restarts = 1 /\ ~device.busy /\ Written => Turn'
  BY <1>1, <1>5 DEF Turn, Waiting
<1>9. restarts = 1 /\ device.busy /\ ~Written => Turn'
  BY <1>1, <1>3, <1>5 DEF Turn, Waiting, Ahead, OneTooMany
<1> QED BY <1>6, <1>7, <1>8, <1>9 DEF Stuck

\* What is common to the steps that accept a reply and write a command.
LEMMA Onward ==
  ASSUME TypeOK, Turn, Undisturbed', state \in Waiting, Answered, Accepts(Expected), state' \in Waiting,
         NEW cmd \in Command, Write(cmd), Others, status' = in.toggle,
         Replied /\ ~in.fault /\ Sent(cmd) => Before',
         Ahead /\ state = "sending" /\ out.op = "start" /\ Sent(cmd) =>
           (state' = "sending" /\ out'.op = "cont") \/ state' = "startRead"
  PROVE  Turn'
<1>1. /\ ~Answered'
      /\ ~device.busy /\ ~Written => Stuck' \/ (~device'.busy /\ Written' /\ Sent(cmd))
      /\ restarts = 1 /\ ~device.busy /\ Written => Stuck'
      /\ restarts = 1 /\ device.busy /\ ~Written => device'.busy /\ Written' /\ Sent(cmd)
  BY Commanded
<1>2. device' = device /\ in' = in /\ restarts' = restarts /\ ~in.fault /\ in.op = Expected
  BY DEF Others, Accepts
<1>3. CASE Replied
  BY <1>1, <1>2, <1>3 DEF Replied, Turn, Together, Asked
<1>4. CASE restarts = 1 /\ Ahead /\ ~device.busy /\ Written
  BY <1>1, <1>4 DEF Turn
<1>5. CASE restarts = 1 /\ Ahead /\ device.busy /\ ~Written
  <2>1. state = "sending" /\ out.op = "start" /\ device.cmd.op = "start"
    BY <1>2, <1>5 DEF Ahead, Expected
  <2>2. Ahead'
    BY <1>1, <1>2, <1>5, <2>1 DEF Ahead, OneTooMany
  <2> QED BY <1>2, <1>5, <2>2 DEF Turn
<1> QED BY <1>3, <1>4, <1>5, AtReply

\* After a block is sent the device is to have one block more.
LEMMA SendBlockTurn ==
  ASSUME TypeOK, SendBlock, Turn, Undisturbed'
  PROVE  Turn'
<1> DEFINE cmd == [NoCommand EXCEPT !.op = "cont", !.block = BlockAt(request, writePos)]
<1>1. /\ state = "sending" /\ state' = "sending" /\ writePos' = writePos + BlockLen
      /\ status' = in.toggle /\ Write(cmd) /\ Others /\ request' = request /\ device' = device
      /\ Answered /\ Accepts(Expected)
  BY DEF SendBlock, Goto, Others, Accepts, Expected
<1>2. cmd \in Command
  BY BlockType, ZeroType DEF TypeOK, Command, NoCommand, Op, Bit
<1>3. Sent(cmd) => out'.op = "cont" /\ out'.block = BlockAt(request, writePos)
  BY DEF Sent, NoCommand
<1>4. Replied /\ ~in.fault /\ Sent(cmd) => Before'
  <2> SUFFICES ASSUME Replied, ~in.fault, Sent(cmd) PROVE Before'
    OBVIOUS
  <2>1. device.mode = "down" /\ Got(writePos)
    BY <1>1 DEF Replied, After
  <2>2. /\ writePos \in Nat /\ BlockLen \in Nat
        /\ writePos' >= BlockLen /\ writePos' - BlockLen = writePos
    BY <1>1, Bits DEF TypeOK
  <2>3. Got(writePos - BlockLen)'
    <3>1. /\ Fits => device.want = Len(request) /\ IsPrefixOf(device.got, writePos, request)
          /\ Fits' <=> Fits
      BY <1>1, <2>1 DEF Got, Fits
    <3> QED BY <1>1, <2>2, <3>1 DEF Got
  <2> HIDE DEF cmd
  <2> QED BY <1>1, <1>3, <2>1, <2>2, <2>3 DEF Before
<1> HIDE DEF cmd
<1>5. state \in Waiting /\ state' \in Waiting
  BY <1>1 DEF Waiting
<1> QED BY <1>1, <1>2, <1>3, <1>4, <1>5, Onward

\* The end of the telegram is sent when the device has all of it.
LEMMA SendEndTurn ==
  ASSUME TypeOK, SendEnd, Turn, Undisturbed'
  PROVE  Turn'
<1> DEFINE cmd == [NoCommand EXCEPT !.op = "end", !.crc = Crc(request)]
<1>1. /\ state = "sending" /\ state' = "startRead" /\ writePos >= Len(request)
      /\ status' = in.toggle /\ Write(cmd) /\ Others /\ request' = request /\ device' = device
      /\ Answered /\ Accepts(Expected)
  BY DEF SendEnd, Goto, Others, Accepts, Expected
<1>2. cmd \in Command
  BY CrcType, ZeroType DEF TypeOK, Command, NoCommand, Op, Bit
<1>3. Sent(cmd) => out'.op = "end"
  BY DEF Sent, NoCommand
<1>4. Replied /\ ~in.fault /\ Sent(cmd) => Before'
  <2> SUFFICES ASSUME Replied, ~in.fault, Sent(cmd) PROVE Before'
    OBVIOUS
  <2>1. device.mode = "down" /\ Got(writePos) /\ writePos \in Nat
    BY <1>1 DEF Replied, After, TypeOK
  <2>2. Fits => device.got = request
    BY <1>1, <2>1, GotAll
  <2> HIDE DEF cmd
  <2> QED BY <1>1, <1>3, <2>1, <2>2 DEF Before, Fits
<1> HIDE DEF cmd
<1>5. state \in Waiting /\ state' \in Waiting
  BY <1>1 DEF Waiting
<1> QED BY <1>1, <1>2, <1>3, <1>4, <1>5, Onward

\* The answer is asked for when the device has accepted the telegram.
LEMMA StartReadTurn ==
  ASSUME TypeOK, StartRead, Turn, Undisturbed'
  PROVE  Turn'
<1> DEFINE cmd == [NoCommand EXCEPT !.op = "start", !.up = TRUE]
<1>1. /\ state = "startRead" /\ state' = "startRead2" /\ readPos' = 0
      /\ status' = in.toggle /\ Write(cmd) /\ Others /\ request' = request /\ device' = device
      /\ fresh' = fresh /\ Answered /\ Accepts(Expected)
  BY DEF StartRead, Goto, Others, Accepts, Expected
<1>2. cmd \in Command
  BY ZeroType DEF TypeOK, Command, NoCommand, Op, Bit
<1>3. Sent(cmd) => out'.op = "start" /\ out'.up
  BY DEF Sent, NoCommand
<1>4. Replied /\ ~in.fault /\ Sent(cmd) => Before'
  BY <1>1, <1>3 DEF Replied, After, Before, Delivered, Fits
<1> HIDE DEF cmd
<1>5. state \in Waiting /\ state' \in Waiting
  BY <1>1 DEF Waiting
<1> QED BY <1>1, <1>2, <1>3, <1>4, <1>5, Onward

\* The buffer gets the length of the answer, and no byte of it yet.
LEMMA StartRead2Turn ==
  ASSUME TypeOK, StartRead2, Turn, Undisturbed'
  PROVE  Turn'
<1> DEFINE cmd == [NoCommand EXCEPT !.op = "cont"]
<1>1. /\ state = "startRead2" /\ state' = "reading" /\ readPos' = readPos
      /\ readBuffer' = [i \in 1..in.len |-> 0]
      /\ status' = in.toggle /\ Write(cmd) /\ Others /\ request' = request /\ device' = device
      /\ fresh' = fresh /\ Answered /\ Accepts(Expected)
  BY DEF StartRead2, Goto, Others, Accepts, Expected
<1>2. cmd \in Command
  BY ZeroType DEF TypeOK, Command, NoCommand, Op, Bit
<1>3. Sent(cmd) => out'.op = "cont"
  BY DEF Sent, NoCommand
<1>4. Replied /\ ~in.fault /\ Sent(cmd) => Before'
  <2> SUFFICES ASSUME Replied, ~in.fault, Sent(cmd) PROVE Before'
    OBVIOUS
  <2>1. /\ device.mode = "up" /\ device.pos = 0 /\ readPos = 0 /\ Delivered
        /\ in.len = Len(device.answer)
    BY <1>1 DEF Replied, After
  <2>2. ReadSoFar(readPos)'
    <3>1. Len(device.answer) \in Nat
      BY LenProperties DEF TypeOK, Device
    <3>2. Len(readBuffer') = Len(device.answer)
      BY <1>1, <2>1, <3>1
    <3>3. Least(0, Len(readBuffer')) = 0
      BY <3>1, <3>2 DEF Least
    <3> QED BY <1>1, <2>1, <3>2, <3>3 DEF ReadSoFar, Agrees
  <2> HIDE DEF cmd
  <2> QED BY <1>1, <1>3, <2>1, <2>2 DEF Before, Delivered, Fits
<1> HIDE DEF cmd
<1>5. state \in Waiting /\ state' \in Waiting
  BY <1>1 DEF Waiting
<1> QED BY <1>1, <1>2, <1>3, <1>4, <1>5, Onward

\* The buffer with a block filled in behind position pos.
Filled(buf, pos, b) ==
  [i \in 1..Len(buf) |-> IF i \in (pos + 1)..(pos + BlockLen) THEN b[i - pos] ELSE buf[i]]

\* A block read behind a prefix makes a longer prefix.
LEMMA ReadMore ==
  ASSUME NEW buf \in Seq(Nat), NEW ans \in Seq(Nat), NEW pos \in Nat, Agrees(buf, pos, ans)
  PROVE  LET new == Filled(buf, pos, BlockAt(ans, pos))
         IN Agrees(new, pos + BlockLen, ans) /\ (pos + BlockLen >= Len(buf) => new = ans)
<1> DEFINE l == Len(buf)
           new == Filled(buf, pos, BlockAt(ans, pos))
<1>0. /\ new = [i \in 1..Len(buf) |-> IF i \in (pos + 1)..(pos + BlockLen)
                                      THEN BlockAt(ans, pos)[i - pos] ELSE buf[i]]
      /\ \A i \in 1..Least(pos, Len(buf)) : buf[i] = ans[i]
  BY DEF Filled, Agrees
<1> HIDE DEF new
<1>1. l \in Nat /\ l = Len(ans) /\ BlockLen \in Nat \ {0}
  BY LenProperties, WidthAssumption DEF Agrees
<1>2. Len(new) = l /\ DOMAIN new = 1..l
  BY <1>0, <1>1
<1> HIDE DEF l
<1>3. ASSUME NEW i \in 1..Least(pos + BlockLen, l) PROVE i \in 1..l /\ new[i] = ans[i]
  <2>1. i \in 1..l /\ i <= pos + BlockLen
    BY <1>1 DEF Least
  <2>2. CASE i \in (pos + 1)..(pos + BlockLen)
    <3>1. new[i] = BlockAt(ans, pos)[i - pos]
      BY <1>0, <2>1, <2>2 DEF l
    <3>2. i - pos \in 1..BlockLen /\ pos + (i - pos) = i /\ i <= Len(ans)
      BY <1>1, <2>1, <2>2
    <3>3. BlockAt(ans, pos)[i - pos] = ans[i]
      BY <3>2 DEF BlockAt
    <3> QED BY <2>1, <3>1, <3>3
  <2>3. CASE ~(i \in (pos + 1)..(pos + BlockLen))
    <3>1. new[i] = buf[i]
      BY <1>0, <2>1, <2>3 DEF l
    <3>2. i \in 1..Least(pos, l)
      BY <1>1, <2>1, <2>3 DEF Least
    <3> QED BY <1>0, <2>1, <3>1, <3>2 DEF l
  <2> QED BY <2>2, <2>3
<1>4. ASSUME pos + BlockLen >= l PROVE new = ans
  <2>1. Least(pos + BlockLen, l) = l
    BY <1>1, <1>4 DEF Least
  <2>2. \A i \in 1..l : new[i] = ans[i]
    BY <1>3, <2>1
  <2>3. new = [i \in 1..l |-> new[i]]
    BY <1>0, <1>2 DEF l
  <2>4. ans = [i \in 1..l |-> ans[i]]
    BY <1>1
  <2> QED BY <2>2, <2>3, <2>4
<1> QED BY <1>1, <1>2, <1>3, <1>4 DEF Agrees, l, new

\* After a block is read the mailbox has one block more, and at the end all.
LEMMA ReadBlockTurn ==
  ASSUME TypeOK, ReadBlock, Turn, Undisturbed'
  PROVE  Turn'
<1> DEFINE cont == [NoCommand EXCEPT !.op = "cont"]
           end == [NoCommand EXCEPT !.op = "end"]
<1>1. /\ state = "reading" /\ readPos' = readPos + BlockLen
      /\ readBuffer' = Filled(readBuffer, readPos, in.block)
      /\ status' = in.toggle /\ Others /\ request' = request /\ device' = device
      /\ fresh' = fresh /\ Answered /\ Accepts(Expected)
  BY DEF ReadBlock, Goto, Others, Accepts, Expected, Filled
<1>2. cont \in Command /\ end \in Command
  BY ZeroType DEF TypeOK, Command, NoCommand, Op, Bit
<1>3. (Sent(cont) => out'.op = "cont") /\ (Sent(end) => out'.op = "end")
  BY DEF Sent, NoCommand
<1>4. \/ readPos' < Len(readBuffer) /\ Write(cont) /\ state' = "reading"
      \/ readPos' >= Len(readBuffer) /\ Write(end) /\ state' = "stopRead"
  BY DEF ReadBlock, Goto
<1> HIDE DEF cont, end
<1>5. ASSUME Replied, ~in.fault
      PROVE  /\ device'.mode = "up" /\ Delivered' /\ device'.pos = readPos'
             /\ ReadSoFar(readPos)' /\ (readPos' >= Len(readBuffer) => readBuffer' = device'.answer)
  <2>1. /\ device.mode = "up" /\ Delivered /\ device.pos = readPos + BlockLen
        /\ ReadSoFar(readPos) /\ in.block = BlockAt(device.answer, readPos)
    BY <1>1, <1>5 DEF Replied, After
  <2>2. /\ readBuffer \in Seq(Nat) /\ device.answer \in Seq(Nat) /\ readPos \in Nat
        /\ Agrees(readBuffer, readPos, device.answer)
    BY <2>1 DEF TypeOK, Device, ReadSoFar
  <2>3. readBuffer' = Filled(readBuffer, readPos, BlockAt(device.answer, readPos))
    BY <1>1, <2>1
  <2>4. /\ Agrees(readBuffer', readPos + BlockLen, device.answer)
        /\ readPos + BlockLen >= Len(readBuffer) => readBuffer' = device.answer
    BY <2>2, <2>3, ReadMore
  <2> QED BY <1>1, <2>1, <2>2, <2>4 DEF Delivered, Fits, ReadSoFar
<1>6. CASE readPos' < Len(readBuffer) /\ Write(cont) /\ state' = "reading"
  <2>1. Replied /\ ~in.fault /\ Sent(cont) => Before'
    BY <1>3, <1>5, <1>6 DEF Before
  <2>2. state \in Waiting /\ state' \in Waiting
    BY <1>1, <1>6 DEF Waiting
  <2> QED BY <1>1, <1>2, <1>6, <2>1, <2>2, Onward
<1>7. CASE readPos' >= Len(readBuffer) /\ Write(end) /\ state' = "stopRead"
  <2>1. Replied /\ ~in.fault /\ Sent(end) => Before'
    BY <1>3, <1>5, <1>7 DEF Before
  <2>2. state \in Waiting /\ state' \in Waiting
    BY <1>1, <1>7 DEF Waiting
  <2> QED BY <1>1, <1>2, <1>7, <2>1, <2>2, Onward
<1> QED BY <1>4, <1>6, <1>7

\* A transfer that ends leaves nothing on its way, or what a restart left.
LEMMA EndTurn ==
  ASSUME TypeOK, StopRead \/ Refused, Turn, Undisturbed'
  PROVE  Turn'
<1>1. /\ state \in Waiting /\ state' \in Settled /\ status' = in.toggle /\ Answered
      /\ out' = out /\ in' = in /\ device' = device /\ restarts' = restarts
  BY DEF StopRead, Refused, Goto, Others, Settled, Waiting, Accepts
<1>2. state' \notin Waiting
  BY <1>1 DEF Settled, Waiting
<1>3. ~Answered' /\ (Written' <=> Written)
  BY <1>1 DEF Answered, Written
<1>4. CASE Replied
  BY <1>1, <1>2, <1>3, <1>4 DEF Replied, Turn, Stuck
<1>5. CASE restarts = 1 /\ ((~device.busy /\ Written) \/ (device.busy /\ ~Written))
  BY <1>1, <1>2, <1>3, <1>5 DEF Turn
<1> QED BY <1>1, <1>4, <1>5, AtReply

-----------------------------------------------------------------------------
(* The user, the server and the device.                                    *)

\* A user starts: what is on its way stays so.
LEMMA StartTurn ==
  ASSUME TypeOK, Start, Turn
  PROVE  Turn'
BY DEF Start, Turn, Stuck, Written, Answered, Settled, Waiting

\* The server restarts: at most one command or reply is on its way.
LEMMA RestartTurn ==
  ASSUME TypeOK, Restart, Turn, Undisturbed'
  PROVE  Turn'
<1>1. /\ state' = "idle" /\ restarts' = restarts + 1
      /\ UNCHANGED <<status, out, in, device, faults>>
  BY DEF Restart
<1>2. restarts = 0 /\ restarts' = 1
  BY <1>1, Bits DEF Undisturbed
<1>3. ~(device.busy /\ Written)
  BY <1>2 DEF Turn, Together, Asked, AtWork, Replied, Stuck
<1> QED BY <1>1, <1>2, <1>3 DEF Turn, Written, Waiting

\* The device takes the command in the image.
LEMMA TakeTurn ==
  ASSUME TypeOK, Take, Turn, Undisturbed'
  PROVE  Turn'
<1>1. /\ ~device.busy /\ Written
      /\ device' = [device EXCEPT !.seen = out.toggle, !.busy = TRUE, !.cmd = out]
      /\ UNCHANGED <<mailbox, out, in, fresh, faults, restarts>>
  BY DEF Take, Written
<1>2. /\ device'.busy /\ device'.seen = out.toggle /\ device'.cmd = out
      /\ device'.mode = device.mode /\ device'.want = device.want /\ device'.got = device.got
      /\ device'.answer = device.answer /\ device'.pos = device.pos
  BY <1>1 DEF TypeOK, Device
<1>3. ~Written' /\ (Answered' <=> Answered)
  BY <1>1, <1>2 DEF Written, Answered, mailbox
<1>4. Before => Before'
  BY <1>1, <1>2 DEF Before, Got, Delivered, ReadSoFar, Fits, mailbox
<1>5. CASE state \in Waiting
  <2>1. Together => Asked
    BY <1>1 DEF Together, AtWork, Replied
  <2>2. Asked => AtWork'
    BY <1>1, <1>2, <1>3, <1>4 DEF Asked, AtWork
  <2>3. Ahead => Ahead'
    BY <1>1, <1>2, <1>3 DEF Ahead, OneTooMany, mailbox
  <2> QED BY <1>1, <1>5, <2>1, <2>2, <2>3 DEF Turn, Stuck, Together, mailbox
<1>6. CASE state \notin Waiting
  BY <1>1, <1>3, <1>6 DEF Turn, Stuck, mailbox
<1> QED BY <1>5, <1>6

\* The device answers the command it took.
LEMMA AnswerTurns ==
  ASSUME TypeOK, Answer, Turn, Undisturbed'
  PROVE  Turn'
<1>1. /\ device.busy /\ ~device'.busy /\ device'.seen = device.seen
      /\ in'.toggle = 1 - in.toggle /\ in'.op = device.cmd.op
      /\ UNCHANGED <<mailbox, out, faults, restarts>>
  <2>2. device \in Device /\ device.busy /\ UNCHANGED <<mailbox, out, faults, restarts>>
    BY DEF Answer, TypeOK
  <2>3. CASE TakesDown
    BY <2>2, <2>3 DEF TakesDown, Replies, Device
  <2>4. CASE TakesBlock
    <3> DEFINE got == device.got \o Piece(device.cmd.block, Room(device.want, device.got))
    <3>1. /\ device' = [[device EXCEPT !.got = got] EXCEPT !.busy = FALSE]
          /\ in'.toggle = 1 - in.toggle /\ in'.op = device.cmd.op
      BY <2>4 DEF TakesBlock, Replies, Room, Piece
    <3> HIDE DEF got
    <3> QED BY <2>2, <3>1 DEF Device
  <2>5. CASE TakesEnd
    BY <2>2, <2>5 DEF TakesEnd, Replies, Device
  <2>6. CASE GivesLength
    BY <2>2, <2>6 DEF GivesLength, Replies, Device
  <2>7. CASE GivesBlock
    BY <2>2, <2>7 DEF GivesBlock, Replies, Device
  <2>8. CASE GivesEnd
    BY <2>2, <2>8 DEF GivesEnd, Replies, Device
  <2>9. CASE Refuses
    BY <2>2, <2>9 DEF Refuses, Replies, Device
  <2> QED BY <2>2, <2>3, <2>4, <2>5, <2>6, <2>7, <2>8, <2>9 DEF Answer
<1>2. (Written' <=> Written) /\ (Answered' <=> ~Answered)
  BY <1>1, Bits DEF Written, Answered, Bit, mailbox
<1>3. CASE state \in Waiting
  <2>1. Together => AtWork
    BY <1>1 DEF Together, Asked, Replied
  <2>2. AtWork => Replied'
    <3>1. AtWork => (~in'.fault => After')
      BY AnswerContent DEF AtWork
    <3> QED BY <1>1, <1>2, <3>1 DEF AtWork, Replied
  <2>3. Ahead => Ahead' \/ Stuck'
    BY <1>1, <1>2 DEF Ahead, OneTooMany, Stuck, mailbox
  <2> QED BY <1>1, <1>3, <2>1, <2>2, <2>3 DEF Turn, Stuck, Together, mailbox
<1>4. CASE state \notin Waiting
  BY <1>1, <1>4 DEF Turn, Stuck, mailbox
<1> QED BY <1>3, <1>4

\* The inductive invariant holds at the start.
LEMMA FollowsStart == Init => Follows
BY DEF Init, Follows, Turn, Stuck, Written, Answered, Waiting, NoCommand

\* Every step keeps it.
LEMMA FollowsKept ==
  ASSUME TypeOK, Follows, [Next]_vars
  PROVE  Follows'
<1> SUFFICES ASSUME Undisturbed' PROVE Turn'
  BY DEF Follows
<1>1. Undisturbed
  <2>1. /\ restarts' = restarts \/ restarts' = restarts + 1
        /\ faults' = faults \/ faults' = faults + 1
    BY DEF Next, Com, StartSend, SendBlock, SendEnd, StartRead, StartRead2, ReadBlock, StopRead,
           Refused, Write, Others, Start, Restart, Take, Answer, vars
  <2> QED BY <2>1, Bits DEF Undisturbed
<1>2. Turn
  BY <1>1 DEF Follows
<1>3. CASE Com
  BY <1>2, <1>3, StartSendTurn, SendBlockTurn, SendEndTurn, StartReadTurn, StartRead2Turn,
     ReadBlockTurn, EndTurn DEF Com
<1>4. CASE Start \/ Restart \/ Take \/ Answer
  BY <1>2, <1>4, StartTurn, RestartTurn, TakeTurn, AnswerTurns
<1>5. CASE UNCHANGED vars
  BY <1>2, <1>5 DEF vars, mailbox, Turn, Together, Asked, AtWork, Replied, Stuck, Ahead, OneTooMany,
     Written, Answered, Before, After, Got, Delivered, ReadSoFar, Fits
<1> QED BY <1>3, <1>4, <1>5 DEF Next

\* Theorem: mailbox and device are in step, or stuck, or the mailbox is one
\* command ahead of the device after a restart.
THEOREM FollowsKeeps == Spec => []Follows
<1>1. Init => Follows
  BY FollowsStart
<1>2. TypeOK /\ Follows /\ [Next]_vars => Follows'
  BY FollowsKept
<1> QED BY <1>1, <1>2, TransferTypes, PTL DEF Spec

\* The step that finishes a transfer is taken in step with the device.
LEMMA GenuineStep ==
  ASSUME TypeOK, Follows, [Next]_vars, state # "finished", state' = "finished", Undisturbed
  PROVE  /\ fresh /\ readBuffer = device.answer
         /\ Len(request) < LengthWrap => device.got = request
<1>1. StopRead
  BY DEF Next, Com, StartSend, SendBlock, SendEnd, StartRead, StartRead2, ReadBlock, Refused, Goto,
         Start, Restart, Take, Answer, vars, mailbox
<1>2. state = "stopRead" /\ Answered /\ ~in.fault /\ Turn
  BY <1>1 DEF StopRead, Accepts, Follows
<1>3. Replied
  <2>1. state \in Waiting /\ ~Ahead
    BY <1>2 DEF Waiting, Ahead
  <2> QED BY <1>2, <2>1, AtReply
<1> QED BY <1>2, <1>3 DEF Replied, After, Delivered, Fits

\* Theorem: a transfer MailBox_readwrite ends as finished has taken the whole
\* telegram of this call to the device and its whole answer back, also when a
\* restart cut an earlier transfer off (AnswerIsGenuine).
THEOREM Genuine == Spec => AnswerIsGenuine
<1>1. TypeOK /\ Follows /\ [Next]_vars =>
        [state # "finished" /\ state' = "finished" /\ Undisturbed =>
           /\ fresh /\ readBuffer = device.answer
           /\ Len(request) < LengthWrap => device.got = request]_vars
  BY GenuineStep
<1> QED BY <1>1, TransferTypes, FollowsKeeps, PTL DEF Spec, AnswerIsGenuine

\* While the server runs on, the mailbox writes only when nothing is on its way.
LEMMA CommandStep ==
  ASSUME TypeOK, Follows, [Next]_vars, restarts = 0, out' # out
  PROVE  ~device.busy /\ device.seen = out.toggle
<1>1. Turn
  BY DEF Follows, Undisturbed
<1>2. state = "startSend" \/ (state \in Waiting /\ Answered)
  BY DEF Next, Com, StartSend, SendBlock, SendEnd, StartRead, StartRead2, ReadBlock, StopRead,
         Refused, Accepts, Waiting, Start, Restart, Take, Answer, vars, mailbox
<1>3. CASE state = "startSend"
  BY <1>1, <1>3 DEF Turn, Waiting, Stuck, Written
<1>4. CASE state \in Waiting /\ Answered
  BY <1>1, <1>4, AtReply DEF Replied, Written
<1> QED BY <1>2, <1>3, <1>4

\* Theorem: as long as the server runs on, a command is written to the output
\* image only when the device has answered the one before, however many writes
\* of the image fail (OneCommandAtATime).
THEOREM CommandsAlternate == Spec => OneCommandAtATime
<1>1. TypeOK /\ Follows /\ [Next]_vars =>
        [restarts = 0 /\ out' # out => ~device.busy /\ device.seen = out.toggle]_vars
  BY CommandStep
<1> QED BY <1>1, TransferTypes, FollowsKeeps, PTL DEF Spec, OneCommandAtATime
=============================================================================
