# rte_field in TLA+

rte_field is a set of libraries for the ACPLT/OV runtime environment (acplt/rte) that
connect function blocks to field devices: Modbus/TCP slaves, WAGO KBus clamps,
mailboxes of HART clamps, and the pins of a Raspberry Pi. This directory holds TLA+
specifications of that code, the TLC configurations that check them, and TLAPS proofs.

## 1. Inventory

All of it runs in one OV server, a single thread: a task list calls the `typemethod`
of function blocks in turn, communication tasks and channel callbacks run between
them, and clients set variables through accessors (`*_set`) between them as well.
One call excludes all others, so the hard behaviours are not data races but what
happens *between* two calls: late answers, reconfiguration, timeouts, a restart. Objects
and their links live in the OV database and survive a restart; static variables of C
files do not. The OV core, fb, ksbase, TCPbind, the KBus driver and wiringPi are not
part of the repository and are modelled only by how this code uses them.

| component | state | operations | hard behaviour |
|---|---|---|---|
| `modbusTcpLib` Slave, IOChannel, Request, RequestDispatcher | requests in flight, channel chains, connection, error flags, a static id counter | `typemethod` (purge, group, send), `HandleData`, `ack_set`, `host_set`, `port_set`, `address_set` | replies lost, late or out of order; time limits; reconfiguration while a request is on its way; restart; loops that must end |
| `modbusTcpLib` AoRI, AoRO, DI, DO | raw and scaled values | setters, constructors | scaling, values of write requests |
| `kbuslib` MailBox queue | `occupier`, `busy`, `lastFree` | `busy_set`, `occupy`, `free`, `startup`, `shutdown` | several users, timeouts, failing allocations |
| `kbuslib` MailBox transfer, `wagoIPClib` WagoIPCCom | `state`, buffers, toggle bit, process image | `readwrite`, `typemethod` | handshake with firmware, lost writes, restart in a transfer |
| `kbuslib` Clamp and its classes | addresses, widths, error code | address setters, `startup`, `typemethod` | overlapping outputs |
| `kbuslib` BusManager | error code, `actimode` | `checkinit` | one manager for a database |
| `kbuslib` HARTAnalogIN, mailBoxConnection | none, a link to a mailbox | created by a detection | belongs to the terminal of its mailbox |
| `wagoIPClib` WagoIPCManager | process image, clamps, error state | `startup`, `shutdown`, `typemethod` with a detection of clamps | error exits in the middle of the cycle, a detection that fails half-way, twice |
| `wagoFBKlib` WagoFBKManager, kbusapi | process image, clamps, their numbers | `startup`, `shutdown`, `typemethod` with a detection of clamps | a failed update and values that look good, files that stay open |
| `IOdriverlib` | none beside inputs and outputs | `typemethod` of AI, AO, DI, DO | scaling and its inverse, switching between field and simulation |
| `raspi` gpioIn, gpioOut | `initialized`; the library, once per process | `pin_set`, `typemethod`, constructor | hardware set up again after a restart, two blocks on one pin |

How they interact: a Slave owns a TCP channel and a dispatcher; its `typemethod`
appends frames to the channel, the channel calls `HandleData` of the dispatcher, and
that finds the request among the children of the slave. A manager of the KBus owns
clamps and exchanges their values with the process image of the driver; `WagoIPCCom`
drives `readwrite` of the mailboxes of the same manager; blocks outside this
repository `occupy` a mailbox, fill its buffers and `free` it.

The properties that make each component correct:

- Slave: a value comes only from the register its channel is configured for; no
  channel is in two requests; a request covers its chain within the protocol's limit;
  `typemethod` ends; no channel waits for ever; error flags tell the truth.
- Digital outputs: chains of channels end and hold together whatever is deleted; a frame
  sets no coil but those of its channels; each set point reaches its coil; the stream of
  replies stays on frame boundaries.
- MailBox queue: one user at a time; the flag, the head and the user agree; whoever
  keeps asking is served.
- MailBox transfer: the bytes arrive complete and in order or an error is reported.
- Clamps and managers: after a cycle without an error the outputs are in the field and
  a value marked good comes from it; nothing else of the output image changes; an
  output is not moved onto another one.
- Detection: clamps never share a bit, however often it is repeated or fails; one that
  succeeds leaves no terminal out; it ends.
- Driver blocks: what goes to the field is in range; a pin is set up before it is used; the
  process value of a loop becomes the setpoint.

## 2. Modules

| module | models |
|---|---|
| `RequestWindow` | which addresses a request takes (`addItem` and the test before it) |
| `ModbusSlave` | one Slave with its channels, requests, dispatcher and network |
| `MCModbusSlave` | its instances for TLC |
| `ModbusSlaveProofs` | theorems about it |
| `CoilExchange` | digital outputs closer: links, bits of a request, bytes of replies, channels deleted and created |
| `MCCoilExchange` | its instance for TLC |
| `CoilExchangeProofs` | theorems about it |
| `ExclusiveGrant` | what a mailbox promises: a resource that one user has at a time |
| `MailBoxQueue` | `occupy`, `free` and `busy` of a MailBox, its users and time |
| `MCMailBoxQueue` | its instances for TLC |
| `MailBoxQueueProofs` | theorems about it, with the refinement of `ExclusiveGrant` |
| `MailBoxTransfer` | `readwrite` of a MailBox, `WagoIPCCom`, the firmware behind it |
| `MCMailBoxTransfer` | its instance for TLC |
| `MailBoxTransferProofs` | theorems about it |
| `KbusClamps` | clamps: their configuration, accessors and exchange with an image |
| `KbusCycle` | the cycle of a WagoIPCManager or WagoFBKManager over them |
| `MCKbusCycle` | its instance for TLC |
| `KbusCycleProofs` | theorems about it |
| `KbusDetect` | creation of a manager, detection of clamps by either manager |
| `MCKbusDetect` | its racks for TLC |
| `KbusDetectProofs` | theorems about it |
| `FieldBlocks` | AI, AO, DI and DO of IOdriverlib, gpioIn and gpioOut of raspi, in a loop |
| `MCFieldBlocks` | its instance for TLC |
| `FieldBlocksProofs` | theorems about it |
| `SetInduction` | induction over numbers, stated with sets: for what the models define by recursion |

`ModbusSlave` and `CoilExchange` look at the same code from two distances and share
`RequestWindow`. The first has all four kinds of channels and keeps a chain as the set of its
members; the second has one kind, and keeps the links, bits and bytes that set stands for
(`ChainsSound` is what the first relies on). `KbusDetect` makes the clamps that `KbusCycle`
exchanges; `FieldBlocks` are what sits between a function chart and any of the channels.

In each module the operators marked "Slip" are plausible mistakes in an operator next to
them. Nothing of the model uses them: PROJECT.json lists, for every property, the slip
that breaks it.

### 2.1 ModbusSlave

State and code:

| variable | code |
|---|---|
| `pc`, `scan` | where `typemethod` is, and its locals `currUnitIdentifier`, `nextUnitIdentifier`, the request pointer and the position of the foreach |
| `requestId` | the static counter of ModbusTcpManager.c |
| `requests` | the children of the part `requests`; `members` is the chain that `requestToChannel` and `toNextChannel` form, `head` its first channel; `late` says whether `validTill` has passed |
| `conn`, `wire` | the connection state of the channel; frames on their way to the device and back |
| `unit`, `address`, `active` | `unitIdentifier`, `address`, `actimode` of the channels |
| `error`, `errorLink`, `slaveError` | `error` of channels and slave, the one child under `errorChannels` |
| `pv` | which register of which unit a value was last taken from |

`typemethod` runs without interruption in the server, yet it is not one action: whether
its loops end is one of the questions. It is split into one step per expired request
(`PurgeRequest`), the switch on the connection (`OpenConnection`, `BeginScan`,
`NotConnected`), one step per visited channel (`VisitChannel`, `SkipChannel`) and one
per pass (`EndPass`). The four loops of the code (AoRI, AoRO, DI, DO) are the same
text with another class, limit and request; here they are one text with
`scan.kind`, so `VisitChannel`, `SkipChannel`
and `EndPass` stand for all four. While `pc` is not `"idle"` no other handler runs, as in the server; only
the network can lose a frame, and the server can restart. Everything else is one
action per handler.

Two things of the scan are kept although they look odd: the request pointer is
*not* reset between the passes of one kind, and a request that is full is sent inside
the loop and again after it.

A request or a frame may also fail for want of memory: `CreationFails` is the early
`return` when a request cannot be created, `FullUnsent` and `EndPassUnsent` a `sendRequest`
that returns before `validTill` is set, so that the request is purged in the next call.

`wire` is a set, although a full request is sent twice: of its frame a copy may stay when the
reply to the other one arrives (`SentTwice`).

A process value is modelled by its origin, the pair of unit and register it was read
from. The property `RightRegister` compares that with the configuration.

### 2.2 MailBoxQueue

`queue` is `v_occupier`, `busy` is `v_busy`, `elapsed` says that `queueTimeout` has passed
since `lastFree`, `client` is what the callers believe from the results they got. `occupy`
and `free` are one action each, with one disjunct per path of the code. `crashed`
is the end of the server: `occupy` reads the head of the queue once more after it may
have removed the only element. The blocks that use a mailbox are not in this
repository: they ask until they are let in, use the mailbox, free it, cancel or leave.
An unset pointer after a restart is not a concern, `startup` clears the queue.

### 2.3 MailBoxTransfer

One call of `WagoIPCCom`'s `typemethod` is one action: the image is read, `readwrite`
takes the step of its state, the image is written back. The write may fail after the
step has been taken (`Write`), as in the code, which logs that and goes on. `out` and `in`
are the mailbox's bytes of the two images, `status` is the toggle bit last seen.
A call that cannot read the image, or finds no new reply, changes nothing and is no
action. The firmware is not part of the repository: `Take` and `Answer` say what
`readwrite` relies on, and the device may refuse any command at any time.

Kept although they look odd: the length is cut to one byte, so of a telegram that does not
fit the device expects only the head; it refuses what follows, unless the rest adds up to nothing in
the check sum; `stopSend` is never entered; startup resets the state and the
buffers but neither the toggle bit nor the image.

### 2.4 KbusClamps and KbusCycle

An image is a sequence of bytes of `Bits` bits; a clamp stands for a bit, a word or some
bytes of it (`Place`). Values are those bits: the scaling to 0.0 .. 1.0 is left out.
`KbusClamps` has the accessors with their refusals (`SetByteAddress`, `SetByteWidth`,
`SetBitOffset`) in unsigned arithmetic that wraps, and `KbusCycle` the cycle:

| WagoIPCManager | WagoFBKManager |
|---|---|
| `ExecuteIPC` reads the bus status | `ExecuteFBK` |
| `ReadInput`, `ReadOutput` | `Visit` of every output, into the old image |
| `Visit` of every clamp | `Update` exchanges both images, or fails and goes on |
| `WriteBack`, if something was driven | `Visit` of every input, `Return` |

`Visit` is one of four things for a clamp: it is disabled, misplaced (WagoIPCManager
only; WagoFBKManager has the test commented out), fed as an input, or read back and
driven as an output. The four are the same for each of the six classes in the code. `Stop` is the
error exit that switches the manager off. Between two cycles come clients,
the communication task (`Com`, which writes the bytes of a mailbox into the shared output
image), changes in the field, and a restart that may also interrupt a cycle.

The switches behind the driver's calls list the codes BUSY, NODEV, IO and TIME and
have no default; the model assumes that the driver returns no other.

### 2.5 CoilExchange

| variable | code |
|---|---|
| `children`, `next` | the channels below the slave in child order; `toNextChannel` of each |
| `requests` | the children of the part `requests`; `first` is `requestToChannel` |
| `toDevice`, `toSlave` | frames on their way to the device; bytes on their way back |
| `inData` | what the channel holds behind `readPT` |
| `coils` | the outputs of the device |

`Execute` is the whole of `typemethod`: what is late is dropped and its chain unlinked (`Purged`),
every channel is visited in child order (`Scanned`), the request is sent. `Receive` is the channel's callback:
some bytes arrive, and `HandleData` handles every reply that has arrived whole and stops
at the first that has not. A reply has its real bytes (transaction id, protocol, length, unit,
function), since the position of the reader is what the property is about; the bits of a
frame are a sequence, of which the code packs eight in a byte. `Overruns` is a write outside
the frame's memory (`Request_writeBit` does not look at its length); it ends the server.
`DeleteChannel` takes the links of the object with it, as the OV core does for any
object, and thereby may cut a chain. `CreateChannel` puts the channel last.

### 2.6 KbusDetect

A rack is a sequence of terminals with a name and their places in both images, in bits. The
name stands for what the code looks at: the number of a product for WagoIPCManager,
article number and format of a line for WagoFBKManager. A detection is one call of `typemethod`,
split at everything that may fail: `Execute` deletes the clamps and opens the file,
`ReadTerminal` asks the driver (or reads a line; `ReadBreaksOff` is WagoFBKManager's loop
at a line that cannot be read, which it takes for the end of the file), `CreateClamp` creates the clamps of a
terminal one by one (`ClampsOf` is what they are), `NextTerminal` goes on, and
`Finish` or `Crash` looks for the com block. `GiveUp` is each of the returns with
`ERR_AUTODETECT`. A clamp carries where it came from (`at`, `nr`): history that
the proofs use, and the name the code gives it says the same.

Clients ask again at any time, delete and create managers and the com block, and the server
restarts with the same database and perhaps another rack; the power may fail in the middle of a
detection as well (`PowerFails`). A clamp that exists but has not been set up is disabled, stands for no bit, and
is deleted by the next detection; it is not part of `clamps`. `WellFormed` is what the hardware
guarantees of a terminal: areas of its own, words for analog channels.

### 2.7 FieldBlocks

Each `typemethod` is an action (`OutputBlock`, `InputBlock`, `GpioOut`, `GpioIn`), preceded by
the connections that bring its inputs. Analog values are fractions of whole numbers, and
a fraction with denominator 0 is what the division of AO gives for a range that is a point.
`mode` and `level` belong to the hardware: wiringPi takes a call only when `library` is set
up in this process, which only the constructors do (`CreateBlock`). `disturbed` is history: since the
block set its pin up, the server restarted or another block set the same pin up.

## 3. Runs

| run | instance | shows |
|---|---|---|
| `SlaveReconfig` | 3 registers at 0/2, 1 and 2, on or off, one connection fault, late and lost replies | `TypeOK`, `RequestCoversChain`, `FramesMatch`, `RightRegister` |
| `SlaveRestart` | 2 bits and an analog output, on or off, all four outcomes of a reply, acknowledgements, a restart anywhere | `ChainsDisjoint`, `LinkedErrorIsSet` |
| `SlaveLive` | 2 registers and a coil of one unit, one register filling a request | `ScanEnds`, `ChannelReleased`, `EveryChannelPolled` under fairness |
| `BoxSafety` | 3 blocks that may leave, the operator twice, a restart | `TypeOK`, `BusyIsHeld`, `HolderIsHead`, and the mailbox implements `ExclusiveGrant` (`GrantsExclusively`) |
| `BoxLive` | 4 blocks, of which two may leave without a word, 2 failing allocations | `QueueDistinct`, and `PatientServed` under fairness |
| `BoxTransfer` | telegrams of 0, 1, 3 and 5 bytes, answers of 0, 2 and 3, one lost write, one restart | `TypeOK`, `AnswerIsGenuine`, `OneCommandAtATime`, and `TransferEnds` under fairness |
| `CoilExchange` | coils 0, 1 and 3 of a device of five, the first two may be deleted and created, set point of the third switching, replies in pieces, refused, late or never | `TypeOK`, `ChainsSound`, `StreamInStep`, `NeverSetsStrangers`, and `SentAgain`, `CoilFollows` under fairness |
| `KbusDetect` | eight racks with every kind of terminal, known and unknown, either manager or both in one database, any step failing, power failing in a detection | `TypeOK`, `ClampsPlaced`, `RepeatsWithHart`, `AllCovered`, `NumbersMatch`, and `DetectionEnds` under fairness |
| `FieldBlocks` | an analog loop over 4 ranges and 5 setpoints, a digital one over 3 pins with a wire between two, 3 events from outside | `TypeOK`, `OutInRange`, `PinsReady`, and `LoopFollows` under fairness |
| `KbusCycle` | either manager with an analog, a special and a digital output, an analog and a digital input, 3 events from outside, any call of the driver failing | `TypeOK`, `OutputsFollow`, `OthersKept`, `GoodIsField`, `MovesAreClear` |

Runs that end in a counterexample; each of them refutes what a comment of the
repository says (the quotations are in PROJECT.json, "findings"):

| run | property | what happens |
|---|---|---|
| `SlaveHang` | `ScanEnds` | a full request and a channel left over: `typemethod` never returns |
| `SlaveCrosstalk` | `RightRegister` | after a restart an old request takes a new request's reply |

Which plants the passing runs leave out follows from the violations: `SlaveReconfig` and
`SlaveLive` have one unit and no analog output, since with two units or an active AoRO the
properties do not hold; `SlaveLive` has no channel beyond the first window of its kind.
`RightRegister` and `FramesMatch` are checked without a restart.

Three properties of passing runs name what they except, and their instances contain the excepted cases:
`PatientServed` the crash that the timeout of a mailbox may lead to (`BoxLive` has blocks that leave), `MovesAreClear`
the byte below an odd analog address (`Below`) and the inside of a wider output (`Inside`), `AllCovered` what
WagoFBKManager leaves out silently (`LeftOut`). Each is violated without its exception; section 4 has the cases.

### Bounds and why they suffice

- Request limit 3 for 125 registers and 2000 bits: every boundary of the window (below,
  at, inside, last register, one beyond) and of `addItem` occurs with addresses 0 to 3.
- 2 or 3 channels: enough for a chain of more than head and last, for two requests
  of a kind at once, and for a channel left over beside a full request.
- `IdWrap` 2 to 4 ids for 32767: the id comes round again in each run. `IdsHaveRested` says
  what 32767 stands for: when an id is given again, the frame that had it has
  left the network and the request that had it has timed out (5 s by default).
- `MaxFaults`, `MaxRestarts`, `MaxSets`, `MaxFails`: one or two disturbances at any point.
- 3 or 4 blocks for a mailbox: user, next one and one or two behind it; in `BoxLive` two
  patient ones wait behind two that leave, so that one timeout is not enough.
- `BlockLen` 2 for 4 bytes and `LengthWrap` 4 for 256: telegrams and answers that are empty,
  shorter than a block, end inside one, and a telegram whose length does not fit and whose
  rest adds up to nothing, as a device takes it for the head alone.
- In `CoilExchange` 3 channels with a gap: a chain of head, middle and tail, growth in both
  directions, and a channel left over when its predecessor goes. `ByteBits` 2 for 8 makes frames
  cross bytes; replies of 12 and 9 bytes in pieces of 10 are cut within the head, behind
  it, and several arrive at once. Two deletions or creations; only the two lower channels
  are replaced, see section 4 for more.
- In `KbusDetect` each rack is one the code treats in another way: two HART terminals
  beside an analog one, special before a known one, digital terminals across a byte
  boundary, an unknown article first or between known ones, an empty file. `MaxFiles` 2 lets the descriptors run out.
- In `FieldBlocks` the ranges are one around zero, one that does not begin there, a point and
  one upside down; setpoints below, at the ends, inside and above.
- `Bits` 2 for 8, `Size` 6: a digital and an analog byte each side of `DigIn`/`DigOut`, two
  bits to tell a bit from its byte; places that are apart, overlap at either end,
  lie inside one another, on digital bytes (allowed by the `<=` of the code) or misplaced.
- `MaxEvents` 3: what clients, mailboxes, the field and restarts do, in all cycles together;
  cycles, failures of the driver and switching the manager on and off are not bounded.

### Fairness

- `WF(Execute)`, `WF(TypemethodStep)`: the task list calls `typemethod` again and
  again, and a call runs on.
- `WF(LoseFrame)`: a frame does not stay on the network for ever.
- `SF(ExpireRequest(c))`: `validTill` is a fixed time, so it passes; it is strong fairness
  only because the action is disabled while `typemethod` runs. `SF(ConnectionUp)` likewise.
- Nothing is assumed of the Modbus device: it may never answer (`HandleData` has no fairness).
- `MailBoxQueue`: a patient block asks again, a user frees the mailbox some time, time passes.
  Of blocks that may leave nothing is assumed but that they do not keep the mailbox for ever.
- `CoilExchange`: `typemethod` is called again and again (`Executes`), bytes arrive, time
  passes, the device answers and does not refuse a certain coil for ever.
- `KbusDetect`: the manager is called again and again; neither the file nor a given terminal
  fails at every attempt. The descriptors may run out, and the server may crash; both are exits
  of `DetectionEnds`; so is power that fails in a detection again and again.
- `FieldBlocks`: the task list calls each block again and again, nothing else.
- `MailBoxTransfer`: the communication task is called again and again, and the firmware takes
  and answers commands: `readwrite` has no time limit of its own.

`CHECK_DEADLOCK FALSE` is set where the server may really stop: a crash, or all bounded
disturbances used up after it; in `BoxTransfer` a lost write leaves both sides waiting.

## 4. What does not hold

Beside the runs that end in a counterexample, these departures were met while modelling.
They can be seen with the modules as they are, by a property or an instance as named.

`ModbusSlave`:

- Two units behind a gateway: the request pointer of the pass before is kept, so channels of the
  second unit are read from the first (Slave.c:146). `RightRegister` in
  `SlaveReconfig` with `UnitOf <- Gateway2`, two channels and `Moving2`.
- An active AoRO ends the server: `sendRequest` reads `pDomain`, which is NULL there
  (WriteMultipleRegistersRequest.c:119). `pc` becomes `"crashed"` in `SlaveRestart` with its
  output always on.
- A channel outside the first window of its kind is never polled when the plant never lets
  it come first (Slave.c:193): `EveryChannelPolled` with addresses 0, 1 and 9.
- `errorChannels` holds one channel, so acknowledging clears one error of several
  (Slave.c:74): two channels in error, then `Acknowledge`.
- A good reply clears the slave's error while another channel is in error
  (ReadInputRegistersRequest.c:74): two requests, one answered with an exception first.

`MailBoxQueue` and `MailBoxTransfer`:

- `occupy` drops the only element of the queue after its time is up and then reads the head of
  an empty queue (MailBox.c:363): `PatientServed` in `BoxLive` without `\/ crashed`. A block asks and leaves, its
  time is up, another block asks. So queueTimeout, a "timeout for queue elements to avoid deadlocks"
  (kbuslib.ovm:277), keeps its promise to a patient block only while a second element stands in the queue.
- A failing `realloc` empties the queue of a mailbox in use, and the next block gets it too
  (MailBox.c:297): `BusyIsHeld` and `HolderIsHead` in `BoxSafety` with `MaxFails = 1`.
- A write of the image that is lost leaves a transfer waiting for ever (WagoIPCCom.c:93):
  `TransferEnds` without `faults > 0`.
- A telegram of 256 bytes or more is announced with its length modulo 256 (MailBox.c:147). If its rest
  adds up to nothing in the check sum, the device takes the head for the whole and the transfer ends
  well: `AnswerIsGenuine` without `Len(request) < LengthWrap`.
- Two restarts, or a restart and a lost write, and a reply to a transfer cut off passes for the reply to
  the next one (MailBox.c:86: startup resets neither the toggle bit nor the image, and one bit tells
  a reply from the one before only): `AnswerIsGenuine` without `Undisturbed`, with `MaxRestarts = 2`
  or as it is.

`KbusCycle`:

- A clamp moved into one that is wider on both sides is not refused (Clamp.c:47):
  `MovesAreClear` without `Inside`. The cycle writes the word an analog output lies in (WagoIPCManager.c:1030),
  while the accessors compare the nominal address: at an odd one the output drives the byte below it, which may be
  another's, as when it moves from 4 to 1 beside a special one of one byte at 0 (`MovesAreClear` without `Below`).
  In both cases what Clamp.c:57 logs of a refused move, "this space in the OUTput image is already served by", is true
  of a move that is not refused. Moving a clamp by less than its width is refused, since
  the loop meets the clamp itself.
- An analog or special clamp may lie on the first digital byte (WagoIPCManager.c:1081) and reach
  over digital bytes: the later of the two clamps wins in each cycle.
- `Value_set` of a special output takes a byte vector of any length (SpecialOUT.c:32), and the cycle copies as many
  bytes as the clamp is wide (WagoIPCManager.c:1100): of a shorter vector it reads beyond the end. `ValueAssumption`
  leaves that to the clients; the properties of `KbusCycle` are stated under it.
- When `KbusUpdate` fails, WagoFBKManager takes the inputs from the old image with state GOOD
  and a new `LastRead` (WagoFBKManager.c:637), which kbuslib.ovm:74 calls the "time of Last
  successfull read": only the manager's error tells. `GoodIsField` is stated with it.

`CoilExchange`:

- As long as no channel is deleted `sendRequest` stays inside its memory and reports no channel as
  out of range (`ChainsFit`, a part of `ChainsSound`; proved). But
  with `MaxChanges = 3` and the head deleted and created twice the server may crash:
  the new channel is last in its chain, and once the head is gone `Offset` of a
  channel below the start is negative, read as unsigned.
- The test of `sendRequest` is `<=` (WriteMultipleCoilsRequest.c:130): a channel at an offset that
  equals the number of items is written one bit behind the last, one byte behind the memory of
  the frame when the items fill their bytes.
- A gap, and the item too many of downward growth (Request.c:146), are sent as 0: they reset
  coils that belong to another request or to nobody. So `CoilFollows` says "again and again":
  the coil may flap.
- A channel behind a stale link is counted by `addItem` before the link fails
  (Slave.c:402): for one cycle its coil is sent as 0 though its set point is 1.
- Deleting the middle of a chain leaves the channels behind it linked to one another. They come free
  when the channel before them, free itself, is sent and dropped again (`SentAgain`).

`KbusDetect`:

- WagoFBKManager takes a read error for the end of the file (WagoFBKManager.c:179): the detection ends without an
  error, and the terminals from that line on have no clamps (`AllCovered` without `i >= at` in `LeftOut`). The comment there says
  "read out values for each slot and create clamps".
- A line whose article no branch is about is passed over without an error (WagoFBKManager.c:189):
  `AllCovered` without the kind "none" in `LeftOut`. Of a known article it counts what its branch is about: the input bits
  of an input terminal, the output bits of an output terminal (`ValueBits`).
- The bytes of a special terminal are shared out evenly among its channels, rounded down: what
  remains belongs to no clamp. `AllCovered` needs terminals whose bytes divide (`Divisible`).
- A detection repeated without a HART terminal ends in a write through NULL: the com block exists,
  its creation fails, and what is linked afterwards is nothing (WagoIPCManager.c:661).
  `autodetect` is still set in the database, so the server crashes again after each start.
  `RepeatsWithHart` says this is the only way.
- After a creation that failed the next cycle forgets the error, and the manager works with the
  clamps made so far.
- WagoFBKManager never closes its configuration file (WagoFBKManager.c:165). Once no descriptor is
  left, a detection deletes the clamps and cannot read what to create, until the server is restarted.

`FieldBlocks`:

- After a restart no block sets its pin up: `v_initialized` is in the database. And `wiringPiSetup` is
  called by constructors only, which the start of a database does not call, so no call reaches a
  pin (gpioIn.c:92). `PinsReady` without `disturbed`, `LoopFollows` without the last line of `Open`.
- A range that is a point divides by zero (AO.c:57): not a number goes to the field. A range upside
  down gives 0.0 or 1.0 and nothing between. `OutInRange` without its second case.
- DI leaves the state of an earlier process value beside a plain one, where AI says "not supported"
  (DI.c:75).
- A resistor changed after the pin was set up is not applied; a pin left behind keeps its mode and
  level; of two blocks on one pin the later one sets it up, and the other does not notice.

## 5. Proofs

`ModbusSlaveProofs` proves for all plants, limits and bounds:
`Spec => []TypeOK`, `[]ChainsDisjoint`, `[]RequestCoversChain` and `[]LinkedErrorIsSet`.
The inductive invariant is `IInv`: the first three alone are not inductive. Between
creating a request and sending it, `typemethod` fills the *last* request, so it adds `FillsLast`
(while the scan has a request, it is the last one, of the kind being scanned)
and `Started` (a request has a start address as soon as it has a
channel). `RequestCoversChain` rests on the lemmas about `InWindow` and `AddItem`: an
address in the window leaves the request within its limit and covers all that it
covered before; and on `address_set` refusing a linked channel.
`LinkedErrorIsSet` is inductive by itself, beside the types.

For plants of one unit (`OneUnit`) with no fewer ids than kinds of channels (`IdsEnough`; there are
32767 and at most four) it proves `FramesMatch` until the first restart, and from it `RightRegister` when there is none.
All three conditions are needed: section 4 has the second unit, the run `SlaveCrosstalk` the restart,
and with fewer ids than kinds two requests of one call have the same. The second invariant,
`Matched`, speaks of frames, requests and ids together. Ids of requests differ, and a frame
with the id of a request is that request (`FramesOK`); during the scan no frame and no
request has an id that the scan may still take (`Fresh`, for as many ids as there are kinds to
come, `IdsLeft`); and a request that is still growing has not been sent (`ScanInOrder`: another pass over the same
unit follows only when the request is full, and a full one takes no channel that changes it, lemma
`OfferedKeeps`). So sending a request twice puts the same frame on the network. What the environment owes,
`IdsHaveRested`, covers exactly the ids of one call (`KindsCounted`, `Ahead`), after `typemethod`
has deleted what is late.

`MailBoxQueueProofs` proves `[]TypeOK` and `[]QueueDistinct` for any number of clients
and, under the assumption that allocations do not fail (`MaxFails = 0`), `[]BusyIsHeld`,
`[]HolderIsHead` and that `Spec` implements `ExclusiveGrant`. The bound on the queue's
length in `TypeOK` follows from `QueueDistinct` by counting (a sequence without
repetition is no longer than its set is large).

`MailBoxTransferProofs` proves `[]TypeOK`, `AnswerIsGenuine` and `OneCommandAtATime` for all telegrams, answers,
block lengths and bounds. The check sum is a recursive sum, so its type takes an induction over the length
(see `SetInduction` below). The two action properties follow from one invariant, `Follows`, which holds as long as the server is
`Undisturbed` and says of a mailbox that waits one of three things. Mailbox and device are
`Together`: the command is in the image (`Asked`), the device works on it (`AtWork`) or has answered it (`Replied`), and
for each command it is known which bytes of the telegram the device has, and which bytes of the answer the
mailbox has (`Before`, `After`). Or nothing is on its way to either (`Stuck`, after a lost write). Or a restart cut an
earlier transfer off and a reply to it is still to come (`Ahead`): it may pass for the
reply to "start", but the next one is the real one to "start", and its operation gives it away.
Trying to prove `AnswerIsGenuine` as it was first
stated, for any restarts, telegrams and lost writes, led to the counterexamples in section 4.

`KbusDetectProofs` proves `[]ClampsPlaced` (clamps share no bit and stay within the area of their terminal) for
every rack whose terminals have areas of their own, of any length and width. So a detected plant meets the
`PlaceAssumption` of `KbusCycle`, as long as the image is as large as the areas the driver reports.
It rests on lemmas about the arithmetic:
what bits a clamp stands for (`DigitalBits`, `WordBits`, `SpecialBits`, `HartBits`), that they lie in the area of its
terminal (`Inside`), and that two clamps of one terminal are apart (`ClampsOfApart`). The inductive
invariant says that there is one manager, that each clamp is the one that `ClampsOf` gives for
its terminal in the rack last seen (`FromTheRack`), and that they are made one by one
(`OneByOne`): a clamp is before the place the detection has reached. The last is what fails if old clamps
were left behind. `[]TypeOK` includes that there is never more than one manager, and
`[]RepeatsWithHart` needs `HartCounted`: once a HART terminal has been passed, `hartCount` is positive.
The converse of `OneByOne` is `Built`: every clamp before that place is there. With it a detection that
ends well has made all clamps of all terminals, and `AllCovered` follows by arithmetic: each bit of a terminal is
in one of its clamps, for special terminals if `Divisible`. What WagoFBKManager leaves out silently (`LeftOut`) is excepted: where
reading broke off (`ReadBreaksOff`) `Built` speaks of the terminals before that line, and a terminal of an unknown
article has no clamps to make. With WagoIPCManager nothing is left out. A power failure in a detection keeps all of
this (`RestartKeeps`), since the next one begins by deleting the clamps. `NumbersMatch` adds what the counters stand for
at each place (`SlotsKept`, `NumbersKept`): as many mailboxes as HART terminals passed, and
as many clamps of a class as its counter says.

`CoilExchangeProofs` proves `[]TypeOK`, `[]ChainsSound`, `[]StreamInStep` and `NeverSetsStrangers` for any channels,
addresses, pieces and deletions. `ChainsSound` says that walks along `toNextChannel` end. That is not
inductive; what is, `ChainsKept`, says why they do: a link goes from a channel to a later child of the slave (`Ordered`),
no channel has two parents (`OneParent`), and no link leads to the first channel of a request (`Sound`). A new
channel is the last child, so creating one keeps the order. Until a channel is deleted, every linked
channel is reached from a request (`Whole`). From that follows that `sendRequest` writes inside the memory it
allocates (`ChainsFit`): a channel the loop takes up links to nothing (`FreeLinksNone`), so each turn adds just that
channel to the chain and its address to the range (`RangeGrows`, `Covers`), and the bytes hold the
range (`BytesHold`). A deleted head breaks the first step, as section 4 says. The lemmas `ChainClosed` and `ChainLeast` say what the recursive `ChainFrom` computes: the least
set of channels that holds its first and is closed under links. The loops of `typemethod` and
`HandleData` are functions over the number of turns; each turn keeps the invariant (`PurgeKeeps`, `VisitKeeps`,
`HandleStepKeeps`), and so does the last value of the loop.
For the stream the invariant is that what is delivered and what is on its way can be cut into whole replies
(`InStep`: a set of places, closed under going one reply ahead, the end among them). Appending a reply and taking
the first one away keep it (`AppendInStep`, `DropInStep`), and `Begins` is the least such set (`InStepBegins`).

`SetInduction` is what these proofs use in place of the library's induction theorems, which take an
operator as a parameter. `AllNumbers` and `UpTo` are about the *set* of numbers for which something holds;
`Iterates` says that a step can be taken n times, from which a function defined by
recursion is shown to exist and to obey its definition.

`FieldBlocksProofs` proves `RoundTrip` (AI is the inverse of AO, limited, for all setpoints and ranges),
`[]TypeOK`, `[]OutInRange` and `[]PinsReady` for any pins, wires, ranges and bounds. They are
one invariant: a digital loop carries only 0 and 1 (`Digital`), and while the library is not
set up every block is disturbed (`Lost`).

`KbusCycleProofs` proves the five properties of the run `KbusCycle` for any clamps, image,
driver and order of events. The inductive invariant is `Types` and `Progress`. The types say that
what the accessors let pass stays inside the image (`Configured`), what clamps may show
(`Shown`), and which phases each manager has (`Phases`). `Progress` says, inside a cycle, what
already holds of the clamps the loop has passed: their places in the image hold their values unless a
later one wrote over it (`Won`), the bits of nobody are those of the field (`Kept`), and what
was fed is what the input image shows (`Fed`). The lemma `Advance` is the step of the loop for
all of them, and the last clamp turns `Progress` into the properties. `OutputsArrive` is about any
overlap; `MovesClear` rests on `NotMet`, what the overlap test lets through in
unsigned arithmetic, and turns it into the bytes that are driven: a byte that two outputs share after a move is
one below an odd address, or one output lies inside the other.

The only assumptions are the named `ASSUME`s of the modules: channels are finitely many,
addresses and units are natural numbers (the code takes any INT, but -1 is its
marker for "none"), limits are positive, racks are well formed, clients keep clamps inside the
image. TLC evaluates them in every run.

Every invariant and every action property of the runs is stated by a theorem. Only model-checked
is liveness, which the prover does not do: `ScanEnds`, `ChannelReleased`, `EveryChannelPolled`,
`PatientServed`, `TransferEnds`, `SentAgain`, `CoilFollows`, `DetectionEnds`, `LoopFollows`.

## 6. Not modelled

- A clamp whose creation the power interrupts before its place is set: it is disabled and has no bits
  (`PowerFails`), and the next detection deletes it.
- Byte vectors shorter than their clamp (`ValueAssumption`, section 4).
- Links that fail for want of memory in a detection (the code only logs a warning and goes on) and
  in `typemethod` of the Slave; the memstack of the OV core.
- The bytes of frames other than replies to coils; the values of analog outputs, which cannot be
  sent; RawHi, RawLo and the scaling between; `errorCode` and its text.
- Renaming a channel to another slave, which keeps its links (IOChannel.c:80).
- A line of the configuration file that `sscanf` cannot read: the values of the line before are
  used again. LEDs, the run switch, links to the task list, clamps without a manager.
- Time stamps of process values.
- A clamp configured by hand beyond the image: nothing in the code compares an address with its size
  (`PlaceAssumption`), so what such a clamp reads and writes is other memory of the server.
- Vendored driver headers, binary libraries and build files.

## 7. Plan

Done: `RequestWindow`, `ModbusSlave`, `CoilExchange`, `MailBoxQueue`, `MailBoxTransfer`,
`KbusClamps`, `KbusCycle`, `KbusDetect` and `FieldBlocks`, with proofs for all of them. Next:

1. The chains of `CoilExchange` as a refinement of the sets of `ModbusSlave`, for plants
   where nothing is deleted.
2. Two channels of one register (Slave.c:169) and an acknowledgement of two errors (Slave.c:74),
   each with an instance of its own.
