---------------------------- MODULE CoilExchange ----------------------------
(***************************************************************************)
(* The digital outputs of one Slave of modbusTcpLib, seen closer than in   *)
(* ModbusSlave: the links that chain channels to requests, the bits a      *)
(* WriteMultipleCoilsRequest carries, the bytes of the replies as TCP      *)
(* delivers them, and channels that are deleted and created while requests *)
(* are on their way.                                                       *)
(*                                                                         *)
(* All channels are of class DO, switched on and of one unit, the          *)
(* connection is open and no request gets full: other plants, connection   *)
(* faults and restarts are the matter of ModbusSlave.  typemethod and      *)
(* HandleData are one action each, as no other code runs beside them.      *)
(***************************************************************************)
EXTENDS RequestWindow, SequencesExt

CONSTANTS
  NumChannel,    \* the channels 1..NumChannel
  AddressOf,     \* address of each channel
  Replaceable,   \* channels an engineer may delete and create again
  Switched,      \* channels whose set point changes
  NumCoil,       \* the device has the coils 0..NumCoil - 1
  ByteBits,      \* bits of a byte
  Limit,         \* most coils of a request (2000)
  Pieces,        \* how many bytes TCP may deliver at once
  IdWrap,        \* number of request ids (32767 in getReqId)
  MaxChanges     \* bound on deletions and creations

Channel == 1..NumChannel
Bit == {0, 1}
None == 0          \* no child under a link
Unit == 1

ASSUME ChannelAssumption ==
  /\ NumChannel \in Nat
  /\ AddressOf \in [Channel -> 0..NumCoil - 1]
  /\ Replaceable \subseteq Channel
  /\ Switched \subseteq Channel
\* Growing downwards may take up to twice the distance; no request gets full.
ASSUME SizeAssumption ==
  /\ NumCoil \in Nat /\ Limit > 2 * NumCoil
  /\ ByteBits \in Nat \ {0}
  /\ Pieces \subseteq Nat \ {0}
  /\ IdWrap \in 2..256
  /\ MaxChanges \in Nat

VARIABLES
  pc,          \* "idle" or "crashed"
  children,    \* the channels below the slave, in child order
  next,        \* toNextChannel: the one child each channel links to
  requests,    \* the children of the part "requests", in child order
  requestId,   \* the static counter of ModbusTcpManager.c
  sp,          \* SP of each channel
  error,       \* v_error of each channel
  errorLink,   \* the child of the slave under errorChannels
  toDevice,    \* frames on their way to the device
  coils,       \* the outputs of the device
  toSlave,     \* bytes of replies on their way to the slave
  inData,      \* bytes delivered to the channel and behind readPT
  changes      \* counter of the bound

links == <<children, next>>
flags == <<sp, error, errorLink>>
device == <<toDevice, coils>>
vars == <<pc, links, requests, requestId, flags, device, toSlave, inData, changes>>

Request == [id : 0..IdWrap - 1, start : Nat \cup {NoStart}, items : Nat,
            first : Channel \cup {None}, late : BOOLEAN]
Frame == [id : 0..IdWrap - 1, start : Nat, bits : Seq(Bit)]

-----------------------------------------------------------------------------
(* Chains.                                                                 *)

\* The channels met from c on, at most one more than there are.
ChainFrom(nx, c) ==
  LET step[n \in 0..NumChannel] ==
        IF n = 0 THEN <<c>>
        ELSE LET s == step[n - 1] IN
             IF nx[Last(s)] = None THEN s ELSE Append(s, nx[Last(s)])
  IN step[NumChannel]

ChainOf(nx, r) == IF r.first = None THEN <<>> ELSE ChainFrom(nx, r.first)

\* Slip: only the head of a chain counts as linked.
LinkedFirst(nx, reqs, c) == \E i \in DOMAIN reqs : reqs[i].first = c

\* requestToChannel or toNextChannel has a parent at c.
Linked(nx, reqs, c) ==
  \/ \E i \in DOMAIN reqs : reqs[i].first = c
  \/ \E d \in Channel : nx[d] = c

\* Slip: only the link behind the first channel is taken away.
UnlinkFirst(nx, r) ==
  [c \in Channel |-> IF c = r.first THEN None ELSE nx[c]]

\* Every link of the request's chain is taken away.
Unlink(nx, r) == [c \in Channel |-> IF Contains(ChainOf(nx, r), c) THEN None ELSE nx[c]]

-----------------------------------------------------------------------------
(* Bytes.                                                                  *)

Word(s, i) == 256 * s[i] + s[i + 1]
WriteWord(w) == <<w \div 256, w % 256>>

\* A reply of the device: id, protocol, length, the unit, the function code and
\* what the slave does not look at.
ReplyFrame(id, ok) ==
  WriteWord(id) \o (IF ok THEN <<0, 0, 0, 6, Unit, 15, 0, 0, 0, 0>>
                          ELSE <<0, 0, 0, 3, Unit, 143, 4>>)

\* Slip: a reply of just nine bytes is taken for incomplete.
CompleteLong(s) == Len(s) > 9 /\ Len(s) >= Word(s, 5) + 6

\* At least one reply has arrived whole.
Complete(s) == Len(s) >= 9 /\ Len(s) >= Word(s, 5) + 6

\* Slip: the unit's byte is counted twice.
BehindReplyPlusOne(s) == SubSeq(s, 6 + 1 + Word(s, 5) + 1, Len(s))

\* readPT passes six bytes, the unit's, and lengthAfterHeader less that one.
BehindReply(s) == SubSeq(s, 6 + 1 + (Word(s, 5) - 1) + 1, Len(s))

\* Where replies begin in a stream, the place behind the last one included.
Begins(s) ==
  LET from[p \in 1..Len(s) + 1] ==
        IF p + 8 > Len(s) \/ p + 6 + Word(s, p + 4) > Len(s) + 1 THEN {p}
        ELSE {p} \cup from[p + 6 + Word(s, p + 4)]
  IN from[1]

-----------------------------------------------------------------------------
Init ==
  /\ pc = "idle"
  /\ children = [i \in 1..NumChannel |-> i]
  /\ next = [c \in Channel |-> None]
  /\ requests = <<>>
  /\ requestId = 0
  /\ sp = [c \in Channel |-> 1]
  /\ error = [c \in Channel |-> FALSE]
  /\ errorLink = None
  /\ toDevice = <<>>
  /\ coils = [a \in 0..NumCoil - 1 |-> 0]
  /\ toSlave = <<>>
  /\ inData = <<>>
  /\ changes = 0

-----------------------------------------------------------------------------
(* typemethod: expired requests, the loop over the channels, sending.      *)

\* The foreach over the requests: what is late goes, and its chain with it.
Purged(nx, reqs) ==
  LET after[n \in 0..Len(reqs)] ==
        IF n = 0 THEN [next |-> nx, requests |-> <<>>]
        ELSE LET s == after[n - 1] IN
             IF reqs[n].late THEN [s EXCEPT !.next = Unlink(@, reqs[n])]
                             ELSE [s EXCEPT !.requests = Append(@, reqs[n])]
  IN after[Len(reqs)]

\* One turn of the loop.  s holds the links, the request being filled (one or
\* none), the channel linked last, and whether a failing link broke the loop.
Visit(reqs, s, c) ==
  IF s.broken \/ Linked(s.next, reqs \o s.req, c) THEN s
  ELSE LET r == IF s.req = <<>>
                THEN [id |-> requestId, start |-> NoStart, items |-> 0,
                      first |-> c, late |-> TRUE]
                ELSE s.req[1]
           prev == IF s.req = <<>> THEN c ELSE s.prev
       IN IF ~InWindow(r, AddressOf[c], Limit)
          THEN [s EXCEPT !.req = <<r>>, !.prev = prev]
          ELSE IF prev # c /\ s.next[prev] # None   \* the link is taken
          THEN [s EXCEPT !.req = <<AddItem(r, AddressOf[c])>>, !.broken = TRUE]
          ELSE [s EXCEPT !.req = <<AddItem(r, AddressOf[c])>>, !.prev = c,
                         !.next = IF prev = c THEN @ ELSE [@ EXCEPT ![prev] = c]]

\* The loop over the channels.
Scanned(reqs, nx) ==
  LET after[n \in 0..Len(children)] ==
        IF n = 0 THEN [next |-> nx, req |-> <<>>, prev |-> None, broken |-> FALSE]
        ELSE Visit(reqs, after[n - 1], children[n])
  IN after[Len(children)]

Bytes(items) == (items + ByteBits - 1) \div ByteBits

Offset(r, c) == AddressOf[c] - r.start

\* The comparison is signed and one too wide, the write is not checked.
Written(r, c) == Offset(r, c) <= r.items
Overruns(r, c) == Written(r, c) /\ Offset(r, c) \notin 0..ByteBits * Bytes(r.items) - 1

\* Slip: the values are packed one behind the other, without the gaps.
BitAtPacked(r, chain, k) == IF k < Len(chain) THEN sp[chain[k + 1]] ELSE 0

\* Slip: only the first channel of the chain is written.
BitAtFirst(r, chain, k) == IF k = Offset(r, r.first) THEN sp[r.first] ELSE 0

\* The bit for address start + k: the last channel of the chain that has it.
BitAt(r, chain, k) ==
  LET at == {i \in DOMAIN chain : Offset(r, chain[i]) = k} IN
  IF at = {} THEN 0 ELSE sp[chain[CHOOSE i \in at : \A j \in at : j <= i]]

FrameOf(r, chain) ==
  [id |-> r.id, start |-> r.start, bits |-> [k \in 1..r.items |-> BitAt(r, chain, k - 1)]]

\* sendRequest: bits of channels within the range, an error for the others.
Send(r, chain) ==
  LET outside == {c \in Channel : Contains(chain, c) /\ ~Written(r, c)}
      at == {i \in DOMAIN chain : chain[i] \in outside}
  IN
  /\ error' = [c \in Channel |-> c \in outside \/ error[c]]
  /\ errorLink' = IF errorLink # None \/ outside = {} THEN errorLink
                  ELSE chain[CHOOSE i \in at : \A j \in at : i <= j]
  /\ IF \E c \in Channel : Contains(chain, c) /\ Overruns(r, c)
     THEN pc' = "crashed" /\ UNCHANGED toDevice
     ELSE toDevice' = Append(toDevice, FrameOf(r, chain)) /\ UNCHANGED pc

\* Environment: an id comes round again only after all others; by then neither
\* a frame, nor a reply, nor a request that waits has it any more.
IdHasRested ==
  LET stream == inData \o toSlave IN
  /\ \A i \in DOMAIN toDevice : toDevice[i].id # requestId
  /\ \A p \in Begins(stream) : p < Len(stream) => Word(stream, p) # requestId
  /\ \A i \in DOMAIN requests : requests[i].id = requestId => requests[i].late

Execute ==
  /\ pc = "idle"
  /\ IdHasRested
  /\ LET purged == Purged(next, requests)
         kept == purged.requests
         s == Scanned(kept, purged.next)
     IN /\ next' = s.next
        /\ \/ /\ s.req = <<>>
              /\ requests' = kept
              /\ UNCHANGED <<pc, requestId, error, errorLink, toDevice>>
           \/ /\ s.req # <<>>
              /\ requests' = Append(kept, [s.req[1] EXCEPT !.late = FALSE])
              /\ requestId' = (requestId + 1) % IdWrap
              /\ Send(s.req[1], ChainOf(s.next, s.req[1]))
  /\ UNCHANGED <<children, sp, coils, toSlave, inData, changes>>

-----------------------------------------------------------------------------
(* HandleData, called with every piece that arrives.                       *)

\* The reply in front of s.data: it ends the first request with its id, if
\* protocol and unit are right.  handleResponse of a coil request looks at
\* nothing and never fails.
HandleReply(s) ==
  LET mine == {i \in DOMAIN s.requests : s.requests[i].id = Word(s.data, 1)}
      i == CHOOSE j \in mine : \A k \in mine : j <= k
      behind == BehindReply(s.data)
  IN IF mine # {} /\ Word(s.data, 3) = 0 /\ s.data[7] = Unit
     THEN [data |-> behind, requests |-> RemoveAt(s.requests, i),
           next |-> Unlink(s.next, s.requests[i])]
     ELSE [s EXCEPT !.data = behind]

\* The loop of HandleData: while a whole reply is there.
HandleAll(s) ==
  LET after[n \in 0..Len(s.data)] ==
        IF n = 0 THEN s
        ELSE LET t == after[n - 1] IN IF Complete(t.data) THEN HandleReply(t) ELSE t
  IN after[Len(s.data) \div 9]

Receive ==
  /\ pc = "idle" /\ toSlave # <<>>
  /\ \E n \in Pieces :
       LET piece == SubSeq(toSlave, 1, IF n < Len(toSlave) THEN n ELSE Len(toSlave))
           s == HandleAll([data |-> inData \o piece, requests |-> requests, next |-> next])
       IN /\ inData' = s.data
          /\ requests' = s.requests
          /\ next' = s.next
          /\ toSlave' = SubSeq(toSlave, n + 1, Len(toSlave))
  /\ UNCHANGED <<pc, children, requestId, flags, device, changes>>

-----------------------------------------------------------------------------
(* Operators and engineers.                                                *)

SetSP ==
  /\ pc = "idle"
  /\ \E c \in Switched, v \in Bit : Contains(children, c) /\ sp' = [sp EXCEPT ![c] = v]
  /\ UNCHANGED <<pc, links, requests, requestId, error, errorLink, device,
                 toSlave, inData, changes>>

\* Deleting a channel takes its own links away, and no others: what came behind
\* it in a chain stays linked together.
DeleteChannel ==
  /\ pc = "idle" /\ changes < MaxChanges /\ changes' = changes + 1
  /\ \E i \in DOMAIN children : LET c == children[i] IN
        /\ c \in Replaceable
        /\ children' = RemoveAt(children, i)
        /\ next' = [d \in Channel |-> IF d = c \/ next[d] = c THEN None ELSE next[d]]
        /\ requests' = [k \in DOMAIN requests |->
                          [requests[k] EXCEPT !.first = IF @ = c THEN None ELSE @]]
        /\ errorLink' = IF errorLink = c THEN None ELSE errorLink
  /\ UNCHANGED <<pc, requestId, sp, error, device, toSlave, inData>>

\* A new channel is the last child and its set point is FALSE.
CreateChannel ==
  /\ pc = "idle" /\ changes < MaxChanges /\ changes' = changes + 1
  /\ \E c \in Replaceable :
        /\ ~Contains(children, c)
        /\ children' = Append(children, c)
        /\ sp' = [sp EXCEPT ![c] = 0]
        /\ error' = [error EXCEPT ![c] = FALSE]
  /\ UNCHANGED <<pc, next, requests, requestId, errorLink, device, toSlave, inData>>

-----------------------------------------------------------------------------
(* The device and time.                                                    *)

InDevice(f) == f.start + Len(f.bits) <= NumCoil

InFrame(f, a) == a \in f.start..f.start + Len(f.bits) - 1

Write(f) ==
  coils' = [a \in DOMAIN coils |-> IF InFrame(f, a) THEN f.bits[a - f.start + 1] ELSE coils[a]]

DeviceWrites ==
  /\ toDevice # <<>> /\ InDevice(Head(toDevice))
  /\ Write(Head(toDevice))
  /\ toSlave' = toSlave \o ReplyFrame(Head(toDevice).id, TRUE)
  /\ toDevice' = Tail(toDevice)
  /\ UNCHANGED <<pc, links, requests, requestId, flags, inData, changes>>

\* The device refuses a frame, or does not answer at all.
DeviceRefuses ==
  /\ toDevice # <<>>
  /\ toSlave' \in {toSlave \o ReplyFrame(Head(toDevice).id, FALSE), toSlave}
  /\ toDevice' = Tail(toDevice)
  /\ UNCHANGED <<pc, links, requests, requestId, flags, coils, inData, changes>>

\* The time of the request with an id passes.
ExpireRequest(id) ==
  /\ pc = "idle"
  /\ \E i \in DOMAIN requests :
        /\ requests[i].id = id /\ ~requests[i].late
        /\ requests' = [requests EXCEPT ![i].late = TRUE]
  /\ UNCHANGED <<pc, links, requestId, flags, device, toSlave, inData, changes>>

Next ==
  \/ Execute
  \/ Receive
  \/ SetSP \/ DeleteChannel \/ CreateChannel
  \/ DeviceWrites \/ DeviceRefuses
  \/ \E id \in 0..IdWrap - 1 : ExpireRequest(id)

Spec == Init /\ [][Next]_vars

\* ENABLED <<Execute>>_vars and <<Execute>>_vars by what they look like: typemethod
\* takes a new id, or drops a request while no reply comes in.
ExecuteEnabled ==
  /\ pc = "idle" /\ IdHasRested
  /\ \/ \E i \in DOMAIN requests : requests[i].late
     \/ \E c \in Channel : Contains(children, c) /\ ~Linked(next, requests, c)

Executes ==
  \/ requestId' # requestId
  \/ toSlave' = toSlave /\ Len(requests') < Len(requests)

\* The bytes TCP takes away in a Receive.
Arrives == pc = "idle" /\ toSlave # <<>> /\ \E n \in Pieces : toSlave' = SubSeq(toSlave, n + 1, Len(toSlave))

\* typemethod is called again and again (weak fairness of Execute), bytes arrive,
\* time passes, and the device neither stops taking frames nor refuses all those
\* that write a certain coil.
Fairness ==
  /\ []<>~ExecuteEnabled \/ []<><<Executes>>_vars
  /\ WF_toSlave(Arrives)
  /\ \A c \in Switched : SF_vars(DeviceWrites /\ InFrame(Head(toDevice), AddressOf[c]))
  /\ WF_vars(DeviceWrites \/ DeviceRefuses)
  /\ WF_vars(\E id \in 0..IdWrap - 1 : ExpireRequest(id))

FairSpec == Spec /\ Fairness

-----------------------------------------------------------------------------
(* Properties.                                                             *)

\* Every variable has its type.
TypeOK ==
  /\ pc \in {"idle", "crashed"}
  /\ children \in Seq(Channel)
  /\ next \in [Channel -> Channel \cup {None}]
  /\ requests \in Seq(Request)
  /\ requestId \in 0..IdWrap - 1
  /\ sp \in [Channel -> Bit]
  /\ error \in [Channel -> BOOLEAN]
  /\ errorLink \in Channel \cup {None}
  /\ toDevice \in Seq(Frame)
  /\ coils \in [0..NumCoil - 1 -> Bit]
  /\ toSlave \in Seq(0..255)
  /\ inData \in Seq(0..255)
  /\ changes \in 0..MaxChanges

\* The links form chains that end: no channel has two parents and no walk along
\* toNextChannel (sendRequest, HandleData, the destructor) comes round again,
\* whatever is deleted while requests are on their way.
WalksEnd ==
  /\ \A c, d \in Channel : next[c] = next[d] /\ next[c] # None => c = d
  /\ \A c \in Channel, i \in DOMAIN requests : next[c] = requests[i].first => next[c] = None
  /\ \A i, j \in DOMAIN requests :
       requests[i].first = requests[j].first /\ requests[i].first # None => i = j
  /\ \A c \in Channel : Len(ChainFrom(next, c)) <= NumChannel

\* As long as no channel has been deleted, a channel is linked just when it is
\* in the chain of a request.
ChainsWhole ==
  changes = 0 =>
    \A c \in Channel :
      Linked(next, requests, c) =>
        \E i \in DOMAIN requests : Contains(ChainOf(next, requests[i]), c)

\* As long as no channel has been deleted, every channel of a chain lies inside
\* the memory that sendRequest allocates from items: no bit is written beside it,
\* and no channel is reported out of range.
ChainsFit == changes = 0 => pc = "idle" /\ \A c \in Channel : ~error[c]

\* What ModbusSlave builds on when it keeps a chain as the set of its members.
ChainsSound == WalksEnd /\ ChainsWhole /\ ChainsFit

\* However TCP cuts the replies into pieces, readPT stays where a reply begins,
\* and between two calls of HandleData no reply that is there is held back.
StreamInStep ==
  /\ Len(inData \o toSlave) + 1 \in Begins(inData \o toSlave)
  /\ Begins(inData) = {1}

\* A frame sets a coil only for a channel below the slave that has its address
\* and is on: gaps, deleted channels and channels left over are never set.
NeverSetsStrangers ==
  [][Len(toDevice') > Len(toDevice) =>
       LET f == Last(toDevice') IN
       \A k \in DOMAIN f.bits :
         f.bits[k] = 1 => \E c \in Channel : /\ Contains(children, c)
                                             /\ AddressOf[c] = f.start + k - 1
                                             /\ sp[c] = 1]_vars

\* A frame is sent that carries channel c.
SendsFor(c) ==
  /\ Len(toDevice') > Len(toDevice)
  /\ LET r == Last(requests') IN Contains(ChainOf(next', r), c) /\ Written(r, c)

\* Every channel is sent again and again, also when the head of its chain was
\* deleted while the request was on its way: the channels behind it stay linked
\* together, and the request of the one that is free then frees them all.
SentAgain == \A c \in Channel : <>[]Contains(children, c) => []<><<SendsFor(c)>>_vars

\* A set point that stays reaches the coil again and again, with refused and
\* lost frames, timeouts, and channels coming and going.
CoilFollows ==
  \A c \in Switched, v \in Bit :
    <>[](Contains(children, c) /\ sp[c] = v) => []<>(coils[AddressOf[c]] = v)

=============================================================================
