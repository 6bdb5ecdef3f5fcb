---------------------------- MODULE ModbusSlave ----------------------------
(***************************************************************************)
(* One Slave of modbusTcpLib, the Modbus/TCP master: the cyclic typemethod *)
(* that groups the IOChannels into requests and sends them, the requests   *)
(* in flight with their time limit, the replies handed to them by the      *)
(* RequestDispatcher, the error flags, and the accessors an operator       *)
(* reaches between two executions.                                         *)
(*                                                                         *)
(* The OV server runs one thing at a time, so typemethod, HandleData and   *)
(* the accessors exclude each other.  typemethod is split into one step    *)
(* per expired request and one per visited channel (variable pc), because  *)
(* its loops are exactly what has to be shown to end; while pc is not      *)
(* "idle" only the network, a restart and typemethod itself can move.      *)
(***************************************************************************)
EXTENDS RequestWindow, Sequences, FiniteSets

CONSTANTS
  NumChannel,   \* the slave has the channels 1..NumChannel, in child order
  KindOf,       \* class of each channel
  Limit,        \* most items one request of a kind may carry
  AddressOf,    \* the addresses an operator may give a channel
  UnitOf,       \* the unit identifiers an operator may give a channel
  ActimodeOf,   \* whether an operator may switch a channel on or off
  Outcomes,     \* how the device may answer
  IdWrap,       \* number of request ids (32767 in getReqId)
  MaxFaults,    \* bound on faults: connection, host changes, allocations
  MaxRestarts   \* bound on restarts of the server

Channel == 1..NumChannel
KindSeq == <<"AoRI", "AoRO", "DI", "DO">>
Kind == {KindSeq[i] : i \in 1..4}
NoUnit == -1       \* nextUnitIdentifier = -1
NoChannel == 0     \* no child under errorChannels
NoReading == [unit |-> NoUnit, reg |-> NoStart]
Outcome == {"ok", "short", "exception", "mismatch"}
ConnState == {"CLOSED", "OPENING", "OPEN", "ERROR"}

ASSUME ChannelAssumption ==
  /\ NumChannel \in Nat
  /\ KindOf \in [Channel -> Kind]
  /\ Limit \in [Kind -> Nat \ {0}]
\* The code accepts any INT; Modbus addresses and units are not negative, and
\* a negative one would collide with the markers NoStart and NoUnit.
ASSUME PlantAssumption ==
  /\ AddressOf \in [Channel -> SUBSET Nat]
  /\ UnitOf \in [Channel -> SUBSET Nat]
  /\ ActimodeOf \in [Channel -> SUBSET BOOLEAN]
ASSUME EnvAssumption ==
  /\ Outcomes \subseteq Outcome
  /\ IdWrap \in Nat \ {0}
  /\ MaxFaults \in Nat
  /\ MaxRestarts \in Nat

VARIABLES
  pc,          \* "idle", or where typemethod is: "purge" or "scan"; "crashed"
  scan,        \* typemethod's locals during the scan
  requestId,   \* the static counter of ModbusTcpManager.c
  requests,    \* the children of the part "requests", in child order
  conn,        \* ConnectionState of the part "channel"
  wire,        \* frames of which a copy is neither answered nor lost yet
  unit, address, active,   \* unitIdentifier, address, actimode = 1
  error,       \* v_error of each channel
  errorLink,   \* the child of the slave under errorChannels (ONE_TO_ONE)
  slaveError,  \* v_error of the slave
  pv,          \* the device register the process value was last taken from
  faults, restarts   \* counters of the bounds

config == <<unit, address, active>>
errors == <<error, errorLink, slaveError>>
env == <<faults, restarts>>
vars == <<pc, scan, requestId, requests, conn, wire, config, errors, pv, env>>

Request == [id : Nat, unit : Nat, kind : Kind, start : Nat \cup {NoStart},
            items : Nat, head : Channel, members : SUBSET Channel,
            late : BOOLEAN, old : BOOLEAN]
Frame == [id : Nat, unit : Nat, kind : Kind, start : Nat \cup {NoStart}, items : Nat]
Scan == [kind : 1..4, pos : 1..(NumChannel + 1), curr : Nat,
         next : Nat \cup {NoUnit}, has : BOOLEAN]

\* getReqId hands out the counter and advances it; it wraps after IdWrap ids.
NextId == (requestId + 1) % IdWrap

\* validTill is 0 until the request is sent, so a new request counts as late;
\* old is a history field: the server restarted since the request was made.
NewRequest(c) == [id |-> requestId, unit |-> unit[c], kind |-> KindOf[c],
                  start |-> NoStart, items |-> 0, head |-> c, members |-> {c},
                  late |-> TRUE, old |-> FALSE]

FrameOf(r) == [id |-> r.id, unit |-> r.unit, kind |-> r.kind,
               start |-> r.start, items |-> r.items]

\* Slip: only the head of a chain counts as linked.
LinkedHeadOnly(c) == \E i \in DOMAIN requests : requests[i].head = c

\* requestToChannel or toNextChannel has a parent at c.  A request's chain is
\* kept as its head and the set of its members: every handler walks it whole or
\* looks at its head only.
Linked(c) == \E i \in DOMAIN requests : c \in requests[i].members

-----------------------------------------------------------------------------
(* Grouping: which channels one request covers.                            *)

\* The request r after channel c was offered to it.
Offered(r, c) ==
  IF InWindow(r, address[c], Limit[r.kind])
  THEN [AddItem(r, address[c]) EXCEPT !.members = @ \cup {c}]
  ELSE r

Sent(r) == [r EXCEPT !.late = FALSE]

Without(s, i) == [j \in 1..(Len(s) - 1) |-> IF j < i THEN s[j] ELSE s[j + 1]]

-----------------------------------------------------------------------------
\* One value of each channel's set.
Choices(S) == {g \in [Channel -> UNION {S[c] : c \in Channel}] :
                 \A c \in Channel : g[c] \in S[c]}

Init ==
  /\ pc = "idle"
  /\ scan = [kind |-> 1, pos |-> 1, curr |-> 255, next |-> NoUnit, has |-> FALSE]
  /\ requestId = 0
  /\ requests = <<>>
  /\ conn = "CLOSED"
  /\ wire = {}
  /\ unit \in Choices(UnitOf)
  /\ address \in Choices(AddressOf)
  /\ active \in Choices(ActimodeOf)
  /\ error = [c \in Channel |-> FALSE]
  /\ errorLink = NoChannel
  /\ slaveError = FALSE
  /\ pv = [c \in Channel |-> NoReading]
  /\ faults = 0
  /\ restarts = 0

-----------------------------------------------------------------------------
(* typemethod: expired requests, then the connection.                      *)

\* The ids the coming execution may take: at most one request per kind.
NextIds == {(requestId + i) % IdWrap : i \in 0..(Cardinality({KindOf[c] : c \in Channel}) - 1)}

\* Environment: an id comes round again only after IdWrap - 1 others.  By then
\* the frame that carried it has left the network and the request that had it
\* has run out of time.  Requests from before a restart are not covered.
IdsHaveRested ==
  /\ \A f \in wire : f.id \notin NextIds
  /\ \A i \in DOMAIN requests :
        requests[i].id \in NextIds => requests[i].late \/ requests[i].old

Execute ==
  /\ pc = "idle"
  /\ IdsHaveRested
  /\ pc' = "purge"
  /\ UNCHANGED <<scan, requestId, requests, conn, wire, config, errors, pv, env>>

\* Slip: an expired request is given more time instead of being deleted.
PurgeRequestRenewed ==
  /\ pc = "purge"
  /\ \E i \in DOMAIN requests :
        /\ requests[i].late
        /\ requests' = [requests EXCEPT ![i] = Sent(@)]
  /\ UNCHANGED <<pc, scan, requestId, conn, wire, config, errors, pv, env>>

\* One expired request is deleted; Request_destructor unlinks its whole chain.
PurgeRequest ==
  /\ pc = "purge"
  /\ \E i \in DOMAIN requests :
        /\ requests[i].late
        /\ \A j \in 1..(i - 1) : ~requests[j].late
        /\ requests' = Without(requests, i)
  /\ UNCHANGED <<pc, scan, requestId, conn, wire, config, errors, pv, env>>

Purged == pc = "purge" /\ \A i \in DOMAIN requests : ~requests[i].late

\* OpenConnection may succeed at once, be under way, or fail.
OpenConnection ==
  /\ Purged
  /\ conn = "CLOSED"
  /\ pc' = "idle"
  /\ \/ conn' \in {"OPEN", "OPENING"} /\ UNCHANGED faults
     \/ faults < MaxFaults /\ conn' = "ERROR" /\ faults' = faults + 1
  /\ UNCHANGED <<scan, requestId, requests, wire, config, errors, pv, restarts>>

\* Slip: the request pointer is kept from the execution before.
BeginScanStale ==
  /\ Purged
  /\ conn = "OPEN"
  /\ pc' = "scan"
  /\ scan' = [kind |-> 1, pos |-> 1, curr |-> 255, next |-> NoUnit, has |-> requests # <<>>]
  /\ UNCHANGED <<requestId, requests, conn, wire, config, errors, pv, env>>

BeginScan ==
  /\ Purged
  /\ conn = "OPEN"
  /\ pc' = "scan"
  /\ scan' = [kind |-> 1, pos |-> 1, curr |-> 255, next |-> NoUnit, has |-> FALSE]
  /\ UNCHANGED <<requestId, requests, conn, wire, config, errors, pv, env>>

NotConnected ==
  /\ Purged
  /\ conn \in {"OPENING", "ERROR"}
  /\ pc' = "idle"
  /\ slaveError' = (slaveError \/ conn = "ERROR")
  /\ UNCHANGED <<scan, requestId, requests, conn, wire, config, error, errorLink, pv, env>>

-----------------------------------------------------------------------------
(* typemethod: the scan.  The four loops of the code differ in the class   *)
(* they iterate, the limit and the request they create.                    *)

\* Channels of the kind at or after position p with no request running.
Candidates(p) == {c \in p..NumChannel : KindOf[c] = KindSeq[scan.kind] /\ ~Linked(c)}

NextCandidate(c) == c \in Candidates(scan.pos) /\ \A d \in Candidates(scan.pos) : c <= d

\* sendRequest: WriteMultipleRegistersRequest follows a pointer that is still
\* NULL, which ends the server; the others write a frame and set validTill.
Crashes(r) == r.kind = "AoRO"

Send(r) == wire' = wire \cup {FrameOf(r)}

\* The request being filled is the last child; without one, it is created.
Current(c) == IF scan.has THEN requests[Len(requests)] ELSE NewRequest(c)

WithCurrent(r) == IF scan.has THEN [requests EXCEPT ![Len(requests)] = r]
                              ELSE Append(requests, r)

GroupChannel(c) ==
  LET r == Offered(Current(c), c)
      full == r.items >= Limit[r.kind]
  IN /\ requestId' = IF scan.has THEN requestId ELSE NextId
     /\ \/ /\ ~full
           /\ requests' = WithCurrent(r)
           /\ scan' = [scan EXCEPT !.pos = c + 1, !.has = TRUE]
           /\ UNCHANGED <<pc, wire>>
        \/ /\ full /\ ~Crashes(r)
           /\ requests' = WithCurrent(Sent(r))
           /\ Send(r)
           /\ scan' = [scan EXCEPT !.pos = NumChannel + 1, !.has = TRUE,
                                   !.next = IF @ = NoUnit THEN scan.curr ELSE @]
           /\ UNCHANGED pc
        \/ /\ full /\ Crashes(r)
           /\ requests' = WithCurrent(r)
           /\ pc' = "crashed"
           /\ UNCHANGED <<scan, wire>>

VisitChannel ==
  /\ pc = "scan"
  /\ \E c \in Channel :
        /\ NextCandidate(c)
        /\ unit[c] = scan.curr /\ active[c]
        /\ GroupChannel(c)
  /\ UNCHANGED <<conn, config, errors, pv, env>>

\* The database has no room for a request: the foreach ends without one.  The
\* constructor may have taken an id before.
CreationFails ==
  /\ pc = "scan" /\ ~scan.has
  /\ \E c \in Channel : NextCandidate(c) /\ unit[c] = scan.curr /\ active[c]
  /\ faults < MaxFaults /\ faults' = faults + 1
  /\ scan' = [scan EXCEPT !.pos = NumChannel + 1]
  /\ requestId' \in {requestId, NextId}
  /\ UNCHANGED <<pc, requests, conn, wire, config, errors, pv, restarts>>

\* The memory stack has no room for the frame of a full request: sendRequest
\* returns before it sets validTill, and the foreach ends all the same.
FullUnsent ==
  /\ pc = "scan"
  /\ faults < MaxFaults /\ faults' = faults + 1
  /\ \E c \in Channel :
       LET r == Offered(Current(c), c) IN
       /\ NextCandidate(c) /\ unit[c] = scan.curr /\ active[c]
       /\ r.items >= Limit[r.kind] /\ ~Crashes(r)
       /\ requestId' = IF scan.has THEN requestId ELSE NextId
       /\ requests' = WithCurrent(r)
  /\ scan' = [scan EXCEPT !.pos = NumChannel + 1, !.has = TRUE,
                          !.next = IF @ = NoUnit THEN scan.curr ELSE @]
  /\ UNCHANGED <<pc, conn, wire, config, errors, pv, restarts>>

\* A channel of another unit (or inactive) asks for another pass with its unit.
SkipChannel ==
  /\ pc = "scan"
  /\ \E c \in Channel :
        /\ NextCandidate(c)
        /\ ~(unit[c] = scan.curr /\ active[c])
        /\ scan' = [scan EXCEPT !.pos = c + 1,
                                !.next = IF @ = NoUnit /\ active[c] THEN unit[c] ELSE @]
  /\ UNCHANGED <<pc, requestId, requests, conn, wire, config, errors, pv, env>>

\* Slip: nextUnitIdentifier is not reset before the next pass.
NextPassStale ==
  \/ /\ scan.next # NoUnit
     /\ scan' = [scan EXCEPT !.pos = 1, !.curr = scan.next]
     /\ pc' = pc
  \/ /\ scan.next = NoUnit /\ scan.kind < 4
     /\ scan' = [scan EXCEPT !.kind = @ + 1, !.pos = 1, !.has = FALSE]
     /\ pc' = pc
  \/ /\ scan.next = NoUnit /\ scan.kind = 4
     /\ scan' = [scan EXCEPT !.kind = 1, !.pos = 1, !.has = FALSE]
     /\ pc' = "idle"

\* The foreach is over: the request is sent, and either the same kind gets
\* another pass (the request pointer is kept) or the next kind begins.
PassEnded == pc = "scan" /\ Candidates(scan.pos) = {}

NextPass ==
  \/ /\ scan.next # NoUnit
     /\ scan' = [scan EXCEPT !.pos = 1, !.curr = scan.next, !.next = NoUnit]
     /\ pc' = pc
  \/ /\ scan.next = NoUnit /\ scan.kind < 4
     /\ scan' = [scan EXCEPT !.kind = @ + 1, !.pos = 1, !.has = FALSE]
     /\ pc' = pc
  \/ /\ scan.next = NoUnit /\ scan.kind = 4
     /\ scan' = [scan EXCEPT !.kind = 1, !.pos = 1, !.curr = 255, !.has = FALSE]
     /\ pc' = "idle"

EndPass ==
  /\ PassEnded
  /\ LET n == Len(requests) IN
       \/ /\ ~scan.has
          /\ NextPass
          /\ UNCHANGED <<requests, wire>>
       \/ /\ scan.has /\ ~Crashes(requests[n])
          /\ Send(requests[n])
          /\ requests' = [requests EXCEPT ![n] = Sent(@)]
          /\ NextPass
       \/ /\ scan.has /\ Crashes(requests[n])
          /\ pc' = "crashed"
          /\ UNCHANGED <<scan, requests, wire>>
  /\ UNCHANGED <<requestId, conn, config, errors, pv, env>>

\* The same behind the loop: the request stays as it is, and unless it was sent
\* before, it counts as late and is deleted by the next execution.
EndPassUnsent ==
  /\ PassEnded
  /\ scan.has /\ ~Crashes(requests[Len(requests)])
  /\ faults < MaxFaults /\ faults' = faults + 1
  /\ NextPass
  /\ UNCHANGED <<requestId, requests, conn, wire, config, errors, pv, restarts>>

-----------------------------------------------------------------------------
(* HandleData: a reply frame to one of the requests.                       *)

\* Slip: the reply is taken for the oldest request, whatever its id.
AddresseeOldest(f, i) == i \in DOMAIN requests /\ i = 1

\* The first child of "requests" with the reply's id.
Addressee(f, i) ==
  /\ i \in DOMAIN requests
  /\ requests[i].id = f.id
  /\ \A j \in 1..(i - 1) : requests[j].id # f.id

Orphan(f) == \A i \in DOMAIN requests : requests[i].id # f.id

\* The function code echoes the request's, without the error bit.
Echoes(f, r, outcome) == outcome \in {"ok", "short"} /\ f.kind = r.kind

\* The byte count of the reply fits the number of requested items.
ByteCountFits(f, r) ==
  IF r.kind = "DI"
  THEN (f.items + 7) \div 8 \in {r.items \div 8, r.items \div 8 + 1}
  ELSE f.items = r.items

\* An errorChannels link is only made while the slave has none.
LinkError(c) == errorLink' = IF errorLink = NoChannel THEN c ELSE errorLink

\* handleResponse of the two read requests.  On an error only the head of the
\* chain is marked: GetNextChild looks for a sibling of the head.
ReadResponse(f, r, outcome) ==
  IF Echoes(f, r, outcome)
  THEN /\ slaveError' = FALSE
       /\ UNCHANGED <<error, errorLink>>
       /\ pv' = IF outcome = "ok" /\ ByteCountFits(f, r)
                THEN [c \in Channel |->
                        IF c \in r.members
                        THEN [unit |-> f.unit, reg |-> f.start + (address[c] - r.start)]
                        ELSE pv[c]]
                ELSE pv
  ELSE /\ slaveError' = TRUE
       /\ error' = [error EXCEPT ![r.head] = TRUE]
       /\ LinkError(r.head)
       /\ pv' = pv

\* handleResponse of WriteMultipleCoilsRequest accepts whatever arrives.  That of
\* WriteMultipleRegistersRequest, which links channels in another way, is never
\* called: its sendRequest ends the server first (Crashes).
HandleResponse(f, r, outcome) ==
  IF r.kind = "DO" THEN UNCHANGED <<errors, pv>> ELSE ReadResponse(f, r, outcome)

\* A full request is sent in the loop and once more behind it: one of the two
\* frames may still be on its way when the reply to the other one arrives.
SentTwice(f) == f.items >= Limit[f.kind]

\* A reply whose unit or protocol differs from the request's is dropped and the
\* request stays; every other reply ends the request, handled or not.
HandleData ==
  /\ pc = "idle" /\ conn = "OPEN"
  /\ \E f \in wire, outcome \in Outcomes :
        /\ wire' = wire \ {f} \/ (SentTwice(f) /\ wire' = wire)
        /\ \/ /\ Orphan(f)
              /\ UNCHANGED <<requests, errors, pv>>
           \/ \E i \in DOMAIN requests :
                 /\ Addressee(f, i)
                 /\ \/ /\ outcome = "mismatch" \/ f.unit # requests[i].unit
                       /\ UNCHANGED <<requests, errors, pv>>
                    \/ /\ outcome # "mismatch" /\ f.unit = requests[i].unit
                       /\ HandleResponse(f, requests[i], outcome)
                       /\ requests' = Without(requests, i)
  /\ UNCHANGED <<pc, scan, requestId, conn, config, env>>

-----------------------------------------------------------------------------
(* Accessors of the slave and its channels.                                *)

\* Slip: the acknowledged channel stays linked to the slave.
AcknowledgeLinked ==
  /\ pc = "idle"
  /\ error' = [c \in Channel |-> IF c = errorLink THEN FALSE ELSE error[c]]
  /\ slaveError' = FALSE
  /\ conn' = IF conn = "ERROR" THEN "CLOSED" ELSE conn
  /\ UNCHANGED <<pc, scan, requestId, requests, wire, config, errorLink, pv, env>>

\* ack := TRUE clears the one channel found under errorChannels.
Acknowledge ==
  /\ pc = "idle"
  /\ error' = [c \in Channel |-> IF c = errorLink THEN FALSE ELSE error[c]]
  /\ errorLink' = NoChannel
  /\ slaveError' = FALSE
  /\ conn' = IF conn = "ERROR" THEN "CLOSED" ELSE conn
  /\ UNCHANGED <<pc, scan, requestId, requests, wire, config, pv, env>>

\* A new host or port closes the connection; requests stay until they expire.
SetHost ==
  /\ pc = "idle" /\ conn # "CLOSED"
  /\ faults < MaxFaults /\ faults' = faults + 1
  /\ conn' = "CLOSED"
  /\ wire' = {}
  /\ UNCHANGED <<pc, scan, requestId, requests, config, errors, pv, restarts>>

\* Slip: only the operating mode guards the address.
SetAddressUnlinked ==
  /\ pc = "idle"
  /\ \E c \in Channel : \E a \in AddressOf[c] :
        /\ ~active[c]
        /\ address' = [address EXCEPT ![c] = a]
  /\ UNCHANGED <<pc, scan, requestId, requests, conn, wire, unit, active, errors, pv, env>>

SetAddress ==
  /\ pc = "idle"
  /\ \E c \in Channel : \E a \in AddressOf[c] :
        /\ ~active[c] /\ ~Linked(c)
        /\ address' = [address EXCEPT ![c] = a]
  /\ UNCHANGED <<pc, scan, requestId, requests, conn, wire, unit, active, errors, pv, env>>

\* unitIdentifier has no accessor: nothing stops a change during a request.
SetUnit ==
  /\ pc = "idle"
  /\ \E c \in Channel : \E u \in UnitOf[c] : unit' = [unit EXCEPT ![c] = u]
  /\ UNCHANGED <<pc, scan, requestId, requests, conn, wire, address, active, errors, pv, env>>

SetActimode ==
  /\ pc = "idle"
  /\ \E c \in Channel : \E a \in ActimodeOf[c] : active' = [active EXCEPT ![c] = a]
  /\ UNCHANGED <<pc, scan, requestId, requests, conn, wire, unit, address, errors, pv, env>>

-----------------------------------------------------------------------------
(* Time, network and server.                                               *)

\* The time validTill of the request headed by c passes.
ExpireRequest(c) ==
  /\ pc = "idle"
  /\ \E i \in DOMAIN requests :
        /\ requests[i].head = c /\ ~requests[i].late
        /\ requests' = [requests EXCEPT ![i].late = TRUE]
  /\ UNCHANGED <<pc, scan, requestId, conn, wire, config, errors, pv, env>>

LoseFrame ==
  /\ \E f \in wire : wire' = wire \ {f}
  /\ UNCHANGED <<pc, scan, requestId, requests, conn, config, errors, pv, env>>

ConnectionUp ==
  /\ pc = "idle" /\ conn = "OPENING"
  /\ conn' = "OPEN"
  /\ UNCHANGED <<pc, scan, requestId, requests, wire, config, errors, pv, env>>

ConnectionFault ==
  /\ pc = "idle" /\ conn \in {"OPENING", "OPEN"}
  /\ faults < MaxFaults /\ faults' = faults + 1
  /\ conn' \in {"CLOSED", "ERROR"}
  /\ wire' = {}
  /\ UNCHANGED <<pc, scan, requestId, requests, config, errors, pv, restarts>>

\* The OV database keeps every object, the requests too; the static counter of
\* ids starts again and the socket is gone.
Restart ==
  /\ restarts < MaxRestarts /\ restarts' = restarts + 1
  /\ pc' = "idle"
  /\ scan' = [kind |-> 1, pos |-> 1, curr |-> 255, next |-> NoUnit, has |-> FALSE]
  /\ requestId' = 0
  /\ requests' = [i \in DOMAIN requests |-> [requests[i] EXCEPT !.old = TRUE]]
  /\ conn' = "CLOSED"
  /\ wire' = {}
  /\ UNCHANGED <<config, errors, pv, faults>>

ScanStep ==
  \/ VisitChannel \/ SkipChannel \/ EndPass
  \/ CreationFails \/ FullUnsent \/ EndPassUnsent

Next ==
  \/ Execute \/ PurgeRequest \/ OpenConnection \/ BeginScan \/ NotConnected
  \/ ScanStep
  \/ HandleData
  \/ Acknowledge \/ SetHost \/ SetAddress \/ SetUnit \/ SetActimode
  \/ \E c \in Channel : ExpireRequest(c)
  \/ LoseFrame \/ ConnectionUp \/ ConnectionFault \/ Restart

Spec == Init /\ [][Next]_vars

-----------------------------------------------------------------------------
(* Invariants.                                                             *)

\* Every variable has its type.
TypeOK ==
  /\ pc \in {"idle", "purge", "scan", "crashed"}
  /\ scan \in Scan
  /\ requestId \in Nat
  /\ requests \in Seq(Request)
  /\ conn \in ConnState
  /\ wire \subseteq Frame
  /\ unit \in [Channel -> Nat]
  /\ address \in [Channel -> Nat]
  /\ active \in [Channel -> BOOLEAN]
  /\ error \in [Channel -> BOOLEAN]
  /\ errorLink \in Channel \cup {NoChannel}
  /\ slaveError \in BOOLEAN
  /\ pv \in [Channel -> [unit : Int, reg : Int]]
  /\ faults \in Nat
  /\ restarts \in Nat

\* A channel is in the chain of at most one request, and every chain holds its
\* head and only channels of the request's kind: typemethod takes a channel
\* only while it is linked to no request, and every way a request ends (reply,
\* timeout) frees the whole chain.
ChainsDisjoint ==
  /\ \A i, j \in DOMAIN requests :
        i # j => requests[i].members \cap requests[j].members = {}
  /\ \A i \in DOMAIN requests :
        /\ requests[i].head \in requests[i].members
        /\ \A c \in requests[i].members : KindOf[c] = requests[i].kind

\* A request asks for at least one item and at most the limit of its kind, and
\* for every channel in its chain the channel's address: sending in the middle
\* of the scan, growing downwards and the guard of address_set all keep it so.
RequestCoversChain ==
  \A i \in DOMAIN requests :
    LET r == requests[i] IN
      /\ r.items \in 1..Limit[r.kind]
      /\ \A c \in r.members : address[c] \in r.start..(r.start + r.items - 1)

\* The channel under errorChannels is in error, so acknowledging clears an
\* error that is there: the link is made only with the flag and is taken away
\* together with it.
LinkedErrorIsSet == errorLink # NoChannel => error[errorLink]

\* While all channels have the same unit, a frame on the network with the id of
\* a live request is that request as it stands: the scan may send a request
\* twice, but not change it in between.
FramesMatch ==
  \A f \in wire : \A i \in DOMAIN requests :
    requests[i].id = f.id => f = FrameOf(requests[i])

-----------------------------------------------------------------------------
(* Action and liveness properties.                                         *)

\* A process value is only ever taken from the register of the unit and the
\* address the channel is configured for ("Channels address in the process
\* image"), however late the reply is and whatever was reconfigured meanwhile.
RightRegister ==
  [][\A c \in Channel :
       pv'[c] # pv[c] => pv'[c] = [unit |-> unit[c], reg |-> address[c]]]_vars

\* The server keeps calling typemethod and its steps are taken; a frame does not
\* stay on the network for ever.  validTill is a fixed time and the channel has
\* its turn between executions, so these two happen although they are disabled
\* while typemethod runs: that takes strong fairness.
TypemethodStep == PurgeRequest \/ OpenConnection \/ BeginScan \/ NotConnected \/ ScanStep

Fairness ==
  /\ WF_vars(Execute)
  /\ WF_vars(TypemethodStep)
  /\ WF_vars(LoseFrame)
  /\ \A c \in Channel : SF_vars(ExpireRequest(c))
  /\ SF_vars(ConnectionUp)

FairSpec == Spec /\ Fairness

\* The scan ends: an execution of typemethod gives the server back.
ScanEnds == pc = "scan" ~> pc # "scan"

\* A channel waiting for a reply is released, even if the device never answers
\* or the connection is gone: the request runs out of time.
ChannelReleased == \A c \in Channel : Linked(c) ~> ~Linked(c)

\* Every active channel is put into a request again and again.
EveryChannelPolled == \A c \in Channel : []<>(active[c] => Linked(c))

=============================================================================
