------------------------- MODULE ModbusSlaveProofs -------------------------
(***************************************************************************)
(* Proofs about ModbusSlave, for every plant, limit and bound.             *)
(***************************************************************************)
EXTENDS ModbusSlave, SequenceTheorems, FiniteSetTheorems, TLAPS

-----------------------------------------------------------------------------
(* The inductive invariant.                                                *)

\* A stored request has been offered its first channel, so it has a start.
Started == \A i \in DOMAIN requests : requests[i].start # NoStart

\* The request typemethod is filling is the last child, of the kind it scans.
FillsLast ==
  pc = "scan" /\ scan.has =>
    /\ Len(requests) > 0
    /\ requests[Len(requests)].kind = KindSeq[scan.kind]

IInv == TypeOK /\ ChainsDisjoint /\ RequestCoversChain /\ Started /\ FillsLast

\* What the invariant says of one request, for the addresses adr.
RequestOK(r, adr) ==
  /\ r \in Request
  /\ r.head \in r.members
  /\ \A c \in r.members : KindOf[c] = r.kind
  /\ r.start \in Nat
  /\ r.items \in 1..Limit[r.kind]
  /\ \A c \in r.members : adr[c] \in r.start..(r.start + r.items - 1)

\* ... and of all of them.
RequestsOK(s, adr) ==
  /\ s \in Seq(Request)
  /\ \A i \in 1..Len(s) : RequestOK(s[i], adr)
  /\ \A i, j \in 1..Len(s) : i # j => s[i].members \cap s[j].members = {}

-----------------------------------------------------------------------------
(* Sequences.                                                              *)

\* Deleting a child keeps the others and their order.
LEMMA WithoutProperties ==
  ASSUME NEW S, NEW s \in Seq(S), NEW i \in 1..Len(s)
  PROVE  /\ Without(s, i) \in Seq(S)
         /\ Len(Without(s, i)) = Len(s) - 1
         /\ \A j \in 1..(Len(s) - 1) :
               /\ j < i => Without(s, i)[j] = s[j]
               /\ j >= i => Without(s, i)[j] = s[j + 1]
<1>1. Len(s) \in Nat /\ s \in [1..Len(s) -> S]
  BY LenProperties
<1>2. Len(s) - 1 \in Nat
  BY <1>1
<1>3. \A j \in 1..(Len(s) - 1) : (IF j < i THEN s[j] ELSE s[j + 1]) \in S
  BY <1>1, <1>2
<1>4. Without(s, i) \in [1..(Len(s) - 1) -> S]
  BY <1>2, <1>3 DEF Without
<1>5. Without(s, i) \in Seq(S)
  BY <1>2, <1>4, SeqDef
<1>6. Len(Without(s, i)) = Len(s) - 1
  BY <1>2, <1>4, <1>5, LenProperties
<1>7. QED
  BY <1>1, <1>5, <1>6 DEF Without

\* The parts of the invariant about requests, put together and taken apart.
LEMMA PartsGiveRequestsOK ==
  ASSUME TypeOK, ChainsDisjoint, RequestCoversChain, Started
  PROVE  RequestsOK(requests, address)
<1>1. requests \in Seq(Request) /\ DOMAIN requests = 1..Len(requests)
  BY LenProperties DEF TypeOK
<1>2. \A i \in 1..Len(requests) : requests[i] \in Request
  BY <1>1, ElementOfSeq
<1>3. \A i \in 1..Len(requests) : requests[i].start \in Nat
  BY <1>1, <1>2 DEF Started, Request, NoStart
<1>4. QED
  BY <1>1, <1>2, <1>3 DEF ChainsDisjoint, RequestCoversChain, RequestsOK, RequestOK

LEMMA RequestsOKGivesParts ==
  ASSUME RequestsOK(requests', address')
  PROVE  requests' \in Seq(Request) /\ ChainsDisjoint' /\ RequestCoversChain' /\ Started'
<1>1. requests' \in Seq(Request) /\ DOMAIN requests' = 1..Len(requests')
  BY LenProperties DEF RequestsOK
<1>2. \A i \in 1..Len(requests') : RequestOK(requests'[i], address')
  BY DEF RequestsOK
<1>3. ChainsDisjoint'
  BY <1>1, <1>2 DEF ChainsDisjoint, RequestsOK, RequestOK
<1>4. RequestCoversChain'
  BY <1>1, <1>2 DEF RequestCoversChain, RequestOK
<1>5. Started'
  BY <1>1, <1>2 DEF Started, RequestOK, NoStart
<1>6. QED
  BY <1>1, <1>3, <1>4, <1>5

\* The four things typemethod, HandleData and a restart do to the requests.
LEMMA RequestsWithout ==
  ASSUME NEW adr, NEW s, RequestsOK(s, adr), NEW i \in 1..Len(s)
  PROVE  RequestsOK(Without(s, i), adr)
<1> DEFINE t == Without(s, i)
           k(j) == IF j < i THEN j ELSE j + 1
<1>1. s \in Seq(Request) /\ Len(s) \in Nat
  BY LenProperties DEF RequestsOK
<1>2. t \in Seq(Request) /\ Len(t) = Len(s) - 1
  BY <1>1, WithoutProperties
<1>3. \A j \in 1..Len(t) : k(j) \in 1..Len(s) /\ t[j] = s[k(j)]
  BY <1>1, <1>2, WithoutProperties
<1>4. \A j, l \in 1..Len(t) : j # l => k(j) # k(l)
  BY <1>1, <1>2
<1> HIDE DEF t, k
<1>5. \A j \in 1..Len(t) : RequestOK(t[j], adr)
  BY <1>3 DEF RequestsOK
<1>6. \A j, l \in 1..Len(t) : j # l => t[j].members \cap t[l].members = {}
  BY <1>3, <1>4 DEF RequestsOK
<1>7. RequestsOK(t, adr)
  BY <1>2, <1>5, <1>6 DEF RequestsOK
<1>8. QED
  BY <1>7 DEF t

LEMMA RequestsMarked ==
  ASSUME NEW adr, NEW s, RequestsOK(s, adr),
         NEW t \in Seq(Request), Len(t) = Len(s),
         \A i \in 1..Len(s) :
            /\ t[i].head = s[i].head /\ t[i].members = s[i].members
            /\ t[i].kind = s[i].kind /\ t[i].start = s[i].start
            /\ t[i].items = s[i].items
  PROVE  RequestsOK(t, adr)
<1>1. \A i \in 1..Len(t) : t[i] \in Request
  BY ElementOfSeq
<1>2. \A i \in 1..Len(t) : RequestOK(t[i], adr)
  BY <1>1 DEF RequestsOK, RequestOK
<1>3. QED
  BY <1>2 DEF RequestsOK

LEMMA RequestsAppended ==
  ASSUME NEW adr, NEW s, RequestsOK(s, adr), NEW r, RequestOK(r, adr),
         \A i \in 1..Len(s) : s[i].members \cap r.members = {}
  PROVE  RequestsOK(Append(s, r), adr)
<1> DEFINE t == Append(s, r)
<1>1. s \in Seq(Request) /\ r \in Request /\ Len(s) \in Nat
  BY LenProperties DEF RequestsOK, RequestOK
<1>2. /\ t \in Seq(Request) /\ Len(t) = Len(s) + 1
      /\ \A i \in 1..Len(s) : t[i] = s[i]
      /\ t[Len(s) + 1] = r
  BY <1>1, AppendProperties
<1> HIDE DEF t
<1>3. \A i \in 1..Len(t) : i \in 1..Len(s) \/ i = Len(s) + 1
  BY <1>1, <1>2
<1>4. \A i \in 1..Len(t) : RequestOK(t[i], adr)
  BY <1>2, <1>3 DEF RequestsOK
<1>5. \A i, j \in 1..Len(t) : i # j => t[i].members \cap t[j].members = {}
  BY <1>2, <1>3 DEF RequestsOK
<1>6. RequestsOK(t, adr)
  BY <1>2, <1>4, <1>5 DEF RequestsOK
<1>7. QED
  BY <1>6 DEF t

LEMMA RequestsReplaced ==
  ASSUME NEW adr, NEW s, RequestsOK(s, adr), NEW n \in 1..Len(s),
         NEW r, RequestOK(r, adr),
         \A i \in 1..Len(s) : i # n => s[i].members \cap r.members = {}
  PROVE  RequestsOK([s EXCEPT ![n] = r], adr)
<1> DEFINE t == [s EXCEPT ![n] = r]
<1>1. s \in Seq(Request) /\ r \in Request
  BY DEF RequestsOK, RequestOK
<1>2. /\ t \in Seq(Request) /\ Len(t) = Len(s)
      /\ \A i \in 1..Len(s) : t[i] = IF i = n THEN r ELSE s[i]
  BY <1>1, ExceptSeq
<1> HIDE DEF t
<1>3. \A i \in 1..Len(t) : RequestOK(t[i], adr)
  BY <1>2 DEF RequestsOK
<1>4. \A i, j \in 1..Len(t) : i # j => t[i].members \cap t[j].members = {}
  BY <1>2 DEF RequestsOK
<1>5. RequestsOK(t, adr)
  BY <1>2, <1>3, <1>4 DEF RequestsOK
<1>6. QED
  BY <1>5 DEF t

-----------------------------------------------------------------------------
(* Grouping.                                                               *)

\* addItem on the first channel: the request asks for that channel's register.
LEMMA FirstItem ==
  ASSUME TypeOK, NEW c \in Channel
  PROVE  LET r == Offered(NewRequest(c), c) IN
           /\ RequestOK(r, address)
           /\ r.members = {c} /\ r.kind = KindOf[c]
<1>1. /\ address[c] \in Nat /\ unit[c] \in Nat /\ requestId \in Nat
      /\ KindOf[c] \in Kind /\ Limit[KindOf[c]] \in Nat \ {0}
  BY ChannelAssumption DEF TypeOK
<1> DEFINE n == NewRequest(c)
           r == Offered(n, c)
<1>2. InWindow(n, address[c], Limit[n.kind])
  BY DEF NewRequest, InWindow
<1>3. r = [AddItem(n, address[c]) EXCEPT !.members = @ \cup {c}]
  BY <1>2 DEF Offered
<1>4. AddItem(n, address[c]) =
          [id |-> requestId, unit |-> unit[c], kind |-> KindOf[c],
           start |-> address[c], items |-> 1, head |-> c, members |-> {c},
           late |-> TRUE, old |-> FALSE]
  BY DEF AddItem, NewRequest
<1>5. r = [id |-> requestId, unit |-> unit[c], kind |-> KindOf[c],
           start |-> address[c], items |-> 1, head |-> c, members |-> {c},
           late |-> TRUE, old |-> FALSE]
  <2> DEFINE m == AddItem(n, address[c])
  <2>1. r = [m EXCEPT !.members = m.members \cup {c}]
    BY <1>3
  <2>2. m.members \cup {c} = {c}
    BY <1>4
  <2>3. m = [id |-> requestId, unit |-> unit[c], kind |-> KindOf[c],
             start |-> address[c], items |-> 1, head |-> c, members |-> {c},
             late |-> TRUE, old |-> FALSE]
    BY <1>4
  <2> HIDE DEF m, r
  <2>4. r = [m EXCEPT !.members = {c}]
    BY <2>1, <2>2
  <2>5. QED
    BY <2>3, <2>4
<1> HIDE DEF r
<1>6. r \in Request
  BY <1>1, <1>5 DEF Request
<1>7. RequestOK(r, address)
  BY <1>1, <1>5, <1>6 DEF RequestOK
<1>8. QED
  BY <1>5, <1>7 DEF r, n

\* addItem within the window keeps to the limit and covers what it covered.
LEMMA AddItemCovers ==
  ASSUME NEW start \in Nat, NEW items \in Nat \ {0}, NEW limit \in Nat \ {0},
         NEW r, r.start = start, r.items = items, r \in Request,
         items <= limit, NEW a \in Nat, InWindow(r, a, limit)
  PROVE  \E s \in Nat, n \in 1..limit :
           /\ AddItem(r, a) = [r EXCEPT !.start = s, !.items = n]
           /\ s <= start /\ start + items <= s + n
           /\ a \in s..(s + n - 1)
<1> DEFINE Fits(s, n) ==
             /\ AddItem(r, a) = [r EXCEPT !.start = s, !.items = n]
             /\ s <= start /\ start + items <= s + n
             /\ a \in s..(s + n - 1)
<1> SUFFICES \E s \in Nat, n \in 1..limit : Fits(s, n)
  OBVIOUS
<1>1. start # NoStart
  BY DEF NoStart
<1>2. CASE a < start
  <2>1. a > start + items - limit
    BY <1>1, <1>2 DEF InWindow
  <2>2. AddItem(r, a) = [r EXCEPT !.start = a, !.items = items + (start - a) + 1]
    BY <1>1, <1>2 DEF AddItem
  <2>3. items + (start - a) + 1 \in 1..limit
    BY <1>2, <2>1
  <2>4. Fits(a, items + (start - a) + 1)
    BY <1>2, <2>2
  <2> HIDE DEF Fits
  <2>5. QED
    BY <2>3, <2>4
<1>3. CASE a >= start + items
  <2>1. a < start + limit
    BY <1>1, <1>3 DEF InWindow
  <2>2. AddItem(r, a) = [r EXCEPT !.items = (a - start) + 1]
    BY <1>1, <1>3 DEF AddItem
  <2>3. AddItem(r, a) = [r EXCEPT !.start = start, !.items = (a - start) + 1]
    BY <2>2 DEF Request
  <2>4. (a - start) + 1 \in 1..limit
    BY <1>3, <2>1
  <2>5. Fits(start, (a - start) + 1)
    BY <1>3, <2>3
  <2> HIDE DEF Fits
  <2>6. QED
    BY <2>4, <2>5
<1>4. CASE a >= start /\ a < start + items
  <2>1. AddItem(r, a) = r
    BY <1>1, <1>4 DEF AddItem
  <2>2. AddItem(r, a) = [r EXCEPT !.start = start, !.items = items]
    BY <2>1 DEF Request
  <2>3. Fits(start, items)
    BY <1>4, <2>2
  <2>4. items \in 1..limit
    OBVIOUS
  <2> HIDE DEF Fits
  <2>5. QED
    BY <2>3, <2>4
<1>5. a < start \/ a >= start + items \/ (a >= start /\ a < start + items)
  OBVIOUS
<1>6. QED
  BY <1>2, <1>3, <1>4, <1>5, Zenon

\* Offering a channel of its kind to a request keeps it in order.
LEMMA NextItem ==
  ASSUME TypeOK, NEW c \in Channel, NEW r, RequestOK(r, address), KindOf[c] = r.kind
  PROVE  /\ RequestOK(Offered(r, c), address)
         /\ Offered(r, c).members \subseteq r.members \cup {c}
         /\ Offered(r, c).kind = r.kind
<1> DEFINE a == address[c]
           limit == Limit[r.kind]
<1>0. r \in Request /\ r.kind \in Kind /\ r.start \in Nat
  BY DEF RequestOK, Request
<1>1. /\ a \in Nat /\ limit \in Nat \ {0} /\ r \in Request
      /\ r.items \in Nat \ {0} /\ r.items <= limit /\ r.start \in Nat
  <2>1. a \in Nat
    BY DEF TypeOK
  <2>2. limit \in Nat \ {0}
    BY <1>0, ChannelAssumption
  <2>3. r.items \in 1..limit
    BY DEF RequestOK
  <2>4. QED
    BY <1>0, <2>1, <2>2, <2>3
<1>2. CASE ~InWindow(r, a, limit)
  <2>1. Offered(r, c) = r
    BY <1>2 DEF Offered
  <2>2. QED
    BY <2>1
<1>3. CASE InWindow(r, a, limit)
  <2>1. PICK s \in Nat, n \in 1..limit :
           /\ AddItem(r, a) = [r EXCEPT !.start = s, !.items = n]
           /\ s <= r.start /\ r.start + r.items <= s + n
           /\ a \in s..(s + n - 1)
    BY <1>1, <1>3, AddItemCovers, ZenonT(60)
  <2> DEFINE o == [r EXCEPT !.start = s, !.items = n, !.members = @ \cup {c}]
  <2>2. Offered(r, c) = o
    BY <1>1, <1>3, <2>1 DEF Offered, Request
  <2>3. /\ o.start = s /\ o.items = n /\ o.members = r.members \cup {c}
        /\ o.kind = r.kind /\ o.head = r.head /\ o \in Request
    <3>1. n \in Nat /\ r.members \cup {c} \in SUBSET Channel
      BY <1>1 DEF Request
    <3>2. o \in Request
      BY <1>1, <3>1 DEF Request
    <3>3. QED
      BY <1>1, <3>2 DEF Request
  <2> HIDE DEF o
  <2>4. \A d \in o.members : address[d] \in o.start..(o.start + o.items - 1)
    <3> SUFFICES ASSUME NEW d \in o.members
                 PROVE  address[d] \in s..(s + n - 1)
      BY <2>3
    <3>1. CASE d = c
      BY <2>1, <3>1
    <3>2. CASE d # c
      <4>1. address[d] \in r.start..(r.start + r.items - 1)
        BY <2>3, <3>2 DEF RequestOK
      <4>2. QED
        BY <1>1, <2>1, <4>1
    <3>3. QED
      BY <3>1, <3>2
  <2>5. /\ o.head \in o.members
        /\ \A d \in o.members : KindOf[d] = o.kind
    BY <2>3 DEF RequestOK
  <2>6. RequestOK(o, address)
    BY <2>1, <2>3, <2>4, <2>5 DEF RequestOK
  <2>7. QED
    BY <2>2, <2>3, <2>6
<1>4. QED
  BY <1>2, <1>3

-----------------------------------------------------------------------------
(* Steps of the scan.                                                      *)

\* Sending a request changes its time limit only.
LEMMA SentIsOK ==
  ASSUME NEW adr, NEW r, RequestOK(r, adr)
  PROVE  /\ RequestOK(Sent(r), adr)
         /\ Sent(r).members = r.members /\ Sent(r).kind = r.kind
         /\ FrameOf(r) \in Frame
<1>1. r \in Request /\ r.start \in Nat
  BY DEF RequestOK
<1>2. FrameOf(r) \in Frame
  BY <1>1 DEF FrameOf, Frame, Request
<1> DEFINE q == Sent(r)
<1>3. /\ q \in Request
      /\ q.head = r.head /\ q.members = r.members /\ q.kind = r.kind
      /\ q.start = r.start /\ q.items = r.items
  BY <1>1 DEF Sent, Request
<1> HIDE DEF q
<1>4. RequestOK(q, adr)
  BY <1>3 DEF RequestOK
<1>5. QED
  BY <1>2, <1>3, <1>4 DEF q

\* The channel goes into a new request or into the one being filled; either
\* way, with r or with r marked as sent in its place, the requests are in order.
LEMMA GroupedOK ==
  ASSUME IInv, pc = "scan", NEW c \in Channel, NextCandidate(c)
  PROVE  LET r == Offered(Current(c), c) IN
           /\ RequestOK(r, address)
           /\ r.kind = KindSeq[scan.kind]
           /\ \A q \in {r, Sent(r)} :
                /\ RequestsOK(WithCurrent(q), address)
                /\ Len(WithCurrent(q)) > 0
                /\ WithCurrent(q)[Len(WithCurrent(q))].kind = KindSeq[scan.kind]
<1> DEFINE r == Offered(Current(c), c)
           n == Len(requests)
<1>1. TypeOK /\ RequestsOK(requests, address) /\ requests \in Seq(Request) /\ n \in Nat
  BY PartsGiveRequestsOK, LenProperties DEF IInv, TypeOK
<1>2. KindOf[c] = KindSeq[scan.kind] /\ ~Linked(c)
  BY DEF NextCandidate, Candidates
<1>3. \A i \in 1..n : c \notin requests[i].members
  BY <1>1, <1>2, LenProperties DEF Linked
<1>4. CASE ~scan.has
  <2>1. RequestOK(r, address) /\ r.members = {c} /\ r.kind = KindOf[c]
    BY <1>1, <1>4, FirstItem DEF Current
  <2> HIDE DEF r
  <2>2. ASSUME NEW q \in {r, Sent(r)}
        PROVE  /\ RequestsOK(WithCurrent(q), address)
               /\ Len(WithCurrent(q)) > 0
               /\ WithCurrent(q)[Len(WithCurrent(q))].kind = KindSeq[scan.kind]
    <3>1. RequestOK(q, address) /\ q.members = {c} /\ q.kind = KindSeq[scan.kind]
      BY <1>2, <2>1, SentIsOK
    <3>2. WithCurrent(q) = Append(requests, q)
      BY <1>4 DEF WithCurrent
    <3>3. RequestsOK(Append(requests, q), address)
      BY <1>1, <1>3, <3>1, RequestsAppended
    <3>4. /\ Len(Append(requests, q)) = n + 1
          /\ Append(requests, q)[n + 1] = q
      BY <1>1, <3>1, AppendProperties DEF RequestOK
    <3>5. QED
      BY <1>1, <3>1, <3>2, <3>3, <3>4
  <2>3. QED
    BY <1>2, <2>1, <2>2 DEF r
<1>5. CASE scan.has
  <2>1. n \in 1..n /\ requests[n].kind = KindSeq[scan.kind]
    BY <1>1, <1>5 DEF IInv, FillsLast
  <2>2. RequestOK(requests[n], address)
    BY <1>1, <2>1 DEF RequestsOK
  <2>3. /\ RequestOK(r, address)
        /\ r.members \subseteq requests[n].members \cup {c}
        /\ r.kind = KindOf[c]
    BY <1>1, <1>2, <1>5, <2>1, <2>2, NextItem DEF Current
  <2> HIDE DEF r
  <2>4. ASSUME NEW q \in {r, Sent(r)}
        PROVE  /\ RequestsOK(WithCurrent(q), address)
               /\ Len(WithCurrent(q)) > 0
               /\ WithCurrent(q)[Len(WithCurrent(q))].kind = KindSeq[scan.kind]
    <3>1. /\ RequestOK(q, address)
          /\ q.members \subseteq requests[n].members \cup {c}
          /\ q.kind = KindSeq[scan.kind]
      BY <1>2, <2>3, SentIsOK, SMTT(60)
    <3>2. WithCurrent(q) = [requests EXCEPT ![n] = q]
      BY <1>5 DEF WithCurrent
    <3>3. \A i \in 1..n : i # n => requests[i].members \cap q.members = {}
      BY <1>1, <1>3, <2>1, <3>1 DEF RequestsOK
    <3>4. RequestsOK([requests EXCEPT ![n] = q], address)
      BY <1>1, <2>1, <3>1, <3>3, RequestsReplaced
    <3>5. /\ Len([requests EXCEPT ![n] = q]) = n
          /\ [requests EXCEPT ![n] = q][n] = q
      BY <1>1, <2>1, <3>1, ExceptSeq DEF RequestOK
    <3>6. QED
      BY <2>1, <3>1, <3>2, <3>4, <3>5
  <2>5. QED
    BY <1>2, <2>3, <2>4 DEF r
<1>6. QED
  BY <1>4, <1>5

LEMMA VisitChannelKeeps ==
  ASSUME IInv, VisitChannel
  PROVE  IInv'
<1>1. PICK c \in Channel :
         NextCandidate(c) /\ unit[c] = scan.curr /\ active[c] /\ GroupChannel(c)
  BY DEF VisitChannel
<1>2. /\ pc = "scan"
      /\ UNCHANGED <<conn, unit, address, active, error, errorLink, slaveError,
                     pv, faults, restarts>>
  BY DEF VisitChannel, config, errors, env
<1> DEFINE r == Offered(Current(c), c)
<1>3. /\ RequestOK(r, address) /\ r.kind = KindSeq[scan.kind]
      /\ \A q \in {r, Sent(r)} :
           /\ RequestsOK(WithCurrent(q), address)
           /\ Len(WithCurrent(q)) > 0
           /\ WithCurrent(q)[Len(WithCurrent(q))].kind = KindSeq[scan.kind]
  BY <1>1, <1>2, GroupedOK
<1>4. FrameOf(r) \in Frame
  BY <1>3, SentIsOK
<1>5. requestId' \in Nat
  BY <1>1, EnvAssumption, SMTT(60) DEF GroupChannel, IInv, TypeOK, NextId
<1>6. /\ \E q \in {r, Sent(r)} : requests' = WithCurrent(q)
      /\ wire' \subseteq wire \cup {FrameOf(r)}
      /\ \/ scan' = [scan EXCEPT !.pos = c + 1, !.has = TRUE] /\ pc' = pc
         \/ /\ scan' = [scan EXCEPT !.pos = NumChannel + 1, !.has = TRUE,
                                    !.next = IF @ = NoUnit THEN scan.curr ELSE @]
            /\ pc' = pc
         \/ scan' = scan /\ pc' = "crashed"
  BY <1>1 DEF GroupChannel, Send
<1> HIDE DEF r
<1>7. RequestsOK(requests', address')
  BY <1>2, <1>3, <1>6
<1>8. scan \in Scan /\ NumChannel \in Nat /\ c \in 1..NumChannel
  BY ChannelAssumption DEF IInv, TypeOK, Channel
<1>9. scan' \in Scan /\ scan'.kind = scan.kind
  <2>1. c + 1 \in 1..(NumChannel + 1) /\ NumChannel + 1 \in 1..(NumChannel + 1)
    BY <1>8
  <2>2. (IF scan.next = NoUnit THEN scan.curr ELSE scan.next) \in Nat \cup {NoUnit}
    BY <1>8 DEF Scan
  <2>3. CASE scan' = [scan EXCEPT !.pos = c + 1, !.has = TRUE]
    BY <1>8, <2>1, <2>3 DEF Scan
  <2>4. CASE scan' = [scan EXCEPT !.pos = NumChannel + 1, !.has = TRUE,
                            !.next = IF @ = NoUnit THEN scan.curr ELSE @]
    BY <1>8, <2>1, <2>2, <2>4 DEF Scan
  <2>5. CASE scan' = scan
    BY <1>8, <2>5
  <2>6. QED
    BY <1>6, <2>3, <2>4, <2>5
<1>10. TypeOK'
  BY <1>2, <1>4, <1>5, <1>6, <1>7, <1>9 DEF IInv, TypeOK, RequestsOK
<1>11. FillsLast'
  BY <1>3, <1>6, <1>9 DEF FillsLast
<1>12. QED
  BY <1>7, <1>10, <1>11, RequestsOKGivesParts DEF IInv

\* The next pass starts from a scan of the right type.
LEMMA NextPassKeeps ==
  ASSUME TypeOK, pc = "scan", NextPass
  PROVE  /\ scan' \in Scan /\ pc' \in {"scan", "idle"}
         /\ pc' = "scan" /\ scan'.has => scan.has /\ scan'.kind = scan.kind
<1>1. scan \in Scan /\ 1 \in 1..(NumChannel + 1)
  BY ChannelAssumption DEF TypeOK
<1>2. CASE scan.next # NoUnit
  <2>1. /\ scan' = [scan EXCEPT !.pos = 1, !.curr = scan.next, !.next = NoUnit]
        /\ pc' = pc
    BY <1>2 DEF NextPass
  <2>2. scan.next \in Nat
    BY <1>1, <1>2 DEF Scan
  <2>3. QED
    BY <1>1, <2>1, <2>2 DEF Scan
<1>3. CASE scan.next = NoUnit /\ scan.kind < 4
  <2>1. /\ scan' = [scan EXCEPT !.kind = @ + 1, !.pos = 1, !.has = FALSE]
        /\ pc' = pc
    BY <1>3 DEF NextPass
  <2>2. scan.kind + 1 \in 1..4
    BY <1>1, <1>3 DEF Scan
  <2>3. QED
    BY <1>1, <2>1, <2>2 DEF Scan
<1>4. CASE scan.next = NoUnit /\ scan.kind = 4
  <2>1. /\ scan' = [scan EXCEPT !.kind = 1, !.pos = 1, !.curr = 255, !.has = FALSE]
        /\ pc' = "idle"
    BY <1>4 DEF NextPass
  <2>2. 1 \in 1..4 /\ 255 \in Nat
    OBVIOUS
  <2>3. scan' \in Scan
    BY <1>1, <2>1, <2>2, ZenonT(60) DEF Scan
  <2>4. QED
    BY <2>1, <2>3
<1>5. QED
  BY <1>2, <1>3, <1>4 DEF NextPass

LEMMA EndPassKeeps ==
  ASSUME IInv, EndPass
  PROVE  IInv'
<1> DEFINE n == Len(requests)
<1>1. /\ TypeOK /\ RequestsOK(requests, address)
      /\ requests \in Seq(Request) /\ n \in Nat
  BY PartsGiveRequestsOK, LenProperties DEF IInv, TypeOK
<1>2. /\ pc = "scan"
      /\ UNCHANGED <<requestId, conn, unit, address, active, error, errorLink,
                     slaveError, pv, faults, restarts>>
  BY DEF EndPass, PassEnded, config, errors, env
<1>3. CASE ~scan.has /\ NextPass /\ UNCHANGED <<requests, wire>>
  <2>1. scan' \in Scan /\ pc' \in {"scan", "idle"} /\ ~(pc' = "scan" /\ scan'.has)
    BY <1>1, <1>2, <1>3, NextPassKeeps
  <2>2. TypeOK' /\ FillsLast'
    BY <1>1, <1>2, <1>3, <2>1 DEF TypeOK, FillsLast
  <2>3. RequestsOK(requests', address')
    BY <1>1, <1>2, <1>3
  <2>4. QED
    BY <2>2, <2>3, RequestsOKGivesParts DEF IInv
<1>4. CASE /\ scan.has /\ Send(requests[n]) /\ NextPass
           /\ requests' = [requests EXCEPT ![n] = Sent(@)]
  <2>1. n \in 1..n /\ requests[n].kind = KindSeq[scan.kind]
    BY <1>1, <1>2, <1>4 DEF IInv, FillsLast
  <2> DEFINE q == Sent(requests[n])
  <2>2. RequestOK(requests[n], address)
    BY <1>1, <2>1 DEF RequestsOK
  <2>3. /\ RequestOK(q, address)
        /\ q.members = requests[n].members /\ q.kind = requests[n].kind
        /\ FrameOf(requests[n]) \in Frame
    BY <2>2, SentIsOK
  <2>4. requests' = [requests EXCEPT ![n] = q]
    BY <1>4
  <2> HIDE DEF q
  <2>5. \A i \in 1..n : i # n => requests[i].members \cap q.members = {}
    BY <1>1, <2>1, <2>3 DEF RequestsOK
  <2>6. RequestsOK(requests', address')
    BY <1>1, <1>2, <2>1, <2>3, <2>4, <2>5, RequestsReplaced
  <2>7. Len(requests') = n /\ requests'[n] = q
    BY <1>1, <2>1, <2>3, <2>4, ExceptSeq DEF RequestOK
  <2>8. /\ scan' \in Scan /\ pc' \in {"scan", "idle"}
        /\ pc' = "scan" /\ scan'.has => scan'.kind = scan.kind
    BY <1>1, <1>2, <1>4, NextPassKeeps
  <2>9. TypeOK'
    BY <1>1, <1>2, <1>4, <2>3, <2>6, <2>8 DEF TypeOK, RequestsOK, Send
  <2>10. FillsLast'
    BY <2>1, <2>3, <2>7, <2>8 DEF FillsLast
  <2>11. QED
    BY <2>6, <2>9, <2>10, RequestsOKGivesParts DEF IInv
<1>5. CASE pc' = "crashed" /\ UNCHANGED <<scan, requests, wire>>
  <2>1. TypeOK' /\ FillsLast'
    BY <1>1, <1>2, <1>5 DEF TypeOK, FillsLast
  <2>2. RequestsOK(requests', address')
    BY <1>1, <1>2, <1>5
  <2>3. QED
    BY <2>1, <2>2, RequestsOKGivesParts DEF IInv
<1>6. QED
  BY <1>3, <1>4, <1>5 DEF EndPass

\* Without room for a request only the scan moves on.
LEMMA CreationFailsKeeps ==
  ASSUME IInv, CreationFails
  PROVE  IInv'
<1>1. /\ pc = "scan" /\ pc' = pc /\ ~scan.has /\ requests' = requests
      /\ scan' = [scan EXCEPT !.pos = NumChannel + 1]
      /\ requestId' \in {requestId, NextId} /\ faults' = faults + 1
      /\ UNCHANGED <<conn, wire, unit, address, active, error, errorLink,
                     slaveError, pv, restarts>>
  BY DEF CreationFails, config, errors
<1>2. scan \in Scan /\ NumChannel + 1 \in 1..(NumChannel + 1) /\ requestId \in Nat
  BY ChannelAssumption DEF IInv, TypeOK
<1>3. scan' \in Scan /\ ~scan'.has
  BY <1>1, <1>2 DEF Scan
<1>4. requestId' \in Nat
  BY <1>1, <1>2, EnvAssumption, SMTT(60) DEF NextId
<1>5. TypeOK' /\ FillsLast'
  BY <1>1, <1>3, <1>4 DEF IInv, TypeOK, FillsLast
<1>6. RequestsOK(requests', address')
  BY <1>1, PartsGiveRequestsOK DEF IInv
<1>7. QED
  BY <1>5, <1>6, RequestsOKGivesParts DEF IInv

\* A full request that cannot be sent is stored like one that is.
LEMMA FullUnsentKeeps ==
  ASSUME IInv, FullUnsent
  PROVE  IInv'
<1>1. PICK c \in Channel :
        /\ NextCandidate(c)
        /\ requestId' = IF scan.has THEN requestId ELSE NextId
        /\ requests' = WithCurrent(Offered(Current(c), c))
  BY DEF FullUnsent
<1>2. /\ pc = "scan" /\ pc' = pc /\ faults' = faults + 1
      /\ scan' = [scan EXCEPT !.pos = NumChannel + 1, !.has = TRUE,
                              !.next = IF @ = NoUnit THEN scan.curr ELSE @]
      /\ UNCHANGED <<conn, wire, unit, address, active, error, errorLink,
                     slaveError, pv, restarts>>
  BY DEF FullUnsent, config, errors
<1> DEFINE r == Offered(Current(c), c)
<1>3. /\ RequestsOK(WithCurrent(r), address)
      /\ Len(WithCurrent(r)) > 0
      /\ WithCurrent(r)[Len(WithCurrent(r))].kind = KindSeq[scan.kind]
  BY <1>1, <1>2, GroupedOK
<1>4. requestId' \in Nat
  BY <1>1, EnvAssumption, SMTT(60) DEF IInv, TypeOK, NextId
<1>5. requests' = WithCurrent(r)
  BY <1>1
<1> HIDE DEF r
<1>6. scan \in Scan /\ NumChannel + 1 \in 1..(NumChannel + 1)
  BY ChannelAssumption DEF IInv, TypeOK
<1>7. (IF scan.next = NoUnit THEN scan.curr ELSE scan.next) \in Nat \cup {NoUnit}
  BY <1>6 DEF Scan
<1>8. scan' \in Scan /\ scan'.kind = scan.kind
  BY <1>2, <1>6, <1>7 DEF Scan
<1>9. RequestsOK(requests', address')
  BY <1>2, <1>3, <1>5
<1>10. TypeOK'
  <2>1. faults' \in Nat /\ pc' \in {"idle", "purge", "scan", "crashed"}
    BY <1>2 DEF IInv, TypeOK
  <2>2. requests' \in Seq(Request)
    BY <1>9 DEF RequestsOK
  <2>3. QED
    BY <1>2, <1>4, <1>8, <2>1, <2>2 DEF IInv, TypeOK
<1>11. FillsLast'
  BY <1>3, <1>5, <1>8 DEF FillsLast
<1>12. QED
  BY <1>9, <1>10, <1>11, RequestsOKGivesParts DEF IInv

\* A request that cannot be sent stays where it is.
LEMMA EndPassUnsentKeeps ==
  ASSUME IInv, EndPassUnsent
  PROVE  IInv'
<1>1. /\ pc = "scan" /\ scan.has /\ NextPass /\ faults' = faults + 1
      /\ UNCHANGED <<requestId, requests, conn, wire, unit, address, active,
                     error, errorLink, slaveError, pv, restarts>>
  BY DEF EndPassUnsent, PassEnded, config, errors
<1>2. /\ scan' \in Scan /\ pc' \in {"scan", "idle"}
      /\ pc' = "scan" /\ scan'.has => scan'.kind = scan.kind
  BY <1>1, NextPassKeeps DEF IInv
<1>3. TypeOK' /\ FillsLast'
  BY <1>1, <1>2 DEF IInv, TypeOK, FillsLast
<1>4. RequestsOK(requests', address')
  BY <1>1, PartsGiveRequestsOK DEF IInv
<1>5. QED
  BY <1>3, <1>4, RequestsOKGivesParts DEF IInv

LEMMA SkipChannelKeeps ==
  ASSUME IInv, SkipChannel
  PROVE  IInv'
<1>1. PICK c \in Channel :
        scan' = [scan EXCEPT !.pos = c + 1,
                             !.next = IF @ = NoUnit /\ active[c] THEN unit[c] ELSE @]
  BY DEF SkipChannel
<1>2. /\ pc = "scan" /\ pc' = pc /\ requests' = requests /\ address' = address
      /\ UNCHANGED <<requestId, conn, wire, unit, active, error, errorLink,
                     slaveError, pv, faults, restarts>>
  BY DEF SkipChannel, config, errors, env
<1>3. /\ scan \in Scan /\ unit[c] \in Nat
      /\ c + 1 \in 1..(NumChannel + 1)
  BY ChannelAssumption DEF IInv, TypeOK, Channel
<1>4. scan' \in Scan /\ scan'.kind = scan.kind /\ scan'.has = scan.has
  <2>1. (IF scan.next = NoUnit /\ active[c] THEN unit[c] ELSE scan.next) \in Nat \cup {NoUnit}
    BY <1>3 DEF Scan
  <2>2. QED
    BY <1>1, <1>3, <2>1 DEF Scan
<1>5. TypeOK' /\ FillsLast'
  BY <1>2, <1>4 DEF IInv, TypeOK, FillsLast
<1>6. RequestsOK(requests', address')
  BY <1>2, PartsGiveRequestsOK DEF IInv
<1>7. QED
  BY <1>5, <1>6, RequestsOKGivesParts DEF IInv

-----------------------------------------------------------------------------
(* The other steps.                                                        *)

LEMMA PurgeRequestKeeps ==
  ASSUME IInv, PurgeRequest
  PROVE  IInv'
<1>1. requests \in Seq(Request) /\ DOMAIN requests = 1..Len(requests)
  BY LenProperties DEF IInv, TypeOK
<1>2. PICK i \in 1..Len(requests) : requests' = Without(requests, i)
  BY <1>1 DEF PurgeRequest
<1>3. /\ pc' = "purge" /\ address' = address
      /\ UNCHANGED <<pc, scan, requestId, conn, wire, unit, active, error,
                     errorLink, slaveError, pv, faults, restarts>>
  BY DEF PurgeRequest, config, errors, env
<1>4. RequestsOK(requests', address')
  BY <1>2, <1>3, PartsGiveRequestsOK, RequestsWithout DEF IInv
<1>5. TypeOK' /\ FillsLast'
  BY <1>3, <1>4 DEF IInv, TypeOK, FillsLast, RequestsOK
<1>6. QED
  BY <1>4, <1>5, RequestsOKGivesParts DEF IInv

LEMMA HandleDataKeeps ==
  ASSUME IInv, HandleData
  PROVE  IInv'
<1>1. requests \in Seq(Request) /\ DOMAIN requests = 1..Len(requests)
  BY LenProperties DEF IInv, TypeOK
<1>2. PICK f \in wire, outcome \in Outcomes :
        /\ wire' \in SUBSET wire
        /\ \/ UNCHANGED <<requests, errors, pv>>
           \/ \E i \in 1..Len(requests) :
                /\ HandleResponse(f, requests[i], outcome)
                /\ requests' = Without(requests, i)
  BY <1>1 DEF HandleData, Addressee
<1>3. /\ pc = "idle" /\ address' = address
      /\ UNCHANGED <<pc, scan, requestId, conn, unit, active, faults, restarts>>
  BY DEF HandleData, config, env
<1>4. f \in Frame /\ wire' \subseteq Frame
  BY <1>2 DEF IInv, TypeOK
<1>5. /\ error' \in [Channel -> BOOLEAN]
      /\ errorLink' \in Channel \cup {NoChannel}
      /\ slaveError' \in BOOLEAN
      /\ pv' \in [Channel -> [unit : Int, reg : Int]]
  <2>1. /\ error \in [Channel -> BOOLEAN]
        /\ errorLink \in Channel \cup {NoChannel}
        /\ slaveError \in BOOLEAN
        /\ pv \in [Channel -> [unit : Int, reg : Int]]
        /\ address \in [Channel -> Nat]
    BY DEF IInv, TypeOK
  <2>2. CASE UNCHANGED <<requests, errors, pv>>
    BY <2>1, <2>2 DEF errors
  <2>3. ASSUME NEW i \in 1..Len(requests), HandleResponse(f, requests[i], outcome)
        PROVE  /\ error' \in [Channel -> BOOLEAN]
               /\ errorLink' \in Channel \cup {NoChannel}
               /\ slaveError' \in BOOLEAN
               /\ pv' \in [Channel -> [unit : Int, reg : Int]]
    <3> DEFINE r == requests[i]
    <3>1. r \in Request
      BY <1>1, ElementOfSeq
    <3>2. r.head \in Channel /\ r.start \in Int
      BY <3>1 DEF Request, NoStart
    <3>3. f.unit \in Int /\ f.start \in Int
      BY <1>4 DEF Frame, NoStart
    <3> HIDE DEF r
    <3>4. CASE UNCHANGED <<errors, pv>>
      BY <2>1, <3>4 DEF errors
    <3>5. CASE /\ UNCHANGED <<error, errorLink>> /\ slaveError' = FALSE
               /\ \/ pv' = pv
                  \/ pv' = [c \in Channel |->
                        IF c \in r.members
                        THEN [unit |-> f.unit, reg |-> f.start + (address[c] - r.start)]
                        ELSE pv[c]]
      <4>1. \A c \in Channel : f.start + (address[c] - r.start) \in Int
        BY <2>1, <3>2, <3>3
      <4>2. pv' \in [Channel -> [unit : Int, reg : Int]]
        BY <2>1, <3>3, <3>5, <4>1, SMTT(60)
      <4>3. QED
        BY <2>1, <3>5, <4>2
    <3>6. CASE /\ slaveError' = TRUE /\ pv' = pv
               /\ error' = [error EXCEPT ![r.head] = TRUE]
               /\ LinkError(r.head)
      BY <2>1, <3>2, <3>6 DEF LinkError
    <3>7. QED
      BY <2>3, <3>4, <3>5, <3>6 DEF HandleResponse, ReadResponse, r
  <2>4. QED
    BY <1>2, <2>2, <2>3
<1>6. RequestsOK(requests', address')
  BY <1>2, <1>3, PartsGiveRequestsOK, RequestsWithout DEF IInv
<1>7. TypeOK' /\ FillsLast'
  BY <1>3, <1>4, <1>5, <1>6 DEF IInv, TypeOK, FillsLast, RequestsOK
<1>8. QED
  BY <1>6, <1>7, RequestsOKGivesParts DEF IInv

\* An address only changes while no request holds the channel.
LEMMA SetAddressKeeps ==
  ASSUME IInv, SetAddress
  PROVE  IInv'
<1>0. PICK c \in Channel : \E x \in AddressOf[c] :
        ~Linked(c) /\ address' = [address EXCEPT ![c] = x]
  BY DEF SetAddress
<1>1. PICK a \in AddressOf[c] :
        ~Linked(c) /\ address' = [address EXCEPT ![c] = a]
  BY <1>0
<1>2. /\ pc = "idle"
      /\ UNCHANGED <<pc, scan, requestId, requests, conn, wire, unit, active,
                     error, errorLink, slaveError, pv, faults, restarts>>
  BY DEF SetAddress, errors, env
<1>3. address \in [Channel -> Nat] /\ a \in Nat
  BY PlantAssumption DEF IInv, TypeOK
<1>4. address' \in [Channel -> Nat] /\ \A d \in Channel : d # c => address'[d] = address[d]
  BY <1>1, <1>3
<1>5. requests \in Seq(Request) /\ DOMAIN requests = 1..Len(requests)
  BY LenProperties DEF IInv, TypeOK
<1>6. RequestsOK(requests, address)
  BY PartsGiveRequestsOK DEF IInv
<1>7. \A i \in 1..Len(requests) : RequestOK(requests[i], address')
  <2> SUFFICES ASSUME NEW i \in 1..Len(requests)
               PROVE  RequestOK(requests[i], address')
    OBVIOUS
  <2>1. RequestOK(requests[i], address) /\ requests[i].members \subseteq Channel
    BY <1>6 DEF RequestsOK, RequestOK, Request
  <2>2. c \notin requests[i].members
    BY <1>1, <1>5 DEF Linked
  <2>3. \A d \in requests[i].members : address'[d] = address[d]
    BY <1>4, <2>1, <2>2
  <2>4. QED
    BY <2>1, <2>3 DEF RequestOK
<1>8. RequestsOK(requests', address')
  BY <1>2, <1>6, <1>7 DEF RequestsOK
<1>9. TypeOK' /\ FillsLast'
  BY <1>2, <1>4, <1>5 DEF IInv, TypeOK, FillsLast
<1>10. QED
  BY <1>8, <1>9, RequestsOKGivesParts DEF IInv

\* The limit of a request and a restart only mark the stored requests.
LEMMA ExpireRequestKeeps ==
  ASSUME IInv, NEW c \in Channel, ExpireRequest(c)
  PROVE  IInv'
<1>1. requests \in Seq(Request) /\ DOMAIN requests = 1..Len(requests)
  BY LenProperties DEF IInv, TypeOK
<1>2. PICK i \in 1..Len(requests) : requests' = [requests EXCEPT ![i].late = TRUE]
  BY <1>1 DEF ExpireRequest
<1>3. /\ pc = "idle" /\ address' = address
      /\ UNCHANGED <<pc, scan, requestId, conn, wire, unit, active, error,
                     errorLink, slaveError, pv, faults, restarts>>
  BY DEF ExpireRequest, config, errors, env
<1> DEFINE r == requests[i]
           q == [r EXCEPT !.late = TRUE]
<1>4. r \in Request
  BY <1>1, ElementOfSeq
<1>5. /\ q \in Request /\ q.head = r.head /\ q.members = r.members
      /\ q.kind = r.kind /\ q.start = r.start /\ q.items = r.items
  BY <1>4 DEF Request
<1>6. requests' = [requests EXCEPT ![i] = q]
  BY <1>2
<1> HIDE DEF q
<1>7. /\ requests' \in Seq(Request) /\ Len(requests') = Len(requests)
      /\ \A j \in 1..Len(requests) : requests'[j] = IF j = i THEN q ELSE requests[j]
  BY <1>1, <1>5, <1>6, ExceptSeq
<1>8. RequestsOK(requests, address)
  BY PartsGiveRequestsOK DEF IInv
<1>9. \A j \in 1..Len(requests) :
            /\ requests'[j].head = requests[j].head
            /\ requests'[j].members = requests[j].members
            /\ requests'[j].kind = requests[j].kind
            /\ requests'[j].start = requests[j].start
            /\ requests'[j].items = requests[j].items
  BY <1>5, <1>7
<1>10. RequestsOK(requests', address')
  BY <1>3, <1>7, <1>8, <1>9, RequestsMarked
<1>11. TypeOK' /\ FillsLast'
  BY <1>3, <1>7 DEF IInv, TypeOK, FillsLast
<1>12. QED
  BY <1>10, <1>11, RequestsOKGivesParts DEF IInv

LEMMA RestartKeeps ==
  ASSUME IInv, Restart
  PROVE  IInv'
<1>1. requests \in Seq(Request) /\ DOMAIN requests = 1..Len(requests) /\ Len(requests) \in Nat
  BY LenProperties DEF IInv, TypeOK
<1>2. requests' = [i \in 1..Len(requests) |-> [requests[i] EXCEPT !.old = TRUE]]
  BY <1>1 DEF Restart
<1>3. /\ pc' = "idle" /\ requestId' = 0 /\ conn' = "CLOSED" /\ wire' = {}
      /\ scan' = [kind |-> 1, pos |-> 1, curr |-> 255, next |-> NoUnit, has |-> FALSE]
      /\ restarts' = restarts + 1
      /\ UNCHANGED <<unit, address, active, error, errorLink, slaveError, pv, faults>>
  BY DEF Restart, config, errors
<1>4. \A i \in 1..Len(requests) :
            /\ requests'[i] \in Request
            /\ requests'[i].head = requests[i].head
            /\ requests'[i].members = requests[i].members
            /\ requests'[i].kind = requests[i].kind
            /\ requests'[i].start = requests[i].start
            /\ requests'[i].items = requests[i].items
  <2> SUFFICES ASSUME NEW i \in 1..Len(requests)
               PROVE  /\ requests'[i] \in Request
                      /\ requests'[i].head = requests[i].head
                      /\ requests'[i].members = requests[i].members
                      /\ requests'[i].kind = requests[i].kind
                      /\ requests'[i].start = requests[i].start
                      /\ requests'[i].items = requests[i].items
    OBVIOUS
  <2>1. requests[i] \in Request
    BY <1>1, ElementOfSeq
  <2>2. requests'[i] = [requests[i] EXCEPT !.old = TRUE]
    BY <1>2
  <2>3. QED
    BY <2>1, <2>2 DEF Request
<1>5. requests' \in [1..Len(requests) -> Request]
  BY <1>2, <1>4
<1>6. requests' \in Seq(Request)
  BY <1>1, <1>5, SeqDef
<1>7. Len(requests') = Len(requests)
  BY <1>1, <1>5, <1>6, LenProperties
<1>8. RequestsOK(requests, address)
  BY PartsGiveRequestsOK DEF IInv
<1>9. RequestsOK(requests', address')
  BY <1>3, <1>4, <1>6, <1>7, <1>8, RequestsMarked
<1>10. scan' \in Scan
  BY <1>3, ChannelAssumption DEF Scan
<1>11. TypeOK' /\ FillsLast'
  BY <1>3, <1>6, <1>10 DEF IInv, TypeOK, FillsLast, ConnState
<1>12. QED
  BY <1>9, <1>11, RequestsOKGivesParts DEF IInv

\* All other steps leave the requests and the addresses alone.
LEMMA RequestsUntouched ==
  ASSUME IInv, UNCHANGED <<requests, address>>, TypeOK', FillsLast'
  PROVE  IInv'
BY PartsGiveRequestsOK, RequestsOKGivesParts DEF IInv

-----------------------------------------------------------------------------
(* Theorems.                                                               *)

LEMMA InitEstablishes == Init => IInv
<1> SUFFICES ASSUME Init PROVE IInv
  OBVIOUS
<1>1. requests = <<>> /\ requests \in Seq(Request) /\ Len(requests) = 0 /\ DOMAIN requests = {}
  BY DEF Init
<1>2. scan \in Scan
  BY ChannelAssumption DEF Init, Scan
<1>3. /\ unit \in [Channel -> Nat] /\ address \in [Channel -> Nat]
      /\ active \in [Channel -> BOOLEAN]
  BY PlantAssumption DEF Init, Choices
<1>4. pv \in [Channel -> [unit : Int, reg : Int]]
  BY DEF Init, NoReading, NoUnit, NoStart
<1>5. TypeOK
  BY <1>1, <1>2, <1>3, <1>4 DEF Init, TypeOK, ConnState
<1>6. ChainsDisjoint /\ RequestCoversChain /\ Started /\ FillsLast
  BY <1>1 DEF Init, ChainsDisjoint, RequestCoversChain, Started, FillsLast
<1>7. QED
  BY <1>5, <1>6 DEF IInv

LEMMA NextKeeps == IInv /\ [Next]_vars => IInv'
<1> SUFFICES ASSUME IInv, [Next]_vars PROVE IInv'
  OBVIOUS
<1> USE DEF config, errors, env
<1>1. CASE Execute
  <2>1. TypeOK' /\ FillsLast'
    BY <1>1 DEF Execute, IInv, TypeOK, FillsLast
  <2>2. QED
    BY <1>1, <2>1, RequestsUntouched DEF Execute
<1>2. CASE PurgeRequest
  BY <1>2, PurgeRequestKeeps
<1>3. CASE OpenConnection
  <2>1. TypeOK' /\ FillsLast'
    BY <1>3 DEF OpenConnection, IInv, TypeOK, FillsLast, ConnState
  <2>2. QED
    BY <1>3, <2>1, RequestsUntouched DEF OpenConnection
<1>4. CASE BeginScan
  <2>1. scan' \in Scan /\ ~scan'.has
    BY <1>4, ChannelAssumption DEF BeginScan, Scan
  <2>2. TypeOK' /\ FillsLast'
    BY <1>4, <2>1 DEF BeginScan, IInv, TypeOK, FillsLast
  <2>3. QED
    BY <1>4, <2>2, RequestsUntouched DEF BeginScan
<1>5. CASE NotConnected
  <2>1. TypeOK' /\ FillsLast'
    BY <1>5 DEF NotConnected, IInv, TypeOK, FillsLast
  <2>2. QED
    BY <1>5, <2>1, RequestsUntouched DEF NotConnected
<1>6. CASE ScanStep
  BY <1>6, VisitChannelKeeps, SkipChannelKeeps, EndPassKeeps,
     CreationFailsKeeps, FullUnsentKeeps, EndPassUnsentKeeps DEF ScanStep
<1>7. CASE HandleData
  BY <1>7, HandleDataKeeps
<1>8. CASE Acknowledge
  <2>1. TypeOK' /\ FillsLast'
    BY <1>8 DEF Acknowledge, IInv, TypeOK, FillsLast, ConnState
  <2>2. QED
    BY <1>8, <2>1, RequestsUntouched DEF Acknowledge
<1>9. CASE SetHost
  <2>1. TypeOK' /\ FillsLast'
    BY <1>9 DEF SetHost, IInv, TypeOK, FillsLast, ConnState
  <2>2. QED
    BY <1>9, <2>1, RequestsUntouched DEF SetHost
<1>10. CASE SetAddress
  BY <1>10, SetAddressKeeps
<1>11. CASE SetUnit
  <2>1. unit' \in [Channel -> Nat]
    <3>1. PICK c \in Channel : \E u \in UnitOf[c] : unit' = [unit EXCEPT ![c] = u]
      BY <1>11 DEF SetUnit
    <3>2. PICK u \in UnitOf[c] : unit' = [unit EXCEPT ![c] = u]
      BY <3>1
    <3>3. u \in Nat /\ unit \in [Channel -> Nat]
      BY PlantAssumption DEF IInv, TypeOK
    <3>4. QED
      BY <3>2, <3>3
  <2>2. TypeOK' /\ FillsLast'
    BY <1>11, <2>1 DEF SetUnit, IInv, TypeOK, FillsLast
  <2>3. QED
    BY <1>11, <2>2, RequestsUntouched DEF SetUnit
<1>12. CASE SetActimode
  <2>1. active' \in [Channel -> BOOLEAN]
    BY <1>12, PlantAssumption DEF SetActimode, IInv, TypeOK
  <2>2. TypeOK' /\ FillsLast'
    BY <1>12, <2>1 DEF SetActimode, IInv, TypeOK, FillsLast
  <2>3. QED
    BY <1>12, <2>2, RequestsUntouched DEF SetActimode
<1>13. CASE \E c \in Channel : ExpireRequest(c)
  BY <1>13, ExpireRequestKeeps
<1>14. CASE LoseFrame
  <2>1. TypeOK' /\ FillsLast'
    BY <1>14 DEF LoseFrame, IInv, TypeOK, FillsLast
  <2>2. QED
    BY <1>14, <2>1, RequestsUntouched DEF LoseFrame
<1>15. CASE ConnectionUp
  <2>1. TypeOK' /\ FillsLast'
    BY <1>15 DEF ConnectionUp, IInv, TypeOK, FillsLast, ConnState
  <2>2. QED
    BY <1>15, <2>1, RequestsUntouched DEF ConnectionUp
<1>16. CASE ConnectionFault
  <2>1. TypeOK' /\ FillsLast'
    BY <1>16 DEF ConnectionFault, IInv, TypeOK, FillsLast, ConnState
  <2>2. QED
    BY <1>16, <2>1, RequestsUntouched DEF ConnectionFault
<1>17. CASE Restart
  BY <1>17, RestartKeeps
<1>18. CASE UNCHANGED vars
  <2>1. TypeOK' /\ FillsLast'
    BY <1>18 DEF vars, IInv, TypeOK, FillsLast
  <2>2. QED
    BY <1>18, <2>1, RequestsUntouched DEF vars
<1>19. QED
  BY <1>1, <1>2, <1>3, <1>4, <1>5, <1>6, <1>7, <1>8, <1>9, <1>10, <1>11, <1>12,
     <1>13, <1>14, <1>15, <1>16, <1>17, <1>18 DEF Next

\* The inductive invariant holds in every state typemethod, the dispatcher, the
\* accessors, the network and restarts can reach.
THEOREM Invariance == Spec => []IInv
BY InitEstablishes, NextKeeps, PTL DEF Spec

\* Every variable keeps its type.
THEOREM TypeCorrect == Spec => []TypeOK
<1>1. IInv => TypeOK
  BY DEF IInv
<1>2. QED
  BY <1>1, Invariance, PTL

\* No channel is in the chains of two requests, whatever the plant, the order
\* of replies, timeouts and accessors, and however often the server restarts.
THEOREM ChannelInOneRequest == Spec => []ChainsDisjoint
<1>1. IInv => ChainsDisjoint
  BY DEF IInv
<1>2. QED
  BY <1>1, Invariance, PTL

\* Every request stays within the limit of its kind and covers the register of
\* each channel that waits for it.
THEOREM RequestsCoverChains == Spec => []RequestCoversChain
<1>1. IInv => RequestCoversChain
  BY DEF IInv
<1>2. QED
  BY <1>1, Invariance, PTL

\* The channel under errorChannels loses its error only together with the link.
LEMMA LinkedErrorKept == IInv /\ LinkedErrorIsSet /\ [Next]_vars => LinkedErrorIsSet'
<1> SUFFICES ASSUME IInv, LinkedErrorIsSet, [Next]_vars PROVE LinkedErrorIsSet'
  OBVIOUS
<1>1. CASE HandleData
  <2>1. requests \in Seq(Request) /\ DOMAIN requests = 1..Len(requests)
    BY LenProperties DEF IInv, TypeOK
  <2>2. \/ UNCHANGED errors
        \/ \E f \in wire, outcome \in Outcomes, i \in 1..Len(requests) :
              HandleResponse(f, requests[i], outcome)
    BY <1>1, <2>1 DEF HandleData, Addressee, errors
  <2>3. \/ UNCHANGED <<error, errorLink>>
        \/ \E i \in 1..Len(requests) :
              /\ error' = [error EXCEPT ![requests[i].head] = TRUE]
              /\ LinkError(requests[i].head)
    BY <2>2 DEF HandleResponse, ReadResponse, errors
  <2>4. \A i \in 1..Len(requests) : requests[i].head \in Channel
    <3>1. \A i \in 1..Len(requests) : requests[i] \in Request
      BY <2>1, ElementOfSeq
    <3>2. QED
      BY <3>1 DEF Request
  <2>5. error \in [Channel -> BOOLEAN] /\ errorLink \in Channel \cup {NoChannel}
    BY DEF IInv, TypeOK
  <2>6. QED
    BY <2>3, <2>4, <2>5 DEF LinkedErrorIsSet, LinkError
<1>2. CASE Acknowledge
  BY <1>2 DEF Acknowledge, LinkedErrorIsSet
<1>3. CASE UNCHANGED <<error, errorLink>>
  BY <1>3 DEF LinkedErrorIsSet
<1>4. HandleData \/ Acknowledge \/ UNCHANGED <<error, errorLink>>
  BY DEF Next, vars, errors, Execute, PurgeRequest, OpenConnection, BeginScan,
         NotConnected, ScanStep, VisitChannel, SkipChannel, EndPass,
         CreationFails, FullUnsent, EndPassUnsent, SetHost,
         SetAddress, SetUnit, SetActimode, ExpireRequest, LoseFrame,
         ConnectionUp, ConnectionFault, Restart
<1>5. QED
  BY <1>1, <1>2, <1>3, <1>4

\* Acknowledging never finds a channel under errorChannels that is not in error.
THEOREM LinkedChannelInError == Spec => []LinkedErrorIsSet
<1>1. Init => LinkedErrorIsSet
  BY DEF Init, LinkedErrorIsSet
<1>2. QED
  BY <1>1, LinkedErrorKept, Invariance, PTL DEF Spec

-----------------------------------------------------------------------------
(* Frames and requests, as long as the server runs and all channels have   *)
(* one unit.                                                                *)

\* The plants: one unit, and more ids than there are kinds of channels.
OneUnit(u) == u \in Nat /\ \A c \in Channel : UnitOf[c] \subseteq {u}
IdsEnough == Cardinality({KindOf[c] : c \in Channel}) <= IdWrap

\* No two requests have one id, and a frame with the id of a request is that request.
FramesOK(s, w, u) ==
  /\ \A i \in 1..Len(s) : s[i].unit = u /\ ~s[i].old
  /\ \A i, j \in 1..Len(s) : s[i].id = s[j].id => i = j
  /\ \A f \in w : \A i \in 1..Len(s) : s[i].id = f.id => f = FrameOf(s[i])

LEMMA FramesWithout ==
  ASSUME NEW u, NEW w, NEW s \in Seq(Request), FramesOK(s, w, u),
         NEW i \in 1..Len(s), NEW v \in SUBSET w
  PROVE  FramesOK(Without(s, i), v, u)
<1> DEFINE t == Without(s, i)
           k(j) == IF j < i THEN j ELSE j + 1
<1>1. Len(s) \in Nat /\ t \in Seq(Request) /\ Len(t) = Len(s) - 1
  BY WithoutProperties
<1>2. \A j \in 1..Len(t) : k(j) \in 1..Len(s) /\ t[j] = s[k(j)]
  <2>1. \A j \in 1..(Len(s) - 1) :
          (j < i => t[j] = s[j]) /\ (j >= i => t[j] = s[j + 1])
    BY WithoutProperties
  <2> HIDE DEF t
  <2> QED BY <1>1, <2>1
<1>3. \A j, l \in 1..Len(t) : k(j) = k(l) => j = l
  BY <1>1
<1> HIDE DEF t, k
<1>4. FramesOK(t, v, u)
  BY <1>2, <1>3 DEF FramesOK
<1> QED BY <1>4 DEF t

\* Marking a request as sent or late leaves what its frame says.
LEMMA FramesMarked ==
  ASSUME NEW u, NEW w, NEW s, NEW t, FramesOK(s, w, u), Len(t) = Len(s),
         \A i \in 1..Len(s) : FrameOf(t[i]) = FrameOf(s[i]) /\ t[i].old = s[i].old,
         NEW v \in SUBSET w
  PROVE  FramesOK(t, v, u)
<1>1. \A i \in 1..Len(s) : t[i].id = s[i].id /\ t[i].unit = s[i].unit
  <2> TAKE i \in 1..Len(s)
  <2>1. FrameOf(t[i]).id = t[i].id /\ FrameOf(s[i]).id = s[i].id
        /\ FrameOf(t[i]).unit = t[i].unit /\ FrameOf(s[i]).unit = s[i].unit
    BY DEF FrameOf
  <2> QED BY <2>1
<1> QED BY <1>1 DEF FramesOK

LEMMA FramesAppended ==
  ASSUME NEW u, NEW w, NEW s \in Seq(Request), FramesOK(s, w, u),
         NEW r \in Request, r.unit = u, ~r.old,
         \A i \in 1..Len(s) : s[i].id # r.id, \A f \in w : f.id # r.id,
         NEW v \in SUBSET (w \cup {FrameOf(r)})
  PROVE  FramesOK(Append(s, r), v, u)
<1> DEFINE t == Append(s, r)
<1>1. /\ Len(s) \in Nat /\ Len(t) = Len(s) + 1
      /\ \A i \in 1..Len(s) : t[i] = s[i]
      /\ t[Len(s) + 1] = r
  BY AppendProperties
<1>2. \A i \in 1..Len(t) : i \in 1..Len(s) \/ i = Len(s) + 1
  BY <1>1
<1> HIDE DEF t
<1>3. FrameOf(r).id = r.id
  BY DEF FrameOf
<1>4. \A i \in 1..Len(t) : t[i].unit = u /\ ~t[i].old
  BY <1>1, <1>2 DEF FramesOK
<1>5. \A i, j \in 1..Len(t) : t[i].id = t[j].id => i = j
  BY <1>1, <1>2 DEF FramesOK
<1>6. \A f \in v : \A i \in 1..Len(t) : t[i].id = f.id => f = FrameOf(t[i])
  BY <1>1, <1>2, <1>3 DEF FramesOK
<1>7. FramesOK(t, v, u)
  BY <1>4, <1>5, <1>6 DEF FramesOK
<1> QED BY <1>7 DEF t

LEMMA FramesReplaced ==
  ASSUME NEW u, NEW w, NEW s \in Seq(Request), FramesOK(s, w, u), NEW n \in 1..Len(s),
         NEW r \in Request, r.unit = u, ~r.old, r.id = s[n].id,
         \A f \in w : f.id = r.id => f = FrameOf(r),
         NEW v \in SUBSET (w \cup {FrameOf(r)})
  PROVE  FramesOK([s EXCEPT ![n] = r], v, u)
<1> DEFINE t == [s EXCEPT ![n] = r]
<1>1. /\ Len(t) = Len(s)
      /\ \A i \in 1..Len(s) : t[i] = IF i = n THEN r ELSE s[i]
  BY ExceptSeq
<1> HIDE DEF t
<1>2. FrameOf(r).id = r.id
  BY DEF FrameOf
<1>3. \A i \in 1..Len(t) : t[i].unit = u /\ ~t[i].old
  BY <1>1 DEF FramesOK
<1>4. \A i, j \in 1..Len(t) : t[i].id = t[j].id => i = j
  BY <1>1 DEF FramesOK
<1>5. \A f \in v : \A i \in 1..Len(t) : t[i].id = f.id => f = FrameOf(t[i])
  BY <1>1, <1>2 DEF FramesOK
<1>6. FramesOK(t, v, u)
  BY <1>1, <1>3, <1>4, <1>5 DEF FramesOK
<1> QED BY <1>6 DEF t

-----------------------------------------------------------------------------
(* The ids that are to come.                                               *)

Ahead(x, n) == {(x + i) % IdWrap : i \in 0..n - 1}

LEMMA OneRound ==
  ASSUME NEW n \in 0..2 * IdWrap - 1
  PROVE  n % IdWrap = IF n < IdWrap THEN n ELSE n - IdWrap
<1>1. IdWrap \in Nat \ {0}
  BY EnvAssumption
<1> QED BY <1>1

LEMMA AheadLess ==
  ASSUME NEW x, NEW n \in Nat, NEW m \in 0..n
  PROVE  Ahead(x, m) \subseteq Ahead(x, n)
<1>1. 0..m - 1 \subseteq 0..n - 1
  OBVIOUS
<1> QED BY <1>1 DEF Ahead

\* Taking an id takes it from those ahead, and it does not come round again.
LEMMA AheadStep ==
  ASSUME NEW x \in 0..IdWrap - 1, NEW n \in 1..IdWrap
  PROVE  /\ x \in Ahead(x, n)
         /\ (x + 1) % IdWrap \in 0..IdWrap - 1
         /\ Ahead((x + 1) % IdWrap, n - 1) \subseteq Ahead(x, n) \ {x}
<1> DEFINE y == (x + 1) % IdWrap
<1>1. IdWrap \in Nat \ {0}
  BY EnvAssumption
<1>2. y = IF x + 1 < IdWrap THEN x + 1 ELSE 0
  <2> DEFINE m == x + 1
  <2>1. m \in 0..2 * IdWrap - 1 /\ y = m % IdWrap
    BY <1>1
  <2> HIDE DEF m, y
  <2>2. y = IF m < IdWrap THEN m ELSE m - IdWrap
    BY <2>1, OneRound
  <2> QED BY <1>1, <2>2 DEF m
<1>3. x \in Ahead(x, n)
  <2>1. 0 \in 0..n - 1 /\ x + 0 = x /\ x \in 0..2 * IdWrap - 1
    BY <1>1
  <2>2. x % IdWrap = x
    BY <1>1, <2>1, OneRound
  <2> QED BY <2>1, <2>2 DEF Ahead
<1> HIDE DEF y
<1>4. ASSUME NEW i \in 0..n - 2
      PROVE  (y + i) % IdWrap = (x + (i + 1)) % IdWrap /\ (y + i) % IdWrap # x
  <2> DEFINE p == y + i
             q == x + (i + 1)
             a == p % IdWrap
             b == q % IdWrap
  <2>1. p \in 0..2 * IdWrap - 1 /\ q \in 0..2 * IdWrap - 1
    BY <1>1, <1>2
  <2>2. /\ a = IF p < IdWrap THEN p ELSE p - IdWrap
        /\ b = IF q < IdWrap THEN q ELSE q - IdWrap
    <3> HIDE DEF p, q
    <3> QED BY <2>1, OneRound
  <2> HIDE DEF a, b
  <2>3. a = b /\ a # x
    BY <1>1, <1>2, <2>2
  <2> QED BY <2>3 DEF a, b
<1>5. ASSUME NEW z \in Ahead(y, n - 1) PROVE z \in Ahead(x, n) /\ z # x
  <2>1. PICK i \in 0..(n - 1) - 1 : z = (y + i) % IdWrap
    BY DEF Ahead
  <2>2. i \in 0..n - 2 /\ i + 1 \in 0..n - 1
    BY <2>1
  <2> QED BY <1>4, <2>1, <2>2 DEF Ahead
<1>6. y \in 0..IdWrap - 1
  BY <1>1, <1>2
<1> QED BY <1>3, <1>5, <1>6 DEF y

\* Kinds that have a channel, from a place of the scan on.
Used == {KindOf[c] : c \in Channel}
Present(i) == IF KindSeq[i] \in Used THEN 1 ELSE 0
KindsFrom(k) ==
  (IF k <= 1 THEN Present(1) ELSE 0) + (IF k <= 2 THEN Present(2) ELSE 0)
  + (IF k <= 3 THEN Present(3) ELSE 0) + (IF k <= 4 THEN Present(4) ELSE 0)

LEMMA KindsStep ==
  ASSUME NEW k \in 1..4
  PROVE  /\ KindsFrom(k) = Present(k) + KindsFrom(k + 1)
         /\ Present(k) \in {0, 1} /\ KindsFrom(k + 1) \in Nat /\ KindsFrom(k) \in Nat
         /\ KindsFrom(k) <= KindsFrom(1)
<1>1. \A i \in 1..4 : Present(i) \in {0, 1}
  BY DEF Present
<1> QED BY <1>1 DEF KindsFrom

LEMMA UnionApart ==
  ASSUME NEW S, IsFiniteSet(S), NEW T, IsFiniteSet(T), S \cap T = {}
  PROVE  IsFiniteSet(S \cup T) /\ Cardinality(S \cup T) = Cardinality(S) + Cardinality(T)
<1>1. Cardinality(S) \in Nat /\ Cardinality(T) \in Nat /\ Cardinality(S \cap T) = 0
  BY FS_CardinalityType, FS_EmptySet
<1>2. /\ IsFiniteSet(S \cup T)
      /\ Cardinality(S \cup T) = Cardinality(S) + Cardinality(T) - Cardinality(S \cap T)
  BY FS_Union
<1> QED BY <1>1, <1>2

\* As many as IdsHaveRested counts.
LEMMA KindsCounted == Cardinality(Used) = KindsFrom(1)
<1> DEFINE P(i) == IF KindSeq[i] \in Used THEN {KindSeq[i]} ELSE {}
<1>1. Kind = {"AoRI", "AoRO", "DI", "DO"}
  BY DEF Kind, KindSeq
<1>2. Used \subseteq Kind
  BY ChannelAssumption DEF Used
<1>3. /\ KindSeq[1] = "AoRI" /\ KindSeq[2] = "AoRO" /\ KindSeq[3] = "DI" /\ KindSeq[4] = "DO"
  BY DEF KindSeq
<1>4. Used = P(1) \cup P(2) \cup P(3) \cup P(4)
  BY <1>1, <1>2, <1>3
<1>5. \A i \in 1..4 : IsFiniteSet(P(i)) /\ Cardinality(P(i)) = Present(i)
  BY FS_Singleton, FS_EmptySet DEF Present
<1>6. P(1) \cap P(2) = {} /\ (P(1) \cup P(2)) \cap P(3) = {}
      /\ (P(1) \cup P(2) \cup P(3)) \cap P(4) = {}
  BY <1>3
<1> HIDE DEF P
<1>7. IsFiniteSet(P(1) \cup P(2)) /\ Cardinality(P(1) \cup P(2)) = Present(1) + Present(2)
  BY <1>5, <1>6, UnionApart
<1>8. /\ IsFiniteSet(P(1) \cup P(2) \cup P(3))
      /\ Cardinality(P(1) \cup P(2) \cup P(3)) = Present(1) + Present(2) + Present(3)
  BY <1>5, <1>6, <1>7, UnionApart
<1>9. Cardinality(Used) = Present(1) + Present(2) + Present(3) + Present(4)
  BY <1>4, <1>5, <1>6, <1>8, UnionApart
<1> QED BY <1>9 DEF KindsFrom

-----------------------------------------------------------------------------
(* The second inductive invariant: frames match their requests.            *)

Full(r) == r.items >= Limit[r.kind]

\* Neither a frame nor a request has one of the n ids from x on.
Fresh(s, w, x, n) ==
  /\ \A f \in w : f.id \notin Ahead(x, n)
  /\ \A i \in 1..Len(s) : s[i].id \notin Ahead(x, n)

RestedToPurge ==
  /\ \A f \in wire : f.id \notin Ahead(requestId, KindsFrom(1))
  /\ \A i \in 1..Len(requests) :
       requests[i].id \in Ahead(requestId, KindsFrom(1)) => requests[i].late

\* The most ids the scan may still take: one for each kind to come.
IdsLeft(u) ==
  KindsFrom(scan.kind + 1)
  + (IF scan.has \/ (scan.curr = u /\ scan.pos = NumChannel + 1) THEN 0 ELSE Present(scan.kind))

\* A request is filled only in a pass over its unit, a pass over the unit is followed
\* by another one only when the request is full, and one that is not has not been sent.
ScanInOrder(u) ==
  LET r == requests[Len(requests)] IN
  /\ scan.has => scan.curr = u
  /\ scan.next \in {NoUnit, u}
  /\ scan.curr = u /\ scan.next = u => scan.has /\ Full(r)
  /\ scan.has /\ ~Full(r) => \A f \in wire : f.id # r.id
  /\ Fresh(requests, wire, requestId, IdsLeft(u))

Matched(u) ==
  /\ \A c \in Channel : unit[c] = u
  /\ requestId \in 0..IdWrap - 1
  /\ FramesOK(requests, wire, u)
  /\ pc = "purge" => RestedToPurge
  /\ pc = "scan" => ScanInOrder(u)

LEMMA FreshLess ==
  ASSUME NEW s, NEW w, NEW x, NEW n \in Nat, Fresh(s, w, x, n), NEW m \in 0..n,
         NEW v \in SUBSET w
  PROVE  Fresh(s, v, x, m)
<1>1. Ahead(x, m) \subseteq Ahead(x, n)
  BY AheadLess
<1> QED BY <1>1 DEF Fresh

LEMMA IdsLeftType ==
  ASSUME TypeOK, NEW u, IdsEnough
  PROVE  /\ IdsLeft(u) \in 0..IdWrap /\ KindsFrom(1) \in 0..IdWrap
         /\ KindsFrom(scan.kind + 1) \in 0..IdsLeft(u)
         /\ IdsLeft(u) <= KindsFrom(scan.kind + 1) + Present(scan.kind)
<1>1. scan.kind \in 1..4
  BY DEF TypeOK, Scan
<1>2. KindsFrom(1) <= IdWrap
  BY KindsCounted DEF IdsEnough, Used
<1>3. KindsFrom(1) \in Nat
  BY KindsStep
<1> DEFINE k == scan.kind
           a == KindsFrom(k)
           b == KindsFrom(k + 1)
           p == Present(k)
<1>4. /\ a = p + b /\ p \in {0, 1} /\ b \in Nat /\ a \in Nat /\ a <= KindsFrom(1)
  BY <1>1, KindsStep
<1>5. IdsLeft(u) = b \/ IdsLeft(u) = b + p
  <2>1. IdsLeft(u) = b + (IF scan.has \/ (scan.curr = u /\ scan.pos = NumChannel + 1) THEN 0 ELSE p)
    BY DEF IdsLeft
  <2> HIDE DEF b, p
  <2> QED BY <1>4, <2>1
<1> HIDE DEF a, b, p
<1>6. IdsLeft(u) \in 0..IdWrap /\ b \in 0..IdsLeft(u) /\ IdsLeft(u) <= b + p
  BY <1>2, <1>3, <1>4, <1>5, EnvAssumption
<1> QED BY <1>2, <1>3, <1>6, EnvAssumption DEF b, p

\* Offering a channel to a request keeps its id; one that is full stays as it is.
LEMMA OfferedKeeps ==
  ASSUME TypeOK, NEW c \in Channel, NEW r, RequestOK(r, address), KindOf[c] = r.kind
  PROVE  LET o == Offered(r, c) IN
         /\ o.id = r.id /\ o.unit = r.unit /\ o.old = r.old
         /\ Full(r) => Full(o) /\ FrameOf(o) = FrameOf(r)
<1> DEFINE a == address[c]
           limit == Limit[r.kind]
           o == Offered(r, c)
<1>1. /\ r \in Request /\ r.start \in Nat /\ r.items \in 1..limit
      /\ a \in Nat /\ limit \in Nat
  <2>1. r \in Request /\ r.start \in Nat /\ r.items \in 1..limit
    BY DEF RequestOK
  <2>2. a \in Nat
    BY DEF TypeOK
  <2>3. r.kind \in Kind
    BY <2>1 DEF Request
  <2> QED BY <2>1, <2>2, <2>3, ChannelAssumption
<1>2. CASE ~InWindow(r, a, limit)
  BY <1>2 DEF Offered
<1>3. CASE InWindow(r, a, limit)
  <2> DEFINE m == AddItem(r, a)
  <2>1. o = [m EXCEPT !.members = m.members \cup {c}]
    BY <1>3 DEF Offered
  <2>2. r.start # NoStart
    BY <1>1 DEF NoStart
  <2>3. \E s, n : m = [r EXCEPT !.start = s, !.items = n]
    <3>1. CASE a < r.start
      BY <1>1, <2>2, <3>1 DEF AddItem
    <3>2. CASE ~(a < r.start) /\ a >= r.start + r.items
      <4>1. m = [r EXCEPT !.items = (a - r.start) + 1]
        BY <1>1, <2>2, <3>2 DEF AddItem
      <4>2. m = [r EXCEPT !.start = r.start, !.items = (a - r.start) + 1]
        BY <1>1, <4>1 DEF Request
      <4> QED BY <4>2
    <3>3. CASE ~(a < r.start) /\ ~(a >= r.start + r.items)
      <4>1. m = r
        BY <2>2, <3>3 DEF AddItem
      <4>2. m = [r EXCEPT !.start = r.start, !.items = r.items]
        BY <1>1, <4>1 DEF Request
      <4> QED BY <4>2
    <3> QED BY <3>1, <3>2, <3>3
  <2>4. PICK s, n : m = [r EXCEPT !.start = s, !.items = n]
    BY <2>3
  <2>5. Full(r) => m = r
    <3> SUFFICES ASSUME Full(r) PROVE m = r
      OBVIOUS
    <3>1. r.items = limit
      BY <1>1 DEF Full
    <3>2. a > r.start /\ a < r.start + r.items
      BY <1>1, <1>3, <2>2, <3>1 DEF InWindow
    <3> QED BY <1>1, <2>2, <3>2 DEF AddItem
  <2> HIDE DEF m
  <2>6. m.id = r.id /\ m.unit = r.unit /\ m.old = r.old
    BY <1>1, <2>4 DEF Request
  <2>7. /\ o.id = m.id /\ o.unit = m.unit /\ o.old = m.old
        /\ o.kind = m.kind /\ o.start = m.start /\ o.items = m.items
    <3>1. m \in [id : {m.id}, unit : {m.unit}, kind : {m.kind}, start : {m.start},
                 items : {m.items}, head : {m.head}, members : {m.members},
                 late : {m.late}, old : {m.old}]
      BY <1>1, <2>4 DEF Request
    <3> QED BY <2>1, <3>1
  <2>8. Full(r) => Full(o) /\ FrameOf(o) = FrameOf(r)
    BY <2>5, <2>7 DEF Full, FrameOf
  <2> QED BY <2>6, <2>7, <2>8
<1> QED BY <1>2, <1>3

LEMMA NewOffered ==
  ASSUME TypeOK, NEW c \in Channel
  PROVE  LET o == Offered(NewRequest(c), c) IN
         o.id = requestId /\ o.unit = unit[c] /\ ~o.old
<1> DEFINE n == NewRequest(c)
           m == AddItem(n, address[c])
           o == Offered(n, c)
<1>1. InWindow(n, address[c], Limit[n.kind])
  BY DEF NewRequest, InWindow
<1>2. o = [m EXCEPT !.members = m.members \cup {c}]
  BY <1>1 DEF Offered
<1>3. m = [id |-> requestId, unit |-> unit[c], kind |-> KindOf[c],
           start |-> address[c], items |-> 1, head |-> c, members |-> {c},
           late |-> TRUE, old |-> FALSE]
  BY DEF AddItem, NewRequest
<1> HIDE DEF m, o
<1>4. o.id = requestId /\ o.unit = unit[c] /\ o.old = FALSE
  BY <1>2, <1>3
<1> QED BY <1>4 DEF o, n

LEMMA SentSame ==
  ASSUME NEW r \in Request
  PROVE  /\ Sent(r) \in Request /\ FrameOf(Sent(r)) = FrameOf(r) /\ (Full(Sent(r)) <=> Full(r))
         /\ Sent(r).id = r.id /\ Sent(r).unit = r.unit /\ Sent(r).old = r.old
<1>1. /\ Sent(r) \in Request /\ Sent(r).id = r.id /\ Sent(r).unit = r.unit /\ Sent(r).old = r.old
      /\ Sent(r).kind = r.kind /\ Sent(r).start = r.start /\ Sent(r).items = r.items
  BY DEF Sent, Request
<1> QED BY <1>1 DEF FrameOf, Full

-----------------------------------------------------------------------------
(* Grouping and the frames.                                                *)

\* The counter stands at an id nobody has, and the next one leaves enough of them.
LEMMA IdTaken ==
  ASSUME IInv, NEW u, IdsEnough, Matched(u), pc = "scan", ~scan.has,
         NEW c \in Channel, NextCandidate(c), unit[c] = scan.curr
  PROVE  LET n == KindsFrom(scan.kind + 1) IN
         /\ scan.curr = u /\ n \in Nat
         /\ NextId \in 0..IdWrap - 1
         /\ Fresh(requests, wire, requestId, n + 1)
         /\ requestId \in Ahead(requestId, n + 1)
         /\ Ahead(NextId, n) \subseteq Ahead(requestId, n + 1) \ {requestId}
         /\ Fresh(requests, wire, NextId, n)
<1> DEFINE n == KindsFrom(scan.kind + 1)
<1>1. /\ scan.curr = u /\ ScanInOrder(u) /\ requestId \in 0..IdWrap - 1
      /\ FramesOK(requests, wire, u)
  BY DEF Matched
<1>2. /\ TypeOK /\ requests \in Seq(Request) /\ scan.kind \in 1..4
      /\ NumChannel \in Nat /\ c \in 1..NumChannel /\ scan.pos \in 1..NumChannel + 1
  BY ChannelAssumption DEF IInv, TypeOK, Scan, Channel
<1>3. Present(scan.kind) = 1
  BY DEF NextCandidate, Candidates, Present, Used
<1>4. scan.pos # NumChannel + 1
  BY <1>2 DEF NextCandidate, Candidates
<1>5. n \in Nat /\ n + 1 \in 1..IdWrap /\ Fresh(requests, wire, requestId, n + 1)
  <2>1. IdsLeft(u) = n + 1
    BY <1>1, <1>3, <1>4 DEF IdsLeft
  <2>2. n \in Nat /\ IdsLeft(u) \in 0..IdWrap
    BY <1>2, KindsStep, IdsLeftType
  <2>3. Fresh(requests, wire, requestId, IdsLeft(u))
    BY <1>1 DEF ScanInOrder
  <2> HIDE DEF n
  <2> QED BY <2>1, <2>2, <2>3, EnvAssumption
<1> HIDE DEF n
<1>6. /\ requestId \in Ahead(requestId, n + 1) /\ NextId \in 0..IdWrap - 1
      /\ Ahead(NextId, n) \subseteq Ahead(requestId, n + 1) \ {requestId}
  <2> DEFINE m == n + 1
  <2>1. m \in 1..IdWrap /\ m - 1 = n
    BY <1>5
  <2> HIDE DEF m
  <2>2. /\ requestId \in Ahead(requestId, m) /\ NextId \in 0..IdWrap - 1
        /\ Ahead(NextId, m - 1) \subseteq Ahead(requestId, m) \ {requestId}
    BY <1>1, <2>1, AheadStep DEF NextId
  <2> QED BY <2>1, <2>2 DEF m
<1>7. Fresh(requests, wire, NextId, n)
  BY <1>5, <1>6 DEF Fresh
<1> QED BY <1>1, <1>5, <1>6, <1>7 DEF n

\* A new request has an id that neither a frame nor another request has.
LEMMA NewMatched ==
  ASSUME IInv, NEW u, IdsEnough, Matched(u), pc = "scan", ~scan.has,
         NEW c \in Channel, NextCandidate(c), unit[c] = scan.curr,
         NEW q \in Request, q.id = requestId, q.unit = u, ~q.old,
         NEW v \in SUBSET (wire \cup {FrameOf(q)})
  PROVE  /\ NextId \in 0..IdWrap - 1
         /\ \A f \in wire : f.id # q.id
         /\ FramesOK(Append(requests, q), v, u)
         /\ Fresh(Append(requests, q), v, NextId, KindsFrom(scan.kind + 1))
<1> DEFINE n == KindsFrom(scan.kind + 1)
<1>1. FramesOK(requests, wire, u)
  BY DEF Matched
<1>2. requests \in Seq(Request)
  BY DEF IInv, TypeOK
<1>3. Fresh(requests, wire, requestId, n + 1)
  BY IdTaken
<1>4. /\ requestId \in Ahead(requestId, n + 1) /\ NextId \in 0..IdWrap - 1
      /\ Ahead(NextId, n) \subseteq Ahead(requestId, n + 1) \ {requestId}
  BY IdTaken
<1> HIDE DEF n
<1>5. /\ \A f \in wire : f.id # q.id
      /\ \A i \in 1..Len(requests) : requests[i].id # q.id
  BY <1>3, <1>4 DEF Fresh
<1>6. FramesOK(Append(requests, q), v, u)
  BY <1>1, <1>2, <1>5, FramesAppended
<1>7. Fresh(Append(requests, q), v, NextId, n)
  <2> DEFINE t == Append(requests, q)
  <2>1. /\ Len(requests) \in Nat /\ Len(t) = Len(requests) + 1
        /\ \A i \in 1..Len(requests) : t[i] = requests[i]
        /\ t[Len(requests) + 1] = q
    BY <1>2, AppendProperties, LenProperties
  <2>2. \A i \in 1..Len(t) : i \in 1..Len(requests) \/ i = Len(requests) + 1
    BY <2>1
  <2>3. FrameOf(q).id = q.id
    BY DEF FrameOf
  <2> HIDE DEF t
  <2>4. \A f \in v : f.id \notin Ahead(NextId, n)
    BY <1>3, <1>4, <2>3 DEF Fresh
  <2>5. \A i \in 1..Len(t) : t[i].id \notin Ahead(NextId, n)
    BY <1>3, <1>4, <2>1, <2>2 DEF Fresh
  <2>6. Fresh(t, v, NextId, n)
    BY <2>4, <2>5 DEF Fresh
  <2> QED BY <2>6 DEF t
<1> QED BY <1>4, <1>5, <1>6, <1>7 DEF n

\* One more channel in the request being filled: no frame of it is on the way,
\* or it was full and nothing changes.
LEMMA FilledMatched ==
  ASSUME IInv, NEW u, Matched(u), pc = "scan", scan.has,
         NEW q \in Request, q.unit = u, ~q.old,
         q.id = requests[Len(requests)].id,
         Full(requests[Len(requests)]) => FrameOf(q) = FrameOf(requests[Len(requests)]),
         NEW v \in SUBSET (wire \cup {FrameOf(q)})
  PROVE  LET t == [requests EXCEPT ![Len(requests)] = q] IN
         /\ FramesOK(t, v, u)
         /\ Fresh(t, v, requestId, KindsFrom(scan.kind + 1))
<1> DEFINE n == Len(requests)
           t == [requests EXCEPT ![n] = q]
           k == KindsFrom(scan.kind + 1)
<1>1. /\ ScanInOrder(u) /\ FramesOK(requests, wire, u)
  BY DEF Matched
<1>2. requests \in Seq(Request) /\ n \in 1..n
  BY LenProperties DEF IInv, TypeOK, FillsLast
<1>3. \A f \in wire : f.id = q.id => f = FrameOf(q)
  BY <1>1, <1>2 DEF ScanInOrder, FramesOK
<1>4. FramesOK(t, v, u)
  BY <1>1, <1>2, <1>3, FramesReplaced
<1>5. Fresh(requests, wire, requestId, k)
  <2>1. scan.kind \in 1..4
    BY DEF IInv, TypeOK, Scan
  <2>2. k \in Nat
    BY <2>1, KindsStep
  <2>3. IdsLeft(u) = k
    BY <2>2 DEF IdsLeft
  <2> QED BY <1>1, <2>3 DEF ScanInOrder
<1>6. Len(t) = n /\ \A i \in 1..n : t[i] = IF i = n THEN q ELSE requests[i]
  BY <1>2, ExceptSeq
<1>7. FrameOf(q).id = q.id
  BY DEF FrameOf
<1> HIDE DEF t, k
<1>8. \A f \in v : f.id \notin Ahead(requestId, k)
  BY <1>2, <1>5, <1>7 DEF Fresh
<1>9. \A i \in 1..Len(t) : t[i].id \notin Ahead(requestId, k)
  BY <1>2, <1>5, <1>6 DEF Fresh
<1>10. Fresh(t, v, requestId, k)
  BY <1>8, <1>9 DEF Fresh
<1> QED BY <1>4, <1>10 DEF t, k

\* While the request is not full, no frame of it is on the way and no other pass is due.
LEMMA GroupUnsent ==
  ASSUME IInv, NEW u, IdsEnough, Matched(u), pc = "scan",
         NEW c \in Channel, NextCandidate(c), unit[c] = scan.curr,
         NEW r, r = Offered(Current(c), c)
  PROVE  /\ r \in Request
         /\ ~Full(r) => scan.next = NoUnit /\ \A f \in wire : f.id # r.id
<1>1. r \in Request
  BY GroupedOK DEF RequestOK
<1>2. scan.curr = u /\ ScanInOrder(u) /\ TypeOK
  BY DEF Matched, IInv
<1>3. CASE ~scan.has
  <2>1. r.id = requestId
    BY <1>2, <1>3, NewOffered DEF Current
  <2> DEFINE m == KindsFrom(scan.kind + 1) + 1
  <2>2. Fresh(requests, wire, requestId, m) /\ requestId \in Ahead(requestId, m)
    BY <1>3, IdTaken
  <2> HIDE DEF m
  <2>3. \A f \in wire : f.id # r.id
    BY <2>1, <2>2 DEF Fresh
  <2>4. scan.next = NoUnit
    BY <1>2, <1>3 DEF ScanInOrder
  <2> QED BY <1>1, <2>3, <2>4
<1>4. CASE scan.has
  <2> DEFINE n == Len(requests)
             s == requests[n]
  <2>1. n \in 1..n /\ s.kind = KindSeq[scan.kind] /\ KindOf[c] = KindSeq[scan.kind]
    BY <1>2, <1>4, LenProperties DEF IInv, TypeOK, FillsLast, NextCandidate, Candidates
  <2>2. RequestOK(s, address)
    BY <2>1, PartsGiveRequestsOK DEF IInv, RequestsOK
  <2>3. r = Offered(s, c)
    BY <1>4 DEF Current
  <2> HIDE DEF s
  <2>4. r.id = s.id /\ (Full(s) => Full(r))
    BY <1>2, <2>1, <2>2, <2>3, OfferedKeeps
  <2>5. ~Full(r) => scan.next = NoUnit /\ \A f \in wire : f.id # r.id
    BY <1>2, <1>4, <2>4 DEF ScanInOrder, s
  <2> QED BY <1>1, <2>5
<1> QED BY <1>3, <1>4

\* Whatever the channel goes into, with q for the request as it is or as sent.
LEMMA GroupMatched ==
  ASSUME IInv, NEW u, IdsEnough, Matched(u), pc = "scan",
         NEW c \in Channel, NextCandidate(c), unit[c] = scan.curr,
         NEW r, r = Offered(Current(c), c), NEW q \in {r, Sent(r)},
         NEW x, x = IF scan.has THEN requestId ELSE NextId,
         NEW v \in SUBSET (wire \cup {FrameOf(r)})
  PROVE  LET t == WithCurrent(q) IN
         /\ scan.curr = u /\ x \in 0..IdWrap - 1
         /\ FramesOK(t, v, u)
         /\ Fresh(t, v, x, KindsFrom(scan.kind + 1))
         /\ t[Len(t)] = q
<1> DEFINE n == Len(requests)
           k == KindsFrom(scan.kind + 1)
<1>1. /\ scan.curr = u /\ unit[c] = u /\ ScanInOrder(u) /\ requestId \in 0..IdWrap - 1
      /\ FramesOK(requests, wire, u)
  BY DEF Matched
<1>2. /\ TypeOK /\ requests \in Seq(Request) /\ RequestsOK(requests, address) /\ n \in Nat
  BY PartsGiveRequestsOK, LenProperties DEF IInv, TypeOK
<1>3. r \in Request
  BY GroupedOK DEF RequestOK
<1>4. /\ q \in Request /\ FrameOf(q) = FrameOf(r) /\ (Full(q) <=> Full(r))
      /\ q.id = r.id /\ q.unit = r.unit /\ q.old = r.old
  BY <1>3, SentSame
<1>5. CASE ~scan.has
  <2>1. r.id = requestId /\ r.unit = u /\ ~r.old
    BY <1>1, <1>2, <1>5, NewOffered DEF Current
  <2>2. /\ NextId \in 0..IdWrap - 1
        /\ \A f \in wire : f.id # q.id
        /\ FramesOK(Append(requests, q), v, u)
        /\ Fresh(Append(requests, q), v, NextId, k)
    BY <1>4, <1>5, <2>1, NewMatched
  <2>3. WithCurrent(q) = Append(requests, q) /\ x = NextId
    BY <1>5 DEF WithCurrent
  <2>4. Append(requests, q)[Len(Append(requests, q))] = q
    BY <1>2, <1>4, AppendProperties
  <2> HIDE DEF k
  <2>5. /\ FramesOK(WithCurrent(q), v, u) /\ Fresh(WithCurrent(q), v, x, k)
        /\ WithCurrent(q)[Len(WithCurrent(q))] = q
        /\ x \in 0..IdWrap - 1
    BY <2>2, <2>3, <2>4
  <2> QED BY <1>1, <2>5 DEF k
<1>6. CASE scan.has
  <2> DEFINE s == requests[n]
  <2>1. n \in 1..n /\ s.kind = KindSeq[scan.kind] /\ KindOf[c] = KindSeq[scan.kind]
    BY <1>2, <1>6 DEF IInv, FillsLast, NextCandidate, Candidates
  <2>2. RequestOK(s, address) /\ s.unit = u /\ ~s.old
    BY <1>1, <1>2, <2>1 DEF RequestsOK, FramesOK
  <2>3. r = Offered(s, c)
    BY <1>6 DEF Current
  <2> HIDE DEF s
  <2>4. /\ r.id = s.id /\ r.unit = u /\ ~r.old
        /\ Full(s) => Full(r) /\ FrameOf(r) = FrameOf(s)
    BY <1>2, <2>1, <2>2, <2>3, OfferedKeeps
  <2>5. WithCurrent(q) = [requests EXCEPT ![n] = q] /\ x = requestId
    BY <1>6 DEF WithCurrent
  <2>6. /\ FramesOK([requests EXCEPT ![n] = q], v, u)
        /\ Fresh([requests EXCEPT ![n] = q], v, requestId, k)
    BY <1>4, <1>6, <2>4, FilledMatched DEF s
  <2>7. /\ Len([requests EXCEPT ![n] = q]) = n /\ [requests EXCEPT ![n] = q][n] = q
    BY <1>2, <1>4, <2>1, ExceptSeq
  <2> HIDE DEF k
  <2>8. /\ FramesOK(WithCurrent(q), v, u) /\ Fresh(WithCurrent(q), v, x, k)
        /\ WithCurrent(q)[Len(WithCurrent(q))] = q
        /\ x \in 0..IdWrap - 1
    BY <1>1, <2>5, <2>6, <2>7
  <2> QED BY <1>1, <2>8 DEF k
<1> QED BY <1>5, <1>6

\* The scan goes on to another pass, the next kind, or it is over.
LEMMA NextPassMatched ==
  ASSUME TypeOK, NEW u \in Nat, IdsEnough, ScanInOrder(u), NextPass, pc = "scan",
         requestId' = requestId,
         Fresh(requests', wire', requestId, IdsLeft(u)),
         scan.has /\ Full(requests[Len(requests)]) => Full(requests'[Len(requests')]),
         pc' = "scan"
  PROVE  ScanInOrder(u)'
<1>1. /\ scan \in Scan /\ scan.kind \in 1..4 /\ u # NoUnit
      /\ scan.next \in {NoUnit, u}
      /\ scan.has => scan.curr = u
      /\ scan.curr = u /\ scan.next = u => scan.has /\ Full(requests[Len(requests)])
  BY DEF TypeOK, Scan, NoUnit, ScanInOrder
<1>2. /\ IdsLeft(u) \in 0..IdWrap
      /\ KindsFrom(scan.kind + 1) \in 0..IdsLeft(u)
      /\ IdsLeft(u) <= KindsFrom(scan.kind + 1) + Present(scan.kind)
  BY IdsLeftType
<1>6. Present(scan.kind) \in {0, 1} /\ KindsFrom(scan.kind + 1) \in Nat
  BY <1>1, KindsStep
<1>3. CASE scan.next # NoUnit
  <2>1. scan' = [scan EXCEPT !.pos = 1, !.curr = scan.next, !.next = NoUnit]
    BY <1>3 DEF NextPass
  <2>2. /\ scan'.has = scan.has /\ scan'.curr = u /\ scan'.next = NoUnit
        /\ scan'.kind = scan.kind
    BY <1>1, <1>3, <2>1 DEF Scan
  <2>3. IdsLeft(u)' \in 0..IdsLeft(u)
    <3>1. CASE scan.has
      <4>1. IdsLeft(u) = KindsFrom(scan.kind + 1) + 0 /\ IdsLeft(u)' = KindsFrom(scan.kind + 1) + 0
        BY <2>2, <3>1 DEF IdsLeft
      <4> QED BY <1>2, <4>1
    <3>2. CASE ~scan.has
      <4>1. scan.curr # u
        BY <1>1, <1>3, <3>2
      <4>2. IdsLeft(u) = KindsFrom(scan.kind + 1) + Present(scan.kind)
        BY <3>2, <4>1 DEF IdsLeft
      <4>3. \/ IdsLeft(u)' = KindsFrom(scan.kind + 1) + 0
            \/ IdsLeft(u)' = KindsFrom(scan.kind + 1) + Present(scan.kind)
        BY <2>2 DEF IdsLeft
      <4> QED BY <1>2, <1>6, <4>2, <4>3
    <3> QED BY <3>1, <3>2
  <2>4. Fresh(requests', wire', requestId', IdsLeft(u)')
    BY <1>2, <2>3, FreshLess
  <2>5. scan'.has => Full(requests'[Len(requests')])
    BY <1>1, <1>3, <2>2
  <2> QED BY <1>1, <2>2, <2>4, <2>5 DEF ScanInOrder, Full
<1>4. CASE scan.next = NoUnit /\ scan.kind < 4
  <2>1. scan' = [scan EXCEPT !.kind = @ + 1, !.pos = 1, !.has = FALSE]
    BY <1>4 DEF NextPass
  <2>2. /\ scan'.has = FALSE /\ scan'.next = NoUnit /\ scan'.kind = scan.kind + 1
        /\ scan'.kind \in 1..4
    BY <1>1, <1>4, <2>1 DEF Scan
  <2>3. IdsLeft(u)' \in 0..IdsLeft(u)
    <3>1. KindsFrom(scan.kind + 1) = Present(scan'.kind) + KindsFrom(scan'.kind + 1)
      BY <2>2, KindsStep
    <3>2. Present(scan'.kind) \in {0, 1} /\ KindsFrom(scan'.kind + 1) \in Nat
      BY <2>2, KindsStep
    <3>3. \/ IdsLeft(u)' = KindsFrom(scan'.kind + 1) + 0
          \/ IdsLeft(u)' = KindsFrom(scan'.kind + 1) + Present(scan'.kind)
      BY DEF IdsLeft
    <3> QED BY <1>2, <3>1, <3>2, <3>3
  <2>4. Fresh(requests', wire', requestId', IdsLeft(u)')
    BY <1>2, <2>3, FreshLess
  <2> QED BY <1>1, <2>2, <2>4 DEF ScanInOrder
<1>5. CASE scan.next = NoUnit /\ scan.kind = 4
  BY <1>5 DEF NextPass
<1> QED BY <1>3, <1>4, <1>5 DEF NextPass

\* Where the scan goes when a channel was put into a request: on, or behind the end.
ScanMoves(c, full) ==
  \/ /\ ~full /\ wire' = wire
     /\ scan' = [scan EXCEPT !.pos = c + 1, !.has = TRUE]
  \/ /\ full
     /\ scan' = [scan EXCEPT !.pos = NumChannel + 1, !.has = TRUE,
                             !.next = IF @ = NoUnit THEN scan.curr ELSE @]

\* The requests, the frames and the scan after a channel was put into a request.
LEMMA GroupedInOrder ==
  ASSUME IInv, NEW u \in Nat, IdsEnough, Matched(u), pc = "scan",
         NEW c \in Channel, NextCandidate(c), unit[c] = scan.curr,
         NEW r, r = Offered(Current(c), c), NEW q \in {r, Sent(r)},
         requestId' = IF scan.has THEN requestId ELSE NextId,
         requests' = WithCurrent(q),
         wire' \in SUBSET (wire \cup {FrameOf(r)}),
         ScanMoves(c, Full(r))
  PROVE  /\ requestId' \in 0..IdWrap - 1
         /\ FramesOK(requests', wire', u)
         /\ ScanInOrder(u)'
<1> DEFINE k == KindsFrom(scan.kind + 1)
<1>1. /\ scan.curr = u /\ requestId' \in 0..IdWrap - 1
      /\ FramesOK(requests', wire', u)
      /\ Fresh(requests', wire', requestId', k)
      /\ requests'[Len(requests')] = q
      /\ q.id = r.id /\ (Full(q) <=> Full(r))
      /\ ~Full(r) => scan.next = NoUnit /\ \A f \in wire : f.id # r.id
  <2>1. scan.curr = u /\ requestId' \in 0..IdWrap - 1
    BY GroupMatched
  <2>2. FramesOK(requests', wire', u)
    BY GroupMatched
  <2>3. Fresh(requests', wire', requestId', k)
    BY GroupMatched
  <2>4. requests'[Len(requests')] = q
    BY GroupMatched
  <2>5. r \in Request /\ (~Full(r) => scan.next = NoUnit /\ \A f \in wire : f.id # r.id)
    BY GroupUnsent
  <2>6. q.id = r.id /\ (Full(q) <=> Full(r))
    BY <2>5, SentSame
  <2> QED BY <2>1, <2>2, <2>3, <2>4, <2>5, <2>6
<1>2. scan \in Scan /\ scan.next \in {NoUnit, u} /\ u # NoUnit /\ scan.kind \in 1..4
  BY DEF IInv, TypeOK, Matched, ScanInOrder, NoUnit, Scan
<1>3. k \in Nat
  BY <1>2, KindsStep
<1>4. /\ scan'.has = TRUE /\ scan'.curr = u /\ scan'.kind = scan.kind
      /\ \/ ~Full(r) /\ wire' = wire /\ scan'.next = NoUnit
         \/ Full(r) /\ scan'.next = u
  BY <1>1, <1>2 DEF Scan, ScanMoves
<1>5. IdsLeft(u)' = k
  BY <1>3, <1>4 DEF IdsLeft
<1> HIDE DEF k
<1>6. ScanInOrder(u)'
  BY <1>1, <1>2, <1>4, <1>5 DEF ScanInOrder
<1> QED BY <1>1, <1>6

LEMMA VisitChannelMatches ==
  ASSUME IInv, NEW u \in Nat, IdsEnough, Matched(u), VisitChannel
  PROVE  Matched(u)'
<1>1. PICK c \in Channel :
         NextCandidate(c) /\ unit[c] = scan.curr /\ active[c] /\ GroupChannel(c)
  BY DEF VisitChannel
<1>2. pc = "scan" /\ unit' = unit
  BY DEF VisitChannel, config
<1> DEFINE r == Offered(Current(c), c)
<1>3. requestId' = IF scan.has THEN requestId ELSE NextId
  BY <1>1 DEF GroupChannel
<1>4. CASE /\ ~Full(r) /\ requests' = WithCurrent(r) /\ UNCHANGED <<pc, wire>>
           /\ scan' = [scan EXCEPT !.pos = c + 1, !.has = TRUE]
  <2>1. /\ requestId' \in 0..IdWrap - 1 /\ FramesOK(requests', wire', u)
        /\ ScanInOrder(u)'
    <3> HIDE DEF r
    <3>1. wire' \in SUBSET (wire \cup {FrameOf(r)}) /\ ScanMoves(c, Full(r)) /\ r \in {r, Sent(r)}
      BY <1>4 DEF ScanMoves
    <3> QED BY <1>1, <1>2, <1>3, <1>4, <3>1, GroupedInOrder DEF r
  <2> QED BY <1>2, <1>4, <2>1 DEF Matched
<1>5. CASE /\ Full(r) /\ requests' = WithCurrent(Sent(r)) /\ Send(r) /\ UNCHANGED pc
           /\ scan' = [scan EXCEPT !.pos = NumChannel + 1, !.has = TRUE,
                                   !.next = IF @ = NoUnit THEN scan.curr ELSE @]
  <2>1. /\ requestId' \in 0..IdWrap - 1 /\ FramesOK(requests', wire', u)
        /\ ScanInOrder(u)'
    <3> HIDE DEF r
    <3>1. wire' \in SUBSET (wire \cup {FrameOf(r)}) /\ Sent(r) \in {r, Sent(r)}
      BY <1>5 DEF Send
    <3>2. ScanMoves(c, Full(r))
      BY <1>5 DEF ScanMoves
    <3> QED BY <1>1, <1>2, <1>3, <1>5, <3>1, <3>2, GroupedInOrder DEF r
  <2> QED BY <1>2, <1>5, <2>1 DEF Matched
<1>6. CASE requests' = WithCurrent(r) /\ pc' = "crashed" /\ UNCHANGED <<scan, wire>>
  <2>1. requestId' \in 0..IdWrap - 1 /\ FramesOK(requests', wire', u)
    <3> HIDE DEF r
    <3>1. wire' \in SUBSET (wire \cup {FrameOf(r)}) /\ r \in {r, Sent(r)}
      BY <1>6
    <3> QED BY <1>1, <1>2, <1>3, <1>6, <3>1, GroupMatched DEF r
  <2> QED BY <1>2, <1>6, <2>1 DEF Matched
<1> QED BY <1>1, <1>4, <1>5, <1>6 DEF GroupChannel, Full

LEMMA FullUnsentMatches ==
  ASSUME IInv, NEW u \in Nat, IdsEnough, Matched(u), FullUnsent
  PROVE  Matched(u)'
<1> DEFINE r(c) == Offered(Current(c), c)
<1>1. PICK c \in Channel :
        /\ NextCandidate(c) /\ unit[c] = scan.curr /\ Full(r(c))
        /\ requestId' = IF scan.has THEN requestId ELSE NextId
        /\ requests' = WithCurrent(r(c))
  BY DEF FullUnsent, Full
<1>2. /\ pc = "scan" /\ pc' = pc /\ unit' = unit /\ wire' = wire
      /\ scan' = [scan EXCEPT !.pos = NumChannel + 1, !.has = TRUE,
                              !.next = IF @ = NoUnit THEN scan.curr ELSE @]
  BY DEF FullUnsent, config
<1>3. /\ requestId' \in 0..IdWrap - 1 /\ FramesOK(requests', wire', u)
      /\ ScanInOrder(u)'
  <2> DEFINE q == r(c)
  <2>1. q = Offered(Current(c), c)
    OBVIOUS
  <2>2. Full(q) /\ requests' = WithCurrent(q)
    BY <1>1
  <2> HIDE DEF q, r
  <2>3. wire' \in SUBSET (wire \cup {FrameOf(q)}) /\ q \in {q, Sent(q)}
    BY <1>2
  <2>4. ScanMoves(c, Full(q))
    BY <1>2, <2>2 DEF ScanMoves
  <2> QED BY <1>1, <1>2, <2>1, <2>2, <2>3, <2>4, GroupedInOrder
<1> QED BY <1>2, <1>3 DEF Matched

\* Without a request the pass is over, even if it cost an id.
LEMMA CreationFailsMatches ==
  ASSUME IInv, NEW u \in Nat, IdsEnough, Matched(u), CreationFails
  PROVE  Matched(u)'
<1> DEFINE k == KindsFrom(scan.kind + 1)
<1>1. /\ pc = "scan" /\ pc' = pc /\ ~scan.has
      /\ scan' = [scan EXCEPT !.pos = NumChannel + 1]
      /\ requestId' \in {requestId, NextId}
      /\ UNCHANGED <<requests, wire, unit>>
  BY DEF CreationFails, config
<1>2. PICK c \in Channel : NextCandidate(c) /\ unit[c] = scan.curr
  BY DEF CreationFails
<1>3. /\ scan.curr = u /\ k \in Nat /\ NextId \in 0..IdWrap - 1
      /\ Fresh(requests, wire, requestId, k + 1) /\ Fresh(requests, wire, NextId, k)
  BY <1>1, <1>2, IdTaken
<1>4. /\ scan \in Scan /\ scan.next \in {NoUnit, u} /\ u # NoUnit
      /\ scan.curr = u /\ scan.next = u => scan.has
  BY <1>1 DEF IInv, TypeOK, Matched, ScanInOrder, NoUnit
<1>5. /\ scan'.has = FALSE /\ scan'.curr = u /\ scan'.next = NoUnit
      /\ scan'.kind = scan.kind /\ scan'.pos = NumChannel + 1
  BY <1>1, <1>3, <1>4 DEF Scan
<1>6. IdsLeft(u)' = k
  BY <1>3, <1>5 DEF IdsLeft
<1> HIDE DEF k
<1>7. Fresh(requests, wire, requestId, k)
  <2> DEFINE m == k + 1
  <2>1. k \in 0..m /\ m \in Nat
    BY <1>3
  <2>2. Fresh(requests, wire, requestId, m)
    BY <1>3
  <2> HIDE DEF m
  <2> QED BY <2>1, <2>2, FreshLess
<1>8. Fresh(requests', wire', requestId', IdsLeft(u)')
  BY <1>1, <1>3, <1>6, <1>7
<1>9. ScanInOrder(u)'
  BY <1>4, <1>5, <1>8 DEF ScanInOrder
<1> QED BY <1>1, <1>3, <1>9 DEF Matched

\* A channel of the unit is skipped only while it is inactive.
LEMMA SkipChannelMatches ==
  ASSUME IInv, NEW u \in Nat, IdsEnough, Matched(u), SkipChannel
  PROVE  Matched(u)'
<1>1. PICK c \in Channel :
        /\ NextCandidate(c)
        /\ ~(unit[c] = scan.curr /\ active[c])
        /\ scan' = [scan EXCEPT !.pos = c + 1,
                             !.next = IF @ = NoUnit /\ active[c] THEN unit[c] ELSE @]
  BY DEF SkipChannel
<1>2. /\ pc = "scan" /\ pc' = pc /\ UNCHANGED <<requestId, requests, wire, unit>>
  BY DEF SkipChannel, config
<1>3. /\ scan \in Scan /\ unit[c] = u /\ ScanInOrder(u) /\ scan.pos # NumChannel + 1
  <2>1. scan \in Scan /\ NumChannel \in Nat /\ c \in 1..NumChannel /\ c \in scan.pos..NumChannel
    BY <1>1, ChannelAssumption DEF IInv, TypeOK, NextCandidate, Candidates, Channel
  <2>2. scan.pos # NumChannel + 1
    BY <2>1 DEF Scan
  <2> QED BY <1>2, <2>1, <2>2 DEF Matched
<1>4. /\ scan'.has = scan.has /\ scan'.curr = scan.curr /\ scan'.kind = scan.kind
      /\ scan'.next \in {scan.next, u}
      /\ scan.curr = u => scan'.next = scan.next
  BY <1>1, <1>3 DEF Scan
<1>5. IdsLeft(u) \in Nat /\ IdsLeft(u)' \in 0..IdsLeft(u)
  <2> DEFINE k == KindsFrom(scan.kind + 1)
             p == Present(scan.kind)
  <2>1. IdsLeft(u) \in Nat /\ k \in 0..IdsLeft(u)
    BY EnvAssumption, IdsLeftType DEF IInv
  <2>2. p \in {0, 1}
    BY DEF Present
  <2>3. IdsLeft(u) = k + (IF scan.has THEN 0 ELSE p)
    BY <1>3 DEF IdsLeft
  <2>4. IdsLeft(u)' \in {k + 0, k + (IF scan.has THEN 0 ELSE p)}
    BY <1>4 DEF IdsLeft
  <2> HIDE DEF k, p
  <2> QED BY <2>1, <2>2, <2>3, <2>4
<1>6. Fresh(requests, wire, requestId, IdsLeft(u)')
  <2> DEFINE m == IdsLeft(u)'
  <2>1. m \in 0..IdsLeft(u) /\ Fresh(requests, wire, requestId, IdsLeft(u))
    BY <1>3, <1>5 DEF ScanInOrder
  <2> HIDE DEF m
  <2>2. Fresh(requests, wire, requestId, m)
    BY <1>5, <2>1, FreshLess
  <2> QED BY <2>2 DEF m
<1>7. ScanInOrder(u)'
  BY <1>2, <1>3, <1>4, <1>6 DEF ScanInOrder
<1> QED BY <1>2, <1>7 DEF Matched

\* The end of a pass that leaves the requests and the frames.
LEMMA PassUnsentMatches ==
  ASSUME IInv, NEW u \in Nat, IdsEnough, Matched(u), pc = "scan", NextPass,
         UNCHANGED <<requestId, requests, wire, unit>>
  PROVE  Matched(u)'
<1>1. TypeOK /\ ScanInOrder(u) /\ Fresh(requests, wire, requestId, IdsLeft(u))
  BY DEF IInv, Matched, ScanInOrder
<1>2. pc' \in {"scan", "idle"}
  BY <1>1, NextPassKeeps
<1>3. pc' = "scan" => ScanInOrder(u)'
  <2>1. Fresh(requests', wire', requestId, IdsLeft(u))
    BY <1>1
  <2> QED BY <1>1, <2>1, NextPassMatched
<1> QED BY <1>2, <1>3 DEF Matched

LEMMA EndPassUnsentMatches ==
  ASSUME IInv, NEW u \in Nat, IdsEnough, Matched(u), EndPassUnsent
  PROVE  Matched(u)'
BY PassUnsentMatches DEF EndPassUnsent, PassEnded, config

\* Sending puts the request as it stands on the network.
LEMMA EndPassMatches ==
  ASSUME IInv, NEW u \in Nat, IdsEnough, Matched(u), EndPass
  PROVE  Matched(u)'
<1> DEFINE n == Len(requests)
           s == requests[n]
<1>1. pc = "scan" /\ requestId' = requestId /\ unit' = unit
  BY DEF EndPass, PassEnded, config
<1>2. CASE NextPass /\ UNCHANGED <<requests, wire>>
  BY <1>1, <1>2, PassUnsentMatches
<1>3. CASE /\ scan.has /\ Send(s) /\ NextPass
           /\ requests' = [requests EXCEPT ![n] = Sent(@)]
  <2>1. /\ TypeOK /\ ScanInOrder(u) /\ FramesOK(requests, wire, u)
        /\ requests \in Seq(Request) /\ n \in 1..n
    BY <1>1, <1>3, LenProperties DEF IInv, TypeOK, Matched, FillsLast
  <2>2. s \in Request /\ s.unit = u /\ ~s.old
    BY <2>1, ElementOfSeq DEF FramesOK
  <2> DEFINE q == Sent(s)
  <2>3. /\ q \in Request /\ FrameOf(q) = FrameOf(s) /\ (Full(q) <=> Full(s))
        /\ q.id = s.id /\ q.unit = u /\ ~q.old
    BY <2>2, SentSame
  <2>4. requests' = [requests EXCEPT ![n] = q] /\ wire' = wire \cup {FrameOf(q)}
    BY <1>3, <2>3 DEF Send
  <2> HIDE DEF q
  <2>5. requests'[Len(requests')] = q
    BY <2>1, <2>3, <2>4, ExceptSeq
  <2>6. /\ FramesOK(requests', wire', u)
        /\ Fresh(requests', wire', requestId, KindsFrom(scan.kind + 1))
    <3>1. wire' \in SUBSET (wire \cup {FrameOf(q)})
      BY <2>4
    <3>2. /\ FramesOK([requests EXCEPT ![n] = q], wire', u)
          /\ Fresh([requests EXCEPT ![n] = q], wire', requestId, KindsFrom(scan.kind + 1))
      BY <1>1, <1>3, <2>3, <3>1, FilledMatched
    <3> QED BY <2>4, <3>2
  <2>7. IdsLeft(u) = KindsFrom(scan.kind + 1)
    <3>1. KindsFrom(scan.kind + 1) \in Nat
      BY <2>1, KindsStep DEF TypeOK, Scan
    <3> QED BY <1>3, <3>1 DEF IdsLeft
  <2>8. pc' \in {"scan", "idle"}
    BY <1>1, <1>3, <2>1, NextPassKeeps
  <2>9. ASSUME pc' = "scan" PROVE ScanInOrder(u)'
    <3>1. Fresh(requests', wire', requestId, IdsLeft(u))
      BY <2>6, <2>7
    <3>2. Full(s) => Full(requests'[Len(requests')])
      BY <2>3, <2>5
    <3> QED BY <1>1, <1>3, <2>1, <2>9, <3>1, <3>2, NextPassMatched
  <2>10. requestId \in 0..IdWrap - 1 /\ \A c \in Channel : unit[c] = u
    BY DEF Matched
  <2> HIDE DEF n, s
  <2> QED BY <1>1, <2>6, <2>8, <2>9, <2>10 DEF Matched
<1>4. CASE pc' = "crashed" /\ UNCHANGED <<scan, requests, wire>>
  BY <1>1, <1>4 DEF Matched
<1> QED BY <1>2, <1>3, <1>4 DEF EndPass

-----------------------------------------------------------------------------
(* The other steps and the frames.                                         *)

\* Nothing but frames taken from the network.
LEMMA FramesFewer ==
  ASSUME NEW s, NEW w, NEW u, FramesOK(s, w, u), NEW v \in SUBSET w
  PROVE  FramesOK(s, v, u)
BY DEF FramesOK

LEMMA QuietMatches ==
  ASSUME NEW u, Matched(u), UNCHANGED <<requestId, requests, unit>>,
         wire' \in SUBSET wire, pc' \in {"idle", "crashed"}
  PROVE  Matched(u)'
<1>1. FramesOK(requests', wire', u)
  BY FramesFewer DEF Matched
<1> QED BY <1>1 DEF Matched

LEMMA LoseFrameMatches ==
  ASSUME NEW u, Matched(u), LoseFrame, TypeOK, IdsEnough
  PROVE  Matched(u)'
<1>1. /\ wire' \in SUBSET wire
      /\ UNCHANGED <<pc, scan, requestId, requests, unit>>
  BY DEF LoseFrame, config
<1>2. FramesOK(requests', wire', u)
  BY <1>1, FramesFewer DEF Matched
<1>3. pc' = "purge" => RestedToPurge'
  BY <1>1 DEF Matched, RestedToPurge
<1>4. pc' = "scan" => ScanInOrder(u)'
  <2>1. IdsLeft(u)' = IdsLeft(u)
    BY <1>1 DEF IdsLeft
  <2>2. pc = "scan" => Fresh(requests', wire', requestId', IdsLeft(u)')
    BY <1>1, <2>1 DEF Matched, ScanInOrder, Fresh
  <2> QED BY <1>1, <2>2 DEF Matched, ScanInOrder
<1> QED BY <1>1, <1>2, <1>3, <1>4 DEF Matched

\* The ids the execution may take are those the environment has let rest.
LEMMA ExecuteMatches ==
  ASSUME IInv, NEW u, IdsEnough, Matched(u), Execute
  PROVE  Matched(u)'
<1>1. /\ pc' = "purge" /\ IdsHaveRested
      /\ UNCHANGED <<requestId, requests, wire, unit>>
  BY DEF Execute, config
<1>2. NextIds = Ahead(requestId, KindsFrom(1))
  BY KindsCounted DEF NextIds, Ahead, Used
<1>3. requests \in Seq(Request) /\ DOMAIN requests = 1..Len(requests)
  BY LenProperties DEF IInv, TypeOK
<1>4. RestedToPurge
  BY <1>1, <1>2, <1>3 DEF IdsHaveRested, RestedToPurge, Matched, FramesOK
<1>5. RestedToPurge'
  BY <1>1, <1>4 DEF RestedToPurge
<1> QED BY <1>1, <1>5 DEF Matched

LEMMA PurgeRequestMatches ==
  ASSUME IInv, NEW u, Matched(u), PurgeRequest
  PROVE  Matched(u)'
<1>1. requests \in Seq(Request) /\ DOMAIN requests = 1..Len(requests) /\ Len(requests) \in Nat
  BY LenProperties DEF IInv, TypeOK
<1>2. PICK i \in 1..Len(requests) : requests' = Without(requests, i)
  BY <1>1 DEF PurgeRequest
<1>3. /\ pc = "purge" /\ pc' = pc /\ UNCHANGED <<requestId, wire, unit>>
  BY DEF PurgeRequest, config
<1>4. FramesOK(requests', wire', u)
  BY <1>1, <1>2, <1>3, FramesWithout DEF Matched
<1>5. RestedToPurge'
  <2>1. Len(requests') = Len(requests) - 1
    BY <1>1, <1>2, WithoutProperties
  <2>2. \A j \in 1..Len(requests') : \E k \in 1..Len(requests) : requests'[j] = requests[k]
    <3>1. \A j \in 1..(Len(requests) - 1) :
               /\ j < i => requests'[j] = requests[j]
               /\ j >= i => requests'[j] = requests[j + 1]
      BY <1>1, <1>2, WithoutProperties
    <3>2. \A j \in 1..(Len(requests) - 1) : j \in 1..Len(requests) /\ j + 1 \in 1..Len(requests)
      BY <1>1
    <3> QED BY <1>1, <2>1, <3>1, <3>2
  <2> QED BY <1>3, <2>2 DEF Matched, RestedToPurge
<1> QED BY <1>3, <1>4, <1>5 DEF Matched

\* After the purge nobody has one of the ids to come.
LEMMA BeginScanMatches ==
  ASSUME IInv, NEW u \in Nat, IdsEnough, Matched(u), BeginScan
  PROVE  Matched(u)'
<1>1. /\ pc = "purge" /\ \A i \in DOMAIN requests : ~requests[i].late
      /\ pc' = "scan" /\ UNCHANGED <<requestId, requests, wire, unit>>
      /\ scan' = [kind |-> 1, pos |-> 1, curr |-> 255, next |-> NoUnit, has |-> FALSE]
  BY DEF BeginScan, Purged, config
<1>2. DOMAIN requests = 1..Len(requests)
  BY LenProperties DEF IInv, TypeOK
<1>3. Fresh(requests, wire, requestId, KindsFrom(1))
  BY <1>1, <1>2 DEF Matched, RestedToPurge, Fresh
<1>4. IdsLeft(u)' \in 0..KindsFrom(1) /\ KindsFrom(1) \in Nat
  <2> DEFINE k == KindsFrom(2)
             p == Present(1)
  <2>1. KindsFrom(1) = p + k /\ p \in {0, 1} /\ k \in Nat
    BY KindsStep
  <2>2. scan'.kind = 1 /\ scan'.kind + 1 = 2
    BY <1>1
  <2>3. IdsLeft(u)' \in {k + 0, k + p}
    BY <2>2 DEF IdsLeft
  <2> HIDE DEF k, p
  <2> QED BY <2>1, <2>3
<1>5. Fresh(requests, wire, requestId, IdsLeft(u)')
  <2> DEFINE m == IdsLeft(u)'
  <2> HIDE DEF m
  <2>1. m \in 0..KindsFrom(1)
    BY <1>4 DEF m
  <2>2. Fresh(requests, wire, requestId, m)
    BY <1>3, <1>4, <2>1, FreshLess
  <2> QED BY <2>2 DEF m
<1>6. u # NoUnit /\ scan'.has = FALSE /\ scan'.next = NoUnit /\ scan'.curr = 255
  BY <1>1 DEF NoUnit
<1>7. ScanInOrder(u)'
  BY <1>1, <1>5, <1>6 DEF ScanInOrder
<1> QED BY <1>1, <1>7 DEF Matched

LEMMA HandleDataMatches ==
  ASSUME IInv, NEW u, Matched(u), HandleData
  PROVE  Matched(u)'
<1>1. requests \in Seq(Request) /\ DOMAIN requests = 1..Len(requests)
  BY LenProperties DEF IInv, TypeOK
<1>2. /\ pc = "idle" /\ pc' = pc /\ UNCHANGED <<requestId, unit>>
      /\ wire' \in SUBSET wire
  BY DEF HandleData, config
<1>3. \/ requests' = requests
      \/ \E i \in 1..Len(requests) : requests' = Without(requests, i)
  BY <1>1 DEF HandleData, Addressee
<1>4. CASE requests' = requests
  BY <1>2, <1>4, QuietMatches
<1>5. CASE \E i \in 1..Len(requests) : requests' = Without(requests, i)
  <2>1. FramesOK(requests', wire', u)
    BY <1>1, <1>2, <1>5, FramesWithout DEF Matched
  <2> QED BY <1>2, <2>1 DEF Matched
<1> QED BY <1>3, <1>4, <1>5

LEMMA ExpireRequestMatches ==
  ASSUME IInv, NEW u, Matched(u), NEW c \in Channel, ExpireRequest(c)
  PROVE  Matched(u)'
<1>1. requests \in Seq(Request) /\ DOMAIN requests = 1..Len(requests)
  BY LenProperties DEF IInv, TypeOK
<1>2. PICK i \in 1..Len(requests) : requests' = [requests EXCEPT ![i].late = TRUE]
  BY <1>1 DEF ExpireRequest
<1>3. /\ pc = "idle" /\ pc' = pc /\ UNCHANGED <<requestId, unit, wire>>
  BY DEF ExpireRequest, config
<1> DEFINE r == requests[i]
           q == [r EXCEPT !.late = TRUE]
<1>4. r \in Request
  BY <1>1, ElementOfSeq
<1>5. q \in Request /\ FrameOf(q) = FrameOf(r) /\ q.old = r.old
  BY <1>4 DEF Request, FrameOf
<1>6. requests' = [requests EXCEPT ![i] = q]
  BY <1>2
<1> HIDE DEF q
<1>7. /\ Len(requests') = Len(requests)
      /\ \A j \in 1..Len(requests) : requests'[j] = IF j = i THEN q ELSE requests[j]
  BY <1>1, <1>5, <1>6, ExceptSeq
<1>8. \A j \in 1..Len(requests) :
         FrameOf(requests'[j]) = FrameOf(requests[j]) /\ requests'[j].old = requests[j].old
  BY <1>5, <1>7
<1>9. FramesOK(requests', wire', u)
  BY <1>3, <1>7, <1>8, FramesMarked DEF Matched
<1> QED BY <1>3, <1>9 DEF Matched

\* A unit that is configured again is the same one.
LEMMA SetUnitMatches ==
  ASSUME IInv, NEW u, OneUnit(u), Matched(u), SetUnit
  PROVE  Matched(u)'
<1>1. PICK c \in Channel : \E x \in UnitOf[c] : unit' = [unit EXCEPT ![c] = x]
  BY DEF SetUnit
<1>2. unit' = [unit EXCEPT ![c] = u] /\ unit \in [Channel -> Nat]
  BY <1>1 DEF OneUnit, IInv, TypeOK
<1>3. \A d \in Channel : unit'[d] = u
  BY <1>2 DEF Matched
<1>4. pc = "idle" /\ UNCHANGED <<pc, requestId, requests, wire>>
  BY DEF SetUnit
<1> QED BY <1>3, <1>4 DEF Matched

\* The server has not restarted, or anything may be.
Undisturbed(u) == restarts <= MaxRestarts /\ (restarts = 0 => Matched(u))

LEMMA StepMatches ==
  ASSUME IInv, NEW u, OneUnit(u), IdsEnough, Matched(u), [Next]_vars, restarts' = restarts
  PROVE  Matched(u)'
<1>1. u \in Nat /\ TypeOK
  BY DEF OneUnit, IInv
<1>2. ~Restart
  BY <1>1 DEF Restart, TypeOK
<1>3. CASE Execute
  BY <1>3, ExecuteMatches
<1>4. CASE PurgeRequest
  BY <1>4, PurgeRequestMatches
<1>5. CASE OpenConnection \/ NotConnected
  BY <1>5, QuietMatches DEF OpenConnection, NotConnected, config
<1>6. CASE BeginScan
  BY <1>1, <1>6, BeginScanMatches
<1>7. CASE ScanStep
  BY <1>1, <1>7, VisitChannelMatches, SkipChannelMatches, EndPassMatches,
     CreationFailsMatches, FullUnsentMatches, EndPassUnsentMatches DEF ScanStep
<1>8. CASE HandleData
  BY <1>8, HandleDataMatches
<1>9. CASE Acknowledge \/ SetHost \/ SetAddress \/ SetActimode \/ ConnectionUp \/ ConnectionFault
  BY <1>9, QuietMatches
     DEF Acknowledge, SetHost, SetAddress, SetActimode, ConnectionUp, ConnectionFault, config
<1>10. CASE SetUnit
  BY <1>10, SetUnitMatches
<1>11. CASE \E c \in Channel : ExpireRequest(c)
  BY <1>11, ExpireRequestMatches
<1>12. CASE LoseFrame
  BY <1>1, <1>12, LoseFrameMatches
<1>13. CASE UNCHANGED vars
  <2>1. UNCHANGED <<pc, scan, requestId, requests, wire, unit>>
    BY <1>13 DEF vars, config
  <2>2. FramesOK(requests', wire', u) /\ (\A c \in Channel : unit'[c] = u) /\ requestId' \in 0..IdWrap - 1
    BY <2>1 DEF Matched
  <2>3. pc' = "purge" => RestedToPurge'
    BY <2>1 DEF Matched, RestedToPurge
  <2>4. IdsLeft(u)' = IdsLeft(u)
    BY <2>1 DEF IdsLeft
  <2>5. pc' = "scan" => ScanInOrder(u)'
    BY <2>1, <2>4 DEF Matched, ScanInOrder
  <2> QED BY <2>2, <2>3, <2>5 DEF Matched
<1> QED BY <1>2, <1>3, <1>4, <1>5, <1>6, <1>7, <1>8, <1>9, <1>10, <1>11, <1>12, <1>13 DEF Next

LEMMA RestartsStep ==
  ASSUME [Next]_vars
  PROVE  \/ restarts' = restarts
         \/ restarts < MaxRestarts /\ restarts' = restarts + 1
BY DEF Next, vars, config, errors, env, Execute, PurgeRequest, OpenConnection, BeginScan,
       NotConnected, ScanStep, VisitChannel, SkipChannel, EndPass, CreationFails,
       FullUnsent, EndPassUnsent, HandleData, Acknowledge, SetHost, SetAddress, SetUnit,
       SetActimode, ExpireRequest, LoseFrame, ConnectionUp, ConnectionFault, Restart

LEMMA InitMatches ==
  ASSUME NEW u, OneUnit(u), Init
  PROVE  Undisturbed(u)
<1>1. \A c \in Channel : unit[c] = u
  BY DEF Init, Choices, OneUnit
<1>2. requestId \in 0..IdWrap - 1 /\ restarts <= MaxRestarts
  BY EnvAssumption DEF Init
<1>3. FramesOK(requests, wire, u)
  <2>1. Len(requests) = 0 /\ wire = {}
    BY DEF Init
  <2> QED BY <2>1 DEF FramesOK
<1> QED BY <1>1, <1>2, <1>3 DEF Init, Matched, Undisturbed

LEMMA NextMatches ==
  ASSUME IInv, NEW u, OneUnit(u), IdsEnough, Undisturbed(u), [Next]_vars
  PROVE  Undisturbed(u)'
<1>1. restarts \in Nat /\ MaxRestarts \in Nat
  BY EnvAssumption DEF IInv, TypeOK
<1>2. CASE restarts' = restarts
  BY <1>2, StepMatches DEF Undisturbed
<1>3. CASE restarts < MaxRestarts /\ restarts' = restarts + 1
  BY <1>1, <1>3 DEF Undisturbed
<1> QED BY <1>2, <1>3, RestartsStep

LEMMA NothingDisturbs ==
  ASSUME NEW u, OneUnit(u), IdsEnough
  PROVE  Spec => []Undisturbed(u)
<1>1. Init => Undisturbed(u)
  BY InitMatches
<1>2. IInv /\ Undisturbed(u) /\ [Next]_vars => Undisturbed(u)'
  BY NextMatches
<1> QED BY <1>1, <1>2, Invariance, PTL DEF Spec

\* In a plant of one unit with an id for every kind of channel, until the server
\* restarts a frame with the id of a live request is that request as it stands.
THEOREM FramesAreRequests ==
  ASSUME NEW u, OneUnit(u), IdsEnough
  PROVE  Spec => [](restarts = 0 => FramesMatch)
<1>1. IInv /\ Undisturbed(u) => (restarts = 0 => FramesMatch)
  <2> SUFFICES ASSUME IInv, Undisturbed(u), restarts = 0 PROVE FramesMatch
    OBVIOUS
  <2>1. FramesOK(requests, wire, u) /\ DOMAIN requests = 1..Len(requests)
    BY LenProperties DEF Undisturbed, Matched, IInv, TypeOK
  <2> QED BY <2>1 DEF FramesOK, FramesMatch
<1>2. Spec => []Undisturbed(u)
  BY NothingDisturbs
<1> QED BY <1>1, <1>2, Invariance, PTL

\* A reply to a request of the unit carries the registers the channels ask for.
LEMMA ReplyFits ==
  ASSUME IInv, NEW u, Matched(u), [Next]_vars
  PROVE  \A c \in Channel :
           pv'[c] # pv[c] => pv'[c] = [unit |-> unit[c], reg |-> address[c]]
<1> SUFFICES ASSUME NEW c \in Channel, pv'[c] # pv[c]
             PROVE  pv'[c] = [unit |-> unit[c], reg |-> address[c]]
  OBVIOUS
<1>1. requests \in Seq(Request) /\ DOMAIN requests = 1..Len(requests)
  BY LenProperties DEF IInv, TypeOK
<1>2. HandleData
  BY DEF Next, vars, config, errors, env, Execute, PurgeRequest, OpenConnection, BeginScan,
         NotConnected, ScanStep, VisitChannel, SkipChannel, EndPass, CreationFails,
         FullUnsent, EndPassUnsent, Acknowledge, SetHost, SetAddress, SetUnit,
         SetActimode, ExpireRequest, LoseFrame, ConnectionUp, ConnectionFault, Restart
<1>3. PICK f \in wire, outcome \in Outcomes, i \in 1..Len(requests) :
         requests[i].id = f.id /\ HandleResponse(f, requests[i], outcome)
  BY <1>1, <1>2 DEF HandleData, Addressee, errors
<1> DEFINE r == requests[i]
<1>4. /\ f = FrameOf(r) /\ r.unit = u /\ unit[c] = u
  BY <1>3 DEF Matched, FramesOK
<1>5. r.start \in Nat /\ address[c] \in Nat
  BY PartsGiveRequestsOK DEF IInv, TypeOK, RequestsOK, RequestOK
<1>6. f.unit = r.unit /\ f.start = r.start
  BY <1>4 DEF FrameOf
<1> HIDE DEF r
<1>7. pv' = [d \in Channel |->
               IF d \in r.members
               THEN [unit |-> f.unit, reg |-> f.start + (address[d] - r.start)]
               ELSE pv[d]]
  BY <1>3 DEF HandleResponse, ReadResponse, r
<1>8. f.start + (address[c] - r.start) = address[c]
  BY <1>5, <1>6
<1> QED BY <1>4, <1>6, <1>7, <1>8

\* ... so no process value comes from a register other than the channel's own,
\* however late the reply is, while the server does not restart.
THEOREM ValuesFromTheirRegisters ==
  ASSUME NEW u, OneUnit(u), IdsEnough, MaxRestarts = 0
  PROVE  Spec => RightRegister
<1>1. IInv /\ Undisturbed(u) => Matched(u)
  BY DEF IInv, TypeOK, Undisturbed
<1>2. IInv /\ Undisturbed(u) /\ [Next]_vars =>
        [\A c \in Channel :
           pv'[c] # pv[c] => pv'[c] = [unit |-> unit[c], reg |-> address[c]]]_vars
  BY <1>1, ReplyFits
<1>3. Spec => []Undisturbed(u)
  BY NothingDisturbs
<1> QED BY <1>2, <1>3, Invariance, PTL DEF Spec, RightRegister
=============================================================================
