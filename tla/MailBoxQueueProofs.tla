------------------------- MODULE MailBoxQueueProofs -------------------------
(***************************************************************************)
(* Proofs about MailBoxQueue, for every set of callers and every bound:    *)
(* the queue with or without failing allocations, the lock without.        *)
(***************************************************************************)
EXTENDS MailBoxQueue, SequenceTheorems, FiniteSetTheorems, TLAPS

-----------------------------------------------------------------------------
(* The queue.                                                              *)

Distinct(q) == \A i, j \in 1..Len(q) : q[i] = q[j] => i = j

\* Dropping the head keeps the order and every other place.
LEMMA TailDistinct ==
  ASSUME NEW q \in Seq(Caller), q # <<>>, Distinct(q)
  PROVE  Tail(q) \in Seq(Caller) /\ Distinct(Tail(q))
<1>1. /\ Len(q) \in Nat /\ Tail(q) \in Seq(Caller) /\ Len(Tail(q)) = Len(q) - 1
      /\ \A i \in 1..Len(Tail(q)) : Tail(q)[i] = q[i + 1]
  BY HeadTailProperties, LenProperties
<1>2. \A i \in 1..Len(Tail(q)) : i + 1 \in 1..Len(q)
  BY <1>1
<1>3. QED
  BY <1>1, <1>2 DEF Distinct

\* Queueing a caller gives it one place, behind the others.
LEMMA AddElementDistinct ==
  ASSUME NEW q \in Seq(Caller), Distinct(q), NEW c \in Caller
  PROVE  /\ AddElement(q, c) \in Seq(Caller) /\ Distinct(AddElement(q, c))
         /\ q # <<>> => AddElement(q, c) # <<>> /\ Head(AddElement(q, c)) = Head(q)
<1>1. CASE Member(q, c)
  BY <1>1 DEF AddElement
<1>2. CASE ~Member(q, c)
  <2> DEFINE a == Append(q, c)
  <2>1. Len(q) \in Nat /\ DOMAIN q = 1..Len(q)
    BY LenProperties
  <2>2. /\ a \in Seq(Caller) /\ a # <<>> /\ Len(a) = Len(q) + 1
        /\ \A i \in 1..Len(q) : a[i] = q[i]
        /\ a[Len(q) + 1] = c
    BY AppendProperties
  <2>3. \A i \in 1..Len(q) : q[i] # c
    BY <1>2, <2>1 DEF Member
  <2>4. q # <<>> => Head(a) = Head(q)
    BY HeadTailAppend
  <2>5. AddElement(q, c) = a
    BY <1>2 DEF AddElement
  <2> HIDE DEF a
  <2>6. \A i \in 1..Len(a) : i \in 1..Len(q) \/ i = Len(q) + 1
    BY <2>1, <2>2
  <2>7. Distinct(a)
    BY <2>2, <2>3, <2>6 DEF Distinct
  <2>8. QED
    BY <2>2, <2>4, <2>5, <2>7
<1>3. QED
  BY <1>1, <1>2

\* Callers that are in the queue once are at least as many as its places.
LEMMA DistinctIsShort ==
  ASSUME NEW q \in Seq(Caller), Distinct(q)
  PROVE  Len(q) <= Cardinality(Caller)
<1>1. q \in [1..Len(q) -> Caller] /\ Len(q) \in Nat
  BY LenProperties
<1>2. q \in Injection(1..Len(q), Caller)
  BY <1>1 DEF Distinct, Injection, IsInjective
<1>3. IsFiniteSet({Self}) /\ Caller = Client \cup {Self}
  BY FS_Singleton DEF Caller
<1>4. IsFiniteSet(Caller)
  BY <1>3, CallerAssumption, FS_AddElement
<1>5. Cardinality(1..Len(q)) <= Cardinality(Caller)
  BY <1>2, <1>4, FS_Injection
<1>6. Cardinality(1..Len(q)) = Len(q)
  <2>1. Cardinality(1..Len(q)) = IF 1 > Len(q) THEN 0 ELSE Len(q) - 1 + 1
    <3>1. 1 \in Int /\ Len(q) \in Int
      BY <1>1
    <3>2. QED
      BY <3>1, FS_Interval, Zenon
  <2>2. QED
    BY <1>1, <2>1
<1>7. QED
  BY <1>5, <1>6

\* TypeOK without the length of the queue, which follows from QueueDistinct.
Types ==
  /\ queue \in Seq(Caller)
  /\ busy \in BOOLEAN
  /\ elapsed \in BOOLEAN
  /\ client \in [Caller -> {"idle", "waiting", "holding"}]
  /\ crashed \in BOOLEAN
  /\ fails \in Nat
  /\ sets \in Nat
  /\ restarts \in Nat

QueueInv == Types /\ Distinct(queue)

LEMMA AfterTimeoutDistinct ==
  ASSUME QueueInv, queue # <<>>
  PROVE  AfterTimeout \in Seq(Caller) /\ Distinct(AfterTimeout)
BY TailDistinct DEF AfterTimeout, QueueInv, Types

\* What one call of occupy or free leaves.
LEMMA CallKeepsQueue ==
  ASSUME QueueInv, NEW c \in Caller,
         Occupy(c) \/ OccupyHeapFails(c) \/ Free(c)
  PROVE  /\ queue' \in Seq(Caller) /\ Distinct(queue')
         /\ busy' \in BOOLEAN /\ elapsed' \in BOOLEAN /\ crashed' \in BOOLEAN
         /\ fails' \in Nat
         /\ client' \in [Caller -> {"idle", "waiting", "holding"}]
<1>1. Types /\ Distinct(queue)
  BY DEF QueueInv
<1>2. <<>> \in Seq(Caller) /\ Distinct(<<>>)
  BY EmptySeq DEF Distinct
<1>3. <<c>> \in Seq(Caller) /\ Distinct(<<c>>)
  BY DEF Distinct
<1>4. queue # <<>> => /\ AfterTimeout \in Seq(Caller) /\ Distinct(AfterTimeout)
                      /\ Tail(queue) \in Seq(Caller) /\ Distinct(Tail(queue))
                      /\ AddElement(AfterTimeout, c) \in Seq(Caller)
                      /\ Distinct(AddElement(AfterTimeout, c))
  BY <1>1, AfterTimeoutDistinct, TailDistinct, AddElementDistinct DEF Types
<1>5. /\ queue' \in Seq(Caller) /\ Distinct(queue')
  <2>1. CASE Occupy(c)
    BY <1>1, <1>2, <1>3, <1>4, <2>1
       DEF Types, Occupy, OccupyEmpty, OccupyHead, OccupyOther
  <2>2. CASE OccupyHeapFails(c)
    BY <1>1, <1>2, <2>2 DEF Types, OccupyHeapFails
  <2>3. CASE Free(c)
    BY <1>1, <1>4, <2>3 DEF Types, Free, FreeEmpty, FreeHead, FreeRefused
  <2>4. QED
    BY <2>1, <2>2, <2>3
<1>6. fails' \in Nat
  BY <1>1 DEF Types, Occupy, OccupyHeapFails, Free
<1>7. busy' \in BOOLEAN /\ elapsed' \in BOOLEAN /\ crashed' \in BOOLEAN
  BY <1>1 DEF Types, Occupy, OccupyEmpty, OccupyHead, OccupyOther, Granted,
              OccupyHeapFails, Free, FreeEmpty, FreeHead, FreeRefused
<1>8. client' \in [Caller -> {"idle", "waiting", "holding"}]
  BY <1>1 DEF Types, Occupy, OccupyEmpty, OccupyHead, OccupyOther, Granted,
              OccupyHeapFails, Free
<1>9. QED
  BY <1>5, <1>6, <1>7, <1>8

\* One step keeps the types and the queue free of repeated callers.
LEMMA NextKeepsQueue == QueueInv /\ [Next]_vars => QueueInv'
<1> SUFFICES ASSUME QueueInv, [Next]_vars PROVE QueueInv'
  OBVIOUS
<1>1. Types /\ Distinct(queue) /\ Client \subseteq Caller /\ Self \in Caller
  BY DEF QueueInv, Caller
<1>2. ASSUME NEW c \in Caller, Occupy(c) \/ OccupyHeapFails(c) \/ Free(c),
             sets' \in Nat, restarts' = restarts
      PROVE  QueueInv'
  BY <1>1, <1>2, CallKeepsQueue DEF QueueInv, Types
<1>3. CASE \E c \in Client : Ask(c) \/ AskHeapFails(c) \/ Finish(c) \/ Cancel(c)
  BY <1>1, <1>2, <1>3 DEF Ask, AskHeapFails, Finish, Cancel, Types
<1>4. CASE \E c \in Client : GiveUp(c)
  BY <1>1, <1>4 DEF GiveUp, QueueInv, Types, Distinct
<1>5. CASE SetBusy
  BY <1>1, <1>2, <1>5 DEF SetBusy, Types
<1>6. CASE Elapse
  BY <1>1, <1>6 DEF Elapse, QueueInv, Types, Distinct
<1>7. CASE Restart
  <2>1. <<>> \in Seq(Caller) /\ Distinct(<<>>)
    BY EmptySeq DEF Distinct
  <2>2. Types'
    <3>1. client' \in [Caller -> {"idle", "waiting", "holding"}]
      BY <1>7 DEF Restart
    <3>2. /\ restarts' \in Nat /\ sets' \in Nat /\ fails' \in Nat
          /\ elapsed' \in BOOLEAN
      BY <1>1, <1>7 DEF Restart, Types
    <3>3. QED
      BY <1>7, <2>1, <3>1, <3>2 DEF Restart, Types
  <2>3. Distinct(queue')
    BY <1>7, <2>1 DEF Restart
  <2>4. QED
    BY <2>2, <2>3 DEF QueueInv
<1>8. CASE UNCHANGED vars
  BY <1>1, <1>8 DEF vars, QueueInv, Types, Distinct
<1>9. QED
  BY <1>3, <1>4, <1>5, <1>6, <1>7, <1>8 DEF Next

LEMMA InitQueue == Init => QueueInv
<1>1. <<>> \in Seq(Caller) /\ Distinct(<<>>)
  BY EmptySeq DEF Distinct
<1> SUFFICES ASSUME Init PROVE QueueInv
  OBVIOUS
<1>2. Types
  BY <1>1 DEF Init, Types
<1>3. Distinct(queue)
  BY <1>1 DEF Init
<1>4. QED
  BY <1>2, <1>3 DEF QueueInv

\* The queue invariant holds with failing allocations, too.
THEOREM QueueInvariance == Spec => []QueueInv
BY InitQueue, NextKeepsQueue, PTL DEF Spec

\* Every variable keeps its type, and the queue is never longer than there are
\* callers, however often they ask.
THEOREM TypeCorrect == Spec => []TypeOK
<1>1. QueueInv => TypeOK
  BY DistinctIsShort DEF QueueInv, Types, TypeOK
<1>2. QED
  BY <1>1, QueueInvariance, PTL

\* No caller ever has two places in the queue.
THEOREM NoCallerTwice == Spec => []QueueDistinct
<1>1. QueueInv => QueueDistinct
  BY LenProperties DEF QueueInv, Types, Distinct, QueueDistinct
<1>2. QED
  BY <1>1, QueueInvariance, PTL

-----------------------------------------------------------------------------
(* The lock, as long as the queue gets its memory.                         *)

LockInv == QueueInv /\ BusyIsHeld /\ HolderIsHead

\* occupy leaves a busy mailbox with a new user, or the user it had.
LEMMA OccupyKeepsLock ==
  ASSUME LockInv, NEW c \in Caller, Occupy(c)
  PROVE  BusyIsHeld' /\ (sets' = sets => HolderIsHead')
         /\ [Lock!Next]_CurrentUser
<1>1. /\ queue \in Seq(Caller) /\ Distinct(queue) /\ busy \in BOOLEAN
      /\ client \in [Caller -> {"idle", "waiting", "holding"}]
      /\ BusyIsHeld /\ HolderIsHead
  BY DEF LockInv, QueueInv, Types
<1>2. queue # <<>> => AfterTimeout \in Seq(Caller) /\ Distinct(AfterTimeout)
  BY AfterTimeoutDistinct DEF LockInv
<1>3. NoUser \notin Caller
  BY CallerAssumption
<1>4. CASE OccupyEmpty(c)
  <2>1. ~busy /\ busy' /\ queue' = <<c>> /\ client' = [client EXCEPT ![c] = "holding"]
    BY <1>1, <1>4 DEF OccupyEmpty, Granted, BusyIsHeld
  <2>2. queue' # <<>> /\ Head(queue') = c
    BY <2>1
  <2>3. BusyIsHeld'
    BY <1>1, <2>1, <2>2 DEF BusyIsHeld
  <2>4. sets' = sets => HolderIsHead'
    BY <1>1, <2>1, <2>2 DEF HolderIsHead
  <2>5. Lock!Next
    BY <1>3, <2>1, <2>2 DEF Lock!Next, Lock!Grant, CurrentUser
  <2>6. QED
    BY <2>3, <2>4, <2>5
<1>5. CASE OccupyHead(c)
  <2>1. /\ busy' /\ queue' = queue /\ queue # <<>> /\ Head(queue) = c
        /\ client' = [client EXCEPT ![c] = "holding"]
    BY <1>5 DEF OccupyHead, Granted
  <2>2. BusyIsHeld'
    BY <1>1, <2>1 DEF BusyIsHeld
  <2>3. sets' = sets => HolderIsHead'
    BY <1>1, <2>1 DEF HolderIsHead
  <2>4. [Lock!Next]_CurrentUser
    BY <1>1, <1>3, <2>1 DEF Lock!Next, Lock!Grant, CurrentUser
  <2>5. QED
    BY <2>2, <2>3, <2>4
<1>6. CASE OccupyOther(c)
  <2>1. queue # <<>> /\ Head(queue) # c /\ AfterTimeout \in Seq(Caller)
    BY <1>2, <1>6 DEF OccupyOther
  <2>2. busy => AfterTimeout = queue
    BY DEF AfterTimeout, TimedOut
  <2>3. CASE /\ AfterTimeout = <<>> /\ queue' = <<>> /\ busy' = busy
             /\ client' = [client EXCEPT ![c] = "waiting"]
    <3>1. ~busy
      BY <2>1, <2>2, <2>3
    <3>2. QED
      BY <1>1, <2>3, <3>1 DEF BusyIsHeld, HolderIsHead, CurrentUser
  <2>4. CASE /\ AfterTimeout # <<>> /\ Head(AfterTimeout) = c
             /\ queue' = AfterTimeout /\ busy' = TRUE
             /\ client' = [client EXCEPT ![c] = "holding"]
    <3>1. ~busy
      BY <1>1, <2>1, <2>2, <2>4
    <3>2. BusyIsHeld'
      BY <1>1, <2>4 DEF BusyIsHeld
    <3>3. sets' = sets => HolderIsHead'
      BY <1>1, <2>4, <3>1 DEF HolderIsHead
    <3>4. Lock!Next
      BY <1>3, <2>4, <3>1 DEF Lock!Next, Lock!Grant, CurrentUser
    <3>5. QED
      BY <3>2, <3>3, <3>4
  <2>5. CASE /\ AfterTimeout # <<>> /\ Head(AfterTimeout) # c
             /\ queue' = AddElement(AfterTimeout, c) /\ busy' = busy
             /\ client' = [client EXCEPT ![c] = "waiting"]
    <3>1. queue' # <<>> /\ Head(queue') = Head(AfterTimeout)
      BY <1>2, <2>1, <2>5, AddElementDistinct
    <3>2. busy => Head(queue') = Head(queue)
      BY <2>2, <3>1
    <3>3. BusyIsHeld'
      BY <1>1, <2>1, <2>5, <3>1, <3>2 DEF BusyIsHeld
    <3>4. sets' = sets => HolderIsHead'
      BY <1>1, <2>5, <3>1, <3>2 DEF HolderIsHead
    <3>5. UNCHANGED CurrentUser
      BY <1>1, <2>1, <2>5, <3>1, <3>2 DEF CurrentUser
    <3>6. QED
      BY <3>3, <3>4, <3>5
  <2>6. QED
    BY <1>6, <2>3, <2>4, <2>5 DEF OccupyOther, Granted
<1>7. QED
  BY <1>4, <1>5, <1>6 DEF Occupy

\* free takes the mailbox from its user, or changes nothing of the lock.
LEMMA FreeKeepsLock ==
  ASSUME LockInv, NEW c \in Caller, Free(c)
  PROVE  BusyIsHeld' /\ (c # Self /\ sets' = sets => HolderIsHead')
         /\ [Lock!Next]_CurrentUser
<1>1. /\ queue \in Seq(Caller) /\ busy \in BOOLEAN
      /\ client \in [Caller -> {"idle", "waiting", "holding"}]
      /\ BusyIsHeld /\ HolderIsHead
      /\ client' = [client EXCEPT ![c] = "idle"]
  BY DEF LockInv, QueueInv, Types, Free
<1>2. NoUser \notin Caller /\ (queue # <<>> => Head(queue) \in Caller)
  BY <1>1, CallerAssumption, HeadTailProperties
<1>3. CASE FreeEmpty
  <2>1. ~busy /\ ~busy' /\ queue' = queue
    BY <1>1, <1>3 DEF FreeEmpty, BusyIsHeld
  <2>2. QED
    BY <1>1, <2>1 DEF BusyIsHeld, HolderIsHead, CurrentUser
<1>4. CASE FreeHead(c)
  <2>1. /\ queue # <<>> /\ ~busy' /\ (c # Self => Head(queue) = c)
    BY <1>4 DEF FreeHead
  <2>2. c # Self /\ sets' = sets => HolderIsHead'
    BY <1>1, <2>1 DEF HolderIsHead
  <2>3. [Lock!Next]_CurrentUser
    BY <1>1, <1>2, <2>1 DEF Lock!Next, Lock!Release, CurrentUser
  <2>4. QED
    BY <2>1, <2>2, <2>3 DEF BusyIsHeld
<1>5. CASE FreeRefused(c)
  <2>1. queue # <<>> /\ Head(queue) # c /\ queue' = queue /\ busy' = busy
    BY <1>5 DEF FreeRefused
  <2>2. QED
    BY <1>1, <2>1 DEF BusyIsHeld, HolderIsHead, CurrentUser
<1>6. QED
  BY <1>3, <1>4, <1>5 DEF Free

LEMMA NextKeepsLock ==
  ASSUME MaxFails = 0
  PROVE  LockInv /\ [Next]_vars => LockInv' /\ [Lock!Next]_CurrentUser
<1> SUFFICES ASSUME LockInv, [Next]_vars
             PROVE  LockInv' /\ [Lock!Next]_CurrentUser
  OBVIOUS
<1>1. QueueInv'
  BY NextKeepsQueue DEF LockInv
<1>2. /\ Client \subseteq Caller /\ Self \in Caller /\ Self \notin Client
      /\ MayGiveUp \subseteq Client
  BY CallerAssumption DEF Caller
<1>3. Types /\ BusyIsHeld /\ HolderIsHead
  BY DEF LockInv, QueueInv
<1>4. CASE \E c \in Client : Ask(c)
  <2>1. PICK c \in Client : Occupy(c) /\ sets' = sets
    BY <1>4 DEF Ask
  <2>2. QED
    BY <1>1, <1>2, <2>1, OccupyKeepsLock DEF LockInv
<1>5. ~ \E c \in Client : AskHeapFails(c)
  BY <1>3 DEF AskHeapFails, OccupyHeapFails, Types
<1>6. CASE \E c \in Client : Finish(c) \/ Cancel(c)
  <2>1. PICK c \in Client : Free(c) /\ sets' = sets
    BY <1>6 DEF Finish, Cancel
  <2>2. QED
    BY <1>1, <1>2, <2>1, FreeKeepsLock DEF LockInv
<1>7. CASE \E c \in Client : GiveUp(c)
  <2>1. PICK c \in Client :
           /\ client[c] = "waiting" /\ client' = [client EXCEPT ![c] = "idle"]
           /\ UNCHANGED <<queue, busy, sets>>
    BY <1>7 DEF GiveUp
  <2>2. BusyIsHeld' /\ HolderIsHead'
    BY <1>2, <1>3, <2>1 DEF BusyIsHeld, HolderIsHead, Types
  <2>3. UNCHANGED CurrentUser
    BY <2>1 DEF CurrentUser
  <2>4. QED
    BY <1>1, <2>2, <2>3 DEF LockInv
<1>8. CASE SetBusy
  <2>1. sets \in Nat /\ sets' = sets + 1 /\ (Occupy(Self) \/ Free(Self))
    BY <1>3, <1>8 DEF SetBusy, Types, OccupyHeapFails
  <2>2. HolderIsHead'
    BY <2>1 DEF HolderIsHead
  <2>3. BusyIsHeld' /\ [Lock!Next]_CurrentUser
    BY <1>2, <2>1, OccupyKeepsLock, FreeKeepsLock
  <2>4. QED
    BY <1>1, <2>2, <2>3 DEF LockInv
<1>9. CASE Elapse
  <2>1. UNCHANGED <<queue, busy, client, sets>>
    BY <1>9 DEF Elapse
  <2>2. QED
    BY <1>1, <1>3, <2>1 DEF LockInv, BusyIsHeld, HolderIsHead, CurrentUser
<1>10. CASE Restart
  <2>1. /\ ~busy' /\ client' = [c \in Caller |-> "idle"]
    BY <1>10 DEF Restart
  <2>2. BusyIsHeld' /\ HolderIsHead'
    BY <2>1 DEF BusyIsHeld, HolderIsHead
  <2>3. [Lock!Next]_CurrentUser
    <3>1. busy => Head(queue) \in Caller
      BY <1>3, HeadTailProperties DEF BusyIsHeld, Types
    <3>2. NoUser \notin Caller /\ busy \in BOOLEAN
      BY <1>3, CallerAssumption DEF Types
    <3>3. QED
      BY <2>1, <3>1, <3>2 DEF Lock!Next, Lock!Release, CurrentUser
  <2>4. QED
    BY <1>1, <2>2, <2>3 DEF LockInv
<1>11. CASE UNCHANGED vars
  <2>1. UNCHANGED <<queue, busy, client, sets>>
    BY <1>11 DEF vars
  <2>2. QED
    BY <1>1, <1>3, <2>1 DEF LockInv, BusyIsHeld, HolderIsHead, CurrentUser
<1>12. QED
  BY <1>4, <1>5, <1>6, <1>7, <1>8, <1>9, <1>10, <1>11 DEF Next

LEMMA InitLock == Init => LockInv
BY InitQueue DEF Init, LockInv, BusyIsHeld, HolderIsHead

LEMMA LockInvariance ==
  ASSUME MaxFails = 0
  PROVE  Spec => []LockInv
<1>1. LockInv /\ [Next]_vars => LockInv'
  BY NextKeepsLock
<1>2. QED
  BY <1>1, InitLock, PTL DEF Spec

\* A mailbox in use is in use by the head of the queue: never by a block that
\* has gone, whoever gives up and whatever the operator does.
THEOREM BusyMailboxIsHeld ==
  ASSUME MaxFails = 0
  PROVE  Spec => []BusyIsHeld
<1>1. LockInv => BusyIsHeld
  BY DEF LockInv
<1>2. QED
  BY <1>1, LockInvariance, PTL

\* Only the head of the queue believes to use the mailbox, so nobody uses it
\* beside another, unless the operator takes it away by hand.
THEOREM UserIsHead ==
  ASSUME MaxFails = 0
  PROVE  Spec => []HolderIsHead
<1>1. LockInv => HolderIsHead
  BY DEF LockInv
<1>2. QED
  BY <1>1, LockInvariance, PTL

\* occupy, free, the time limit and restarts implement the exclusive grant.
THEOREM ImplementsExclusiveGrant ==
  ASSUME MaxFails = 0
  PROVE  Spec => GrantsExclusively
<1>1. Init => Lock!Init
  BY DEF Init, Lock!Init, CurrentUser
<1>2. LockInv /\ [Next]_vars => [Lock!Next]_CurrentUser
  BY NextKeepsLock
<1>3. QED
  BY <1>1, <1>2, LockInvariance, PTL DEF Spec, GrantsExclusively, Lock!Spec

=============================================================================
