---------------------------- MODULE MailBoxQueue ----------------------------
(***************************************************************************)
(* The occupy and free operations of kbuslib's MailBox: blocks that want   *)
(* to talk through the mailbox of a KBus clamp wait in a queue, whose head *)
(* may use the mailbox once it asks again.  A head that does not come back *)
(* is dropped when queueTimeout has passed since the last free.            *)
(*                                                                         *)
(* occupy and free each run in one execution of their caller and are one   *)
(* action.  The callers are function blocks outside this repository; they  *)
(* ask until they are let in, use the mailbox and free it, or give up.     *)
(***************************************************************************)
EXTENDS Integers, Sequences, FiniteSets

CONSTANTS
  Client,        \* blocks that use the mailbox
  Self,          \* the mailbox itself: its variable "busy" is set by hand
  NoUser,        \* nobody
  MayGiveUp,     \* clients that may stop asking without freeing
  MaxFails,      \* bound on failing allocations of the queue
  MaxSets,       \* bound on operator writes to "busy"
  MaxRestarts    \* bound on restarts of the server

Caller == Client \cup {Self}

ASSUME CallerAssumption ==
  /\ IsFiniteSet(Client)
  /\ Self \notin Client
  /\ NoUser \notin Caller
  /\ MayGiveUp \subseteq Client
ASSUME EnvAssumption ==
  /\ MaxFails \in Nat
  /\ MaxSets \in Nat
  /\ MaxRestarts \in Nat

VARIABLES
  queue,      \* occupier: the head uses the mailbox or may use it next
  busy,       \* v_busy
  elapsed,    \* more than queueTimeout has passed since lastFree
  client,     \* what each caller believes: "idle", "waiting" or "holding"
  crashed,    \* the server died on a NULL queue
  fails, sets, restarts   \* counters of the bounds

vars == <<queue, busy, elapsed, client, crashed, fails, sets, restarts>>

Init ==
  /\ queue = <<>>
  /\ busy = FALSE
  /\ elapsed = TRUE      \* lastFree is 0 in a new object
  /\ client = [c \in Caller |-> "idle"]
  /\ crashed = FALSE
  /\ fails = 0
  /\ sets = 0
  /\ restarts = 0

-----------------------------------------------------------------------------
(* The queue.                                                              *)

Member(q, c) == \E i \in DOMAIN q : q[i] = c

\* Slips: a caller that asks again is queued again; the queue holds only two.
AddAlways(q, c) == Append(q, c)
AddIfRoom(q, c) == IF Member(q, c) \/ Len(q) >= 2 THEN q ELSE Append(q, c)

\* ov_queueAddElement keeps a caller that is already queued where it is.
AddElement(q, c) == IF Member(q, c) THEN q ELSE Append(q, c)

\* Slips: the time limit also drops a head that uses the mailbox, or no other.
TimedOutInUse == elapsed
TimedOutIfBusy == busy /\ elapsed

\* The head is dropped before the second test, if it has not come in time.
TimedOut == ~busy /\ elapsed

AfterTimeout == IF TimedOut THEN Tail(queue) ELSE queue

-----------------------------------------------------------------------------
(* occupy                                                                  *)

Granted(c) ==
  /\ busy' = TRUE
  /\ client' = [client EXCEPT ![c] = "holding"]

OccupyEmpty(c) ==
  /\ queue = <<>>
  /\ queue' = <<c>>
  /\ Granted(c)
  /\ UNCHANGED <<elapsed, crashed>>

OccupyHead(c) ==
  /\ queue # <<>> /\ Head(queue) = c
  /\ Granted(c)
  /\ UNCHANGED <<queue, elapsed, crashed>>

\* Someone else is at the head.  The code looks at the head once more after it
\* may have dropped it, also when nothing is left: then it reads through NULL.
OccupyOther(c) ==
  /\ queue # <<>> /\ Head(queue) # c
  /\ elapsed' = (elapsed /\ busy)
  /\ \/ /\ AfterTimeout = <<>>
        /\ crashed' = TRUE
        /\ queue' = <<>>
        /\ client' = [client EXCEPT ![c] = "waiting"]   \* still inside occupy
        /\ UNCHANGED busy
     \/ /\ AfterTimeout # <<>> /\ Head(AfterTimeout) = c
        /\ queue' = AfterTimeout
        /\ Granted(c)
        /\ UNCHANGED crashed
     \/ /\ AfterTimeout # <<>> /\ Head(AfterTimeout) # c
        /\ queue' = AddElement(AfterTimeout, c)
        /\ client' = [client EXCEPT ![c] = "waiting"]
        /\ UNCHANGED <<busy, crashed>>

Occupy(c) ==
  /\ ~crashed
  /\ OccupyEmpty(c) \/ OccupyHead(c) \/ OccupyOther(c)
  /\ UNCHANGED fails

\* Without memory a caller is refused: before anything changed (first in the
\* queue, or the head cannot be dropped), or when it is appended - that empties
\* the whole queue, and the result of it is not looked at.
OccupyHeapFails(c) ==
  /\ ~crashed
  /\ fails < MaxFails /\ fails' = fails + 1
  /\ queue # <<>> => Head(queue) # c
  /\ client' = [client EXCEPT ![c] = "waiting"]
  /\ \/ /\ queue = <<>> \/ (TimedOut /\ Len(queue) > 1)
        /\ UNCHANGED <<queue, elapsed>>
     \/ /\ queue # <<>> /\ AfterTimeout # <<>> /\ ~Member(AfterTimeout, c)
        /\ queue' = <<>>
        /\ elapsed' = (elapsed /\ busy)
  /\ UNCHANGED <<busy, crashed>>

-----------------------------------------------------------------------------
(* free.  A failing allocation leaves everything as it is.                 *)

FreeEmpty ==
  /\ queue = <<>>
  /\ busy' = FALSE
  /\ UNCHANGED <<queue, elapsed>>

\* Slips: the mailbox stays busy; anyone frees it.
FreeHeadBusy(c) ==
  /\ queue # <<>> /\ (Head(queue) = c \/ c = Self)
  /\ queue' = Tail(queue)
  /\ busy' = busy
  /\ elapsed' = FALSE
FreeHeadAnyone(c) ==
  /\ queue # <<>>
  /\ queue' = Tail(queue)
  /\ busy' = FALSE
  /\ elapsed' = FALSE

\* The head frees the mailbox, or its turn; the mailbox itself frees anyone's.
FreeHead(c) ==
  /\ queue # <<>> /\ (Head(queue) = c \/ c = Self)
  /\ queue' = Tail(queue)
  /\ busy' = FALSE
  /\ elapsed' = FALSE

FreeRefused(c) ==
  /\ queue # <<>> /\ Head(queue) # c /\ c # Self
  /\ UNCHANGED <<queue, busy, elapsed>>

Free(c) ==
  /\ ~crashed
  /\ FreeEmpty \/ FreeHead(c) \/ FreeRefused(c)
  /\ client' = [client EXCEPT ![c] = "idle"]
  /\ UNCHANGED <<crashed, fails>>

-----------------------------------------------------------------------------
(* The callers, the operator, time and the server.                         *)

Ask(c) == c \in Client /\ client[c] # "holding" /\ Occupy(c) /\ UNCHANGED <<sets, restarts>>

AskHeapFails(c) == c \in Client /\ OccupyHeapFails(c) /\ UNCHANGED <<sets, restarts>>

Finish(c) == c \in Client /\ client[c] = "holding" /\ Free(c) /\ UNCHANGED <<sets, restarts>>

\* A client that no longer wants the mailbox frees its place, or just leaves.
Cancel(c) ==
  /\ c \in MayGiveUp /\ client[c] = "waiting"
  /\ Free(c)
  /\ UNCHANGED <<sets, restarts>>

GiveUp(c) ==
  /\ c \in MayGiveUp /\ client[c] = "waiting" /\ ~crashed
  /\ client' = [client EXCEPT ![c] = "idle"]
  /\ UNCHANGED <<queue, busy, elapsed, crashed, fails, sets, restarts>>

\* busy := TRUE and busy := FALSE by hand.
SetBusy ==
  /\ sets < MaxSets /\ sets' = sets + 1
  /\ Occupy(Self) \/ OccupyHeapFails(Self) \/ Free(Self)
  /\ UNCHANGED restarts

\* queueTimeout passes since lastFree.  A patient client that waits asks more
\* often than that.
Elapse ==
  /\ ~crashed /\ ~elapsed
  /\ queue # <<>> =>
        ~(Head(queue) \in Client \ MayGiveUp /\ client[Head(queue)] = "waiting")
  /\ elapsed' = TRUE
  /\ UNCHANGED <<queue, busy, client, crashed, fails, sets, restarts>>

\* startup forgets the queue; the callers start over, too.
Restart ==
  /\ restarts < MaxRestarts /\ restarts' = restarts + 1
  /\ queue' = <<>>
  /\ busy' = FALSE
  /\ client' = [c \in Caller |-> "idle"]
  /\ crashed' = FALSE
  /\ UNCHANGED <<elapsed, fails, sets>>

Next ==
  \/ \E c \in Client : Ask(c) \/ AskHeapFails(c) \/ Finish(c) \/ Cancel(c) \/ GiveUp(c)
  \/ SetBusy \/ Elapse \/ Restart

Spec == Init /\ [][Next]_vars

-----------------------------------------------------------------------------
(* Properties.                                                             *)

\* Every variable has its type, and the queue never holds more than one place
\* for each caller: it does not grow however often they ask.
TypeOK ==
  /\ queue \in Seq(Caller) /\ Len(queue) <= Cardinality(Caller)
  /\ busy \in BOOLEAN
  /\ elapsed \in BOOLEAN
  /\ client \in [Caller -> {"idle", "waiting", "holding"}]
  /\ crashed \in BOOLEAN
  /\ fails \in Nat
  /\ sets \in Nat
  /\ restarts \in Nat

\* No caller is in the queue twice, so one free gives up all its turns.
QueueDistinct ==
  \A i, j \in DOMAIN queue : queue[i] = queue[j] => i = j

\* A mailbox in use is held by the head of the queue, and the head knows it:
\* it is never locked for a block that has gone.
BusyIsHeld == busy => queue # <<>> /\ client[Head(queue)] = "holding"

\* Whoever believes to hold the mailbox is at the head of the queue of a busy
\* mailbox, so there is one of them - unless the operator has freed it by hand.
HolderIsHead ==
  sets = 0 =>
    \A c \in Caller : client[c] = "holding" => busy /\ queue # <<>> /\ Head(queue) = c

\* occupy and free implement the exclusive grant.
CurrentUser == IF busy /\ queue # <<>> THEN Head(queue) ELSE NoUser
Lock == INSTANCE ExclusiveGrant WITH None <- NoUser, user <- CurrentUser
GrantsExclusively == Lock!Spec

\* A waiting client asks again, and a holder frees the mailbox some time.
Retry(c) == client[c] = "waiting" /\ Ask(c)

Fairness ==
  /\ \A c \in Client : WF_vars(Finish(c))
  /\ \A c \in Client \ MayGiveUp : WF_vars(Retry(c))
  /\ WF_vars(Elapse)

FairSpec == Spec /\ Fairness

\* A client that keeps asking gets the mailbox, also when others ask and leave
\* without a word and when now and then there is no memory for the queue: the
\* "timeout for queue elements to avoid deadlocks" (kbuslib.ovm) drops the blocks
\* that have left.  It does so at the risk of a crash, the only exit: occupy reads
\* the head of an empty queue when it has dropped the only element (OccupyOther).
PatientServed ==
  \A c \in Client \ MayGiveUp :
    client[c] = "waiting" ~> (client[c] = "holding" \/ crashed)

=============================================================================
