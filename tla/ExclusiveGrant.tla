--------------------------- MODULE ExclusiveGrant ---------------------------
(***************************************************************************)
(* What occupy and free of a MailBox promise together, without the queue:  *)
(* the mailbox has at most one user, it is only given out while it is not  *)
(* in use, and it never passes from one user to the next in one step.      *)
(***************************************************************************)
CONSTANTS
  Caller,
  None     \* not a caller

VARIABLE user

Init == user = None

Grant == user = None /\ user' \in Caller

Release == user # None /\ user' = None

Next == Grant \/ Release

Spec == Init /\ [][Next]_user

=============================================================================
