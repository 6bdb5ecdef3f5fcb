--------------------------- MODULE RequestWindow ---------------------------
(***************************************************************************)
(* Which addresses a request of modbusTcpLib takes and what that does to   *)
(* its range.  A request is a record with at least the fields start and    *)
(* items.                                                                  *)
(***************************************************************************)
EXTENDS Integers

NoStart == -1      \* v_requestStartAddr = -1

\* Slip: the last register of the window is left out.
InWindowNarrow(r, a, limit) ==
  \/ r.start = NoStart
  \/ a < r.start /\ a > r.start + r.items - limit
  \/ a > r.start /\ a < r.start + limit - 1

InWindow(r, a, limit) ==
  \/ r.start = NoStart
  \/ a < r.start /\ a > r.start + r.items - limit
  \/ a > r.start /\ a < r.start + limit

\* Slip: the difference taken the wrong way round.
AddItemReversed(r, a) ==
  IF r.start = NoStart THEN [r EXCEPT !.start = a, !.items = 1]
                       ELSE [r EXCEPT !.items = (r.start - a) + 1]

\* Going below start adds one item more than the distance, as the code does.
AddItem(r, a) ==
  IF r.start = NoStart
  THEN [r EXCEPT !.start = a, !.items = 1]
  ELSE IF a < r.start
  THEN [r EXCEPT !.start = a, !.items = r.items + (r.start - a) + 1]
  ELSE IF a >= r.start + r.items
  THEN [r EXCEPT !.items = (a - r.start) + 1]
  ELSE r

=============================================================================
