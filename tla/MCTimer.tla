------------------------------- MODULE MCTimer -------------------------------
(* Instances of Timer for TLC.  e1 to e3 are entries of this computer, x1  *)
(* and x2 entries that come with an archive.                               *)
EXTENDS Timer, TLC

CONSTANTS e1, e2, e3, x1, x2, t1

IdSymmetry == Permutations({e1, e2, e3} \cap Ids)

NoArchives == {}
NoClockSteps == {}
BackToStart == {0}

Beats(at) == [id \in Ids |-> IF id = x1 THEN at ELSE None]
OpenX1    == [id |-> x1, todo |-> t1, start |-> 0]
Absence(start, returned, previous) ==
    [id |-> x1, todo |-> t1, start |-> start, returned |-> returned,
     previous |-> previous]
Earlier01 == {[id |-> x1, todo |-> t1, start |-> 0, returned |-> 1]}
Archive(entry, beats, phase) ==
    [running |-> entry, booked |-> {}, heartbeat |-> beats, idle |-> phase,
     done |-> {t1}]

(* A timer left open, last seen at 1, or at 4 by a clock that was ahead;   *)
(* an absence still open, witnessed until 3 or not at all, with and        *)
(* without an earlier period, and one that begins in the future.           *)
TravelledArchives ==
    { Archive(OpenX1, Beats(1), None),
      Archive(OpenX1, Beats(4), None),
      Archive(OpenX1, Beats(3), Absence(1, None, {})),
      Archive(OpenX1, Beats(1), Absence(2, None, Earlier01)),
      Archive(OpenX1, Beats(4), Absence(3, None, Earlier01)),
      Archive(OpenX1, Beats(None), Absence(1, 4, {})) }

(* The form older archives have: the phase names an entry that was closed  *)
(* when it began, and its successor runs from the return on.               *)
SuccessorArchives ==
    { Archive([id |-> x2, todo |-> t1, start |-> 2], Beats(None),
              Absence(1, 2, {})) }

(* Bound of the runs with archives and clock steps: a property of the      *)
(* bookings one step adds needs few that were there before.                *)
FewBookings == Cardinality(booked) <= 1
=============================================================================
