---------------------------- MODULE IdleSections -----------------------------
(***************************************************************************)
(* The sections an allocation makes of the absent periods of an idle       *)
(* phase.  Timer books them; IdlePlan shows that they are what the loop of *)
(* planIdlePeriods produces.  A period has a start and a returned.         *)
(***************************************************************************)
EXTENDS Integers

(* The periods are complete and overlap nowhere.                           *)
PeriodsValid(periods) ==
    \A p \in periods :
        /\ p.start < p.returned
        /\ \A q \in periods \ {p} : p.returned <= q.start \/ q.returned <= p.start

(* A mistake that Timer's and IdlePlan's properties would notice.          *)
FaultySections(p, cuts) ==
    LET ends == {p.start, p.returned} \cup
                {t \in cuts : p.start < t /\ t < p.returned}
    IN  {s \in [start : ends, end : ends] : s.start < s.end}

(* The sections the cuts make of a period, cuts elsewhere left aside.      *)
Sections(p, cuts) ==
    LET ends == {p.start, p.returned} \cup
                {t \in cuts : p.start < t /\ t < p.returned}
    IN  {s \in [start : ends, end : ends] :
            /\ s.start < s.end
            /\ \A t \in ends : ~(s.start < t /\ t < s.end)}

SectionsOf(periods, cuts) == UNION {Sections(p, cuts) : p \in periods}
=============================================================================
