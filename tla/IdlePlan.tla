------------------------------ MODULE IdlePlan -------------------------------
(***************************************************************************)
(* planIdlePeriods: how the seconds a user allocates (a pause, this todo,  *)
(* that todo) are handed out to the absent periods of an idle phase, in    *)
(* order and only to them.  One step is one round of its loop.             *)
(*                                                                         *)
(* An allocation is the number of its seconds; its place in the list       *)
(* stands for its todo and note.  Times are seconds.                       *)
(***************************************************************************)
EXTENDS Integers, Sequences, SequencesExt, IdleSections

CONSTANTS
    MaxTime,         \* bound of the model: the last second
    MaxPeriods,      \* the code allows 128
    MaxAllocations   \* the code allows 50

ASSUME BoundsAssumption == MaxTime \in Nat /\ MaxPeriods \in Nat /\ MaxAllocations \in Nat

Seconds == 0..MaxTime

(* What the function is called with: periods out of the database or out of *)
(* an archive, allocations out of a request.                               *)
PeriodLists     == BoundedSeq([start : Seconds, returned : Seconds], MaxPeriods)
AllocationLists == BoundedSeq(1..MaxTime, MaxAllocations)

VARIABLES
    periods,      \* the first argument
    allocations,  \* the second argument
    phase,        \* how far the call is
    at,           \* which period the outer loop is at
    cursor,       \* how far that period is handed out
    index, left,  \* the allocation in use, and what is left of it
    result        \* the sections so far: start, end, and whose they are

planVars == <<periods, allocations, phase, at, cursor, index, left, result>>
-----------------------------------------------------------------------------
(* Sums(seconds)[i] is what the first i come to.                           *)
Sums(seconds) ==
    LET sum[i \in 0..Len(seconds)] == IF i = 0 THEN 0 ELSE sum[i - 1] + seconds[i]
    IN  sum

Total(seconds) == Sums(seconds)[Len(seconds)]

Lengths == [i \in DOMAIN periods |-> periods[i].returned - periods[i].start]

Absent == Total(Lengths)

FaultyAccepted ==
    /\ \A i \in DOMAIN periods : periods[i].start < periods[i].returned
    /\ periods # <<>>
    /\ allocations # <<>>
    /\ Total(allocations) = Absent

(* The periods are complete, in order and disjoint, and the allocations    *)
(* use every absent second exactly once.                                   *)
Accepted ==
    /\ \A i \in DOMAIN periods :
          /\ periods[i].start < periods[i].returned
          /\ i > 1 => periods[i - 1].returned <= periods[i].start
    /\ periods # <<>>
    /\ allocations # <<>>
    /\ Total(allocations) = Absent

Validate ==
    /\ phase = "called"
    /\ IF Accepted
       THEN /\ phase' = "planning"
            /\ cursor' = periods[1].start
            /\ left' = allocations[1]
       ELSE phase' = "refused" /\ UNCHANGED <<cursor, left>>
    /\ UNCHANGED <<periods, allocations, at, index, result>>

Least(a, b) == IF a < b THEN a ELSE b

FaultyHandOut ==
    /\ phase = "planning"
    /\ cursor < periods[at].returned
    /\ LET seconds == Least(left, periods[at].returned - cursor)
       IN  /\ result' = Append(result, [start |-> cursor, end |-> cursor + seconds,
                                        part |-> index])
           /\ cursor' = cursor + seconds
           /\ left' = left - seconds
    /\ index' = index
    /\ UNCHANGED <<periods, allocations, phase, at>>

(* A round of the inner loop: the rest of the allocation or of the period, *)
(* whichever is less, becomes a section.                                   *)
HandOut ==
    /\ phase = "planning"
    /\ cursor < periods[at].returned
    /\ LET seconds == Least(left, periods[at].returned - cursor)
       IN  /\ result' = Append(result, [start |-> cursor, end |-> cursor + seconds,
                                        part |-> index])
           /\ cursor' = cursor + seconds
           /\ IF left = seconds /\ index < Len(allocations)
              THEN index' = index + 1 /\ left' = allocations[index + 1]
              ELSE index' = index /\ left' = left - seconds
    /\ UNCHANGED <<periods, allocations, phase, at>>

(* The next round of the outer loop, or its end.                           *)
NextPeriod ==
    /\ phase = "planning"
    /\ ~(cursor < periods[at].returned)
    /\ IF at < Len(periods)
       THEN at' = at + 1 /\ cursor' = periods[at + 1].start /\ phase' = phase
       ELSE phase' = "planned" /\ UNCHANGED <<at, cursor>>
    /\ UNCHANGED <<periods, allocations, index, left, result>>

PlanInit ==
    /\ periods \in PeriodLists
    /\ allocations \in AllocationLists
    /\ phase = "called"
    /\ at = 1
    /\ cursor = 0
    /\ index = 1
    /\ left = 0
    /\ result = <<>>

PlanNext == Validate \/ HandOut \/ NextPeriod

PlanSpec == PlanInit /\ [][PlanNext]_planVars
-----------------------------------------------------------------------------
Covers(s, t) == s.start <= t /\ t < s.end

(* The reference: of the absent seconds in order, allocation j has those   *)
(* after the seconds of the allocations before it.                         *)
AbsentBefore(t) ==
    Total([i \in DOMAIN periods |->
             IF t <= periods[i].start THEN 0
             ELSE IF t <= periods[i].returned THEN t - periods[i].start
             ELSE periods[i].returned - periods[i].start])

OwnerOf(t) ==
    CHOOSE j \in DOMAIN allocations :
        /\ Sums(allocations)[j - 1] <= AbsentBefore(t)
        /\ AbsentBefore(t) < Sums(allocations)[j]

(* A-24.5: every absent second goes to exactly one section, that of the    *)
(* allocation whose turn it is, and no second in which the user was active *)
(* goes to any.                                                            *)
EverySecondToItsOwner ==
    phase = "planned" =>
        \A t \in Seconds :
            {result[k].part : k \in {k \in DOMAIN result : Covers(result[k], t)}}
              = IF \E i \in DOMAIN periods :
                      periods[i].start <= t /\ t < periods[i].returned
                THEN {OwnerOf(t)} ELSE {}

(* The sections are those the borders between them cut the periods into:   *)
(* what Timer lets ResolveIdle book is what the loop can produce.          *)
SectionsAreCuts ==
    phase = "planned" =>
        LET made == {[start |-> s.start, end |-> s.end] :
                       s \in {result[k] : k \in DOMAIN result}}
        IN  /\ made = SectionsOf({periods[i] : i \in DOMAIN periods},
                                 {s.end : s \in made})
            /\ Len(result) <= Len(periods) + Len(allocations) - 1

(* The loop ends: no accepted input lets a round hand out nothing, which   *)
(* would repeat for ever.                                                  *)
EveryRoundHandsOut == [][result' # result => cursor' > cursor]_planVars
=============================================================================
