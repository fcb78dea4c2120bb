-------------------------------- MODULE Timer --------------------------------
(***************************************************************************)
(* The timer of the local service: one running time entry, its heartbeat,  *)
(* one idle phase waiting for an allocation, and what a restarted service  *)
(* or an imported archive finds open.                                      *)
(*                                                                         *)
(* Every handler of features/timer runs in one transaction of the queue    *)
(* described by TransactionQueue, and reads the clock in the same step in  *)
(* which it joins the queue; so a handler is one action, at the time       *)
(* `clock`.  A call that is refused changes nothing and is a stuttering    *)
(* step: the refusals are the guards.  Timestamps have whole seconds, and  *)
(* one unit of `clock` is one second, the shortest booking there is.       *)
(***************************************************************************)
EXTENDS Integers, FiniteSets, IdleSections

CONSTANTS
    Todos,        \* todos; none is removed while an entry or a phase names it
    Ids,          \* identities of time entries (UUIDs, never used twice)
    None,         \* SQL NULL: no row, no value
    MaxTime,      \* bound of the model: the last instant of the clock
    MaxDuration,  \* MAX_TIME_ENTRY_SECONDS, 24 hours
    Threshold,    \* idleThresholdMinutes, as a length of time
    Archives,     \* the archives a user may import; {} for a system without
    ClockSteps    \* instants the computer's clock may be set to; {} for never

ASSUME BoundsAssumption ==
    /\ MaxTime \in Nat
    /\ MaxDuration \in Nat \ {0}
    /\ Threshold \in Nat \ {0}
    /\ ClockSteps \subseteq 0..MaxTime

ASSUME NoneAssumption == None \notin Ids \cup Todos \cup Int

Time == 0..MaxTime

Timers    == [id : Ids, todo : Todos, start : Time]
Bookings  == [id : Ids, todo : Todos, start : Time, end : Time,
              source : {"timer", "manual"}]
Periods   == [id : Ids, todo : Todos, start : Time, returned : Time]
Phases    == [id : Ids, todo : Todos, start : Time,
              returned : Time \cup {None}, previous : SUBSET Periods]
Heartbeats == [Ids -> Time \cup {None}]

ASSUME ArchivesAssumption ==
    Archives \subseteq [running   : Timers \cup {None},
                        booked    : SUBSET Bookings,
                        heartbeat : Heartbeats,
                        idle      : Phases \cup {None},
                        done      : SUBSET Todos]

VARIABLES
    clock,      \* context.clock.now(), UTC seconds
    running,    \* the time_entry row whose ended_at is NULL, or None
    booked,     \* the ended time_entry rows
    heartbeat,  \* timer_heartbeat; rows of ended entries are never read
    idle,       \* the one row of timer_idle, or None
    done,       \* the todos whose completed_at is set
    recovery,   \* context.timerRecovery, in memory only
    witness     \* history: what recovery.entry and recovery.idle had witnessed

vars == <<clock, running, booked, heartbeat, idle, done, recovery, witness>>
-----------------------------------------------------------------------------
Earlier(a, b) == IF a <= b THEN a ELSE b

(* The Faulty... operators are mistakes this code could have made.  No     *)
(* definition uses them: put in the place of the operator they precede,    *)
(* each breaks a property, which shows that the property bites.            *)
FaultyTooLong(r, end) == end - r.start > MaxDuration + 1

TooLong(r, end) == end - r.start > MaxDuration

(* The closed row of r, or no row when it lasted less than a second.       *)
Closed(r, end) ==
    IF r.start < end
    THEN {[id |-> r.id, todo |-> r.todo, start |-> r.start, end |-> end,
           source |-> "timer"]}
    ELSE {}

Found(id) == recovery.entry = id

FaultyWitnessedEnd(r, wish) ==
    IF heartbeat[r.id] # None /\ heartbeat[r.id] > r.start
    THEN heartbeat[r.id]
    ELSE r.start

(* Until when a heartbeat bears out r: its start when there is none.       *)
WitnessedEnd(r, wish) ==
    IF heartbeat[r.id] # None /\ Earlier(heartbeat[r.id], wish) > r.start
    THEN Earlier(heartbeat[r.id], wish)
    ELSE r.start

BookingEndOf(r, wish) == IF Found(r.id) THEN WitnessedEnd(r, wish) ELSE wish

(* Ends a user may name for the open entry r: after its start, not after   *)
(* now, not too long.                                                      *)
NamedEnds(r) == {t \in Time : r.start < t /\ t <= clock /\ ~TooLong(r, t)}

(* ids.next(): an identity nothing in the system still mentions.           *)
Fresh ==
    Ids \ ( {b.id : b \in booked}
            \cup (IF running = None THEN {} ELSE {running.id})
            \cup (IF idle = None THEN {} ELSE {idle.id})
            \cup {recovery.entry, recovery.idle})

(* A-2.5: a timer that starts takes the completion mark off its todo.      *)
Reopened(todo) == done \ {todo}
-----------------------------------------------------------------------------
(* POST /timer/start, with the confirmation the running timer calls for.   *)
(* Without it the call only asks.  A found timer is closed at its witness  *)
(* before the start, a timer of this run by the start itself.              *)
StartTimer(todo, id) ==
    /\ idle = None
    /\ id \in Fresh
    /\ \/ /\ running = None
          /\ booked' = booked
          /\ heartbeat' = [heartbeat EXCEPT ![id] = clock]
       \/ /\ running # None
          /\ LET end == BookingEndOf(running, clock)
             IN  /\ ~TooLong(running, end)
                 /\ booked' = booked \cup Closed(running, end)
          /\ heartbeat' = [heartbeat EXCEPT ![running.id] = None, ![id] = clock]
    /\ running' = [id |-> id, todo |-> todo, start |-> clock]
    /\ done' = Reopened(todo)
    /\ UNCHANGED <<clock, idle, recovery, witness>>

(* Ends the open entry at `end`, booking it if it lasted a second.         *)
CloseRunning(end) ==
    /\ ~TooLong(running, end)
    /\ booked' = booked \cup Closed(running, end)
    /\ running' = None
    /\ heartbeat' = [heartbeat EXCEPT ![running.id] = None]

FaultyStopTimer ==
    /\ running # None
    /\ \E wish \in {clock} \cup NamedEnds(running) :
           CloseRunning(BookingEndOf(running, wish))
    /\ UNCHANGED <<clock, idle, done, recovery, witness>>

(* POST /timer/stop, now or at an end the user names.                      *)
StopTimer ==
    /\ idle = None
    /\ running # None
    /\ \E wish \in {clock} \cup NamedEnds(running) :
           CloseRunning(BookingEndOf(running, wish))
    /\ UNCHANGED <<clock, idle, done, recovery, witness>>

FaultyTouchHeartbeat ==
    /\ running # None
    /\ heartbeat' = [heartbeat EXCEPT ![running.id] = clock]
    /\ UNCHANGED <<clock, running, booked, idle, done, recovery, witness>>

(* POST /timer/heartbeat.                                                  *)
TouchHeartbeat ==
    /\ running # None
    /\ ~Found(running.id)
    /\ heartbeat' = [heartbeat EXCEPT ![running.id] = clock]
    /\ UNCHANGED <<clock, running, booked, idle, done, recovery, witness>>

(* POST /timer/orphaned/resolve: book the found entry or discard it.       *)
ResolveOrphanedTimer ==
    /\ idle # None => idle.returned # None
    /\ running # None
    /\ Found(running.id)
    /\ \/ \E wish \in {clock} \cup NamedEnds(running) :
              CloseRunning(WitnessedEnd(running, wish))
       \/ CloseRunning(running.start)
    /\ UNCHANGED <<clock, idle, done, recovery, witness>>
-----------------------------------------------------------------------------
FaultyWindowClosed(p, end) == {[p EXCEPT !.returned = end]}

(* What the phase p becomes when its user is back at `end`.  A phase found *)
(* at service start ends at its last heartbeat; without one after its      *)
(* start, its last earlier period takes its place, or nothing does.        *)
WindowClosed(p, end) ==
    LET beat == heartbeat[p.id]
    IN  IF recovery.idle # p.id
        THEN {[p EXCEPT !.returned = end]}
        ELSE IF beat # None /\ Earlier(beat, end) > p.start
        THEN {[p EXCEPT !.returned = Earlier(beat, end)]}
        ELSE IF p.previous = {}
        THEN {None}
        ELSE {[id |-> q.id, todo |-> q.todo, start |-> q.start,
               returned |-> q.returned, previous |-> p.previous \ {q}] :
               q \in {q \in p.previous :
                        \A o \in p.previous : o.start <= q.start}}

(* POST /timer/idle/begin: the detection reports an absence since `start`, *)
(* still lasting or ended at `returned`.                                   *)
BeginIdle(start, returned) ==
    /\ idle = None
    /\ running # None
    /\ ~Found(running.id)
    /\ running.start <= start
    /\ LET end == IF returned = None THEN clock ELSE returned
       IN  end <= clock /\ end - start >= Threshold
    /\ ~TooLong(running, start)
    /\ LET phase == [id |-> running.id, todo |-> running.todo, start |-> start,
                     returned |-> None, previous |-> {}]
       IN  idle' \in IF returned = None THEN {phase}
                     ELSE WindowClosed(phase, returned)
    /\ UNCHANGED <<clock, running, booked, heartbeat, done, recovery, witness>>

(* POST /timer/idle/return; a repeated call finds the window frozen.       *)
ReturnFromIdle(end) ==
    /\ idle # None
    /\ idle.returned = None
    /\ idle.start < end
    /\ end <= clock
    /\ idle' \in WindowClosed(idle, end)
    /\ UNCHANGED <<clock, running, booked, heartbeat, done, recovery, witness>>

AbsentPeriods(p) == p.previous \cup
    {[id |-> p.id, todo |-> p.todo, start |-> p.start, returned |-> p.returned]}

Interior(periods) ==
    {t \in Time : \E p \in periods : p.start < t /\ t < p.returned}

(* The bookings of the sections that were work.                            *)
Worked(sections, worked) ==
    {[id |-> idle.id, todo |-> worked[s], start |-> s.start, end |-> s.end,
      source |-> "manual"] : s \in {s \in sections : worked[s] # None}}

(* POST /timer/idle/resolve, in one transaction: the active part before    *)
(* the phase and the worked sections become bookings, the phase ends, and  *)
(* the timer goes on afresh if the user says so.  Repeated, it finds no    *)
(* phase.  planIdlePeriods hands out the absent seconds in order, so an    *)
(* allocation is a choice of cuts (IdlePlan), and of a todo for each       *)
(* section, or None for a break.  The maximum is of an allocation, which   *)
(* may lie in two periods; cut at their border it makes the same bookings  *)
(* and is a section each, so the maximum of a section refuses no bookings  *)
(* and lets none pass that a list of allocations could not make.           *)
ResolveIdle(id, resume) ==
    /\ idle # None
    /\ idle.returned # None
    /\ running # None
    /\ running.id = idle.id
    /\ resume => id \in Fresh
    /\ LET periods   == AbsentPeriods(idle)
           activeEnd == BookingEndOf(running, idle.start)
       IN  /\ PeriodsValid(periods)
           /\ running.start <= activeEnd
           /\ activeEnd < idle.returned
           /\ idle.returned <= clock
           /\ \E cuts \in SUBSET Interior(periods) :
              \E worked \in [SectionsOf(periods, cuts) -> Todos \cup {None}] :
                /\ \A s \in SectionsOf(periods, cuts) :
                     worked[s] # None => s.end - s.start <= MaxDuration
                /\ booked' = booked \cup Closed(running, activeEnd)
                                   \cup Worked(SectionsOf(periods, cuts), worked)
    /\ IF resume
       THEN /\ running' = [id |-> id, todo |-> idle.todo, start |-> clock]
            /\ heartbeat' = [heartbeat EXCEPT ![running.id] = None,
                                              ![id] = clock]
            /\ done' = Reopened(idle.todo)
       ELSE /\ running' = None
            /\ heartbeat' = [heartbeat EXCEPT ![running.id] = None]
            /\ done' = done
    /\ idle' = None
    /\ UNCHANGED <<clock, recovery, witness>>
-----------------------------------------------------------------------------
(* observeRecovery: the open entry r and the unreturned phase p are found, *)
(* not written by this run.  The history variable notes how far each had   *)
(* been witnessed by then.                                                 *)
Observe(r, p, beats) ==
    LET open == p # None /\ p.returned = None
        upTo(x) == IF beats[x.id] # None /\ beats[x.id] > x.start
                   THEN beats[x.id] ELSE x.start
    IN  /\ recovery' = [entry |-> IF r = None THEN None ELSE r.id,
                        idle  |-> IF open THEN p.id ELSE None]
        /\ witness' = [entry |-> IF r = None THEN 0 ELSE upTo(r),
                       idle  |-> IF open THEN upTo(p) ELSE 0]

(* The service stops or dies and starts again: SQLite keeps its rows.      *)
Restart ==
    /\ Observe(running, idle, heartbeat)
    /\ UNCHANGED <<clock, running, booked, heartbeat, idle, done>>

(* An open phase that begins in this computer's future is pulled back.     *)
ClampFuturePhase(p) ==
    IF p = None \/ p.returned # None \/ p.start <= clock THEN p
    ELSE [p EXCEPT
            !.start    = clock,
            !.previous = {q \in {[o EXCEPT !.start    = Earlier(o.start, clock),
                                           !.returned = Earlier(o.returned, clock)] :
                                   o \in p.previous} :
                            q.start < q.returned}]

(* What parseArchive checks of a phase and its earlier periods.            *)
PhaseWellFormed(p) ==
    /\ p.returned # None => p.start < p.returned
    /\ PeriodsValid(p.previous)
    /\ \A q \in p.previous : q.returned <= p.start

(* What replaceAll checks of an open entry beside a phase: the second form *)
(* is that of older archives, a successor timer from the return on.        *)
PhaseFitsTimer(p, r) ==
    IF r.id = p.id THEN r.start <= p.start
    ELSE p.returned # None /\ r.start >= p.returned

(* POST /data/import: the archive replaces every table.                    *)
ImportArchive(a) ==
    LET phase == ClampFuturePhase(a.idle)
    IN  /\ a.idle # None => PhaseWellFormed(a.idle)
        /\ phase # None /\ a.running # None => PhaseFitsTimer(phase, a.running)
        /\ running' = a.running
        /\ booked' = a.booked
        /\ heartbeat' = a.heartbeat
        /\ idle' = phase
        /\ done' = a.done
        /\ Observe(a.running, phase, a.heartbeat)
        /\ UNCHANGED clock

(* PUT /todos/{id}/done, either way.                                       *)
SetDone(todo) ==
    /\ done' \in {done \cup {todo}, done \ {todo}}
    /\ UNCHANGED <<clock, running, booked, heartbeat, idle, recovery, witness>>

Tick ==
    /\ clock < MaxTime
    /\ clock' = clock + 1
    /\ UNCHANGED <<running, booked, heartbeat, idle, done, recovery, witness>>

(* The user or a time server sets the clock of the computer.               *)
SetClock ==
    /\ clock' \in ClockSteps
    /\ UNCHANGED <<running, booked, heartbeat, idle, done, recovery, witness>>
-----------------------------------------------------------------------------
Init ==
    /\ clock = 0
    /\ running = None
    /\ booked = {}
    /\ heartbeat = [id \in Ids |-> None]
    /\ idle = None
    /\ done = {}
    /\ recovery = [entry |-> None, idle |-> None]
    /\ witness = [entry |-> 0, idle |-> 0]

Start   == \E todo \in Todos, id \in Ids : StartTimer(todo, id)
Begin   == \E start \in Time, returned \in Time \cup {None} :
               BeginIdle(start, returned)
Return  == \E end \in Time : ReturnFromIdle(end)
Resolve == \E id \in Ids, resume \in BOOLEAN : ResolveIdle(id, resume)
Import  == \E a \in Archives : ImportArchive(a)
Done    == \E todo \in Todos : SetDone(todo)

Next ==
    \/ Start
    \/ StopTimer
    \/ TouchHeartbeat
    \/ ResolveOrphanedTimer
    \/ Begin
    \/ Return
    \/ Resolve
    \/ Restart
    \/ Import
    \/ Done
    \/ Tick
    \/ SetClock

Spec == Init /\ [][Next]_vars

(* The user comes back, and answers the dialog: the dialog cannot be left  *)
(* (A-24.8), and the desktop shell reports the return of itself.           *)
FairSpec == Spec /\ WF_vars(Tick) /\ WF_vars(Return) /\ WF_vars(Resolve)
-----------------------------------------------------------------------------
TypeOK ==
    /\ clock \in Time
    /\ running \in Timers \cup {None}
    /\ booked \subseteq Bookings
    /\ heartbeat \in Heartbeats
    /\ idle \in Phases \cup {None}
    /\ done \subseteq Todos
    /\ recovery \in [entry : Ids \cup {None}, idle : Ids \cup {None}]
    /\ witness \in [entry : Time, idle : Time]

(* A-6.8, A-24.5: no second is booked twice, by whatever mixture of stops, *)
(* switches, allocations, restarts and repeated calls it was recorded.     *)
(* (bookings.ts lets a user enter any period by hand; that is not this.)   *)
NoDoubleBooking ==
    \A a, b \in booked : a # b => a.end <= b.start \/ b.end <= a.start

(* The open entry begins where the ended ones stop: what a later stop will *)
(* book cannot overlap them either.  With NoDoubleBooking an invariant     *)
(* that is inductive (TimerProofs).                                        *)
BookedBeforeRunning ==
    \A b \in booked : /\ b.start < b.end
                      /\ b.end <= clock
                      /\ running # None => b.end <= running.start

PhaseWithinTimer ==
    /\ running # None => running.start <= clock
    /\ idle # None => /\ idle.previous = {}
                      /\ idle.start <= clock
                      /\ idle.returned # None =>
                           idle.start < idle.returned /\ idle.returned <= clock
                      /\ running # None => /\ running.id = idle.id
                                           /\ running.start <= idle.start
                                           /\ ~TooLong(running, idle.start)

TimerInv == NoDoubleBooking /\ BookedBeforeRunning /\ PhaseWithinTimer

(* A-28.6: no way of ending a timer and no allocation makes a booking of   *)
(* more than 24 hours, though a timer and an absence may last longer.      *)
NoBookingOverMax == \A b \in booked : b.end - b.start <= MaxDuration

(* A-24.3: until the return of a phase is recorded, the timer it           *)
(* interrupted stays open and is the one the phase names; otherwise no     *)
(* call could ever end the phase.  Between the return and the allocation   *)
(* ResolveOrphanedTimer may take the timer away (PhaseHoldsItsTimer).      *)
OpenPhaseHoldsItsTimer ==
    idle # None /\ idle.returned = None => running # None /\ running.id = idle.id

(* A user who decides a waiting phase before he answers the question of    *)
(* the found entry.                                                        *)
PhaseFirst == [][ResolveOrphanedTimer => idle = None]_vars

(* A-24.6: for such a user the timer stays until the phase is decided.     *)
PhaseHoldsItsTimer == idle # None => running # None /\ running.id = idle.id

(* Bookings that appear in a step, archives apart.                         *)
NewBookings == booked' \ booked

(* E-036, R-34: an entry found open is never booked further than it had    *)
(* been witnessed when it was found, whichever route closes it and however *)
(* long it then waited.                                                    *)
FoundEntryBookedToWitness ==
    [][ \/ \A b \in NewBookings :
               b.source = "timer" /\ b.id = recovery.entry
                   => b.end <= witness.entry
        \/ Import ]_vars

(* B-5, R-35: the same for the absence that was still open when it was     *)
(* found: what may be allocated of it ends at the last heartbeat.          *)
FoundAbsenceBookedToWitness ==
    [][ \/ \A b \in NewBookings :
               b.source = "manual" /\ b.id = recovery.idle
                   => b.end <= witness.idle
        \/ Import ]_vars

(* T-371: no booking reaches beyond the clock, though heartbeats and ends  *)
(* of phases may have travelled here from a clock that was ahead.          *)
OnlyThePastIsBooked ==
    [][ (\A b \in NewBookings : b.end <= clock) \/ Import ]_vars

(* A-24.6: until the phase is decided the timer neither starts, nor stops, *)
(* nor switches.  ResolveOrphanedTimer breaks it for a phase whose return  *)
(* was already frozen when the service restarted.                          *)
TimerFrozenWhileUndecided ==
    [][ ~Import /\ idle # None /\ idle' = idle => running' = running ]_vars

(* A phase between its return and its allocation whose timer, found at     *)
(* the start of the service, ResolveOrphanedTimer has ended.               *)
Orphaned ==
    /\ idle # None /\ idle.returned # None
    /\ running = None /\ recovery.entry = idle.id

(* A-24.7: a phase that has its timer is decided in the end, if its user   *)
(* confirms the return and answers the dialog whenever the service lets    *)
(* him, or else it is orphaned, which no call can mend.                    *)
PhaseIsDecided == idle # None /\ running # None ~> idle = None \/ Orphaned
=============================================================================
