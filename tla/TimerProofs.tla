----------------------------- MODULE TimerProofs -----------------------------
(* Theorems about Timer, for every set of todos, entries and archives and  *)
(* every length of the maximum, the threshold and the clock.               *)
EXTENDS Timer, TLAPS

USE BoundsAssumption, NoneAssumption, ArchivesAssumption

-----------------------------------------------------------------------------
(* What an entry is closed with is at most one row, of its own type.       *)
LEMMA ClosedType ==
    ASSUME NEW r \in Timers, NEW end \in Time
    PROVE  Closed(r, end) \subseteq Bookings
  BY DEF Closed, Timers, Bookings

(* The end a heartbeat bears out is an instant, not before the start.      *)
LEMMA WitnessedEndType ==
    ASSUME TypeOK, NEW r \in Timers, NEW wish \in Time
    PROVE  /\ WitnessedEnd(r, wish) \in Time
           /\ r.start <= WitnessedEnd(r, wish)
           /\ WitnessedEnd(r, wish) <= r.start \/ WitnessedEnd(r, wish) <= wish
  BY DEF TypeOK, WitnessedEnd, Earlier, Timers, Heartbeats, Time

(* What an open entry is closed by is an instant.                          *)
LEMMA BookingEndOfType ==
    ASSUME TypeOK, NEW r \in Timers, NEW wish \in Time
    PROVE  BookingEndOf(r, wish) \in Time
  BY WitnessedEndType DEF BookingEndOf

(* An end the user may name is an instant.                                 *)
LEMMA NamedEndsType ==
    ASSUME TypeOK, NEW r \in Timers, NEW wish \in {clock} \cup NamedEnds(r)
    PROVE  wish \in Time /\ wish <= clock
  BY DEF TypeOK, NamedEnds, Time

(* A phase that ends is a phase with a return, or none.                    *)
LEMMA WindowClosedType ==
    ASSUME TypeOK, NEW p \in Phases, NEW end \in Time
    PROVE  WindowClosed(p, end) \subseteq Phases \cup {None}
  <1>1. heartbeat[p.id] \in Time \cup {None}
    BY DEF TypeOK, Phases, Heartbeats
  <1>2. heartbeat[p.id] # None => Earlier(heartbeat[p.id], end) \in Time
    BY <1>1 DEF Earlier
  <1>3. ASSUME NEW t \in Time PROVE [p EXCEPT !.returned = t] \in Phases
    BY DEF Phases
  <1>4. ASSUME NEW q \in p.previous
        PROVE  [id |-> q.id, todo |-> q.todo, start |-> q.start,
                returned |-> q.returned, previous |-> p.previous \ {q}] \in Phases
    BY DEF Phases, Periods
  <1> QED BY <1>2, <1>3, <1>4 DEF WindowClosed

(* The sections of a period are intervals of the clock.                    *)
LEMMA SectionsType ==
    ASSUME NEW p, p.start \in Time, p.returned \in Time,
           NEW cuts \in SUBSET Time, NEW s \in Sections(p, cuts)
    PROVE  s.start \in Time /\ s.end \in Time /\ s.start < s.end
  BY DEF Sections

(* The sections of a period lie within it and overlap nowhere.             *)
LEMMA SectionsDisjoint ==
    ASSUME NEW p, p.start \in Time, p.returned \in Time, p.start < p.returned,
           NEW cuts \in SUBSET Time,
           NEW s \in Sections(p, cuts), NEW t \in Sections(p, cuts)
    PROVE  /\ p.start <= s.start /\ s.end <= p.returned
           /\ s # t => s.end <= t.start \/ t.end <= s.start
  <1> DEFINE ends == {p.start, p.returned} \cup
                     {x \in cuts : p.start < x /\ x < p.returned}
  <1>1. \A u \in Sections(p, cuts) :
           /\ u \in [start : ends, end : ends]
           /\ u.start < u.end
           /\ \A x \in ends : ~(u.start < x /\ x < u.end)
    BY DEF Sections
  <1>2. \A x \in ends : x \in Int /\ p.start <= x /\ x <= p.returned
    <2> SUFFICES ASSUME NEW x \in ends
                 PROVE  x \in Int /\ p.start <= x /\ x <= p.returned
      OBVIOUS
    <2>1. p.start \in Int /\ p.returned \in Int
      BY DEF Time
    <2>2. CASE x = p.start
      BY <2>1, <2>2
    <2>3. CASE x = p.returned
      BY <2>1, <2>3
    <2>4. CASE x \in cuts /\ p.start < x /\ x < p.returned
      BY <2>1, <2>4 DEF Time
    <2> QED BY <2>2, <2>3, <2>4
  <1>3. s.start \in ends /\ s.end \in ends /\ t.start \in ends /\ t.end \in ends
    BY <1>1
  <1>4. s # t => s.start # t.start \/ s.end # t.end
    <2>1. s \in [start : ends, end : ends] /\ t \in [start : ends, end : ends]
      BY <1>1
    <2> QED BY <2>1
  <1> HIDE DEF ends
  <1>5. /\ p.start <= s.start /\ s.end <= p.returned
    BY <1>2, <1>3
  <1>6. s # t => s.end <= t.start \/ t.end <= s.start
    BY <1>1, <1>2, <1>3, <1>4
  <1> QED BY <1>5, <1>6

(* What the recovery notes of an open entry is a witness of its type.      *)
LEMMA ObserveType ==
    ASSUME NEW r \in Timers \cup {None}, NEW p \in Phases \cup {None},
           NEW beats \in Heartbeats, Observe(r, p, beats)
    PROVE  /\ recovery' \in [entry : Ids \cup {None}, idle : Ids \cup {None}]
           /\ witness' \in [entry : Time, idle : Time]
  <1>1. ASSUME NEW x, x.id \in Ids, x.start \in Time
        PROVE  (IF beats[x.id] # None /\ beats[x.id] > x.start
                THEN beats[x.id] ELSE x.start) \in Time
    BY <1>1 DEF Heartbeats
  <1>2. r # None => r.id \in Ids /\ r.start \in Time
    BY DEF Timers
  <1>3. p # None => p.id \in Ids /\ p.start \in Time
    BY DEF Phases
  <1>4. 0 \in Time
    BY DEF Time
  <1> QED BY <1>1, <1>2, <1>3, <1>4 DEF Observe

-----------------------------------------------------------------------------
(* Closing the open entry keeps the types of the rows.                     *)
LEMMA CloseRunningType ==
    ASSUME TypeOK, running # None, NEW end \in Time, CloseRunning(end)
    PROVE  /\ booked' \subseteq Bookings
           /\ running' = None
           /\ heartbeat' \in Heartbeats
  <1>1. running \in Timers
    BY DEF TypeOK
  <1>2. booked' \subseteq Bookings
    BY <1>1, ClosedType DEF CloseRunning, TypeOK
  <1> QED BY <1>1, <1>2 DEF CloseRunning, TypeOK, Heartbeats

(* Starting or switching a timer keeps the types.                          *)
LEMMA StartTimerType ==
    ASSUME TypeOK, NEW todo \in Todos, NEW id \in Ids, StartTimer(todo, id)
    PROVE  TypeOK'
  <1>1. clock \in Time
    BY DEF TypeOK
  <1>2. booked' \subseteq Bookings
    <2>1. CASE running = None
      BY <2>1 DEF StartTimer, TypeOK
    <2>2. CASE running # None
      <3>1. running \in Timers
        BY <2>2 DEF TypeOK
      <3>2. Closed(running, BookingEndOf(running, clock)) \subseteq Bookings
        BY <1>1, <3>1, ClosedType, BookingEndOfType
      <3> QED BY <2>2, <3>2 DEF StartTimer, TypeOK
    <2> QED BY <2>1, <2>2
  <1>3. heartbeat' \in Heartbeats
    BY <1>1 DEF StartTimer, TypeOK, Heartbeats
  <1>4. running' \in Timers
    BY <1>1 DEF StartTimer, Timers
  <1> QED BY <1>2, <1>3, <1>4 DEF StartTimer, TypeOK, Reopened

(* Stopping the timer keeps the types.                                     *)
LEMMA StopTimerType ==
    ASSUME TypeOK, StopTimer
    PROVE  TypeOK'
  <1>1. running # None /\ running \in Timers
    BY DEF StopTimer, TypeOK
  <1>2. PICK wish \in {clock} \cup NamedEnds(running) :
            CloseRunning(BookingEndOf(running, wish))
    BY DEF StopTimer
  <1>3. BookingEndOf(running, wish) \in Time
    BY <1>1, NamedEndsType, BookingEndOfType
  <1> QED BY <1>1, <1>2, <1>3, CloseRunningType DEF StopTimer, TypeOK

(* Answering the question of the found entry keeps the types.              *)
LEMMA ResolveOrphanedTimerType ==
    ASSUME TypeOK, ResolveOrphanedTimer
    PROVE  TypeOK'
  <1>1. running # None /\ running \in Timers
    BY DEF ResolveOrphanedTimer, TypeOK
  <1>2. PICK end \in Time : CloseRunning(end)
    <2>1. running.start \in Time
      BY <1>1 DEF Timers
    <2>2. \A wish \in {clock} \cup NamedEnds(running) :
              WitnessedEnd(running, wish) \in Time
      BY <1>1, NamedEndsType, WitnessedEndType
    <2> QED BY <2>1, <2>2 DEF ResolveOrphanedTimer
  <1> QED BY <1>1, <1>2, CloseRunningType DEF ResolveOrphanedTimer, TypeOK

(* Beginning an absence keeps the types.                                   *)
LEMMA BeginIdleType ==
    ASSUME TypeOK, NEW start \in Time, NEW returned \in Time \cup {None},
           BeginIdle(start, returned)
    PROVE  TypeOK'
  <1> DEFINE phase == [id |-> running.id, todo |-> running.todo, start |-> start,
                       returned |-> None, previous |-> {}]
  <1>1. phase \in Phases
    BY DEF BeginIdle, TypeOK, Timers, Phases
  <1>2. idle' \in Phases \cup {None}
    <2>1. CASE returned = None
      BY <1>1, <2>1 DEF BeginIdle
    <2>2. CASE returned # None
      <3>1. idle' \in WindowClosed(phase, returned)
        BY <2>2 DEF BeginIdle
      <3> QED BY <1>1, <2>2, <3>1, WindowClosedType
    <2> QED BY <2>1, <2>2
  <1> QED BY <1>2 DEF BeginIdle, TypeOK

(* Returning from an absence keeps the types.                              *)
LEMMA ReturnFromIdleType ==
    ASSUME TypeOK, NEW end \in Time, ReturnFromIdle(end)
    PROVE  TypeOK'
  <1>1. idle \in Phases
    BY DEF ReturnFromIdle, TypeOK
  <1>2. idle' \in Phases \cup {None}
    BY <1>1, WindowClosedType DEF ReturnFromIdle
  <1> QED BY <1>2 DEF ReturnFromIdle, TypeOK

(* What ResolveIdle books: the active part, and sections that were work.   *)
LEMMA ResolveIdleBooks ==
    ASSUME NEW id \in Ids, NEW resume \in BOOLEAN, ResolveIdle(id, resume)
    PROVE  \E cuts \in SUBSET Time :
           \E worked \in [SectionsOf(AbsentPeriods(idle), cuts)
                            -> Todos \cup {None}] :
             /\ \A s \in SectionsOf(AbsentPeriods(idle), cuts) :
                  worked[s] # None => s.end - s.start <= MaxDuration
             /\ booked' = booked
                  \cup Closed(running, BookingEndOf(running, idle.start))
                  \cup Worked(SectionsOf(AbsentPeriods(idle), cuts), worked)
  <1>1. Interior(AbsentPeriods(idle)) \subseteq Time
    BY DEF Interior
  <1>2. PICK cuts \in SUBSET Interior(AbsentPeriods(idle)) :
           \E worked \in [SectionsOf(AbsentPeriods(idle), cuts)
                            -> Todos \cup {None}] :
             /\ \A s \in SectionsOf(AbsentPeriods(idle), cuts) :
                  worked[s] # None => s.end - s.start <= MaxDuration
             /\ booked' = booked
                  \cup Closed(running, BookingEndOf(running, idle.start))
                  \cup Worked(SectionsOf(AbsentPeriods(idle), cuts), worked)
    BY DEF ResolveIdle
  <1>3. cuts \in SUBSET Time
    BY <1>1
  <1> QED BY <1>2, <1>3

(* Allocating an absence keeps the types.                                  *)
LEMMA ResolveIdleType ==
    ASSUME TypeOK, NEW id \in Ids, NEW resume \in BOOLEAN, ResolveIdle(id, resume)
    PROVE  TypeOK'
  <1>1. /\ idle \in Phases /\ idle.returned \in Time
        /\ running \in Timers /\ running # None /\ clock \in Time
    BY DEF ResolveIdle, TypeOK, Phases
  <1>2. booked' \subseteq Bookings
    <2>1. PICK cuts \in SUBSET Time :
          \E worked \in [SectionsOf(AbsentPeriods(idle), cuts)
                           -> Todos \cup {None}] :
             booked' = booked
                  \cup Closed(running, BookingEndOf(running, idle.start))
                  \cup Worked(SectionsOf(AbsentPeriods(idle), cuts), worked)
      BY ResolveIdleBooks
    <2> DEFINE sections == SectionsOf(AbsentPeriods(idle), cuts)
    <2>2. PICK worked \in [sections -> Todos \cup {None}] :
                  booked' = booked
                        \cup Closed(running, BookingEndOf(running, idle.start))
                        \cup Worked(sections, worked)
      BY <2>1
    <2>3. Closed(running, BookingEndOf(running, idle.start)) \subseteq Bookings
      BY <1>1, ClosedType, BookingEndOfType DEF Phases
    <2>4. \A p \in AbsentPeriods(idle) : p.start \in Time /\ p.returned \in Time
      BY <1>1 DEF AbsentPeriods, Phases, Periods
    <2>5. \A s \in sections : s.start \in Time /\ s.end \in Time
      BY <2>4, SectionsType DEF SectionsOf
    <2>6. Worked(sections, worked) \subseteq Bookings
      <3>1. \A s \in sections : worked[s] # None => worked[s] \in Todos
        OBVIOUS
      <3> QED BY <1>1, <2>5, <3>1 DEF Worked, Bookings, Phases
    <2> QED BY <2>2, <2>3, <2>6 DEF TypeOK
  <1>3. running' \in Timers \cup {None} /\ heartbeat' \in Heartbeats
    BY <1>1 DEF ResolveIdle, TypeOK, Timers, Phases, Heartbeats
  <1> QED BY <1>2, <1>3 DEF ResolveIdle, TypeOK, Reopened

(* A phase from a computer ahead in time is still a phase.                 *)
LEMMA ClampType ==
    ASSUME TypeOK, NEW p \in Phases \cup {None}
    PROVE  ClampFuturePhase(p) \in Phases \cup {None}
  <1>1. clock \in Time
    BY DEF TypeOK
  <1>2. CASE p = None \/ p.returned # None \/ p.start <= clock
    BY <1>2 DEF ClampFuturePhase
  <1>3. CASE ~(p = None \/ p.returned # None \/ p.start <= clock)
    <2>1. p \in Phases
      BY <1>3
    <2>2. ASSUME NEW o \in p.previous
          PROVE  [o EXCEPT !.start    = Earlier(o.start, clock),
                           !.returned = Earlier(o.returned, clock)] \in Periods
      BY <1>1, <2>1 DEF Phases, Periods, Earlier
    <2> DEFINE capped == {q \in {[o EXCEPT !.start    = Earlier(o.start, clock),
                                           !.returned = Earlier(o.returned, clock)] :
                                   o \in p.previous} : q.start < q.returned}
    <2>3. capped \subseteq Periods
      BY <2>2
    <2>4. ClampFuturePhase(p) = [p EXCEPT !.start = clock, !.previous = capped]
      BY <1>3 DEF ClampFuturePhase
    <2> QED BY <1>1, <2>1, <2>3, <2>4 DEF Phases
  <1> QED BY <1>2, <1>3

(* Replacing the data by an archive keeps the types.                       *)
LEMMA ImportArchiveType ==
    ASSUME TypeOK, NEW a \in Archives, ImportArchive(a)
    PROVE  TypeOK'
  <1>1. /\ a.running \in Timers \cup {None} /\ a.booked \subseteq Bookings
        /\ a.heartbeat \in Heartbeats /\ a.idle \in Phases \cup {None}
        /\ a.done \subseteq Todos
    BY ArchivesAssumption
  <1>2. ClampFuturePhase(a.idle) \in Phases \cup {None}
    BY <1>1, ClampType
  <1>3. Observe(a.running, ClampFuturePhase(a.idle), a.heartbeat)
    BY DEF ImportArchive
  <1>4. /\ recovery' \in [entry : Ids \cup {None}, idle : Ids \cup {None}]
        /\ witness' \in [entry : Time, idle : Time]
    BY <1>1, <1>2, <1>3, ObserveType
  <1> QED BY <1>1, <1>2, <1>4 DEF ImportArchive, TypeOK

(* Type correctness: the state of the timer always has the form the schema *)
(* gives it, whatever is called, restarted, imported or set back.          *)
THEOREM TypeCorrect == Spec => []TypeOK
  <1>1. Init => TypeOK
    BY DEF Init, TypeOK, Time, Heartbeats
  <1>2. TypeOK /\ [Next]_vars => TypeOK'
    <2> SUFFICES ASSUME TypeOK, [Next]_vars PROVE TypeOK'
      OBVIOUS
    <2>1. CASE Start
      BY <2>1, StartTimerType DEF Start
    <2>2. CASE StopTimer
      BY <2>2, StopTimerType
    <2>3. CASE TouchHeartbeat
      BY <2>3 DEF TouchHeartbeat, TypeOK, Heartbeats
    <2>4. CASE ResolveOrphanedTimer
      BY <2>4, ResolveOrphanedTimerType
    <2>5. CASE Begin
      BY <2>5, BeginIdleType DEF Begin
    <2>6. CASE Return
      BY <2>6, ReturnFromIdleType DEF Return
    <2>7. CASE Resolve
      BY <2>7, ResolveIdleType DEF Resolve
    <2>8. CASE Restart
      <3>1. Observe(running, idle, heartbeat)
        BY <2>8 DEF Restart
      <3>2. /\ recovery' \in [entry : Ids \cup {None}, idle : Ids \cup {None}]
            /\ witness' \in [entry : Time, idle : Time]
        BY <3>1, ObserveType DEF TypeOK
      <3> QED BY <2>8, <3>2 DEF Restart, TypeOK
    <2>9. CASE Import
      BY <2>9, ImportArchiveType DEF Import
    <2>10. CASE Done
      BY <2>10 DEF Done, SetDone, TypeOK
    <2>11. CASE Tick
      BY <2>11 DEF Tick, TypeOK, Time
    <2>12. CASE SetClock
      BY <2>12 DEF SetClock, TypeOK, Time
    <2>13. CASE UNCHANGED vars
      BY <2>13 DEF vars, TypeOK
    <2> QED BY <2>1, <2>2, <2>3, <2>4, <2>5, <2>6, <2>7, <2>8, <2>9, <2>10,
               <2>11, <2>12, <2>13 DEF Next
  <1> QED BY <1>1, <1>2, PTL DEF Spec

-----------------------------------------------------------------------------
(* On one computer: no archive is imported, the clock is never set back.   *)
OneComputer == Archives = {} /\ ClockSteps = {}

(* The row that closes the open entry begins with it and ends by the wish. *)
LEMMA ClosedFits ==
    ASSUME TypeOK, running # None, NEW wish \in Time, NEW end \in Time,
           end \in {BookingEndOf(running, wish), WitnessedEnd(running, wish),
                    running.start},
           NEW b \in Closed(running, end)
    PROVE  b.start = running.start /\ b.start < b.end /\ b.end <= wish
  <1>1. running \in Timers /\ running.start \in Time
    BY DEF TypeOK, Timers
  <1>2. end <= running.start \/ end <= wish
    BY <1>1, WitnessedEndType DEF BookingEndOf, Time
  <1>3. /\ b.start = running.start /\ b.end = end /\ running.start < end
    BY DEF Closed
  <1> QED BY <1>1, <1>2, <1>3 DEF Time

(* Bookings that begin no earlier than the open entry and do not overlap   *)
(* one another may be added.                                               *)
LEMMA BookingsAdded ==
    ASSUME TypeOK, TimerInv, running # None, NEW N, booked' = booked \cup N,
           \A b \in N : /\ b.start \in Time /\ b.end \in Time
                        /\ running.start <= b.start /\ b.start < b.end
                        /\ b.end <= clock,
           \A a, b \in N : a # b => a.end <= b.start \/ b.end <= a.start
    PROVE  /\ NoDoubleBooking'
           /\ \A b \in booked' : b.start < b.end /\ b.end <= clock
  <1>1. \A b \in booked : b.start \in Time /\ b.end \in Time
    BY DEF TypeOK, Bookings
  <1>2. \A b \in booked : b.start < b.end /\ b.end <= clock /\ b.end <= running.start
    BY DEF TimerInv, BookedBeforeRunning
  <1>3. running.start \in Time
    BY DEF TypeOK, Timers
  <1>4. \A a \in booked, b \in N : a.end <= b.start
    BY <1>1, <1>2, <1>3 DEF Time
  <1>5. NoDoubleBooking'
    BY <1>4 DEF TimerInv, NoDoubleBooking
  <1> QED BY <1>2, <1>5

(* Closing the open entry, by a wish that is not in the future.            *)
LEMMA CloseRunningInv ==
    ASSUME TypeOK, TimerInv, running # None, NEW wish \in Time, wish <= clock,
           NEW end \in Time,
           end \in {BookingEndOf(running, wish), WitnessedEnd(running, wish),
                    running.start},
           booked' = booked \cup Closed(running, end)
    PROVE  /\ NoDoubleBooking'
           /\ \A b \in booked' : b.start < b.end /\ b.end <= clock
  <1> DEFINE N == Closed(running, end)
  <1>1. N \subseteq Bookings
    BY ClosedType DEF TypeOK
  <1>2. \A b \in N : b.start = running.start /\ b.start < b.end /\ b.end <= wish
    BY ClosedFits
  <1>3. \A b \in N : /\ b.start \in Time /\ b.end \in Time
                     /\ running.start <= b.start /\ b.start < b.end
                     /\ b.end <= clock
    <2>1. clock \in Int /\ wish \in Int /\ \A b \in N : b.start \in Time /\ b.end \in Time
      BY <1>1 DEF TypeOK, Time, Bookings
    <2> QED BY <1>2, <2>1 DEF Time
  <1>4. \A a, b \in N : a = b
    BY DEF Closed
  <1> HIDE DEF N
  <1> QED BY <1>3, <1>4, BookingsAdded DEF N

(* Starting or switching a timer books after what is booked.               *)
LEMMA StartTimerInv ==
    ASSUME TypeOK, TimerInv, NEW todo \in Todos, NEW id \in Ids,
           StartTimer(todo, id)
    PROVE  TimerInv'
  <1>1. /\ idle' = None /\ clock' = clock /\ clock \in Time
        /\ running' = [id |-> id, todo |-> todo, start |-> clock]
    BY DEF StartTimer, TypeOK
  <1>2. NoDoubleBooking' /\ \A b \in booked' : b.start < b.end /\ b.end <= clock
    <2>1. CASE running = None
      BY <2>1 DEF StartTimer, TimerInv, NoDoubleBooking, BookedBeforeRunning
    <2>2. CASE running # None
      <3>1. booked' = booked \cup Closed(running, BookingEndOf(running, clock))
        BY <2>2 DEF StartTimer
      <3>2. running \in Timers
        BY <2>2 DEF TypeOK
      <3>3. BookingEndOf(running, clock) \in Time /\ clock <= clock
        BY <1>1, <3>2, BookingEndOfType DEF Time
      <3> QED BY <1>1, <2>2, <3>1, <3>3, CloseRunningInv
    <2> QED BY <2>1, <2>2
  <1>3. BookedBeforeRunning'
    BY <1>1, <1>2 DEF BookedBeforeRunning
  <1>4. PhaseWithinTimer'
    BY <1>1 DEF PhaseWithinTimer, Time
  <1> QED BY <1>2, <1>3, <1>4 DEF TimerInv

(* Stopping the timer books after what is booked.                          *)
LEMMA StopTimerInv ==
    ASSUME TypeOK, TimerInv, StopTimer
    PROVE  TimerInv'
  <1>1. /\ idle' = None /\ clock' = clock /\ clock \in Time
        /\ running # None /\ running \in Timers
    BY DEF StopTimer, TypeOK
  <1>2. PICK wish \in {clock} \cup NamedEnds(running) :
            CloseRunning(BookingEndOf(running, wish))
    BY DEF StopTimer
  <1>3. wish \in Time /\ wish <= clock /\ BookingEndOf(running, wish) \in Time
    BY <1>1, NamedEndsType, BookingEndOfType
  <1>4. NoDoubleBooking' /\ \A b \in booked' : b.start < b.end /\ b.end <= clock
    BY <1>1, <1>2, <1>3, CloseRunningInv DEF CloseRunning
  <1>5. running' = None
    BY <1>2 DEF CloseRunning
  <1> QED BY <1>1, <1>4, <1>5
          DEF TimerInv, BookedBeforeRunning, PhaseWithinTimer

(* So does the answer to the question of the found entry.                  *)
LEMMA ResolveOrphanedTimerInv ==
    ASSUME TypeOK, TimerInv, ResolveOrphanedTimer
    PROVE  TimerInv'
  <1>1. /\ idle' = idle /\ clock' = clock /\ clock \in Time
        /\ running # None /\ running \in Timers
    BY DEF ResolveOrphanedTimer, TypeOK
  <1>2. running' = None
    BY DEF ResolveOrphanedTimer, CloseRunning
  <1>3. NoDoubleBooking' /\ \A b \in booked' : b.start < b.end /\ b.end <= clock
    <2>1. CASE CloseRunning(running.start)
      <3>1. running.start \in Time /\ clock <= clock
        BY <1>1 DEF Timers, Time
      <3> QED BY <1>1, <2>1, <3>1, CloseRunningInv DEF CloseRunning
    <2>2. CASE \E wish \in {clock} \cup NamedEnds(running) :
                  CloseRunning(WitnessedEnd(running, wish))
      <3>1. PICK wish \in {clock} \cup NamedEnds(running) :
                  CloseRunning(WitnessedEnd(running, wish))
        BY <2>2
      <3>2. wish \in Time /\ wish <= clock /\ WitnessedEnd(running, wish) \in Time
        BY <1>1, NamedEndsType, WitnessedEndType
      <3> QED BY <1>1, <3>1, <3>2, CloseRunningInv DEF CloseRunning
    <2> QED BY <2>1, <2>2 DEF ResolveOrphanedTimer
  <1>4. BookedBeforeRunning'
    BY <1>1, <1>2, <1>3 DEF BookedBeforeRunning
  <1>5. PhaseWithinTimer'
    BY <1>1, <1>2 DEF TimerInv, PhaseWithinTimer
  <1> QED BY <1>3, <1>4, <1>5 DEF TimerInv

(* A phase that ends has its end between its start and the return.         *)
LEMMA WindowClosedFits ==
    ASSUME TypeOK, NEW p \in Phases, p.previous = {}, NEW end \in Time,
           p.start < end, end <= clock, NEW q \in WindowClosed(p, end), q # None
    PROVE  /\ q.id = p.id /\ q.start = p.start /\ q.previous = {}
           /\ q.returned \in Time
           /\ q.start < q.returned /\ q.returned <= clock
  <1>1. heartbeat[p.id] \in Time \cup {None} /\ clock \in Time /\ p.start \in Time
    BY DEF TypeOK, Phases, Heartbeats
  <1>2. PICK e \in Time : q = [p EXCEPT !.returned = e] /\ p.start < e /\ e <= clock
    BY <1>1 DEF WindowClosed, Earlier, Time
  <1> QED BY <1>2 DEF Phases

(* The phase of an absence that begins lies within its timer.              *)
LEMMA BeginIdleInv ==
    ASSUME TypeOK, TimerInv, NEW start \in Time,
           NEW returned \in Time \cup {None}, BeginIdle(start, returned)
    PROVE  TimerInv'
  <1> DEFINE phase == [id |-> running.id, todo |-> running.todo, start |-> start,
                       returned |-> None, previous |-> {}]
  <1>1. /\ booked' = booked /\ running' = running /\ clock' = clock
        /\ running # None /\ running.start <= start
        /\ ~TooLong(running, start)
    BY DEF BeginIdle
  <1>2. clock \in Time /\ running \in Timers /\ phase \in Phases
    BY <1>1 DEF TypeOK, Timers, Phases
  <1>3. start <= clock
    BY <1>2, BoundsAssumption DEF BeginIdle, Time
  <1>4. idle' # None => /\ idle'.id = running.id /\ idle'.start = start
                        /\ idle'.previous = {}
                        /\ idle'.returned # None =>
                             start < idle'.returned /\ idle'.returned <= clock
    <2>1. CASE returned = None
      BY <2>1 DEF BeginIdle
    <2>2. CASE returned # None
      <3>1. start < returned /\ returned <= clock
        BY <2>2, BoundsAssumption DEF BeginIdle, Time
      <3>2. idle' \in WindowClosed(phase, returned)
        BY <2>2 DEF BeginIdle
      <3>3. phase.previous = {} /\ phase.start = start /\ phase.id = running.id
        OBVIOUS
      <3> HIDE DEF phase
      <3> QED BY <1>2, <2>2, <3>1, <3>2, <3>3, WindowClosedFits
    <2> QED BY <2>1, <2>2
  <1>5. PhaseWithinTimer'
    BY <1>1, <1>3, <1>4 DEF TimerInv, PhaseWithinTimer, TooLong
  <1> QED BY <1>1, <1>5 DEF TimerInv, NoDoubleBooking, BookedBeforeRunning

(* The phase still lies within its timer when the user returns.            *)
LEMMA ReturnFromIdleInv ==
    ASSUME TypeOK, TimerInv, NEW end \in Time, ReturnFromIdle(end)
    PROVE  TimerInv'
  <1>1. /\ booked' = booked /\ running' = running /\ clock' = clock
        /\ idle \in Phases /\ idle # None /\ idle.start < end /\ end <= clock
        /\ idle' \in WindowClosed(idle, end)
    BY DEF ReturnFromIdle, TypeOK
  <1>2. idle.previous = {}
    BY <1>1 DEF TimerInv, PhaseWithinTimer
  <1>3. idle' # None => /\ idle'.id = idle.id /\ idle'.start = idle.start
                        /\ idle'.previous = {}
                        /\ idle'.start < idle'.returned
                        /\ idle'.returned <= clock
    BY <1>1, <1>2, WindowClosedFits
  <1>4. PhaseWithinTimer'
    BY <1>1, <1>3 DEF TimerInv, PhaseWithinTimer, TooLong
  <1> QED BY <1>1, <1>4 DEF TimerInv, NoDoubleBooking, BookedBeforeRunning

(* Allocating an absence books its sections apart from all others.         *)
LEMMA ResolveIdleInv ==
    ASSUME TypeOK, TimerInv, NEW id \in Ids, NEW resume \in BOOLEAN,
           ResolveIdle(id, resume)
    PROVE  TimerInv'
  <1>1. /\ idle \in Phases /\ idle # None /\ idle.returned \in Time
        /\ idle.start \in Time /\ idle.start < idle.returned
        /\ idle.returned <= clock /\ idle.previous = {}
        /\ running \in Timers /\ running # None /\ running.start \in Time
        /\ running.start <= idle.start
        /\ clock \in Time /\ clock' = clock /\ idle' = None
    BY DEF ResolveIdle, TypeOK, TimerInv, PhaseWithinTimer, Phases, Timers
  <1> DEFINE period == [id |-> idle.id, todo |-> idle.todo, start |-> idle.start,
                        returned |-> idle.returned]
  <1>2. AbsentPeriods(idle) = {period}
    BY <1>1 DEF AbsentPeriods
  <1>3. PICK cuts \in SUBSET Time :
        \E worked \in [SectionsOf(AbsentPeriods(idle), cuts)
                         -> Todos \cup {None}] :
           booked' = booked
              \cup Closed(running, BookingEndOf(running, idle.start))
              \cup Worked(SectionsOf(AbsentPeriods(idle), cuts), worked)
    BY ResolveIdleBooks
  <1> DEFINE sections == Sections(period, cuts)
             active   == Closed(running, BookingEndOf(running, idle.start))
  <1>4. SectionsOf(AbsentPeriods(idle), cuts) = sections
    BY <1>2 DEF SectionsOf
  <1>5. PICK worked \in [sections -> Todos \cup {None}] :
           booked' = booked \cup active \cup Worked(sections, worked)
    BY <1>3, <1>4
  <1> DEFINE N == active \cup Worked(sections, worked)
  <1>6. \A s, t \in sections :
          /\ s.start \in Time /\ s.end \in Time /\ s.start < s.end
          /\ idle.start <= s.start /\ s.end <= idle.returned
          /\ s # t => s.end <= t.start \/ t.end <= s.start
    <2>1. /\ period.start = idle.start /\ period.returned = idle.returned
      OBVIOUS
    <2> HIDE DEF period
    <2> QED BY <1>1, <2>1, SectionsType, SectionsDisjoint
  <1>7. \A b \in active : /\ b.start \in Time /\ b.end \in Time
                          /\ b.start = running.start /\ b.start < b.end
                          /\ b.end <= idle.start
    <2>1. BookingEndOf(running, idle.start) \in Time
      BY <1>1, BookingEndOfType
    <2>2. active \subseteq Bookings
      BY <1>1, <2>1, ClosedType
    <2> QED BY <1>1, <2>1, <2>2, ClosedFits DEF Bookings
  <1>8. \A b \in Worked(sections, worked) :
          \E s \in sections : b.start = s.start /\ b.end = s.end /\
             b = [id |-> idle.id, todo |-> worked[s], start |-> s.start,
                  end |-> s.end, source |-> "manual"]
    BY DEF Worked
  <1>9. NoDoubleBooking' /\ \A b \in booked' : b.start < b.end /\ b.end <= clock
    <2> HIDE DEF sections, active
    <2>1. \A b \in N : /\ b.start \in Time /\ b.end \in Time
                       /\ running.start <= b.start /\ b.start < b.end
                       /\ b.end <= clock
      <3>1. ASSUME NEW b \in active
            PROVE  /\ b.start \in Time /\ b.end \in Time
                   /\ running.start <= b.start /\ b.start < b.end
                   /\ b.end <= clock
        BY <1>1, <1>7 DEF Time
      <3>2. ASSUME NEW b \in Worked(sections, worked)
            PROVE  /\ b.start \in Time /\ b.end \in Time
                   /\ running.start <= b.start /\ b.start < b.end
                   /\ b.end <= clock
        BY <1>1, <1>6, <1>8 DEF Time
      <3> QED BY <3>1, <3>2
    <2>2. ASSUME NEW a \in N, NEW b \in N, a # b
          PROVE  a.end <= b.start \/ b.end <= a.start
      <3>1. \A c \in active, d \in active : c = d
        BY DEF active, Closed
      <3>2. \A c \in active, d \in Worked(sections, worked) : c.end <= d.start
        BY <1>1, <1>6, <1>7, <1>8 DEF Time
      <3>3. \A c, d \in Worked(sections, worked) :
               c # d => c.end <= d.start \/ d.end <= c.start
        BY <1>6, <1>8
      <3> QED BY <2>2, <3>1, <3>2, <3>3
    <2>3. booked' = booked \cup N
      BY <1>5
    <2> HIDE DEF N
    <2> QED BY <1>1, <2>1, <2>2, <2>3, BookingsAdded
  <1>10. running' = None \/ running'.start = clock
    BY DEF ResolveIdle
  <1> QED BY <1>1, <1>9, <1>10
          DEF TimerInv, BookedBeforeRunning, PhaseWithinTimer, Time

(* The inductive invariant: bookings are disjoint and lie before the open  *)
(* entry, and a phase lies within the entry it interrupted.                *)
THEOREM TimerInvariant == OneComputer => (Spec => []TimerInv)
  <1> SUFFICES ASSUME OneComputer PROVE Spec => []TimerInv
    OBVIOUS
  <1>1. Init => TimerInv
    BY DEF Init, TimerInv, NoDoubleBooking, BookedBeforeRunning, PhaseWithinTimer
  <1>2. TypeOK /\ TimerInv /\ [Next]_vars => TimerInv'
    <2> SUFFICES ASSUME TypeOK, TimerInv, [Next]_vars PROVE TimerInv'
      OBVIOUS
    <2>1. CASE Start
      BY <2>1, StartTimerInv DEF Start
    <2>2. CASE StopTimer
      BY <2>2, StopTimerInv
    <2>3. CASE ResolveOrphanedTimer
      BY <2>3, ResolveOrphanedTimerInv
    <2>4. CASE Begin
      BY <2>4, BeginIdleInv DEF Begin
    <2>5. CASE Return
      BY <2>5, ReturnFromIdleInv DEF Return
    <2>6. CASE Resolve
      BY <2>6, ResolveIdleInv DEF Resolve
    <2>7. CASE TouchHeartbeat \/ Restart \/ Done \/ UNCHANGED vars
      <3>1. UNCHANGED <<clock, running, booked, idle>>
        BY <2>7 DEF TouchHeartbeat, Restart, Done, SetDone, vars
      <3> QED BY <3>1 DEF TimerInv, NoDoubleBooking, BookedBeforeRunning,
                          PhaseWithinTimer, TooLong
    <2>8. CASE Tick
      <3>1. clock' = clock + 1 /\ UNCHANGED <<running, booked, idle>>
        BY <2>8 DEF Tick
      <3>2. /\ clock \in Time
            /\ \A b \in booked : b.end \in Time
            /\ running # None => running.start \in Time
            /\ idle # None => idle.start \in Time
            /\ idle # None /\ idle.returned # None => idle.returned \in Time
        BY DEF TypeOK, Bookings, Timers, Phases
      <3> QED BY <3>1, <3>2 DEF TimerInv, NoDoubleBooking, BookedBeforeRunning,
                          PhaseWithinTimer, TooLong, Time
    <2>9. ~Import /\ ~SetClock
      BY DEF OneComputer, Import, SetClock
    <2> QED BY <2>1, <2>2, <2>3, <2>4, <2>5, <2>6, <2>7, <2>8, <2>9 DEF Next
  <1> QED BY <1>1, <1>2, TypeCorrect, PTL DEF Spec

(* A-6.8, A-24.5: no second is ever booked twice by the timer.             *)
THEOREM NothingBookedTwice == OneComputer => (Spec => []NoDoubleBooking)
  <1>1. TimerInv => NoDoubleBooking
    BY DEF TimerInv
  <1> QED BY <1>1, TimerInvariant, PTL

-----------------------------------------------------------------------------
(* What a found entry has as its witness does not grow while it is open:   *)
(* this is what forbids the heartbeat of a found entry.                    *)
WitnessInv ==
    running # None /\ Found(running.id) =>
        /\ running.start <= witness.entry
        /\ heartbeat[running.id] # None =>
             heartbeat[running.id] <= running.start
             \/ heartbeat[running.id] <= witness.entry

(* A new entry is not one the service found open.                          *)
LEMMA FreshIsNotFound ==
    ASSUME NEW id \in Fresh
    PROVE  id \in Ids /\ id # recovery.entry /\ id # recovery.idle
  BY DEF Fresh

(* No way of closing a found entry reaches beyond the witness.             *)
LEMMA FoundClosedByWitness ==
    ASSUME TypeOK, WitnessInv, running # None, Found(running.id),
           NEW wish \in Time, NEW end \in Time,
           end \in {BookingEndOf(running, wish), WitnessedEnd(running, wish),
                    running.start}
    PROVE  end <= witness.entry
  <1>1. /\ running \in Timers /\ running.start \in Time
        /\ heartbeat[running.id] \in Time \cup {None}
        /\ witness.entry \in Time
    BY DEF TypeOK, Timers, Heartbeats
  <1>2. WitnessedEnd(running, wish) <= witness.entry
    BY <1>1 DEF WitnessInv, WitnessedEnd, Earlier, Time
  <1>3. running.start <= witness.entry
    BY DEF WitnessInv
  <1> QED BY <1>2, <1>3 DEF BookingEndOf

(* Each new booking of a timer closes the open entry in such a way.        *)
LEMMA NewTimerBookings ==
    ASSUME TypeOK, [Next]_vars, ~Import, NEW b \in NewBookings,
           b.source = "timer"
    PROVE  /\ running # None /\ b.id = running.id
           /\ \E wish \in Time, end \in Time :
                /\ end \in {BookingEndOf(running, wish),
                            WitnessedEnd(running, wish), running.start}
                /\ b \in Closed(running, end)
  <1>1. b \in booked' /\ b \notin booked
    BY DEF NewBookings
  <1>2. clock \in Time
    BY DEF TypeOK
  <1>3. PICK wish \in Time :
            /\ running # None
            /\ \E end \in {BookingEndOf(running, wish),
                         WitnessedEnd(running, wish), running.start} :
                  b \in Closed(running, end)
    <2>1. CASE Start
      <3>1. PICK todo \in Todos, id \in Ids : StartTimer(todo, id)
        BY <2>1 DEF Start
      <3>2. running # None /\ b \in Closed(running, BookingEndOf(running, clock))
        BY <1>1, <3>1 DEF StartTimer
      <3> QED BY <1>2, <3>2
    <2>2. CASE StopTimer
      <3>1. PICK wish \in {clock} \cup NamedEnds(running) :
              CloseRunning(BookingEndOf(running, wish))
        BY <2>2 DEF StopTimer
      <3>2. running # None /\ wish \in Time
        BY <1>2, <2>2 DEF StopTimer, NamedEnds
      <3>3. b \in Closed(running, BookingEndOf(running, wish))
        BY <1>1, <3>1 DEF CloseRunning
      <3> QED BY <3>2, <3>3
    <2>3. CASE ResolveOrphanedTimer
      <3>1. running # None
        BY <2>3 DEF ResolveOrphanedTimer
      <3>2. CASE CloseRunning(running.start)
        <4>1. b \in Closed(running, running.start)
          BY <1>1, <3>2 DEF CloseRunning
        <4> QED BY <1>2, <3>1, <4>1
      <3>3. CASE \E wish \in {clock} \cup NamedEnds(running) :
                    CloseRunning(WitnessedEnd(running, wish))
        <4>1. PICK wish \in {clock} \cup NamedEnds(running) :
                    CloseRunning(WitnessedEnd(running, wish))
          BY <3>3
        <4>2. wish \in Time
          BY <1>2 DEF NamedEnds
        <4>3. b \in Closed(running, WitnessedEnd(running, wish))
          BY <1>1, <4>1 DEF CloseRunning
        <4> QED BY <3>1, <4>2, <4>3
      <3> QED BY <2>3, <3>2, <3>3 DEF ResolveOrphanedTimer
    <2>4. CASE Resolve
      <3>1. PICK id \in Ids, resume \in BOOLEAN : ResolveIdle(id, resume)
        BY <2>4 DEF Resolve
      <3>2. running # None /\ idle.start \in Time
        BY <3>1 DEF ResolveIdle, TypeOK, Phases
      <3>3. PICK cuts \in SUBSET Time :
            \E worked \in [SectionsOf(AbsentPeriods(idle), cuts)
                             -> Todos \cup {None}] :
              booked' = booked
                 \cup Closed(running, BookingEndOf(running, idle.start))
                 \cup Worked(SectionsOf(AbsentPeriods(idle), cuts), worked)
        BY <3>1, ResolveIdleBooks
      <3>4. \A sections, worked :
               \A w \in Worked(sections, worked) : w.source = "manual"
        BY DEF Worked
      <3>5. b \in Closed(running, BookingEndOf(running, idle.start))
        BY <1>1, <3>3, <3>4
      <3> QED BY <3>2, <3>5
    <2>5. CASE TouchHeartbeat \/ Begin \/ Return \/ Restart \/ Done \/ Tick
               \/ SetClock \/ UNCHANGED vars
      <3>1. booked' = booked
        BY <2>5 DEF TouchHeartbeat, Begin, BeginIdle, Return, ReturnFromIdle,
                    Restart, Done, SetDone, Tick, SetClock, vars
      <3> QED BY <1>1, <3>1
    <2> QED BY <2>1, <2>2, <2>3, <2>4, <2>5 DEF Next
  <1>4. PICK end \in {BookingEndOf(running, wish),
                      WitnessedEnd(running, wish), running.start} :
            b \in Closed(running, end)
    BY <1>3
  <1>5. running \in Timers
    BY <1>3 DEF TypeOK
  <1>6. end \in Time
    BY <1>3, <1>4, <1>5, BookingEndOfType, WitnessedEndType DEF Timers
  <1>7. b.id = running.id
    BY <1>4 DEF Closed
  <1> QED BY <1>3, <1>4, <1>6, <1>7

(* Restarts and imports take the witness anew; nothing else lets it grow.  *)
LEMMA WitnessInvStep ==
    ASSUME TypeOK, WitnessInv, [Next]_vars
    PROVE  WitnessInv'
  <1>1. CASE Start
    <2>1. PICK todo \in Todos, id \in Ids : StartTimer(todo, id)
      BY <1>1 DEF Start
    <2>2. running'.id = id /\ id \in Fresh /\ recovery' = recovery
      BY <2>1 DEF StartTimer
    <2> QED BY <2>2, FreshIsNotFound DEF WitnessInv, Found
  <1>2. CASE StopTimer \/ ResolveOrphanedTimer
    <2>1. running' = None
      BY <1>2 DEF StopTimer, ResolveOrphanedTimer, CloseRunning
    <2> QED BY <2>1 DEF WitnessInv
  <1>3. CASE TouchHeartbeat
    <2>1. ~Found(running.id) /\ running' = running /\ recovery' = recovery
      BY <1>3 DEF TouchHeartbeat
    <2> QED BY <2>1 DEF WitnessInv, Found
  <1>4. CASE Resolve
    <2>1. PICK id \in Ids, resume \in BOOLEAN : ResolveIdle(id, resume)
      BY <1>4 DEF Resolve
    <2>2. recovery' = recovery
      BY <2>1 DEF ResolveIdle
    <2>3. CASE resume
      <3>1. running'.id = id /\ id \in Fresh
        BY <2>1, <2>3 DEF ResolveIdle
      <3> QED BY <2>2, <3>1, FreshIsNotFound DEF WitnessInv, Found
    <2>4. CASE ~resume
      <3>1. running' = None
        BY <2>1, <2>4 DEF ResolveIdle
      <3> QED BY <3>1 DEF WitnessInv
    <2> QED BY <2>3, <2>4
  <1>5. CASE Restart \/ Import
    <2>1. \E p, beats : /\ Observe(running', p, beats)
                        /\ heartbeat' = beats
      BY <1>5 DEF Restart, Import, ImportArchive
    <2>2. running' \in Timers \cup {None} /\ heartbeat' \in Heartbeats
      BY <1>5, ArchivesAssumption DEF Restart, Import, ImportArchive, TypeOK
    <2>3. running' # None =>
            witness'.entry = IF /\ heartbeat'[running'.id] # None
                                /\ heartbeat'[running'.id] > running'.start
                             THEN heartbeat'[running'.id] ELSE running'.start
      BY <2>1 DEF Observe
    <2>4. running' # None => /\ running'.start \in Time
                             /\ heartbeat'[running'.id] \in Time \cup {None}
      BY <2>2 DEF Timers, Heartbeats
    <2> QED BY <2>3, <2>4 DEF WitnessInv, Time
  <1>6. CASE Begin \/ Return \/ Done \/ Tick \/ SetClock \/ UNCHANGED vars
    <2>1. UNCHANGED <<running, heartbeat, recovery, witness>>
      BY <1>6 DEF Begin, BeginIdle, Return, ReturnFromIdle, Done, SetDone, Tick,
                  SetClock, vars
    <2> QED BY <2>1 DEF WitnessInv, Found
  <1> QED BY <1>1, <1>2, <1>3, <1>4, <1>5, <1>6 DEF Next

(* E-036, R-34: whatever archives are imported and however the clock is    *)
(* set, an entry found open is not booked beyond what had been witnessed.  *)
THEOREM FoundEntriesEndAtTheirWitness == Spec => FoundEntryBookedToWitness
  <1>1. Init => WitnessInv
    BY DEF Init, WitnessInv
  <1>2. TypeOK /\ WitnessInv /\ [Next]_vars => WitnessInv'
    BY WitnessInvStep
  <1>3. TypeOK /\ WitnessInv /\ [Next]_vars =>
          [~Import => \A b \in NewBookings :
              b.source = "timer" /\ b.id = recovery.entry
                  => b.end <= witness.entry]_vars
    <2> SUFFICES ASSUME TypeOK, WitnessInv, [Next]_vars, ~Import,
                        NEW b \in NewBookings,
                        b.source = "timer", b.id = recovery.entry
                 PROVE  b.end <= witness.entry
      OBVIOUS
    <2>1. PICK wish \in Time, end \in Time :
             /\ end \in {BookingEndOf(running, wish),
                         WitnessedEnd(running, wish), running.start}
             /\ b \in Closed(running, end)
      BY NewTimerBookings
    <2>2. running # None /\ Found(running.id)
      BY NewTimerBookings DEF Found
    <2>3. b.end = end
      BY <2>1 DEF Closed
    <2> QED BY <2>1, <2>2, <2>3, FoundClosedByWitness
  <1> QED BY <1>1, <1>2, <1>3, TypeCorrect, PTL
          DEF Spec, FoundEntryBookedToWitness

-----------------------------------------------------------------------------
(* Each new booking of an allocation is a section of one of its periods,   *)
(* and no longer than the maximum.                                         *)
LEMMA NewManualBookings ==
    ASSUME TypeOK, [Next]_vars, ~Import, NEW b \in NewBookings,
           b.source = "manual"
    PROVE  /\ idle # None /\ idle.returned # None /\ b.id = idle.id
           /\ idle.returned <= clock
           /\ PeriodsValid(AbsentPeriods(idle))
           /\ b.end - b.start <= MaxDuration
           /\ \E cuts \in SUBSET Time, p \in AbsentPeriods(idle) :
              \E s \in Sections(p, cuts) : b.start = s.start /\ b.end = s.end
  <1>1. b \in booked' /\ b \notin booked
    BY DEF NewBookings
  <1>2. \A r, end : b \notin Closed(r, end)
    <2>1. \A r, end : \A c \in Closed(r, end) : c.source = "timer"
      BY DEF Closed
    <2> QED BY <2>1
  <1>3. CASE Start
    BY <1>1, <1>2, <1>3 DEF Start, StartTimer
  <1>4. CASE StopTimer \/ ResolveOrphanedTimer
    BY <1>1, <1>2, <1>4 DEF StopTimer, ResolveOrphanedTimer, CloseRunning
  <1>5. CASE Resolve
    <2>1. PICK id \in Ids, resume \in BOOLEAN : ResolveIdle(id, resume)
      BY <1>5 DEF Resolve
    <2>2. PICK cuts \in SUBSET Time :
          \E worked \in [SectionsOf(AbsentPeriods(idle), cuts)
                           -> Todos \cup {None}] :
             /\ \A s \in SectionsOf(AbsentPeriods(idle), cuts) :
                  worked[s] # None => s.end - s.start <= MaxDuration
             /\ booked' = booked
                  \cup Closed(running, BookingEndOf(running, idle.start))
                  \cup Worked(SectionsOf(AbsentPeriods(idle), cuts), worked)
      BY <2>1, ResolveIdleBooks
    <2> DEFINE sections == SectionsOf(AbsentPeriods(idle), cuts)
    <2>3. PICK worked \in [sections -> Todos \cup {None}] :
             /\ \A s \in sections :
                  worked[s] # None => s.end - s.start <= MaxDuration
             /\ booked' = booked
                  \cup Closed(running, BookingEndOf(running, idle.start))
                  \cup Worked(sections, worked)
      BY <2>2
    <2>4. b \in Worked(sections, worked)
      BY <1>1, <1>2, <2>3
    <2>5. PICK s \in sections :
             /\ worked[s] # None
             /\ b = [id |-> idle.id, todo |-> worked[s], start |-> s.start,
                     end |-> s.end, source |-> "manual"]
      BY <2>4 DEF Worked
    <2>6. /\ b.id = idle.id /\ b.start = s.start /\ b.end = s.end
          /\ b.end - b.start <= MaxDuration
      BY <2>3, <2>5
    <2>7. \E p \in AbsentPeriods(idle) : s \in Sections(p, cuts)
      BY DEF SectionsOf
    <2> QED BY <2>1, <2>6, <2>7 DEF ResolveIdle
  <1>6. CASE TouchHeartbeat \/ Begin \/ Return \/ Restart \/ Done \/ Tick
             \/ SetClock \/ UNCHANGED vars
    BY <1>1, <1>6 DEF TouchHeartbeat, Begin, BeginIdle, Return, ReturnFromIdle,
                      Restart, Done, SetDone, Tick, SetClock, vars
  <1> QED BY <1>3, <1>4, <1>5, <1>6 DEF Next

(* A section of an absent period ends within it.                           *)
LEMMA SectionWithinPeriod ==
    ASSUME TypeOK, idle # None, idle.returned # None,
           PeriodsValid(AbsentPeriods(idle)),
           NEW p \in AbsentPeriods(idle), NEW cuts \in SUBSET Time,
           NEW s \in Sections(p, cuts)
    PROVE  /\ p.start \in Time /\ p.returned \in Time
           /\ s.start \in Time /\ s.end \in Time /\ s.end <= p.returned
  <1>1. p.start \in Time /\ p.returned \in Time
    BY DEF TypeOK, AbsentPeriods, Phases, Periods
  <1>2. p.start < p.returned
    BY DEF PeriodsValid
  <1> QED BY <1>1, <1>2, SectionsType, SectionsDisjoint

-----------------------------------------------------------------------------
(* The periods a phase ended earlier lie apart and before its start: what  *)
(* parseArchive checks stays true when the phase is pulled back, returns,  *)
(* or gives way to its last earlier period.                                *)
EarlierInv ==
    idle # None =>
        /\ PeriodsValid(idle.previous)
        /\ \A q \in idle.previous : q.returned <= idle.start

(* Ending a window keeps the earlier periods apart and before its start.   *)
LEMMA WindowClosedEarlier ==
    ASSUME TypeOK, NEW p \in Phases, NEW end \in Time,
           PeriodsValid(p.previous),
           \A q \in p.previous : q.returned <= p.start,
           NEW w \in WindowClosed(p, end), w # None
    PROVE  /\ PeriodsValid(w.previous)
           /\ \A q \in w.previous : q.returned <= w.start
  <1>1. \A q \in p.previous : q.start \in Time /\ q.returned \in Time
    BY DEF Phases, Periods
  <1>2. CASE \E e : w = [p EXCEPT !.returned = e]
    BY <1>2 DEF Phases
  <1>3. CASE ~\E e : w = [p EXCEPT !.returned = e]
    <2>1. PICK l \in p.previous :
             /\ \A o \in p.previous : o.start <= l.start
             /\ w = [id |-> l.id, todo |-> l.todo, start |-> l.start,
                     returned |-> l.returned, previous |-> p.previous \ {l}]
      BY <1>3 DEF WindowClosed
    <2>2. w.previous = p.previous \ {l} /\ w.start = l.start
      BY <2>1
    <2>3. ASSUME NEW q \in w.previous
          PROVE  q.returned <= l.start
      <3>1. q \in p.previous \ {l}
        BY <2>2, <2>3
      <3>2. q.returned <= l.start \/ l.returned <= q.start
        BY <3>1 DEF PeriodsValid
      <3>3. l.start < l.returned
        BY DEF PeriodsValid
      <3> QED BY <1>1, <2>1, <3>1, <3>2, <3>3 DEF Time
    <2>4. PeriodsValid(w.previous)
      BY <2>2 DEF PeriodsValid
    <2> QED BY <2>2, <2>3, <2>4
  <1> QED BY <1>2, <1>3

(* So does pulling back an open phase that begins in the future.           *)
LEMMA ClampEarlier ==
    ASSUME TypeOK, NEW p \in Phases, p # None, PhaseWellFormed(p)
    PROVE  /\ PeriodsValid(ClampFuturePhase(p).previous)
           /\ \A q \in ClampFuturePhase(p).previous :
                 q.returned <= ClampFuturePhase(p).start
  <1>1. CASE p.returned # None \/ p.start <= clock
    BY <1>1 DEF ClampFuturePhase, PhaseWellFormed
  <1>2. CASE ~(p.returned # None \/ p.start <= clock)
    <2> DEFINE cap(o)  == [o EXCEPT !.start    = Earlier(o.start, clock),
                                    !.returned = Earlier(o.returned, clock)]
               capped  == {q \in {cap(o) : o \in p.previous} :
                             q.start < q.returned}
    <2>2. ClampFuturePhase(p) = [p EXCEPT !.start = clock, !.previous = capped]
      BY <1>2 DEF ClampFuturePhase
    <2>3. /\ ClampFuturePhase(p).previous = capped
          /\ ClampFuturePhase(p).start = clock
      BY <2>2 DEF Phases
    <2>4. clock \in Int
      BY DEF TypeOK, Time
    <2>5. ASSUME NEW o \in p.previous
          PROVE  /\ o.start \in Int /\ o.returned \in Int
                 /\ cap(o).start = Earlier(o.start, clock)
                 /\ cap(o).returned = Earlier(o.returned, clock)
      BY DEF Phases, Periods, Time
    <2>6. ASSUME NEW q \in capped
          PROVE  q.returned <= clock
      <3>1. PICK o \in p.previous : q = cap(o)
        OBVIOUS
      <3>2. q.returned = Earlier(o.returned, clock)
        BY <2>5, <3>1
      <3>3. o.returned \in Int
        BY <2>5
      <3> HIDE DEF cap, capped
      <3> QED BY <2>4, <3>2, <3>3 DEF Earlier
    <2>7. ASSUME NEW q \in capped, NEW r \in capped \ {q}
          PROVE  q.returned <= r.start \/ r.returned <= q.start
      <3>1. PICK o \in p.previous : q = cap(o)
        OBVIOUS
      <3>2. PICK u \in p.previous : r = cap(u)
        OBVIOUS
      <3>3. o # u
        BY <3>1, <3>2
      <3>4. o.returned <= u.start \/ u.returned <= o.start
        BY <3>3 DEF PhaseWellFormed, PeriodsValid
      <3>5. /\ q.start = Earlier(o.start, clock)
            /\ q.returned = Earlier(o.returned, clock)
            /\ r.start = Earlier(u.start, clock)
            /\ r.returned = Earlier(u.returned, clock)
        BY <2>5, <3>1, <3>2
      <3>6. /\ o.start \in Int /\ o.returned \in Int
            /\ u.start \in Int /\ u.returned \in Int
        BY <2>5
      <3> HIDE DEF cap, capped
      <3> QED BY <2>4, <3>4, <3>5, <3>6 DEF Earlier
    <2>8. PeriodsValid(capped)
      BY <2>7 DEF PeriodsValid
    <2> QED BY <2>3, <2>6, <2>8
  <1> QED BY <1>1, <1>2

(* The phase an absence begins with has no earlier period.                 *)
LEMMA BegunPhase ==
    ASSUME TypeOK, NEW start \in Time, NEW returned \in Time \cup {None},
           BeginIdle(start, returned)
    PROVE  \E p \in Phases :
             /\ p.id = running.id /\ p.start = start
             /\ p.previous = {} /\ p.returned = None
             /\ IF returned = None THEN idle' = p
                                   ELSE idle' \in WindowClosed(p, returned)
  <1> DEFINE p == [id |-> running.id, todo |-> running.todo, start |-> start,
                   returned |-> None, previous |-> {}]
  <1>1. running \in Timers
    BY DEF BeginIdle, TypeOK
  <1>2. p \in Phases
    BY <1>1 DEF Timers, Phases
  <1>3. IF returned = None THEN idle' = p ELSE idle' \in WindowClosed(p, returned)
    BY DEF BeginIdle
  <1>4. /\ p.id = running.id /\ p.start = start
        /\ p.previous = {} /\ p.returned = None
    OBVIOUS
  <1> HIDE DEF p
  <1> QED BY <1>2, <1>3, <1>4

(* No step lets an earlier period reach into the phase.                    *)
LEMMA EarlierInvStep ==
    ASSUME TypeOK, EarlierInv, [Next]_vars
    PROVE  EarlierInv'
  <1>1. CASE Start \/ StopTimer \/ TouchHeartbeat \/ ResolveOrphanedTimer
             \/ Restart \/ Done \/ Tick \/ SetClock \/ UNCHANGED vars
    <2>1. idle' = idle
      BY <1>1 DEF Start, StartTimer, StopTimer, TouchHeartbeat,
                  ResolveOrphanedTimer, Restart, Done, SetDone, Tick, SetClock,
                  vars
    <2> QED BY <2>1 DEF EarlierInv
  <1>2. CASE Begin
    <2>1. PICK start \in Time, returned \in Time \cup {None} :
             BeginIdle(start, returned)
      BY <1>2 DEF Begin
    <2>2. PICK p \in Phases :
             /\ p.previous = {}
             /\ IF returned = None THEN idle' = p
                                   ELSE idle' \in WindowClosed(p, returned)
      BY <2>1, BegunPhase
    <2>3. PeriodsValid(p.previous) /\ \A q \in p.previous : q.returned <= p.start
      BY <2>2 DEF PeriodsValid
    <2> QED BY <2>2, <2>3, WindowClosedEarlier DEF EarlierInv
  <1>3. CASE Return
    <2>1. PICK end \in Time : ReturnFromIdle(end)
      BY <1>3 DEF Return
    <2>2. idle \in Phases /\ idle # None /\ idle' \in WindowClosed(idle, end)
      BY <2>1 DEF ReturnFromIdle, TypeOK
    <2> QED BY <2>2, WindowClosedEarlier DEF EarlierInv
  <1>4. CASE Resolve
    <2>1. idle' = None
      BY <1>4 DEF Resolve, ResolveIdle
    <2> QED BY <2>1 DEF EarlierInv
  <1>5. CASE Import
    <2>1. PICK a \in Archives : ImportArchive(a)
      BY <1>5 DEF Import
    <2>2. a.idle \in Phases \cup {None} /\ idle' = ClampFuturePhase(a.idle)
      BY <2>1, ArchivesAssumption DEF ImportArchive
    <2>3. CASE a.idle = None
      BY <2>2, <2>3 DEF ClampFuturePhase, EarlierInv
    <2>4. CASE a.idle # None
      <3>1. PhaseWellFormed(a.idle) /\ a.idle \in Phases
        BY <2>1, <2>2, <2>4 DEF ImportArchive
      <3> QED BY <2>2, <2>4, <3>1, ClampEarlier DEF EarlierInv
    <2> QED BY <2>3, <2>4
  <1> QED BY <1>1, <1>2, <1>3, <1>4, <1>5 DEF Next

(* Whatever archives bring and however the clock is set.                   *)
LEMMA EarlierPeriods == Spec => []EarlierInv
  <1>1. Init => EarlierInv
    BY DEF Init, EarlierInv
  <1>2. TypeOK /\ EarlierInv /\ [Next]_vars => EarlierInv'
    BY EarlierInvStep
  <1> QED BY <1>1, <1>2, TypeCorrect, PTL DEF Spec

-----------------------------------------------------------------------------
(* Each way of closing the open entry asks for an end that is past.        *)
LEMMA TimerBookingsArePast ==
    ASSUME TypeOK, [Next]_vars, ~Import, ~Resolve, NEW b \in NewBookings,
           b.source = "timer"
    PROVE  b.end <= clock /\ b.end - b.start <= MaxDuration
  <1>1. b \in booked' /\ b \notin booked
    BY DEF NewBookings
  <1>2. clock \in Time /\ (running # None => running \in Timers)
    BY DEF TypeOK
  <1>3. ASSUME NEW end \in Time, running # None, ~TooLong(running, end),
               b \in Closed(running, end), NEW wish \in Time, wish <= clock,
               end \in {BookingEndOf(running, wish),
                        WitnessedEnd(running, wish), running.start}
        PROVE  b.end <= clock /\ b.end - b.start <= MaxDuration
    <2>1. b.start = running.start /\ b.end = end /\ b.end <= wish
      BY <1>3, ClosedFits DEF Closed
    <2> QED BY <1>2, <1>3, <2>1 DEF TooLong, Time, Timers
  <1>4. CASE Start
    <2>1. PICK todo \in Todos, id \in Ids : StartTimer(todo, id)
      BY <1>4 DEF Start
    <2>2. /\ running # None /\ ~TooLong(running, BookingEndOf(running, clock))
          /\ b \in Closed(running, BookingEndOf(running, clock))
      BY <1>1, <2>1 DEF StartTimer
    <2>3. BookingEndOf(running, clock) \in Time /\ clock <= clock
      BY <1>2, <2>2, BookingEndOfType DEF Time
    <2> QED BY <1>2, <1>3, <2>2, <2>3
  <1>5. CASE StopTimer
    <2>1. PICK wish \in {clock} \cup NamedEnds(running) :
             CloseRunning(BookingEndOf(running, wish))
      BY <1>5 DEF StopTimer
    <2>2. running # None /\ wish \in Time /\ wish <= clock
      BY <1>2, <1>5, NamedEndsType DEF StopTimer
    <2>3. /\ ~TooLong(running, BookingEndOf(running, wish))
          /\ b \in Closed(running, BookingEndOf(running, wish))
      BY <1>1, <2>1 DEF CloseRunning
    <2>4. BookingEndOf(running, wish) \in Time
      BY <1>2, <2>2, BookingEndOfType
    <2> QED BY <1>3, <2>2, <2>3, <2>4
  <1>6. CASE ResolveOrphanedTimer
    <2>1. running # None /\ running \in Timers
      BY <1>2, <1>6 DEF ResolveOrphanedTimer
    <2>2. b \notin Closed(running, running.start)
      <3>1. ~(running.start < running.start)
        BY <2>1 DEF Timers, Time
      <3> QED BY <3>1 DEF Closed
    <2>3. ~CloseRunning(running.start)
      BY <1>1, <2>2 DEF CloseRunning
    <2>4. PICK wish \in {clock} \cup NamedEnds(running) :
             CloseRunning(WitnessedEnd(running, wish))
      BY <1>6, <2>3 DEF ResolveOrphanedTimer
    <2>5. wish \in Time /\ wish <= clock /\ WitnessedEnd(running, wish) \in Time
      BY <2>1, NamedEndsType, WitnessedEndType
    <2>6. /\ ~TooLong(running, WitnessedEnd(running, wish))
          /\ b \in Closed(running, WitnessedEnd(running, wish))
      BY <1>1, <2>4 DEF CloseRunning
    <2> QED BY <1>3, <2>1, <2>5, <2>6
  <1>7. CASE TouchHeartbeat \/ Begin \/ Return \/ Restart \/ Done \/ Tick
             \/ SetClock \/ UNCHANGED vars
    BY <1>1, <1>7 DEF TouchHeartbeat, Begin, BeginIdle, Return, ReturnFromIdle,
                      Restart, Done, SetDone, Tick, SetClock, vars
  <1> QED BY <1>4, <1>5, <1>6, <1>7 DEF Next

(* The active part an allocation books ends before the return.             *)
LEMMA ActivePart ==
    ASSUME TypeOK, Resolve, NEW b \in NewBookings, b.source = "timer"
    PROVE  /\ idle # None /\ idle.returned # None
           /\ running # None /\ running.id = idle.id /\ idle.returned <= clock
           /\ b \in Closed(running, BookingEndOf(running, idle.start))
           /\ BookingEndOf(running, idle.start) < idle.returned
  <1>1. PICK id \in Ids, resume \in BOOLEAN : ResolveIdle(id, resume)
    BY DEF Resolve
  <1>2. PICK cuts \in SUBSET Time :
        \E worked \in [SectionsOf(AbsentPeriods(idle), cuts)
                         -> Todos \cup {None}] :
            booked' = booked
                \cup Closed(running, BookingEndOf(running, idle.start))
                \cup Worked(SectionsOf(AbsentPeriods(idle), cuts), worked)
    BY <1>1, ResolveIdleBooks
  <1>3. \A sections, worked : \A w \in Worked(sections, worked) :
            w.source = "manual"
    BY DEF Worked
  <1>4. b \in Closed(running, BookingEndOf(running, idle.start))
    BY <1>2, <1>3 DEF NewBookings
  <1> QED BY <1>1, <1>4 DEF ResolveIdle

(* The phase itself is the last of its periods.                            *)
LEMMA PeriodsEndWithPhase ==
    ASSUME TypeOK, EarlierInv, idle # None, idle.returned # None,
           PeriodsValid(AbsentPeriods(idle)), NEW p \in AbsentPeriods(idle)
    PROVE  p.returned <= idle.returned
  <1>1. idle \in Phases /\ idle.start \in Time /\ idle.returned \in Time
    BY DEF TypeOK, Phases
  <1> DEFINE last == [id |-> idle.id, todo |-> idle.todo, start |-> idle.start,
                      returned |-> idle.returned]
  <1>2. last \in AbsentPeriods(idle)
    BY DEF AbsentPeriods
  <1>3. idle.start < idle.returned
    <2>1. last.start < last.returned
      BY <1>2 DEF PeriodsValid
    <2> QED BY <2>1
  <1>4. CASE p = last
    BY <1>1, <1>4 DEF Time
  <1>5. CASE p # last
    <2>1. p \in idle.previous
      BY <1>5 DEF AbsentPeriods
    <2>2. p.returned <= idle.start /\ p.returned \in Time
      BY <1>1, <2>1 DEF EarlierInv, Phases, Periods
    <2> QED BY <1>1, <1>3, <2>2 DEF Time
  <1> QED BY <1>4, <1>5

(* Every booking was made by a timer or by hand.                           *)
LEMMA NewBookingsType ==
    ASSUME TypeOK, TypeOK', NEW b \in NewBookings
    PROVE  /\ b.source \in {"timer", "manual"}
           /\ b.start \in Time /\ b.end \in Time
  BY DEF TypeOK, NewBookings, Bookings

(* T-371: whatever archives bring and however the clock is set, no step    *)
(* books a second that is still to come.                                   *)
THEOREM NothingAheadIsBooked == Spec => OnlyThePastIsBooked
  <1>1. TypeOK /\ TypeOK' /\ EarlierInv /\ [Next]_vars =>
          [~Import => \A b \in NewBookings : b.end <= clock]_vars
    <2> SUFFICES ASSUME TypeOK, TypeOK', EarlierInv, [Next]_vars, ~Import,
                        NEW b \in NewBookings
                 PROVE  b.end <= clock
      OBVIOUS
    <2>1. b.source \in {"timer", "manual"} /\ b.end \in Time /\ clock \in Time
      BY NewBookingsType DEF TypeOK
    <2>2. CASE b.source = "timer" /\ ~Resolve
      BY <2>2, TimerBookingsArePast
    <2>3. CASE b.source = "timer" /\ Resolve
      <3>1. /\ running \in Timers /\ idle \in Phases
            /\ idle.returned \in Time /\ idle.start \in Time
        BY <2>3, ActivePart DEF TypeOK, Phases
      <3>2. b.end = BookingEndOf(running, idle.start)
        BY <2>3, ActivePart DEF Closed
      <3>3. b.end < idle.returned /\ idle.returned <= clock
        BY <2>3, <3>2, ActivePart
      <3> QED BY <2>1, <3>1, <3>3 DEF Time
    <2>4. CASE b.source = "manual"
      <3>1. PICK cuts \in SUBSET Time, p \in AbsentPeriods(idle) :
               \E s \in Sections(p, cuts) : b.end = s.end
        BY <2>4, NewManualBookings
      <3>2. /\ idle # None /\ idle.returned # None /\ idle.returned <= clock
            /\ PeriodsValid(AbsentPeriods(idle))
        BY <2>4, NewManualBookings
      <3>3. b.end <= p.returned /\ p.returned \in Time
        BY <3>1, <3>2, SectionWithinPeriod
      <3>4. p.returned <= idle.returned
        BY <3>2, PeriodsEndWithPhase
      <3>5. idle.returned \in Time
        BY <3>2 DEF TypeOK, Phases
      <3> QED BY <2>1, <3>2, <3>3, <3>4, <3>5 DEF Time
    <2> QED BY <2>1, <2>2, <2>3, <2>4
  <1> QED BY <1>1, TypeCorrect, EarlierPeriods, PTL
          DEF Spec, OnlyThePastIsBooked

-----------------------------------------------------------------------------
(* What a found absence has as its witness does not grow either: the timer *)
(* a found phase may name is itself found, so no heartbeat reaches it, and *)
(* no new entry takes its identity.                                        *)
AbsenceInv ==
    /\ running # None /\ running.id = recovery.idle => Found(running.id)
    /\ idle # None /\ idle.id = recovery.idle =>
        /\ idle.start <= witness.idle
        /\ idle.returned # None => idle.returned <= witness.idle
        /\ idle.returned = None /\ heartbeat[idle.id] # None =>
             \/ heartbeat[idle.id] <= idle.start
             \/ heartbeat[idle.id] <= witness.idle

(* A step that leaves the phase alone and gives no heartbeat to the entry  *)
(* it names keeps what bears the absence out.                              *)
LEMMA AbsenceUntouched ==
    ASSUME TypeOK, AbsenceInv, idle' \in {idle, None},
           UNCHANGED <<recovery, witness>>,
           running' # None /\ running'.id = recovery.idle =>
               running # None /\ running'.id = running.id,
           heartbeat'[recovery.idle] \in {heartbeat[recovery.idle], None}
    PROVE  AbsenceInv'
  BY DEF AbsenceInv, Found

(* Ending the window of a found phase ends it by its witness.              *)
LEMMA FoundWindowClosed ==
    ASSUME TypeOK, AbsenceInv, EarlierInv, idle # None, idle.returned = None,
           NEW end \in Time, NEW w \in WindowClosed(idle, end), w # None,
           w.id = recovery.idle
    PROVE  /\ w.start <= witness.idle
           /\ w.returned # None /\ w.returned <= witness.idle
  <1>1. /\ idle \in Phases /\ idle.start \in Time /\ witness.idle \in Time
        /\ heartbeat[idle.id] \in Time \cup {None}
    BY DEF TypeOK, Phases, Heartbeats
  <1>2. recovery.idle = idle.id
    <2> SUFFICES ASSUME recovery.idle # idle.id PROVE FALSE
      OBVIOUS
    <2>1. w = [idle EXCEPT !.returned = end]
      BY DEF WindowClosed
    <2>2. w.id = idle.id
      BY <1>1, <2>1 DEF Phases
    <2> QED BY <2>2
  <1>3. idle.start <= witness.idle
    BY <1>2 DEF AbsenceInv
  <1>4. CASE heartbeat[idle.id] # None /\ Earlier(heartbeat[idle.id], end) > idle.start
    <2>1. w = [idle EXCEPT !.returned = Earlier(heartbeat[idle.id], end)]
      BY <1>2, <1>4 DEF WindowClosed
    <2>2. /\ w.start = idle.start
          /\ w.returned = Earlier(heartbeat[idle.id], end)
      BY <1>1, <2>1 DEF Phases
    <2>3. \/ heartbeat[idle.id] <= idle.start
          \/ heartbeat[idle.id] <= witness.idle
      BY <1>2, <1>4 DEF AbsenceInv
    <2>4. w.returned \in Time /\ w.returned <= witness.idle
      BY <1>1, <1>4, <2>2, <2>3 DEF Earlier, Time
    <2> QED BY <1>3, <2>2, <2>4 DEF Time
  <1>5. CASE ~(heartbeat[idle.id] # None
               /\ Earlier(heartbeat[idle.id], end) > idle.start)
    <2>1. PICK q \in idle.previous : w.start = q.start /\ w.returned = q.returned
      BY <1>2, <1>5 DEF WindowClosed
    <2>2. q.start \in Time /\ q.returned \in Time
      BY <1>1 DEF Phases, Periods
    <2>3. q.start < q.returned /\ q.returned <= idle.start
      BY DEF EarlierInv, PeriodsValid
    <2> QED BY <1>1, <1>3, <2>1, <2>2, <2>3 DEF Time
  <1> QED BY <1>4, <1>5

(* Restarts and imports take the witness anew; nothing else lets it grow.  *)
LEMMA AbsenceInvStep ==
    ASSUME TypeOK, TypeOK', AbsenceInv, EarlierInv, [Next]_vars
    PROVE  AbsenceInv'
  <1>0. heartbeat \in [Ids -> Time \cup {None}]
    BY DEF TypeOK, Heartbeats
  <1>1. CASE Start
    <2>1. PICK todo \in Todos, id \in Ids : StartTimer(todo, id)
      BY <1>1 DEF Start
    <2>2. /\ running'.id # recovery.idle /\ idle' = None
          /\ recovery' = recovery
      BY <2>1, FreshIsNotFound DEF StartTimer
    <2> QED BY <2>2 DEF AbsenceInv
  <1>2. CASE StopTimer \/ ResolveOrphanedTimer
    <2>1. /\ running' = None /\ idle' = idle
          /\ heartbeat' = [heartbeat EXCEPT ![running.id] = None]
          /\ UNCHANGED <<recovery, witness>>
      BY <1>2 DEF StopTimer, ResolveOrphanedTimer, CloseRunning
    <2>2. heartbeat'[recovery.idle] \in {heartbeat[recovery.idle], None}
      BY <1>0, <2>1
    <2> QED BY <2>1, <2>2, AbsenceUntouched
  <1>3. CASE TouchHeartbeat
    <2>1. /\ running # None /\ ~Found(running.id)
          /\ heartbeat' = [heartbeat EXCEPT ![running.id] = clock]
          /\ UNCHANGED <<running, idle, recovery, witness>>
      BY <1>3 DEF TouchHeartbeat
    <2>2. running.id # recovery.idle
      BY <2>1 DEF AbsenceInv
    <2>3. heartbeat'[recovery.idle] = heartbeat[recovery.idle]
      BY <1>0, <2>1, <2>2
    <2> QED BY <2>1, <2>3, AbsenceUntouched
  <1>4. CASE Begin
    <2>1. PICK start \in Time, returned \in Time \cup {None} :
             BeginIdle(start, returned)
      BY <1>4 DEF Begin
    <2>2. /\ running # None /\ ~Found(running.id)
          /\ UNCHANGED <<running, recovery>>
      BY <2>1 DEF BeginIdle
    <2>3. running.id # recovery.idle
      BY <2>2 DEF AbsenceInv
    <2>4. PICK p \in Phases :
             /\ p.id = running.id
             /\ IF returned = None THEN idle' = p
                                   ELSE idle' \in WindowClosed(p, returned)
      BY <2>1, BegunPhase
    <2>5. idle'.id = running.id
      <3>1. CASE returned = None
        BY <2>4, <3>1
      <3>2. CASE returned # None
        <4>1. idle' = [p EXCEPT !.returned = returned]
          BY <2>3, <2>4, <3>2 DEF WindowClosed
        <4> QED BY <2>4, <4>1 DEF Phases
      <3> QED BY <3>1, <3>2
    <2> QED BY <2>2, <2>3, <2>5 DEF AbsenceInv
  <1>5. CASE Return
    <2>1. PICK end \in Time : ReturnFromIdle(end)
      BY <1>5 DEF Return
    <2>2. /\ idle # None /\ idle.returned = None
          /\ idle' \in WindowClosed(idle, end)
          /\ UNCHANGED <<running, heartbeat, recovery, witness>>
      BY <2>1 DEF ReturnFromIdle
    <2>3. idle' # None /\ idle'.id = recovery.idle =>
            /\ idle'.start <= witness.idle
            /\ idle'.returned # None /\ idle'.returned <= witness.idle
      BY <2>2, FoundWindowClosed
    <2> QED BY <2>2, <2>3 DEF AbsenceInv, Found
  <1>6. CASE Resolve
    <2>1. PICK id \in Ids, resume \in BOOLEAN : ResolveIdle(id, resume)
      BY <1>6 DEF Resolve
    <2>2. running' # None => running'.id # recovery.idle
      BY <2>1, FreshIsNotFound DEF ResolveIdle
    <2>3. idle' = None /\ recovery' = recovery
      BY <2>1 DEF ResolveIdle
    <2> QED BY <2>2, <2>3 DEF AbsenceInv
  <1>7. CASE Restart \/ Import
    <2>1. Observe(running', idle', heartbeat')
      BY <1>7 DEF Restart, Import, ImportArchive
    <2>2. running' # None => recovery'.entry = running'.id
      BY <2>1 DEF Observe
    <2>3. idle' # None => idle'.id \in Ids /\ idle'.start \in Time
      BY DEF TypeOK, Phases
    <2>4. idle' # None /\ idle'.id = recovery'.idle =>
            /\ idle'.returned = None
            /\ witness'.idle = IF /\ heartbeat'[idle'.id] # None
                                  /\ heartbeat'[idle'.id] > idle'.start
                               THEN heartbeat'[idle'.id] ELSE idle'.start
      BY <2>1, <2>3 DEF Observe
    <2>5. idle' # None => heartbeat'[idle'.id] \in Time \cup {None}
      BY <2>3 DEF TypeOK, Heartbeats
    <2> QED BY <2>2, <2>3, <2>4, <2>5 DEF AbsenceInv, Found, Time
  <1>8. CASE Done \/ Tick \/ SetClock \/ UNCHANGED vars
    <2>1. UNCHANGED <<running, idle, heartbeat, recovery, witness>>
      BY <1>8 DEF Done, SetDone, Tick, SetClock, vars
    <2> QED BY <2>1 DEF AbsenceInv, Found
  <1> QED BY <1>1, <1>2, <1>3, <1>4, <1>5, <1>6, <1>7, <1>8 DEF Next

(* B-5, R-35: whatever archives are imported and however the clock is set, *)
(* an absence found open is not booked beyond what had been witnessed.     *)
THEOREM FoundAbsencesEndAtTheirWitness == Spec => FoundAbsenceBookedToWitness
  <1>1. Init => AbsenceInv
    BY DEF Init, AbsenceInv
  <1>2. TypeOK /\ TypeOK' /\ EarlierInv /\ AbsenceInv /\ [Next]_vars => AbsenceInv'
    BY AbsenceInvStep
  <1>3. TypeOK /\ TypeOK' /\ EarlierInv /\ AbsenceInv /\ [Next]_vars =>
          [~Import => \A b \in NewBookings :
              b.source = "manual" /\ b.id = recovery.idle
                  => b.end <= witness.idle]_vars
    <2> SUFFICES ASSUME TypeOK, TypeOK', EarlierInv, AbsenceInv, [Next]_vars,
                        ~Import, NEW b \in NewBookings,
                        b.source = "manual", b.id = recovery.idle
                 PROVE  b.end <= witness.idle
      OBVIOUS
    <2>1. PICK cuts \in SUBSET Time, p \in AbsentPeriods(idle) :
             \E s \in Sections(p, cuts) : b.end = s.end
      BY NewManualBookings
    <2>2. /\ idle # None /\ idle.returned # None /\ b.id = idle.id
          /\ PeriodsValid(AbsentPeriods(idle))
      BY NewManualBookings
    <2>3. b.end <= p.returned /\ p.returned \in Time /\ b.end \in Time
      BY <2>1, <2>2, SectionWithinPeriod
    <2>4. p.returned <= idle.returned
      BY <2>2, PeriodsEndWithPhase
    <2>5. idle.returned <= witness.idle
      BY <2>2 DEF AbsenceInv
    <2>6. idle.returned \in Time /\ witness.idle \in Time
      BY <2>2 DEF TypeOK, Phases
    <2> QED BY <2>3, <2>4, <2>5, <2>6 DEF Time
  <1> QED BY <1>1, <1>2, <1>3, TypeCorrect, EarlierPeriods, PTL
          DEF Spec, FoundAbsenceBookedToWitness

-----------------------------------------------------------------------------
(* A-28.6: on one computer no way of ending a timer and no allocation      *)
(* makes a booking of more than the maximum.  The active part of an        *)
(* allocation is the case that needs TimerInv: its guard is the one of the *)
(* call that began the absence.                                            *)
THEOREM NoBookingIsTooLong == OneComputer => (Spec => []NoBookingOverMax)
  <1> SUFFICES ASSUME OneComputer PROVE Spec => []NoBookingOverMax
    OBVIOUS
  <1>1. Init => NoBookingOverMax
    BY DEF Init, NoBookingOverMax
  <1>2. TypeOK /\ TypeOK' /\ TimerInv /\ NoBookingOverMax /\ [Next]_vars
          => NoBookingOverMax'
    <2> SUFFICES ASSUME TypeOK, TypeOK', TimerInv, NoBookingOverMax, [Next]_vars,
                        NEW b \in NewBookings
                 PROVE  b.end - b.start <= MaxDuration
      BY DEF NoBookingOverMax, NewBookings
    <2>1. ~Import
      BY DEF OneComputer, Import
    <2>2. b.source \in {"timer", "manual"}
      BY NewBookingsType
    <2>3. CASE b.source = "timer" /\ ~Resolve
      BY <2>1, <2>3, TimerBookingsArePast
    <2>4. CASE b.source = "timer" /\ Resolve
      <3>1. /\ idle # None /\ running # None
            /\ b \in Closed(running, BookingEndOf(running, idle.start))
        BY <2>4, ActivePart
      <3>2. /\ running \in Timers /\ running.start \in Time
            /\ idle \in Phases /\ idle.start \in Time
        BY <3>1 DEF TypeOK, Timers, Phases
      <3>3. BookingEndOf(running, idle.start) \in Time
        BY <3>2, BookingEndOfType
      <3>4. b.start = running.start /\ b.end <= idle.start
        BY <3>1, <3>2, <3>3, ClosedFits
      <3>5. b.end \in Time
        BY NewBookingsType
      <3>6. ~TooLong(running, idle.start)
        BY <3>1 DEF TimerInv, PhaseWithinTimer
      <3> QED BY <3>2, <3>4, <3>5, <3>6 DEF TooLong, Time
    <2>5. CASE b.source = "manual"
      BY <2>1, <2>5, NewManualBookings
    <2> QED BY <2>2, <2>3, <2>4, <2>5
  <1> QED BY <1>1, <1>2, TypeCorrect, TimerInvariant, PTL DEF Spec

(* A-24.3: on one computer a phase whose return is not recorded yet holds  *)
(* the timer it interrupted; every call that ends a timer refuses until    *)
(* then.  After the return this is not so: see PhaseFirstKeepsTheTimer.    *)
THEOREM OpenPhaseKeepsItsTimer ==
    OneComputer => (Spec => []OpenPhaseHoldsItsTimer)
  <1> SUFFICES ASSUME OneComputer PROVE Spec => []OpenPhaseHoldsItsTimer
    OBVIOUS
  <1>1. Init => OpenPhaseHoldsItsTimer
    BY DEF Init, OpenPhaseHoldsItsTimer
  <1>2. TypeOK /\ TimerInv /\ TimerInv' /\ OpenPhaseHoldsItsTimer /\ [Next]_vars
          => OpenPhaseHoldsItsTimer'
    <2> SUFFICES ASSUME TypeOK, TimerInv, TimerInv', OpenPhaseHoldsItsTimer,
                        [Next]_vars, idle' # None, idle'.returned = None
                 PROVE  running' # None
      BY DEF OpenPhaseHoldsItsTimer, TimerInv, PhaseWithinTimer
    <2>1. CASE Start \/ StopTimer \/ ResolveOrphanedTimer
      BY <2>1 DEF Start, StartTimer, StopTimer, ResolveOrphanedTimer
    <2>2. CASE Begin
      BY <2>2 DEF Begin, BeginIdle
    <2>3. CASE Return
      BY <2>3 DEF Return, ReturnFromIdle, OpenPhaseHoldsItsTimer
    <2>4. CASE Resolve
      BY <2>4 DEF Resolve, ResolveIdle
    <2>5. CASE TouchHeartbeat \/ Restart \/ Done \/ Tick \/ UNCHANGED vars
      <3>1. UNCHANGED <<running, idle>>
        BY <2>5 DEF TouchHeartbeat, Restart, Done, SetDone, Tick, vars
      <3> QED BY <3>1 DEF OpenPhaseHoldsItsTimer
    <2>6. ~Import /\ ~SetClock
      BY DEF OneComputer, Import, SetClock
    <2> QED BY <2>1, <2>2, <2>3, <2>4, <2>5, <2>6 DEF Next
  <1> QED BY <1>1, <1>2, TypeCorrect, TimerInvariant, PTL DEF Spec

(* A-24.6: on one computer a phase holds the timer it interrupted until it *)
(* is decided, before its return and after, in every behaviour in which    *)
(* the question of the found entry is not answered while a phase waits.    *)
(* That answer is the only step that can take the timer away.              *)
THEOREM PhaseFirstKeepsTheTimer ==
    OneComputer => (Spec /\ PhaseFirst => []PhaseHoldsItsTimer)
  <1> SUFFICES ASSUME OneComputer
               PROVE  Spec /\ PhaseFirst => []PhaseHoldsItsTimer
    OBVIOUS
  <1>1. Init => PhaseHoldsItsTimer
    BY DEF Init, PhaseHoldsItsTimer
  <1>2. ASSUME TypeOK, TimerInv, TimerInv', PhaseHoldsItsTimer,
               [Next]_vars, [ResolveOrphanedTimer => idle = None]_vars
        PROVE  PhaseHoldsItsTimer'
    <2> USE <1>2
    <2> SUFFICES ASSUME idle' # None
                 PROVE  running' # None
      BY DEF PhaseHoldsItsTimer, TimerInv, PhaseWithinTimer
    <2>1. CASE Start \/ StopTimer
      BY <2>1 DEF Start, StartTimer, StopTimer
    <2>2. CASE ResolveOrphanedTimer
      <3>1. UNCHANGED idle
        BY <2>2 DEF ResolveOrphanedTimer
      <3>2. CASE UNCHANGED vars
        BY <3>2 DEF vars, PhaseHoldsItsTimer
      <3>3. CASE ~UNCHANGED vars
        BY <2>2, <3>1, <3>3
      <3> QED BY <3>2, <3>3
    <2>3. CASE Begin
      BY <2>3 DEF Begin, BeginIdle
    <2>4. CASE Return
      BY <2>4 DEF Return, ReturnFromIdle, PhaseHoldsItsTimer
    <2>5. CASE Resolve
      BY <2>5 DEF Resolve, ResolveIdle
    <2>6. CASE TouchHeartbeat \/ Restart \/ Done \/ Tick \/ UNCHANGED vars
      <3>1. UNCHANGED <<running, idle>>
        BY <2>6 DEF TouchHeartbeat, Restart, Done, SetDone, Tick, vars
      <3> QED BY <3>1 DEF PhaseHoldsItsTimer
    <2>7. ~Import /\ ~SetClock
      BY DEF OneComputer, Import, SetClock
    <2> QED BY <2>1, <2>2, <2>3, <2>4, <2>5, <2>6, <2>7 DEF Next
  <1> QED BY <1>1, <1>2, TypeCorrect, TimerInvariant, PTL DEF Spec, PhaseFirst
=============================================================================
