SPECIFICATION FairSpec
CONSTANTS
    e1 = e1  e2 = e2  e3 = e3  x1 = x1  x2 = x2
    t1 = t1
    None = None
    Todos = {t1}
    Ids = {e1, e2, e3}
    MaxTime = 4
    MaxDuration = 2
    Threshold = 1
    Archives <- NoArchives
    ClockSteps <- NoClockSteps
INVARIANTS
    NoDoubleBooking
    NoBookingOverMax
    OpenPhaseHoldsItsTimer
PROPERTY PhaseIsDecided
