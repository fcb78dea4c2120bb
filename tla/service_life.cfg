CONSTANTS
    Procs = {p1, p2}
    Releases = {1, 2, 3}
    Starts = 3
    Deaths = 2
    None = none
SPECIFICATION FairSpec
INVARIANTS
    MigrationsApplyOnce
    BackupBeforeChange
    KnowsItsSchema
    OneServiceAtATime
PROPERTIES
    ServiceEndsWithItsShell
    StartIsDecided
CHECK_DEADLOCK FALSE
