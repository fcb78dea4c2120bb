SPECIFICATION Spec
CONSTANTS
    e1 = e1  e2 = e2  t1 = t1  t2 = t2  n1 = n1  n2 = n2  r1 = r1  r2 = r2
    None = None
    Entries = {e1, e2}
    Todos = {t1}
    Notes = {n1, n2}
    Requests = {r1, r2}
    Directories = {d1}
    MaxTime = 1
    MaxAudit = 3
    ClockSteps <- BackToStart
    SharedSeconds = TRUE
SYMMETRY ExportSymmetry
INVARIANT EveryRunHasItsFile
