SPECIFICATION Spec
CONSTANTS
    i1 = i1  i2 = i2  m1 = m1  m2 = m2
    t1 = t1  t2 = t2  c1 = c1  c2 = c2
    None = None
    Images = {i1}
    EmailFiles = {m1, m2}
    Todos = {t1, t2}
    Calls = {c1, c2}
    Linkable = {m1}
    Archiving = TRUE
    Overlapping = FALSE
SYMMETRY Interchangeable
INVARIANTS
    EveryRowHasItsFile
    NoOrphanWithoutReason
PROPERTY NoOwnedFileRemoved
