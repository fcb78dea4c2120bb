SPECIFICATION Spec
CONSTANTS
    p1 = p1  p2 = p2  m1 = m1  m2 = m2  r1 = r1  r2 = r2  r3 = r3
    t1 = t1  t2 = t2  t3 = t3  c1 = c1  a = a  b = b
    None = None  New = New
    Panes = {p1}
    Mails = {m1}
    Requests = {r1, r2}
    Todos = {t1, t2}
    Calls = {c1}
    Texts = {a, b}
    Attempts = 3
SYMMETRY Interchangeable
INVARIANTS
    OneTodoPerRequest
    ReceiptsStandWithEntries
    ShownIsWhatWasSent
PROPERTIES
    SuccessIsStored
    EachRequestOnce
