SPECIFICATION QueueSpec
CONSTANTS
    Calls = {c1, c2, c3, c4}
    MaxWrites = 2
    None = None
INVARIANTS
    TransactionsApart
    ContinuationFirst
PROPERTY ImplementsSerial
