SPECIFICATION FairSpec
CONSTANTS
    Todos = {a, b}
    DoneOnes = {a}
    Clicks = 2
    Upsets = 1
    Slots = {1, 2}
    None = none
    Elsewhere = elsewhere
    NoOffer = none
    MaxToasts = 2
    Life = 1
INVARIANT StackInOrder
PROPERTIES OffersStay ViewCatchesUp OperationsEnd
