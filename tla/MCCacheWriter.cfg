CONSTANTS
    w1 = w1
    w2 = w2
    w3 = w3
    Old = Old
    None = None
    Writers <- MCWriters
    WithMetadata <- MCWithMetadata
SPECIFICATION Spec
INVARIANTS
    SidecarDescribesBody
    SomeoneWins
PROPERTIES
    ImplementsPageStore
    EveryCallEnds
CHECK_DEADLOCK FALSE
