CONSTANTS
    w1 = w1
    w2 = w2
    w3 = w3
    r1 = r1
    None = None
    LastStamp = 2
    Writers <- MCWriters
    Stamp <- MCStamp
    Readers <- MCReaders
SPECIFICATION Spec
INVARIANTS
    StoreIsConsistent
    ReaderNeverRaises
PROPERTIES
    SnapshotsAreKept
CHECK_DEADLOCK FALSE
