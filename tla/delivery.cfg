SPECIFICATION FairSpec
CONSTANTS
    r1 = r1
    r2 = r2
    a = a
    b = b
    Requests = {r1, r2}
    Passes = {a, b}
    MaxRecords = 3
    Faults <- AllFaults
    MaxFaults = 1
INVARIANTS
    CausalOrder
    CacheConverges
PROPERTY
    EventsAreDelivered
\* The records are finitely many: the system stops when all is delivered.
CHECK_DEADLOCK FALSE
