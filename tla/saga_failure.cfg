SPECIFICATION Spec
CONSTANTS
    o1 = o1
    o2 = o2
    p1 = p1
    p2 = p2
    p3 = p3
    Offerings = {o1, o2}
    Prices = {p1, p2, p3}
    PricesOf <- SharedPrice
    Sagas = {s1, s2, s3}
    NoSaga = NoSaga
    NoOffering = NoOffering
    NoPrice = NoPrice
    Faults = {"start", "unreached", "swallowed", "token"}
    MaxFaults = 2
INVARIANTS
    FailureReleasesPrices
    ReadModelSettles
    NoOrphanStoreEntry
\* The sagas are finitely many and an incident is never resolved: the system may stop.
CHECK_DEADLOCK FALSE
