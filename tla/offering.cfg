SPECIFICATION Spec
CONSTANTS
    r1 = r1
    r2 = r2
    r3 = r3
    r4 = r4
    Requests = {r1, r2, r3, r4}
    NoRequest = NoRequest
    Bodies = {"name only", "price only", "full", "full, edited"}
    Complete = {"full", "full, edited"}
    WithIds = {"price only", "full", "full, edited"}
SYMMETRY Symmetry
INVARIANTS
    EventsTellStatus
PROPERTIES
    LifecycleFollowed
    CompleteWhenPublishing
