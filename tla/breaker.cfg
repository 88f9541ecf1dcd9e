SPECIFICATION FairSpec
CONSTANTS
    c1 = c1
    c2 = c2
    c3 = c3
    Calls <- ThreeCalls
    FailMax = 3
    ResetTimeout = 2
INVARIANTS
    FieldsAgree
PROPERTIES
    FollowsDiagram
    RecoveryClosesCircuit
