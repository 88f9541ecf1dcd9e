SPECIFICATION Spec
CONSTANTS
    r1 = r1
    r2 = r2
    r3 = r3
    s1 = s1
    s2 = s2
    Requests = {r1, r2, r3}
    Sagas = {s1, s2}
    Nobody = Nobody
    Names = {n1, n2}
    Values = {v1, v2}
SYMMETRY Symmetry
INVARIANT
    LifeAnnounced
PROPERTY
    LockShutsOut
\* A deleted price is never created again: every later request answers 404.
CHECK_DEADLOCK FALSE
