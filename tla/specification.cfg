SPECIFICATION FairSpec
CONSTANTS
    r1 = r1  r2 = r2  s1 = s1  s2 = s2  n1 = n1  n2 = n2  c1 = c1
    Requests = {r1, r2}
    Specifications = {s1, s2}
    Names = {n1, n2}
    Characteristics = {c1}
INVARIANTS NamesUnique ReferencesExisted LifeAnnounced
PROPERTIES OnlyComingDeletionsSlip CacheCatchesUp
