SPECIFICATION Spec
CONSTANTS
    o1 = o1  s1 = s1  Nobody = Nobody
    Offerings = {o1}
    Characteristics = {}  Specifications = {s1}  Prices = {}
    PartsOf <- MCPartsOf
    MaxVersion = 2
    MaxEvents = 3
    Faults = {}
    MaxFaults = 0
INVARIANTS RetiredIsHidden
CHECK_DEADLOCK FALSE
