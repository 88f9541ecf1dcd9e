SPECIFICATION FairSpec
CONSTANTS
    o1 = o1  s1 = s1  Nobody = Nobody
    Offerings = {o1}
    Characteristics = {}  Specifications = {s1}  Prices = {}
    PartsOf <- MCPartsOf
    MaxVersion = 2
    MaxEvents = 3
    Faults = {"fetch", "part", "mongo", "elastic", "duplicate", "crash"}
    MaxFaults = 1
INVARIANTS TypeOK MongoConverges ElasticFollows
PROPERTIES RetiredStaysOut RetiredLeaves
CHECK_DEADLOCK FALSE
