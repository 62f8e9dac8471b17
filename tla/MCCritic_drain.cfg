SPECIFICATION CriticFairSpec
CONSTANTS
    good = good
    bad = bad
    odd = odd
    strange = strange
    lost = lost
    Triples <- GoodAndTwoOdd
    NoTriple = NoTriple
    Calls = {c1, c2}
    MaxConf = 0
    Window = 3
    Faults = {}
    Critics = {k1, k2, k3}
    NoCall = NoCall
    Batch = 2
    DryRun = {k3}
    Blank = {}
    OffOntology = {}
    Stored = {good, odd, strange}
    Outcomes <- GoodAndTwoOddOutcomes
INVARIANTS
    OldestFirst
    StoresAgree
PROPERTIES
    EventuallyDecided
    ApprovedReachesGraph
