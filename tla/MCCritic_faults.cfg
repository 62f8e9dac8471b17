SPECIFICATION CriticSpec
CONSTANTS
    good = good
    bad = bad
    odd = odd
    strange = strange
    lost = lost
    Triples <- GoodBadAndLost
    NoTriple = NoTriple
    Calls = {c1, c2}
    MaxConf = 0
    Window = 1
    Faults = {"pg", "neo4j", "crash", "net", "kill", "s3"}
    Critics = {k1, k2}
    NoCall = NoCall
    Batch = 2
    DryRun = {}
    Blank = {}
    OffOntology = {bad}
    Stored = {good, bad}
    Outcomes <- GoodBadAndLostOutcomes
INVARIANTS
    CriticTypeOK
    OnlyReviewedReachGraph
    CriticRaceIsReal
    CommittedIsThere
    CountedAreDecided
