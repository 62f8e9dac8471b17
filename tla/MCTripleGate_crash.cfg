SPECIFICATION FairSpec
CONSTANTS
    Triples = {t1, t2}
    NoTriple = NoTriple
    Calls = {c1, c2}
    MaxConf = 1
    Window = 2
    Faults = {"crash"}
PROPERTIES
    ApprovedReachesGraph
