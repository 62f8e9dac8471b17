SPECIFICATION Spec
CONSTANTS
    Triples = {t1, t2}
    NoTriple = NoTriple
    Calls = {c1, c2}
    MaxConf = 0
    Window = 1
    Faults = {}
INVARIANT RaceMeansDecided
