SPECIFICATION ViewsSpec
CONSTANTS
    Triples = {t1, t2}
    NoTriple = NoTriple
    Calls = {c1, c2, c3}
    MaxConf = 1
    Window = 2
    Faults = {"pg", "neo4j", "crash", "unread"}
    Ends <- HubAndSpoke
    SourceOf <- OnePaper
SYMMETRY Interchangeable
INVARIANTS
    AtMostOneEdge
    EdgeBehindGate
    OneWinner
    AnswersTrue
    IInv
    StatsOrdered
PROPERTIES
    NothingUndone
    ImplementsGate
