SPECIFICATION FairSpec
CONSTANTS
    approve = approve
    evidence = evidence
    health = health
    Handlers = {approve, evidence, health}
    Tools = {approve, evidence}
    Tolerant = {health}
    Script <- Scripts
    Pools = {p1, p2, p3, p4}
    NoPool = NoPool
    PoolSize = 1
    Faults = {"pg", "neo4j", "s3", "kill"}
INVARIANTS
    TypeOK
    ServesConnected
PROPERTIES
    RequestsEnd
    TeardownEnds
