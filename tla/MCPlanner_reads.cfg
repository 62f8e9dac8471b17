SPECIFICATION PlannerSpec
CONSTANTS
    paper = paper
    blog = blog
    post = post
    Concepts = {mcp, a2a}
    Sources = {paper, blog, post}
    TypeOf <- AllTypes
    DaysPerWeek = 2
    Window = 2
    PageSize = 2
    MaxDay = 3
    Static <- OneCurated
    Authorities = {lab}
    SingletonDays = 3
    SpikeDays = 2
    MinRecent = 2
    CorroborationLimit = 1
    SpikeLimit = 1
    AdjacencyLimit = 1
    Faults = {"pg", "neo4j"}
SYMMETRY Interchangeable
INVARIANTS
    EvidenceAdds
    PreviewAgrees
    FairShare
    OneReasonEach
