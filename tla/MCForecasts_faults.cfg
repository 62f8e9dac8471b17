SPECIFICATION RunningSpec
CONSTANTS
    daily = daily
    weekly = weekly
    manual = manual
    Concepts = {mcp, a2a}
    NoConcept = NoConcept
    Runs = {daily, weekly}
    Kind <- MCKind
    TopN = 2
    Cooldown = 2
    MaxMentions = 2
    MaxDepth = 3
    Faults = {"mcp", "evidence", "slm"}
INVARIANTS
    TypeOK
    OneFreshForecast
    SubtasksAccounted
PROPERTIES
    RunsEnd
    EveryConceptForecast
