SPECIFICATION RunningSpec
CONSTANTS
    daily = daily
    weekly = weekly
    manual = manual
    Concepts = {mcp, a2a}
    NoConcept = NoConcept
    Runs = {manual}
    Kind <- MCKind
    TopN = 2
    Cooldown = 2
    MaxMentions = 1
    MaxDepth = 3
    Faults = {}
INVARIANT
    ReportedAreStored
