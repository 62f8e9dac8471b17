SPECIFICATION FairSpec
CONSTANTS
    first = first
    second = second
    third = third
    mcp = mcp
    a2a = a2a
    wide = wide
    narrow = narrow
    Scouts = {wide, narrow}
    Serial = TRUE
    Listing <- ThreeSources
    Carries <- TwoFeeds
    MaxItems <- TwoLimits
    Concepts = {mcp, a2a}
    MaxEdition <- LastHasTwo
    Yields <- Answers
    Poison = {second}
    Faults = {"call"}
INVARIANTS
    TypeOK
    ClaimHasEvidence
    EvidenceNotOlder
PROPERTIES
    RunsCatchUp
