SPECIFICATION Spec
CONSTANTS
    Concepts = {mcp}
    Sources = {s1, s2, s3}
    TypeOf <- AllPapers
    DaysPerWeek = 2
    Window = 6
    PageSize = 1
    MaxDay = 7
INVARIANT VelocityMeansIncrease
