SPECIFICATION LimitsSpec
CONSTANTS
    MaxSteps = 7
    Costs = {1, 2, 3}
    MaxStarts = 3
    Programs <- MCPrograms
    Calls <- MCCalls
    Caps <- MCCaps
    Characters = {"a", "b", "H", "L", "HL"}
    Units = {"a", "b"}
    Word = {"a"}
    LineEnd = {"b"}
    Lead = "H"
    Trail = "L"
    Pair = "HL"
    MaxLen = 3
    None = None
INVARIANTS
    LendsWithin
    SpanIsEcma
    TablesFit
PROPERTY OneCounter
CHECK_DEADLOCK FALSE
