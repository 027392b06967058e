SPECIFICATION MCSpec
CONSTANTS
    Corpus <- MCAll
    Programs <- MCPrograms
    Inputs <- MCInputs
    Limits <- MCLimits
    Alphabet = {"a", "b"}
    MaxLen = 4
    Word = {"a"}
    LineEnd = {"c"}
    None = None
    MarkValues = 65536
    GuardSetMin = 2
    ChoiceSize = 40
    TrailSize = 40
    GuardSize = 16
    PositionSize = 8
INVARIANTS
    TypeOK
    Restores
    LookChain
    WithinLimit
    ResultIsEcma
PROPERTIES
    EmptyCheckSuffices
    Terminates
CHECK_DEADLOCK FALSE
