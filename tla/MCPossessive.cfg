SPECIFICATION Spec
CONSTANTS
    Corpus <- Unruly
    Programs <- MCPrograms
    Inputs <- MCInputs
    Limits <- Unlimited
    Alphabet = {"a", "b"}
    MaxLen = 3
    Word = {"a"}
    LineEnd = {"c"}
    None = None
    MarkValues = 65536
    GuardSetMin = 2
    ChoiceSize = 40
    TrailSize = 40
    GuardSize = 16
    PositionSize = 8
INVARIANTS
    PossessiveIsAtomic
CHECK_DEADLOCK FALSE
