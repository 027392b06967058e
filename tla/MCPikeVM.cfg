SPECIFICATION MCSpec
CONSTANTS
    Calls <- MCCalls
    Alphabet = {"a", "b"}
    Word = {"a"}
    LineEnd = {"b"}
    MaxLen = 3
    MaxFollow = 12
    Gens = 3
    None = None
    Stale = Stale
INVARIANTS
    ResultIsEcma
    ClosureUnwinds
    PassesAgree
    ListsExact
    ExistsIsEcma
PROPERTIES
    StartsNeverLater
CHECK_DEADLOCK FALSE
