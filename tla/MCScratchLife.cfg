SPECIFICATION Spec
CONSTANTS
    Callers = {c1, c2}
    Programs <- MCPrograms
    Inline = 16
INVARIANTS
    Exclusive
    WarmRunsFree
CHECK_DEADLOCK FALSE
