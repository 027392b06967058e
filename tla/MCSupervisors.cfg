SPECIFICATION MCSpec
CONSTANTS
    NTasks = 4
    WORKERS = 2
    RECYCLE = 2
    COUNT = 4
    NSubjects = 2
    Lines = 3
INVARIANTS
    NoneMissing
    ReportsAddUp
PROPERTIES
    ImplementsBoard
    CasesImplementBoard
    AnswersStay
    EachEnds
CHECK_DEADLOCK FALSE
