SPECIFICATION Spec
CONSTANTS
    NTasks = 3
    WORKERS = 1
    RECYCLE = 3
PROPERTY CrashIsItsOwn
CHECK_DEADLOCK FALSE
