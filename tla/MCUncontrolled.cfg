SPECIFICATION Spec
CONSTANTS
    TestFiles <- MCTestFiles
    MaxTests = 2
    Groups <- MCGroups
    FileMeta <- MCFileMeta
    Lacking <- MCLacking
    FilesAt <- MCFilesAt
    HostSuite = {host}
    Status = {"pass", "fail", "skipped_host"}
    Patterns <- MCPatterns
    Bad = "bad"
    Flags = {"", "u"}
    Strings <- MCStrings
    ExecLength = 2
    ExecInside = {1}
    Sources = {"p", "q"}
    LastIndexes <- MCLastIndexes
    Names <- MCNames
    LoopLength = 5
    LoopInside = {2}
    Bytes = {97, 128, 160, 237, 240}
    MaxLen = 4
    a = a
    b1 = b1
    b2 = b2
    b3 = b3
    c1 = c1
    c2 = c2
    gone = gone
    stays = stays
    comes = comes
    host = host
INVARIANT EveryFailureControlled
CHECK_DEADLOCK FALSE
