SPECIFICATION Spec
CONSTANTS
    Blocks = {"n"}
    Kind <- BlockKinds
    Threads = {t1, t2}
    NormalLimit = 1
    MaxCalls = 2
    Scenarios <- Duplicates
INVARIANT AnsweredReadable
CHECK_DEADLOCK FALSE
