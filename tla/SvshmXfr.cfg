SPECIFICATION RestartSpec
CONSTANTS
    BufSize = 2
    InputLen = 5
    MaxRuns = 3
INVARIANTS
    ExclusiveAccess
    NoMutualWait
    ReaderKeepsIpc
    CountsAgree
PROPERTIES
    StreamAcrossRestarts
    BothFinish
CHECK_DEADLOCK FALSE
