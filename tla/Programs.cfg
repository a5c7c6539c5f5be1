SPECIFICATION FairSpec
CHECK_DEADLOCK FALSE
CONSTANTS
    MaxFd = 3
    DupCalls = 1
    EnvNames <- PairsOfNames
    EnvValues = {0, 1, 2}
    EnvCapacity = 2
    MaxEnv = 5
    EnvCalls = 5
    MaxPid = 6
    Initial = 4
    Kernel = {2}
    Mine = {1, 3, 5}
    CHILD_MAX = 1
INVARIANTS
    BytesKept
    TablesRight
    
    TreePrinted
    AccessRight
    SupervisedRight
PROPERTIES
    AllEnd
