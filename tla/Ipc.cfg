SPECIFICATION FairSpec
CHECK_DEADLOCK FALSE
CONSTANTS
    MaxMsgs = 4
    MqMaxQueue = 2
    FifoClients = 3
    SeqLen <- ThreeLengths
    FileClients = 2
    Sizes <- FileSizes
    FileMaxQueue = 2
    SemOp <- ThreeOps
    MAX_TRIES = 3
    Garbage = {0, 5}
    SyncChildren = 3
INVARIANTS
    NoMessageForgotten
    ClientsServed
    InitFirst
PROPERTIES
    AllGoOn
