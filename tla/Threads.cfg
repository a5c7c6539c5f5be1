SPECIFICATION FairSpec
CONSTANTS
    NumProducers = 3
    Cnt <- ThreeProducers
    MultijoinThreads = 3
    IncrThreads = 2
    IncrLoops = 3
    IncrInnerLoops = 2
    OnceThreads = 3
    OnceCalls = 2
    StrThreads = 2
    StrCalls = 2
    StrErrs = {1, 2, 9}
    sys_nerr = 3
    NullErrs = {2}
    MaxLoop = 2
    NumBarriers = 4
    BarrierThreads = 3
INVARIANTS
    NoLostWakeup
    JoinedOnce
    SharedDataKept
PROPERTIES
    UnitsSpec
    Ends
