SPECIFICATION Spec
CONSTANTS
    Code <- Programs
    Start <- Starts
    MaxPid = 4
    PipeBuf = 2
INVARIANTS
    ChildrenReaped
    SignalsKept
    
    SharedAsAsked
    DaemonDetached

    
CHECK_DEADLOCK FALSE
