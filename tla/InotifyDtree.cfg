SPECIFICATION FairSpec
CONSTANT
    Worlds <- AllWorlds
INVARIANTS
    RebuildRepairs
    
    CacheSound
PROPERTIES
    Drains
CHECK_DEADLOCK FALSE
