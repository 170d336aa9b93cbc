SPECIFICATION SessionsSpec
CONSTANTS
    MaxEvents = 6
    MaxSessions = 3
    MayClone = TRUE
CHECK_DEADLOCK FALSE
INVARIANTS
    SessionsSound
PROPERTIES
    ContextsOnlyGrow
    
    
