SPECIFICATION FairSpec
CONSTANTS
    Function <- MCFunction
    Repeating <- MCRepeating
    Delay <- MCDelay
    Priority <- MCPriority
    Second = 1
    None = None
INVARIANTS
    UrgentFirst
    WakesInTime
PROPERTIES
    EventsAreRun
    JoinsEnd
CHECK_DEADLOCK FALSE
