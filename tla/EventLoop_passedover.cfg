SPECIFICATION FairSpec
CONSTANTS
    Function <- MCFunction
    Repeating <- MCRepeating
    Delay <- MCDelay
    Priority <- MCPriority
    Second = 1
    None = None
PROPERTIES
    RunOnceCalm
CHECK_DEADLOCK FALSE
