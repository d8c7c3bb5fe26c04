SPECIFICATION Spec
CONSTANTS
    t1 = t1
    t2 = t2
    switch = switch
    other = other
    Task = {t1, t2}
    Condition = {switch, other}
    Rank <- Names
    Kind <- WithDetector
    Priorities = {1, 3}
    DefaultPriority = 1
    RunningPriority = 2
    CrashLimit = 0
    FrequencyLimit = 1
    Timeout = 0
    FireTimes = {1}
    Settings <- TwoEach
    MaxReports = 1
INVARIANT OnlyOneScriptRuns
CHECK_DEADLOCK FALSE
