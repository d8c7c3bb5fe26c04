SPECIFICATION Spec
CONSTANTS
    camera = camera
    broken = broken
    Type = {camera, broken}
    Creatable = {camera}
    None = None
    MaxCalls = 3
    MaxOthers = 1
INVARIANTS
    AddsReturnDistinctNodes
    TimelyCallsAreAnswered
    NoAnswerIsMissed
CHECK_DEADLOCK FALSE
