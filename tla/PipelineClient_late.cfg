SPECIFICATION Spec
CONSTANTS
    camera = camera
    broken = broken
    Type = {camera, broken}
    Creatable = {camera}
    None = None
    MaxCalls = 3
    MaxOthers = 1
INVARIANTS
    RemovedIsGone
CHECK_DEADLOCK FALSE
