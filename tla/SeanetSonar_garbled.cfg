SPECIFICATION FairSpec
CONSTANTS
    VersionEvery = 2
    QueueMax = 1
    LineMax = 3
    MaxOutages = 0
    MaxBlinks = 0
    MaxGarbled = 1
    MaxSets = 0
INVARIANTS
    AlwaysOneOutstanding
CHECK_DEADLOCK FALSE
