SPECIFICATION FairSpec
CONSTANTS
    VersionEvery = 2
    QueueMax = 1
    LineMax = 2
    MaxOutages = 1
    MaxBlinks = 1
    MaxGarbled = 1
    MaxSets = 1
INVARIANTS
    NoAnswerIsAwaitedInVain
    RequestsFindParams
PROPERTIES
    ScanningGoesOn
