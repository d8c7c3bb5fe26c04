SPECIFICATION FairSpec
CONSTANTS
    VersionEvery = 2
    QueueMax = 1
    LineMax = 3
    MaxOutages = 1
    MaxBlinks = 1
    MaxGarbled = 0
    MaxSets = 0
PROPERTIES
    LinesKeepComing
