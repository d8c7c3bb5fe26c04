SPECIFICATION FairSpec
CONSTANTS
    svc = svc
    script = script
    Process = {svc, script}
    NoProcess = NoProcess
    Commander = {mailbox}
    Monitor = monitor
    Searched = {svc}
    Named = {script}
    Prereq <- NeedsService
    RestartAlso <- TakesAlong
    OnDeath <- ReportsOrRestarts
    Limited = {svc}
    Autostart = {svc}
    Unlaunchable = {svc}
    Unkillable = {script}
    Signals <- JustKill
INVARIANTS
    NoProcessForgotten
PROPERTIES
    StopsEnd
    DeathsAreReported
    DependenciesAreStarted
CHECK_DEADLOCK FALSE
