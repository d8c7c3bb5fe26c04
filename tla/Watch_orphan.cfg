SPECIFICATION Spec
CONSTANTS
    svc = svc
    script = script
    Process = {script}
    NoProcess = NoProcess
    Commander = {mailbox}
    Monitor = monitor
    Searched = {}
    Named = {}
    Prereq <- NeedsService
    RestartAlso <- TakesAlong
    OnDeath <- ReportsOrRestarts
    Limited = {}
    Autostart = {}
    Unlaunchable = {}
    Unkillable = {}
    Signals <- JustKill
INVARIANTS
    OneProcessEach
CHECK_DEADLOCK FALSE
