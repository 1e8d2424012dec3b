CONSTANTS
    p1 = p1
    p2 = p2
    Procs = {p1, p2}
    Faults <- DaemonFaults
    MaxFaults = 2
    MaxOps = 4
SPECIFICATION Spec
INVARIANTS
    TypeOK
    EnabledIsScheduled
    DisabledIsGone
    InstallAllOrNothing
    DisableUnblocks
PROPERTIES
    InstallNeverReplaces
CHECK_DEADLOCK FALSE
