CONSTANTS
    u1 = u1
    u2 = u2
    c1 = c1
    c2 = c2
    Clients = {c1, c2}
    URLs = {u1, u2}
    MaxNews = 1
    Untagged = {2}
    TTL = 2
    Timeout = 1
    Faults <- ListFaults
    MaxFaults = 1
    MaxCalls = 3
    MaxTime = 3
SPECIFICATION Spec
INVARIANTS
    ServedIsRecent
    NeverGoesBack
SYMMETRY
    Symmetry
CHECK_DEADLOCK FALSE
