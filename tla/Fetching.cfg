CONSTANTS
    s1 = s1
    plain = plain
    packed = packed
    checked = checked
    Sources = {s1}
    Transfers = {plain, packed, checked}
    Orders <- FetchingOrders
    SourceOf <- FetchingSource
    NeedVerify = {checked}
    Compressed = {packed}
    MaxBuild = 3
    VersionOf <- FetchingVersion
    Signed = {1, 3}
    MinVersion <- FetchingMin
    MaxAttempts = 3
    Faults = {"request", "keyring", "temp", "short", "sync", "unpack", "chmod", "rename", "copy", "cancel", "crash", "power"}
    MaxFaults = 2
    MaxRuns = 2
SPECIFICATION Spec
INVARIANTS
    TypeOK
    VerifiedMeansSigned
    TargetIsWhole
    OneVerifiedManifest
    NoTempLeft
    TransientIsMasked
PROPERTIES
    RunEnds
CHECK_DEADLOCK FALSE
