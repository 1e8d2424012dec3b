CONSTANTS
    i1 = i1
    i2 = i2
    f1 = f1
    f2 = f2
    updex = updex
    daemon = daemon
    MaxVersion = 3
    Images = {i1, i2}
    Features = {f1, f2}
    FeatureOrder <- TwoOrder
    ImagesOf <- TwoImagesOf
    LegacyImages = {i1}
    InstancesMax <- TwoInstancesMax
    Protect <- TwoProtect
    Procs = {updex}
    Jobs <- TwoJobs
    Releases <- TwoReleases
    Faults = {"fetch", "inspect", "legacy", "download", "link", "scan", "remove", "dropin", "unmerge", "refresh", "crash", "reboot"}
    MaxFaults = 2
    MaxOps = 3
SPECIFICATION Spec
INVARIANTS
    TypeOK
    LinkNeverDangles
    RetentionBound
    SuccessMeansServed
    SuccessMeansRemoved
PROPERTIES
    ForceRequired
    ImplementsImageService
