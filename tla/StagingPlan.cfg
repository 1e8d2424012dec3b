CONSTANTS
    i1 = i1
    i2 = i2
    f1 = f1
    f2 = f2
    updex = updex
    daemon = daemon
    MaxVersion = 3
    Images = {i1}
    Features = {f1}
    FeatureOrder <- OneOrder
    ImagesOf <- OneImagesOf
    LegacyImages = {}
    InstancesMax <- OneInstancesMax
    Protect <- OneProtect
    Procs = {updex}
    Jobs <- OneJobs
    Releases <- OneReleases
    Faults = {}
    MaxFaults = 2
    MaxOps = 3
SPECIFICATION Spec
INVARIANTS
    PlanIsWhatVacuumRemoves
