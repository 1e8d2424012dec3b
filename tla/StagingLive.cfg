CONSTANTS
    i1 = i1
    i2 = i2
    f1 = f1
    f2 = f2
    updex = updex
    daemon = daemon
    MaxVersion = 2
    Images = {i1}
    Features = {f1}
    FeatureOrder <- OneOrder
    ImagesOf <- OneImagesOf
    LegacyImages = {i1}
    InstancesMax <- OneInstancesMax
    Protect <- LiveProtect
    Procs = {daemon, updex}
    Jobs <- LiveJobs
    Releases <- LiveReleases
    Faults = {"fetch", "inspect", "legacy", "download", "link", "scan", "remove", "active", "dropin", "unmerge", "unlink", "refresh", "crash", "reboot"}
    MaxFaults = 1
    MaxOps = 2
SPECIFICATION FairSpec
PROPERTIES
    Converges
    CommandsReturn
