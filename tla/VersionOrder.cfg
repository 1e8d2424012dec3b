CONSTANTS
    Versions <- AllVersions
    MinVersions <- AllMinVersions
    MaxInt = 99
    MaxInsertion = 3
    MaxAvailable = 4
SPECIFICATION Spec
CONSTRAINT FewAtOnce
INVARIANTS
    CompareIsDpkg
    NewestIsSelected
