CONSTANTS
    NRoots = 2
    NComponents = 2
    NDropIns = 1
    MaxCommands = 1
    MaxEdits = 2
SPECIFICATION Spec
INVARIANTS
    EnableTakesEffect
    MaskHolds
    UnionIsMostSpecific
    BrokenIsContained
PROPERTIES
    AdministratorDecides
CHECK_DEADLOCK FALSE
