CONSTANTS
    a = a
    b = b
    c1 = c1
    main = main
    Absent = Absent
    Foreign = Foreign
    Irregular = Irregular
    MaxVersion = 2
    Repos = {a, b}
    Components = {c1}
    ComponentOf <- SharedComponentOf
    Revisions = {1, 2}
    Images = {main}
    ImagesIn <- OneImageIn
    OthersIn <- NoImageIn
    InstancesMax <- CatalogInstancesMax
    LinkedDropIns = {}
    Faults = {"vacuum"}
    MaxFaults = 3
    MaxOps = 3
SPECIFICATION Spec
PROPERTIES
    EveryFailureRollsBack
CHECK_DEADLOCK FALSE
