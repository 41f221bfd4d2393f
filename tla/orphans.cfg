SPECIFICATION FairSpec
CONSTANTS
    s1 = s1
    s2 = s2
    g1 = g1
    g2 = g2
    b1 = b1
    b2 = b2
    None = None
    Services = {s1}
    Groups = {g1}
    Bindings = {b1}
    ServiceRef <- SingleService
    AddressGroupRef <- SingleGroup
    PortSets <- OnePort
    Existing = {s1, g1}
    InitialPorts <- FirstPorts
    Operations = {"Resync", "CreateBinding", "DeleteBinding"}
    MaxOps = 3
    MaxFaults = 0
PROPERTY NoOrphans
CHECK_DEADLOCK FALSE
