SPECIFICATION FairSpec
CONSTANTS
    s1 = s1
    s2 = s2
    g1 = g1
    g2 = g2
    b1 = b1
    b2 = b2
    None = None
    Services = {s1, s2}
    Groups = {g1}
    Bindings = {b1, b2}
    ServiceRef <- SharedGroupServices
    AddressGroupRef <- SharedGroup
    PortSets <- TwoPorts
    Existing = {s1, s2, g1, b1}
    InitialPorts <- FirstPorts
    Operations = {"CreateBinding", "UpdatePorts"}
    MaxOps = 2
    MaxFaults = 1
INVARIANTS TypeOK PortsDisjoint AccessWasGranted
PROPERTIES Convergence PortsAreTheUsers
CHECK_DEADLOCK FALSE
