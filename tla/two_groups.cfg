SPECIFICATION Spec
CONSTANTS
    s1 = s1
    s2 = s2
    g1 = g1
    g2 = g2
    b1 = b1
    b2 = b2
    None = None
    Services = {s1}
    Groups = {g1, g2}
    Bindings = {b1, b2}
    ServiceRef <- OneService
    AddressGroupRef <- TwoGroups
    PortSets <- OnePort
    Existing = {g1, g2}
    InitialPorts <- FirstPorts
    Operations = {"CreateService", "CreateBinding", "DeleteBinding"}
    MaxOps = 4
    MaxFaults = 0
PROPERTIES NoLostGroup LiveBindingsStay
CHECK_DEADLOCK FALSE
