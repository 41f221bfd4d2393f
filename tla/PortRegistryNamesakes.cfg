SPECIFICATION Spec
CONSTANTS
    MaxPort = 3
    NaN = NaN
    Services <- MCServices
    PortLists <- MCPortLists
    b1 = b1
    b2 = b2
    b3 = b3
    Bindings = {b1, b2, b3}
    Namespace <- MCNamespace
    None = None
    MaxStrays = 1
SYMMETRY Symmetry
INVARIANT ServicesDisjoint
