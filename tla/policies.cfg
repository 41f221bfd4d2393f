SPECIFICATION FairSpec
CONSTANTS
    s1 = s1
    s2 = s2
    s3 = s3
    g1 = g1
    g2 = g2
    p1 = p1
    p2 = p2
    b1 = b1
    b2 = b2
    None = None
    Services = {s1, s2, s3}
    Groups = {g1, g2}
    Policies = {p1, p2}
    Bindings = {b1, b2}
    Namespace <- MCNamespace
    Scenarios <- MCScenarios
INVARIANT TypeOK
PROPERTIES ReadyIsAboutItsSpec ReadyHoldsPolicy PolicyBecomesReady GrantedBindingInForce DeletionCompletes
CHECK_DEADLOCK FALSE
