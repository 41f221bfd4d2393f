SPECIFICATION FairSpec
CONSTANTS
    sa = sa
    sb = sb
    sc = sc
    aa = aa
    ab = ab
    ac = ac
    r1 = r1
    r2 = r2
    ga = ga
    gb = gb
    n1 = n1
    n2 = n2
    None = None
    Services = {sa, sb, sc}
    Aliases = {aa, ab, ac}
    Rules = {r1, r2}
    ServiceNs <- SNs
    AliasFor <- AliasOf
    RuleNs <- RNs
    RuleSpecs <- AllSpecs
    GroupRefs <- AllGroups
    PortSets <- TwoPorts
    Scenarios <- AllScenarios
    InitialServices <- Separate
INVARIANT TypeOK
PROPERTIES ImplementsOwnership RulesInForce RevokedAccessGoes DanglingReported DeletionCompletes ServiceUntouched ListedBeforeRules
CHECK_DEADLOCK FALSE
