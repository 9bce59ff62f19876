SPECIFICATION Spec
CONSTANTS
    Workers = {w1, w2}
    Main = main_thread
    PoolChoices = {TRUE}
    ThrowSets = {{}}
    Scopes = {"unit", "top"}
    Members <- NetTypeMembers
    CanonicalBody <- NoInstances
    Subs <- NetTypeSubs
    Roots <- PoolRoots
INVARIANT NetTypesReported
