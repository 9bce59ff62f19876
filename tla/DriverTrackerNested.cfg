SPECIFICATION Spec
CONSTANTS
    Threads = {t1, t2}
    t1 = t1
    t2 = t2
    Main = t1
    DriverIds <- NestedIds
    Scopes <- SharedScopes
    ProcedureKind <- SharedProcedureKind
    Subroutines <- SharedSubroutines
    Symbols <- NestedSymbols
    Bodies <- SharedBodies
    BodyOf <- NestedBodyOf
    AddCalls <- NestedCalls
    Retarget <- NestedRetarget
    Expand <- NestedExpand
    NoSymbol <- NoNode
    Elaboration <- NestedElaboration
    MaxDepth = 4
    AllowDupInitialDrivers = FALSE
INVARIANT InstancesDrive
