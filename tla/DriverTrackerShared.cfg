SPECIFICATION FairSpec
CONSTANTS
    Threads = {t1, t2}
    t1 = t1
    t2 = t2
    Main = t1
    DriverIds <- SharedIds
    Scopes <- SharedScopes
    ProcedureKind <- SharedProcedureKind
    Subroutines <- SharedSubroutines
    Symbols <- SharedSymbols
    Bodies <- SharedBodies
    BodyOf <- SharedBodyOf
    AddCalls <- SharedCalls
    Retarget <- SharedRetarget
    Expand <- SharedExpand
    NoSymbol <- NoNode
    Elaboration <- SharedElaboration
    MaxDepth = 4
    AllowDupInitialDrivers = TRUE
INVARIANT ConflictsAreReported
INVARIANT TypeOK
INVARIANT PairsMeetOnce
INVARIANT FinalDriversImplied
INVARIANT InstancesDrive
PROPERTY AnalysisEnds
