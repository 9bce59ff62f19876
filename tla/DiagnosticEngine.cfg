SPECIFICATION Spec
CONSTANTS
    Codes = {"e", "f", "n", "w", "x"}
    Groups <- EngineGroups
    DefaultSeverity <- EngineSeverity
    Buffers = {"b1", "b2"}
    NoBuffer = NoBuffer
    Diags <- EngineDiags
    TopDiags = {"d1", "d2", "d3", "d4"}
    ErrorLimits = {0, 1, 2}
    Directives <- EngineDirectives
    OptionLists <- EngineOptions
    SeverityCalls <- EngineSeverityCalls
    WaiverFiles <- EngineWaivers
    BadEntry = BadEntry
    Clients = {c1}
    MaxSettings = 2
    MaxOptions = 3
    MaxDirectives = 4
    MaxIssued = 3
INVARIANT CountsMatch
INVARIANT LimitRespected
INVARIANT WaiverReasonsTrue
INVARIANT OptionsFollowManual
INVARIANT PragmasNest
CHECK_DEADLOCK FALSE
