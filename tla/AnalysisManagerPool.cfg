SPECIFICATION FairSpec
CONSTANTS
    Workers = {w1, w2}
    Main = main_thread
    PoolChoices = {TRUE, FALSE}
    ThrowSets <- PoolThrows
    Scopes = {"unit", "pkg", "top", "leaf", "unused"}
    Members <- PoolMembers
    CanonicalBody <- PoolBody
    Subs <- PoolSubs
    Roots <- PoolRoots
INVARIANT EverythingAnalyzed
INVARIANT SubroutinesOnce
INVARIANT CalleesInlined
INVARIANT TaskDelaysFound
INVARIANT SequentialReports
PROPERTY AnalysisTerminates
