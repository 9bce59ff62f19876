SPECIFICATION FairSpec
CONSTANTS
    Files = {"main", "guarded", "loose", "once", "self", "open", "close", "mapped"}
    Names = {"A", "B", "G", "H", "M", "N", "P"}
    Programs <- MainPrograms
    Predefined = {"P"}
    BuiltIn = {"B"}
    MaxIncludeDepth = 2
    KeywordVersion <- Versions
    NoVersion = NoVersion
    DefaultVersion = DefaultVersion
    NoMacro = NoMacro
    Never = Never
    Always = Always
    MaxMain = 4
INVARIANT StacksAligned
INVARIANT TextIsLive
INVARIANT SkipsNothingLive
INVARIANT KeywordsScoped
INVARIANT FullyExpanded
PROPERTY PreprocessingEnds
CHECK_DEADLOCK FALSE
