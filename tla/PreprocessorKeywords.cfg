SPECIFICATION Spec
CONSTANTS
    Files = {"main", "guarded", "loose", "once", "self", "open", "close", "mapped"}
    Names = {"A", "B", "G", "H", "M", "N", "P"}
    Programs <- UnitPrograms
    Predefined = {"P"}
    BuiltIn = {"B"}
    MaxIncludeDepth = 2
    KeywordVersion <- Versions
    NoVersion = NoVersion
    DefaultVersion = DefaultVersion
    NoMacro = NoMacro
    Never = Never
    Always = Always
    MaxMain = 4
INVARIANT KeywordsScoped
CHECK_DEADLOCK FALSE
