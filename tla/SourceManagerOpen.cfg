SPECIFICATION FairSpec
CONSTANTS
    t1 = t1
    t2 = t2
    Threads = {t1, t2}
    FlakyReads = FALSE
    Absent = Absent
    Failed = Failed
    NoPath = NoPath
    Paths = {"a", "b", "g", "x"}
    Texts <- BothTexts
    LineOffsets <- LineLayout
    Outcomes <- MCOutcomes
    BadPaths = {"x"}
    AssignPaths = {"g"}
    SystemDirs <- MCSystemDirs
    LocalDir <- MCLocalDir
    AdditionalDirs <- NoDirs
    LibraryDirs <- MCLibraryDirs
    UserDirs <- MCUserDirs
    IncDirFirst = FALSE
    Offsets = {0}
    LineNums = {}
    MaxEntries = 2
    MaxDirectives = 0
    MaxLength = 0
    MaxLine = 0
    MaxLineDirectives = 0
INVARIANTS
    TypeOK
    NoNullFileData
    BufferTextIsCached
    FirstMatchWins
    SearchesAgree
PROPERTIES
    CallsReturn
