SPECIFICATION Spec
CONSTANTS
    t1 = t1
    t2 = t2
    Threads = {t1, t2}
    FlakyReads = FALSE
    Absent = Absent
    Failed = Failed
    NoPath = NoPath
    Paths = {"a"}
    Texts <- BothTexts
    LineOffsets <- LineLayout
    Outcomes <- MCOutcomes
    BadPaths = {}
    AssignPaths = {}
    SystemDirs <- NoDirs
    LocalDir <- NoDirs
    AdditionalDirs <- NoDirs
    LibraryDirs <- NoDirs
    UserDirs <- MCUserDirs
    IncDirFirst = FALSE
    Offsets = {2}
    LineNums = {7}
    MaxEntries = 3
    MaxDirectives = 1
    MaxLength = 5
    MaxLine = 3
    MaxLineDirectives = 3
SYMMETRY ThreadSymmetry
INVARIANTS
    LinesExact
    NoStaleInfo
    ExpansionsResolve
    UnracedLineCorrect
PROPERTIES
    EntriesAreFinal
