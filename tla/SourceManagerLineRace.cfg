SPECIFICATION Spec
CONSTANTS
    t1 = t1
    t2 = t2
    Threads = {t1, t2}
    FlakyReads = FALSE
    Absent = Absent
    Failed = Failed
    NoPath = NoPath
    Paths = {"a"}
    Texts <- OneText
    LineOffsets <- LineLayout
    Outcomes <- MCOutcomes
    BadPaths = {}
    AssignPaths = {}
    SystemDirs <- NoDirs
    LocalDir <- NoDirs
    AdditionalDirs <- NoDirs
    LibraryDirs <- NoDirs
    UserDirs <- MCUserDirs
    IncDirFirst = FALSE
    Offsets = {2}
    LineNums = {}
    MaxEntries = 3
    MaxDirectives = 0
    MaxLength = 0
    MaxLine = 0
    MaxLineDirectives = 0
SYMMETRY ThreadSymmetry
INVARIANTS
    LineNumberCorrect
