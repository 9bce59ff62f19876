SPECIFICATION FairSpec
CONSTANTS
    Files <- LoaderFiles
    Names <- LoaderNames
    NoFile = NoFile
    Declares <- LoaderDeclares
    Refers <- LoaderRefers
    Includes <- LoaderIncludes
    Candidates <- LoaderCandidates
    Readable = {"top", "cell", "prim", "a0", "a1", "b1", "c1", "d1", "e1", "f1", "hdr"}
    Workers = {w1, w2}
    MinFilesForThreading = 2
    NoLibrary = NoLibrary
    NoUnit = NoUnit
    NoTask = NoTask
    Calls <- LoaderCalls
    Maps <- LoaderMaps
    RootMaps = {"m1", "m3"}
    OptionChoices <- LoaderOptions
    MaxCalls = 3
    Searching = TRUE
INVARIANT BestLibrary
INVARIANT RecursionReported
INVARIANT EveryFileOnce
INVARIANT UnracedTiesReported
PROPERTY LoadsInOrder
PROPERTY LoadingEnds
