------------------------------ MODULE SourceLoader ------------------------------
(***************************************************************************)
(* slang::driver::SourceLoader: files are added with libraries and units,  *)
(* then loaded and parsed, then files of missing names are searched.       *)
(*                                                                         *)
(* phase      "add", "parse" (the pool loads the entries), "arrange",      *)
(*            "search", "find", "batch" (the pool parses the files found), *)
(*            "commit", "done"; "loaded" after loadSources                 *)
(* called     the calls of add... made so far                              *)
(* entries    fileEntries, one per path                                    *)
(* errors     the vector errors                                            *)
(* results    loadResults; the tasks of the pool fill it                   *)
(* task       worker -> the entry it loads and how far it is               *)
(* trees      the syntax trees                                             *)
(* cached     files in the cache of the source manager                     *)
(* known, missing, worklist, batch   the locals of loadTrees               *)
(* options    SourceOptions                                                *)
(***************************************************************************)
EXTENDS SourceTrees

CONSTANTS
    Workers,                \* threads of the pool; none: no pool
    MinFilesForThreading,
    NoLibrary, NoUnit, NoTask,
    Calls,          \* id -> call of addFiles, addLibraryFiles, addSeparateUnit, addBuffer
    Maps,           \* library map files: map -> sequence of members
    RootMaps,       \* maps given to addLibraryMaps
    OptionChoices,  \* SourceOptions the driver passes
    MaxCalls,       \* bound: calls that add files
    Searching       \* are there search directories?

ASSUME LoaderOK ==
    /\ MinFilesForThreading \in Nat /\ MaxCalls \in Nat
    /\ Searching \in BOOLEAN
    /\ ~Searching => \A n \in Names : Candidates[n] = <<>>
    /\ RootMaps \subseteq DOMAIN Maps
    /\ \A o \in OptionChoices : o.librariesInheritMacros => o.singleUnit

\* What a pattern matches under one prefix.
Globs == [found : {FALSE}] \cup [found : {TRUE}, files : Seq(Files), rank : Nat]

ASSUME CallsOK ==
    /\ RootMaps \cap DOMAIN Calls = {}
    /\ \A c \in DOMAIN Calls : Calls[c].globs \in Seq(Globs)
    /\ IsFiniteSet(DOMAIN Maps)
    /\ \A map \in DOMAIN Maps :
           /\ Maps[map] \in Seq(ToSet(Maps[map]))
           /\ \A member \in ToSet(Maps[map]) :
                  \/ member.kind = "include" /\ member.map \in DOMAIN Maps
                  \/ member.kind = "library" /\ member.call.globs \in Seq(Globs)

VARIABLES phase, called, entries, errors, results, task, trees, cached,
          known, missing, worklist, batch, options

searchVars == <<known, missing, worklist, batch>>
vars == <<phase, called, entries, errors, results, task, trees, cached,
          known, missing, worklist, batch, options>>

Init ==
    /\ phase = "add"
    /\ called = {}
    /\ entries = <<>> /\ errors = <<>> /\ results = <<>>
    /\ task = [w \in Workers |-> NoTask]
    /\ trees = <<>> /\ cached = {}
    /\ known = {} /\ missing = {} /\ worklist = <<>> /\ batch = <<>>
    /\ options \in OptionChoices
-----------------------------------------------------------------------------
(***************************************************************************)
(* Adding files.  A call names a library, a unit or neither; its globs are *)
(* what the pattern matches as given and then under each directory prefix. *)
(***************************************************************************)
Matches(call) ==
    LET k == SelectInSeq(call.globs, LAMBDA g : g.found)
    IN  IF k = 0 THEN [found |-> FALSE] ELSE call.globs[k]

MultipleUnits(file) == [kind |-> "units", file |-> file]
MultipleLibraries(entry) ==
    [kind |-> "libraries", file |-> entry.path, first |-> entry.library, second |-> entry.secondLib]
CannotRead(file) == [kind |-> "unreadable", file |-> file]

\* Mutant: a stronger claim leaves the old tie in place.
ReconsiderKeepsTie(entry, call, rank) ==
    LET both == [entry EXCEPT !.isLibraryFile = @ /\ call.isLibraryFile]
    IN  IF call.library = NoLibrary THEN both
        ELSE IF entry.library = NoLibrary \/ rank < entry.libraryRank
          THEN [both EXCEPT !.library = call.library, !.libraryRank = rank]
        ELSE IF rank = entry.libraryRank THEN [both EXCEPT !.secondLib = call.library]
        ELSE both

\* A file that is listed already keeps its unit; the library of best rank gets it.
Reconsider(entry, call, rank) ==
    LET both == [entry EXCEPT !.isLibraryFile = @ /\ call.isLibraryFile]
    IN  IF call.library = NoLibrary THEN both
        ELSE IF entry.library = NoLibrary \/ rank < entry.libraryRank
          THEN [both EXCEPT !.library = call.library, !.libraryRank = rank, !.secondLib = NoLibrary]
        ELSE IF rank = entry.libraryRank THEN [both EXCEPT !.secondLib = call.library]
        ELSE both

\* addFilesInternal on the list of entries and errors, for one path.
AddPath(list, path, call, rank) ==
    LET k == SelectInSeq(list.entries, LAMBDA e : e.path = path)
    IN  IF k = 0
          THEN [list EXCEPT !.entries = Append(@,
                  [path |-> path, library |-> call.library, secondLib |-> NoLibrary,
                   unit |-> call.unit, libraryRank |-> rank,
                   isLibraryFile |-> call.isLibraryFile])]
          ELSE IF call.unit # NoUnit \/ list.entries[k].unit # NoUnit
                 THEN [list EXCEPT !.errors = Append(@, MultipleUnits(path))]
                 ELSE [list EXCEPT !.entries[k] = Reconsider(@, call, rank)]

AddFilesInternal(list, call) ==
    LET glob == Matches(call)
    IN  IF ~glob.found
          THEN [list EXCEPT !.errors = Append(@, [kind |-> "nomatch", call |-> call])]
          ELSE FoldLeft(LAMBDA l, path : AddPath(l, path, call, glob.rank), list, glob.files)

\* addFiles, addLibraryFiles, and one pattern of addSeparateUnit.
AddFiles ==
    /\ phase = "add" /\ Cardinality(called) < MaxCalls
    /\ \E c \in DOMAIN Calls \ called :
           LET list == AddFilesInternal([entries |-> entries, errors |-> errors], Calls[c])
           IN  /\ called' = called \cup {c}
               /\ entries' = list.entries
               /\ errors' = list.errors
    /\ UNCHANGED <<phase, results, task, trees, cached, searchVars, options>>

\* Mutant: a map is never forgotten, so two includes of it side by side are refused too.
AddMapsOnce(root) ==
    LET read[map \in DOMAIN Maps, seenMaps \in SUBSET DOMAIN Maps] ==
            IF map \in seenMaps THEN <<[kind |-> "recursive", map |-> map]>>
            ELSE FlattenSeq([k \in DOMAIN Maps[map] |->
                    LET member == Maps[map][k]
                        before == { Maps[map][j].map : j \in { i \in 1 .. k - 1 :
                                                                Maps[map][i].kind = "include" } }
                    IN  IF member.kind = "include"
                          THEN read[member.map, seenMaps \cup {map} \cup before]
                          ELSE <<member>>])
    IN  read[root, {}]

(***************************************************************************)
(* addLibraryMapsInternal: a map may include other maps, itself only with  *)
(* an error.  The set holds the maps that are being read.                  *)
(***************************************************************************)
AddMaps(root) ==
    LET read[call \in (DOMAIN Maps) \X (SUBSET DOMAIN Maps)] ==
            LET map == call[1]
                seenMaps == call[2]
            IN  IF map \in seenMaps THEN <<[kind |-> "recursive", map |-> map]>>
                ELSE FlattenSeq([k \in DOMAIN Maps[map] |->
                        LET member == Maps[map][k]
                        IN  IF member.kind = "include"
                              THEN read[<<member.map, seenMaps \cup {map}>>]
                              ELSE <<member>>])
    IN  read[<<root, {}>>]

AddLibraryMaps ==
    /\ phase = "add" /\ Cardinality(called) < MaxCalls
    /\ \E map \in RootMaps \ called :
           LET Do(list, member) ==
                   IF member.kind = "recursive" THEN [list EXCEPT !.errors = Append(@, member)]
                   ELSE AddFilesInternal(list, member.call)
               list == FoldLeft(Do, [entries |-> entries, errors |-> errors], AddMaps(map))
           IN  /\ called' = called \cup {map}
               /\ entries' = list.entries
               /\ errors' = list.errors
    /\ UNCHANGED <<phase, results, task, trees, cached, searchVars, options>>
-----------------------------------------------------------------------------
(***************************************************************************)
(* Loading and parsing the entries.                                        *)
(***************************************************************************)
\* The result of loadAndParse once the file has been read.
Classify(entry) ==
    CASE entry.path \notin Readable -> "error"
      [] entry.path \in Readable /\ entry.unit # NoUnit -> "unit"
      [] entry.path \in Readable /\ entry.unit = NoUnit
            /\ ~entry.isLibraryFile /\ options.singleUnit -> "single"
      [] entry.path \in Readable /\ entry.unit = NoUnit
            /\ (entry.isLibraryFile \/ ~options.singleUnit)
            -> IF options.librariesInheritMacros THEN "deferred" ELSE "tree"

Threaded == Workers # {} /\ Len(entries) >= MinFilesForThreading

StartThreaded ==
    /\ phase = "add" /\ Threaded
    /\ phase' = "parse"
    /\ results' = [k \in DOMAIN entries |-> "none"]
    /\ UNCHANGED <<called, entries, errors, task, trees, cached, searchVars, options>>

\* A worker takes an entry.  If two libraries claim it, it appends to errors first.
BeginLoad(w) ==
    /\ phase = "parse" /\ task[w] = NoTask
    /\ \E k \in DOMAIN entries :
           /\ results[k] = "none"
           /\ \A v \in Workers : task[v] # NoTask => task[v].entry # k
           /\ task' = [task EXCEPT ![w] =
                 [entry |-> k, at |-> IF entries[k].secondLib # NoLibrary THEN "append" ELSE "load",
                  size |-> Len(errors)]]
    /\ UNCHANGED <<phase, called, entries, errors, results, trees, cached, searchVars, options>>

\* The first n slots of errors.  Those past its end, when it was longer, hold some old report.
Slots(n) ==
    { [k \in 1 .. n |-> IF k <= Len(errors) THEN errors[k] ELSE old[k]] :
        old \in [Len(errors) + 1 .. n -> { MultipleLibraries(e) : e \in ToSet(entries) }] }

\* Mutant: the append is forgotten for files that are not library files.
EndAppendLibraryOnly(w) ==
    /\ phase = "parse" /\ task[w] # NoTask /\ task[w].at = "append"
    /\ IF entries[task[w].entry].isLibraryFile
         THEN \E slots \in Slots(task[w].size) :
                  errors' = Append(slots, MultipleLibraries(entries[task[w].entry]))
         ELSE errors' = errors
    /\ task' = [task EXCEPT ![w].at = "load"]
    /\ UNCHANGED <<phase, called, entries, results, trees, cached, searchVars, options>>

\* The end of emplace_back: what others appended since its beginning is overwritten.
EndAppend(w) ==
    /\ phase = "parse" /\ task[w] # NoTask /\ task[w].at = "append"
    /\ \E slots \in Slots(task[w].size) :
           errors' = Append(slots, MultipleLibraries(entries[task[w].entry]))
    /\ task' = [task EXCEPT ![w].at = "load"]
    /\ UNCHANGED <<phase, called, entries, results, trees, cached, searchVars, options>>

\* The file is read and, if nothing has to wait for another, parsed.
LoadAndParse(w) ==
    /\ phase = "parse" /\ task[w] # NoTask /\ task[w].at = "load"
    /\ results' = [results EXCEPT ![task[w].entry] = Classify(entries[task[w].entry])]
    /\ task' = [task EXCEPT ![w] = NoTask]
    /\ UNCHANGED <<phase, called, entries, errors, trees, cached, searchVars, options>>

WaitForLoads ==
    /\ phase = "parse"
    /\ \A k \in DOMAIN entries : results[k] # "none"
    /\ phase' = "arrange"
    /\ UNCHANGED <<called, entries, errors, results, task, trees, cached, searchVars, options>>

\* Without a pool, or with few files, the main thread does the same in a loop.
StartSequential ==
    /\ phase = "add" /\ ~Threaded
    /\ results' = [k \in DOMAIN entries |-> Classify(entries[k])]
    /\ errors' = errors \o FlattenSeq([k \in DOMAIN entries |->
           IF entries[k].secondLib # NoLibrary THEN <<MultipleLibraries(entries[k])>> ELSE <<>>])
    /\ phase' = "arrange"
    /\ UNCHANGED <<called, entries, task, trees, cached, searchVars, options>>
-----------------------------------------------------------------------------
(***************************************************************************)
(* handleLoadResult for every result in the order of the entries, then the *)
(* trees that had to wait.  The groups of libraries and units come out of  *)
(* hash maps, in any order.                                                *)
(***************************************************************************)
FilesWith(result, es) ==
    FlattenSeq([k \in DOMAIN entries |->
        IF results[k] = result /\ entries[k] \in es THEN <<entries[k].path>> ELSE <<>>])

ParsedFiles == FilesWith("tree", ToSet(entries))
DeferredFiles == FilesWith("deferred", ToSet(entries))
SingleFiles(library) == FilesWith("single", { e \in ToSet(entries) : e.library = library })
UnitFiles(unit) == FilesWith("unit", { e \in ToSet(entries) : e.unit = unit })
LibraryOf(unit) == CHOOSE l \in {NoLibrary} \cup { e.library : e \in ToSet(entries) } :
                      \A e \in ToSet(entries) : e.unit = unit => e.library = l

\* Do the trees after the single unit see its macros?
Inherits == SingleFiles(NoLibrary) # <<>>

IsLibraryFile(path) == \E e \in ToSet(entries) : e.path = path /\ e.isLibraryFile

Tree(files, library, inherits) ==
    [files |-> files, isLibraryUnit |-> library, inherits |-> inherits]

\* Mutant: files of a library in single-unit mode are left out.
ArrangeTreesNoLibraries(libraries, units) ==
    [k \in DOMAIN ParsedFiles |->
        Tree(<<ParsedFiles[k]>>, IsLibraryFile(ParsedFiles[k]) \/ options.onlyLint, FALSE)]
    \o (IF Inherits THEN <<Tree(SingleFiles(NoLibrary), options.onlyLint, FALSE)>> ELSE <<>>)
    \o [k \in DOMAIN units |->
           Tree(UnitFiles(units[k]), options.onlyLint \/ LibraryOf(units[k]) # NoLibrary, Inherits)]
    \o [k \in DOMAIN DeferredFiles |-> Tree(<<DeferredFiles[k]>>, TRUE, Inherits)]

ArrangeTrees(libraries, units) ==
    [k \in DOMAIN ParsedFiles |->
        Tree(<<ParsedFiles[k]>>, IsLibraryFile(ParsedFiles[k]) \/ options.onlyLint, FALSE)]
    \o (IF Inherits THEN <<Tree(SingleFiles(NoLibrary), options.onlyLint, FALSE)>> ELSE <<>>)
    \o [k \in DOMAIN libraries |-> Tree(SingleFiles(libraries[k]), TRUE, Inherits)]
    \o [k \in DOMAIN units |->
           Tree(UnitFiles(units[k]), options.onlyLint \/ LibraryOf(units[k]) # NoLibrary, Inherits)]
    \o [k \in DOMAIN DeferredFiles |-> Tree(<<DeferredFiles[k]>>, TRUE, Inherits)]

Orders(S) == { s \in [1 .. Cardinality(S) -> S] : IsInjective(s) }

\* The groups that have files to parse.
Libraries == { e.library : e \in { x \in ToSet(entries) :
                                     x.library # NoLibrary /\ SingleFiles(x.library) # <<>> } }
Units == { e.unit : e \in { x \in ToSet(entries) : x.unit # NoUnit /\ UnitFiles(x.unit) # <<>> } }

Arrangements == { ArrangeTrees(libraries, units) :
                    libraries \in Orders(Libraries), units \in Orders(Units) }

\* The first pass of loadTrees: all trees are known before the first is asked what it misses.
FirstLoads(ts) ==
    LET Missed(k) == NewNames(ts[k], Known(ts) \cup
                        UNION { ToSet(ReferredBy(ts[j])) : j \in 1 .. k - 1 })
    IN  FlattenSeq([k \in DOMAIN ts |->
            [n \in DOMAIN Missed(k) |-> [name |-> Missed(k)[n], file |-> NoFile]]])

(***************************************************************************)
(* All trees of listed files are there; loadTrees indexes them if there    *)
(* are directories to search.                                              *)
(***************************************************************************)
Arrange ==
    /\ phase = "arrange"
    /\ \E ts \in Arrangements :
           /\ trees' = ts
           /\ cached' = { e.path : e \in ToSet(entries) } \cup UNION { CachedBy(t) : t \in ToSet(ts) }
           /\ IF Searching
                THEN /\ known' = Known(ts) /\ missing' = Missing(ts)
                     /\ worklist' = FirstLoads(ts)
                     /\ phase' = "search"
                ELSE /\ phase' = "done"
                     /\ UNCHANGED <<known, missing, worklist>>
    /\ errors' = errors \o LET bad == FilesWith("error", ToSet(entries))
                           IN  [k \in DOMAIN bad |-> CannotRead(bad[k])]
    /\ UNCHANGED <<called, entries, results, task, batch, options>>
-----------------------------------------------------------------------------
(***************************************************************************)
(* loadTrees: the worklist is a stack of missing names, some with a tree   *)
(* the pool has parsed already.                                            *)
(***************************************************************************)
\* What a file adds to the stack: names nobody declares and nobody missed before.
NewLoads(file) ==
    LET tree == Tree(<<file>>, TRUE, Inherits)
        new == NewNames(tree, known \cup DeclaredBy(tree) \cup missing)
    IN  [k \in DOMAIN new |-> [name |-> new[k], file |-> NoFile]]

\* addTree: what the tree declares is known, what it misses goes on the stack.
AddTree(file, stack) ==
    LET tree == Tree(<<file>>, TRUE, Inherits)
    IN  /\ trees' = Append(trees, tree)
        /\ known' = known \cup DeclaredBy(tree)
        /\ missing' = (missing \ DeclaredBy(tree)) \cup { l.name : l \in ToSet(NewLoads(file)) }
        /\ worklist' = stack \o NewLoads(file)

\* Mutant: a name that is known already stays on the stack.
SearchOneKeeps ==
    /\ phase = "search" /\ worklist # <<>>
    /\ Workers = {} \/ Len(worklist) < MinFilesForThreading
    /\ LET load == Last(worklist)
           file == IF load.file # NoFile THEN load.file ELSE FindBuffer(load.name, cached)
       IN  IF load.name \in known \/ file = NoFile
             THEN UNCHANGED <<worklist, trees, cached, known, missing>>
             ELSE AddTree(file, Front(worklist)) /\ cached' = cached \cup {file} \cup Includes[file]
    /\ UNCHANGED <<phase, called, entries, errors, results, task, batch, options>>

SearchOne ==
    /\ phase = "search" /\ worklist # <<>>
    /\ Workers = {} \/ Len(worklist) < MinFilesForThreading
    /\ LET load == Last(worklist)
           file == IF load.file # NoFile THEN load.file ELSE FindBuffer(load.name, cached)
       IN  IF load.name \in known \/ file = NoFile
             THEN worklist' = Front(worklist) /\ UNCHANGED <<trees, cached, known, missing>>
             ELSE AddTree(file, Front(worklist)) /\ cached' = cached \cup {file} \cup Includes[file]
    /\ UNCHANGED <<phase, called, entries, errors, results, task, batch, options>>

\* The worklist becomes the batch; all its files are looked for before any is parsed.
StartBatch ==
    /\ phase = "search" /\ Workers # {} /\ worklist # <<>>
    /\ Len(worklist) >= MinFilesForThreading
    /\ phase' = "find"
    /\ UNCHANGED <<called, entries, errors, results, task, trees, cached, searchVars, options>>

FindNext ==
    /\ phase = "find" /\ worklist # <<>>
    /\ LET load == Head(worklist)
           file == IF load.file # NoFile THEN load.file
                   ELSE IF load.name \in known THEN NoFile ELSE FindBuffer(load.name, cached)
       IN  /\ batch' = Append(batch, [name |-> load.name, file |-> file,
                                      parsed |-> load.file # NoFile])
           /\ cached' = cached \cup ({file} \ {NoFile})
    /\ worklist' = Tail(worklist)
    /\ phase' = IF Len(worklist) = 1 THEN "batch" ELSE "find"
    /\ UNCHANGED <<called, entries, errors, results, task, trees, known, missing, options>>

\* Any thread of the pool parses any file of the batch.
ParseFound ==
    /\ phase = "batch"
    /\ \E k \in DOMAIN batch :
           /\ batch[k].file # NoFile /\ ~batch[k].parsed
           /\ batch' = [batch EXCEPT ![k].parsed = TRUE]
           /\ cached' = cached \cup Includes[batch[k].file]
    /\ UNCHANGED <<phase, called, entries, errors, results, task, trees,
                   known, missing, worklist, options>>

WaitForBatch ==
    /\ phase = "batch"
    /\ \A k \in DOMAIN batch : batch[k].file # NoFile => batch[k].parsed
    /\ phase' = "commit"
    /\ UNCHANGED <<called, entries, errors, results, task, trees, cached, searchVars, options>>

\* Mutant: what is left of the batch goes back upside down.
StillWantedReversed(count, names) ==
    Reverse(FlattenSeq([k \in 1 .. count |->
        IF batch[k].parsed /\ batch[k].name \notin names
          THEN <<[name |-> batch[k].name, file |-> batch[k].file]>> ELSE <<>>]))

\* The parsed trees among the first loads of the batch, of names nobody declares.
StillWanted(count, names) ==
    FlattenSeq([k \in 1 .. count |->
        IF batch[k].parsed /\ batch[k].name \notin names
          THEN <<[name |-> batch[k].name, file |-> batch[k].file]>> ELSE <<>>])

(***************************************************************************)
(* One tree of the batch is added, the last that is still wanted.  If it   *)
(* misses names, they go above what is left of the batch.                  *)
(***************************************************************************)
Commit ==
    /\ phase = "commit"
    /\ LET k == SelectLastInSeq(batch, LAMBDA l : l.parsed /\ l.name \notin known)
       IN  IF k = 0
             THEN /\ batch' = <<>> /\ phase' = "search"
                  /\ UNCHANGED <<trees, known, missing, worklist>>
             ELSE IF NewLoads(batch[k].file) = <<>>
             THEN /\ AddTree(batch[k].file, <<>>)
                  /\ batch' = SubSeq(batch, 1, k - 1)
                  /\ UNCHANGED phase
             ELSE /\ AddTree(batch[k].file,
                             StillWanted(k - 1, known \cup Declares[batch[k].file]))
                  /\ batch' = <<>> /\ phase' = "search"
    /\ UNCHANGED <<called, entries, errors, results, task, cached, options>>

FinishSearch ==
    /\ phase = "search" /\ worklist = <<>>
    /\ phase' = "done"
    /\ UNCHANGED <<called, entries, errors, results, task, trees, cached, searchVars, options>>

\* loadSources: the files are read and not parsed.
LoadSources ==
    /\ phase = "add"
    /\ errors' = errors \o FlattenSeq([k \in DOMAIN entries |->
           IF entries[k].path \notin Readable THEN <<CannotRead(entries[k].path)>> ELSE <<>>])
    /\ cached' = { e.path : e \in ToSet(entries) }
    /\ phase' = "loaded"
    /\ UNCHANGED <<called, entries, results, task, trees, searchVars, options>>

Terminated == phase \in {"done", "loaded"} /\ UNCHANGED vars

Work ==
    \/ \E w \in Workers : BeginLoad(w) \/ EndAppend(w) \/ LoadAndParse(w)
    \/ WaitForLoads \/ Arrange
    \/ SearchOne \/ StartBatch \/ FindNext \/ ParseFound \/ WaitForBatch \/ Commit \/ FinishSearch

Next == AddFiles \/ AddLibraryMaps \/ LoadSources \/ StartThreaded \/ StartSequential \/ Work
           \/ Terminated

Spec == Init /\ [][Next]_vars

\* The pool runs every task and the main thread goes on when nothing is left to wait for.
FairSpec == Spec /\ WF_vars(Work)
-----------------------------------------------------------------------------
(***************************************************************************)
(* However many threads load and parse, the trees are those one thread     *)
(* would have produced, in the same order: the batches of loadTrees keep   *)
(* the order of the stack.                                                 *)
(***************************************************************************)
Order == INSTANCE LoadOrder WITH
    pending <- LET stack == batch \o worklist
               IN  Sift([k \in DOMAIN stack |-> stack[k].name], Wanted(trees))

LoadsInOrder == Order!OrderSpec

\* The files a search may find.
SearchFiles == (UNION { ToSet(Candidates[n]) : n \in Names }) \cap Readable

(***************************************************************************)
(* A batch opens its files earlier than one thread would.  That makes no   *)
(* difference if no file may be found for two names, or is included by     *)
(* another that may be found.                                              *)
(***************************************************************************)
Independent ==
    \/ Workers = {}
    \/ /\ \A m, n \in Names :
             m # n => ToSet(Candidates[m]) \cap ToSet(Candidates[n]) \cap Readable = {}
       /\ \A f \in SearchFiles : Includes[f] \cap SearchFiles \subseteq {f}

(***************************************************************************)
(* A call with a library and no unit claims what its pattern matches, a    *)
(* file that links let it match twice as two.                              *)
(***************************************************************************)
ClaimsBy(id, k, call) ==
    IF call.library = NoLibrary \/ call.unit # NoUnit \/ ~Matches(call).found THEN {}
    ELSE { <<id, k, call, j>> : j \in DOMAIN Matches(call).files }

ClaimsOfMap(map) ==
    UNION { ClaimsBy(map, k, AddMaps(map)[k].call) :
              k \in { j \in DOMAIN AddMaps(map) : AddMaps(map)[j].kind = "library" } }

ClaimsOfCalls(ids) == UNION { ClaimsBy(c, 1, Calls[c]) : c \in ids }
ClaimsOfMaps(maps) == UNION { ClaimsOfMap(map) : map \in maps }

ClaimsMade == ClaimsOfCalls(called \ RootMaps) \cup ClaimsOfMaps(called \cap RootMaps)

ClaimsOn(path) == { c \in ClaimsMade : Matches(c[3]).files[c[4]] = path }

(***************************************************************************)
(* Whatever the order in which files were added, the library of a file is  *)
(* one whose pattern ranks best among those that claim it, and a tie is    *)
(* remembered exactly if two claims of that rank were made.                *)
(***************************************************************************)
BestLibrary ==
    \A e \in ToSet(entries) :
        e.unit = NoUnit =>
            LET claims == ClaimsOn(e.path)
                best == { c \in claims : \A d \in claims : Matches(c[3]).rank <= Matches(d[3]).rank }
            IN  /\ (e.library = NoLibrary) = (claims = {})
                /\ claims # {} => \E c \in best : c[3].library = e.library
                /\ (e.secondLib # NoLibrary) = (Cardinality(best) > 1)

(***************************************************************************)
(* A library map that includes itself, directly or through others, is an   *)
(* error; maps that are merely included twice are not.                     *)
(***************************************************************************)
IncludedBy(map) == { m.map : m \in { x \in ToSet(Maps[map]) : x.kind = "include" } }

ReachedFrom(maps) ==
    { map \in DOMAIN Maps : \A S \in SUBSET DOMAIN Maps :
          maps \subseteq S /\ (\A m \in S : IncludedBy(m) \subseteq S) => map \in S }

RecursionReported ==
    (\E err \in ToSet(errors) : err.kind = "recursive") =
    (\E map \in ReachedFrom(called \cap RootMaps) : map \in ReachedFrom(IncludedBy(map)))

(***************************************************************************)
(* loadAndParseSources parses every listed file that can be read exactly   *)
(* once, on its own or with its unit or library, and says which cannot be  *)
(* read; no searched file was parsed before.                               *)
(***************************************************************************)
EveryFileOnce ==
    phase \in {"search", "find", "batch", "commit", "done"} =>
        LET files == FlattenSeq([k \in DOMAIN trees |-> trees[k].files])
        IN  /\ IsInjective(files)
            /\ \A e \in ToSet(entries) :
                   IF e.path \in Readable THEN e.path \in ToSet(files)
                   ELSE CannotRead(e.path) \in ToSet(errors)

(***************************************************************************)
(* A file that two libraries claim is reported.  The pool threads append   *)
(* to errors without a lock, so of two such files one may be lost; one     *)
(* alone never is, and what was in errors before stays.                    *)
(***************************************************************************)
UnracedTiesReported ==
    LET tied == { e \in ToSet(entries) : e.secondLib # NoLibrary }
    IN  phase \in {"arrange", "search", "find", "batch", "commit", "done"} /\
        (~Threaded \/ Cardinality(tied) < 2) =>
            \A e \in tied : MultipleLibraries(e) \in ToSet(errors)

(***************************************************************************)
(* Loading ends, although the searched files refer to each other.          *)
(***************************************************************************)
LoadingEnds == phase = "arrange" ~> phase = "done"
===============================================================================
