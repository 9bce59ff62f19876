# Verification of slang's shared state

slang is a SystemVerilog compiler written in C++. This directory holds TLA+
models of the parts of it that several threads share and of the stateful front
end (source loader, preprocessor, diagnostic engine), the TLC configurations that
check them on small instances, and TLAPS proofs of the properties that should
hold for every design and any number of threads.

Contents: [inventory](#inventory), [modules](#modules-and-how-they-correspond-to-the-code),
[runs](#runs), [bounds](#bounds-and-why-they-are-enough), [fairness](#fairness),
[where code and comments disagree](#where-code-and-comments-disagree),
[proofs](#proofs), [what is only model-checked](#what-is-only-model-checked),
[what is not modelled](#what-is-not-modelled), [plan](#plan).

## Inventory

A run of the compiler is a pipeline. `driver::SourceLoader` opens files through
`SourceManager` and parses them, possibly on a thread pool; the `Preprocessor`
opens headers and records macro expansions and `` `line `` directives in the same
`SourceManager`; `ast::Compilation` elaborates the syntax trees; and
`analysis::AnalysisManager` walks the frozen design, again possibly on a thread
pool, and feeds `analysis::DriverTracker`. `DiagnosticEngine` turns what all of
them report into text, asking `SourceManager` for file names and line numbers.

| component | state | operations | interacts with |
|---|---|---|---|
| SourceManager (`source/text/SourceManager.cpp`) | `lookupCache` (path -> text or error), `bufferEntries` (BufferID -> file or macro expansion), `lineOffsets` per file, `` `line `` directives per buffer, include directories; one `shared_mutex` | readSource, readHeader, assignText, assignBuffer, createExpansionLoc, addLineDirective, getLineNumber, getFileName, diagnostic directives, addUserDirectories ... | called by every thread that loads, parses or reports |
| DriverTracker (`source/analysis/DriverTracker.cpp`) | three concurrent maps: `symbolDrivers`, `instanceMap`, `indirectDrivers` | add (five overloads), noteNonCanonicalInstance, propagateIndirectDrivers, getDrivers | called by the analysis tasks; lookups in the frozen AST |
| AnalysisManager (`source/analysis/AnalysisManager.cpp`, `AnalysisScopeVisitor.h`, `AnalyzedProcedure.cpp`) | `analyzedScopes`, `analyzedSubroutines`, `visitedNonProcCalls`, `analyzedAssertions`, `pendingException`, the queue of the pool | analyze, analyzeScopeAsync, analyzeSubroutine, getFunctionValUses, getTaskTimingControls, wait | starts tasks, calls listeners and DriverTracker |
| SourceLoader (`source/driver/SourceLoader.cpp`) | list of files with ranks, units, library maps, the unguarded vector of errors, loaded trees; the stack of missing names in `loadTrees` | addFiles, addLibraryFiles, addSeparateUnit, addLibraryMaps, addSearchDirectories, loadSources, loadAndParseSources | SourceManager, thread pool |
| DiagnosticEngine, WaiverManager | severity tables and flags, options and pragmas per buffer, counts, error limit and over-limit flag, clients, waiver rules and what happened to each | issue, setSeverity, setWarningOptions, setBufferWarningOptions, setMappingsFromPragmas, clearMappings, clearCounts, loadFromFile, shouldWaive | SourceManager |
| Preprocessor | macro table, source stack, include depth, `` `ifdef `` stack, header guards, expansion being played and the paused ones, keyword versions | next, pushSource, popSource, one handler per directive | SourceManager, lexer |
| Compilation and elaboration | syntax trees, definitions, instance cache, defparam rounds, frozen flag | addSyntaxTree, getRoot, getSemanticDiagnostics, freeze | everything in `ast/` |
| Constant evaluation | EvalContext frames and limits, SVInt, ConstantValue | eval, four-state arithmetic | expressions |
| Lexer, parser, expressions, statements, types, lookup | the syntax and semantic trees | parse, bind | Compilation |
| IntervalMap, ConcurrentMap, ThreadPool, Glob, CommandLine | containers and utilities | | used by the above |
| Tools and bindings | none of their own | | front ends |

What is hard here:

* *Concurrency.* `SourceManager` drops its lock in the middle of an operation
  three times: while a file is read, between the check and the insertion of
  `assignBuffer`, and in `getRawLineNumber` to trade the read lock for the write
  lock. `DriverTracker` looks at one element of one map at a time and acts on
  what it saw afterwards. `AnalysisManager` lets two threads analyze one
  subroutine and decides afterwards whose result counts.
* *Order.* Analysis tasks run in any order. The drivers a design has, and whether
  a conflict is diagnosed, must not depend on it. (Which of several conflicts is
  reported may, and does.)
* *Failure.* Files that cannot be read, exceptions thrown by analysis tasks, a
  bad entry in the middle of a waiver file.
* *Stacks that must stay in step.* The preprocessor keeps six of them (files,
  header guards, branches, keyword versions, the expansion being played, the
  paused ones); each handler pushes to or pops from some.
* *Termination.* Header searches, macro expansion chains, walks over recursive
  functions and tasks, propagation through connected ports.

What makes each component correct:

* SourceManager: one text per file; a header means the same file to every
  thread; identifiers and pointers handed out stay valid; line numbers are right.
* DriverTracker: the final set of drivers is the one the design implies; every
  conflict is diagnosed and nothing else; propagation ends.
* AnalysisManager: everything reachable is analyzed and announced exactly once;
  callers get the drivers of what they call; exceptions are not lost; it ends.
* SourceLoader: the set and order of loaded files does not depend on the number
  of threads; no listed file is lost or parsed twice; a file gets the library
  that claims it best; the search for missing names ends.
* DiagnosticEngine: counts match what was reported; nothing follows the limit;
  severities are what the manual says; reasons given for unused waivers are true.
* Preprocessor: the stacks stay in step; live text and only live text gets
  through; a skipped header would have added nothing; it ends.

`PROJECT.json` lists the hazards line by line under `hazards`.

## Modules and how they correspond to the code

**SourceText** holds the pure text algorithms of SourceManager.cpp:
`ComputeLineOffsets` (`computeLineOffsets`), `LowerBound` (the halving search of
the standard library, so that its result on an unsorted vector is the real one),
`RawLine` (the tail of `getRawLineNumber`), `PreviousLineDirective`,
`NumberedLine`. Characters are abstracted to "n", "r" and "c" (anything else).
Beside them stand declarative definitions (`LineOf`, `IsGoverning`).

**SourceManager** has one action per critical section of the mutex.
`lookupCache`, `lineOffsets` (`FileData::lineOffsets`, which all buffers of a
file share) and `bufferEntries` are the members of the class; `pc`, `call` and
`ret` are the position, the arguments and the last result of each thread.
`ReadSource` starts readSource or readHeader, whose list of candidate paths is
`HeaderCandidates` (`IncDirFirst` is the member `incDirFirst`); `Lookup`,
`ReadFile`, `InsertError` and `CacheBuffer` are the critical sections of
openCached and cacheBuffer, `NextCandidate` the loop around them. `GetLineNumber`
and `GetFileName` go through `RawLineNumber`, which either answers or leaves the
lock for `ComputeLocked` and `Relock`. Texts are values; how a file's text can be
read at any moment is the constant `Outcomes`, so files may change, and may fail,
between two reads. `LineOffsets`, an operator constant, is
`ComputeLineOffsets` in the runs and any nonempty sequence in the proofs. A
failed `SLANG_ASSERT(fd)` is the position "crashed".

**DriverTracker** has one action per visit of a map element. A design enters as
tables: `Symbols`, `AddCalls` (the calls the analysis makes), `BodyOf` (the
canonical body of each other instance), `Retarget` (what `retargetIfacePort`, or
`Scope::find` for a ref port, finds in another instance), `Expand` (what
`ValuePath::expandIndirectRefs` finds behind a modport or ref port), `ProcedureKind`
and `Subroutines` (what a scope is). `InferredSource` is the constructor of
ValueDriver: the source of a driver is that of the symbol that contains it. A side
effect (`SideEffect`) is contained by its instance and keeps the source of its
procedure, as the copying overload of `create` does; when it is expanded behind a
port (`ExpandIndirectRefs`) the source is inferred again, from the instance, and is
`Other`. `AddDriver`
is the body of addDriver under the visit, `Reports` its loop over the overlapping
drivers with the early exit at the first error, `OverlapCode` is `handleOverlap`.
The interval map is a set of drivers with bounds. Where two drivers start at the
same place, the order in which the map yields them is left open.

**AnalysisManager** models `analyze` on the main thread, tasks of a pool as
queue and workers, and inside of a task a stack of calls in progress: the
visitor of a scope, `analyzeSubroutine`, the walks of
`getFunctionValUses` (`VisitCall`, `CollectDrivers`) and `getTaskTimingControls`
(`VisitTask`, `CollectControls`). `Workers = {}` is the manager without a pool,
where the same actions run inline on the main thread. The counters `driverAdds`,
`procCalls`, `scopeCalls` and `instanceNotes` count calls of DriverTracker and of
the listeners. The pool itself is external (`TakeTask`, and the guard of `Wait`).

Which members throw is the rigid variable `throwing`, so that one run covers
every choice (`MemberThrows`); `pooled` says whether there is a pool.

**SourceTrees** holds what the loader knows of a file: the names it declares and
refers to, what it includes, and the candidates `findBuffer` tries for a name.
**LoadOrder** is the abstract specification: listed files first, then the file of
the name missed last, one at a time, with no worklist, no batches and no cache
beyond what the trees themselves imply.

**SourceLoader** models the calls that add files (`AddPath` is the loop body of
addFilesInternal, `AddMaps` the recursion over library maps), then
loadAndParseSources: with a pool `BeginLoad`, `EndAppend`, `LoadAndParse` on each
worker, where an `emplace_back` to `errors` has a beginning and an end and what
others appended in between is overwritten (`Slots`: a report behind the end of a
vector that another worker has shortened reappears as it was or as another); without one `StartSequential`. `Arrange`
is handleLoadResult and the parsing of what had to wait; the groups that come out
of hash maps are in any order (`Arrangements`). `SearchOne` is the loop of loadTrees without a
batch; `StartBatch`, `FindNext`, `ParseFound`, `WaitForBatch` and `Commit` are the
loop with one. The refinement maps `pending` to the batch and the worklist, less
the names that are known or have no file.

**DiagnosticOptions** holds the pure part of the diagnostic engine: the passes of
`parseWarningOptions`, the mappings made from `` `pragma diagnostic ``, the lookup
of `getSeverity`. **DiagnosticEngine** has one action per setter; `Issue` starts a
call of issue, `IssueNote` the nested call for the next note, `EndIssue` counts
what was issued, so a diagnostic is counted after its notes as in the code.
Pragmas and waiver files are read as the driver does: pragmas once, waivers before
the first diagnostic.

**Preprocessor** takes one item (a token or a directive) per step: from the
expansion being played, or else from the file on top. `Skip` is the loop of
parseBranchDirective over the items of a branch that is not taken, `PutBack` its
exit. `PushSource` and `EndOfFile` are pushSource and popSource. A unit pushes all
of its files at once, as SyntaxTree::create does. Macros have no arguments;
`ExpandReplacementList` expands what is defined when the macro is used.

**MCSourceManager, MCDriverTracker, MCAnalysisManager, MCSourceLoader,
MCDiagnosticEngine, MCPreprocessor** define the small instances.

**SourceTextProofs, SourceManagerProofs, DriverTrackerProofs,
AnalysisManagerProofs, SourceLoaderProofs, LoadOrderProofs,
DiagnosticEngineProofs, PreprocessorProofs** hold the proofs. SourceManagerProofs
has types, pointers, the cache and the searches, then locations and lines, which
stand on SourceTextProofs. LoadOrderProofs has the refinement of SourceLoader.
DiagnosticEngineProofs extends MCDiagnosticEngine, where OptionsFollowManual and
PragmasNest are stated.

Definitions whose comment begins with "Mutant" are plausible mistakes in the
code. Each stands before the definition it would replace; the list in
`PROJECT.json` says which property then fails.

## Runs

| run | instance | properties | what it shows |
|---|---|---|---|
| sm_open | 2 threads, 4 paths, 2 texts, 2 buffers | TypeOK, NoNullFileData, BufferTextIsCached, FirstMatchWins, SearchesAgree, CallsReturn | two threads that race to open the same files agree on the file and on its text, although the file changes between their reads; every call returns |
| sm_lines | 2 threads, 1 file with 2 possible texts, 3 buffers, 1 directive each; all texts up to 5 characters and all lists of 3 directives on 3 lines | LinesExact, NoStaleInfo, ExpansionsResolve, UnracedLineCorrect, EntriesAreFinal | identifiers, pointers and chains of expansions stay valid; a line number is wrong only if the offsets were computed twice; the line searches agree with declarative definitions, `\r\n` pairs, ends of text and repeated directives included |
| sm_line_race | the same, no directives | LineNumberCorrect (violated) | see below |
| dt_shared_bodies | 2 threads, 3 calls of add with 23 drivers, 3 non-canonical instances of 2 bodies, 16 symbols | TypeOK, PairsMeetOnce, ConflictsAreReported, FinalDriversImplied, InstancesDrive, AnalysisEnds | side effects reach every instance exactly once in every interleaving; no order of additions hides a conflict or invents one, for each kind of net, variable, port and clocking variable, and for side effects that came through a port and lost their source; the result does not depend on the order; propagation ends although a ref port expands to itself |
| dt_nested_sharing | a shared body inside of a shared body | InstancesDrive (violated) | see below |
| am_pool | with 2 workers and without a pool; 5 scopes, 2 mutually recursive functions, 3 tasks; nothing, a recursive function, or a procedure and a nettype throw | EverythingAnalyzed, SubroutinesOnce, CalleesInlined, TaskDelaysFound, SequentialReports, AnalysisTerminates | analyze() ends, and only when everything has been analyzed and announced once; callers get the drivers and delays of all they reach, whoever analyzed it; an exception surfaces in every schedule; without a pool nettypes are reported and assertions recorded once |
| am_nettype_race | 2 workers, 2 scopes | NetTypesReported (violated) | see below |
| source_loader | 2 workers and few or many files; 5 calls and 2 root maps of which 3 are made; 8 names, 7 files to search | BestLibrary, RecursionReported, EveryFileOnce, UnracedTiesReported, LoadsInOrder, LoadingEnds | the parallel loader implements LoadOrder; ranks and ties come out right in any order of calls; no file is lost or parsed twice; two files of one tie may race, one never does; the search ends |
| diagnostics | 5 codes, 2 files, 7 diagnostics of which 3 are notes, 2 waiver files; all command lines of 3 options, all lists of 4 pragmas | CountsMatch, LimitRespected, WaiverReasonsTrue, OptionsFollowManual, PragmasNest | counts are what clients were told, with notes remapped to errors and suppressed and waived diagnostics; nothing is reported after TooManyErrors; reasons for unused waivers are true |
| preprocessor | all main files of 4 items out of 12, 7 headers, 7 macros, include depth 2 | StacksAligned, TextIsLive, SkipsNothingLive, KeywordsScoped, FullyExpanded, PreprocessingEnds | the stacks stay in step in every mix of includes in macros, branches across files and recursion |
| pp_keywords | a unit of 3 files | KeywordsScoped (violated) | see below |
| pp_nested_macro | one macro that defines and uses another | FullyExpanded (violated) | see below |

`FinalDriversImplied` compares the tracker with a closure computed from the
tables (`ImpliedItems`): which drivers exist does not depend on the schedule.
`InstancesDrive` compares it with `Elaboration`, what would drive what if no body
were shared: here sharing is an optimisation and must not be observable.
`TextIsLive` compares `skipping` with `nesting`, a history of every conditional
directive met, skipped ones too, and whether its condition held.

LinesExact, OptionsFollowManual and PragmasNest are about functions of their
arguments only. They range over all arguments up to a bound and are looked at in
the states where nothing has happened yet (`NothingOpen`, `Untouched`).

## Bounds and why they are enough

* `Threads`, `Workers`: two threads are enough for every race the code can lose,
  since each handover is between one thread that looked and one that changed
  something.
* `MaxEntries` (buffers): 2 in sm_open, where a second buffer of a file can
  exist; 3 in sm_lines, so that a macro can be expanded inside of an expansion.
* `MaxDirectives`: 1 in sm_lines, where only their presence matters; what several
  of them do is the subject of LinesExact.
* `MaxLength = 5` holds two line breaks of two characters and a character before,
  between or behind them; `MaxLine = 3` with 3 directives gives directives before, on
  and after a line, and two on one line.
* `MaxDepth` (DriverTracker): the longest chain of ports and instances that
  `ImpliedItems` follows. 4 is more than the design has; the assumption `DepthOK`
  says so (one step more adds nothing), and TLC evaluates it on every run.
* `MinFilesForThreading = 2` (SourceLoader; 4 in the code): a batch of two already
  has an older load that goes back under newer ones. `MaxCalls = 3`: two patterns
  that tie and a third that wins or another unit. The searched files have a header
  that is cached before it is searched, a file that declares two names, two that
  refer to each other, and a name without a file.
* `MaxSettings = 2`, `MaxIssued = 3`, limits 0 to 2: the limit is reached by
  separate diagnostics and inside of notes, with settings changed before and
  between. `MaxOptions = 3`: an option, what contradicts it, and -Werror.
  `MaxDirectives = 4`: two nested pushes with a setting, and pops without a push.
* `MaxMain = 4`, `MaxIncludeDepth = 2`: a header in a header, a branch around it, a
  macro defined before; a file that includes itself reaches the depth limit.
* Designs: each has the shapes the code distinguishes. In dt_shared_bodies a
  driver leaves two nested bodies, a modport and a ref port are driven, one
  instance is not connected, one ref port expands to itself. In am_pool
  functions and tasks are recursive and called from three scopes.

sm_lines and sm_line_race use symmetry over threads. Runs with a
liveness property do not.

Deadlock is checked where a run should end in an explicit stuttering step
(AnalysisManager, DriverTracker, SourceLoader) or go on for ever (SourceManager).
The preprocessor stops when its files have ended, and the diagnostic engine when
the bounds on calls are used up: there it is not checked.

## Fairness

* SourceManager: a thread that is inside of a method goes on (`WF` of
  `Continue`). All it can wait for is `mutex`, which no thread holds across a
  step of the model. Nothing is assumed about threads starting calls.
* DriverTracker: some thread goes on as long as one can. The threads run tasks
  of a pool and visits of a map do not nest.
* AnalysisManager: weak fairness of each thread's steps, of taking a task and of
  the main thread. The pool runs a queued task when a worker is free, and no task
  waits for another.
* SourceLoader: something goes on as long as a worker or the main thread can. The
  pool runs its tasks, and the main thread waits for nothing else. Nothing is
  assumed about calls that add files.
* Preprocessor: the parser asks for tokens until it gets the end of the last file.

## Where code and comments disagree

Five runs are expected to end in a counterexample: the code does not do what a
comment or a test says of it.

* **sm_line_race.** `getRawLineNumber` drops the read lock, takes the write lock
  and calls `computeLineOffsets`, which appends, without asking again whether the
  vector is still empty. Two threads that ask for a line of the same file for the
  first time double it, and the binary search runs over an unsorted vector. The
  class comment says its methods are thread safe.
* **dt_nested_sharing.** A non-canonical instance inside of a canonical body gets
  its side effects with the flag FromSideEffect, and `addDriver` notes none for
  such drivers. If the path leaves the outer body too, the other instances of the
  outer body never get the driver.
* **am_nettype_race.** An analysis is published before its drivers are added, so a
  nettype checked on another thread in between is not reported.
* **pp_keywords.** `popSource` removes the top of the keyword stack unless it comes
  from a directive; `pushSource` adds nothing for an unmapped file when the top is
  not a mapping. With two unmapped files before a mapped one in a unit (all are
  pushed at once, the last one first) the end of the first file removes the entry
  of the second, and the second is read with the keywords of the third. The manual
  says that files are parsed with the version they are mapped to.
* **pp_nested_macro.** A macro whose expansion defines another one, on its own line
  or in a file it includes, and uses it further on: the use is not expanded ahead
  because nothing is defined yet, and when it is played the assertion "we failed to
  fully expand nested macros at a previous point" fails. Without assertions the
  rest of the outer expansion is dropped.

Met while modelling, and in no run of their own:

* `cacheBuffer` may lose the insertion to a thread whose read of the same file
  failed; the entry it finds has no FileData, which `createBufferEntry` asserts.
  NoNullFileData is therefore checked for files whose reads do not fail now and
  succeed then; setting `FlakyReads` shows the failure.
* The source of a side effect is copied with care (ValueDriver.cpp:43) when it is
  applied to an instance, but `propagateIndirectDrivers` uses the other overload of
  `create`. A side effect of an always_comb procedure that reaches a variable through
  a ref port or modport does not conflict with an `always` procedure that writes the
  same bits, where that of the canonical instance would; one of a task
  conflicts with an always_ff procedure although tasks are exempt. Both are in
  `dt_shared_bodies` (`y` and `ib_x`); the properties take the sources that the code
  gives.
* `errors` of SourceLoader is appended to by pool threads without a lock. The lost
  append is in the model; UnracedTiesReported says what holds in spite of it. Two
  patterns of one library at one rank, or one pattern that finds a file twice
  because of links, are reported as a tie of the library with itself.
* A searched file that another searched file includes is skipped or not depending
  on which of them is opened first, and a batch opens its files earlier than one
  thread would; so does a file that may be found for two names. `Independent` says
  that there is no such pair (or no thread pool). LoadsInOrder does not hold with
  one; the instance has none, which MCSourceLoader assumes and TLC evaluates.
* `-Wno-error=group` does not undo `-Werror` for codes that only the default group
  enables, nor does `-Wno-error=code` for a code that only `-Weverything` enables; the
  manual says that they do. OptionsFollowManual leaves these combinations out.
* `clearCounts` drops the clients and keeps the include stacks and the over-limit
  flag; its comment says that it clears the include stacks.
* A file with an `` `else `` of its header guard is remembered as include-once, and
  the text of the `` `else `` is then lost. SkipsNothingLive is checked, and proved,
  without such a file (`GuardsHaveNoElse`).

## Proofs

TLAPS checks the theorems below for every value of the constants that satisfies
the named assumptions of the modules: any number of threads, files, scopes,
drivers, diagnostics, and no bound but those that the specifications put on
counters.

| theorem | states | property of the runs |
|---|---|---|
| `SourceManagerProofs!TypeCorrect` | `Spec => []TypeOK` | TypeOK |
| `SourceManagerProofs!FileNamePointerValid` | the pointer getFileName keeps across an unlock is valid | NoStaleInfo |
| `SourceManagerProofs!EntriesStayFinal` | texts, offsets and buffers handed out stay valid | EntriesAreFinal |
| `SourceManagerProofs!BuffersShareText` | a buffer has the text that stays cached | BufferTextIsCached |
| `SourceManagerProofs!AssertionHolds` | with `StableFiles`, `SLANG_ASSERT(fd)` holds | NoNullFileData |
| `SourceManagerProofs!FirstMatchFound` | with `StableFiles`, a search finds its first candidate that opens | FirstMatchWins |
| `SourceManagerProofs!SchedulesAgree` | with `StableFiles`, equal searches have equal results | SearchesAgree |
| `SourceTextProofs!LowerBoundSplits` | the halving search over sorted sequences | |
| `SourceTextProofs!RawLineCounts` | raw line = number of lines begun | |
| `SourceTextProofs!DirectiveGoverns` | the directive found governs the line | |
| `SourceTextProofs!OffsetsExact` | the offsets collected give every offset its line | |
| `SourceManagerProofs!LocationsResolve` | chains of macro expansions end in a file | ExpansionsResolve |
| `SourceManagerProofs!LinesCorrect` | with `TextsAreScanned`, a line is right unless offsets were computed twice | UnracedLineCorrect |
| `SourceManagerProofs!SearchesExact` | the searches agree with counting | LinesExact |
| `DriverTrackerProofs!TypeCorrect` | `Spec => []TypeOK` | TypeOK |
| `DriverTrackerProofs!SideEffectsMeetInstances` | each side effect meets each instance once | PairsMeetOnce |
| `DriverTrackerProofs!NoConflictHidden` | conflicts and reports are the same | ConflictsAreReported |
| `DriverTrackerProofs!FinalDrivers` | at the end the drivers are those implied | FinalDriversImplied |
| `DriverTrackerProofs!InstancesDriven` | with `ElaborationImplied`, sharing bodies loses no driver | InstancesDrive |
| `AnalysisManagerProofs!PublishedOnce` | a subroutine is published once | SubroutinesOnce |
| `AnalysisManagerProofs!ReportedInOrder` | without a pool nothing is missed or doubled | SequentialReports |
| `AnalysisManagerProofs!AllReached` | analyze() returns when everything is analyzed | EverythingAnalyzed |
| `AnalysisManagerProofs!DelaysFound` | delays of all tasks reached are found | TaskDelaysFound |
| `AnalysisManagerProofs!CalleesGiven` | callers get the drivers of what they reach | CalleesInlined |
| `SourceLoaderProofs!TiesReported` | a file of two libraries is reported unless two threads append at once | UnracedTiesReported |
| `SourceLoaderProofs!LibrariesBest` | the best rank decides the library, and a tie is one of two claims | BestLibrary |
| `SourceLoaderProofs!RecursionFound` | a map that includes itself is reported, and nothing else is | RecursionReported |
| `SourceLoaderProofs!FilesOnce` | each file is parsed once or reported | EveryFileOnce |
| `LoadOrderProofs!OneThreadsTrees` | with `Independent`, SourceLoader implements LoadOrder | LoadsInOrder |
| `DiagnosticEngineProofs!CountsCorrect` | counts are what clients were told | CountsMatch |
| `DiagnosticEngineProofs!LimitKept` | nothing follows the limit | LimitRespected |
| `DiagnosticEngineProofs!ReasonsTrue` | reasons for unused waivers are true | WaiverReasonsTrue |
| `DiagnosticEngineProofs!ManualFollowed` | command lines of any length mean what the manual says | |
| `DiagnosticEngineProofs!OptionsCorrect` | those of the instance, for any `MaxOptions` | OptionsFollowManual |
| `DiagnosticEngineProofs!PragmasCountNested` | pragmas of any number count as they nest | |
| `DiagnosticEngineProofs!PragmasCorrect` | those of the instance, for any `MaxDirectives` | PragmasNest |
| `PreprocessorProofs!StacksStayAligned` | the stacks stay in step | StacksAligned |
| `PreprocessorProofs!LiveTextOnly` | live text and only live text gets through | TextIsLive |
| `PreprocessorProofs!NestedMacrosExpanded` | with `NoLateDefinition`, expansions are complete before they are played | FullyExpanded |
| `PreprocessorProofs!GuardsSkipNothing` | with `GuardsHaveNoElse` and `BranchesStayInside`, a skipped include loses nothing | SkipsNothingLive |
| `PreprocessorProofs!KeywordsStayScoped` | with `SourcesPopTheirOwn`, `FilesPopTheirOwn` and `KeywordsNest`, files get their keywords | KeywordsScoped |

What a recursive function computes for every argument is proved without an
induction theorem where it is needed: assume a smallest counterexample, which
exists because `<` is well founded on the naturals (`NatLessThanWellFounded`,
`WFMin`), and refute it.

### SourceManager

Assumptions: `ValuesOK` (the markers for "absent", "failed" and "no path" are
distinct from texts and paths), `LineOffsetsOK` (a text has at least one line
offset, which is what `computeLineOffsets` starts with), `FilesOK`, `DirsOK`,
`NumbersOK` (types).

*Types and pointers.* NoStaleInfo is not inductive, since nothing in it speaks of
directives. The inductive invariant `IndInv` adds `CallOK` (what each position of a
thread implies for its arguments), `FilesLoaded` (buffers are made of loaded files
only) and `DirectivesImplyOffsets`: a buffer has a `` `line `` directive only if the
offsets of its file are computed. The last one is the reason: `getFileName` asks
for a raw line only if there are directives, and `addLineDirective` computes the
offsets, under the write lock, before it stores the first. So `getRawLineNumber`
never drops the lock below `getFileName`, and the pointer into `bufferEntries` that
`getFileName` keeps stays valid. Neither function says so, and a change to either
may break it.

*Cache and searches.* `EntriesStayFinal` is about every step of a reachable state.
`ResultsCached` (the text a thread was given is cached under the path of its
buffer) gives BufferTextIsCached. The three theorems about searches have the
hypothesis `StableFiles`: a file whose read may fail always fails, and nobody
assigns text to its path. The class asks for no less; without it the
assertion of `createBufferEntry` does fail (see `FlakyReads` above), so the
hypothesis is exactly what the code relies on and does not say. `SearchInv` says
where each position of a search is: every candidate before the current one cannot
be opened, the entry in hand is one that can be in the cache (`OpenOK`), and a
finished search has the first one that opens.

*Lines.* `LocationsResolve` needs `ExpansionsPointBack`: an expansion buffer points
into older buffers only, so following a location goes down in BufferIDs.
`LinesCorrect` has the hypothesis `TextsAreScanned`: texts are sequences of the
characters of SourceText and `LineOffsets` is `ComputeLineOffsets`, as in the runs
and in the code; the rest of SourceManager does not need to know. `LinesInv` has
`OffsetsComputed` (offsets that are there begin with one whole computation,
whatever was appended later), `RelockReady` (a thread that is about to take the
read lock again left offsets behind) and `Answered` (a line that was returned is
right if the offsets are still those of one computation).

*Text.* `LowerBoundSplits` is about a sorted sequence of any length. `OffsetsExact`
looks at the scan from the end of the text: the line breaks it finds tile the text,
there is exactly one such tiling, and so the offsets collected correspond one to
one to the line breaks that the declarative `LineOf` counts. `SearchesExact` is the
instance of these for the bounds of the runs.

### DriverTracker

Assumptions: `SymbolsOK`, `ScopesOK`, `InstancesOK`, `CallsOK`, `RetargetOK`, `ExpandOK`,
`ElaborationOK`, `OptionsOK`, `MainOK`: the tables are about existing symbols,
bodies and instances, a port is connected to finitely many symbols, the drivers
that calls bring have the source inferred from their scope, as ValueDriver's
constructor leaves it (`WrittenDrivers`), and only `addDriver` itself makes the
driver of a declaration's initializer. `DepthOK`:
`ImpliedItems`, which follows chains of at most `MaxDepth` steps, is closed under
one more. A finite design has finitely many items, so for each there is a depth
with which this holds.

`IndInv` is `TypeOK /\ PairsMeetOnce /\ ConflictsAreReported`; these three are
inductive together. `AppendHier` and `AppendInst` show that a visit of
`instanceMap` makes exactly the pairs it copies; `ConflictSymmetric` that a
conflict does not depend on who came first, which is why it is enough that the
later driver checks; `ReportsConflicts` that `Reports` is empty only if nothing
conflicts, in spite of the early exit; `AddDriverInv` puts them together for every
action that adds a driver.

`FinalDrivers` is relative to `IndInv`. `DriversInv` says of the drivers that are in
the tracker, in a queue, in the hands of a thread or waiting to be propagated:
*Sound*, all of them are implied by the design; *Initialized*, a symbol that is
driven has its initializer; *Complete*, whatever follows from a driver in the
tracker is in the tracker too or on its way there; and `PhasesInv`, what can be on
its way in which phase. At the end nothing is on its way, and PairsMeetOnce says that
every side effect met every instance. The drivers present are then closed under
consequences, and `ImpliedLeast` says that the implied ones are the least such
set. Since `ImpliedItems` is computed from the tables alone, the theorem also
says that the result does not depend on the schedule.

`InstancesDriven` has the hypothesis `ElaborationImplied`, a fact about the design in
which no schedule enters: what every instance elaborated on its own would drive is
covered by what sharing implies. It holds in dt_shared_bodies and fails
in dt_nested_sharing, where a body nested in a shared body is shared: that is the
disagreement the latter run shows, and the theorem says that no schedule adds
another.

### AnalysisManager

Assumptions: `ThreadsOK`, `MembersOK` (types), `NotYetOK` (a marker is not a
subroutine), `MembersDistinct` (an instance, a procedure or an expression belongs
to one scope, as each syntax node has one parent in the AST).

`ShapeInv` describes the stacks of calls: which frames may stand on which, and what
each implies for those below. The others build on it. `OnceInv`: a subroutine has
been published iff its result is in `analyzedSubroutines`, and between them there is
exactly one frame that will do the rest. `SeqInv` is about the manager without a
pool, where the nettypes of a subroutine are looked at after its drivers are
added. `ScopeInv`: a scope that was started is in the queue, in a task's hands,
finished, or was left by an exception, and one that is reached has been started or
its parent is still at work. `ProcInv` and `ExprInv` are about the graph walks: the set of
visited functions is closed under calls except for those on the stack, what
was collected is that of the visited ones, and (`ExprInv`) the set that all
threads share gives each function to one expression. A thrown exception ends the
analysis without these, so the parts about scopes, procedures and expressions are
conditional on none having been thrown, like the properties. That `analyze()` then throws is part of
EverythingAnalyzed.

### SourceLoader

Assumptions: `LoaderOK`, `TreesOK`, `CallsOK` (types; among them that
`librariesInheritMacros` comes with `singleUnit`, the driver refuses it otherwise, that
there are finitely many library maps, that calls and maps are told apart, and that a name
has no candidates without search directories). Maps may include each other and themselves:
`AddMaps` reads on only into maps that it is not reading already, so `MapsAreRead`
and `MapsFacts` say what it returns for any of them, by a smallest number of maps
left to enter.

The fold over the files of a pattern, and the one over the members of a map, is
taken apart step by step (`FilesUnroll`, `MembersUnroll`), which shows that the list
stays one entry per path (`Listed`). `LoadInv` follows the list through the pool:
each result says what loadAndParse makes of its entry, and if no two entries are
claimed twice, then the claim of every entry past its `emplace_back` is in `errors`.
With a second such entry a report may be lost, which is the finding above and the
hypothesis of UnracedTiesReported.

BestLibrary compares the entries with the calls that were made, whatever their order.
`ClaimsInv` names each claim by its call, its place in a map and its place among the
files of the pattern, and keeps two things that BestLibrary does not say and a step
needs: `libraryRank` is the least rank of the claims on the entry, as long as there
is one (the rank of a call without a library is in the entry too, and counts for
nothing), and every claim is about an entry that is listed. `ReconsiderOwned` is the
step of one claim; `CallAttributed` and `MapAttributed` take it through the two
folds, where the claims of a call are added file by file.

RecursionReported is about `ReachedFrom`, the least set of maps that is closed under
includes. `LiveIsRead` and `ReadIsLive` say, by the maps left to enter, that reading
a map gives an error exactly if it leads to a map on a cycle or to one that is being
read. `RecursionInv` then follows the error through the pool: an `emplace_back` that
is under way began behind it (`Kept`), so the appends that overwrite each other
leave it alone.

`SearchInv` is about loadTrees. UnracedTiesReported and EveryFileOnce need different
things, and EveryFileOnce is not inductive: nothing in it speaks of the stack and
the batch. `Holds` says that the trees have each of their files once; `Waiting`
that a file found and not yet added is in the cache, in no tree, and waits in one
place, whether it is on the stack, was found for the batch, or went back on the
stack under the new loads. The cache is what links the two: `FindBuffer`
passes over whatever is in it, so a file cannot be found twice. `ArrangedHolds` says
that the five parts of `ArrangeTrees` have every listed file that can be read and
none twice, for any order of the groups.

`OneThreadsTrees` is the refinement: under the mapping that keeps, of the batch and
the stack on top of it, the names some file is still worth searching for (`Wanted`),
each step of SourceLoader is one of LoadOrder or a stutter. `Independent` is its hypothesis
and concerns the pool only; with one thread there is none. The mapping
has three kinds of entries to account for: names that wait without a file, names a
file was opened for before its turn, and parsed trees that went back on the
stack. `OrderInv` says of all of them: no name is there twice (`Separate`); a file
in hand for a name that nobody declares is the one a search would find now, if
only the files of the trees were in the cache, and a candidate in the cache
belongs to a tree or to an entry for its own name (`Sound`); an entry without
a file in the batch is of a name that is declared or has no file (`Expects`), so
that the trees committed from the top of the batch are in the order of the stack. `SoundTree`
is the step: the tree of the top entry changes nothing for the other entries,
which is where `Independent` is needed. `WhatIsLeft` says that what `Commit` puts
back keeps the names that are sought and their order, and `SiftTwice`,
`SiftJoined`, `SiftLast` and the like are the laws of the mapping's
filter, proved by the growth of sequences (`SeqGrows`, in place of an induction
theorem).

### DiagnosticEngine

Assumptions: `OptionsOK` (types; no group or code is called `push` or `pop`, which
the code asks for as `__push__` and `__pop__`), `EngineOK` (types), and `ListsOK` of
MCDiagnosticEngine: the bounds are numbers, and the two codes that it asks about
are warnings. `TallyInv` relates the counts to what
the clients have seen less the calls of `issue` that are still open: a diagnostic is
counted after its notes, and each level of nesting can be one error behind.
`WaiverInv` (`Explains`): the counters of a waiver that has not been applied
follow from the set of diagnostics that reached it.

*Options and pragmas.* Both are folds. `FoldUnrolls` takes a fold apart into the
sequence of its results, and an induction is then an argument about the set of
steps that are right (`CountUp`).

`ManualFollowed` is about any list of well-formed options (`IsCommandLine`) and any
code declared as a warning, in any groups. The code keeps groups, codes and
`-Werror=` apart and applies them one after the other, whatever their order on
the command line. `NamesApplied` says what one such pass leaves behind: the entry that
the last option about a name of the code gave, or the one from before. `OwnEntry`,
`GroupEntry` and `DefaultEntry` say which of the passes decides, and `SaysFollows` that
this is what the manual promises.

`PragmasCountNested` is about any list of directives in the order of their offsets
(`IsDirectiveList`). The code keeps a stack of settings and knows nothing of which pop
belongs to which push; the property finds the push of a pop by counting.
`Stacked` links them: the open pushes in order, between which pushes and pops are
balanced. `Agrees` is the invariant of the fold: each level of the stack has
what held when its push was met, and the top, like the last setting of each code,
what holds now (`Effective`). `DirectivePush`, `DirectivePop`, `DirectiveUnmatched` and
`DirectiveNamed` are its steps. Since offsets ascend, settings are only added at
the end (`SettingsBefore`), so a location in the middle of a file sees what the
directives before it left.

### Preprocessor

Assumption: `PreprocessorOK` (types, finitely many macro names). `StackInv` describes
the source stack from the bottom up (`Sources`) and the paused expansions
(`Paused`): the file that used a paused macro lies below the include that paused
it, and so it is on top again when the include ends. `LiveInv` (`BranchesFollow`)
relates the branch stack, which knows only whether to skip, to `nesting`, which
knows every condition: the two agree level by level, those opened in skipped text
included. These two theorems ask nothing of the files.

The other three properties fail for some programs, as the findings and the notes
above say. Their theorems name what they ask of a program, and nothing more:

* `MadeOf(I)`, for some set I of items: files and macro bodies are sequences of
  them. It gives the items a type and holds of every program; MCPreprocessor
  states it of the instance (`Items`).
* *NestedMacrosExpanded* asks for `NoLateDefinition`: no step defines a macro that
  an expansion still uses which is being played or paused. pp_nested_macro shows
  the property violated without it. `NothingLeft` is about ExpandReplacementList:
  with each round the macros that are left to expand meet fewer others (`Rank`,
  `RankFalls`), since the macro is not recursive, so as many rounds as there are
  names leave none. The invariant `NoneReady` carries this over: no defined macro is
  used in what is left of any expansion, the one played or those paused.
* *GuardsSkipNothing* asks for `GuardsHaveNoElse` (MCPreprocessor states it of
  the instance) and `BranchesStayInside`: while a guard is open, conditional
  directives do not come from macros, and an included file ends in the branch in
  which it began. `GuardInv` says for every file on the stack what its part of
  headerGuardStack knows of the text read so far (`ReadInGuard`): nothing but the
  `` `ifndef `` in state "define", the `` `define `` of its second item in state
  "endif" with as many branches open on branchStack as the text has open in its
  guard (`Inside`), the end of the text in state "eof". `BranchInv` is what it
  needs of branchStack: a branch is active only inside active ones. So a guard is
  remembered only of a text that `IsGuarded` (`Remembered`), and such a text is
  dead when its macro is defined (`GuardedIsDead`).
* *KeywordsStayScoped* asks that no unmapped file begins on top of an entry that
  was restored for another one (`SourcesPopTheirOwn` of the files of a unit, which
  are pushed at once, `FilesPopTheirOwn` of included files), because pushSource
  then pushes nothing and popSource pops what belongs to the other: pp_keywords. It
  also asks that a file ends the keywords it begins and no others (`KeywordsNest`).
  The invariant `Placed` cuts keywordVersionStack into one block for every file on
  lexerStack: the entry pushed with the file, if any, below those of its open
  `` `begin_keywords ``; `IsKeywords` says that a restored version is the one of the
  last `` `begin_keywords `` below it.

`BranchesStayInside`, `NoLateDefinition`, `FilesPopTheirOwn` and `KeywordsNest` hold of
the instance of the preprocessor run: TLC finds no violation when they are added to
Preprocessor.cfg (the first and the last as invariants). They are not among its
properties because they speak of the files, not of the code.

## What is only model-checked

* Liveness: CallsReturn, AnalysisEnds, AnalysisTerminates, LoadingEnds,
  PreprocessingEnds. Fairness is out of the prover's reach.
* That the hypotheses of the theorems about Preprocessor hold of an instance (above).

Every safety property that a passing run checks is also stated by a theorem.

## What is not modelled

* In SourceManager: columns, sort keys, buffer kinds and library pointers,
  diagnostic directives, the include directory setters, proximate paths.
* In DriverTracker: `checkNetCollapsing`, which only reports, and the lookups
  behind `Retarget` and `Expand`.
* In AnalysisManager: unused-definition and shadowing checks, clock inference,
  the procedural checkers and the data flow analysis; a second call of analyze()
  on the same manager.
* In SourceLoader: how a pattern is matched (its result, a rank and files, is in
  the calls), include directories of libraries, the warning options handed over
  for units. Two searched names that lead to one file are taken not to occur.
* In DiagnosticEngine: formatting of messages and arguments, source ranges in macro
  expansions, how paths match a pattern.
* In Preprocessor: macro arguments, concatenation and stringification, intrinsic
  macros, conditions other than a name, protected regions, the directives that
  only set a value (`` `timescale ``, `` `default_nettype `` and the like),
  inherited macros.
* Compilation, constant evaluation, IntervalMap, Glob: see the plan. The life cycle
  of Compilation is a guard at the beginning of each call (frozen, finalized)
  around symbol tables that no property here tells apart.
* Lexer, parser, expressions, statements, symbols, types: sequential translations
  of the language definition over unbounded syntax, without a state machine of
  their own. Tools and bindings: glue.

## Plan

1. *Done.* SourceText, SourceManager, DriverTracker, AnalysisManager and the proofs
   above; SourceTrees, LoadOrder and SourceLoader with its refinement;
   DiagnosticOptions and DiagnosticEngine; Preprocessor.
2. Proofs. *Done*: every safety property that the passing runs check; that
   SourceLoader implements LoadOrder.
3. AnalysisManager and DriverTracker composed: the nettype check and
   propagateIndirectDrivers against the real tracker; reuse of a manager after an
   exception (`pendingException` is never reset).
4. Pure algorithms: Glob, IntervalMap overlap iteration, four-state SVInt
   operations.
