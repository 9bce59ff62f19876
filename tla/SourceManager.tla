----------------------------- MODULE SourceManager -----------------------------
(***************************************************************************)
(* slang::SourceManager shared by the threads that parse a design.         *)
(*                                                                         *)
(* Every critical section of `mutex` is one action, so a method that drops *)
(* the lock (to read a file, or to trade a read lock for a write lock) is  *)
(* several actions and other threads run between them.  A thread that is   *)
(* inside a method has pc # "idle".                                        *)
(*                                                                         *)
(* lookupCache   path -> Absent, Failed (a cached error code) or the text  *)
(* lineOffsets   path -> FileData::lineOffsets, <<>> until first needed     *)
(* bufferEntries the vector of FileInfo and ExpansionInfo; BufferID b is   *)
(*               entry b (the C++ vector has a dummy entry 0)              *)
(* call, ret     the arguments of the running call, the last result        *)
(***************************************************************************)
EXTENDS SourceText

CONSTANTS
    Threads,        \* threads that call the source manager
    Paths,          \* canonical file paths
    Texts,          \* file contents
    Absent, Failed, \* lookupCache: no entry, an entry with an error code
    NoPath,         \* the result of a search that found no file
    LineOffsets(_), \* computeLineOffsets of a text
    Outcomes,       \* path -> what OS::readFile may give: texts or Failed
    BadPaths,       \* paths fs::weakly_canonical refuses
    AssignPaths,    \* paths given to assignText / assignBuffer
    SystemDirs, LocalDir, AdditionalDirs, LibraryDirs, UserDirs,
                    \* dir / header, for the directories of each kind
    IncDirFirst,    \* the incDirFirst option
    Offsets,        \* offsets of the source locations asked about
    LineNums,       \* numbers given by `line directives
    MaxEntries,     \* bound: entries in bufferEntries
    MaxDirectives   \* bound: `line directives per buffer

ASSUME ValuesOK ==
    /\ Absent \notin Texts /\ Failed \notin Texts /\ Absent # Failed
    /\ NoPath \notin Paths

ASSUME LineOffsetsOK == \A x \in Texts : LineOffsets(x) \in Seq(Nat) /\ LineOffsets(x) # <<>>

ASSUME FilesOK ==
    /\ Outcomes \in [Paths -> SUBSET (Texts \cup {Failed})]
    /\ BadPaths \subseteq Paths
    /\ AssignPaths \subseteq Paths

ASSUME DirsOK ==
    /\ SystemDirs \in Seq(Paths)
    /\ LocalDir \in Seq(Paths)
    /\ AdditionalDirs \in Seq(Paths)
    /\ LibraryDirs \in Seq(Paths)
    /\ UserDirs \in Seq(Paths)
    /\ IncDirFirst \in BOOLEAN

ASSUME NumbersOK ==
    /\ Offsets \subseteq Nat
    /\ LineNums \subseteq Nat
    /\ MaxEntries \in Nat
    /\ MaxDirectives \in Nat

VARIABLES lookupCache, lineOffsets, bufferEntries, pc, call, ret

vars == <<lookupCache, lineOffsets, bufferEntries, pc, call, ret>>

-------------------------------------------------------------------------------
(***************************************************************************)
(* Types                                                                   *)
(***************************************************************************)
SourceLocations == [buffer : Nat \ {0}, offset : Offsets]

LineDirectiveInfo == [lineInFile : Nat, lineOfDirective : LineNums]

FileInfo == [kind : {"file"}, path : Paths, lineDirectives : Seq(LineDirectiveInfo)]

ExpansionInfo == [kind : {"expansion"}, start : SourceLocations]

Ops == {"read", "assign", "line", "name"}

PCs == {"idle", "lookup", "read", "insertError", "insert", "crashed", "compute", "relock"}

(***************************************************************************)
(* search   what readSource or readHeader will try, in order               *)
(* pos      the candidate being opened                                     *)
(* text     what was read or is being assigned                             *)
(* loc      the location being resolved                                    *)
(* seen     the size of bufferEntries when getFileName took a pointer      *)
(*          into it                                                        *)
(***************************************************************************)
Calls == [op : Ops, search : Seq(Paths), pos : Nat, text : Texts \cup {Absent},
          loc : SourceLocations \cup {Absent}, seen : Nat]

Results ==
    [op : {"none"}]
        \cup [op : {"read"}, search : Seq(Paths), path : Paths \cup {NoPath},
              text : Texts \cup {Absent}]
        \cup [op : {"assign"}, path : Paths, text : Texts]
        \cup [op : {"line"}, loc : SourceLocations, line : Int]
        \cup [op : {"name"}, loc : SourceLocations, directive : Nat]

TypeOK ==
    /\ lookupCache \in [Paths -> Texts \cup {Absent, Failed}]
    /\ lineOffsets \in [Paths -> Seq(Nat)]
    /\ bufferEntries \in Seq(FileInfo \cup ExpansionInfo)
    /\ pc \in [Threads -> PCs]
    /\ call \in [Threads -> Calls]
    /\ ret \in [Threads -> Results]

-------------------------------------------------------------------------------
OpenCall(op, search, text) ==
    [op |-> op, search |-> search, pos |-> 1, text |-> text, loc |-> Absent, seen |-> 0]

LineCall(op, loc) ==
    [op |-> op, search |-> <<>>, pos |-> 0, text |-> Absent, loc |-> loc,
     seen |-> Len(bufferEntries)]

NoCall == [op |-> "read", search |-> <<>>, pos |-> 0, text |-> Absent,
           loc |-> Absent, seen |-> 0]

Init ==
    /\ lookupCache = [p \in Paths |-> Absent]
    /\ lineOffsets = [p \in Paths |-> <<>>]
    /\ bufferEntries = <<>>
    /\ pc = [t \in Threads |-> "idle"]
    /\ call = [t \in Threads |-> NoCall]
    /\ ret = [t \in Threads |-> [op |-> "none"]]

(***************************************************************************)
(* readHeader: the candidates for a quoted include, in search order.       *)
(* local is empty when local includes are disabled or the including text   *)
(* is not in a file, library when it belongs to no library with include    *)
(* directories, additional when no extra directories were given.           *)
(***************************************************************************)
HeaderCandidates(local, additional, library) ==
    IF IncDirFirst THEN additional \o library \o UserDirs \o local
                   ELSE local \o additional \o library \o UserDirs

(***************************************************************************)
(* What readSource and readHeader may be asked to open: a single path, a   *)
(* system header or a header.                                              *)
(***************************************************************************)
Searches ==
    {<<p>> : p \in Paths} \cup {SystemDirs}
        \cup {HeaderCandidates(local, additional, library) :
                  local \in {<<>>, LocalDir}, additional \in {<<>>, AdditionalDirs},
                  library \in {<<>>, LibraryDirs}}

Opening == {"lookup", "read", "insertError", "insert"}

(***************************************************************************)
(* Bound: every open in flight still has room for its buffer entry.        *)
(***************************************************************************)
HasRoom ==
    Len(bufferEntries) + Cardinality({t \in Threads : pc[t] \in Opening}) < MaxEntries

Candidate(t) == call[t].search[call[t].pos]

Finish(t, result) ==
    /\ pc' = [pc EXCEPT ![t] = "idle"]
    /\ call' = [call EXCEPT ![t] = NoCall]
    /\ ret' = [ret EXCEPT ![t] = result]

\* Mutants of NextCandidate: the last candidate is never tried; the search
\* stays at the candidate that failed.
NextCandidateOffByOne(t) ==
    IF call[t].pos + 1 < Len(call[t].search)
    THEN /\ pc' = [pc EXCEPT ![t] = "lookup"]
         /\ call' = [call EXCEPT ![t].pos = @ + 1]
         /\ UNCHANGED ret
    ELSE Finish(t, [op |-> "read", search |-> call[t].search, path |-> NoPath, text |-> Absent])

NextCandidateStuck(t) ==
    /\ pc' = [pc EXCEPT ![t] = "lookup"]
    /\ UNCHANGED <<call, ret>>

(***************************************************************************)
(* openCached failed for a candidate: readHeader tries the next one, or    *)
(* reports no_such_file_or_directory after the last.                       *)
(***************************************************************************)
NextCandidate(t) ==
    IF call[t].pos < Len(call[t].search)
    THEN /\ pc' = [pc EXCEPT ![t] = "lookup"]
         /\ call' = [call EXCEPT ![t].pos = @ + 1]
         /\ UNCHANGED ret
    ELSE Finish(t, [op |-> "read", search |-> call[t].search, path |-> NoPath, text |-> Absent])

(***************************************************************************)
(* createBufferEntry for the data cached for a path, and the return of the *)
(* new buffer to the caller.                                               *)
(***************************************************************************)
CreateBufferEntry(t, path, text) ==
    /\ bufferEntries' = Append(bufferEntries,
                               [kind |-> "file", path |-> path, lineDirectives |-> <<>>])
    /\ Finish(t, IF call[t].op = "assign"
                 THEN [op |-> "assign", path |-> path, text |-> text]
                 ELSE [op |-> "read", search |-> call[t].search, path |-> path, text |-> text])

(***************************************************************************)
(* readSource and readHeader: a call starts with its first candidate.  A   *)
(* header with no candidates at all is not found.                          *)
(***************************************************************************)
ReadSource(t) ==
    /\ pc[t] = "idle"
    /\ HasRoom
    /\ \E s \in Searches :
           IF s = <<>>
           THEN Finish(t, [op |-> "read", search |-> s, path |-> NoPath, text |-> Absent])
           ELSE /\ pc' = [pc EXCEPT ![t] = "lookup"]
                /\ call' = [call EXCEPT ![t] = OpenCall("read", s, Absent)]
                /\ UNCHANGED ret
    /\ UNCHANGED <<lookupCache, lineOffsets, bufferEntries>>

\* Mutant of Lookup: a cached error is taken for cached data.
LookupIgnoresError(t) ==
    /\ pc[t] = "lookup"
    /\ IF lookupCache[Candidate(t)] # Absent
       THEN CreateBufferEntry(t, Candidate(t), lookupCache[Candidate(t)])
       ELSE pc' = [pc EXCEPT ![t] = "read"] /\ UNCHANGED <<bufferEntries, call, ret>>
    /\ UNCHANGED <<lookupCache, lineOffsets>>

(***************************************************************************)
(* openCached up to the read: a path that cannot be made canonical and a   *)
(* cached error fail, cached data becomes a new buffer.                    *)
(***************************************************************************)
Lookup(t) ==
    /\ pc[t] = "lookup"
    /\ LET path == Candidate(t)
       IN  \/ /\ path \in BadPaths \/ lookupCache[path] = Failed
              /\ NextCandidate(t)
              /\ UNCHANGED bufferEntries
           \/ /\ path \notin BadPaths
              /\ lookupCache[path] \in Texts
              /\ CreateBufferEntry(t, path, lookupCache[path])
           \/ /\ path \notin BadPaths
              /\ lookupCache[path] = Absent
              /\ pc' = [pc EXCEPT ![t] = "read"]
              /\ UNCHANGED <<bufferEntries, call, ret>>
    /\ UNCHANGED <<lookupCache, lineOffsets>>

(***************************************************************************)
(* OS::readFile, called with no lock held.                                 *)
(***************************************************************************)
ReadFile(t) ==
    /\ pc[t] = "read"
    /\ \E outcome \in Outcomes[Candidate(t)] :
           IF outcome = Failed
           THEN pc' = [pc EXCEPT ![t] = "insertError"] /\ UNCHANGED call
           ELSE /\ pc' = [pc EXCEPT ![t] = "insert"]
                /\ call' = [call EXCEPT ![t].text = outcome]
    /\ UNCHANGED <<lookupCache, lineOffsets, bufferEntries, ret>>

\* Mutant of InsertError: the error is filed under the candidate tried next.
InsertErrorAfterAdvance(t) ==
    /\ pc[t] = "insertError"
    /\ NextCandidate(t)
    /\ LET path == IF call[t].pos < Len(call[t].search)
                   THEN call[t].search[call[t].pos + 1] ELSE Candidate(t)
       IN  lookupCache' = IF lookupCache[path] = Absent
                          THEN [lookupCache EXCEPT ![path] = Failed]
                          ELSE lookupCache
    /\ UNCHANGED <<lineOffsets, bufferEntries>>

(***************************************************************************)
(* The error path of openCached.  emplace keeps an entry that is already   *)
(* there, but the error is returned all the same.                          *)
(***************************************************************************)
InsertError(t) ==
    /\ pc[t] = "insertError"
    /\ LET path == Candidate(t)
       IN  lookupCache' = IF lookupCache[path] = Absent
                          THEN [lookupCache EXCEPT ![path] = Failed]
                          ELSE lookupCache
    /\ NextCandidate(t)
    /\ UNCHANGED <<lineOffsets, bufferEntries>>

\* Mutants of CacheBuffer: the thread that lost the race returns what it read;
\* insert_or_assign instead of emplace.
CacheBufferOwnText(t) ==
    /\ pc[t] = "insert"
    /\ LET path == Candidate(t)
       IN  /\ lookupCache' = IF lookupCache[path] = Absent
                             THEN [lookupCache EXCEPT ![path] = call[t].text]
                             ELSE lookupCache
           /\ CreateBufferEntry(t, path, call[t].text)
    /\ UNCHANGED lineOffsets

CacheBufferOverwrites(t) ==
    /\ pc[t] = "insert"
    /\ lookupCache' = [lookupCache EXCEPT ![Candidate(t)] = call[t].text]
    /\ CreateBufferEntry(t, Candidate(t), call[t].text)
    /\ UNCHANGED lineOffsets

(***************************************************************************)
(* cacheBuffer.  When another thread has inserted the path meanwhile, its  *)
(* entry is used; when that entry is an error there is no FileData and     *)
(* createBufferEntry fails its assertion.                                  *)
(***************************************************************************)
CacheBuffer(t) ==
    /\ pc[t] = "insert"
    /\ LET path == Candidate(t)
       IN  \/ /\ lookupCache[path] = Absent
              /\ lookupCache' = [lookupCache EXCEPT ![path] = call[t].text]
              /\ CreateBufferEntry(t, path, call[t].text)
           \/ /\ lookupCache[path] # Absent
              /\ IF lookupCache[path] = Failed
                 THEN /\ pc' = [pc EXCEPT ![t] = "crashed"]
                      /\ UNCHANGED <<bufferEntries, call, ret>>
                 ELSE CreateBufferEntry(t, path, lookupCache[path])
              /\ UNCHANGED lookupCache
    /\ UNCHANGED lineOffsets

(***************************************************************************)
(* assignBuffer: throws when the path is cached, an error entry included;  *)
(* otherwise drops the lock and goes on to cacheBuffer.                    *)
(***************************************************************************)
AssignBuffer(t) ==
    /\ pc[t] = "idle"
    /\ HasRoom
    /\ \E path \in AssignPaths, text \in Texts :
           /\ lookupCache[path] = Absent
           /\ pc' = [pc EXCEPT ![t] = "insert"]
           /\ call' = [call EXCEPT ![t] = OpenCall("assign", <<path>>, text)]
    /\ UNCHANGED <<lookupCache, lineOffsets, bufferEntries, ret>>

-------------------------------------------------------------------------------
(***************************************************************************)
(* The locations of the buffers made so far.                               *)
(***************************************************************************)
Locations == [buffer : DOMAIN bufferEntries, offset : Offsets]

\* Mutant of FullyExpandedLoc: an expansion inside an expansion is taken for
\* a place in a file.
FullyExpandedLocOnce(loc) ==
    IF bufferEntries[loc.buffer].kind = "file" THEN loc ELSE bufferEntries[loc.buffer].start

(***************************************************************************)
(* getFullyExpandedLocImpl: the place in a file where the outermost        *)
(* expansion happened.                                                     *)
(***************************************************************************)
FullyExpandedLoc(loc) ==
    LET expand[l \in Locations] ==
            IF bufferEntries[l.buffer].kind = "file" THEN l
            ELSE expand[bufferEntries[l.buffer].start]
    IN  expand[loc]

FileLocations == {loc \in Locations : bufferEntries[loc.buffer].kind = "file"}

(***************************************************************************)
(* The places in files that the locations known to callers resolve to.     *)
(***************************************************************************)
ResolvedLocations == {FullyExpandedLoc(loc) : loc \in Locations} \cap FileLocations

PathOf(loc) == bufferEntries[loc.buffer].path

DirectivesOf(loc) == bufferEntries[loc.buffer].lineDirectives

(***************************************************************************)
(* createExpansionLoc: the expansion of a macro used at a known location.  *)
(***************************************************************************)
CreateExpansionLoc(t) ==
    /\ pc[t] = "idle"
    /\ HasRoom
    /\ \E start \in Locations :
           bufferEntries' = Append(bufferEntries, [kind |-> "expansion", start |-> start])
    /\ UNCHANGED <<lookupCache, lineOffsets, pc, call, ret>>

(***************************************************************************)
(* computeLineOffsets appends to the vector it is given.                   *)
(***************************************************************************)
ComputeOffsets(path) ==
    [lineOffsets EXCEPT ![path] = @ \o LineOffsets(lookupCache[path])]

PushDirective(loc, directive) ==
    bufferEntries' = [bufferEntries EXCEPT ![loc.buffer] =
                          [kind |-> "file", path |-> PathOf(loc),
                           lineDirectives |-> Append(DirectivesOf(loc), directive)]]

\* Mutant of AddLineDirective: the offsets are left for a reader to compute.
AddLineDirectiveLazily(t) ==
    /\ pc[t] = "idle"
    /\ \E loc \in ResolvedLocations, lineNum \in LineNums :
           /\ Len(DirectivesOf(loc)) < MaxDirectives
           /\ PushDirective(loc, [lineInFile |-> RawLine(LineOffsets(lookupCache[PathOf(loc)]),
                                                         loc.offset),
                                  lineOfDirective |-> lineNum])
    /\ UNCHANGED <<lookupCache, lineOffsets, pc, call, ret>>

(***************************************************************************)
(* addLineDirective runs under the write lock, so it computes the offsets  *)
(* of the file in place when they are missing.                             *)
(***************************************************************************)
AddLineDirective(t) ==
    /\ pc[t] = "idle"
    /\ \E loc \in ResolvedLocations, lineNum \in LineNums :
           LET path == PathOf(loc)
               offsets == IF lineOffsets[path] = <<>> THEN ComputeOffsets(path) ELSE lineOffsets
           IN  /\ Len(DirectivesOf(loc)) < MaxDirectives
               /\ lineOffsets' = offsets
               /\ \E raw \in 0 .. Len(offsets[path]) :
                      /\ raw = RawLine(offsets[path], loc.offset)
                      /\ PushDirective(loc, [lineInFile |-> raw, lineOfDirective |-> lineNum])
    /\ UNCHANGED <<lookupCache, pc, call, ret>>

(***************************************************************************)
(* The rest of getLineNumber (op "line") or getFileName (op "name") once   *)
(* the offsets are known, under the read lock.                             *)
(***************************************************************************)
Answer(t, op, loc) ==
    LET offsets == lineOffsets[PathOf(loc)]
        directives == DirectivesOf(loc)
    IN  \E raw \in 0 .. Len(offsets), d \in 0 .. Len(directives) :
            /\ raw = RawLine(offsets, loc.offset)
            /\ d = PreviousLineDirective(directives, raw)
            /\ Finish(t, IF op = "line"
                         THEN [op |-> "line", loc |-> loc,
                               line |-> NumberedLine(directives, d, raw)]
                         ELSE [op |-> "name", loc |-> loc, directive |-> d])

(***************************************************************************)
(* getRawLineNumber under a read lock: with no offsets yet the lock is     *)
(* dropped to take the write lock.                                         *)
(***************************************************************************)
RawLineNumber(t, op, loc) ==
    IF lineOffsets[PathOf(loc)] # <<>>
    THEN Answer(t, op, loc)
    ELSE /\ pc' = [pc EXCEPT ![t] = "compute"]
         /\ call' = [call EXCEPT ![t] = LineCall(op, loc)]
         /\ UNCHANGED ret

GetLineNumber(t) ==
    /\ pc[t] = "idle"
    /\ \E loc \in ResolvedLocations : RawLineNumber(t, "line", loc)
    /\ UNCHANGED <<lookupCache, lineOffsets, bufferEntries>>

(***************************************************************************)
(* getFileName: a buffer with no `line directive has the name of its file  *)
(* (directive 0), and the offsets are not needed.                          *)
(***************************************************************************)
GetFileName(t) ==
    /\ pc[t] = "idle"
    /\ \E loc \in ResolvedLocations :
           IF DirectivesOf(loc) = <<>>
           THEN Finish(t, [op |-> "name", loc |-> loc, directive |-> 0])
           ELSE RawLineNumber(t, "name", loc)
    /\ UNCHANGED <<lookupCache, lineOffsets, bufferEntries>>

(***************************************************************************)
(* getRawLineNumber holding the write lock it just took: the offsets are   *)
(* computed without asking whether another thread did so meanwhile.        *)
(***************************************************************************)
ComputeLocked(t) ==
    /\ pc[t] = "compute"
    /\ lineOffsets' = ComputeOffsets(PathOf(call[t].loc))
    /\ pc' = [pc EXCEPT ![t] = "relock"]
    /\ UNCHANGED <<lookupCache, bufferEntries, call, ret>>

(***************************************************************************)
(* getRawLineNumber back under the read lock, and the rest of its caller.  *)
(***************************************************************************)
Relock(t) ==
    /\ pc[t] = "relock"
    /\ Answer(t, call[t].op, call[t].loc)
    /\ UNCHANGED <<lookupCache, lineOffsets, bufferEntries>>

Next ==
    \E t \in Threads :
        \/ ReadSource(t)
        \/ Lookup(t)
        \/ ReadFile(t)
        \/ InsertError(t)
        \/ CacheBuffer(t)
        \/ AssignBuffer(t)
        \/ CreateExpansionLoc(t)
        \/ AddLineDirective(t)
        \/ GetLineNumber(t)
        \/ GetFileName(t)
        \/ ComputeLocked(t)
        \/ Relock(t)

(***************************************************************************)
(* A thread that is inside a method goes on with it: the only thing it can *)
(* wait for is `mutex`, which is never held across a step.                 *)
(***************************************************************************)
Continue(t) ==
    \/ Lookup(t)
    \/ ReadFile(t)
    \/ InsertError(t)
    \/ CacheBuffer(t)
    \/ ComputeLocked(t)
    \/ Relock(t)

Spec == Init /\ [][Next]_vars

FairSpec == Spec /\ \A t \in Threads : WF_vars(Continue(t))

-------------------------------------------------------------------------------
(***************************************************************************)
(* A buffer that has a `line directive belongs to a file whose line        *)
(* offsets are computed.                                                   *)
(***************************************************************************)
DirectivesImplyOffsets ==
    \A b \in DOMAIN bufferEntries :
        /\ bufferEntries[b].kind = "file"
        /\ bufferEntries[b].lineDirectives # <<>>
        => lineOffsets[bufferEntries[b].path] # <<>>

(***************************************************************************)
(* getFileName keeps a pointer into bufferEntries across getRawLineNumber. *)
(* The vector never grows while getRawLineNumber has dropped the lock on   *)
(* behalf of getFileName, so the pointer it goes on to use is valid.       *)
(***************************************************************************)
NoStaleInfo ==
    \A t \in Threads :
        pc[t] \in {"compute", "relock"} /\ call[t].op = "name"
            => call[t].seen = Len(bufferEntries)

(***************************************************************************)
(* Every location leads to a place in a file, through any number of nested *)
(* macro expansions: the loop in getFullyExpandedLocImpl terminates and    *)
(* getFileInfo finds a FileInfo.                                           *)
(***************************************************************************)
ExpansionsResolve == \A loc \in Locations : FullyExpandedLoc(loc) \in FileLocations

(***************************************************************************)
(* cacheBuffer never hands a null FileData to createBufferEntry, whose     *)
(* assertion SLANG_ASSERT(fd) would fail.                                  *)
(***************************************************************************)
NoNullFileData == \A t \in Threads : pc[t] # "crashed"

(***************************************************************************)
(* The text handed out with a buffer is the one cached for its path, also  *)
(* when two threads read the file at once and got different contents: all  *)
(* buffers of a file, and the line numbers computed for it, are about one  *)
(* text.                                                                   *)
(***************************************************************************)
BufferTextIsCached ==
    /\ \A t \in Threads :
           ret[t].op \in {"read", "assign"} /\ ret[t].text # Absent
               => ret[t].text = lookupCache[ret[t].path]
    /\ \A b \in DOMAIN bufferEntries :
           bufferEntries[b].kind = "file" => lookupCache[bufferEntries[b].path] \in Texts

(***************************************************************************)
(* A finished search stopped at the first of its candidates that is        *)
(* neither unusable nor cached as an error, and found nothing only if      *)
(* there is no such candidate.                                             *)
(***************************************************************************)
FirstMatchWins ==
    \A t \in Threads :
        ret[t].op = "read" =>
            LET Openable(i) == /\ ret[t].search[i] \notin BadPaths
                               /\ lookupCache[ret[t].search[i]] # Failed
            IN  IF ret[t].path = NoPath
                THEN \A i \in DOMAIN ret[t].search : ~Openable(i)
                ELSE \E i \in DOMAIN ret[t].search :
                         /\ ret[t].search[i] = ret[t].path
                         /\ Openable(i)
                         /\ \A j \in 1 .. i - 1 : ~Openable(j)

(***************************************************************************)
(* Two threads that look for the same header find the same file with the   *)
(* same text, whatever the order of their lookups, reads and insertions:   *)
(* which file an `include means does not depend on the schedule.           *)
(***************************************************************************)
SearchesAgree ==
    \A t, u \in Threads :
        ret[t].op = "read" /\ ret[u].op = "read" /\ ret[t].search = ret[u].search
            => ret[t].path = ret[u].path /\ ret[t].text = ret[u].text

(***************************************************************************)
(* What the outside world must guarantee for the three properties above:   *)
(* a path that can be read can always be read, and a path whose read may   *)
(* fail always fails and is not also assigned a text.                      *)
(***************************************************************************)
StableFiles ==
    \A p \in Paths :
        Failed \in Outcomes[p] => Outcomes[p] = {Failed} /\ p \notin AssignPaths

(***************************************************************************)
(* The line a finished getLineNumber returned is the one its location is   *)
(* on, as numbered by the `line directives its buffer had at some moment   *)
(* up to now.                                                              *)
(***************************************************************************)
LineCorrect(t) ==
    LET loc == ret[t].loc
        raw == LineOf(lookupCache[PathOf(loc)], loc.offset)
    IN  \E n \in 0 .. Len(DirectivesOf(loc)) :
            ret[t].line = ReportedLine(SubSeq(DirectivesOf(loc), 1, n), raw)

(***************************************************************************)
(* getLineNumber returns the right line, whatever the other threads do.    *)
(***************************************************************************)
LineNumberCorrect == \A t \in Threads : ret[t].op = "line" => LineCorrect(t)

(***************************************************************************)
(* The same for a file whose offsets were computed once: opens, macro      *)
(* expansions, `line directives and queries of other threads do not make   *)
(* an answer wrong, only the second computation of the offsets can.        *)
(***************************************************************************)
UnracedLineCorrect ==
    \A t \in Threads :
        /\ ret[t].op = "line"
        /\ LET path == PathOf(ret[t].loc)
           IN  lineOffsets[path] = LineOffsets(lookupCache[path])
        => LineCorrect(t)

(***************************************************************************)
(* What a step may never do: replace or drop a cache entry (SourceBuffers  *)
(* point into its text), change line offsets other than by appending, or   *)
(* drop, reorder or retarget a buffer entry (BufferIDs are indexes).       *)
(***************************************************************************)
IsExtension(old, new) == Len(old) <= Len(new) /\ SubSeq(new, 1, Len(old)) = old

EntriesStep ==
    /\ \A p \in Paths : lookupCache[p] # Absent => lookupCache'[p] = lookupCache[p]
    /\ \A p \in Paths : IsExtension(lineOffsets[p], lineOffsets'[p])
    /\ Len(bufferEntries) <= Len(bufferEntries')
    /\ \A b \in DOMAIN bufferEntries :
           IF bufferEntries[b].kind = "expansion"
           THEN bufferEntries'[b] = bufferEntries[b]
           ELSE /\ bufferEntries'[b].kind = "file"
                /\ bufferEntries'[b].path = bufferEntries[b].path
                /\ IsExtension(bufferEntries[b].lineDirectives,
                               bufferEntries'[b].lineDirectives)

EntriesAreFinal == [][EntriesStep]_vars

(***************************************************************************)
(* Every call returns: no thread stays inside the source manager.          *)
(***************************************************************************)
CallsReturn == \A t \in Threads : pc[t] # "idle" ~> pc[t] = "idle"
===============================================================================
