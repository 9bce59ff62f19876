-------------------------- MODULE SourceManagerProofs --------------------------
(***************************************************************************)
(* Proofs about SourceManager, for any number of threads, paths, texts and *)
(* buffers: types and pointers, then the cache that threads fill by        *)
(* opening files at once: what a step may never do to the entries, which   *)
(* text a buffer has, and which file a search finds; then the locations:   *)
(* every one leads to a place in a file, through any number of macro       *)
(* expansions, and what getLineNumber answers is right when no two threads *)
(* raced to compute the offsets of the file.  MCSourceManager is here for  *)
(* LinesExact, which looks at the text algorithms of all short texts.      *)
(***************************************************************************)
EXTENDS MCSourceManager, SourceTextProofs, SequenceTheorems

(***************************************************************************)
(* What a call in progress knows of its arguments.                         *)
(***************************************************************************)
CallOK(t) ==
    /\ pc[t] \in Opening => call[t].pos \in 1 .. Len(call[t].search)
    /\ pc[t] \in {"lookup", "read", "insertError"} => call[t].op = "read"
    /\ pc[t] = "insert" => call[t].text \in Texts /\ call[t].op \in {"read", "assign"}
    /\ pc[t] \in {"compute", "relock"} =>
           call[t].loc \in FileLocations /\ call[t].op = "line"

(***************************************************************************)
(* Buffers are made of loaded files only.                                  *)
(***************************************************************************)
FilesLoaded ==
    \A b \in DOMAIN bufferEntries :
        bufferEntries[b].kind = "file" => lookupCache[bufferEntries[b].path] \in Texts

(***************************************************************************)
(* The inductive invariant behind TypeOK and NoStaleInfo.                  *)
(***************************************************************************)
IndInv ==
    /\ TypeOK
    /\ \A t \in Threads : CallOK(t)
    /\ FilesLoaded
    /\ DirectivesImplyOffsets

LEMMA NoCallType == NoCall \in Calls
  BY DEF NoCall, Calls, Ops

LEMMA HeaderCandidatesType ==
    \A local, additional, library \in Seq(Paths) :
        HeaderCandidates(local, additional, library) \in Seq(Paths)
<1>1. UserDirs \in Seq(Paths)
  BY DirsOK
<1> QED
  BY <1>1 DEF HeaderCandidates

LEMMA SearchType ==
    ASSUME NEW s \in Searches
    PROVE  s \in Seq(Paths)
<1>1. CASE s \in {<<p>> : p \in Paths}
  BY <1>1
<1>2. CASE s = SystemDirs
  BY <1>2, DirsOK
<1>3. ASSUME NEW local \in {<<>>, LocalDir}, NEW additional \in {<<>>, AdditionalDirs},
             NEW library \in {<<>>, LibraryDirs},
             s = HeaderCandidates(local, additional, library)
      PROVE  s \in Seq(Paths)
  <2>0. <<>> \in Seq(Paths)
    OBVIOUS
  <2>1. local \in Seq(Paths) /\ additional \in Seq(Paths) /\ library \in Seq(Paths)
    BY <2>0, DirsOK, Zenon
  <2> QED
    BY <1>3, <2>1, HeaderCandidatesType
<1> QED
  BY <1>1, <1>2, <1>3 DEF Searches

LEMMA InitInd == Init => IndInv
  BY NoCallType DEF Init, IndInv, TypeOK, CallOK, FilesLoaded, DirectivesImplyOffsets, Opening,
     Results, PCs

(***************************************************************************)
(* The parts of a step.                                                    *)
(***************************************************************************)
LEMMA FinishType ==
    ASSUME TypeOK, NEW t \in Threads, NEW r \in Results, Finish(t, r)
    PROVE  /\ pc' \in [Threads -> PCs]
           /\ call' \in [Threads -> Calls]
           /\ ret' \in [Threads -> Results]
           /\ pc'[t] = "idle"
           /\ \A u \in Threads \ {t} : pc'[u] = pc[u] /\ call'[u] = call[u]
  BY NoCallType DEF TypeOK, Finish, PCs

LEMMA NextCandidateType ==
    ASSUME TypeOK, NEW t \in Threads, CallOK(t), pc[t] \in Opening, call[t].op = "read",
           NextCandidate(t)
    PROVE  /\ pc' \in [Threads -> PCs]
           /\ call' \in [Threads -> Calls]
           /\ ret' \in [Threads -> Results]
           /\ \/ pc'[t] = "idle"
              \/ /\ pc'[t] = "lookup"
                 /\ call'[t].op = "read"
                 /\ call'[t].pos \in 1 .. Len(call'[t].search)
           /\ \A u \in Threads \ {t} : pc'[u] = pc[u] /\ call'[u] = call[u]
<1>1. CASE call[t].pos < Len(call[t].search)
  <2>1. call[t] \in Calls /\ call[t].pos \in Nat /\ call[t].search \in Seq(Paths)
    BY DEF TypeOK, Calls
  <2>2. call' = [call EXCEPT ![t] = [call[t] EXCEPT !.pos = call[t].pos + 1]]
    BY <1>1 DEF NextCandidate
  <2>3. [call[t] EXCEPT !.pos = call[t].pos + 1] \in Calls
    BY <2>1 DEF Calls
  <2>4. /\ pc' = [pc EXCEPT ![t] = "lookup"]
        /\ UNCHANGED ret
    BY <1>1 DEF NextCandidate
  <2>5. /\ call'[t].op = "read"
        /\ call'[t].search = call[t].search
        /\ call'[t].pos = call[t].pos + 1
    BY <2>1, <2>2 DEF TypeOK, Calls
  <2>6. call'[t].pos \in 1 .. Len(call'[t].search)
    BY <1>1, <2>1, <2>5
  <2> QED
    BY <2>2, <2>3, <2>4, <2>5, <2>6 DEF TypeOK, PCs
<1>2. CASE ~(call[t].pos < Len(call[t].search))
  <2> DEFINE r == [op |-> "read", search |-> call[t].search, path |-> NoPath, text |-> Absent]
  <2>1. r \in Results
    BY DEF TypeOK, Calls, Results
  <2>2. Finish(t, r)
    BY <1>2 DEF NextCandidate
  <2> QED
    BY <2>1, <2>2, FinishType
<1> QED
  BY <1>1, <1>2

LEMMA AppendEntry ==
    ASSUME TypeOK, NEW e \in FileInfo \cup ExpansionInfo,
           bufferEntries' = Append(bufferEntries, e)
    PROVE  /\ bufferEntries' \in Seq(FileInfo \cup ExpansionInfo)
           /\ Len(bufferEntries') = Len(bufferEntries) + 1
           /\ DOMAIN bufferEntries' = DOMAIN bufferEntries \cup {Len(bufferEntries) + 1}
           /\ \A b \in DOMAIN bufferEntries : bufferEntries'[b] = bufferEntries[b]
           /\ bufferEntries'[Len(bufferEntries) + 1] = e
           /\ FileLocations \subseteq FileLocations'
<1>1. bufferEntries \in Seq(FileInfo \cup ExpansionInfo)
  BY DEF TypeOK
<1>2. /\ bufferEntries' \in Seq(FileInfo \cup ExpansionInfo)
      /\ Len(bufferEntries') = Len(bufferEntries) + 1
      /\ \A b \in DOMAIN bufferEntries : bufferEntries'[b] = bufferEntries[b]
      /\ bufferEntries'[Len(bufferEntries) + 1] = e
  BY <1>1
<1>3. DOMAIN bufferEntries' = DOMAIN bufferEntries \cup {Len(bufferEntries) + 1}
  BY <1>1, <1>2
<1> QED
  BY <1>1, <1>2, <1>3 DEF FileLocations, Locations

LEMMA CreateBufferEntryType ==
    ASSUME IndInv, NEW t \in Threads, NEW path \in Paths, NEW text \in Texts,
           pc[t] \in {"lookup", "insert"}, CreateBufferEntry(t, path, text),
           lookupCache' \in [Paths -> Texts \cup {Absent, Failed}],
           lookupCache'[path] \in Texts,
           \A p \in Paths : lookupCache[p] \in Texts => lookupCache'[p] \in Texts,
           UNCHANGED lineOffsets
    PROVE  IndInv'
<1> DEFINE e == [kind |-> "file", path |-> path, lineDirectives |-> <<>>]
           r == IF call[t].op = "assign"
                THEN [op |-> "assign", path |-> path, text |-> text]
                ELSE [op |-> "read", search |-> call[t].search, path |-> path, text |-> text]
<1>0. TypeOK /\ CallOK(t)
  BY DEF IndInv
<1>1. e \in FileInfo
  BY DEF FileInfo
<1>2. bufferEntries' = Append(bufferEntries, e) /\ Finish(t, r)
  BY DEF CreateBufferEntry
<1>3. call[t] \in Calls
  BY <1>0 DEF TypeOK
<1>4. r \in Results
  <2>1. CASE call[t].op = "assign"
    BY <1>0, <1>3, <2>1 DEF CallOK, Results
  <2>2. CASE call[t].op # "assign"
    BY <1>3, <2>2 DEF Calls, Results
  <2> QED
    BY <2>1, <2>2
<1> HIDE DEF e, r
<1>5. TypeOK'
  BY <1>0, <1>1, <1>2, <1>4, FinishType, AppendEntry DEF TypeOK
<1>6. ASSUME NEW u \in Threads PROVE CallOK(u)'
  BY <1>0, <1>1, <1>2, <1>4, FinishType, AppendEntry DEF IndInv, CallOK, Opening
<1>7. FilesLoaded'
  BY <1>0, <1>1, <1>2, AppendEntry DEF IndInv, FilesLoaded, TypeOK, FileInfo, ExpansionInfo, e
<1>8. DirectivesImplyOffsets'
  BY <1>0, <1>1, <1>2, AppendEntry DEF IndInv, DirectivesImplyOffsets, e
<1> QED
  BY <1>5, <1>6, <1>7, <1>8 DEF IndInv

LEMMA CandidateType ==
    ASSUME TypeOK, NEW t \in Threads, CallOK(t), pc[t] \in Opening
    PROVE  Candidate(t) \in Paths
<1>1. call[t].search \in Seq(Paths) /\ call[t].pos \in 1 .. Len(call[t].search)
  BY DEF TypeOK, CallOK, Calls
<1> QED
  BY <1>1 DEF Candidate

LEMMA AnswerType ==
    ASSUME TypeOK, NEW t \in Threads, NEW op \in {"line", "name"}, NEW loc \in FileLocations,
           Answer(t, op, loc)
    PROVE  \E r \in Results : Finish(t, r)
<1> DEFINE offsets == lineOffsets[PathOf(loc)]
           directives == DirectivesOf(loc)
<1>1. /\ loc \in SourceLocations
      /\ bufferEntries[loc.buffer] \in FileInfo
      /\ loc.buffer \in DOMAIN bufferEntries
  BY DEF TypeOK, FileLocations, Locations, SourceLocations, FileInfo, ExpansionInfo
<1>2. offsets \in Seq(Nat) /\ directives \in Seq(LineDirectiveInfo)
  BY <1>1 DEF TypeOK, PathOf, DirectivesOf, FileInfo
<1>3. PICK raw \in 0 .. Len(offsets), d \in 0 .. Len(directives) :
          Finish(t, IF op = "line"
                    THEN [op |-> "line", loc |-> loc, line |-> NumberedLine(directives, d, raw)]
                    ELSE [op |-> "name", loc |-> loc, directive |-> d])
  BY DEF Answer
<1> HIDE DEF offsets, directives
<1>4. raw \in Nat /\ d \in Nat
  BY <1>2
<1>5. NumberedLine(directives, d, raw) \in Int
  <2>1. CASE raw = 0 \/ d = 0
    BY <1>4, <2>1 DEF NumberedLine
  <2>2. CASE ~(raw = 0 \/ d = 0)
    <3>1. directives[d] \in LineDirectiveInfo
      BY <1>2, <1>4, <2>2
    <3>2. directives[d].lineOfDirective \in LineNums /\ directives[d].lineInFile \in Nat
      BY <3>1 DEF LineDirectiveInfo
    <3>3. directives[d].lineOfDirective \in Nat
      BY <3>2, NumbersOK
    <3> QED
      BY <1>4, <2>2, <3>2, <3>3 DEF NumberedLine
  <2> QED
    BY <2>1, <2>2
<1>6. CASE op = "line"
  BY <1>1, <1>3, <1>5, <1>6 DEF Results
<1>7. CASE op # "line"
  BY <1>1, <1>3, <1>4, <1>7 DEF Results
<1> QED
  BY <1>6, <1>7

LEMMA RawLineNumberType ==
    ASSUME IndInv, NEW t \in Threads, NEW op \in {"line", "name"},
           NEW loc \in FileLocations, op = "name" => DirectivesOf(loc) # <<>>,
           RawLineNumber(t, op, loc)
    PROVE  /\ pc' \in [Threads -> PCs]
           /\ call' \in [Threads -> Calls]
           /\ ret' \in [Threads -> Results]
           /\ \/ pc'[t] = "idle"
              \/ pc'[t] = "compute" /\ call'[t].loc \in FileLocations /\ call'[t].op = "line"
           /\ \A u \in Threads \ {t} : pc'[u] = pc[u] /\ call'[u] = call[u]
<1>1. TypeOK
  BY DEF IndInv
<1>2. CASE lineOffsets[PathOf(loc)] # <<>>
  BY <1>1, <1>2, AnswerType, FinishType DEF RawLineNumber
<1>3. CASE lineOffsets[PathOf(loc)] = <<>>
  <2>1. op = "line"
    BY <1>3 DEF IndInv, DirectivesImplyOffsets, FileLocations, Locations, PathOf, DirectivesOf
  <2>2. loc \in SourceLocations /\ Len(bufferEntries) \in Nat
    BY <1>1 DEF TypeOK, FileLocations, Locations, SourceLocations
  <2>3. LineCall(op, loc) \in Calls /\ LineCall(op, loc).op = op /\ LineCall(op, loc).loc = loc
    BY <2>2 DEF LineCall, Calls, Ops
  <2>4. /\ pc' = [pc EXCEPT ![t] = "compute"]
        /\ call' = [call EXCEPT ![t] = LineCall(op, loc)]
        /\ UNCHANGED ret
    BY <1>3 DEF RawLineNumber
  <2> QED
    BY <1>1, <2>1, <2>3, <2>4 DEF TypeOK, PCs
<1> QED
  BY <1>2, <1>3

LEMMA ComputeOffsetsType ==
    ASSUME TypeOK, NEW path \in Paths, lookupCache[path] \in Texts
    PROVE  /\ ComputeOffsets(path) \in [Paths -> Seq(Nat)]
           /\ ComputeOffsets(path)[path] # <<>>
           /\ \A p \in Paths : lineOffsets[p] # <<>> => ComputeOffsets(path)[p] # <<>>
<1> DEFINE new == LineOffsets(lookupCache[path])
<1>1. new \in Seq(Nat) /\ new # <<>>
  BY LineOffsetsOK
<1>2. lineOffsets \in [Paths -> Seq(Nat)]
  BY DEF TypeOK
<1>3. ComputeOffsets(path) = [lineOffsets EXCEPT ![path] = lineOffsets[path] \o new]
  BY DEF ComputeOffsets
<1> HIDE DEF new
<1>4. lineOffsets[path] \o new \in Seq(Nat) /\ lineOffsets[path] \o new # <<>>
  BY <1>1, <1>2
<1> QED
  BY <1>2, <1>3, <1>4

LEMMA FileLocationLoaded ==
    ASSUME TypeOK, FilesLoaded, NEW loc \in FileLocations
    PROVE  PathOf(loc) \in Paths /\ lookupCache[PathOf(loc)] \in Texts
  BY DEF TypeOK, FilesLoaded, FileLocations, Locations, PathOf, FileInfo, ExpansionInfo

LEMMA PushDirectiveType ==
    ASSUME TypeOK, NEW loc \in FileLocations, NEW d \in LineDirectiveInfo,
           PushDirective(loc, d)
    PROVE  /\ bufferEntries' \in Seq(FileInfo \cup ExpansionInfo)
           /\ DOMAIN bufferEntries' = DOMAIN bufferEntries
           /\ Len(bufferEntries') = Len(bufferEntries)
           /\ \A b \in DOMAIN bufferEntries :
                  IF b = loc.buffer
                  THEN /\ bufferEntries'[b].kind = "file"
                       /\ bufferEntries'[b].path = bufferEntries[b].path
                       /\ bufferEntries'[b].lineDirectives =
                              Append(bufferEntries[b].lineDirectives, d)
                  ELSE bufferEntries'[b] = bufferEntries[b]
           /\ FileLocations \subseteq FileLocations'
<1> DEFINE e == bufferEntries[loc.buffer]
           f == [kind |-> "file", path |-> e.path, lineDirectives |-> Append(e.lineDirectives, d)]
<1>1. loc.buffer \in DOMAIN bufferEntries /\ e \in FileInfo
  BY DEF TypeOK, FileLocations, Locations, FileInfo, ExpansionInfo
<1>2. /\ f \in FileInfo
      /\ f.path = e.path
      /\ f.kind = "file"
      /\ f.lineDirectives = Append(e.lineDirectives, d)
  BY <1>1 DEF FileInfo
<1>3. bufferEntries' = [bufferEntries EXCEPT ![loc.buffer] = f]
  BY DEF PushDirective, PathOf, DirectivesOf
<1>4. bufferEntries \in Seq(FileInfo \cup ExpansionInfo)
  BY DEF TypeOK
<1> HIDE DEF f
<1>5. /\ bufferEntries' \in Seq(FileInfo \cup ExpansionInfo)
      /\ DOMAIN bufferEntries' = DOMAIN bufferEntries
      /\ Len(bufferEntries') = Len(bufferEntries)
      /\ bufferEntries'[loc.buffer] = f
      /\ \A b \in DOMAIN bufferEntries \ {loc.buffer} : bufferEntries'[b] = bufferEntries[b]
  BY <1>1, <1>2, <1>3, <1>4, ExceptSeq
<1>6. FileLocations \subseteq FileLocations'
  BY <1>1, <1>2, <1>5 DEF FileLocations, Locations
<1> QED
  BY <1>1, <1>2, <1>5, <1>6

(***************************************************************************)
(* One step per action.                                                    *)
(***************************************************************************)
LEMMA NextInd == IndInv /\ [Next]_vars => IndInv'
<1> SUFFICES ASSUME IndInv, [Next]_vars PROVE IndInv'
  OBVIOUS
<1>0. TypeOK /\ FilesLoaded /\ DirectivesImplyOffsets /\ \A u \in Threads : CallOK(u)
  BY DEF IndInv
<1>1. ASSUME NEW t \in Threads, ReadSource(t) PROVE IndInv'
  <2>1. PICK s \in Searches :
            IF s = <<>>
            THEN Finish(t, [op |-> "read", search |-> s, path |-> NoPath, text |-> Absent])
            ELSE /\ pc' = [pc EXCEPT ![t] = "lookup"]
                 /\ call' = [call EXCEPT ![t] = OpenCall("read", s, Absent)]
                 /\ UNCHANGED ret
    BY <1>1 DEF ReadSource
  <2>2. s \in Seq(Paths)
    BY SearchType
  <2>3. UNCHANGED <<lookupCache, lineOffsets, bufferEntries>>
    BY <1>1 DEF ReadSource
  <2>4. FilesLoaded' /\ DirectivesImplyOffsets' /\ FileLocations' = FileLocations
    BY <1>0, <2>3 DEF FilesLoaded, DirectivesImplyOffsets, FileLocations, Locations
  <2>5. CASE s = <<>>
    <3>1. [op |-> "read", search |-> s, path |-> NoPath, text |-> Absent] \in Results
      BY <2>2 DEF Results
    <3>2. TypeOK'
      BY <1>0, <2>1, <2>3, <2>5, <3>1, FinishType DEF TypeOK
    <3>3. ASSUME NEW u \in Threads PROVE CallOK(u)'
      BY <1>0, <2>1, <2>4, <2>5, <3>1, FinishType DEF CallOK, Opening
    <3> QED
      BY <2>4, <3>2, <3>3 DEF IndInv
  <2>6. CASE s # <<>>
    <3>1. /\ OpenCall("read", s, Absent) \in Calls
          /\ OpenCall("read", s, Absent).op = "read"
          /\ OpenCall("read", s, Absent).pos = 1
          /\ OpenCall("read", s, Absent).search = s
      BY <2>2 DEF OpenCall, Calls, Ops
    <3>2. 1 \in 1 .. Len(s)
      BY <2>2, <2>6
    <3>3. TypeOK'
      BY <1>0, <2>1, <2>3, <2>6, <3>1 DEF TypeOK, PCs
    <3>4. ASSUME NEW u \in Threads PROVE CallOK(u)'
      BY <1>0, <2>1, <2>4, <2>6, <3>1, <3>2 DEF TypeOK, CallOK, Opening
    <3> QED
      BY <2>4, <3>3, <3>4 DEF IndInv
  <2> QED
    BY <2>5, <2>6
<1>2. ASSUME NEW t \in Threads, Lookup(t) PROVE IndInv'
  <2>1. pc[t] = "lookup" /\ UNCHANGED <<lookupCache, lineOffsets>>
    BY <1>2 DEF Lookup
  <2>2. Candidate(t) \in Paths /\ call[t].op = "read" /\ pc[t] \in Opening
    BY <1>0, <2>1, CandidateType DEF CallOK, Opening
  <2>3. CASE NextCandidate(t) /\ UNCHANGED bufferEntries
    <3>1. FilesLoaded' /\ DirectivesImplyOffsets' /\ FileLocations' = FileLocations
      BY <1>0, <2>1, <2>3 DEF FilesLoaded, DirectivesImplyOffsets, FileLocations, Locations
    <3>2. TypeOK'
      BY <1>0, <2>1, <2>2, <2>3, NextCandidateType DEF TypeOK
    <3>3. ASSUME NEW u \in Threads PROVE CallOK(u)'
      BY <1>0, <2>2, <2>3, <3>1, NextCandidateType DEF CallOK, Opening
    <3> QED
      BY <3>1, <3>2, <3>3 DEF IndInv
  <2>4. CASE /\ lookupCache[Candidate(t)] \in Texts
             /\ CreateBufferEntry(t, Candidate(t), lookupCache[Candidate(t)])
    BY <1>0, <2>1, <2>2, <2>4, CreateBufferEntryType DEF TypeOK
  <2>5. CASE pc' = [pc EXCEPT ![t] = "read"] /\ UNCHANGED <<bufferEntries, call, ret>>
    <3>1. FilesLoaded' /\ DirectivesImplyOffsets' /\ FileLocations' = FileLocations
      BY <1>0, <2>1, <2>5 DEF FilesLoaded, DirectivesImplyOffsets, FileLocations, Locations
    <3>2. TypeOK'
      BY <1>0, <2>1, <2>5 DEF TypeOK, PCs
    <3>3. ASSUME NEW u \in Threads PROVE CallOK(u)'
      BY <1>0, <2>1, <2>5, <3>1 DEF TypeOK, CallOK, Opening
    <3> QED
      BY <3>1, <3>2, <3>3 DEF IndInv
  <2> QED
    BY <1>2, <2>3, <2>4, <2>5 DEF Lookup
<1>3. ASSUME NEW t \in Threads, ReadFile(t) PROVE IndInv'
  <2>1. pc[t] = "read" /\ UNCHANGED <<lookupCache, lineOffsets, bufferEntries, ret>>
    BY <1>3 DEF ReadFile
  <2>2. Candidate(t) \in Paths /\ call[t].op = "read"
    BY <1>0, <2>1, CandidateType DEF CallOK, Opening
  <2>3. PICK outcome \in Outcomes[Candidate(t)] :
            IF outcome = Failed
            THEN pc' = [pc EXCEPT ![t] = "insertError"] /\ UNCHANGED call
            ELSE /\ pc' = [pc EXCEPT ![t] = "insert"]
                 /\ call' = [call EXCEPT ![t] = [call[t] EXCEPT !.text = outcome]]
    BY <1>3 DEF ReadFile
  <2>4. outcome \in Texts \cup {Failed}
    BY <2>2, FilesOK
  <2>5. FilesLoaded' /\ DirectivesImplyOffsets' /\ FileLocations' = FileLocations
    BY <1>0, <2>1 DEF FilesLoaded, DirectivesImplyOffsets, FileLocations, Locations
  <2>6. CASE outcome = Failed
    <3>1. TypeOK'
      BY <1>0, <2>1, <2>3, <2>6 DEF TypeOK, PCs
    <3>2. ASSUME NEW u \in Threads PROVE CallOK(u)'
      BY <1>0, <2>1, <2>3, <2>5, <2>6 DEF TypeOK, CallOK, Opening
    <3> QED
      BY <2>5, <3>1, <3>2 DEF IndInv
  <2>7. CASE outcome # Failed
    <3> DEFINE c == [call[t] EXCEPT !.text = outcome]
    <3>1. call[t] \in Calls
      BY <1>0 DEF TypeOK
    <3>2. /\ c \in Calls /\ c.text \in Texts /\ c.op = "read"
          /\ c.pos = call[t].pos /\ c.search = call[t].search
      BY <2>2, <2>4, <2>7, <3>1 DEF Calls
    <3>3. pc' = [pc EXCEPT ![t] = "insert"] /\ call' = [call EXCEPT ![t] = c]
      BY <2>3, <2>7
    <3> HIDE DEF c
    <3>4. TypeOK'
      BY <1>0, <2>1, <3>2, <3>3 DEF TypeOK, PCs
    <3>5. ASSUME NEW u \in Threads PROVE CallOK(u)'
      BY <1>0, <2>1, <2>5, <3>2, <3>3 DEF TypeOK, CallOK, Opening
    <3> QED
      BY <2>5, <3>4, <3>5 DEF IndInv
  <2> QED
    BY <2>6, <2>7
<1>4. ASSUME NEW t \in Threads, InsertError(t) PROVE IndInv'
  <2>1. pc[t] = "insertError" /\ NextCandidate(t) /\ UNCHANGED <<lineOffsets, bufferEntries>>
    BY <1>4 DEF InsertError
  <2>2. Candidate(t) \in Paths /\ call[t].op = "read" /\ pc[t] \in Opening
    BY <1>0, <2>1, CandidateType DEF CallOK, Opening
  <2>3. /\ lookupCache' \in [Paths -> Texts \cup {Absent, Failed}]
        /\ \A p \in Paths : lookupCache[p] \in Texts => lookupCache'[p] \in Texts
    BY <1>0, <1>4, <2>2, ValuesOK DEF InsertError, TypeOK
  <2>4. FileLocations' = FileLocations
    BY <2>1 DEF FileLocations, Locations
  <2>5. TypeOK'
    BY <1>0, <2>1, <2>2, <2>3, NextCandidateType DEF TypeOK
  <2>6. ASSUME NEW u \in Threads PROVE CallOK(u)'
    BY <1>0, <2>1, <2>2, <2>4, NextCandidateType DEF CallOK, Opening
  <2>7. FilesLoaded'
    BY <1>0, <2>1, <2>3 DEF FilesLoaded, TypeOK, FileInfo, ExpansionInfo
  <2>8. DirectivesImplyOffsets'
    BY <1>0, <2>1 DEF DirectivesImplyOffsets
  <2> QED
    BY <2>5, <2>6, <2>7, <2>8 DEF IndInv
<1>5. ASSUME NEW t \in Threads, CacheBuffer(t) PROVE IndInv'
  <2>1. pc[t] = "insert" /\ UNCHANGED lineOffsets
    BY <1>5 DEF CacheBuffer
  <2>2. Candidate(t) \in Paths /\ call[t].text \in Texts
    BY <1>0, <2>1, CandidateType DEF CallOK, Opening
  <2>3. CASE /\ lookupCache' = [lookupCache EXCEPT ![Candidate(t)] = call[t].text]
             /\ CreateBufferEntry(t, Candidate(t), call[t].text)
    BY <1>0, <2>1, <2>2, <2>3, CreateBufferEntryType DEF TypeOK
  <2>4. CASE /\ lookupCache[Candidate(t)] \in Texts
             /\ CreateBufferEntry(t, Candidate(t), lookupCache[Candidate(t)])
             /\ UNCHANGED lookupCache
    BY <1>0, <2>1, <2>2, <2>4, CreateBufferEntryType DEF TypeOK
  <2>5. CASE /\ pc' = [pc EXCEPT ![t] = "crashed"]
             /\ UNCHANGED <<lookupCache, bufferEntries, call, ret>>
    <3>1. FilesLoaded' /\ DirectivesImplyOffsets' /\ FileLocations' = FileLocations
      BY <1>0, <2>1, <2>5 DEF FilesLoaded, DirectivesImplyOffsets, FileLocations, Locations
    <3>2. TypeOK'
      BY <1>0, <2>1, <2>5 DEF TypeOK, PCs
    <3>3. ASSUME NEW u \in Threads PROVE CallOK(u)'
      BY <1>0, <2>1, <2>5, <3>1 DEF TypeOK, CallOK, Opening
    <3> QED
      BY <3>1, <3>2, <3>3 DEF IndInv
  <2>6. lookupCache[Candidate(t)] \in Texts \cup {Absent, Failed}
    BY <1>0, <2>2 DEF TypeOK
  <2> QED
    BY <1>5, <2>3, <2>4, <2>5, <2>6 DEF CacheBuffer
<1>6. ASSUME NEW t \in Threads, AssignBuffer(t) PROVE IndInv'
  <2>1. PICK path \in AssignPaths, text \in Texts :
            /\ pc' = [pc EXCEPT ![t] = "insert"]
            /\ call' = [call EXCEPT ![t] = OpenCall("assign", <<path>>, text)]
    BY <1>6 DEF AssignBuffer
  <2>2. UNCHANGED <<lookupCache, lineOffsets, bufferEntries, ret>>
    BY <1>6 DEF AssignBuffer
  <2>3. FilesLoaded' /\ DirectivesImplyOffsets' /\ FileLocations' = FileLocations
    BY <1>0, <2>2 DEF FilesLoaded, DirectivesImplyOffsets, FileLocations, Locations
  <2> DEFINE c == OpenCall("assign", <<path>>, text)
  <2>4. path \in Paths
    BY FilesOK
  <2>5. c \in Calls /\ c.op = "assign" /\ c.text = text /\ c.pos \in 1 .. Len(c.search)
    BY <2>4 DEF OpenCall, Calls, Ops
  <2> HIDE DEF c
  <2>6. TypeOK'
    BY <1>0, <2>1, <2>2, <2>5 DEF TypeOK, PCs, c
  <2>7. ASSUME NEW u \in Threads PROVE CallOK(u)'
    <3>1. pc' = [pc EXCEPT ![t] = "insert"] /\ call' = [call EXCEPT ![t] = c]
      BY <2>1 DEF c
    <3> QED
      BY <1>0, <2>3, <2>5, <3>1 DEF TypeOK, CallOK, Opening
  <2> QED
    BY <2>3, <2>6, <2>7 DEF IndInv
<1>7. ASSUME NEW t \in Threads, CreateExpansionLoc(t) PROVE IndInv'
  <2>1. PICK start \in Locations :
            bufferEntries' = Append(bufferEntries, [kind |-> "expansion", start |-> start])
    BY <1>7 DEF CreateExpansionLoc
  <2>2. UNCHANGED <<lookupCache, lineOffsets, pc, call, ret>>
    BY <1>7 DEF CreateExpansionLoc
  <2> DEFINE e == [kind |-> "expansion", start |-> start]
  <2>3. e \in ExpansionInfo
    BY <1>0 DEF TypeOK, Locations, SourceLocations, ExpansionInfo
  <2>4. e.kind = "expansion" /\ bufferEntries' = Append(bufferEntries, e)
    BY <2>1
  <2> HIDE DEF e
  <2>5. TypeOK'
    BY <1>0, <2>2, <2>3, <2>4, AppendEntry DEF TypeOK
  <2>6. ASSUME NEW u \in Threads PROVE CallOK(u)'
    BY <1>0, <2>2, <2>3, <2>4, AppendEntry DEF CallOK, Opening
  <2>7. FilesLoaded' /\ DirectivesImplyOffsets'
    BY <1>0, <2>2, <2>3, <2>4, AppendEntry DEF FilesLoaded, DirectivesImplyOffsets
  <2> QED
    BY <2>5, <2>6, <2>7 DEF IndInv
<1>8. ASSUME NEW t \in Threads, AddLineDirective(t) PROVE IndInv'
  <2>1. PICK loc \in FileLocations, lineNum \in LineNums :
            LET path == PathOf(loc)
                offsets == IF lineOffsets[path] = <<>> THEN ComputeOffsets(path) ELSE lineOffsets
            IN  /\ lineOffsets' = offsets
                /\ \E raw \in 0 .. Len(offsets[path]) :
                       PushDirective(loc, [lineInFile |-> raw, lineOfDirective |-> lineNum])
    BY <1>8 DEF AddLineDirective, ResolvedLocations
  <2>2. UNCHANGED <<lookupCache, pc, call, ret>>
    BY <1>8 DEF AddLineDirective
  <2>3. PathOf(loc) \in Paths /\ lookupCache[PathOf(loc)] \in Texts
    BY <1>0, FileLocationLoaded
  <2>4. /\ lineOffsets' \in [Paths -> Seq(Nat)]
        /\ lineOffsets'[PathOf(loc)] # <<>>
        /\ \A p \in Paths : lineOffsets[p] # <<>> => lineOffsets'[p] # <<>>
    BY <1>0, <2>1, <2>3, ComputeOffsetsType DEF TypeOK
  <2>5. PICK raw \in 0 .. Len(lineOffsets'[PathOf(loc)]) :
            PushDirective(loc, [lineInFile |-> raw, lineOfDirective |-> lineNum])
    BY <2>1
  <2>6. [lineInFile |-> raw, lineOfDirective |-> lineNum] \in LineDirectiveInfo
    BY <2>3, <2>4 DEF LineDirectiveInfo
  <2>7. TypeOK'
    BY <1>0, <2>2, <2>4, <2>5, <2>6, PushDirectiveType DEF TypeOK
  <2>8. ASSUME NEW u \in Threads PROVE CallOK(u)'
    BY <1>0, <2>2, <2>5, <2>6, PushDirectiveType DEF CallOK, Opening
  <2>9. FilesLoaded'
    BY <1>0, <2>2, <2>3, <2>5, <2>6, PushDirectiveType DEF FilesLoaded, PathOf
  <2>10. DirectivesImplyOffsets'
    BY <1>0, <2>4, <2>5, <2>6, PushDirectiveType
       DEF DirectivesImplyOffsets, PathOf, TypeOK, FileInfo, ExpansionInfo
  <2> QED
    BY <2>7, <2>8, <2>9, <2>10 DEF IndInv
<1>9. ASSUME NEW t \in Threads, GetLineNumber(t) \/ GetFileName(t) PROVE IndInv'
  <2>1. UNCHANGED <<lookupCache, lineOffsets, bufferEntries>>
    BY <1>9 DEF GetLineNumber, GetFileName
  <2>2. FilesLoaded' /\ DirectivesImplyOffsets' /\ FileLocations' = FileLocations
    BY <1>0, <2>1 DEF FilesLoaded, DirectivesImplyOffsets, FileLocations, Locations
  <2>3. PICK loc \in FileLocations :
            \/ RawLineNumber(t, "line", loc)
            \/ Finish(t, [op |-> "name", loc |-> loc, directive |-> 0])
            \/ DirectivesOf(loc) # <<>> /\ RawLineNumber(t, "name", loc)
    BY <1>9 DEF GetLineNumber, GetFileName, ResolvedLocations
  <2>4. CASE Finish(t, [op |-> "name", loc |-> loc, directive |-> 0])
    <3>1. [op |-> "name", loc |-> loc, directive |-> 0] \in Results
      BY <1>0 DEF TypeOK, Results, FileLocations, Locations, SourceLocations
    <3>2. TypeOK'
      BY <1>0, <2>1, <2>4, <3>1, FinishType DEF TypeOK
    <3>3. ASSUME NEW u \in Threads PROVE CallOK(u)'
      BY <1>0, <2>2, <2>4, <3>1, FinishType DEF CallOK, Opening
    <3> QED
      BY <2>2, <3>2, <3>3 DEF IndInv
  <2>5. ASSUME NEW op \in {"line", "name"}, op = "name" => DirectivesOf(loc) # <<>>,
               RawLineNumber(t, op, loc)
        PROVE  IndInv'
    <3>1. TypeOK'
      BY <1>0, <2>1, <2>5, RawLineNumberType DEF TypeOK
    <3>2. ASSUME NEW u \in Threads PROVE CallOK(u)'
      BY <1>0, <2>2, <2>5, RawLineNumberType DEF CallOK, Opening
    <3> QED
      BY <2>2, <3>1, <3>2 DEF IndInv
  <2>6. CASE RawLineNumber(t, "line", loc)
    BY <2>5, <2>6
  <2>7. CASE DirectivesOf(loc) # <<>> /\ RawLineNumber(t, "name", loc)
    BY <2>5, <2>7
  <2> QED
    BY <2>3, <2>4, <2>6, <2>7
<1>10. ASSUME NEW t \in Threads, ComputeLocked(t) PROVE IndInv'
  <2>1. /\ pc[t] = "compute"
        /\ lineOffsets' = ComputeOffsets(PathOf(call[t].loc))
        /\ pc' = [pc EXCEPT ![t] = "relock"]
        /\ UNCHANGED <<lookupCache, bufferEntries, call, ret>>
    BY <1>10 DEF ComputeLocked
  <2>2. call[t].loc \in FileLocations
    BY <1>0, <2>1 DEF CallOK
  <2>3. PathOf(call[t].loc) \in Paths /\ lookupCache[PathOf(call[t].loc)] \in Texts
    BY <1>0, <2>2, FileLocationLoaded
  <2>4. /\ lineOffsets' \in [Paths -> Seq(Nat)]
        /\ \A p \in Paths : lineOffsets[p] # <<>> => lineOffsets'[p] # <<>>
    BY <1>0, <2>1, <2>3, ComputeOffsetsType
  <2>5. TypeOK'
    BY <1>0, <2>1, <2>4 DEF TypeOK, PCs
  <2>6. FileLocations' = FileLocations
    BY <2>1 DEF FileLocations, Locations
  <2>7. ASSUME NEW u \in Threads PROVE CallOK(u)'
    BY <1>0, <2>1, <2>6 DEF TypeOK, CallOK, Opening
  <2>8. FilesLoaded'
    BY <1>0, <2>1 DEF FilesLoaded
  <2>9. DirectivesImplyOffsets'
    BY <1>0, <2>1, <2>4 DEF DirectivesImplyOffsets, TypeOK, FileInfo, ExpansionInfo
  <2> QED
    BY <2>5, <2>7, <2>8, <2>9 DEF IndInv
<1>11. ASSUME NEW t \in Threads, Relock(t) PROVE IndInv'
  <2>1. /\ pc[t] = "relock"
        /\ Answer(t, call[t].op, call[t].loc)
        /\ UNCHANGED <<lookupCache, lineOffsets, bufferEntries>>
    BY <1>11 DEF Relock
  <2>2. call[t].loc \in FileLocations /\ call[t].op \in {"line", "name"}
    BY <1>0, <2>1 DEF CallOK
  <2>3. PICK r \in Results : Finish(t, r)
    BY <1>0, <2>1, <2>2, AnswerType
  <2>4. FilesLoaded' /\ DirectivesImplyOffsets' /\ FileLocations' = FileLocations
    BY <1>0, <2>1 DEF FilesLoaded, DirectivesImplyOffsets, FileLocations, Locations
  <2>5. TypeOK'
    BY <1>0, <2>1, <2>3, FinishType DEF TypeOK
  <2>6. ASSUME NEW u \in Threads PROVE CallOK(u)'
    BY <1>0, <2>3, <2>4, FinishType DEF CallOK, Opening
  <2> QED
    BY <2>4, <2>5, <2>6 DEF IndInv
<1>12. CASE UNCHANGED vars
  BY <1>0, <1>12 DEF vars, IndInv, TypeOK, CallOK, FilesLoaded, DirectivesImplyOffsets,
     FileLocations, Locations
<1> QED
  BY <1>1, <1>2, <1>3, <1>4, <1>5, <1>6, <1>7, <1>8, <1>9, <1>10, <1>11, <1>12 DEF Next

LEMMA Inductive == Spec => []IndInv
  BY InitInd, NextInd, PTL DEF Spec

(***************************************************************************)
(* The types of SourceManager.tla, for any constants.                      *)
(***************************************************************************)
THEOREM TypeCorrect == Spec => []TypeOK
  BY Inductive, PTL DEF IndInv

(***************************************************************************)
(* The FileInfo pointer getFileName holds across getRawLineNumber never    *)
(* dangles.  The reason is not in either function: addLineDirective        *)
(* computes the line offsets of a file before it stores its first          *)
(* directive, so getFileName, which asks for a raw line only when there    *)
(* are directives, never makes getRawLineNumber drop the lock.             *)
(***************************************************************************)
THEOREM FileNamePointerValid == Spec => []NoStaleInfo
<1>1. IndInv => NoStaleInfo
  BY DEF IndInv, CallOK, NoStaleInfo
<1> QED
  BY <1>1, Inductive, PTL
-------------------------------------------------------------------------------

(***************************************************************************)
(* Appending extends a sequence.                                           *)
(***************************************************************************)
LEMMA ExtensionReflexive ==
    ASSUME NEW S, NEW s \in Seq(S)
    PROVE  IsExtension(s, s)
  BY SubSeqFull DEF IsExtension

LEMMA ConcatExtends ==
    ASSUME NEW S, NEW s \in Seq(S), NEW t \in Seq(S)
    PROVE  IsExtension(s, s \o t)
<1>1. s \o t \in Seq(S) /\ Len(s \o t) = Len(s) + Len(t)
  OBVIOUS
<1>2. CASE s = <<>>
  BY <1>1, <1>2, SubSeqEmpty DEF IsExtension
<1>3. CASE s # <<>>
  <2>1. 1 \in 1 .. Len(s) /\ Len(s) \in 1 .. Len(s)
    BY <1>3
  <2>2. SubSeq(s \o t, 1, Len(s)) = SubSeq(s, 1, Len(s))
    BY <2>1, SubSeqOfConcat1
  <2> QED
    BY <1>1, <2>2, SubSeqFull DEF IsExtension
<1> QED
  BY <1>2, <1>3

LEMMA AppendExtends ==
    ASSUME NEW S, NEW s \in Seq(S), NEW e \in S
    PROVE  IsExtension(s, Append(s, e))
<1>1. Append(s, e) = s \o <<e>> /\ <<e>> \in Seq(S)
  BY AppendIsConcat
<1> QED
  BY <1>1, ConcatExtends

LEMMA ComputeOffsetsExtends ==
    ASSUME TypeOK, NEW path \in Paths, lookupCache[path] \in Texts
    PROVE  \A p \in Paths : IsExtension(lineOffsets[p], ComputeOffsets(path)[p])
<1> DEFINE new == LineOffsets(lookupCache[path])
<1>1. new \in Seq(Nat)
  BY LineOffsetsOK
<1>2. lineOffsets \in [Paths -> Seq(Nat)]
  BY DEF TypeOK
<1>3. ComputeOffsets(path) = [lineOffsets EXCEPT ![path] = lineOffsets[path] \o new]
  BY DEF ComputeOffsets
<1> HIDE DEF new
<1> QED
  BY <1>1, <1>2, <1>3, ConcatExtends, ExtensionReflexive

(***************************************************************************)
(* What a step does to the buffer entries, as EntriesStep says it.         *)
(***************************************************************************)
BuffersStep ==
    /\ Len(bufferEntries) <= Len(bufferEntries')
    /\ \A b \in DOMAIN bufferEntries :
           IF bufferEntries[b].kind = "expansion"
           THEN bufferEntries'[b] = bufferEntries[b]
           ELSE /\ bufferEntries'[b].kind = "file"
                /\ bufferEntries'[b].path = bufferEntries[b].path
                /\ IsExtension(bufferEntries[b].lineDirectives,
                               bufferEntries'[b].lineDirectives)

LEMMA BuffersUnchanged ==
    ASSUME TypeOK, UNCHANGED bufferEntries
    PROVE  BuffersStep
<1>1. \A b \in DOMAIN bufferEntries :
          bufferEntries[b].kind # "expansion" =>
              /\ bufferEntries[b].kind = "file"
              /\ bufferEntries[b].lineDirectives \in Seq(LineDirectiveInfo)
  BY DEF TypeOK, FileInfo, ExpansionInfo
<1>2. Len(bufferEntries) <= Len(bufferEntries')
  BY DEF TypeOK
<1> QED
  BY <1>1, <1>2, ExtensionReflexive DEF BuffersStep

LEMMA BuffersAppended ==
    ASSUME TypeOK, NEW e \in FileInfo \cup ExpansionInfo,
           bufferEntries' = Append(bufferEntries, e)
    PROVE  BuffersStep
<1>1. \A b \in DOMAIN bufferEntries :
          bufferEntries[b].kind # "expansion" =>
              /\ bufferEntries[b].kind = "file"
              /\ bufferEntries[b].lineDirectives \in Seq(LineDirectiveInfo)
  BY DEF TypeOK, FileInfo, ExpansionInfo
<1>2. /\ Len(bufferEntries') = Len(bufferEntries) + 1
      /\ \A b \in DOMAIN bufferEntries : bufferEntries'[b] = bufferEntries[b]
  BY AppendEntry
<1>3. Len(bufferEntries) <= Len(bufferEntries')
  BY <1>2 DEF TypeOK
<1> QED
  BY <1>1, <1>2, <1>3, ExtensionReflexive DEF BuffersStep

LEMMA BuffersPushed ==
    ASSUME TypeOK, NEW loc \in FileLocations, NEW d \in LineDirectiveInfo,
           PushDirective(loc, d)
    PROVE  BuffersStep
<1>1. \A b \in DOMAIN bufferEntries :
          bufferEntries[b].kind # "expansion" =>
              /\ bufferEntries[b].kind = "file"
              /\ bufferEntries[b].lineDirectives \in Seq(LineDirectiveInfo)
  BY DEF TypeOK, FileInfo, ExpansionInfo
<1>2. bufferEntries[loc.buffer].kind = "file"
  BY DEF FileLocations
<1>3. Len(bufferEntries) <= Len(bufferEntries')
  BY PushDirectiveType DEF TypeOK
<1>4. ASSUME NEW b \in DOMAIN bufferEntries, bufferEntries[b].kind = "expansion"
      PROVE  bufferEntries'[b] = bufferEntries[b]
  BY <1>2, <1>4, PushDirectiveType
<1>5. ASSUME NEW b \in DOMAIN bufferEntries, bufferEntries[b].kind # "expansion"
      PROVE  /\ bufferEntries'[b].kind = "file"
             /\ bufferEntries'[b].path = bufferEntries[b].path
             /\ IsExtension(bufferEntries[b].lineDirectives, bufferEntries'[b].lineDirectives)
  <2>1. CASE b = loc.buffer
    <3>1. /\ bufferEntries'[b].kind = "file"
          /\ bufferEntries'[b].path = bufferEntries[b].path
          /\ bufferEntries'[b].lineDirectives = Append(bufferEntries[b].lineDirectives, d)
      BY <2>1, PushDirectiveType
    <3> QED
      BY <1>1, <1>5, <3>1, AppendExtends
  <2>2. CASE b # loc.buffer
    <3>1. bufferEntries'[b] = bufferEntries[b]
      BY <2>2, PushDirectiveType
    <3> QED
      BY <1>1, <1>5, <3>1, ExtensionReflexive
  <2> QED
    BY <2>1, <2>2
<1>6. \A b \in DOMAIN bufferEntries :
          IF bufferEntries[b].kind = "expansion"
          THEN bufferEntries'[b] = bufferEntries[b]
          ELSE /\ bufferEntries'[b].kind = "file"
               /\ bufferEntries'[b].path = bufferEntries[b].path
               /\ IsExtension(bufferEntries[b].lineDirectives, bufferEntries'[b].lineDirectives)
  BY <1>4, <1>5
<1> QED
  BY <1>3, <1>6 DEF BuffersStep

(***************************************************************************)
(* What a step does to the cache.                                          *)
(***************************************************************************)
CacheGrows(cache, new) == \A p \in Paths : cache[p] # Absent => new[p] = cache[p]

LEMMA OffsetsUnchanged ==
    ASSUME TypeOK, UNCHANGED lineOffsets
    PROVE  \A p \in Paths : IsExtension(lineOffsets[p], lineOffsets'[p])
  BY ExtensionReflexive DEF TypeOK

LEMMA CreateBufferStep ==
    ASSUME TypeOK, NEW t \in Threads, NEW path \in Paths, NEW text,
           CreateBufferEntry(t, path, text)
    PROVE  BuffersStep
<1>1. [kind |-> "file", path |-> path, lineDirectives |-> <<>>] \in FileInfo
  BY DEF FileInfo
<1> QED
  BY <1>1, BuffersAppended DEF CreateBufferEntry

LEMMA StepKeepsEntries == IndInv /\ [Next]_vars => EntriesStep
<1> SUFFICES ASSUME IndInv, [Next]_vars PROVE EntriesStep
  OBVIOUS
<1>0. TypeOK /\ FilesLoaded /\ \A u \in Threads : CallOK(u)
  BY DEF IndInv
<1> SUFFICES /\ CacheGrows(lookupCache, lookupCache')
             /\ \A p \in Paths : IsExtension(lineOffsets[p], lineOffsets'[p])
             /\ BuffersStep
  BY DEF EntriesStep, BuffersStep, CacheGrows
<1>1. CASE UNCHANGED <<lookupCache, lineOffsets, bufferEntries>>
  BY <1>0, <1>1, OffsetsUnchanged, BuffersUnchanged DEF CacheGrows
<1>2. ASSUME NEW t \in Threads,
             ReadSource(t) \/ ReadFile(t) \/ AssignBuffer(t) \/ GetLineNumber(t)
                \/ GetFileName(t) \/ Relock(t)
      PROVE  UNCHANGED <<lookupCache, lineOffsets, bufferEntries>>
  BY <1>2 DEF ReadSource, ReadFile, AssignBuffer, GetLineNumber, GetFileName, Relock
<1>3. ASSUME NEW t \in Threads, Lookup(t)
      PROVE  CacheGrows(lookupCache, lookupCache') /\ UNCHANGED lineOffsets /\ BuffersStep
  <2>1. Candidate(t) \in Paths
    BY <1>0, <1>3, CandidateType DEF Lookup, Opening
  <2>2. UNCHANGED bufferEntries \/ \E text : CreateBufferEntry(t, Candidate(t), text)
    BY <1>3 DEF Lookup
  <2> QED
    BY <1>0, <1>3, <2>1, <2>2, CreateBufferStep, BuffersUnchanged DEF Lookup, CacheGrows
<1>4. ASSUME NEW t \in Threads, InsertError(t)
      PROVE  CacheGrows(lookupCache, lookupCache') /\ UNCHANGED <<lineOffsets, bufferEntries>>
  BY <1>0, <1>4 DEF InsertError, CacheGrows, TypeOK
<1>5. ASSUME NEW t \in Threads, CacheBuffer(t)
      PROVE  CacheGrows(lookupCache, lookupCache') /\ UNCHANGED lineOffsets /\ BuffersStep
  <2>1. Candidate(t) \in Paths
    BY <1>0, <1>5, CandidateType DEF CacheBuffer, Opening
  <2>2. UNCHANGED bufferEntries \/ \E text : CreateBufferEntry(t, Candidate(t), text)
    BY <1>5 DEF CacheBuffer
  <2>3. BuffersStep
    BY <1>0, <2>1, <2>2, CreateBufferStep, BuffersUnchanged
  <2>4. CacheGrows(lookupCache, lookupCache')
    BY <1>0, <1>5, <2>1 DEF CacheBuffer, CacheGrows, TypeOK
  <2> QED
    BY <1>5, <2>3, <2>4 DEF CacheBuffer
<1>6. ASSUME NEW t \in Threads, CreateExpansionLoc(t)
      PROVE  UNCHANGED <<lookupCache, lineOffsets>> /\ BuffersStep
  <2>1. PICK start \in Locations :
            bufferEntries' = Append(bufferEntries, [kind |-> "expansion", start |-> start])
    BY <1>6 DEF CreateExpansionLoc
  <2>2. [kind |-> "expansion", start |-> start] \in ExpansionInfo
    BY <1>0 DEF TypeOK, Locations, SourceLocations, ExpansionInfo
  <2> QED
    BY <1>0, <1>6, <2>1, <2>2, BuffersAppended DEF CreateExpansionLoc
<1>7. ASSUME NEW t \in Threads, AddLineDirective(t)
      PROVE  /\ UNCHANGED lookupCache
             /\ \A p \in Paths : IsExtension(lineOffsets[p], lineOffsets'[p])
             /\ BuffersStep
  <2>1. PICK loc \in FileLocations, lineNum \in LineNums :
            LET path == PathOf(loc)
                offsets == IF lineOffsets[path] = <<>> THEN ComputeOffsets(path) ELSE lineOffsets
            IN  /\ lineOffsets' = offsets
                /\ \E raw \in 0 .. Len(offsets[path]) :
                       PushDirective(loc, [lineInFile |-> raw, lineOfDirective |-> lineNum])
    BY <1>7 DEF AddLineDirective, ResolvedLocations
  <2>2. PathOf(loc) \in Paths /\ lookupCache[PathOf(loc)] \in Texts
    BY <1>0, FileLocationLoaded
  <2>3. /\ lineOffsets' \in [Paths -> Seq(Nat)]
        /\ \A p \in Paths : IsExtension(lineOffsets[p], lineOffsets'[p])
    BY <1>0, <2>1, <2>2, ComputeOffsetsType, ComputeOffsetsExtends, ExtensionReflexive DEF TypeOK
  <2>4. PICK raw \in 0 .. Len(lineOffsets'[PathOf(loc)]) :
            PushDirective(loc, [lineInFile |-> raw, lineOfDirective |-> lineNum])
    BY <2>1
  <2>5. [lineInFile |-> raw, lineOfDirective |-> lineNum] \in LineDirectiveInfo
    BY <2>2, <2>3 DEF LineDirectiveInfo
  <2> QED
    BY <1>0, <1>7, <2>3, <2>4, <2>5, BuffersPushed DEF AddLineDirective
<1>8. ASSUME NEW t \in Threads, ComputeLocked(t)
      PROVE  /\ UNCHANGED <<lookupCache, bufferEntries>>
             /\ \A p \in Paths : IsExtension(lineOffsets[p], lineOffsets'[p])
  <2>1. call[t].loc \in FileLocations
    BY <1>0, <1>8 DEF CallOK, ComputeLocked
  <2>2. PathOf(call[t].loc) \in Paths /\ lookupCache[PathOf(call[t].loc)] \in Texts
    BY <1>0, <2>1, FileLocationLoaded
  <2> QED
    BY <1>0, <1>8, <2>2, ComputeOffsetsExtends DEF ComputeLocked
<1>9. CASE UNCHANGED vars
  BY <1>1, <1>9 DEF vars
<1> QED
  BY <1>0, <1>1, <1>2, <1>3, <1>4, <1>5, <1>6, <1>7, <1>8, <1>9,
     OffsetsUnchanged, BuffersUnchanged DEF Next, CacheGrows

(***************************************************************************)
(* Entries of the cache are never replaced, line offsets only appended to, *)
(* and buffers keep their place, kind and path: the text pointers and      *)
(* BufferIDs handed out stay valid, in every interleaving.                 *)
(***************************************************************************)
THEOREM EntriesStayFinal == Spec => EntriesAreFinal
  BY Inductive, StepKeepsEntries, PTL DEF Spec, EntriesAreFinal

-------------------------------------------------------------------------------
(***************************************************************************)
(* The text handed out with a buffer.                                      *)
(***************************************************************************)
ResultCached(cache, r) ==
    /\ r.op \in {"read", "assign"} /\ r.text # Absent
           => r.path \in Paths /\ r.text \in Texts /\ r.text = cache[r.path]
    /\ r.op = "read" /\ r.text = Absent => r.path = NoPath

ResultsCached == \A t \in Threads : ResultCached(lookupCache, ret[t])

LEMMA ResultStaysCached ==
    ASSUME NEW cache, NEW new, CacheGrows(cache, new), NEW r, ResultCached(cache, r)
    PROVE  ResultCached(new, r)
  BY ValuesOK DEF CacheGrows, ResultCached

LEMMA NotFoundCached ==
    ASSUME NEW cache, NEW s
    PROVE  ResultCached(cache, [op |-> "read", search |-> s, path |-> NoPath, text |-> Absent])
  BY DEF ResultCached

LEMMA OthersCached ==
    ASSUME IndInv, [Next]_vars, ResultsCached, NEW t \in Threads,
           \A u \in Threads \ {t} : ret'[u] = ret[u],
           ResultCached(lookupCache', ret'[t])
    PROVE  ResultsCached'
<1>1. CacheGrows(lookupCache, lookupCache')
  BY StepKeepsEntries DEF EntriesStep, CacheGrows
<1> QED
  BY <1>1, ResultStaysCached DEF ResultsCached

LEMMA NextCandidateResult ==
    ASSUME TypeOK, NEW t \in Threads, NextCandidate(t)
    PROVE  /\ \A u \in Threads \ {t} : ret'[u] = ret[u]
           /\ \/ ret'[t] = ret[t]
              \/ ret'[t] = [op |-> "read", search |-> call[t].search, path |-> NoPath,
                            text |-> Absent]
  BY DEF TypeOK, NextCandidate, Finish

LEMMA CreateBufferResult ==
    ASSUME TypeOK, NEW t \in Threads, NEW path \in Paths, NEW text \in Texts,
           CreateBufferEntry(t, path, text), lookupCache'[path] = text
    PROVE  /\ \A u \in Threads \ {t} : ret'[u] = ret[u]
           /\ ResultCached(lookupCache', ret'[t])
           /\ ret'[t].path = path
           /\ ret'[t].op = "read" => call[t].op # "assign" /\ ret'[t].search = call[t].search
<1>1. ret' = [ret EXCEPT ![t] =
                 IF call[t].op = "assign"
                 THEN [op |-> "assign", path |-> path, text |-> text]
                 ELSE [op |-> "read", search |-> call[t].search, path |-> path, text |-> text]]
  BY DEF CreateBufferEntry, Finish
<1>2. CASE call[t].op = "assign"
  <2>1. ret'[t] = [op |-> "assign", path |-> path, text |-> text]
    BY <1>1, <1>2 DEF TypeOK
  <2> QED
    BY <1>1, <2>1, ValuesOK DEF TypeOK, ResultCached
<1>3. CASE call[t].op # "assign"
  <2>1. ret'[t] = [op |-> "read", search |-> call[t].search, path |-> path, text |-> text]
    BY <1>1, <1>3 DEF TypeOK
  <2> QED
    BY <1>1, <1>3, <2>1, ValuesOK DEF TypeOK, ResultCached
<1> QED
  BY <1>2, <1>3

LEMMA AnswerResult ==
    ASSUME TypeOK, NEW t \in Threads, NEW op \in {"line", "name"}, NEW loc,
           Answer(t, op, loc)
    PROVE  /\ \A u \in Threads \ {t} : ret'[u] = ret[u]
           /\ ret'[t].op = op
  BY DEF TypeOK, Answer, Finish

LEMMA NextCached ==
    IndInv /\ ResultsCached /\ [Next]_vars => ResultsCached'
<1> SUFFICES ASSUME IndInv, ResultsCached, [Next]_vars PROVE ResultsCached'
  OBVIOUS
<1>0. TypeOK /\ \A u \in Threads : CallOK(u)
  BY DEF IndInv
<1>1. CacheGrows(lookupCache, lookupCache')
  BY StepKeepsEntries DEF EntriesStep, CacheGrows
<1>2. CASE UNCHANGED ret
  BY <1>1, <1>2, ResultStaysCached DEF ResultsCached
<1>3. ASSUME NEW t \in Threads, ReadSource(t) PROVE ResultsCached'
  <2>1. PICK s \in Searches :
            \/ Finish(t, [op |-> "read", search |-> s, path |-> NoPath, text |-> Absent])
            \/ UNCHANGED ret
    BY <1>3 DEF ReadSource
  <2>2. CASE Finish(t, [op |-> "read", search |-> s, path |-> NoPath, text |-> Absent])
    <3>1. /\ \A u \in Threads \ {t} : ret'[u] = ret[u]
          /\ ret'[t] = [op |-> "read", search |-> s, path |-> NoPath, text |-> Absent]
      BY <1>0, <2>2 DEF Finish, TypeOK
    <3> QED
      BY <3>1, NotFoundCached, OthersCached
  <2> QED
    BY <1>2, <2>1, <2>2
<1>4. ASSUME NEW t \in Threads, NextCandidate(t) PROVE ResultsCached'
  <2>1. /\ \A u \in Threads \ {t} : ret'[u] = ret[u]
        /\ \/ ret'[t] = ret[t]
           \/ ret'[t] = [op |-> "read", search |-> call[t].search, path |-> NoPath,
                         text |-> Absent]
    BY <1>0, <1>4, NextCandidateResult
  <2>2. ResultCached(lookupCache', ret[t])
    BY <1>1, ResultStaysCached DEF ResultsCached
  <2>3. ResultCached(lookupCache', ret'[t])
    BY <2>1, <2>2, NotFoundCached
  <2> QED
    BY <2>1, <2>3, OthersCached
<1>5. ASSUME NEW t \in Threads, NEW path \in Paths, NEW text \in Texts,
             CreateBufferEntry(t, path, text), lookupCache'[path] = text
      PROVE  ResultsCached'
  BY <1>0, <1>5, CreateBufferResult, OthersCached
<1>6. ASSUME NEW t \in Threads, Lookup(t) PROVE ResultsCached'
  <2>1. Candidate(t) \in Paths
    BY <1>0, <1>6, CandidateType DEF Lookup, Opening
  <2> QED
    BY <1>2, <1>4, <1>5, <1>6, <2>1 DEF Lookup
<1>7. ASSUME NEW t \in Threads, CacheBuffer(t) PROVE ResultsCached'
  <2>1. Candidate(t) \in Paths /\ call[t].text \in Texts
    BY <1>0, <1>7, CandidateType DEF CacheBuffer, Opening, CallOK
  <2>2. lookupCache[Candidate(t)] \in Texts \cup {Absent, Failed}
    BY <1>0, <2>1 DEF TypeOK
  <2>3. CASE /\ lookupCache' = [lookupCache EXCEPT ![Candidate(t)] = call[t].text]
             /\ CreateBufferEntry(t, Candidate(t), call[t].text)
    <3>1. lookupCache'[Candidate(t)] = call[t].text
      BY <1>0, <2>1, <2>3 DEF TypeOK
    <3> QED
      BY <1>5, <2>1, <2>3, <3>1
  <2>4. CASE /\ lookupCache[Candidate(t)] \in Texts
             /\ CreateBufferEntry(t, Candidate(t), lookupCache[Candidate(t)])
             /\ UNCHANGED lookupCache
    BY <1>5, <2>1, <2>4
  <2>5. CASE UNCHANGED ret
    BY <1>2, <2>5
  <2> QED
    BY <1>7, <2>2, <2>3, <2>4, <2>5 DEF CacheBuffer
<1>8. ASSUME NEW t \in Threads, NEW op \in {"line", "name"}, NEW loc, Answer(t, op, loc)
      PROVE  ResultsCached'
  <2>1. (\A u \in Threads \ {t} : ret'[u] = ret[u]) /\ ret'[t].op = op
    BY <1>0, <1>8, AnswerResult
  <2>2. ResultCached(lookupCache', ret'[t])
    BY <2>1 DEF ResultCached
  <2> QED
    BY <2>1, <2>2, OthersCached
<1>9. ASSUME NEW t \in Threads, GetLineNumber(t) \/ GetFileName(t) PROVE ResultsCached'
  <2>1. PICK loc \in FileLocations :
            \/ RawLineNumber(t, "line", loc) \/ RawLineNumber(t, "name", loc)
            \/ Finish(t, [op |-> "name", loc |-> loc, directive |-> 0])
    BY <1>9 DEF GetLineNumber, GetFileName, ResolvedLocations
  <2>2. CASE Finish(t, [op |-> "name", loc |-> loc, directive |-> 0])
    <3>1. (\A u \in Threads \ {t} : ret'[u] = ret[u]) /\ ret'[t].op = "name"
      BY <1>0, <2>2 DEF TypeOK, Finish
    <3>2. ResultCached(lookupCache', ret'[t])
      BY <3>1 DEF ResultCached
    <3> QED
      BY <3>1, <3>2, OthersCached
  <2> QED
    BY <1>2, <1>8, <2>1, <2>2 DEF RawLineNumber
<1>10. ASSUME NEW t \in Threads, Relock(t) PROVE ResultsCached'
  <2>1. call[t].op \in {"line", "name"}
    BY <1>0, <1>10 DEF CallOK, Relock
  <2> QED
    BY <1>8, <1>10, <2>1 DEF Relock
<1>11. ASSUME NEW t \in Threads, InsertError(t) PROVE ResultsCached'
  BY <1>4, <1>11 DEF InsertError
<1>12. ASSUME NEW t \in Threads,
              ReadFile(t) \/ AssignBuffer(t) \/ CreateExpansionLoc(t) \/ AddLineDirective(t)
                 \/ ComputeLocked(t)
       PROVE  ResultsCached'
  BY <1>2, <1>12
     DEF ReadFile, AssignBuffer, CreateExpansionLoc, AddLineDirective, ComputeLocked
<1>13. CASE UNCHANGED vars
  BY <1>2, <1>13 DEF vars
<1> QED
  BY <1>3, <1>6, <1>7, <1>9, <1>10, <1>11, <1>12, <1>13 DEF Next

LEMMA AllResultsCached == Spec => []ResultsCached
<1>1. Init => ResultsCached
  BY DEF Init, ResultsCached, ResultCached
<1> QED
  BY <1>1, NextCached, Inductive, PTL DEF Spec

(***************************************************************************)
(* The text handed out with a buffer is the one that stays cached for its  *)
(* path, also when several threads read the file at once and got different *)
(* contents, or a read raced an assignment: all buffers of a file, and the *)
(* line numbers computed for it, are about one text.                       *)
(***************************************************************************)
THEOREM BuffersShareText == Spec => []BufferTextIsCached
<1>1. IndInv /\ ResultsCached => BufferTextIsCached
  BY DEF IndInv, FilesLoaded, ResultsCached, ResultCached, BufferTextIsCached
<1> QED
  BY <1>1, Inductive, AllResultsCached, PTL

(***************************************************************************)
(* Which file a search finds when files are stable (StableFiles), however  *)
(* the threads that open files interleave.                                 *)
(***************************************************************************)

(***************************************************************************)
(* A candidate that a search does not pass over.                           *)
(***************************************************************************)
Openable(cache, p) == p \notin BadPaths /\ cache[p] # Failed

(***************************************************************************)
(* The cached errors are those of files that cannot be read.               *)
(***************************************************************************)
ErrorsStable(cache) ==
    \A p \in Paths : /\ cache[p] = Failed => Failed \in Outcomes[p]
                     /\ cache[p] \in Texts => Failed \notin Outcomes[p]

(***************************************************************************)
(* The candidates a search has left behind.                                *)
(***************************************************************************)
Tried(cache, c) == \A j \in 1 .. c.pos - 1 : ~Openable(cache, c.search[j])

(***************************************************************************)
(* What a call that opens a file knows of its candidate.                   *)
(***************************************************************************)
OpenOK(cache, at, c) ==
    /\ at # "crashed"
    /\ at = "insertError" => Failed \in Outcomes[c.search[c.pos]]
    /\ at = "insert" => Failed \notin Outcomes[c.search[c.pos]]
    /\ at \in Opening /\ c.op = "read" => Tried(cache, c)
    /\ at \in {"read", "insertError", "insert"} /\ c.op = "read" =>
           c.search[c.pos] \notin BadPaths

(***************************************************************************)
(* FirstMatchWins for one result.                                          *)
(***************************************************************************)
FirstMatch(cache, r) ==
    r.op = "read" =>
        IF r.path = NoPath
        THEN \A i \in DOMAIN r.search : ~Openable(cache, r.search[i])
        ELSE \E i \in DOMAIN r.search :
                 /\ r.search[i] = r.path
                 /\ Openable(cache, r.search[i])
                 /\ \A j \in 1 .. i - 1 : ~Openable(cache, r.search[j])

(***************************************************************************)
(* The inductive invariant of the searches.                                *)
(***************************************************************************)
SearchInv ==
    /\ StableFiles
    /\ ErrorsStable(lookupCache)
    /\ \A t \in Threads : OpenOK(lookupCache, pc[t], call[t])
    /\ \A t \in Threads : FirstMatch(lookupCache, ret[t])

-------------------------------------------------------------------------------
(***************************************************************************)
(* A cache that grows keeps what was known of the calls and the results.   *)
(***************************************************************************)
LEMMA OpenableGrows ==
    ASSUME NEW cache, NEW new, CacheGrows(cache, new), NEW p \in Paths
    PROVE  /\ ~Openable(cache, p) => ~Openable(new, p)
           /\ Openable(cache, p) /\ cache[p] # Absent => Openable(new, p)
  BY ValuesOK DEF CacheGrows, Openable

LEMMA OpenStaysOK ==
    ASSUME NEW cache, NEW new, CacheGrows(cache, new), NEW at, NEW c \in Calls,
           at \in Opening => c.pos \in 1 .. Len(c.search),
           OpenOK(cache, at, c)
    PROVE  OpenOK(new, at, c)
<1>1. ASSUME at \in Opening, Tried(cache, c) PROVE Tried(new, c)
  <2>1. c.search \in Seq(Paths) /\ c.pos \in 1 .. Len(c.search)
    BY <1>1 DEF Calls
  <2>2. \A j \in 1 .. c.pos - 1 : c.search[j] \in Paths
    BY <2>1
  <2> QED
    BY <1>1, <2>2, OpenableGrows DEF Tried
<1> QED
  BY <1>1 DEF OpenOK

LEMMA FirstMatchStays ==
    ASSUME NEW cache, NEW new, CacheGrows(cache, new), NEW r \in Results,
           ResultCached(cache, r), FirstMatch(cache, r)
    PROVE  FirstMatch(new, r)
<1> SUFFICES ASSUME r.op = "read" PROVE FirstMatch(new, r)
  BY DEF FirstMatch
<1>1. r.search \in Seq(Paths)
  BY DEF Results
<1>2. CASE r.path = NoPath
  BY <1>1, <1>2, OpenableGrows DEF FirstMatch
<1>3. CASE r.path # NoPath
  <2>1. PICK i \in DOMAIN r.search :
            /\ r.search[i] = r.path
            /\ Openable(cache, r.search[i])
            /\ \A j \in 1 .. i - 1 : ~Openable(cache, r.search[j])
    BY <1>3 DEF FirstMatch
  <2>2. cache[r.path] # Absent
    BY <1>3, ValuesOK DEF ResultCached
  <2>3. \A j \in 1 .. i - 1 : r.search[j] \in Paths
    BY <1>1
  <2>4. /\ Openable(new, r.search[i])
        /\ \A j \in 1 .. i - 1 : ~Openable(new, r.search[j])
    BY <1>1, <2>1, <2>2, <2>3, OpenableGrows
  <2> QED
    BY <1>3, <2>1, <2>4 DEF FirstMatch
<1> QED
  BY <1>2, <1>3
(***************************************************************************)
(* The parts of a step.                                                    *)
(***************************************************************************)
OthersUnchanged(t) ==
    \A u \in Threads \ {t} : pc'[u] = pc[u] /\ call'[u] = call[u] /\ ret'[u] = ret[u]

LEMMA OthersFound ==
    ASSUME IndInv, ResultsCached, SearchInv, CacheGrows(lookupCache, lookupCache'),
           NEW t \in Threads, OthersUnchanged(t), ErrorsStable(lookupCache'),
           OpenOK(lookupCache', pc'[t], call'[t]), FirstMatch(lookupCache', ret'[t])
    PROVE  SearchInv'
<1>1. ASSUME NEW u \in Threads \ {t}
      PROVE  /\ OpenOK(lookupCache', pc'[u], call'[u])
             /\ FirstMatch(lookupCache', ret'[u])
  <2>1. call[u] \in Calls /\ ret[u] \in Results
    BY DEF IndInv, TypeOK
  <2>2. pc[u] \in Opening => call[u].pos \in 1 .. Len(call[u].search)
    BY DEF IndInv, CallOK
  <2>3. /\ OpenOK(lookupCache, pc[u], call[u])
        /\ FirstMatch(lookupCache, ret[u])
        /\ ResultCached(lookupCache, ret[u])
    BY DEF SearchInv, ResultsCached
  <2>4. pc'[u] = pc[u] /\ call'[u] = call[u] /\ ret'[u] = ret[u]
    BY DEF OthersUnchanged
  <2>5. OpenOK(lookupCache', pc[u], call[u]) /\ FirstMatch(lookupCache', ret[u])
    BY <2>1, <2>2, <2>3, OpenStaysOK, FirstMatchStays
  <2> QED
    BY <2>4, <2>5
<1>2. \A u \in Threads : /\ OpenOK(lookupCache', pc'[u], call'[u])
                         /\ FirstMatch(lookupCache', ret'[u])
  BY <1>1
<1>3. StableFiles'
  BY DEF SearchInv, StableFiles
<1> QED
  BY <1>2, <1>3 DEF SearchInv

LEMMA IdleOpen ==
    ASSUME NEW cache, NEW at \in {"idle", "compute", "relock"}, NEW c
    PROVE  OpenOK(cache, at, c)
  BY DEF OpenOK, Opening

LEMMA OtherResult ==
    ASSUME NEW cache, NEW r, r.op # "read"
    PROVE  FirstMatch(cache, r)
  BY DEF FirstMatch

LEMMA NextCandidateSearch ==
    ASSUME TypeOK, NEW t \in Threads, CallOK(t), pc[t] \in Opening, call[t].op = "read",
           NextCandidate(t), NEW cache, Tried(cache, call[t]), ~Openable(cache, Candidate(t)),
           FirstMatch(cache, ret[t])
    PROVE  /\ OthersUnchanged(t)
           /\ OpenOK(cache, pc'[t], call'[t])
           /\ FirstMatch(cache, ret'[t])
<1>1. /\ call[t] \in Calls
      /\ call[t].search \in Seq(Paths)
      /\ call[t].pos \in 1 .. Len(call[t].search)
  BY DEF TypeOK, Calls, CallOK
<1>2. \A j \in 1 .. call[t].pos : ~Openable(cache, call[t].search[j])
  BY <1>1 DEF Tried, Candidate
<1>3. CASE call[t].pos < Len(call[t].search)
  <2>1. /\ pc' = [pc EXCEPT ![t] = "lookup"]
        /\ call' = [call EXCEPT ![t] = [call[t] EXCEPT !.pos = call[t].pos + 1]]
        /\ UNCHANGED ret
    BY <1>3 DEF NextCandidate
  <2>2. /\ pc'[t] = "lookup"
        /\ call'[t].search = call[t].search
        /\ call'[t].pos = call[t].pos + 1
    BY <1>1, <2>1 DEF TypeOK, Calls
  <2>3. Tried(cache, call'[t])
    BY <1>1, <1>2, <2>2 DEF Tried
  <2>4. OpenOK(cache, pc'[t], call'[t])
    BY <2>2, <2>3 DEF OpenOK
  <2> QED
    BY <2>1, <2>4 DEF TypeOK, OthersUnchanged
<1>4. CASE ~(call[t].pos < Len(call[t].search))
  <2> DEFINE r == [op |-> "read", search |-> call[t].search, path |-> NoPath, text |-> Absent]
  <2>1. Finish(t, r)
    BY <1>4 DEF NextCandidate
  <2>2. pc'[t] = "idle" /\ ret'[t] = r /\ OthersUnchanged(t)
    BY <2>1 DEF Finish, TypeOK, OthersUnchanged
  <2>3. DOMAIN call[t].search = 1 .. call[t].pos
    BY <1>1, <1>4
  <2>4. FirstMatch(cache, r)
    BY <1>2, <2>3 DEF FirstMatch
  <2> QED
    BY <2>2, <2>4, IdleOpen
<1> QED
  BY <1>3, <1>4

LEMMA CreateBufferSearch ==
    ASSUME TypeOK, NEW t \in Threads, CallOK(t), pc[t] \in Opening, NEW text \in Texts,
           CreateBufferEntry(t, Candidate(t), text), lookupCache'[Candidate(t)] = text,
           call[t].op = "read" =>
               Tried(lookupCache', call[t]) /\ Candidate(t) \notin BadPaths
    PROVE  /\ OthersUnchanged(t)
           /\ OpenOK(lookupCache', pc'[t], call'[t])
           /\ FirstMatch(lookupCache', ret'[t])
<1>1. Candidate(t) \in Paths
  BY CandidateType
<1>2. /\ ret'[t].path = Candidate(t)
      /\ ret'[t].op = "read" => call[t].op # "assign" /\ ret'[t].search = call[t].search
  BY <1>1, CreateBufferResult
<1>3. OthersUnchanged(t) /\ pc'[t] = "idle"
  BY DEF CreateBufferEntry, Finish, TypeOK, OthersUnchanged
<1>4. ASSUME ret'[t].op = "read" PROVE FirstMatch(lookupCache', ret'[t])
  <2>1. call[t].op = "read"
    BY <1>2, <1>4 DEF CallOK, Opening
  <2>2. call[t].search \in Seq(Paths) /\ call[t].pos \in 1 .. Len(call[t].search)
    BY DEF TypeOK, Calls, CallOK
  <2>3. Openable(lookupCache', Candidate(t)) /\ Tried(lookupCache', call[t])
    BY <2>1, ValuesOK DEF Openable
  <2>4. ret'[t].path # NoPath /\ ret'[t].search = call[t].search
    BY <1>1, <1>2, <1>4, ValuesOK
  <2>5. /\ call[t].pos \in DOMAIN ret'[t].search
        /\ ret'[t].search[call[t].pos] = ret'[t].path
        /\ Openable(lookupCache', ret'[t].search[call[t].pos])
        /\ \A j \in 1 .. call[t].pos - 1 : ~Openable(lookupCache', ret'[t].search[j])
    BY <1>2, <2>2, <2>3, <2>4 DEF Candidate, Tried
  <2> QED
    BY <2>4, <2>5 DEF FirstMatch
<1> QED
  BY <1>3, <1>4, IdleOpen, OtherResult
LEMMA AnswerSearch ==
    ASSUME TypeOK, NEW t \in Threads, NEW op \in {"line", "name"}, NEW loc,
           Answer(t, op, loc)
    PROVE  OthersUnchanged(t) /\ pc'[t] = "idle" /\ ret'[t].op # "read"
<1>1. OthersUnchanged(t) /\ pc'[t] = "idle"
  BY DEF TypeOK, Answer, Finish, OthersUnchanged
<1> QED
  BY <1>1, AnswerResult

LEMMA NextSearch ==
    IndInv /\ ResultsCached /\ SearchInv /\ [Next]_vars => SearchInv'
<1> SUFFICES ASSUME IndInv, ResultsCached, SearchInv, [Next]_vars PROVE SearchInv'
  OBVIOUS
<1>0. TypeOK /\ \A u \in Threads : CallOK(u)
  BY DEF IndInv
<1>1. CacheGrows(lookupCache, lookupCache')
  BY StepKeepsEntries DEF EntriesStep, CacheGrows
<1>2. CASE UNCHANGED <<lookupCache, pc, call, ret>>
  BY <1>2 DEF SearchInv, StableFiles
<1>3. ASSUME NEW t \in Threads
      PROVE  /\ OpenOK(lookupCache, pc[t], call[t])
             /\ FirstMatch(lookupCache, ret[t])
             /\ OpenOK(lookupCache', pc[t], call[t])
             /\ FirstMatch(lookupCache', ret[t])
  <2>1. OpenOK(lookupCache, pc[t], call[t]) /\ FirstMatch(lookupCache, ret[t])
    BY DEF SearchInv
  <2>2. call[t] \in Calls /\ ret[t] \in Results /\ ResultCached(lookupCache, ret[t])
    BY <1>0 DEF TypeOK, ResultsCached
  <2>3. pc[t] \in Opening => call[t].pos \in 1 .. Len(call[t].search)
    BY <1>0 DEF CallOK
  <2> QED
    BY <1>1, <2>1, <2>2, <2>3, OpenStaysOK, FirstMatchStays
<1>4. lookupCache' = lookupCache => ErrorsStable(lookupCache')
  BY DEF SearchInv
<1>5. ASSUME NEW t \in Threads, ReadSource(t) PROVE SearchInv'
  <2>1. PICK s \in Searches :
            IF s = <<>>
            THEN Finish(t, [op |-> "read", search |-> s, path |-> NoPath, text |-> Absent])
            ELSE /\ pc' = [pc EXCEPT ![t] = "lookup"]
                 /\ call' = [call EXCEPT ![t] = OpenCall("read", s, Absent)]
                 /\ UNCHANGED ret
    BY <1>5 DEF ReadSource
  <2>2. UNCHANGED lookupCache /\ ErrorsStable(lookupCache')
    BY <1>5 DEF ReadSource, SearchInv
  <2>3. OthersUnchanged(t)
    BY <1>0, <2>1 DEF TypeOK, Finish, OthersUnchanged
  <2>4. CASE s = <<>>
    <3>1. /\ pc'[t] = "idle"
          /\ ret'[t] = [op |-> "read", search |-> <<>>, path |-> NoPath, text |-> Absent]
      BY <1>0, <2>1, <2>4 DEF TypeOK, Finish
    <3>2. FirstMatch(lookupCache', ret'[t])
      BY <3>1 DEF FirstMatch
    <3> QED
      BY <1>1, <2>2, <2>3, <3>1, <3>2, IdleOpen, OthersFound
  <2>5. CASE s # <<>>
    <3>1. pc'[t] = "lookup" /\ call'[t].pos = 1 /\ ret'[t] = ret[t]
      BY <1>0, <2>1, <2>5 DEF TypeOK, OpenCall
    <3>2. OpenOK(lookupCache', pc'[t], call'[t])
      BY <3>1 DEF OpenOK, Tried
    <3> QED
      BY <1>1, <1>3, <2>2, <2>3, <3>1, <3>2, OthersFound
  <2> QED
    BY <2>4, <2>5
<1>6. ASSUME NEW t \in Threads, Lookup(t) PROVE SearchInv'
  <2>1. /\ pc[t] = "lookup" /\ pc[t] \in Opening /\ call[t].op = "read"
        /\ UNCHANGED lookupCache /\ ErrorsStable(lookupCache')
    BY <1>0, <1>6 DEF Lookup, CallOK, Opening, SearchInv
  <2>2. Candidate(t) \in Paths
    BY <1>0, <2>1, CandidateType
  <2>3. Tried(lookupCache', call[t])
    BY <1>3, <2>1 DEF OpenOK
  <2>4. CASE (Candidate(t) \in BadPaths \/ lookupCache[Candidate(t)] = Failed) /\ NextCandidate(t)
    <3>1. ~Openable(lookupCache', Candidate(t))
      BY <2>1, <2>4 DEF Openable
    <3> QED
      BY <1>0, <1>1, <1>3, <2>1, <2>3, <2>4, <3>1, NextCandidateSearch, OthersFound
  <2>5. CASE /\ Candidate(t) \notin BadPaths
             /\ lookupCache[Candidate(t)] \in Texts
             /\ CreateBufferEntry(t, Candidate(t), lookupCache[Candidate(t)])
    BY <1>0, <1>1, <2>1, <2>3, <2>5, CreateBufferSearch, OthersFound
  <2>6. CASE /\ Candidate(t) \notin BadPaths
             /\ pc' = [pc EXCEPT ![t] = "read"] /\ UNCHANGED <<bufferEntries, call, ret>>
    <3>1. pc'[t] = "read" /\ call'[t] = call[t] /\ ret'[t] = ret[t] /\ OthersUnchanged(t)
      BY <1>0, <2>6 DEF TypeOK, OthersUnchanged
    <3>2. OpenOK(lookupCache', pc'[t], call'[t])
      BY <2>3, <2>6, <3>1 DEF OpenOK, Candidate
    <3> QED
      BY <1>1, <1>3, <2>1, <3>1, <3>2, OthersFound
  <2> QED
    BY <1>6, <2>4, <2>5, <2>6 DEF Lookup
<1>7. ASSUME NEW t \in Threads, ReadFile(t) PROVE SearchInv'
  <2>1. /\ pc[t] = "read" /\ pc[t] \in Opening /\ call[t].op = "read"
        /\ UNCHANGED <<lookupCache, ret>> /\ ErrorsStable(lookupCache')
    BY <1>0, <1>7 DEF ReadFile, CallOK, Opening, SearchInv
  <2>2. Candidate(t) \in Paths
    BY <1>0, <2>1, CandidateType
  <2>3. Tried(lookupCache', call[t]) /\ Candidate(t) \notin BadPaths
    BY <1>3, <2>1 DEF OpenOK, Candidate
  <2>4. PICK outcome \in Outcomes[Candidate(t)] :
            IF outcome = Failed
            THEN pc' = [pc EXCEPT ![t] = "insertError"] /\ UNCHANGED call
            ELSE /\ pc' = [pc EXCEPT ![t] = "insert"]
                 /\ call' = [call EXCEPT ![t] = [call[t] EXCEPT !.text = outcome]]
    BY <1>7 DEF ReadFile
  <2>5. CASE outcome = Failed
    <3>1. pc'[t] = "insertError" /\ call'[t] = call[t] /\ ret'[t] = ret[t] /\ OthersUnchanged(t)
      BY <1>0, <2>1, <2>4, <2>5 DEF TypeOK, OthersUnchanged
    <3>2. OpenOK(lookupCache', pc'[t], call'[t])
      BY <2>3, <2>4, <2>5, <3>1 DEF OpenOK, Candidate
    <3> QED
      BY <1>1, <1>3, <2>1, <3>1, <3>2, OthersFound
  <2>6. CASE outcome # Failed
    <3>1. pc' = [pc EXCEPT ![t] = "insert"]
          /\ call' = [call EXCEPT ![t] = [call[t] EXCEPT !.text = outcome]]
      BY <2>4, <2>6
    <3>2. /\ pc'[t] = "insert" /\ ret'[t] = ret[t] /\ OthersUnchanged(t)
          /\ call'[t].op = call[t].op
          /\ call'[t].search = call[t].search
          /\ call'[t].pos = call[t].pos
      BY <1>0, <2>1, <3>1 DEF TypeOK, Calls, OthersUnchanged
    <3>3. Failed \notin Outcomes[Candidate(t)]
      BY <2>2, <2>4, <2>6 DEF SearchInv, StableFiles
    <3>4. OpenOK(lookupCache', pc'[t], call'[t])
      BY <2>3, <3>2, <3>3 DEF OpenOK, Candidate, Tried
    <3> QED
      BY <1>1, <1>3, <2>1, <3>2, <3>4, OthersFound
  <2> QED
    BY <2>5, <2>6
<1>8. ASSUME NEW t \in Threads, InsertError(t) PROVE SearchInv'
  <2>1. /\ pc[t] = "insertError" /\ pc[t] \in Opening /\ call[t].op = "read"
        /\ NextCandidate(t)
    BY <1>0, <1>8 DEF InsertError, CallOK, Opening
  <2>2. Candidate(t) \in Paths /\ lookupCache \in [Paths -> Texts \cup {Absent, Failed}]
    BY <1>0, <2>1, CandidateType DEF TypeOK
  <2>3. Failed \in Outcomes[Candidate(t)] /\ lookupCache[Candidate(t)] \notin Texts
    BY <1>3, <2>1, <2>2 DEF OpenOK, Candidate, SearchInv, ErrorsStable
  <2>4. lookupCache' = IF lookupCache[Candidate(t)] = Absent
                       THEN [lookupCache EXCEPT ![Candidate(t)] = Failed]
                       ELSE lookupCache
    BY <1>8 DEF InsertError
  <2>5. lookupCache'[Candidate(t)] = Failed /\ ErrorsStable(lookupCache')
    BY <2>2, <2>3, <2>4, ValuesOK DEF SearchInv, ErrorsStable
  <2>6. Tried(lookupCache', call[t]) /\ ~Openable(lookupCache', Candidate(t))
    BY <1>3, <2>1, <2>5 DEF OpenOK, Openable
  <2> QED
    BY <1>0, <1>1, <1>3, <2>1, <2>5, <2>6, NextCandidateSearch, OthersFound
<1>9. ASSUME NEW t \in Threads, CacheBuffer(t) PROVE SearchInv'
  <2>1. /\ pc[t] = "insert" /\ pc[t] \in Opening /\ call[t].text \in Texts
    BY <1>0, <1>9 DEF CacheBuffer, CallOK, Opening
  <2>2. Candidate(t) \in Paths /\ lookupCache \in [Paths -> Texts \cup {Absent, Failed}]
    BY <1>0, <2>1, CandidateType DEF TypeOK
  <2>3. Failed \notin Outcomes[Candidate(t)] /\ lookupCache[Candidate(t)] # Failed
    BY <1>3, <2>1, <2>2 DEF OpenOK, Candidate, SearchInv, ErrorsStable
  <2>4. call[t].op = "read" =>
            Tried(lookupCache', call[t]) /\ Candidate(t) \notin BadPaths
    BY <1>3, <2>1 DEF OpenOK, Candidate
  <2>5. CASE /\ lookupCache' = [lookupCache EXCEPT ![Candidate(t)] = call[t].text]
             /\ CreateBufferEntry(t, Candidate(t), call[t].text)
    <3>1. lookupCache'[Candidate(t)] = call[t].text /\ ErrorsStable(lookupCache')
      BY <2>1, <2>2, <2>3, <2>5, ValuesOK DEF SearchInv, ErrorsStable
    <3> QED
      BY <1>0, <1>1, <2>1, <2>4, <2>5, <3>1, CreateBufferSearch, OthersFound
  <2>6. CASE /\ lookupCache[Candidate(t)] \in Texts
             /\ CreateBufferEntry(t, Candidate(t), lookupCache[Candidate(t)])
             /\ UNCHANGED lookupCache
    <3>1. ErrorsStable(lookupCache')
      BY <1>4, <2>6
    <3> QED
      BY <1>0, <1>1, <2>1, <2>4, <2>6, <3>1, CreateBufferSearch, OthersFound
  <2> QED
    BY <1>9, <2>2, <2>3, <2>5, <2>6 DEF CacheBuffer
<1>10. ASSUME NEW t \in Threads, AssignBuffer(t) PROVE SearchInv'
  <2>1. PICK path \in AssignPaths, text \in Texts :
            /\ pc' = [pc EXCEPT ![t] = "insert"]
            /\ call' = [call EXCEPT ![t] = OpenCall("assign", <<path>>, text)]
    BY <1>10 DEF AssignBuffer
  <2>2. UNCHANGED <<lookupCache, ret>> /\ ErrorsStable(lookupCache')
    BY <1>10 DEF AssignBuffer, SearchInv
  <2>3. /\ pc'[t] = "insert" /\ ret'[t] = ret[t] /\ OthersUnchanged(t)
        /\ call'[t] = OpenCall("assign", <<path>>, text)
    BY <1>0, <2>1, <2>2 DEF TypeOK, OthersUnchanged
  <2>4. Failed \notin Outcomes[path]
    BY FilesOK DEF SearchInv, StableFiles
  <2>5. OpenOK(lookupCache', pc'[t], call'[t])
    BY <2>3, <2>4 DEF OpenOK, OpenCall
  <2> QED
    BY <1>1, <1>3, <2>2, <2>3, <2>5, OthersFound
<1>11. ASSUME NEW t \in Threads,
              CreateExpansionLoc(t) \/ AddLineDirective(t)
       PROVE  SearchInv'
  BY <1>2, <1>11 DEF CreateExpansionLoc, AddLineDirective
<1>12. ASSUME NEW t \in Threads, NEW at \in {"idle", "compute", "relock"},
              UNCHANGED lookupCache, OthersUnchanged(t), pc'[t] = at,
              FirstMatch(lookupCache', ret'[t])
       PROVE  SearchInv'
  <2>1. ErrorsStable(lookupCache')
    BY <1>4, <1>12
  <2> QED
    BY <1>1, <1>12, <2>1, IdleOpen, OthersFound
<1>13. ASSUME NEW t \in Threads, UNCHANGED lookupCache, NEW op \in {"line", "name"}, NEW loc,
              Answer(t, op, loc)
       PROVE  SearchInv'
  BY <1>0, <1>12, <1>13, AnswerSearch, OtherResult
<1>14. ASSUME NEW t \in Threads, GetLineNumber(t) \/ GetFileName(t) PROVE SearchInv'
  <2>1. PICK loc \in FileLocations :
            \/ RawLineNumber(t, "line", loc) \/ RawLineNumber(t, "name", loc)
            \/ Finish(t, [op |-> "name", loc |-> loc, directive |-> 0])
    BY <1>14 DEF GetLineNumber, GetFileName, ResolvedLocations
  <2>2. UNCHANGED lookupCache
    BY <1>14 DEF GetLineNumber, GetFileName
  <2>3. CASE Finish(t, [op |-> "name", loc |-> loc, directive |-> 0])
    <3>1. OthersUnchanged(t) /\ pc'[t] = "idle" /\ ret'[t].op = "name"
      BY <1>0, <2>3 DEF TypeOK, Finish, OthersUnchanged
    <3> QED
      BY <1>12, <2>2, <3>1, OtherResult
  <2>4. ASSUME NEW op \in {"line", "name"}, RawLineNumber(t, op, loc) PROVE SearchInv'
    <3>1. CASE Answer(t, op, loc)
      BY <1>13, <2>2, <3>1
    <3>2. CASE /\ pc' = [pc EXCEPT ![t] = "compute"]
               /\ call' = [call EXCEPT ![t] = LineCall(op, loc)]
               /\ UNCHANGED ret
      <4>1. OthersUnchanged(t) /\ pc'[t] = "compute" /\ ret'[t] = ret[t]
        BY <1>0, <3>2 DEF TypeOK, OthersUnchanged
      <4> QED
        BY <1>3, <1>12, <2>2, <4>1
    <3> QED
      BY <2>4, <3>1, <3>2 DEF RawLineNumber
  <2> QED
    BY <2>1, <2>3, <2>4
<1>15. ASSUME NEW t \in Threads, ComputeLocked(t) PROVE SearchInv'
  <2>1. UNCHANGED lookupCache /\ OthersUnchanged(t) /\ pc'[t] = "relock" /\ ret'[t] = ret[t]
    BY <1>0, <1>15 DEF ComputeLocked, TypeOK, OthersUnchanged
  <2> QED
    BY <1>3, <1>12, <2>1
<1>16. ASSUME NEW t \in Threads, Relock(t) PROVE SearchInv'
  <2>1. UNCHANGED lookupCache /\ call[t].op \in {"line", "name"}
    BY <1>0, <1>16 DEF Relock, CallOK
  <2> QED
    BY <1>13, <1>16, <2>1 DEF Relock
<1>17. CASE UNCHANGED vars
  BY <1>2, <1>17 DEF vars
<1> QED
  BY <1>5, <1>6, <1>7, <1>8, <1>9, <1>10, <1>11, <1>14, <1>15, <1>16, <1>17 DEF Next

LEMMA SearchesInv == Spec /\ StableFiles => []SearchInv
<1>1. Init /\ StableFiles => SearchInv
  BY ValuesOK DEF Init, SearchInv, ErrorsStable, OpenOK, FirstMatch, Opening
<1> QED
  BY <1>1, NextSearch, Inductive, AllResultsCached, PTL DEF Spec
-------------------------------------------------------------------------------
(***************************************************************************)
(* When a path that can be read can always be read, and one that cannot    *)
(* is not assigned a text, cacheBuffer never finds an error under the path *)
(* whose text it inserts: SLANG_ASSERT(fd) of createBufferEntry holds, in  *)
(* every interleaving of reads and assignments.                            *)
(***************************************************************************)
THEOREM AssertionHolds == Spec /\ StableFiles => []NoNullFileData
<1>1. SearchInv => NoNullFileData
  BY DEF SearchInv, OpenOK, NoNullFileData
<1> QED
  BY <1>1, SearchesInv, PTL

(***************************************************************************)
(* Under the same hypothesis a search that ended, long ago perhaps, found  *)
(* the first of its candidates that is neither unusable nor cached as an   *)
(* error, whatever other threads have cached since.                        *)
(***************************************************************************)
THEOREM FirstMatchFound == Spec /\ StableFiles => []FirstMatchWins
<1>1. SearchInv => FirstMatchWins
  BY DEF SearchInv, FirstMatch, Openable, FirstMatchWins
<1> QED
  BY <1>1, SearchesInv, PTL

(***************************************************************************)
(* Two threads that look for the same header find the same file and the    *)
(* same text: which file an `include means does not depend on the schedule *)
(* of the threads.                                                         *)
(***************************************************************************)
LEMMA SameResult ==
    ASSUME NEW cache, NEW r \in Results, NEW s \in Results,
           FirstMatch(cache, r), FirstMatch(cache, s),
           ResultCached(cache, r), ResultCached(cache, s),
           r.op = "read", s.op = "read", r.search = s.search
    PROVE  r.path = s.path /\ r.text = s.text
<1>1. r.search \in Seq(Paths)
  BY DEF Results
<1>2. r.path = s.path
  <2>1. CASE r.path = NoPath \/ s.path = NoPath
    BY <2>1 DEF FirstMatch
  <2>2. CASE r.path # NoPath /\ s.path # NoPath
    <3>1. PICK i \in DOMAIN r.search :
              /\ r.search[i] = r.path
              /\ Openable(cache, r.search[i])
              /\ \A k \in 1 .. i - 1 : ~Openable(cache, r.search[k])
      BY <2>2 DEF FirstMatch
    <3>2. PICK j \in DOMAIN r.search :
              /\ r.search[j] = s.path
              /\ Openable(cache, r.search[j])
              /\ \A k \in 1 .. j - 1 : ~Openable(cache, r.search[k])
      BY <2>2 DEF FirstMatch
    <3>3. i \in Nat /\ j \in Nat /\ i >= 1 /\ j >= 1
      BY <1>1
    <3>4. i = j
      BY <3>1, <3>2, <3>3
    <3> QED
      BY <3>1, <3>2, <3>4
  <2> QED
    BY <2>1, <2>2
<1>3. \A q \in {r, s} : q.text = Absent <=> q.path = NoPath
  BY ValuesOK DEF ResultCached
<1> QED
  BY <1>2, <1>3 DEF ResultCached

THEOREM SchedulesAgree == Spec /\ StableFiles => []SearchesAgree
<1>1. IndInv /\ ResultsCached /\ SearchInv => SearchesAgree
  <2> SUFFICES ASSUME IndInv, ResultsCached, SearchInv, NEW t \in Threads, NEW u \in Threads,
                      ret[t].op = "read", ret[u].op = "read", ret[t].search = ret[u].search
               PROVE  ret[t].path = ret[u].path /\ ret[t].text = ret[u].text
    BY DEF SearchesAgree
  <2>1. ret[t] \in Results /\ ret[u] \in Results
    BY DEF IndInv, TypeOK
  <2> QED
    BY <2>1, SameResult DEF ResultsCached, SearchInv
<1> QED
  BY <1>1, SearchesInv, Inductive, AllResultsCached, PTL
-----------------------------------------------------------------------------
(***************************************************************************)
(* An expansion starts in a buffer that was there before it.               *)
(***************************************************************************)
ExpansionsPointBack ==
    \A b \in DOMAIN bufferEntries :
        bufferEntries[b].kind = "expansion" =>
            bufferEntries[b].start \in [buffer : 1 .. b - 1, offset : Offsets]

LEMMA EntryKinds ==
    ASSUME TypeOK, NEW b \in DOMAIN bufferEntries
    PROVE  /\ bufferEntries[b].kind \in {"file", "expansion"}
           /\ bufferEntries[b].kind = "file" => bufferEntries[b] \in FileInfo
           /\ bufferEntries[b].kind = "expansion" => bufferEntries[b] \in ExpansionInfo
  BY DEF TypeOK, FileInfo, ExpansionInfo

LEMMA AppendedPointsBack ==
    ASSUME TypeOK, ExpansionsPointBack, NEW e \in FileInfo \cup ExpansionInfo,
           e.kind = "expansion" => e.start \in Locations,
           bufferEntries' = Append(bufferEntries, e)
    PROVE  ExpansionsPointBack'
<1>1. /\ DOMAIN bufferEntries' = DOMAIN bufferEntries \cup {Len(bufferEntries) + 1}
      /\ \A b \in DOMAIN bufferEntries : bufferEntries'[b] = bufferEntries[b]
      /\ bufferEntries'[Len(bufferEntries) + 1] = e
  BY AppendEntry
<1>2. DOMAIN bufferEntries = 1 .. Len(bufferEntries) /\ Len(bufferEntries) \in Nat
  BY DEF TypeOK
<1>3. 1 .. Len(bufferEntries) = 1 .. (Len(bufferEntries) + 1) - 1
  BY <1>2
<1> QED
  BY <1>1, <1>2, <1>3 DEF ExpansionsPointBack, Locations

LEMMA NextPointsBack ==
    IndInv /\ ExpansionsPointBack /\ [Next]_vars => ExpansionsPointBack'
<1> SUFFICES ASSUME IndInv, ExpansionsPointBack, [Next]_vars PROVE ExpansionsPointBack'
  OBVIOUS
<1>0. TypeOK /\ \A u \in Threads : CallOK(u)
  BY DEF IndInv
<1>1. CASE UNCHANGED bufferEntries
  BY <1>1 DEF ExpansionsPointBack
<1>2. ASSUME NEW t, NEW path \in Paths, NEW text, CreateBufferEntry(t, path, text)
      PROVE  ExpansionsPointBack'
  <2> DEFINE e == [kind |-> "file", path |-> path, lineDirectives |-> <<>>]
  <2>1. e \in FileInfo /\ e.kind # "expansion" /\ bufferEntries' = Append(bufferEntries, e)
    BY <1>2 DEF CreateBufferEntry, FileInfo
  <2> HIDE DEF e
  <2> QED
    BY <1>0, <2>1, AppendedPointsBack
<1>3. ASSUME NEW t \in Threads, Lookup(t) \/ CacheBuffer(t) PROVE ExpansionsPointBack'
  <2>1. Candidate(t) \in Paths
    BY <1>0, <1>3, CandidateType DEF Lookup, CacheBuffer, Opening
  <2>2. UNCHANGED bufferEntries \/ \E text : CreateBufferEntry(t, Candidate(t), text)
    BY <1>3 DEF Lookup, CacheBuffer
  <2> QED
    BY <1>1, <1>2, <2>1, <2>2
<1>4. ASSUME NEW t \in Threads, CreateExpansionLoc(t) PROVE ExpansionsPointBack'
  <2>1. PICK start \in Locations :
            bufferEntries' = Append(bufferEntries, [kind |-> "expansion", start |-> start])
    BY <1>4 DEF CreateExpansionLoc
  <2>2. [kind |-> "expansion", start |-> start] \in ExpansionInfo
    BY <1>0 DEF TypeOK, Locations, SourceLocations, ExpansionInfo
  <2> QED
    BY <1>0, <2>1, <2>2, AppendedPointsBack
<1>5. ASSUME NEW t \in Threads, AddLineDirective(t) PROVE ExpansionsPointBack'
  <2>1. PICK loc \in FileLocations, lineNum \in LineNums :
            LET path == PathOf(loc)
                offsets == IF lineOffsets[path] = <<>> THEN ComputeOffsets(path) ELSE lineOffsets
            IN  \E raw \in 0 .. Len(offsets[path]) :
                    PushDirective(loc, [lineInFile |-> raw, lineOfDirective |-> lineNum])
    BY <1>5 DEF AddLineDirective, ResolvedLocations
  <2>2. PICK d : bufferEntries' =
                     [bufferEntries EXCEPT ![loc.buffer] =
                         [kind |-> "file", path |-> PathOf(loc),
                          lineDirectives |-> Append(DirectivesOf(loc), d)]]
    BY <2>1 DEF PushDirective
  <2>3. /\ DOMAIN bufferEntries' = DOMAIN bufferEntries
        /\ \A b \in DOMAIN bufferEntries :
               bufferEntries'[b].kind = "expansion" => bufferEntries'[b] = bufferEntries[b]
    BY <2>2
  <2> QED
    BY <2>3 DEF ExpansionsPointBack
<1>6. ASSUME NEW t \in Threads,
             ReadSource(t) \/ ReadFile(t) \/ InsertError(t) \/ AssignBuffer(t)
                \/ GetLineNumber(t) \/ GetFileName(t) \/ ComputeLocked(t) \/ Relock(t)
      PROVE  ExpansionsPointBack'
  BY <1>1, <1>6 DEF ReadSource, ReadFile, InsertError, AssignBuffer, GetLineNumber, GetFileName,
     ComputeLocked, Relock
<1>7. CASE UNCHANGED vars
  BY <1>1, <1>7 DEF vars
<1> QED
  BY <1>3, <1>4, <1>5, <1>6, <1>7 DEF Next

LEMMA AllPointBack == Spec => []ExpansionsPointBack
<1>1. Init => ExpansionsPointBack
  BY DEF Init, ExpansionsPointBack
<1> QED
  BY <1>1, NextPointsBack, Inductive, PTL DEF Spec

(***************************************************************************)
(* The loop of getFullyExpandedLocImpl, as a function of the location it   *)
(* is at.  That it is a function at all is what termination means here.    *)
(***************************************************************************)
IsExpand(f) ==
    f = [l \in Locations |-> IF bufferEntries[l.buffer].kind = "file" THEN l
                             ELSE f[bufferEntries[l.buffer].start]]

LEMMA ExpandExists ==
    ASSUME TypeOK, ExpansionsPointBack
    PROVE  \E f : IsExpand(f)
<1> DEFINE Below(k) == {l \in Locations : l.buffer <= k}
           Step(f, l) == IF bufferEntries[l.buffer].kind = "file" THEN l
                         ELSE f[bufferEntries[l.buffer].start]
           Solved(k) == \E f : f = [l \in Below(k) |-> Step(f, l)]
<1>0. /\ Len(bufferEntries) \in Nat
      /\ \A l \in Locations : l.buffer \in 1 .. Len(bufferEntries)
      /\ DOMAIN bufferEntries = 1 .. Len(bufferEntries)
  BY DEF TypeOK, Locations
<1>1. Solved(0)
  <2>1. Below(0) = {}
    BY <1>0
  <2> DEFINE f == [l \in {} |-> l]
  <2>2. f = [l \in Below(0) |-> Step(f, l)]
    BY <2>1
  <2> QED
    BY <2>2
<1>2. ASSUME NEW k \in Nat, Solved(k) PROVE Solved(k + 1)
  <2>1. PICK g : g = [l \in Below(k) |-> Step(g, l)]
    BY <1>2
  <2> DEFINE f == [l \in Below(k + 1) |-> Step(g, l)]
  <2>2. Below(k) \subseteq Below(k + 1)
    BY <1>0
  <2>3. \A l \in Below(k) : f[l] = g[l]
    <3> HIDE DEF Step, Below
    <3> QED
      BY <2>1, <2>2
  <2>4. ASSUME NEW l \in Below(k + 1), bufferEntries[l.buffer].kind # "file"
        PROVE  bufferEntries[l.buffer].start \in Below(k)
    <3>1. /\ l.buffer \in DOMAIN bufferEntries
          /\ bufferEntries[l.buffer].start \in [buffer : 1 .. l.buffer - 1, offset : Offsets]
      BY <1>0, <2>4, EntryKinds DEF ExpansionsPointBack
    <3>2. /\ bufferEntries[l.buffer].start.buffer \in 1 .. l.buffer - 1
          /\ bufferEntries[l.buffer].start \in Locations
      BY <1>0, <3>1 DEF Locations
    <3> QED
      BY <1>0, <3>1, <3>2
  <2>5. \A l \in Below(k + 1) : Step(f, l) = Step(g, l)
    <3> HIDE DEF f, Below
    <3> QED
      BY <2>3, <2>4
  <2>6. f = [l \in Below(k + 1) |-> Step(f, l)]
    <3> HIDE DEF Below, Step
    <3> QED
      BY <2>5
  <2> QED
    BY <2>6
<1>3. \A k \in Nat : Solved(k)
  <2> SUFFICES ASSUME {k \in Nat : ~Solved(k)} # {} PROVE FALSE
    OBVIOUS
  <2> HIDE DEF Solved
  <2>1. PICK k \in {j \in Nat : ~Solved(j)} : \A j \in {i \in Nat : ~Solved(i)} : k <= j
    BY LeastNumber
  <2>2. k # 0 /\ k - 1 \in Nat
    BY <1>1, <2>1
  <2>3. Solved(k - 1)
    BY <2>1, <2>2
  <2>4. Solved(k - 1 + 1)
    BY <1>2, <2>2, <2>3
  <2> QED
    BY <2>1, <2>2, <2>4
<1>4. Below(Len(bufferEntries)) = Locations
  BY <1>0
<1>5. Solved(Len(bufferEntries))
  <2> HIDE DEF Solved
  <2> QED
    BY <1>0, <1>3
<1> QED
  BY <1>4, <1>5 DEF IsExpand

LEMMA ExpandResolves ==
    ASSUME TypeOK, ExpansionsPointBack, NEW f, IsExpand(f)
    PROVE  \A loc \in Locations : f[loc] \in FileLocations
<1> DEFINE Failures == {k \in Nat : \E l \in Locations : l.buffer = k /\ f[l] \notin FileLocations}
<1>0. /\ Len(bufferEntries) \in Nat
      /\ \A l \in Locations : l.buffer \in 1 .. Len(bufferEntries)
      /\ DOMAIN bufferEntries = 1 .. Len(bufferEntries)
  BY DEF TypeOK, Locations
<1> SUFFICES ASSUME Failures # {} PROVE FALSE
  BY <1>0
<1>1. PICK k \in Failures : \A j \in Failures : k <= j
  <2> HIDE DEF Failures
  <2>1. Failures \subseteq Nat
    BY DEF Failures
  <2> QED
    BY <2>1, LeastNumber
<1>2. PICK l \in Locations : l.buffer = k /\ f[l] \notin FileLocations
  BY <1>1
<1>3. CASE bufferEntries[l.buffer].kind = "file"
  BY <1>2, <1>3 DEF IsExpand, FileLocations
<1>4. CASE bufferEntries[l.buffer].kind # "file"
  <2> DEFINE start == bufferEntries[l.buffer].start
  <2>1. l.buffer \in DOMAIN bufferEntries /\ start \in [buffer : 1 .. l.buffer - 1, offset : Offsets]
    BY <1>0, <1>4, EntryKinds DEF ExpansionsPointBack
  <2>2. start \in Locations /\ start.buffer \in Nat /\ start.buffer < k
    BY <1>0, <1>2, <2>1 DEF Locations
  <2>3. f[start] \notin FileLocations
    BY <1>2, <1>4 DEF IsExpand
  <2> HIDE DEF start
  <2>4. start.buffer \in Failures
    BY <2>2, <2>3
  <2> QED
    BY <1>1, <2>2, <2>4
<1> QED
  BY <1>3, <1>4

(***************************************************************************)
(* The loop in getFullyExpandedLocImpl terminates in a file for every      *)
(* location there is, however deep macro expansions nest and however the   *)
(* threads that create them interleave.                                    *)
(***************************************************************************)
THEOREM LocationsResolve == Spec => []ExpansionsResolve
<1>1. IndInv /\ ExpansionsPointBack => ExpansionsResolve
  <2> SUFFICES ASSUME IndInv, ExpansionsPointBack, NEW loc \in Locations
               PROVE  FullyExpandedLoc(loc) \in FileLocations
    BY DEF ExpansionsResolve
  <2> DEFINE f == CHOOSE g : IsExpand(g)
  <2>1. TypeOK
    BY DEF IndInv
  <2>2. IsExpand(f)
    BY <2>1, ExpandExists
  <2>3. FullyExpandedLoc(loc) = f[loc]
    BY DEF FullyExpandedLoc, IsExpand
  <2> HIDE DEF f
  <2> QED
    BY <2>1, <2>2, <2>3, ExpandResolves
<1> QED
  BY <1>1, Inductive, AllPointBack, PTL
-------------------------------------------------------------------------------
(***************************************************************************)
(* The line offsets of a text give each of its offsets the line it is on.  *)
(***************************************************************************)
LinesAreExact ==
    \A x \in Texts, o \in Offsets : RawLine(LineOffsets(x), o) = LineOf(x, o)

(***************************************************************************)
(* LineCorrect for the directives of a buffer and the text of its file.    *)
(***************************************************************************)
NumberedFrom(directives, text, offset, line) ==
    \E n \in 0 .. Len(directives) :
        line = ReportedLine(SubSeq(directives, 1, n), LineOf(text, offset))

(***************************************************************************)
(* Offsets that are there begin with a whole computation of them.          *)
(***************************************************************************)
OffsetsComputed ==
    \A p \in Paths :
        lineOffsets[p] # <<>> =>
            /\ lookupCache[p] \in Texts
            /\ IsExtension(LineOffsets(lookupCache[p]), lineOffsets[p])

RelockReady ==
    \A t \in Threads : pc[t] = "relock" => lineOffsets[PathOf(call[t].loc)] # <<>>

(***************************************************************************)
(* The result r of a finished getLineNumber is about a buffer of a file    *)
(* and right for it.                                                       *)
(***************************************************************************)
LineOK(entry, offsets, cache, r) ==
    /\ entry.kind = "file"
    /\ offsets[entry.path] # <<>>
    /\ offsets[entry.path] = LineOffsets(cache[entry.path])
           => NumberedFrom(entry.lineDirectives, cache[entry.path], r.loc.offset, r.line)

Answered(entries, offsets, cache, r) ==
    r.op = "line" => /\ r.loc.buffer \in DOMAIN entries
                     /\ LineOK(entries[r.loc.buffer], offsets, cache, r)

LinesInv ==
    /\ LinesAreExact
    /\ OffsetsComputed
    /\ RelockReady
    /\ \A t \in Threads : Answered(bufferEntries, lineOffsets, lookupCache, ret[t])

LEMMA ExtensionSqueeze ==
    ASSUME NEW S, NEW a \in Seq(S), NEW b \in Seq(S), IsExtension(a, b), IsExtension(b, a)
    PROVE  a = b
<1>1. Len(a) \in Nat /\ Len(b) \in Nat /\ Len(a) <= Len(b) /\ Len(b) <= Len(a)
  BY DEF IsExtension
<1>2. Len(a) = Len(b)
  BY <1>1
<1> QED
  BY <1>2, SubSeqFull DEF IsExtension

LEMMA ExtensionNotEmpty ==
    ASSUME NEW S, NEW a \in Seq(S), NEW b \in Seq(S), IsExtension(a, b), a # <<>>
    PROVE  b # <<>>
<1>1. Len(a) > 0 /\ Len(b) >= Len(a) /\ Len(b) \in Nat
  BY DEF IsExtension
<1> QED
  BY <1>1

LEMMA ExtensionTransitive ==
    ASSUME NEW S, NEW a \in Seq(S), NEW b \in Seq(S), NEW c \in Seq(S),
           IsExtension(a, b), IsExtension(b, c)
    PROVE  IsExtension(a, c)
<1>0. Len(a) \in Nat /\ Len(b) \in Nat /\ Len(c) \in Nat
  OBVIOUS
<1>1. Len(a) <= Len(b) /\ Len(b) <= Len(c) /\ Len(a) <= Len(c)
  BY <1>0 DEF IsExtension
<1>2. \A i \in 1 .. Len(a) : a[i] = b[i]
  BY <1>0, <1>1, SubSeqProperties DEF IsExtension
<1>3. \A i \in 1 .. Len(b) : b[i] = c[i]
  BY <1>0, <1>1, SubSeqProperties DEF IsExtension
<1>4. \A i \in 1 .. Len(a) : a[i] = c[i]
  BY <1>0, <1>1, <1>2, <1>3
<1>5. /\ SubSeq(c, 1, Len(a)) \in Seq(S)
      /\ Len(SubSeq(c, 1, Len(a))) = Len(a)
      /\ \A i \in 1 .. Len(a) : SubSeq(c, 1, Len(a))[i] = c[i]
  BY <1>0, <1>1
<1>6. SubSeq(c, 1, Len(a)) = a
  BY <1>4, <1>5, SeqEqual
<1> QED
  BY <1>1, <1>6 DEF IsExtension
LEMMA NumberedStays ==
    ASSUME NEW S, NEW d \in Seq(S), NEW e \in Seq(S), IsExtension(d, e),
           NEW text, NEW offset, NEW line, NumberedFrom(d, text, offset, line)
    PROVE  NumberedFrom(e, text, offset, line)
<1>1. PICK n \in 0 .. Len(d) :
          line = ReportedLine(SubSeq(d, 1, n), LineOf(text, offset))
  BY DEF NumberedFrom
<1>2. /\ Len(d) \in Nat /\ Len(e) \in Nat /\ Len(d) <= Len(e) /\ n \in Nat /\ n <= Len(d)
      /\ d = SubSeq(e, 1, Len(d))
  BY <1>1 DEF IsExtension
<1>3. SubSeq(e, 1, n) = SubSeq(d, 1, n)
  <2>1. \A i \in 1 .. Len(d) : d[i] = e[i]
    BY <1>2, SubSeqProperties
  <2>2. /\ SubSeq(e, 1, n) \in Seq(S) /\ SubSeq(d, 1, n) \in Seq(S)
        /\ Len(SubSeq(e, 1, n)) = n /\ Len(SubSeq(d, 1, n)) = n
        /\ \A i \in 1 .. n : SubSeq(e, 1, n)[i] = e[i] /\ SubSeq(d, 1, n)[i] = d[i]
    BY <1>2
  <2>3. \A i \in 1 .. n : SubSeq(e, 1, n)[i] = SubSeq(d, 1, n)[i]
    BY <1>2, <2>1, <2>2
  <2> QED
    BY <2>2, <2>3, SeqEqual
<1>4. n \in 0 .. Len(e) /\ line = ReportedLine(SubSeq(e, 1, n), LineOf(text, offset))
  <2>1. n \in 0 .. Len(e)
    BY <1>2
  <2> QED
    BY <1>1, <1>3, <2>1
<1> QED
  BY <1>4 DEF NumberedFrom

(***************************************************************************)
(* An answer stays right while directives are added to its buffer, and     *)
(* while offsets are appended: when they are now those of one computation, *)
(* they were then.                                                         *)
(***************************************************************************)
LEMMA LineStaysOK ==
    ASSUME NEW entry \in FileInfo, NEW entry2 \in FileInfo,
           entry2.path = entry.path, IsExtension(entry.lineDirectives, entry2.lineDirectives),
           NEW offsets, NEW offsets2, NEW cache, NEW cache2,
           offsets[entry.path] \in Seq(Nat), offsets2[entry.path] \in Seq(Nat),
           cache[entry.path] \in Texts, cache2[entry.path] = cache[entry.path],
           IsExtension(offsets[entry.path], offsets2[entry.path]),
           IsExtension(LineOffsets(cache[entry.path]), offsets[entry.path]),
           NEW r, LineOK(entry, offsets, cache, r)
    PROVE  LineOK(entry2, offsets2, cache2, r)
<1> DEFINE p == entry.path
<1>0. LineOffsets(cache[p]) \in Seq(Nat)
  BY LineOffsetsOK
<1>1. offsets2[p] # <<>>
  <2>1. Len(offsets[p]) > 0 /\ Len(offsets2[p]) >= Len(offsets[p])
    BY DEF LineOK, IsExtension
  <2> QED
    BY <2>1
<1>2. ASSUME offsets2[p] = LineOffsets(cache[p])
      PROVE  NumberedFrom(entry2.lineDirectives, cache[p], r.loc.offset, r.line)
  <2>1. offsets[p] = LineOffsets(cache[p])
    BY <1>0, <1>2, ExtensionSqueeze
  <2>2. NumberedFrom(entry.lineDirectives, cache[p], r.loc.offset, r.line)
    BY <2>1 DEF LineOK
  <2>3. /\ entry.lineDirectives \in Seq(LineDirectiveInfo)
        /\ entry2.lineDirectives \in Seq(LineDirectiveInfo)
    BY DEF FileInfo
  <2> QED
    BY <2>2, <2>3, NumberedStays
<1> QED
  BY <1>1, <1>2 DEF LineOK, FileInfo

LEMMA AnswerOK ==
    ASSUME TypeOK, FilesLoaded, LinesAreExact, NEW t \in Threads, NEW op \in {"line", "name"},
           NEW loc \in FileLocations, Answer(t, op, loc), lineOffsets[PathOf(loc)] # <<>>
    PROVE  Answered(bufferEntries, lineOffsets, lookupCache, ret'[t])
<1> DEFINE p == PathOf(loc)
           directives == DirectivesOf(loc)
<1> SUFFICES ASSUME op = "line"
             PROVE  Answered(bufferEntries, lineOffsets, lookupCache, ret'[t])
  <2>1. ret'[t].op = op
    BY AnswerResult
  <2> QED
    BY <2>1 DEF Answered
<1>1. /\ p \in Paths /\ lookupCache[p] \in Texts
      /\ loc.buffer \in DOMAIN bufferEntries
      /\ bufferEntries[loc.buffer] \in FileInfo
      /\ bufferEntries[loc.buffer].kind = "file"
      /\ loc.offset \in Offsets
  BY FileLocationLoaded, EntryKinds DEF FileLocations, Locations
<1>2. PICK raw \in 0 .. Len(lineOffsets[p]), d \in 0 .. Len(directives) :
          /\ raw = RawLine(lineOffsets[p], loc.offset)
          /\ d = PreviousLineDirective(directives, raw)
          /\ Finish(t, [op |-> "line", loc |-> loc, line |-> NumberedLine(directives, d, raw)])
  BY DEF Answer
<1>3. ret'[t] = [op |-> "line", loc |-> loc, line |-> NumberedLine(directives, d, raw)]
  BY <1>2 DEF Finish, TypeOK
<1>4. ASSUME lineOffsets[p] = LineOffsets(lookupCache[p])
      PROVE  NumberedFrom(directives, lookupCache[p], loc.offset, NumberedLine(directives, d, raw))
  <2>1. raw = LineOf(lookupCache[p], loc.offset)
    BY <1>1, <1>2, <1>4 DEF LinesAreExact
  <2>2. NumberedLine(directives, d, raw) = ReportedLine(directives, raw)
    BY <1>2 DEF ReportedLine
  <2>3. directives \in Seq(LineDirectiveInfo)
    BY <1>1 DEF DirectivesOf, FileInfo
  <2>4. SubSeq(directives, 1, Len(directives)) = directives /\ Len(directives) \in 0 .. Len(directives)
    BY <2>3, SubSeqFull
  <2> QED
    BY <2>1, <2>2, <2>4 DEF NumberedFrom
<1>5. LineOK(bufferEntries[loc.buffer], lineOffsets, lookupCache, ret'[t])
  BY <1>1, <1>3, <1>4 DEF LineOK, PathOf, DirectivesOf
<1> QED
  BY <1>1, <1>3, <1>5 DEF Answered
(***************************************************************************)
(* One step: the offsets, and the answers given before it.                 *)
(***************************************************************************)
LEMMA OffsetsStep ==
    ASSUME IndInv, [Next]_vars
    PROVE  \/ lineOffsets' = lineOffsets
           \/ /\ lookupCache' = lookupCache
              /\ \E p \in Paths : /\ lookupCache[p] \in Texts
                                  /\ lineOffsets' = ComputeOffsets(p)
<1>0. TypeOK /\ FilesLoaded /\ \A u \in Threads : CallOK(u)
  BY DEF IndInv
<1>1. ASSUME NEW t \in Threads, AddLineDirective(t)
      PROVE  /\ lookupCache' = lookupCache
             /\ \/ lineOffsets' = lineOffsets
                \/ \E p \in Paths : /\ lookupCache[p] \in Texts
                                    /\ lineOffsets' = ComputeOffsets(p)
  <2>1. PICK loc \in FileLocations :
            lineOffsets' = IF lineOffsets[PathOf(loc)] = <<>>
                           THEN ComputeOffsets(PathOf(loc)) ELSE lineOffsets
    BY <1>1 DEF AddLineDirective, ResolvedLocations
  <2>2. PathOf(loc) \in Paths /\ lookupCache[PathOf(loc)] \in Texts
    BY <1>0, FileLocationLoaded
  <2> QED
    BY <1>1, <2>1, <2>2 DEF AddLineDirective
<1>2. ASSUME NEW t \in Threads, ComputeLocked(t)
      PROVE  /\ lookupCache' = lookupCache
             /\ \E p \in Paths : lookupCache[p] \in Texts /\ lineOffsets' = ComputeOffsets(p)
  <2>1. call[t].loc \in FileLocations
    BY <1>0, <1>2 DEF CallOK, ComputeLocked
  <2>2. PathOf(call[t].loc) \in Paths /\ lookupCache[PathOf(call[t].loc)] \in Texts
    BY <1>0, <2>1, FileLocationLoaded
  <2> QED
    BY <1>2, <2>2 DEF ComputeLocked
<1>3. ASSUME NEW t \in Threads,
             ReadSource(t) \/ Lookup(t) \/ ReadFile(t) \/ InsertError(t) \/ CacheBuffer(t)
                \/ AssignBuffer(t) \/ CreateExpansionLoc(t) \/ GetLineNumber(t)
                \/ GetFileName(t) \/ Relock(t)
      PROVE  lineOffsets' = lineOffsets
  BY <1>3 DEF ReadSource, Lookup, ReadFile, InsertError, CacheBuffer, AssignBuffer,
     CreateExpansionLoc, GetLineNumber, GetFileName, Relock
<1>4. CASE UNCHANGED vars
  BY <1>4 DEF vars
<1> QED
  BY <1>1, <1>2, <1>3, <1>4 DEF Next

LEMMA NextOffsets ==
    ASSUME IndInv, OffsetsComputed, [Next]_vars
    PROVE  OffsetsComputed'
<1>0. /\ lineOffsets \in [Paths -> Seq(Nat)]
      /\ lookupCache \in [Paths -> Texts \cup {Absent, Failed}]
  BY DEF IndInv, TypeOK
<1>1. \A p \in Paths : lookupCache[p] \in Texts => lookupCache'[p] = lookupCache[p]
  BY StepKeepsEntries, ValuesOK DEF EntriesStep
<1>2. CASE lineOffsets' = lineOffsets
  BY <1>1, <1>2 DEF OffsetsComputed
<1>3. ASSUME lookupCache' = lookupCache, NEW p \in Paths, lookupCache[p] \in Texts,
             lineOffsets' = ComputeOffsets(p)
      PROVE  OffsetsComputed'
  <2> DEFINE new == LineOffsets(lookupCache[p])
  <2>1. new \in Seq(Nat)
    BY <1>3, LineOffsetsOK
  <2>2. lineOffsets' = [lineOffsets EXCEPT ![p] = lineOffsets[p] \o new]
    BY <1>3 DEF ComputeOffsets
  <2>3. IsExtension(new, lineOffsets[p] \o new)
    <3>1. CASE lineOffsets[p] = <<>>
      <4>1. lineOffsets[p] \o new = new
        BY <2>1, <3>1
      <4> HIDE DEF new
      <4> QED
        BY <2>1, <4>1, ExtensionReflexive
    <3>2. CASE lineOffsets[p] # <<>>
      <4>1. IsExtension(new, lineOffsets[p])
        BY <3>2 DEF OffsetsComputed
      <4>2. lineOffsets[p] \in Seq(Nat) /\ lineOffsets[p] \o new \in Seq(Nat)
        BY <1>0, <2>1
      <4> HIDE DEF new
      <4>3. IsExtension(lineOffsets[p], lineOffsets[p] \o new)
        BY <2>1, <4>2, ConcatExtends
      <4> QED
        BY <2>1, <4>1, <4>2, <4>3, ExtensionTransitive
    <3> QED
      BY <3>1, <3>2
  <2>4. lineOffsets'[p] = lineOffsets[p] \o new
    BY <1>0, <2>2
  <2>5. \A q \in Paths \ {p} : lineOffsets'[q] = lineOffsets[q]
    BY <1>0, <2>2
  <2> QED
    BY <1>3, <2>3, <2>4, <2>5 DEF OffsetsComputed
<1> QED
  BY <1>2, <1>3, OffsetsStep

LEMMA StaysAnswered ==
    ASSUME IndInv, OffsetsComputed, [Next]_vars, IndInv', NEW t \in Threads,
           Answered(bufferEntries, lineOffsets, lookupCache, ret[t])
    PROVE  Answered(bufferEntries', lineOffsets', lookupCache', ret[t])
<1> SUFFICES ASSUME ret[t].op = "line"
             PROVE  Answered(bufferEntries', lineOffsets', lookupCache', ret[t])
  BY DEF Answered
<1> DEFINE b == ret[t].loc.buffer
<1>1. TypeOK /\ TypeOK' /\ EntriesStep
  BY StepKeepsEntries DEF IndInv
<1>2. b \in DOMAIN bufferEntries /\ LineOK(bufferEntries[b], lineOffsets, lookupCache, ret[t])
  BY DEF Answered
<1>3. bufferEntries[b].kind = "file" /\ bufferEntries[b] \in FileInfo
  BY <1>1, <1>2, EntryKinds DEF LineOK
<1>4. b \in DOMAIN bufferEntries'
  BY <1>1, <1>2 DEF EntriesStep, TypeOK
<1>5. /\ bufferEntries'[b].kind = "file"
      /\ bufferEntries'[b].path = bufferEntries[b].path
      /\ IsExtension(bufferEntries[b].lineDirectives, bufferEntries'[b].lineDirectives)
  BY <1>1, <1>2, <1>3 DEF EntriesStep
<1>6. bufferEntries'[b] \in FileInfo
  BY <1>1, <1>4, <1>5 DEF TypeOK, FileInfo, ExpansionInfo
<1> DEFINE p == bufferEntries[b].path
<1>7. p \in Paths
  BY <1>3 DEF FileInfo
<1>8. /\ lineOffsets[p] \in Seq(Nat) /\ lineOffsets'[p] \in Seq(Nat)
      /\ IsExtension(lineOffsets[p], lineOffsets'[p])
  BY <1>1, <1>7 DEF TypeOK, EntriesStep
<1>9. /\ lookupCache[p] \in Texts /\ lookupCache'[p] = lookupCache[p]
      /\ IsExtension(LineOffsets(lookupCache[p]), lineOffsets[p])
  <2>1. lineOffsets[p] # <<>>
    BY <1>2 DEF LineOK
  <2> QED
    BY <1>1, <1>7, <2>1, ValuesOK DEF OffsetsComputed, EntriesStep
<1> HIDE DEF b, p
<1>10. LineOK(bufferEntries'[b], lineOffsets', lookupCache', ret[t])
  BY <1>2, <1>3, <1>5, <1>6, <1>8, <1>9, LineStaysOK DEF p
<1> QED
  BY <1>4, <1>10 DEF Answered, b
(***************************************************************************)
(* Which steps make a thread take the lock again, and which answer.        *)
(***************************************************************************)
LEMMA RelockFrom ==
    ASSUME TypeOK, [Next]_vars, NEW u \in Threads, pc'[u] = "relock"
    PROVE  \/ pc[u] = "relock" /\ call'[u] = call[u]
           \/ ComputeLocked(u)
<1>1. ASSUME NEW t \in Threads, NEW r, Finish(t, r)
      PROVE  pc[u] = "relock" /\ call'[u] = call[u]
  BY <1>1 DEF TypeOK, Finish
<1>2. ASSUME NEW t \in Threads, NEW at, at # "relock", NEW c,
             pc' = [pc EXCEPT ![t] = at], call' = [call EXCEPT ![t] = c]
      PROVE  pc[u] = "relock" /\ call'[u] = call[u]
  BY <1>2 DEF TypeOK
<1>3. ASSUME NEW t \in Threads, NEW at, at # "relock",
             pc' = [pc EXCEPT ![t] = at], call' = call
      PROVE  pc[u] = "relock" /\ call'[u] = call[u]
  BY <1>3 DEF TypeOK
<1>4. CASE UNCHANGED <<pc, call>>
  BY <1>4
<1>5. ASSUME NEW t \in Threads, NextCandidate(t)
      PROVE  pc[u] = "relock" /\ call'[u] = call[u]
  BY <1>1, <1>2, <1>5 DEF NextCandidate
<1>6. ASSUME NEW t \in Threads, NEW path, NEW text, CreateBufferEntry(t, path, text)
      PROVE  pc[u] = "relock" /\ call'[u] = call[u]
  BY <1>1, <1>6 DEF CreateBufferEntry
<1>7. ASSUME NEW t \in Threads, NEW op, NEW loc, RawLineNumber(t, op, loc)
      PROVE  pc[u] = "relock" /\ call'[u] = call[u]
  BY <1>1, <1>2, <1>7 DEF RawLineNumber, Answer
<1>8. ASSUME NEW t \in Threads, ReadSource(t) PROVE pc[u] = "relock" /\ call'[u] = call[u]
  BY <1>1, <1>2, <1>8 DEF ReadSource
<1>9. ASSUME NEW t \in Threads, Lookup(t) PROVE pc[u] = "relock" /\ call'[u] = call[u]
  BY <1>3, <1>5, <1>6, <1>9 DEF Lookup
<1>10. ASSUME NEW t \in Threads, ReadFile(t) PROVE pc[u] = "relock" /\ call'[u] = call[u]
  BY <1>2, <1>3, <1>10 DEF ReadFile
<1>11. ASSUME NEW t \in Threads, InsertError(t) PROVE pc[u] = "relock" /\ call'[u] = call[u]
  BY <1>5, <1>11 DEF InsertError
<1>12. ASSUME NEW t \in Threads, CacheBuffer(t) PROVE pc[u] = "relock" /\ call'[u] = call[u]
  BY <1>3, <1>6, <1>12 DEF CacheBuffer
<1>13. ASSUME NEW t \in Threads, AssignBuffer(t) PROVE pc[u] = "relock" /\ call'[u] = call[u]
  BY <1>2, <1>13 DEF AssignBuffer
<1>14. ASSUME NEW t \in Threads, CreateExpansionLoc(t) \/ AddLineDirective(t)
       PROVE  pc[u] = "relock" /\ call'[u] = call[u]
  BY <1>4, <1>14 DEF CreateExpansionLoc, AddLineDirective
<1>15. ASSUME NEW t \in Threads, GetLineNumber(t) \/ GetFileName(t)
       PROVE  pc[u] = "relock" /\ call'[u] = call[u]
  BY <1>1, <1>7, <1>15 DEF GetLineNumber, GetFileName
<1>16. ASSUME NEW t \in Threads, ComputeLocked(t)
       PROVE  \/ pc[u] = "relock" /\ call'[u] = call[u]
              \/ ComputeLocked(u)
  <2>1. CASE t = u
    BY <1>16, <2>1
  <2>2. CASE t # u
    BY <1>16, <2>2 DEF ComputeLocked, TypeOK
  <2> QED
    BY <2>1, <2>2
<1>17. ASSUME NEW t \in Threads, Relock(t) PROVE pc[u] = "relock" /\ call'[u] = call[u]
  BY <1>1, <1>17 DEF Relock, Answer
<1>18. CASE UNCHANGED vars
  BY <1>4, <1>18 DEF vars
<1> QED
  BY <1>8, <1>9, <1>10, <1>11, <1>12, <1>13, <1>14, <1>15, <1>16, <1>17, <1>18 DEF Next

LEMMA LineFrom ==
    ASSUME IndInv, RelockReady, [Next]_vars, NEW u \in Threads, ret'[u].op = "line"
    PROVE  \/ ret'[u] = ret[u]
           \/ /\ UNCHANGED <<lookupCache, lineOffsets, bufferEntries>>
              /\ \E op \in {"line", "name"}, loc \in FileLocations :
                     Answer(u, op, loc) /\ lineOffsets[PathOf(loc)] # <<>>
<1> DEFINE Fresh == /\ UNCHANGED <<lookupCache, lineOffsets, bufferEntries>>
                    /\ \E op \in {"line", "name"}, loc \in FileLocations :
                           Answer(u, op, loc) /\ lineOffsets[PathOf(loc)] # <<>>
<1>0. TypeOK /\ \A t \in Threads : CallOK(t)
  BY DEF IndInv
<1>1. ASSUME NEW t \in Threads, NEW r, r.op # "line", Finish(t, r) PROVE ret'[u] = ret[u]
  BY <1>0, <1>1 DEF TypeOK, Finish
<1>2. ASSUME NEW t \in Threads, NextCandidate(t) PROVE ret'[u] = ret[u]
  BY <1>1, <1>2 DEF NextCandidate
<1>3. ASSUME NEW t \in Threads, NEW path, NEW text, CreateBufferEntry(t, path, text)
      PROVE  ret'[u] = ret[u]
  <2>1. CASE call[t].op = "assign"
    BY <1>1, <1>3, <2>1 DEF CreateBufferEntry
  <2>2. CASE call[t].op # "assign"
    BY <1>1, <1>3, <2>2 DEF CreateBufferEntry
  <2> QED
    BY <2>1, <2>2
<1>4. ASSUME NEW t \in Threads, NEW op \in {"line", "name"}, NEW loc \in FileLocations,
             Answer(t, op, loc), lineOffsets[PathOf(loc)] # <<>>,
             UNCHANGED <<lookupCache, lineOffsets, bufferEntries>>
      PROVE  ret'[u] = ret[u] \/ Fresh
  <2>1. CASE t = u
    BY <1>4, <2>1
  <2>2. CASE t # u
    BY <1>0, <1>4, <2>2, AnswerResult
  <2> QED
    BY <2>1, <2>2
<1> HIDE DEF Fresh
<1>5. ASSUME NEW t \in Threads, ReadSource(t) PROVE ret'[u] = ret[u]
  BY <1>1, <1>5 DEF ReadSource
<1>6. ASSUME NEW t \in Threads, Lookup(t) \/ InsertError(t) \/ CacheBuffer(t)
      PROVE  ret'[u] = ret[u]
  BY <1>2, <1>3, <1>6 DEF Lookup, InsertError, CacheBuffer
<1>7. ASSUME NEW t \in Threads, GetLineNumber(t) \/ GetFileName(t) PROVE ret'[u] = ret[u] \/ Fresh
  <2>1. PICK loc \in FileLocations :
            \/ RawLineNumber(t, "line", loc) \/ RawLineNumber(t, "name", loc)
            \/ Finish(t, [op |-> "name", loc |-> loc, directive |-> 0])
    BY <1>7 DEF GetLineNumber, GetFileName, ResolvedLocations
  <2>2. UNCHANGED <<lookupCache, lineOffsets, bufferEntries>>
    BY <1>7 DEF GetLineNumber, GetFileName
  <2>3. ASSUME NEW op \in {"line", "name"}, RawLineNumber(t, op, loc)
        PROVE  ret'[u] = ret[u] \/ Fresh
    BY <1>4, <2>2, <2>3 DEF RawLineNumber
  <2> QED
    BY <1>1, <2>1, <2>3
<1>8. ASSUME NEW t \in Threads, Relock(t) PROVE ret'[u] = ret[u] \/ Fresh
  <2>1. /\ call[t].op \in {"line", "name"} /\ call[t].loc \in FileLocations
        /\ lineOffsets[PathOf(call[t].loc)] # <<>>
    BY <1>0, <1>8 DEF Relock, CallOK, RelockReady
  <2> QED
    BY <1>4, <1>8, <2>1 DEF Relock
<1>9. ASSUME NEW t \in Threads,
             ReadFile(t) \/ AssignBuffer(t) \/ CreateExpansionLoc(t) \/ AddLineDirective(t)
                \/ ComputeLocked(t)
      PROVE  ret'[u] = ret[u]
  BY <1>9 DEF ReadFile, AssignBuffer, CreateExpansionLoc, AddLineDirective, ComputeLocked
<1>10. ASSUME UNCHANGED vars PROVE ret'[u] = ret[u]
  BY <1>10 DEF vars
<1>11. ret'[u] = ret[u] \/ Fresh
  BY <1>5, <1>6, <1>7, <1>8, <1>9, <1>10 DEF Next
<1> QED
  BY <1>11 DEF Fresh

LEMMA NextLines ==
    IndInv /\ IndInv' /\ LinesInv /\ [Next]_vars => LinesInv'
<1> SUFFICES ASSUME IndInv, IndInv', LinesInv, [Next]_vars PROVE LinesInv'
  OBVIOUS
<1>0. /\ TypeOK /\ FilesLoaded /\ EntriesStep /\ (\A u \in Threads : CallOK(u))
      /\ LinesAreExact /\ OffsetsComputed /\ RelockReady
      /\ \A t \in Threads : Answered(bufferEntries, lineOffsets, lookupCache, ret[t])
  BY StepKeepsEntries DEF IndInv, LinesInv
<1>1. OffsetsComputed'
  BY <1>0, NextOffsets
<1>2. ASSUME NEW u \in Threads, pc'[u] = "relock"
      PROVE  lineOffsets'[bufferEntries'[call'[u].loc.buffer].path] # <<>>
  <2> DEFINE b == call[u].loc.buffer
             p == bufferEntries[b].path
  <2>1. /\ pc[u] \in {"compute", "relock"} /\ call'[u] = call[u]
        /\ pc[u] = "relock" => lineOffsets[p] # <<>>
        /\ pc[u] = "relock" \/ lineOffsets' = ComputeOffsets(p)
    <3>1. CASE pc[u] = "relock" /\ call'[u] = call[u]
      BY <1>0, <3>1 DEF RelockReady, PathOf
    <3>2. CASE ComputeLocked(u)
      BY <3>2 DEF ComputeLocked, PathOf
    <3> QED
      BY <1>0, <1>2, <3>1, <3>2, RelockFrom
  <2>2. call[u].loc \in FileLocations
    BY <1>0, <2>1 DEF CallOK
  <2>3. b \in DOMAIN bufferEntries /\ bufferEntries[b].kind = "file" /\ p \in Paths
        /\ lookupCache[p] \in Texts
    BY <1>0, <2>2, FileLocationLoaded DEF FileLocations, Locations, PathOf
  <2>4. bufferEntries'[b].path = p
    BY <1>0, <2>3 DEF EntriesStep
  <2>5. lineOffsets'[p] # <<>>
    <3>1. CASE pc[u] = "relock"
      <4>1. IsExtension(lineOffsets[p], lineOffsets'[p])
        BY <1>0, <2>3 DEF EntriesStep
      <4>2. lineOffsets[p] \in Seq(Nat) /\ lineOffsets'[p] \in Seq(Nat)
        BY <2>3 DEF IndInv, TypeOK
      <4> QED
        BY <2>1, <3>1, <4>1, <4>2, ExtensionNotEmpty
    <3>2. CASE lineOffsets' = ComputeOffsets(p)
      BY <1>0, <2>3, <3>2, ComputeOffsetsType
    <3> QED
      BY <2>1, <3>1, <3>2
  <2> QED
    BY <2>1, <2>4, <2>5
<1>3. RelockReady'
  BY <1>2 DEF RelockReady, PathOf
<1>4. ASSUME NEW t \in Threads
      PROVE  Answered(bufferEntries', lineOffsets', lookupCache', ret'[t])
  <2>1. CASE ret'[t].op # "line"
    BY <2>1 DEF Answered
  <2>2. CASE ret'[t] = ret[t]
    <3>1. Answered(bufferEntries', lineOffsets', lookupCache', ret[t])
      BY <1>0, StaysAnswered
    <3> QED
      BY <2>2, <3>1
  <2>3. ASSUME UNCHANGED <<lookupCache, lineOffsets, bufferEntries>>,
               NEW op \in {"line", "name"}, NEW loc \in FileLocations,
               Answer(t, op, loc), lineOffsets[PathOf(loc)] # <<>>
        PROVE  Answered(bufferEntries', lineOffsets', lookupCache', ret'[t])
    <3>1. Answered(bufferEntries, lineOffsets, lookupCache, ret'[t])
      BY <1>0, <2>3, AnswerOK
    <3> QED
      BY <2>3, <3>1
  <2> QED
    BY <1>0, <2>1, <2>2, <2>3, LineFrom
<1>5. LinesAreExact'
  BY <1>0 DEF LinesAreExact
<1> QED
  BY <1>1, <1>3, <1>4, <1>5 DEF LinesInv

(***************************************************************************)
(* Texts are sequences of characters, and what computeLineOffsets appends  *)
(* for a text is what its loop finds.                                      *)
(***************************************************************************)
TextsAreScanned ==
    /\ Texts \subseteq Seq(Chars)
    /\ \A x \in Texts : LineOffsets(x) = ComputeLineOffsets(x)

LEMMA ScannedLinesExact == TextsAreScanned => LinesAreExact
<1> SUFFICES ASSUME TextsAreScanned, NEW x \in Texts, NEW o \in Offsets
             PROVE  RawLine(LineOffsets(x), o) = LineOf(x, o)
  BY DEF LinesAreExact
<1>1. x \in Seq(Chars) /\ LineOffsets(x) = ComputeLineOffsets(x) /\ o \in Nat
  BY NumbersOK DEF TextsAreScanned
<1> QED
  BY <1>1, OffsetsExact

(***************************************************************************)
(* A line that getLineNumber returned is right, whatever other threads do  *)
(* meanwhile and afterwards, as long as the offsets of the file have been  *)
(* computed once: opens, expansions, other queries and `line directives    *)
(* added between the unlock and the relock of getRawLineNumber do no harm. *)
(***************************************************************************)
THEOREM LinesCorrect == Spec /\ TextsAreScanned => []UnracedLineCorrect
<1>1. Init /\ LinesAreExact => LinesInv
  BY DEF Init, LinesInv, OffsetsComputed, RelockReady, Answered
<1>2. LinesInv => UnracedLineCorrect
  BY DEF LinesInv, Answered, LineOK, NumberedFrom, UnracedLineCorrect, LineCorrect, PathOf,
     DirectivesOf
<1> QED
  BY <1>1, <1>2, ScannedLinesExact, NextLines, Inductive, PTL DEF Spec

(***************************************************************************)
(* Every offset of every text is on the line that computeLineOffsets and   *)
(* the binary search of getRawLineNumber say, and the `line directive that *)
(* getPreviousLineDirective returns governs the line, whatever the bounds  *)
(* on texts and directives are.                                            *)
(***************************************************************************)
THEOREM SearchesExact == Spec => []LinesExact
<1>1. ASSUME NEW text \in AllTexts, NEW o \in 0 .. Len(text)
      PROVE  RawLine(ComputeLineOffsets(text), o) = LineOf(text, o)
  <2>1. PICK n \in 0 .. MaxLength : text \in [1 .. n -> Chars]
    BY DEF AllTexts
  <2>2. n \in Nat
    BY BoundsOK
  <2>3. text \in Seq(Chars) /\ o \in Nat
    BY <2>1, <2>2
  <2> QED
    BY <2>3, OffsetsExact
<1>2. ASSUME NEW directives \in DirectiveLists, NEW raw \in 1 .. MaxLine + 1
      PROVE  IsGoverning(directives, raw, PreviousLineDirective(directives, raw))
  <2> DEFINE Info == [lineInFile : 1 .. MaxLine, lineOfDirective : {1}]
  <2>1. PICK n \in 0 .. MaxLineDirectives : directives \in [1 .. n -> Info]
    BY DEF DirectiveLists
  <2>2. n \in Nat
    BY BoundsOK
  <2>3. directives \in Seq(Info) /\ DOMAIN directives = 1 .. Len(directives)
    <3> HIDE DEF Info
    <3> QED
      BY <2>1, <2>2
  <2>4. \A i, j \in 1 .. Len(directives) :
            i <= j => directives[i].lineInFile <= directives[j].lineInFile
    BY <2>3 DEF DirectiveLists
  <2>5. (\A d \in Info : d.lineInFile \in Nat) /\ raw \in Nat
    BY BoundsOK
  <2> HIDE DEF Info
  <2> QED
    BY <2>3, <2>4, <2>5, DirectiveGoverns
<1>3. LinesExact
  BY <1>1, <1>2 DEF LinesExact
<1> QED
  BY <1>3, PTL
===============================================================================
