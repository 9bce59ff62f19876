------------------------- MODULE DiagnosticEngineProofs -------------------------
(***************************************************************************)
(* Proofs about DiagnosticEngine: its counts and its error limit, however  *)
(* deep notes nest, and the reasons its waivers are given, for any rules,  *)
(* whatever the severities, the options and the pragmas are; then that a   *)
(* list of -W options of any length means what the manual says, and that   *)
(* `pragma diagnostic directives count as their pushes and pops nest.      *)
(***************************************************************************)
EXTENDS MCDiagnosticEngine, FiniteSetTheorems, SequenceTheorems, WellFoundedInduction, TLAPS

IsFrame(f) == f = [severity |-> f.severity, notes |-> f.notes]

\* The calls under way are a sequence of frames.
AreFrames(fs) == \E F : fs \in Seq(F) /\ \A f \in F : IsFrame(f)

OpenIn(fs, severities) == Cardinality({ k \in DOMAIN fs : fs[k].severity \in severities })

One(condition) == IF condition THEN 1 ELSE 0

(***************************************************************************)
(* The number of calls under way that are about a severity.                *)
(***************************************************************************)
LEMMA OpenFinite ==
    ASSUME NEW F, NEW fs \in Seq(F), NEW severities
    PROVE  IsFiniteSet({ k \in DOMAIN fs : fs[k].severity \in severities })
<1>1. DOMAIN fs = 1 .. Len(fs) /\ Len(fs) \in Nat
  OBVIOUS
<1>2. IsFiniteSet(1 .. Len(fs))
  BY <1>1, FS_Interval
<1>3. { k \in DOMAIN fs : fs[k].severity \in severities } \subseteq 1 .. Len(fs)
  BY <1>1
<1> QED
  BY <1>2, <1>3, FS_Subset

LEMMA OpenAppend ==
    ASSUME NEW F, NEW fs \in Seq(F), NEW f \in F, NEW severities
    PROVE  /\ OpenIn(fs, severities) \in Nat
           /\ OpenIn(Append(fs, f), severities) =
                 OpenIn(fs, severities) + One(f.severity \in severities)
<1> DEFINE OpenOf(s) == { k \in DOMAIN s : s[k].severity \in severities }
<1>1. /\ DOMAIN fs = 1 .. Len(fs) /\ Len(fs) \in Nat
      /\ DOMAIN Append(fs, f) = 1 .. Len(fs) + 1
      /\ Append(fs, f)[Len(fs) + 1] = f
      /\ \A k \in 1 .. Len(fs) : Append(fs, f)[k] = fs[k]
  OBVIOUS
<1>2. IsFiniteSet(OpenOf(fs)) /\ Cardinality(OpenOf(fs)) \in Nat
  BY OpenFinite, FS_CardinalityType
<1>3. CASE f.severity \in severities
  <2>1. OpenOf(Append(fs, f)) = OpenOf(fs) \cup {Len(fs) + 1}
    BY <1>1, <1>3
  <2>2. Len(fs) + 1 \notin OpenOf(fs)
    BY <1>1
  <2> HIDE DEF OpenOf
  <2>3. Cardinality(OpenOf(fs) \cup {Len(fs) + 1}) = Cardinality(OpenOf(fs)) + 1
    BY <1>2, <2>2, FS_AddElement
  <2> QED
    BY <1>2, <1>3, <2>1, <2>3 DEF OpenIn, OpenOf, One
<1>4. CASE f.severity \notin severities
  <2>1. OpenOf(Append(fs, f)) = OpenOf(fs)
    BY <1>1, <1>4
  <2>2. One(f.severity \in severities) = 0
    BY <1>4 DEF One
  <2>3. /\ OpenIn(fs, severities) = Cardinality(OpenOf(fs))
        /\ OpenIn(Append(fs, f), severities) = Cardinality(OpenOf(Append(fs, f)))
    BY DEF OpenIn
  <2> HIDE DEF OpenOf
  <2> QED
    BY <1>2, <2>1, <2>2, <2>3
<1> QED
  BY <1>3, <1>4

LEMMA FrontIs ==
    ASSUME NEW F, NEW fs \in Seq(F), fs # <<>>
    PROVE  /\ Front(fs) \in Seq(F)
           /\ Len(fs) \in Nat /\ Len(fs) >= 1
           /\ Len(Front(fs)) = Len(fs) - 1
           /\ \A k \in 1 .. Len(fs) - 1 : Front(fs)[k] = fs[k]
<1>1. Len(fs) \in Nat /\ Len(fs) >= 1 /\ \A k \in 1 .. Len(fs) : fs[k] \in F
  BY EmptySeq
<1>2. \A k \in 1 .. Len(fs) - 1 : fs[k] \in F /\ 1 + k - 1 = k
  BY <1>1
<1>3. /\ Front(fs) \in Seq(F)
      /\ Len(Front(fs)) = IF 1 <= Len(fs) - 1 THEN Len(fs) - 1 - 1 + 1 ELSE 0
      /\ \A k \in 1 .. Len(fs) - 1 - 1 + 1 : Front(fs)[k] = fs[1 + k - 1]
  BY <1>1, <1>2, SubSeqProperties DEF Front
<1>4. ASSUME NEW n \in Nat, n >= 1
      PROVE  n - 1 - 1 + 1 = n - 1 /\ (IF 1 <= n - 1 THEN n - 1 - 1 + 1 ELSE 0) = n - 1
  BY <1>4
<1> QED
  BY <1>1, <1>2, <1>3, <1>4

LEMMA OpenFront ==
    ASSUME NEW F, NEW fs \in Seq(F), fs # <<>>, NEW severities
    PROVE  /\ Front(fs) \in Seq(F)
           /\ Last(fs) \in F
           /\ fs = Append(Front(fs), Last(fs))
           /\ OpenIn(fs, severities) =
                 OpenIn(Front(fs), severities) + One(Last(fs).severity \in severities)
<1>1. Len(fs) \in Nat /\ Len(fs) >= 1 /\ \A k \in 1 .. Len(fs) : fs[k] \in F
  BY EmptySeq
<1>2. /\ Front(fs) \in Seq(F)
      /\ Len(Front(fs)) = Len(fs) - 1
      /\ \A k \in 1 .. Len(fs) - 1 : Front(fs)[k] = fs[k]
  BY FrontIs
<1>3. Last(fs) \in F
  BY <1>1 DEF Last
<1>4. fs = Append(Front(fs), Last(fs))
  <2>1. /\ Append(Front(fs), Last(fs)) \in Seq(F)
        /\ Len(Append(Front(fs), Last(fs))) = Len(fs)
        /\ Append(Front(fs), Last(fs))[Len(fs)] = fs[Len(fs)]
        /\ \A k \in 1 .. Len(fs) - 1 : Append(Front(fs), Last(fs))[k] = fs[k]
    BY <1>1, <1>2, <1>3, AppendProperties DEF Last
  <2>2. \A k \in 1 .. Len(fs) : Append(Front(fs), Last(fs))[k] = fs[k]
    BY <1>1, <2>1
  <2> QED
    BY <2>1, <2>2, SeqEqual
<1>5. OpenIn(Append(Front(fs), Last(fs)), severities) =
          OpenIn(Front(fs), severities) + One(Last(fs).severity \in severities)
  BY <1>2, <1>3, OpenAppend
<1> QED
  BY <1>2, <1>3, <1>4, <1>5

(***************************************************************************)
(* Taking a note of the last call leaves the severities of all as they     *)
(* are.                                                                    *)
(***************************************************************************)
RestOf(fs) ==
    IF fs = <<>> THEN <<>> ELSE Front(fs) \o <<[Last(fs) EXCEPT !.notes = Tail(@)]>>

LEMMA WithNotes ==
    ASSUME NEW f, IsFrame(f)
    PROVE  [f EXCEPT !.notes = Tail(@)] = [severity |-> f.severity, notes |-> Tail(f.notes)]
<1> DEFINE rest == Tail(f.notes)
<1>1. f = [severity |-> f.severity, notes |-> f.notes]
  BY DEF IsFrame
<1> HIDE DEF rest
<1>2. [f EXCEPT !.notes = rest] = [severity |-> f.severity, notes |-> rest]
  BY <1>1
<1> QED
  BY <1>2 DEF rest

LEMMA RestKeeps ==
    ASSUME NEW fs, AreFrames(fs), NEW severities
    PROVE  /\ AreFrames(RestOf(fs))
           /\ OpenIn(fs, severities) \in Nat
           /\ OpenIn(RestOf(fs), severities) = OpenIn(fs, severities)
           /\ (RestOf(fs) = <<>>) <=> (fs = <<>>)
<1>1. PICK F : fs \in Seq(F) /\ \A f \in F : IsFrame(f)
  BY DEF AreFrames
<1>2. OpenIn(fs, severities) \in Nat
  BY <1>1, OpenFinite, FS_CardinalityType DEF OpenIn
<1>3. CASE fs = <<>>
  BY <1>2, <1>3 DEF RestOf
<1>4. CASE fs # <<>>
  <2> DEFINE last == [Last(fs) EXCEPT !.notes = Tail(@)]
             G == F \cup {last}
  <2>1. /\ Front(fs) \in Seq(F) /\ Last(fs) \in F
        /\ OpenIn(fs, severities) =
              OpenIn(Front(fs), severities) + One(Last(fs).severity \in severities)
    BY <1>1, <1>4, OpenFront
  <2>2. last = [severity |-> Last(fs).severity, notes |-> Tail(Last(fs).notes)]
    BY <1>1, <2>1, WithNotes
  <2>3. IsFrame(last) /\ last.severity = Last(fs).severity
    BY <2>2 DEF IsFrame
  <2> HIDE DEF last
  <2>4. Front(fs) \in Seq(G) /\ last \in G /\ \A f \in G : IsFrame(f)
    BY <1>1, <2>1, <2>3
  <2> HIDE DEF G
  <2>5. RestOf(fs) = Append(Front(fs), last)
    BY <1>4, <2>4, AppendIsConcat DEF RestOf, last
  <2>6. Append(Front(fs), last) \in Seq(G) /\ Append(Front(fs), last) # <<>>
    BY <2>4, AppendProperties
  <2>7. OpenIn(Append(Front(fs), last), severities) =
            OpenIn(Front(fs), severities) + One(last.severity \in severities)
    BY <2>4, OpenAppend
  <2>8. AreFrames(RestOf(fs))
    BY <2>4, <2>5, <2>6 DEF AreFrames
  <2> QED
    BY <1>2, <1>4, <2>1, <2>3, <2>5, <2>6, <2>7, <2>8
<1> QED
  BY <1>3, <1>4

(***************************************************************************)
(* The counts, what the clients were told and the calls under way agree.   *)
(***************************************************************************)
Reports == [errors : Nat, warnings : Nat, topErrors : Nat, tooMany : Nat, after : Nat]

Tally(fs, errors, warnings, told, limit) ==
    /\ AreFrames(fs)
    /\ errors \in Nat /\ warnings \in Nat /\ limit \in Nat
    /\ told \in Reports
    /\ errors + OpenIn(fs, {"error", "fatal"}) = told.errors
    /\ warnings + OpenIn(fs, {"warning"}) = told.warnings
    /\ told.topErrors <= told.errors
    /\ limit # 0 => told.topErrors <= limit
    /\ told.after = 0

LEMMA TallyRest ==
    ASSUME NEW fs, NEW errors, NEW warnings, NEW told, NEW limit,
           Tally(fs, errors, warnings, told, limit)
    PROVE  Tally(RestOf(fs), errors, warnings, told, limit)
  BY RestKeeps DEF Tally

LEMMA TallyTooMany ==
    ASSUME NEW fs, NEW errors, NEW warnings, NEW told, NEW limit, told.tooMany = 0,
           Tally(fs, errors, warnings, told, limit)
    PROVE  LET new == [told EXCEPT !.tooMany = @ + 1, !.after = @ + told.tooMany]
           IN  Tally(RestOf(fs), errors, warnings, new, limit) /\ new.tooMany = 1
<1> DEFINE new == [told EXCEPT !.tooMany = @ + 1, !.after = @ + told.tooMany]
<1>1. told \in Reports /\ told.after = 0
  BY DEF Tally
<1>2. told.tooMany + 1 = 1 /\ told.after + told.tooMany = 0
  BY <1>1
<1>3. new = [told EXCEPT !.tooMany = 1, !.after = 0]
  BY <1>2
<1> HIDE DEF new
<1>4. /\ new \in Reports
      /\ new.errors = told.errors /\ new.warnings = told.warnings
      /\ new.topErrors = told.topErrors
      /\ new.tooMany = 1 /\ new.after = 0
  BY <1>1, <1>3 DEF Reports
<1>5. Tally(RestOf(fs), errors, warnings, told, limit)
  BY TallyRest
<1>6. Tally(RestOf(fs), errors, warnings, new, limit)
  BY <1>4, <1>5 DEF Tally
<1> QED
  BY <1>4, <1>6 DEF new

(***************************************************************************)
(* A diagnostic is reported, and counted only when its call ends.          *)
(***************************************************************************)
LEMMA TallyReport ==
    ASSUME NEW fs, NEW errors, NEW warnings, NEW told, NEW limit, told.tooMany = 0,
           Tally(fs, errors, warnings, told, limit),
           NEW severity, NEW notes,
           ~(IsError(severity) /\ limit # 0 /\ errors >= limit)
    PROVE  Tally(Append(RestOf(fs), [severity |-> severity, notes |-> notes]),
                 errors, warnings,
                 [told EXCEPT !.errors = @ + (IF IsError(severity) THEN 1 ELSE 0),
                              !.topErrors = @ + (IF IsError(severity) /\ fs = <<>> THEN 1 ELSE 0),
                              !.warnings = @ + (IF severity = "warning" THEN 1 ELSE 0),
                              !.after = @ + told.tooMany],
                 limit)
<1> DEFINE frame == [severity |-> severity, notes |-> notes]
           e == told.errors + (IF IsError(severity) THEN 1 ELSE 0)
           t == told.topErrors + (IF IsError(severity) /\ fs = <<>> THEN 1 ELSE 0)
           w == told.warnings + (IF severity = "warning" THEN 1 ELSE 0)
           new == [told EXCEPT !.errors = e, !.topErrors = t, !.warnings = w, !.after = 0]
<1>1. Tally(RestOf(fs), errors, warnings, told, limit)
  BY TallyRest
<1>2. PICK F : RestOf(fs) \in Seq(F) /\ \A f \in F : IsFrame(f)
  BY <1>1 DEF Tally, AreFrames
<1>3. IsFrame(frame) /\ frame.severity = severity
  BY DEF IsFrame
<1>4. /\ told \in Reports
      /\ told.errors \in Nat /\ told.topErrors \in Nat /\ told.warnings \in Nat
      /\ told.after = 0
  BY DEF Tally, Reports
<1>5. e \in Nat /\ t \in Nat /\ w \in Nat /\ 0 \in Nat /\ told.after + told.tooMany = 0
  BY <1>4
<1>6. /\ new \in Reports /\ new.errors = e /\ new.warnings = w /\ new.topErrors = t
      /\ new.tooMany = 0 /\ new.after = 0
  <2> HIDE DEF e, t, w
  <2> QED
    BY <1>4, <1>5 DEF Reports
<1> HIDE DEF frame, new
<1>7. RestOf(fs) \in Seq(F \cup {frame}) /\ frame \in F \cup {frame}
  BY <1>2
<1>8. Append(RestOf(fs), frame) \in Seq(F \cup {frame})
  BY <1>7, AppendProperties
<1>9. AreFrames(Append(RestOf(fs), frame))
  BY <1>2, <1>3, <1>8 DEF AreFrames
<1>10. \A S : /\ OpenIn(RestOf(fs), S) \in Nat
              /\ OpenIn(Append(RestOf(fs), frame), S) =
                    OpenIn(RestOf(fs), S) + One(severity \in S)
  BY <1>3, <1>7, OpenAppend
<1>11. /\ errors \in Nat /\ warnings \in Nat /\ limit \in Nat
       /\ errors + OpenIn(RestOf(fs), {"error", "fatal"}) = told.errors
       /\ warnings + OpenIn(RestOf(fs), {"warning"}) = told.warnings
       /\ told.topErrors <= told.errors
       /\ limit # 0 => told.topErrors <= limit
  BY <1>1 DEF Tally
<1>12. errors + OpenIn(Append(RestOf(fs), frame), {"error", "fatal"}) = e
  BY <1>4, <1>10, <1>11 DEF One, IsError
<1>13. warnings + OpenIn(Append(RestOf(fs), frame), {"warning"}) = w
  BY <1>4, <1>10, <1>11 DEF One
<1>14. t <= e
  BY <1>4, <1>11
<1>15. limit # 0 => t <= limit
  <2>1. CASE IsError(severity) /\ fs = <<>> /\ limit # 0
    <3>1. OpenIn(fs, {"error", "fatal"}) = 0
      <4>1. { k \in DOMAIN fs : fs[k].severity \in {"error", "fatal"} } = {}
        BY <2>1
      <4> QED
        BY <4>1, FS_EmptySet DEF OpenIn
    <3>2. errors = told.errors
      BY <1>11, <3>1 DEF Tally
    <3>3. errors < limit
      BY <1>11, <2>1
    <3> QED
      BY <1>4, <1>11, <2>1, <3>2, <3>3
  <2>2. CASE ~(IsError(severity) /\ fs = <<>>)
    BY <1>4, <1>11, <2>2
  <2> QED
    BY <2>1, <2>2
<1> HIDE DEF e, t, w
<1>16. Tally(Append(RestOf(fs), frame), errors, warnings, new, limit)
  BY <1>5, <1>6, <1>9, <1>11, <1>12, <1>13, <1>14, <1>15, <1>4 DEF Tally
<1> QED
  BY <1>5, <1>16 DEF new, frame, e, t, w

LEMMA TallyEnd ==
    ASSUME NEW fs, NEW errors, NEW warnings, NEW told, NEW limit, fs # <<>>,
           Tally(fs, errors, warnings, told, limit)
    PROVE  Tally(Front(fs),
                 errors + (IF IsError(Last(fs).severity) THEN 1 ELSE 0),
                 warnings + (IF Last(fs).severity = "warning" THEN 1 ELSE 0),
                 told, limit)
<1>1. PICK F : fs \in Seq(F) /\ \A f \in F : IsFrame(f)
  BY DEF Tally, AreFrames
<1>2. /\ Front(fs) \in Seq(F)
      /\ \A S : OpenIn(fs, S) = OpenIn(Front(fs), S) + One(Last(fs).severity \in S)
  BY <1>1, OpenFront
<1>3. \A S : OpenIn(Front(fs), S) \in Nat
  BY <1>2, OpenFinite, FS_CardinalityType, ZenonT(60) DEF OpenIn
<1>4. AreFrames(Front(fs))
  BY <1>1, <1>2 DEF AreFrames
<1>5. /\ errors \in Nat /\ warnings \in Nat
      /\ errors + OpenIn(fs, {"error", "fatal"}) = told.errors
      /\ warnings + OpenIn(fs, {"warning"}) = told.warnings
  BY DEF Tally
<1>6. errors + (IF IsError(Last(fs).severity) THEN 1 ELSE 0)
        + OpenIn(Front(fs), {"error", "fatal"}) = told.errors
  BY <1>2, <1>3, <1>5 DEF One, IsError
<1>7. warnings + (IF Last(fs).severity = "warning" THEN 1 ELSE 0)
        + OpenIn(Front(fs), {"warning"}) = told.warnings
  BY <1>2, <1>3, <1>5 DEF One
<1>8. /\ errors + (IF IsError(Last(fs).severity) THEN 1 ELSE 0) \in Nat
      /\ warnings + (IF Last(fs).severity = "warning" THEN 1 ELSE 0) \in Nat
  BY <1>5
<1> QED
  BY <1>4, <1>6, <1>7, <1>8 DEF Tally

LEMMA TallyClear ==
    ASSUME NEW errors, NEW warnings, NEW told, NEW limit,
           Tally(<<>>, errors, warnings, told, limit)
    PROVE  LET new == [told EXCEPT !.errors = 0, !.warnings = 0, !.topErrors = 0]
           IN  Tally(<<>>, 0, 0, new, limit) /\ new.tooMany = told.tooMany
<1> DEFINE new == [told EXCEPT !.errors = 0, !.warnings = 0, !.topErrors = 0]
<1>1. told \in Reports /\ told.after = 0 /\ limit \in Nat
      /\ AreFrames(<<>>)
  BY DEF Tally
<1>2. /\ new \in Reports /\ new.errors = 0 /\ new.warnings = 0 /\ new.topErrors = 0
      /\ new.tooMany = told.tooMany /\ new.after = told.after
  BY <1>1 DEF Reports
<1> HIDE DEF new
<1>3. \A S : OpenIn(<<>>, S) = 0
  <2> TAKE S
  <2>1. { k \in DOMAIN <<>> : <<>>[k].severity \in S } = {}
    OBVIOUS
  <2> QED
    BY <2>1, FS_EmptySet DEF OpenIn
<1>4. Tally(<<>>, 0, 0, new, limit)
  BY <1>1, <1>2, <1>3 DEF Tally
<1> QED
  BY <1>2, <1>4 DEF new

(***************************************************************************)
(* The inductive invariant of the counts and of the error limit.           *)
(***************************************************************************)
TallyInv ==
    /\ Tally(frames, numErrors, numWarnings, reported, errorLimit)
    /\ reported.tooMany = One(issuedOverLimitErr)

LEMMA TallyInit == Init => TallyInv
<1> SUFFICES ASSUME Init PROVE TallyInv
  OBVIOUS
<1>1. AreFrames(<<>>)
  <2> DEFINE F == {}
  <2>1. <<>> \in Seq(F) /\ \A f \in F : IsFrame(f)
    OBVIOUS
  <2> HIDE DEF F
  <2> QED
    BY <2>1 DEF AreFrames
<1>2. \A S : OpenIn(<<>>, S) = 0
  <2> TAKE S
  <2>1. { k \in DOMAIN <<>> : <<>>[k].severity \in S } = {}
    OBVIOUS
  <2> QED
    BY <2>1, FS_EmptySet DEF OpenIn
<1> QED
  BY <1>1, <1>2, EngineOK DEF Init, TallyInv, Tally, One, Reports, NothingReported

LEMMA TallyEnter ==
    ASSUME NEW d, TallyInv, Enter(d), UNCHANGED errorLimit
    PROVE  TallyInv'
<1> USE DEF TallyInv
<1>1. Rest = RestOf(frames)
  BY DEF Rest, RestOf
<1>2. CASE Dropped(d)
  BY <1>1, <1>2, TallyRest DEF Dropped, counters
<1>3. CASE TooManyErrors(d)
  <2>1. /\ reported' = [reported EXCEPT !.tooMany = @ + 1, !.after = @ + reported.tooMany]
        /\ reported.tooMany = 0
        /\ One(issuedOverLimitErr') = 1
    BY <1>3 DEF TooManyErrors, One
  <2>2. Tally(RestOf(frames), numErrors, numWarnings, reported', errorLimit)
        /\ reported'.tooMany = 1
    BY <2>1, TallyTooMany
  <2> QED
    BY <1>1, <1>3, <2>1, <2>2 DEF TooManyErrors, counters
<1>4. CASE IssueImpl(d)
  <2> DEFINE severity == SeverityOf(d)
             frame == [severity |-> severity, notes |-> Diags[d].notes]
  <2>1. /\ ~issuedOverLimitErr /\ ~OverLimit(severity)
        /\ UNCHANGED <<numErrors, numWarnings, issuedOverLimitErr>>
        /\ \/ frames' = Rest /\ UNCHANGED reported
           \/ frames' = Append(Rest, frame) /\ Report(severity)
    BY <1>4 DEF IssueImpl, counters
  <2>2. CASE frames' = Rest /\ UNCHANGED reported
    BY <1>1, <2>1, <2>2, TallyRest
  <2>3. CASE frames' = Append(Rest, frame) /\ Report(severity)
    <3> HIDE DEF severity
    <3>1. Tally(Append(RestOf(frames), frame), numErrors, numWarnings,
                [reported EXCEPT
                   !.errors = @ + (IF IsError(severity) THEN 1 ELSE 0),
                   !.topErrors = @ + (IF IsError(severity) /\ frames = <<>> THEN 1 ELSE 0),
                   !.warnings = @ + (IF severity = "warning" THEN 1 ELSE 0),
                   !.after = @ + reported.tooMany],
                errorLimit)
      BY <2>1, TallyReport DEF OverLimit, One
    <3> QED
      BY <1>1, <2>1, <2>3, <3>1 DEF Report
  <2> QED
    BY <2>1, <2>2, <2>3
<1> QED
  BY <1>2, <1>3, <1>4 DEF Enter

LEMMA TallyStep == TallyInv /\ [Next]_vars => TallyInv'
<1> SUFFICES ASSUME TallyInv, [Next]_vars PROVE TallyInv'
  OBVIOUS
<1> USE DEF TallyInv
<1>1. CASE SetSeverity \/ SetBaselineSeverity \/ SetFlag \/ SetWarningOptions
           \/ SetBufferWarningOptions \/ SetMappingsFromPragmas \/ ClearMappings
           \/ AddIgnorePaths
  BY <1>1 DEF SetSeverity, SetBaselineSeverity, SetFlag, SetWarningOptions,
              SetBufferWarningOptions, SetMappingsFromPragmas, ClearMappings, AddIgnorePaths,
              Settled, outcome, counters
<1>2. CASE LoadFromFile
  BY <1>2 DEF LoadFromFile, counters
<1>3. CASE ChangeClients
  BY <1>3 DEF ChangeClients, outcome, counters
<1>4. CASE ClearCounts
  <2>1. /\ frames = <<>> /\ numErrors' = 0 /\ numWarnings' = 0
        /\ reported' = [reported EXCEPT !.errors = 0, !.warnings = 0, !.topErrors = 0]
        /\ UNCHANGED <<frames, errorLimit, issuedOverLimitErr>>
    BY <1>4 DEF ClearCounts, Set
  <2>2. Tally(<<>>, 0, 0, reported', errorLimit) /\ reported'.tooMany = reported.tooMany
    BY <2>1, TallyClear
  <2> QED
    BY <2>1, <2>2
<1>5. CASE ClearIncludeStack
  BY <1>5 DEF ClearIncludeStack, counters
<1>6. CASE Issue
  BY <1>6, TallyEnter DEF Issue
<1>7. CASE IssueNote
  <2>1. Rest = RestOf(frames)
    BY DEF Rest, RestOf
  <2> QED
    BY <1>7, <2>1, TallyEnter, TallyRest DEF IssueNote, counters
<1>8. CASE EndIssue
  BY <1>8, TallyEnd DEF EndIssue, Counted
<1>9. CASE UNCHANGED vars
  BY <1>9 DEF vars, outcome, counters
<1> QED
  BY <1>1, <1>2, <1>3, <1>4, <1>5, <1>6, <1>7, <1>8, <1>9 DEF Next

LEMMA TallyInvariant == Spec => []TallyInv
  BY TallyInit, TallyStep, PTL DEF Spec

(***************************************************************************)
(* However deep the notes nest, what getNumErrors and getNumWarnings       *)
(* return is what the clients were told, but for the calls under way: no   *)
(* diagnostic issueImpl drops, waives or hides is counted, and no reported *)
(* one is forgotten.                                                       *)
(***************************************************************************)
THEOREM CountsCorrect == Spec => []CountsMatch
<1>1. TallyInv => CountsMatch
  BY DEF TallyInv, Tally, CountsMatch, Open, OpenIn
<1> QED
  BY <1>1, TallyInvariant, PTL

(***************************************************************************)
(* For any limit and any nesting of the notes, the clients never see more  *)
(* top-level errors than the limit, TooManyErrors at most once, and        *)
(* nothing after it.                                                       *)
(***************************************************************************)
THEOREM LimitKept == Spec => []LimitRespected
<1>1. TallyInv => LimitRespected
  BY DEF TallyInv, Tally, LimitRespected, One
<1> QED
  BY <1>1, TallyInvariant, PTL
-----------------------------------------------------------------------------
(***************************************************************************)
(* Waivers.  The reason of a rule is about the diagnostics that no earlier *)
(* rule waived: its flags say which tests one of them passed.              *)
(***************************************************************************)
ReachedBy(rs, sn, k) == { d \in sn : \A j \in 1 .. k - 1 : ~Waives(rs[j], d) }

NoSymbolFor(rule, d) == rule.hier /\ Diags[d].path = "" /\ Diags[d].code \in rule.codes

Explains(rule, stat, reached) ==
    /\ stat.applied \in Nat
    /\ stat.applied = 0 <=> \A d \in reached : ~Waives(rule, d)
    /\ stat.scope <=> \E d \in reached : ScopeMatches(rule, d)
    /\ stat.diagnostic <=> \E d \in reached : ScopeMatches(rule, d) /\ CodeMatches(rule, d)
    /\ stat.noSymbol <=> \E d \in reached : NoSymbolFor(rule, d)

LEMMA NothingReached == \A rule : Explains(rule, NoStats, {})
  BY DEF Explains, NoStats

LEMMA NoticedExplains ==
    ASSUME NEW rule, NEW old, NEW reached, NEW d, Explains(rule, old, reached)
    PROVE  Explains(rule, Noticed(rule, old, d), reached \cup {d})
<1> DEFINE new == Noticed(rule, old, d)
<1>1. /\ old.applied \in Nat
      /\ old.applied = 0 <=> \A x \in reached : ~Waives(rule, x)
      /\ old.scope <=> \E x \in reached : ScopeMatches(rule, x)
      /\ old.diagnostic <=> \E x \in reached : ScopeMatches(rule, x) /\ CodeMatches(rule, x)
      /\ old.noSymbol <=> \E x \in reached : NoSymbolFor(rule, x)
  BY DEF Explains
<1>2. /\ new.applied = old.applied + (IF Waives(rule, d) THEN 1 ELSE 0)
      /\ new.scope <=> old.scope \/ ScopeMatches(rule, d)
      /\ new.diagnostic <=> old.diagnostic \/ (ScopeMatches(rule, d) /\ CodeMatches(rule, d))
      /\ new.noSymbol <=> old.noSymbol \/ NoSymbolFor(rule, d)
  BY DEF Noticed, NoSymbolFor
<1> HIDE DEF new
<1>3. new.applied \in Nat /\ (new.applied = 0 <=> old.applied = 0 /\ ~Waives(rule, d))
  BY <1>1, <1>2
<1>4. new.applied = 0 <=> \A x \in reached \cup {d} : ~Waives(rule, x)
  BY <1>1, <1>3
<1>5. new.scope <=> \E x \in reached \cup {d} : ScopeMatches(rule, x)
  BY <1>1, <1>2
<1>6. new.diagnostic <=>
          \E x \in reached \cup {d} : ScopeMatches(rule, x) /\ CodeMatches(rule, x)
  BY <1>1, <1>2
<1>7. new.noSymbol <=> \E x \in reached \cup {d} : NoSymbolFor(rule, x)
  BY <1>1, <1>2
<1>8. Explains(rule, new, reached \cup {d})
  BY <1>3, <1>4, <1>5, <1>6, <1>7 DEF Explains
<1> QED
  BY <1>8 DEF new

(***************************************************************************)
(* What the flags say is what UnusedReason says.                           *)
(***************************************************************************)
LEMMA TrueReason ==
    ASSUME NEW rule, NEW stat, NEW reached, Explains(rule, stat, reached), stat.applied = 0
    PROVE  LET inScope == { d \in reached : ScopeMatches(rule, d) }
               named == { d \in inScope : CodeMatches(rule, d) }
           IN  /\ \A d \in reached : ~Waives(rule, d)
               /\ UnusedReason(rule, stat) =
                     CASE named # {} -> "regex never matched"
                       [] named = {} /\ inScope # {} -> "diagnostic not seen"
                       [] inScope = {} /\ rule.hier
                            /\ \E d \in reached : /\ Diags[d].path = ""
                                                  /\ Diags[d].code \in rule.codes
                            -> "no symbol"
                       [] OTHER -> "no scope matched"
<1> DEFINE inScope == { d \in reached : ScopeMatches(rule, d) }
           named == { d \in inScope : CodeMatches(rule, d) }
           noSymbol == inScope = {} /\ rule.hier /\ \E d \in reached :
                           Diags[d].path = "" /\ Diags[d].code \in rule.codes
<1>1. \A d \in reached : ~Waives(rule, d)
  BY DEF Explains
<1>2. /\ stat.scope <=> inScope # {}
      /\ stat.diagnostic <=> named # {}
      /\ ~stat.scope => ((rule.hier /\ stat.noSymbol) <=> noSymbol)
      /\ named # {} => inScope # {}
  BY DEF Explains, NoSymbolFor
<1>3. ASSUME named # {} PROVE UnusedReason(rule, stat) = "regex never matched"
  BY <1>2, <1>3 DEF UnusedReason
<1>4. ASSUME named = {}, inScope # {} PROVE UnusedReason(rule, stat) = "diagnostic not seen"
  BY <1>2, <1>4 DEF UnusedReason
<1>5. ASSUME noSymbol PROVE UnusedReason(rule, stat) = "no symbol"
  BY <1>2, <1>5 DEF UnusedReason
<1>6. ASSUME inScope = {}, ~noSymbol PROVE UnusedReason(rule, stat) = "no scope matched"
  BY <1>2, <1>6 DEF UnusedReason
<1> QED
  BY <1>1, <1>2, <1>3, <1>4, <1>5, <1>6

LEMMA LeastIndex ==
    ASSUME NEW I \in SUBSET Nat, I # {}
    PROVE  Min(I) \in I /\ \A j \in I : Min(I) <= j
<1> DEFINE R == { p \in Nat \X Nat : p[1] < p[2] }
<1>1. IsWellFoundedOn(R, Nat)
  BY NatLessThanWellFounded DEF OpToRel
<1> HIDE DEF R
<1>2. PICK i \in I : \A j \in I : ~(<<j, i>> \in R)
  BY <1>1, WFMin
<1>3. \A j \in I : i <= j
  <2> SUFFICES ASSUME NEW j \in I PROVE i <= j
    OBVIOUS
  <2>1. i \in Nat /\ j \in Nat /\ ~(<<j, i>> \in R)
    BY <1>2
  <2> QED
    BY <2>1 DEF R
<1> QED
  BY <1>3 DEF Min

LEMMA FirstWaiverWaives ==
    ASSUME NEW R, rules \in Seq(R), NEW d
    PROVE  \/ /\ FirstWaiver(d) = 0
              /\ \A j \in 1 .. Len(rules) : ~Waives(rules[j], d)
           \/ /\ FirstWaiver(d) \in 1 .. Len(rules)
              /\ Waives(rules[FirstWaiver(d)], d)
              /\ \A j \in 1 .. FirstWaiver(d) - 1 : ~Waives(rules[j], d)
<1> DEFINE I == { i \in 1 .. Len(rules) : Waives(rules[i], d) }
<1>1. Len(rules) \in Nat
  OBVIOUS
<1>2. FirstWaiver(d) = IF I # {} THEN Min(I) ELSE 0
  BY DEF FirstWaiver, SelectInSeq
<1>3. CASE I = {}
  BY <1>2, <1>3
<1>4. CASE I # {}
  <2>1. I \in SUBSET Nat
    BY <1>1
  <2>2. Min(I) \in I /\ \A j \in I : Min(I) <= j
    BY <1>4, <2>1, LeastIndex
  <2>3. FirstWaiver(d) = Min(I)
    BY <1>2, <1>4
  <2>4. FirstWaiver(d) \in 1 .. Len(rules) /\ Waives(rules[FirstWaiver(d)], d)
    BY <2>2, <2>3
  <2>5. ASSUME NEW j \in 1 .. FirstWaiver(d) - 1 PROVE ~Waives(rules[j], d)
    <3>1. j \in 1 .. Len(rules) /\ ~(FirstWaiver(d) <= j)
      BY <1>1, <2>4
    <3> QED
      BY <2>2, <2>3, <3>1
  <2> QED
    BY <2>4, <2>5
<1> QED
  BY <1>3, <1>4

(***************************************************************************)
(* The inductive invariant of the waivers: every rule's statistics are     *)
(* explained by what reached it, and rules are loaded before anything is   *)
(* issued.                                                                 *)
(***************************************************************************)
WaiverInv ==
    /\ \E R : rules \in Seq(R)
    /\ \E T : stats \in Seq(T)
    /\ Len(stats) = Len(rules)
    /\ issued \in Nat
    /\ issued = 0 => seen = {} /\ frames = <<>>
    /\ \A k \in 1 .. Len(rules) : Explains(rules[k], stats[k], ReachedBy(rules, seen, k))

LEMMA NoticedUpToExplains ==
    ASSUME WaiverInv, NEW d, NEW k \in 1 .. Len(rules)
    PROVE  Explains(rules[k], NoticedUpTo(d)[k], ReachedBy(rules, seen \cup {d}, k))
<1> DEFINE first == FirstWaiver(d)
           old == ReachedBy(rules, seen, k)
           new == ReachedBy(rules, seen \cup {d}, k)
<1>1. PICK R : rules \in Seq(R)
  BY DEF WaiverInv
<1>2. DOMAIN rules = 1 .. Len(rules) /\ Len(rules) \in Nat
  BY <1>1
<1>3. Explains(rules[k], stats[k], old)
  BY DEF WaiverInv
<1>4. \/ first = 0 /\ \A j \in 1 .. Len(rules) : ~Waives(rules[j], d)
      \/ /\ first \in 1 .. Len(rules) /\ Waives(rules[first], d)
         /\ \A j \in 1 .. first - 1 : ~Waives(rules[j], d)
  BY <1>1, FirstWaiverWaives
<1>5. NoticedUpTo(d)[k] = IF first # 0 /\ k > first THEN stats[k]
                          ELSE Noticed(rules[k], stats[k], d)
  BY <1>2 DEF NoticedUpTo
<1> HIDE DEF first
<1>6. CASE first # 0 /\ k > first
  <2>1. first \in 1 .. k - 1 /\ Waives(rules[first], d)
    BY <1>2, <1>4, <1>6
  <2>2. new = old
    BY <2>1 DEF ReachedBy
  <2> QED
    BY <1>3, <1>5, <1>6, <2>2
<1>7. CASE ~(first # 0 /\ k > first)
  <2>1. \A j \in 1 .. k - 1 : ~Waives(rules[j], d)
    BY <1>2, <1>4, <1>7
  <2>2. new = old \cup {d}
    BY <2>1 DEF ReachedBy
  <2> HIDE DEF old, new
  <2>3. Explains(rules[k], Noticed(rules[k], stats[k], d), old \cup {d})
    BY <1>3, NoticedExplains
  <2> QED
    BY <1>5, <1>7, <2>2, <2>3 DEF new
<1> QED
  BY <1>6, <1>7

LEMMA FunctionIsSeq ==
    ASSUME NEW n \in Nat, NEW T, NEW f \in [1 .. n -> T]
    PROVE  f \in Seq(T) /\ Len(f) = n
<1>1. f \in Seq(T) /\ DOMAIN f = 1 .. n
  BY SeqDef
<1>2. Len(f) \in Nat /\ DOMAIN f = 1 .. Len(f)
  BY <1>1, LenProperties
<1> QED
  BY <1>1, <1>2

LEMMA NoticedUpToIsSeq ==
    ASSUME WaiverInv, NEW d
    PROVE  /\ \E T : NoticedUpTo(d) \in Seq(T)
           /\ Len(NoticedUpTo(d)) = Len(rules)
<1> DEFINE new == NoticedUpTo(d)
           T == { new[k] : k \in 1 .. Len(rules) }
<1>1. DOMAIN rules = 1 .. Len(rules) /\ Len(rules) \in Nat
  BY DEF WaiverInv
<1>2. new = [k \in 1 .. Len(rules) |-> new[k]]
  BY <1>1 DEF NoticedUpTo
<1> HIDE DEF new
<1>3. new \in [1 .. Len(rules) -> T]
  BY <1>2
<1> HIDE DEF T
<1>4. new \in Seq(T) /\ Len(new) = Len(rules)
  BY <1>1, <1>3, FunctionIsSeq
<1> QED
  BY <1>4 DEF new

LEMMA WaiverEnter ==
    ASSUME NEW d, WaiverInv, Enter(d), UNCHANGED rules, issued' \in Nat \ {0}
    PROVE  WaiverInv'
<1>1. \/ UNCHANGED <<stats, seen>>
      \/ stats' = NoticedUpTo(d) /\ seen' = seen \cup {d}
  BY DEF Enter, Dropped, TooManyErrors, IssueImpl
<1>2. CASE UNCHANGED <<stats, seen>>
  BY <1>2 DEF WaiverInv
<1>3. CASE stats' = NoticedUpTo(d) /\ seen' = seen \cup {d}
  <2>1. (\E T : stats' \in Seq(T)) /\ Len(stats') = Len(rules)
    BY <1>3, NoticedUpToIsSeq
  <2>2. ASSUME NEW k \in 1 .. Len(rules)
        PROVE  Explains(rules'[k], stats'[k], ReachedBy(rules', seen', k))
    <3>1. Explains(rules[k], NoticedUpTo(d)[k], ReachedBy(rules, seen \cup {d}, k))
      BY NoticedUpToExplains
    <3> QED
      BY <1>3, <3>1
  <2>3. \E R : rules' \in Seq(R)
    BY DEF WaiverInv
  <2> QED
    BY <2>1, <2>2, <2>3 DEF WaiverInv
<1> QED
  BY <1>1, <1>2, <1>3

LEMMA WaiverLoad ==
    ASSUME WaiverInv, LoadFromFile
    PROVE  WaiverInv'
<1>1. PICK file \in DOMAIN WaiverFiles :
          LET entries == WaiverFiles[file]
              bad == SelectInSeq(entries, LAMBDA e : e = BadEntry)
              good == IF bad = 0 THEN entries ELSE SubSeq(entries, 1, bad - 1)
          IN  /\ rules' = rules \o good
              /\ stats' = stats \o [k \in DOMAIN good |-> NoStats]
  BY DEF LoadFromFile
<1> DEFINE entries == WaiverFiles[file]
           I == { i \in 1 .. Len(entries) : entries[i] = BadEntry }
           bad == SelectInSeq(entries, LAMBDA e : e = BadEntry)
           good == IF bad = 0 THEN entries ELSE SubSeq(entries, 1, bad - 1)
           news == [k \in DOMAIN good |-> NoStats]
           E == ToSet(entries)
<1>2. entries \in Seq(E) /\ Len(entries) \in Nat
  BY EngineOK
<1>3. bad = 0 \/ bad \in 1 .. Len(entries)
  <2>1. bad = IF I # {} THEN Min(I) ELSE 0
    BY DEF SelectInSeq
  <2>2. I \in SUBSET Nat
    BY <1>2
  <2>3. I # {} => Min(I) \in I
    BY <2>2, LeastIndex
  <2> QED
    BY <2>1, <2>3
<1> HIDE DEF bad, entries, E
<1>4. good \in Seq(E)
  <2>1. CASE bad = 0
    BY <1>2, <2>1
  <2>2. CASE bad \in 1 .. Len(entries)
    <3>1. bad - 1 \in Int /\ 1 \in Int /\ \A i \in 1 .. bad - 1 : entries[i] \in E
      BY <1>2, <2>2
    <3> QED
      BY <1>2, <2>2, <3>1, SubSeqProperties
  <2> QED
    BY <1>3, <2>1, <2>2
<1> HIDE DEF good
<1>5. Len(good) \in Nat /\ DOMAIN good = 1 .. Len(good)
  BY <1>4, LenProperties
<1>6. news \in [1 .. Len(good) -> {NoStats}] /\ \A k \in 1 .. Len(good) : news[k] = NoStats
  BY <1>5
<1> HIDE DEF news
<1>7. news \in Seq({NoStats}) /\ Len(news) = Len(good)
  BY <1>5, <1>6, FunctionIsSeq
<1>8. rules' = rules \o good /\ stats' = stats \o news
  BY <1>1 DEF good, news, bad, entries
<1>9. PICK R, T : rules \in Seq(R) /\ stats \in Seq(T)
  BY DEF WaiverInv
<1> DEFINE RE == R \cup E
           TN == T \cup {NoStats}
<1>10. /\ rules \in Seq(RE) /\ good \in Seq(RE)
       /\ stats \in Seq(TN) /\ news \in Seq(TN)
  BY <1>4, <1>7, <1>9, SeqMonotonic
<1> HIDE DEF RE, TN
<1>11. /\ rules' \in Seq(RE) /\ Len(rules') = Len(rules) + Len(good)
       /\ \A k \in 1 .. Len(rules) + Len(good) :
             rules'[k] = IF k <= Len(rules) THEN rules[k] ELSE good[k - Len(rules)]
  BY <1>8, <1>10, ConcatProperties
<1>12. /\ stats' \in Seq(TN) /\ Len(stats') = Len(stats) + Len(news)
       /\ \A k \in 1 .. Len(stats) + Len(news) :
             stats'[k] = IF k <= Len(stats) THEN stats[k] ELSE news[k - Len(stats)]
  BY <1>8, <1>10, ConcatProperties
<1>13. /\ Len(stats) = Len(rules) /\ Len(rules) \in Nat
       /\ UNCHANGED <<issued, seen, frames>> /\ issued = 0 /\ issued \in Nat
       /\ seen = {} /\ frames = <<>>
       /\ \A k \in 1 .. Len(rules) : Explains(rules[k], stats[k], ReachedBy(rules, seen, k))
  BY <1>9 DEF WaiverInv, LoadFromFile, Set
<1>14. ASSUME NEW k \in 1 .. Len(rules')
       PROVE  Explains(rules'[k], stats'[k], ReachedBy(rules', seen', k))
  <2>1. \A rs : ReachedBy(rs, {}, k) = {}
    BY DEF ReachedBy
  <2>2. CASE k <= Len(rules)
    <3>1. rules'[k] = rules[k] /\ stats'[k] = stats[k] /\ k \in 1 .. Len(rules)
      BY <1>5, <1>7, <1>11, <1>12, <1>13, <2>2
    <3>2. ReachedBy(rules, seen, k) = {} /\ ReachedBy(rules', seen', k) = {}
      BY <1>13, <2>1
    <3>3. Explains(rules[k], stats[k], {})
      BY <1>13, <3>1, <3>2
    <3> QED
      BY <3>1, <3>2, <3>3
  <2>3. CASE k > Len(rules)
    <3>1. k - Len(rules) \in 1 .. Len(good)
      BY <1>5, <1>11, <1>13, <2>3
    <3>2. stats'[k] = NoStats
      BY <1>5, <1>6, <1>7, <1>11, <1>12, <1>13, <2>3, <3>1
    <3> QED
      BY <1>13, <2>1, <3>2, NothingReached
  <2> QED
    BY <1>5, <1>11, <1>13, <2>2, <2>3
<1> QED
  BY <1>5, <1>7, <1>11, <1>12, <1>13, <1>14 DEF WaiverInv

LEMMA WaiverInit == Init => WaiverInv
<1> SUFFICES ASSUME Init PROVE WaiverInv
  OBVIOUS
<1>1. rules = <<>> /\ stats = <<>> /\ issued = 0 /\ seen = {} /\ frames = <<>>
  BY DEF Init
<1>2. \A R : <<>> \in Seq(R)
  OBVIOUS
<1>3. Len(rules) = 0 /\ Len(stats) = 0
  BY <1>1
<1> QED
  BY <1>1, <1>2, <1>3 DEF WaiverInv

LEMMA WaiverStep == WaiverInv /\ [Next]_vars => WaiverInv'
<1> SUFFICES ASSUME WaiverInv, [Next]_vars PROVE WaiverInv'
  OBVIOUS
<1> DEFINE Kept == UNCHANGED <<rules, stats, issued, seen, frames>>
<1>1. Kept => WaiverInv'
  BY DEF WaiverInv
<1>2. CASE SetSeverity \/ SetBaselineSeverity \/ SetFlag \/ SetWarningOptions
           \/ SetBufferWarningOptions \/ SetMappingsFromPragmas \/ ClearMappings
           \/ AddIgnorePaths
  <2>1. Kept
    BY <1>2 DEF SetSeverity, SetBaselineSeverity, SetFlag, SetWarningOptions,
                SetBufferWarningOptions, SetMappingsFromPragmas, ClearMappings,
                AddIgnorePaths, Settled, outcome, filters
  <2> QED
    BY <1>1, <2>1
<1>3. CASE LoadFromFile
  BY <1>3, WaiverLoad
<1>4. CASE ChangeClients \/ ClearCounts \/ ClearIncludeStack
  <2>1. Kept
    BY <1>4 DEF ChangeClients, ClearCounts, ClearIncludeStack, outcome, filters
  <2> QED
    BY <1>1, <2>1
<1>5. CASE Issue
  <2>1. issued' \in Nat \ {0}
    BY <1>5 DEF Issue, WaiverInv
  <2>2. UNCHANGED rules
    BY <1>5 DEF Issue, filters
  <2> QED
    BY <1>5, <2>1, <2>2, WaiverEnter DEF Issue
<1>6. CASE IssueNote
  <2>1. /\ issued' \in Nat \ {0} /\ UNCHANGED <<rules, issued>>
    BY <1>6 DEF IssueNote, WaiverInv, filters
  <2>2. CASE UNCHANGED <<stats, seen>>
    BY <2>1, <2>2 DEF WaiverInv
  <2>3. CASE ~UNCHANGED <<stats, seen>>
    BY <1>6, <2>1, <2>3, WaiverEnter DEF IssueNote
  <2> QED
    BY <2>2, <2>3
<1>7. CASE EndIssue
  BY <1>7 DEF EndIssue, WaiverInv, filters
<1>8. CASE UNCHANGED vars
  <2>1. Kept
    BY <1>8 DEF vars, outcome, filters
  <2> QED
    BY <1>1, <2>1
<1> QED
  BY <1>2, <1>3, <1>4, <1>5, <1>6, <1>7, <1>8 DEF Next

(***************************************************************************)
(* For any waiver files and any diagnostics with any notes: the reason     *)
(* getSummary gives for a waiver that was never applied follows from the   *)
(* diagnostics that reached it.                                            *)
(***************************************************************************)
THEOREM ReasonsTrue == Spec => []WaiverReasonsTrue
<1>1. WaiverInv => WaiverReasonsTrue
  <2> SUFFICES ASSUME WaiverInv, NEW k \in DOMAIN rules, stats[k].applied = 0
               PROVE  LET reached == ReachedBy(rules, seen, k)
                          inScope == { d \in reached : ScopeMatches(rules[k], d) }
                          named == { d \in inScope : CodeMatches(rules[k], d) }
                      IN  /\ \A d \in reached : ~Waives(rules[k], d)
                          /\ UnusedReason(rules[k], stats[k]) =
                                CASE named # {} -> "regex never matched"
                                  [] named = {} /\ inScope # {} -> "diagnostic not seen"
                                  [] inScope = {} /\ rules[k].hier
                                       /\ \E d \in reached : /\ Diags[d].path = ""
                                                             /\ Diags[d].code \in rules[k].codes
                                       -> "no symbol"
                                  [] OTHER -> "no scope matched"
    BY DEF WaiverReasonsTrue, ReachedBy
  <2>1. k \in 1 .. Len(rules)
    BY DEF WaiverInv
  <2>2. Explains(rules[k], stats[k], ReachedBy(rules, seen, k))
    BY <2>1 DEF WaiverInv
  <2> QED
    BY <2>2, TrueReason
<1>2. Spec => []WaiverInv
  BY WaiverInit, WaiverStep, PTL DEF Spec
<1> QED
  BY <1>1, <1>2, PTL
-----------------------------------------------------------------------------
(***************************************************************************)
(* What holds of 0 and passes from each number below n to the next holds   *)
(* up to n.                                                                *)
(***************************************************************************)
LEMMA CountUp ==
    ASSUME NEW n \in Nat, NEW S, 0 \in S, \A k \in Nat : k < n /\ k \in S => k + 1 \in S
    PROVE  \A k \in 0 .. n : k \in S
<1> DEFINE R == {ss \in Nat \X Nat : ss[1] < ss[2]}
           Missed == {k \in 0 .. n : k \notin S}
<1> SUFFICES ASSUME Missed # {} PROVE FALSE
  OBVIOUS
<1>1. IsWellFoundedOn(R, Nat)
  BY NatLessThanWellFounded DEF OpToRel
<1>2. Missed \subseteq Nat
  OBVIOUS
<1>3. PICK k \in Missed : \A j \in Missed : ~(<<j, k>> \in R)
  <2> HIDE DEF R, Missed
  <2> QED
    BY <1>1, <1>2, WFMin
<1>4. k \in Nat /\ k # 0 /\ k - 1 \in Nat /\ k - 1 < n /\ k - 1 \in 0 .. n
  BY <1>3
<1>5. k - 1 \notin S
  <2>1. k - 1 + 1 = k
    BY <1>4
  <2> QED
    BY <1>3, <1>4, <2>1
<1>6. k - 1 \in Missed /\ <<k - 1, k>> \in R
  BY <1>4, <1>5
<1> QED
  BY <1>3, <1>6

LEMMA GreatestIndex ==
    ASSUME NEW n \in Nat, NEW s \in SUBSET (1 .. n), s # {}
    PROVE  Max(s) \in s /\ \A j \in s : Max(s) >= j
<1> DEFINE P == {k \in Nat : s \cap (1 .. k) # {} =>
                                 \E m \in s \cap (1 .. k) : \A j \in s \cap (1 .. k) : m >= j}
<1>1. 0 \in P
  OBVIOUS
<1>2. ASSUME NEW k \in Nat, k \in P PROVE k + 1 \in P
  <2>1. 1 .. k + 1 = (1 .. k) \cup {k + 1} /\ \A j \in 1 .. k + 1 : k + 1 >= j
    OBVIOUS
  <2>2. CASE k + 1 \in s
    BY <2>1, <2>2
  <2>3. CASE k + 1 \notin s
    <3>1. s \cap (1 .. k + 1) = s \cap (1 .. k)
      BY <2>1, <2>3
    <3>2. k + 1 \in Nat
      OBVIOUS
    <3> QED
      BY <1>2, <3>1, <3>2
  <2> QED
    BY <2>2, <2>3
<1>3. n \in P
  <2>1. n \in 0 .. n
    OBVIOUS
  <2> HIDE DEF P
  <2> QED
    BY <1>1, <1>2, <2>1, CountUp
<1>4. s \cap (1 .. n) = s
  OBVIOUS
<1>5. PICK m \in s : \A j \in s : m >= j
  BY <1>3, <1>4
<1> QED
  BY <1>5 DEF Max

LEMMA IntervalTop ==
    ASSUME NEW k \in Nat
    PROVE  /\ Max(1 .. k + 1) = k + 1
           /\ (1 .. k + 1) \ {k + 1} = 1 .. k
           /\ 1 .. k + 1 # {}
<1>1. 1 .. k + 1 # {} /\ k + 1 \in 1 .. k + 1 /\ (1 .. k + 1) \ {k + 1} = 1 .. k /\ k + 1 \in Nat
  OBVIOUS
<1>2. Max(1 .. k + 1) \in 1 .. k + 1 /\ \A j \in 1 .. k + 1 : Max(1 .. k + 1) >= j
  BY <1>1, GreatestIndex
<1> QED
  BY <1>1, <1>2

-----------------------------------------------------------------------------
(***************************************************************************)
(* FoldLeft over the -W options of a list and over the directives of a     *)
(* file: one step after the other, from the first to the last.             *)
(***************************************************************************)
Added(acc, x) ==
    IF x.over = "options" THEN ApplyOption(acc, x.option, x.names, x.options, x.asErrors)
    ELSE ApplyDirective(acc, x.directive)

Folded(it, s, list, xs) ==
    IF s = {} THEN list ELSE Added(it[s \ {Max(s)}], xs[Max(s)])

IsFold(it, n, list, xs) == it = [s \in SUBSET (1 .. n) |-> Folded(it, s, list, xs)]

LEMMA FoldExists ==
    ASSUME NEW n \in Nat, NEW list, NEW xs
    PROVE  \E it : IsFold(it, n, list, xs)
<1> DEFINE P == {k \in Nat : \E it : it = [s \in SUBSET (1 .. k) |-> Folded(it, s, list, xs)]}
<1>1. 0 \in P
  <2> DEFINE it == [s \in SUBSET (1 .. 0) |-> list]
  <2>1. \A s \in SUBSET (1 .. 0) : s = {}
    OBVIOUS
  <2>2. it = [s \in SUBSET (1 .. 0) |-> Folded(it, s, list, xs)]
    BY <2>1 DEF Folded
  <2> HIDE DEF it
  <2> QED
    BY <2>2
<1>2. ASSUME NEW k \in Nat, k \in P PROVE k + 1 \in P
  <2>1. PICK g : g = [s \in SUBSET (1 .. k) |-> Folded(g, s, list, xs)]
    BY <1>2
  <2> DEFINE it == [s \in SUBSET (1 .. k + 1) |-> Folded(g, s, list, xs)]
  <2>2. \A s \in SUBSET (1 .. k) : it[s] = g[s]
    <3>1. \A s \in SUBSET (1 .. k) : s \in SUBSET (1 .. k + 1)
      OBVIOUS
    <3> QED
      BY <2>1, <3>1
  <2>3. ASSUME NEW s \in SUBSET (1 .. k + 1)
        PROVE  Folded(it, s, list, xs) = Folded(g, s, list, xs)
    <3>1. CASE s = {}
      BY <3>1 DEF Folded
    <3>2. CASE s # {}
      <4>1. Max(s) \in s /\ \A j \in s : Max(s) >= j
        <5>1. PICK m \in Nat : m = k + 1
          OBVIOUS
        <5>2. s \in SUBSET (1 .. m)
          BY <5>1
        <5> QED
          BY <3>2, <5>2, GreatestIndex
      <4>2. s \ {Max(s)} \in SUBSET (1 .. k)
        <5>1. PICK top : top = Max(s)
          OBVIOUS
        <5>2. \A j \in s : j \in 1 .. k + 1 /\ top >= j
          BY <4>1, <5>1
        <5>3. top \in 1 .. k + 1
          BY <4>1, <5>1, <5>2
        <5>4. ASSUME NEW j \in s, j # top PROVE j \in 1 .. k
          <6>1. j \in 1 .. k + 1 /\ top >= j
            BY <5>2
          <6> QED
            BY <5>3, <5>4, <6>1
        <5> QED
          BY <5>1, <5>4
      <4>3. it[s \ {Max(s)}] = g[s \ {Max(s)}]
        BY <2>2, <4>2
      <4> HIDE DEF it
      <4> QED
        BY <4>3 DEF Folded
    <3> QED
      BY <3>1, <3>2
  <2>4. it = [s \in SUBSET (1 .. k + 1) |-> Folded(it, s, list, xs)]
    BY <2>3
  <2> HIDE DEF it
  <2> QED
    BY <2>4
<1>3. n \in 0 .. n
  OBVIOUS
<1> HIDE DEF P
<1>4. n \in P
  BY <1>1, <1>2, <1>3, CountUp
<1> QED
  BY <1>4 DEF P, IsFold

\* The steps of a fold, from its base to its result.
IsTrace(trace, n, list, xs, result) ==
    /\ trace[0] = list /\ trace[n] = result
    /\ \A k \in 0 .. n - 1 : trace[k + 1] = Added(trace[k], xs[k + 1])

LEMMA FoldUnrolls ==
    ASSUME NEW n \in Nat, NEW list, NEW xs, NEW it, IsFold(it, n, list, xs)
    PROVE  \E trace : IsTrace(trace, n, list, xs, it[1 .. n])
<1> DEFINE trace == [k \in 0 .. n |-> it[1 .. k]]
<1>1. \A k \in 0 .. n : trace[k] = it[1 .. k] /\ 1 .. k \in SUBSET (1 .. n)
  OBVIOUS
<1>2. 1 .. 0 = {} /\ 0 \in 0 .. n /\ n \in 0 .. n
  OBVIOUS
<1> HIDE DEF trace
<1>3. trace[0] = list
  BY <1>1, <1>2 DEF Folded, IsFold
<1>4. ASSUME NEW k \in 0 .. n - 1 PROVE trace[k + 1] = Added(trace[k], xs[k + 1])
  <2>1. k \in Nat /\ k \in 0 .. n /\ k + 1 \in 0 .. n
    OBVIOUS
  <2>2. it[1 .. k + 1] = Folded(it, 1 .. k + 1, list, xs)
    BY <1>1, <2>1 DEF IsFold
  <2>3. it[1 .. k + 1] = Added(it[1 .. k], xs[k + 1])
    BY <2>1, <2>2, IntervalTop DEF Folded
  <2> QED
    BY <1>1, <2>1, <2>3
<1> QED
  BY <1>1, <1>2, <1>3, <1>4 DEF IsTrace

OptionsTrace(trace, n, names, options, asErrors) ==
    \A k \in 0 .. n - 1 :
        trace[k + 1] = ApplyOption(trace[k], options[k + 1], names, options, asErrors)

LEMMA OptionsUnroll ==
    ASSUME NEW O, NEW options \in Seq(O), NEW names, NEW overrides, NEW asErrors
    PROVE  \E trace : /\ trace[0] = overrides
                      /\ trace[Len(options)] = ApplyNames(names, options, overrides, asErrors)
                      /\ OptionsTrace(trace, Len(options), names, options, asErrors)
<1> DEFINE n == Len(options)
           x(k) == [over |-> "options", option |-> options[k], names |-> names,
                    options |-> options, asErrors |-> asErrors]
           xs == [k \in 1 .. n |-> x(k)]
           Step(it, s) == IF s = {} THEN overrides
                          ELSE ApplyOption(it[s \ {Max(s)}], options[Max(s)], names, options,
                                           asErrors)
           fold == CHOOSE it : it = [s \in SUBSET DOMAIN options |-> Step(it, s)]
<1>1. ApplyNames(names, options, overrides, asErrors) = fold[DOMAIN options]
  BY DEF ApplyNames, FoldLeft, MapThenFoldSet
<1>2. n \in Nat /\ DOMAIN options = 1 .. n
  OBVIOUS
<1>3. ASSUME NEW k \in 1 .. n, NEW l
      PROVE  Added(l, xs[k]) = ApplyOption(l, options[k], names, options, asErrors)
  <2>1. xs[k] = x(k)
    OBVIOUS
  <2> QED
    BY <2>1 DEF Added
<1> HIDE DEF xs, n
<1>4. ASSUME NEW it, NEW s \in SUBSET (1 .. n) PROVE Step(it, s) = Folded(it, s, overrides, xs)
  <2>1. CASE s = {}
    BY <2>1 DEF Folded
  <2>2. CASE s # {}
    <3>1. Max(s) \in s
      BY <1>2, <2>2, GreatestIndex
    <3>2. Max(s) \in 1 .. n
      BY <3>1
    <3> QED
      BY <1>3, <2>2, <3>2 DEF Folded
  <2> QED
    BY <2>1, <2>2
<1> HIDE DEF Step
<1>5. PICK it : IsFold(it, n, overrides, xs)
  BY <1>2, FoldExists
<1>6. it = [s \in SUBSET DOMAIN options |-> Step(it, s)]
  BY <1>2, <1>4, <1>5 DEF IsFold
<1>7. fold = [s \in SUBSET DOMAIN options |-> Step(fold, s)]
  BY <1>6
<1> HIDE DEF fold
<1>8. IsFold(fold, n, overrides, xs)
  BY <1>2, <1>4, <1>7 DEF IsFold
<1>9. PICK trace : IsTrace(trace, n, overrides, xs, fold[1 .. n])
  BY <1>2, <1>8, FoldUnrolls
<1>10. ASSUME NEW k \in 0 .. n - 1
       PROVE  trace[k + 1] = ApplyOption(trace[k], options[k + 1], names, options, asErrors)
  <2>1. k + 1 \in 1 .. n
    BY <1>2
  <2>2. trace[k + 1] = Added(trace[k], xs[k + 1])
    BY <1>9 DEF IsTrace
  <2> QED
    BY <1>3, <2>1, <2>2
<1>11. trace[0] = overrides /\ trace[n] = fold[1 .. n]
  BY <1>9 DEF IsTrace
<1>12. /\ trace[0] = overrides
       /\ trace[n] = ApplyNames(names, options, overrides, asErrors)
       /\ OptionsTrace(trace, n, names, options, asErrors)
  BY <1>1, <1>2, <1>10, <1>11 DEF OptionsTrace
<1> QED
  BY <1>12 DEF n

NoState == [mappings |-> NoMappings, stack |-> <<NoOverrides>>]

DirectivesTrace(trace, n, directives) ==
    \A k \in 0 .. n - 1 : trace[k + 1] = ApplyDirective(trace[k], directives[k + 1])

LEMMA DirectivesUnroll ==
    ASSUME NEW D, NEW directives \in Seq(D)
    PROVE  \E trace : /\ trace[0] = NoState
                      /\ trace[Len(directives)].mappings = MappingsFromPragmas(directives, NoMappings)
                      /\ DirectivesTrace(trace, Len(directives), directives)
<1> DEFINE n == Len(directives)
           x(k) == [over |-> "directives", directive |-> directives[k]]
           xs == [k \in 1 .. n |-> x(k)]
           Step(it, s) == IF s = {} THEN NoState
                          ELSE ApplyDirective(it[s \ {Max(s)}], directives[Max(s)])
           fold == CHOOSE it : it = [s \in SUBSET DOMAIN directives |-> Step(it, s)]
<1>1. MappingsFromPragmas(directives, NoMappings) = fold[DOMAIN directives].mappings
  BY DEF MappingsFromPragmas, FoldLeft, MapThenFoldSet, NoState
<1>2. n \in Nat /\ DOMAIN directives = 1 .. n
  OBVIOUS
<1>3. ASSUME NEW k \in 1 .. n, NEW l
      PROVE  Added(l, xs[k]) = ApplyDirective(l, directives[k])
  <2>1. xs[k] = x(k)
    OBVIOUS
  <2> QED
    BY <2>1 DEF Added
<1> HIDE DEF xs, n
<1>4. ASSUME NEW it, NEW s \in SUBSET (1 .. n) PROVE Step(it, s) = Folded(it, s, NoState, xs)
  <2>1. CASE s = {}
    BY <2>1 DEF Folded
  <2>2. CASE s # {}
    <3>1. Max(s) \in s
      BY <1>2, <2>2, GreatestIndex
    <3>2. Max(s) \in 1 .. n
      BY <3>1
    <3> QED
      BY <1>3, <2>2, <3>2 DEF Folded
  <2> QED
    BY <2>1, <2>2
<1> HIDE DEF Step
<1>5. PICK it : IsFold(it, n, NoState, xs)
  BY <1>2, FoldExists
<1>6. it = [s \in SUBSET DOMAIN directives |-> Step(it, s)]
  BY <1>2, <1>4, <1>5 DEF IsFold
<1>7. fold = [s \in SUBSET DOMAIN directives |-> Step(fold, s)]
  BY <1>6
<1> HIDE DEF fold
<1>8. IsFold(fold, n, NoState, xs)
  BY <1>2, <1>4, <1>7 DEF IsFold
<1>9. PICK trace : IsTrace(trace, n, NoState, xs, fold[1 .. n])
  BY <1>2, <1>8, FoldUnrolls
<1>10. ASSUME NEW k \in 0 .. n - 1
       PROVE  trace[k + 1] = ApplyDirective(trace[k], directives[k + 1])
  <2>1. k + 1 \in 1 .. n
    BY <1>2
  <2>2. trace[k + 1] = Added(trace[k], xs[k + 1])
    BY <1>9 DEF IsTrace
  <2> QED
    BY <1>3, <2>1, <2>2
<1>11. trace[0] = NoState /\ trace[n] = fold[1 .. n]
  BY <1>9 DEF IsTrace
<1>12. /\ trace[0] = NoState
       /\ trace[n].mappings = MappingsFromPragmas(directives, NoMappings)
       /\ DirectivesTrace(trace, n, directives)
  BY <1>1, <1>2, <1>10, <1>11 DEF DirectivesTrace
<1> QED
  BY <1>12 DEF n
-----------------------------------------------------------------------------
(***************************************************************************)
(* -W options.  Which option about some names is the last one.             *)
(***************************************************************************)
About(o, ops, names) == o.op \in ops /\ o.name \in names

NoneIs(options, ops, names) == \A i \in 1 .. Len(options) : ~About(options[i], ops, names)

LastIs(options, m, ops, names) ==
    /\ m \in 1 .. Len(options) /\ About(options[m], ops, names)
    /\ \A i \in 1 .. Len(options) : i > m => ~About(options[i], ops, names)

LEMMA LastOpIs ==
    ASSUME NEW O, NEW options \in Seq(O), NEW ops, NEW names
    PROVE  \/ /\ NoneIs(options, ops, names)
              /\ LastOp(options, ops, names) = "none given"
           \/ \E m \in 1 .. Len(options) : /\ LastIs(options, m, ops, names)
                                           /\ LastOp(options, ops, names) = options[m].op
<1> DEFINE I == {i \in 1 .. Len(options) : options[i].op \in ops /\ options[i].name \in names}
           k == IF I # {} THEN Max(I) ELSE 0
<1>1. LastOp(options, ops, names) = IF k = 0 THEN "none given" ELSE options[k].op
  BY DEF LastOp, SelectLastInSeq
<1>2. Len(options) \in Nat /\ I \in SUBSET (1 .. Len(options))
  OBVIOUS
<1>3. CASE I = {}
  BY <1>1, <1>3 DEF NoneIs, About
<1>4. CASE I # {}
  <2>1. k \in I /\ \A j \in I : k >= j
    <3> HIDE DEF I
    <3> QED
      BY <1>2, <1>4, GreatestIndex
  <2>2. k \in 1 .. Len(options) /\ k # 0
    BY <2>1
  <2>3. \A i \in I : i <= k
    BY <1>2, <2>1, <2>2
  <2> HIDE DEF k
  <2>4. LastIs(options, k, ops, names)
    BY <2>1, <2>2, <2>3 DEF LastIs, About
  <2> QED
    BY <1>1, <2>2, <2>4
<1> QED
  BY <1>3, <1>4

LEMMA ExplicitErrorIs ==
    ASSUME NEW O, NEW options \in Seq(O), NEW name
    PROVE  \/ /\ NoneIs(options, ErrorOps, {name})
              /\ ExplicitError(options, name) = "none"
           \/ \E m \in 1 .. Len(options) : /\ LastIs(options, m, ErrorOps, {name})
                                           /\ ExplicitError(options, name) = options[m].op
<1> DEFINE I == {i \in 1 .. Len(options) : options[i].op \in ErrorOps /\ options[i].name = name}
           k == IF I # {} THEN Max(I) ELSE 0
<1>1. ExplicitError(options, name) = IF k = 0 THEN "none" ELSE options[k].op
  BY DEF ExplicitError, SelectLastInSeq
<1>2. Len(options) \in Nat /\ I \in SUBSET (1 .. Len(options))
  OBVIOUS
<1>3. CASE I = {}
  BY <1>1, <1>3 DEF NoneIs, About
<1>4. CASE I # {}
  <2>1. k \in I /\ \A j \in I : k >= j
    <3> HIDE DEF I
    <3> QED
      BY <1>2, <1>4, GreatestIndex
  <2>2. k \in 1 .. Len(options) /\ k # 0
    BY <2>1
  <2>3. \A i \in I : i <= k
    BY <1>2, <2>1, <2>2
  <2> HIDE DEF k
  <2>4. LastIs(options, k, ErrorOps, {name})
    BY <2>1, <2>2, <2>3 DEF LastIs, About
  <2> QED
    BY <1>1, <2>2, <2>4
<1> QED
  BY <1>3, <1>4

(***************************************************************************)
(* A list of options as the command line gives it: -Weverything, -Wnone    *)
(* and -Werror have no name.                                               *)
(***************************************************************************)
IsCommandLine(options) ==
    /\ \E O : options \in Seq(O)
    /\ \A k \in 1 .. Len(options) : /\ options[k].op \in FlagOps \cup EnableOps \cup ErrorOps
                                    /\ options[k].op \in FlagOps => options[k].name = ""

AllOps == {"everything", "none"}

LEMMA ParsedForm ==
    ASSUME NEW all, NEW ignore, NEW err \in BOOLEAN
    PROVE  [NoParsedOptions EXCEPT !.enableAll = all, !.ignoreAll = ignore,
                                   !.warningsAsErrors = @ \/ err]
               = [overrides |-> NoOverrides, enableAll |-> all, ignoreAll |-> ignore,
                  warningsAsErrors |-> err]
<1> DEFINE given == NoParsedOptions
<1>1. given = [overrides |-> NoOverrides, enableAll |-> given.enableAll,
               ignoreAll |-> given.ignoreAll, warningsAsErrors |-> given.warningsAsErrors]
  BY DEF NoParsedOptions
<1>2. given.warningsAsErrors = FALSE
  BY DEF NoParsedOptions
<1>3. (FALSE \/ err) = err
  OBVIOUS
<1> HIDE DEF given
<1>4. ASSUME NEW e
      PROVE  [given EXCEPT !.enableAll = all, !.ignoreAll = ignore, !.warningsAsErrors = e]
          = [overrides |-> NoOverrides, enableAll |-> all, ignoreAll |-> ignore,
             warningsAsErrors |-> e]
  <2> DEFINE g1 == [given EXCEPT !.enableAll = all]
             g2 == [g1 EXCEPT !.ignoreAll = ignore]
             g3 == [g2 EXCEPT !.warningsAsErrors = e]
  <2>1. g1 = [overrides |-> NoOverrides, enableAll |-> all,
              ignoreAll |-> given.ignoreAll, warningsAsErrors |-> given.warningsAsErrors]
    BY <1>1
  <2> HIDE DEF g1
  <2>2. g2 = [overrides |-> NoOverrides, enableAll |-> all,
              ignoreAll |-> ignore, warningsAsErrors |-> given.warningsAsErrors]
    BY <2>1
  <2> HIDE DEF g2
  <2>3. g3 = [overrides |-> NoOverrides, enableAll |-> all,
              ignoreAll |-> ignore, warningsAsErrors |-> e]
    BY <2>2
  <2> QED
    BY <2>3 DEF g1, g2, g3
<1>5. [given EXCEPT !.enableAll = all, !.ignoreAll = ignore, !.warningsAsErrors = err]
          = [overrides |-> NoOverrides, enableAll |-> all, ignoreAll |-> ignore,
             warningsAsErrors |-> err]
  BY <1>4
<1>6. [given EXCEPT !.enableAll = all, !.ignoreAll = ignore, !.warningsAsErrors = @ \/ err]
          = [given EXCEPT !.enableAll = all, !.ignoreAll = ignore, !.warningsAsErrors = err]
  BY <1>2, <1>3
<1> QED
  BY <1>5, <1>6 DEF given

LEMMA FlagsAre ==
    ASSUME NEW options, IsCommandLine(options)
    PROVE  \E ignore : ParsedFlags(options, NoParsedOptions) =
               [overrides |-> NoOverrides,
                enableAll |-> LastOp(options, AllOps, {""}) = "everything",
                ignoreAll |-> ignore,
                warningsAsErrors |-> \E i \in DOMAIN options : options[i].op = "error"]
<1> DEFINE I == {i \in 1 .. Len(options) : options[i].op \in {"everything", "none"}}
           k == IF I # {} THEN Max(I) ELSE 0
           all == IF k = 0 THEN FALSE ELSE options[k].op = "everything"
           ignore == IF k = 0 THEN FALSE ELSE options[k].op = "none"
           err == \E i \in DOMAIN options : options[i].op = "error"
<1>1. ParsedFlags(options, NoParsedOptions)
          = [NoParsedOptions EXCEPT !.enableAll = all, !.ignoreAll = ignore,
                                    !.warningsAsErrors = @ \/ err]
  <2>1. ParsedFlags(options, NoParsedOptions)
          = [NoParsedOptions EXCEPT
                !.enableAll = IF k = 0 THEN @ ELSE options[k].op = "everything",
                !.ignoreAll = IF k = 0 THEN @ ELSE options[k].op = "none",
                !.warningsAsErrors = @ \/ err]
    BY DEF ParsedFlags, SelectLastInSeq
  <2>2. NoParsedOptions.enableAll = FALSE /\ NoParsedOptions.ignoreAll = FALSE
    BY DEF NoParsedOptions
  <2> HIDE DEF k, err
  <2> QED
    BY <2>1, <2>2
<1>2. I = {i \in 1 .. Len(options) : options[i].op \in AllOps /\ options[i].name \in {""}}
  BY DEF IsCommandLine, FlagOps, AllOps
<1>3. LastOp(options, AllOps, {""}) = IF k = 0 THEN "none given" ELSE options[k].op
  BY <1>2 DEF LastOp, SelectLastInSeq
<1> HIDE DEF k
<1>4. all = (LastOp(options, AllOps, {""}) = "everything")
  BY <1>3
<1>5. err \in BOOLEAN
  OBVIOUS
<1> HIDE DEF all, ignore, err
<1>6. ParsedFlags(options, NoParsedOptions)
          = [overrides |-> NoOverrides, enableAll |-> all, ignoreAll |-> ignore,
             warningsAsErrors |-> err]
  BY <1>1, <1>5, ParsedForm
<1> QED
  BY <1>4, <1>6 DEF err

(***************************************************************************)
(* What a list of options leaves in a table: the severity of a code is the *)
(* one the last option about its names gives it, or what it was.           *)
(***************************************************************************)
LEMMA NamesApplied ==
    ASSUME NEW O, NEW options \in Seq(O), NEW names, NEW overrides, NEW asErrors, NEW c \in Codes
    PROVE  LET result == ApplyNames(names, options, overrides, asErrors)[c]
           IN  \/ NoneIs(options, EnableOps, names[c]) /\ result = overrides[c]
               \/ \E m \in 1 .. Len(options) :
                     /\ LastIs(options, m, EnableOps, names[c])
                     /\ result = SeverityFor(options, options[m].name, options[m].op # "no-",
                                             asErrors)
<1> DEFINE n == Len(options)
           result == ApplyNames(names, options, overrides, asErrors)[c]
           Given(m) == SeverityFor(options, options[m].name, options[m].op # "no-", asErrors)
           Enabling(m) == About(options[m], EnableOps, names[c])
<1>1. PICK trace : /\ trace[0] = overrides
                   /\ trace[Len(options)] = ApplyNames(names, options, overrides, asErrors)
                   /\ OptionsTrace(trace, Len(options), names, options, asErrors)
  BY OptionsUnroll
<1> DEFINE By(k, m) == /\ Enabling(m)
                       /\ \A i \in 1 .. k : i > m => ~Enabling(i)
                       /\ trace[k][c] = Given(m)
           Right(k) ==
               \/ (\A i \in 1 .. k : ~Enabling(i)) /\ trace[k][c] = overrides[c]
               \/ \E m \in 1 .. k : By(k, m)
           S == {k \in Nat : k <= n => Right(k)}
<1>2. n \in Nat
  OBVIOUS
<1>3. ASSUME NEW k \in Nat, k < n
      PROVE  trace[k + 1][c] = IF Enabling(k + 1) THEN Given(k + 1) ELSE trace[k][c]
  <2>1. k \in 0 .. n - 1
    BY <1>2, <1>3
  <2>2. trace[k + 1] = ApplyOption(trace[k], options[k + 1], names, options, asErrors)
    BY <1>1, <2>1 DEF OptionsTrace
  <2> QED
    BY <2>2 DEF ApplyOption, Enables, About
<1> HIDE DEF n, Given, Enabling
<1>4. 0 \in S
  BY <1>1
<1>5. ASSUME NEW k \in Nat, k < n, k \in S PROVE k + 1 \in S
  <2>1. 1 .. k + 1 = (1 .. k) \cup {k + 1} /\ k + 1 \in Nat
    OBVIOUS
  <2>2. \A m \in 1 .. k : ~(m > k) /\ k + 1 > m
    OBVIOUS
  <2>3. trace[k + 1][c] = IF Enabling(k + 1) THEN Given(k + 1) ELSE trace[k][c]
    BY <1>3, <1>5
  <2>4. k <= n
    BY <1>2, <1>5
  <2>5. Right(k)
    BY <1>5, <2>4
  <2>6. CASE Enabling(k + 1)
    <3>1. k + 1 \in 1 .. k + 1 /\ \A i \in 1 .. k + 1 : ~(i > k + 1)
      OBVIOUS
    <3>2. Right(k + 1)
      BY <2>3, <2>6, <3>1
    <3> QED
      BY <2>1, <3>2
  <2>7. CASE ~Enabling(k + 1)
    <3>1. trace[k + 1][c] = trace[k][c]
      BY <2>3, <2>7
    <3>2. CASE (\A i \in 1 .. k : ~Enabling(i)) /\ trace[k][c] = overrides[c]
      <4>1. (\A i \in 1 .. k + 1 : ~Enabling(i)) /\ trace[k + 1][c] = overrides[c]
        BY <2>1, <2>7, <3>1, <3>2
      <4> QED
        BY <2>1, <4>1
    <3>3. ASSUME NEW m \in 1 .. k, By(k, m) PROVE k + 1 \in S
      <4>1. \A i \in 1 .. k + 1 : i > m => ~Enabling(i)
        BY <2>1, <2>7, <3>3
      <4>2. m \in 1 .. k + 1 /\ trace[k + 1][c] = Given(m)
        BY <2>1, <3>1, <3>3
      <4>3. Right(k + 1)
        BY <3>3, <4>1, <4>2
      <4> QED
        BY <2>1, <4>3
    <3> HIDE DEF By, S
    <3> QED
      BY <2>5, <3>2, <3>3
  <2> QED
    BY <2>6, <2>7
<1>6. Right(n)
  <2>1. n \in S
    <3>1. n \in 0 .. n
      BY <1>2
    <3> HIDE DEF S
    <3> QED
      BY <1>2, <1>4, <1>5, <3>1, CountUp
  <2> QED
    BY <1>2, <2>1
<1>7. trace[n][c] = result
  BY <1>1 DEF n
<1> HIDE DEF result
<1>8. CASE (\A i \in 1 .. n : ~Enabling(i)) /\ trace[n][c] = overrides[c]
  <2>1. NoneIs(options, EnableOps, names[c]) /\ result = overrides[c]
    BY <1>7, <1>8 DEF NoneIs, Enabling, n
  <2> QED
    BY <2>1 DEF result
<1>9. ASSUME NEW m \in 1 .. n, By(n, m)
      PROVE  /\ LastIs(options, m, EnableOps, names[c]) /\ m \in 1 .. Len(options)
             /\ result = Given(m)
  BY <1>7, <1>9 DEF LastIs, Enabling, n
<1> HIDE DEF By
<1> QED
  BY <1>6, <1>8, <1>9 DEF result, Given

LEMMA OneLast ==
    ASSUME NEW O, NEW options \in Seq(O), NEW ops, NEW names,
           NEW m, LastIs(options, m, ops, names), NEW k, LastIs(options, k, ops, names)
    PROVE  m = k
<1>1. m \in 1 .. Len(options) /\ k \in 1 .. Len(options) /\ ~(m > k) /\ ~(k > m)
  BY DEF LastIs
<1> QED
  BY <1>1

\* The severity of a warning follows from its entry and the flags alone.
LEMMA SeverityOfEntry ==
    ASSUME NEW table, NEW fs, NEW code \in Codes, DefaultSeverity[code] = "warning"
    PROVE  GetSeverity(Unset, NoParsedOptions, table, fs, code)
               = IF table[code] # Unset THEN table[code]
                 ELSE IF fs.ignoreAllWarnings THEN "ignored"
                 ELSE IF fs.warningsAsErrors THEN "error" ELSE "warning"
<1>1. FindPerBufferSeverity(NoParsedOptions, code) = Unset
  BY DEF FindPerBufferSeverity, NoParsedOptions, NoOverrides
<1>2. OverrideWarnAsError(NoParsedOptions, code) = FALSE
  BY DEF OverrideWarnAsError, NoParsedOptions
<1>3. FlaggedSeverity(fs, code, FALSE)
          = IF fs.ignoreAllWarnings THEN "ignored"
            ELSE IF fs.warningsAsErrors THEN "error" ELSE "warning"
  BY DEF FlaggedSeverity
<1>4. GetSeverity(Unset, NoParsedOptions, table, fs, code)
          = IF table[code] # Unset THEN table[code] ELSE FlaggedSeverity(fs, code, FALSE)
  BY <1>1, <1>2 DEF GetSeverity
<1> QED
  BY <1>3, <1>4

\* The table before any name is looked at.
Started(options, asErrors) ==
    IF ~\E k \in DOMAIN options : options[k].op = "none"
      THEN DefaultGroup(options, NoOverrides, asErrors) ELSE NoOverrides

Resulting(options, asErrors) ==
    ApplyCodes(options, Downgrade(options, ApplyGroups(options, Started(options, asErrors), asErrors)),
               asErrors)

LEMMA CommandLineSeverityIs ==
    ASSUME NEW options, IsCommandLine(options),
           NEW code \in Codes, DefaultSeverity[code] = "warning"
    PROVE  LET all == LastOp(options, AllOps, {""}) = "everything"
               err == \E i \in DOMAIN options : options[i].op = "error"
               table == Resulting(options, err)
           IN  CommandLineSeverity(options, code)
                   = IF table[code] # Unset THEN table[code]
                     ELSE IF ~all THEN "ignored" ELSE IF err THEN "error" ELSE "warning"
<1> DEFINE all == LastOp(options, AllOps, {""}) = "everything"
           err == \E i \in DOMAIN options : options[i].op = "error"
           table == Resulting(options, err)
           none == \E k \in DOMAIN options : options[k].op = "none"
           parsed == ParsedFlags(options, NoParsedOptions)
           results == ParseWarningOptions(options, TRUE, NoParsedOptions)
<1>1. PICK ignore : parsed = [overrides |-> NoOverrides, enableAll |-> all,
                              ignoreAll |-> ignore, warningsAsErrors |-> err]
  BY FlagsAre
<1> HIDE DEF all, err, parsed
<1>2. /\ parsed.overrides = NoOverrides /\ parsed.enableAll = all
      /\ parsed.warningsAsErrors = err
  BY <1>1
<1>3. results = [parsed EXCEPT !.overrides = table]
  <2>1. results = LET keepDefault == TRUE /\ ~none
                      started == IF keepDefault
                                   THEN DefaultGroup(options, parsed.overrides, parsed.warningsAsErrors)
                                   ELSE parsed.overrides
                      grouped == ApplyGroups(options, started, parsed.warningsAsErrors)
                  IN  [parsed EXCEPT !.overrides =
                          ApplyCodes(options, Downgrade(options, grouped), parsed.warningsAsErrors)]
    BY DEF ParseWarningOptions, parsed
  <2> HIDE DEF none, results
  <2>2. (TRUE /\ ~none) = ~none
    OBVIOUS
  <2>3. Started(options, err) = IF ~none THEN DefaultGroup(options, NoOverrides, err)
                                ELSE NoOverrides
    BY DEF Started, none
  <2> QED
    BY <1>2, <2>1, <2>2, <2>3 DEF Resulting
<1> HIDE DEF table, results
<1>4. results = [overrides |-> table, enableAll |-> all, ignoreAll |-> ignore,
                 warningsAsErrors |-> err]
  BY <1>1, <1>3
<1>5. results.overrides = table /\ results.enableAll = all /\ results.warningsAsErrors = err
  BY <1>4
<1> DEFINE fs == [f \in FlagNames |->
                     CASE f = "ignoreAllWarnings" -> ~results.enableAll
                       [] f = "warningsAsErrors" -> results.warningsAsErrors
                       [] OTHER -> FALSE]
<1>6. CommandLineSeverity(options, code)
          = GetSeverity(Unset, NoParsedOptions, results.overrides, fs, code)
  BY DEF CommandLineSeverity, results
<1>7. fs.ignoreAllWarnings = ~all /\ fs.warningsAsErrors = err
  BY <1>5 DEF FlagNames
<1> HIDE DEF fs
<1>8. CommandLineSeverity(options, code)
          = IF table[code] # Unset THEN table[code]
            ELSE IF fs.ignoreAllWarnings THEN "ignored"
            ELSE IF fs.warningsAsErrors THEN "error" ELSE "warning"
  BY <1>5, <1>6, SeverityOfEntry
<1>9. CommandLineSeverity(options, code)
          = IF table[code] # Unset THEN table[code]
            ELSE IF ~all THEN "ignored" ELSE IF err THEN "error" ELSE "warning"
  BY <1>7, <1>8
<1> QED
  BY <1>9 DEF all, err, table

\* What an entry says of a code that ends up with it.
Says(given, set, options, name, err) ==
    /\ given \in {"ignored", "warning", "error"}
    /\ (given # "ignored") = set
    /\ set /\ ExplicitError(options, name) = "error=" => given = "error"
    /\ set /\ ExplicitError(options, name) = "none" => given = IF err THEN "error" ELSE "warning"

LEMMA SeverityForSays ==
    ASSUME NEW options, NEW name, NEW set \in BOOLEAN, NEW err
    PROVE  Says(SeverityFor(options, name, set, err), set, options, name, err)
  BY DEF SeverityFor, Says

\* The entry of a code before the options about the code itself.
Entry(options, err, code) == ApplyGroups(options, Started(options, err), err)[code]

LEMMA OwnEntry ==
    ASSUME NEW O, NEW options \in Seq(O), NEW err, NEW code \in Codes
    PROVE  \/ /\ NoneIs(options, EnableOps, {code})
              /\ Resulting(options, err)[code]
                     = IF ExplicitError(options, code) = "no-error="
                            /\ Entry(options, err, code) = "error"
                         THEN "warning" ELSE Entry(options, err, code)
           \/ \E m \in 1 .. Len(options) :
                 /\ LastIs(options, m, EnableOps, {code})
                 /\ Says(Resulting(options, err)[code], options[m].op # "no-", options, code, err)
<1> DEFINE grouped == ApplyGroups(options, Started(options, err), err)
           names == [c \in Codes |-> {c}]
           downgraded == Downgrade(options, grouped)
<1>1. names[code] = {code}
  OBVIOUS
<1>2. downgraded[code] = IF ExplicitError(options, code) = "no-error="
                              /\ Entry(options, err, code) = "error"
                           THEN "warning" ELSE Entry(options, err, code)
  BY DEF Downgrade, Entry
<1>3. Resulting(options, err) = ApplyNames(names, options, downgraded, err)
  BY DEF Resulting, ApplyCodes
<1> HIDE DEF names, downgraded
<1> DEFINE result == ApplyNames(names, options, downgraded, err)[code]
<1>4. \/ NoneIs(options, EnableOps, {code}) /\ result = downgraded[code]
      \/ \E m \in 1 .. Len(options) :
            /\ LastIs(options, m, EnableOps, {code})
            /\ result = SeverityFor(options, options[m].name, options[m].op # "no-", err)
  <2>1. \/ NoneIs(options, EnableOps, names[code]) /\ result = downgraded[code]
        \/ \E m \in 1 .. Len(options) :
              /\ LastIs(options, m, EnableOps, names[code])
              /\ result = SeverityFor(options, options[m].name, options[m].op # "no-", err)
    BY NamesApplied
  <2>2. PICK own : own = names[code] /\ own = {code}
    BY <1>1
  <2> QED
    BY <2>1, <2>2
<1>5. CASE NoneIs(options, EnableOps, {code}) /\ result = downgraded[code]
  BY <1>2, <1>3, <1>5
<1>6. ASSUME NEW m \in 1 .. Len(options), LastIs(options, m, EnableOps, {code}),
             result = SeverityFor(options, options[m].name, options[m].op # "no-", err)
      PROVE  Says(Resulting(options, err)[code], options[m].op # "no-", options, code, err)
  <2>1. options[m].name = code
    BY <1>6 DEF LastIs, About
  <2>2. (options[m].op # "no-") \in BOOLEAN
    OBVIOUS
  <2> QED
    BY <1>3, <1>6, <2>1, <2>2, SeverityForSays
<1> QED
  BY <1>4, <1>5, <1>6

LEMMA GroupEntry ==
    ASSUME NEW O, NEW options \in Seq(O), NEW err, NEW code \in Codes
    PROVE  \/ /\ NoneIs(options, EnableOps, GroupsOf(code))
              /\ Entry(options, err, code) = Started(options, err)[code]
           \/ \E m \in 1 .. Len(options) :
                 /\ LastIs(options, m, EnableOps, GroupsOf(code))
                 /\ Says(Entry(options, err, code), options[m].op # "no-", options,
                         options[m].name, err)
<1> DEFINE names == [c \in Codes |-> GroupsOf(c)]
           started == Started(options, err)
<1>1. names[code] = GroupsOf(code)
  OBVIOUS
<1>2. Entry(options, err, code) = ApplyNames(names, options, started, err)[code]
  BY DEF Entry, ApplyGroups
<1> HIDE DEF names
<1>3. \/ NoneIs(options, EnableOps, GroupsOf(code)) /\ Entry(options, err, code) = started[code]
      \/ \E m \in 1 .. Len(options) :
            /\ LastIs(options, m, EnableOps, GroupsOf(code))
            /\ Entry(options, err, code)
                   = SeverityFor(options, options[m].name, options[m].op # "no-", err)
  BY <1>1, <1>2, NamesApplied
<1>4. ASSUME NEW m \in 1 .. Len(options),
             Entry(options, err, code)
                 = SeverityFor(options, options[m].name, options[m].op # "no-", err)
      PROVE  Says(Entry(options, err, code), options[m].op # "no-", options, options[m].name, err)
  <2>1. (options[m].op # "no-") \in BOOLEAN
    OBVIOUS
  <2> QED
    BY <1>4, <2>1, SeverityForSays
<1> QED
  BY <1>3, <1>4

LEMMA DefaultEntry ==
    ASSUME NEW O, NEW options \in Seq(O), NEW err, NEW code \in Codes
    PROVE  IF (~\E k \in DOMAIN options : options[k].op = "none") /\ code \in Groups["default"]
             THEN Says(Started(options, err)[code], TRUE, options, "default", err)
             ELSE Started(options, err)[code] = Unset
<1> DEFINE given == SeverityFor(options, "default", TRUE, err)
           none == \E k \in DOMAIN options : options[k].op = "none"
<1>1. DefaultGroup(options, NoOverrides, err)[code]
          = IF code \in Groups["default"] THEN given ELSE Unset
  BY DEF DefaultGroup, Insert, NoOverrides
<1>2. Says(given, TRUE, options, "default", err)
  BY SeverityForSays
<1>3. NoOverrides[code] = Unset
  BY DEF NoOverrides
<1>4. Started(options, err) = IF ~none THEN DefaultGroup(options, NoOverrides, err) ELSE NoOverrides
  BY DEF Started
<1> HIDE DEF given, none
<1> QED
  BY <1>1, <1>2, <1>3, <1>4 DEF none

LEMMA LastOpOf ==
    ASSUME NEW O, NEW options \in Seq(O), NEW ops, NEW names
    PROVE  /\ NoneIs(options, ops, names) => LastOp(options, ops, names) = "none given"
           /\ \A m : LastIs(options, m, ops, names) =>
                  /\ m \in 1 .. Len(options) /\ m \in DOMAIN options
                  /\ options[m].op \in ops /\ options[m].name \in names
                  /\ LastOp(options, ops, names) = options[m].op
<1>1. ASSUME NoneIs(options, ops, names), NEW k \in 1 .. Len(options),
             LastIs(options, k, ops, names)
      PROVE  FALSE
  BY <1>1 DEF NoneIs, LastIs
<1>2. NoneIs(options, ops, names) => LastOp(options, ops, names) = "none given"
  BY <1>1, LastOpIs
<1>3. ASSUME NEW m, LastIs(options, m, ops, names)
      PROVE  /\ m \in 1 .. Len(options) /\ m \in DOMAIN options
             /\ options[m].op \in ops /\ options[m].name \in names
             /\ LastOp(options, ops, names) = options[m].op
  <2>1. /\ m \in 1 .. Len(options) /\ m \in DOMAIN options
        /\ options[m].op \in ops /\ options[m].name \in names
    BY <1>3 DEF LastIs, About
  <2>2. ~NoneIs(options, ops, names)
    BY <1>1, <1>3, <2>1
  <2>3. PICK k \in 1 .. Len(options) : /\ LastIs(options, k, ops, names)
                                       /\ LastOp(options, ops, names) = options[k].op
    BY <2>2, LastOpIs
  <2>4. m = k
    BY <1>3, <2>3, OneLast
  <2> QED
    BY <2>1, <2>3, <2>4
<1> QED
  BY <1>2, <1>3

LEMMA ExplicitErrorOf ==
    ASSUME NEW O, NEW options \in Seq(O)
    PROVE  /\ \A name : LastOp(options, ErrorOps, {name}) = "error="
                            => ExplicitError(options, name) = "error="
           /\ \A names : LastOp(options, ErrorOps, names) = "none given"
                            => \A name \in names : ExplicitError(options, name) = "none"
<1>1. ASSUME NEW name, LastOp(options, ErrorOps, {name}) = "error="
      PROVE  ExplicitError(options, name) = "error="
  <2>1. CASE NoneIs(options, ErrorOps, {name})
    <3>1. LastOp(options, ErrorOps, {name}) = "none given"
      BY <2>1, LastOpOf
    <3> QED
      BY <1>1, <3>1
  <2>2. ASSUME NEW m \in 1 .. Len(options), LastIs(options, m, ErrorOps, {name}),
               ExplicitError(options, name) = options[m].op
        PROVE  ExplicitError(options, name) = "error="
    BY <1>1, <2>2, LastOpOf
  <2> QED
    BY <2>1, <2>2, ExplicitErrorIs
<1>2. ASSUME NEW names, LastOp(options, ErrorOps, names) = "none given", NEW name \in names
      PROVE  ExplicitError(options, name) = "none"
  <2>1. NoneIs(options, ErrorOps, names)
    <3>1. ASSUME NEW m \in 1 .. Len(options), LastIs(options, m, ErrorOps, names)
          PROVE  FALSE
      <4>1. options[m].op \in ErrorOps /\ options[m].op = "none given"
        BY <1>2, <3>1, LastOpOf
      <4> QED
        BY <4>1 DEF ErrorOps
    <3> QED
      BY <3>1, LastOpIs
  <2>2. ASSUME NEW m \in 1 .. Len(options), LastIs(options, m, ErrorOps, {name})
        PROVE  FALSE
    BY <1>2, <2>1, <2>2 DEF LastIs, NoneIs, About
  <2> QED
    BY <2>2, ExplicitErrorIs
<1> QED
  BY <1>1, <1>2

\* FollowsManual, given what the options say.
Follows(severity, enabled, ownError, someError, err) ==
    /\ (severity # "ignored") = enabled
    /\ severity # "ignored" => CASE ownError = "error=" -> severity = "error"
                                 [] someError = "none given" ->
                                      severity = IF err THEN "error" ELSE "warning"
                                 [] OTHER -> TRUE

LEMMA SaysFollows ==
    ASSUME NEW options, NEW O, options \in Seq(O), NEW name, NEW code, NEW names, name \in names,
           NEW err, NEW set \in BOOLEAN, NEW given, Says(given, set, options, name, err),
           LastOp(options, ErrorOps, {code}) = "error=" => ~set \/ name = code
    PROVE  Follows(given, set, LastOp(options, ErrorOps, {code}), LastOp(options, ErrorOps, names),
                   err)
<1> DEFINE own == LastOp(options, ErrorOps, {code})
           some == LastOp(options, ErrorOps, names)
<1>1. own = "error=" => ExplicitError(options, code) = "error="
  BY ExplicitErrorOf
<1>2. some = "none given" => ExplicitError(options, name) = "none"
  BY ExplicitErrorOf
<1>3. (given # "ignored") = set
  BY DEF Says
<1>4. set /\ own = "error=" => given = "error"
  BY <1>1 DEF Says
<1>5. set /\ some = "none given" => given = IF err THEN "error" ELSE "warning"
  BY <1>2 DEF Says
<1> HIDE DEF own, some
<1>6. Follows(given, set, own, some, err)
  BY <1>3, <1>4, <1>5 DEF Follows
<1> QED
  BY <1>6 DEF own, some

(***************************************************************************)
(* parseWarningOptions and getSeverity do what the manual says of -W       *)
(* options, however many there are and in whatever order, of any code that *)
(* is a warning and any groups it is in.                                   *)
(***************************************************************************)
THEOREM ManualFollowed ==
    ASSUME NEW options, IsCommandLine(options),
           NEW code \in Codes, DefaultSeverity[code] = "warning"
    PROVE  FollowsManual(options, code)
<1> DEFINE err == \E i \in DOMAIN options : options[i].op = "error"
           none == \E i \in DOMAIN options : options[i].op = "none"
           all == LastOp(options, AllOps, {""})
           ownError == LastOp(options, ErrorOps, {code})
           names == {code} \cup GroupsOf(code)
           someError == LastOp(options, ErrorOps, names)
           own == LastOp(options, EnableOps, {code})
           group == LastOp(options, EnableOps, GroupsOf(code))
           T == Resulting(options, err)[code]
           G == Entry(options, err, code)
           S == Started(options, err)[code]
           severity == CommandLineSeverity(options, code)
           isDefault == code \in Groups["default"]
<1>1. PICK O : options \in Seq(O)
  BY DEF IsCommandLine
<1>2. severity = IF T # Unset THEN T
                 ELSE IF ~(all = "everything") THEN "ignored"
                 ELSE IF err THEN "error" ELSE "warning"
  BY CommandLineSeverityIs
<1>3. EnabledBy(options, code)
          = CASE own # "none given" -> own # "no-"
              [] own = "none given" /\ group # "none given" -> group # "no-"
              [] OTHER -> all = "everything" \/ (all = "none given" /\ isDefault)
  BY DEF EnabledBy, AllOps
<1>4. FollowsManual(options, code)
          = Follows(severity, EnabledBy(options, code), ownError, someError, err)
  BY DEF FollowsManual, Follows
<1>5. code \in names /\ \A g \in GroupsOf(code) : g \in names
  OBVIOUS
<1>6. "none given" \notin EnableOps /\ "none given" \notin ErrorOps
  BY DEF EnableOps, ErrorOps
<1> HIDE DEF err, none, all, ownError, someError, own, group, T, G, S, severity, isDefault, names
<1>7. ASSUME NEW m \in 1 .. Len(options), LastIs(options, m, EnableOps, {code}),
             Says(T, options[m].op # "no-", options, code, err)
      PROVE  FollowsManual(options, code)
  <2>1. own = options[m].op /\ own \in EnableOps
    <3>1. PICK mine : mine = {code} /\ LastIs(options, m, EnableOps, mine)
      BY <1>7
    <3>2. LastOp(options, EnableOps, mine) = options[m].op /\ options[m].op \in EnableOps
      <4>1. LastIs(options, m, EnableOps, mine)
        BY <3>1
      <4> QED
        BY <1>1, <4>1, LastOpOf, ZenonT(60)
    <3> QED
      BY <3>1, <3>2 DEF own
  <2>2. EnabledBy(options, code) = (own # "no-")
    BY <1>3, <1>6, <2>1
  <2>3. T # Unset
    BY <1>7 DEF Says, Unset
  <2>4. severity = T
    BY <1>2, <2>3
  <2>5. (own # "no-") \in BOOLEAN
    OBVIOUS
  <2>6. Says(T, own # "no-", options, code, err)
    BY <1>7, <2>1
  <2>7. Follows(T, own # "no-", ownError, someError, err)
    BY <1>1, <1>5, <2>5, <2>6, SaysFollows DEF ownError, someError
  <2> QED
    BY <1>4, <2>2, <2>4, <2>7
<1>8. ASSUME NoneIs(options, EnableOps, {code})
      PROVE  own = "none given" /\ ownError # "error="
  <2>1. own = "none given"
    BY <1>1, <1>8, LastOpOf, ZenonT(60) DEF own
  <2>2. ASSUME NEW m \in 1 .. Len(options), LastIs(options, m, ErrorOps, {code}),
               ownError = options[m].op, ownError = "error="
        PROVE  FALSE
    BY <1>8, <2>2 DEF NoneIs, LastIs, About, EnableOps
  <2> QED
    BY <1>1, <2>1, <2>2, LastOpIs DEF ownError
<1>9. ASSUME NoneIs(options, EnableOps, {code}),
             T = IF ExplicitError(options, code) = "no-error=" /\ G = "error" THEN "warning" ELSE G,
             NEW m \in 1 .. Len(options), LastIs(options, m, EnableOps, GroupsOf(code)),
             Says(G, options[m].op # "no-", options, options[m].name, err)
      PROVE  FollowsManual(options, code)
  <2>1. /\ group = options[m].op /\ group \in EnableOps
        /\ options[m].name \in GroupsOf(code) /\ options[m].name \in names
    BY <1>1, <1>5, <1>9, LastOpOf, ZenonT(60) DEF group
  <2>2. EnabledBy(options, code) = (group # "no-")
    BY <1>3, <1>6, <1>8, <1>9, <2>1
  <2>3. T \in {"ignored", "warning", "error"} /\ (T # "ignored") = (G # "ignored")
    BY <1>9 DEF Says
  <2>4. severity = T
    BY <1>2, <2>3 DEF Unset
  <2>5. (group # "no-") \in BOOLEAN
    OBVIOUS
  <2>6. Says(G, group # "no-", options, options[m].name, err)
    BY <1>9, <2>1
  <2>7. Follows(G, group # "no-", ownError, someError, err)
    BY <1>1, <1>8, <1>9, <2>1, <2>5, <2>6, SaysFollows DEF ownError, someError
  <2>8. someError = "none given" => ExplicitError(options, code) = "none"
    BY <1>1, <1>5, ExplicitErrorOf DEF someError
  <2>9. someError = "none given" => T = G
    BY <1>9, <2>8
  <2>10. Follows(T, group # "no-", ownError, someError, err)
    BY <1>8, <1>9, <2>3, <2>7, <2>9 DEF Follows
  <2> QED
    BY <1>4, <2>2, <2>4, <2>10
<1>10. ASSUME none PROVE all # "none given"
  <2>1. PICK i \in DOMAIN options : options[i].op = "none"
    BY <1>10 DEF none
  <2>2. i \in 1 .. Len(options)
    BY <1>1
  <2>3. About(options[i], AllOps, {""})
    BY <2>1, <2>2 DEF IsCommandLine, About, AllOps, FlagOps
  <2>4. ~NoneIs(options, AllOps, {""})
    BY <2>2, <2>3 DEF NoneIs
  <2>5. ASSUME NEW m \in 1 .. Len(options), LastIs(options, m, AllOps, {""}),
               all = options[m].op
        PROVE  all # "none given"
    BY <2>5 DEF LastIs, About, AllOps
  <2> QED
    BY <1>1, <2>4, <2>5, LastOpIs DEF all
<1>11. ASSUME ~none PROVE all \in {"everything", "none given"}
  <2>1. ASSUME NEW m \in 1 .. Len(options), LastIs(options, m, AllOps, {""}),
               all = options[m].op
        PROVE  all = "everything"
    <3>1. m \in DOMAIN options /\ all \in AllOps
      BY <1>1, <2>1, LastOpOf
    <3>2. all # "none"
      BY <1>11, <2>1, <3>1 DEF none
    <3> QED
      BY <3>1, <3>2 DEF AllOps
  <2> QED
    BY <1>1, <2>1, LastOpIs DEF all
<1>12. ASSUME NoneIs(options, EnableOps, {code}), NoneIs(options, EnableOps, GroupsOf(code)),
              T = IF ExplicitError(options, code) = "no-error=" /\ G = "error" THEN "warning" ELSE G,
              G = S
       PROVE  FollowsManual(options, code)
  <2>1. own = "none given" /\ group = "none given" /\ ownError # "error="
    BY <1>1, <1>8, <1>12, LastOpOf DEF group
  <2>2. EnabledBy(options, code) = (all = "everything" \/ (all = "none given" /\ isDefault))
    BY <1>3, <2>1
  <2>3. someError = "none given" => ExplicitError(options, code) = "none"
    BY <1>1, <1>5, ExplicitErrorOf DEF someError
  <2>4. CASE ~none /\ isDefault
    <3>1. Says(S, TRUE, options, "default", err)
      BY <1>1, <2>4, DefaultEntry DEF S, isDefault, none
    <3>2. "default" \in names
      BY <2>4, OptionsOK DEF names, GroupsOf, isDefault
    <3>3. EnabledBy(options, code) = TRUE
      BY <1>11, <2>2, <2>4
    <3>4. Follows(S, TRUE, ownError, someError, err)
      BY <1>1, <2>1, <3>1, <3>2, SaysFollows DEF ownError, someError
    <3>5. T \in {"warning", "error"} /\ (T # "ignored") = (S # "ignored")
      BY <1>12, <3>1 DEF Says
    <3>6. severity = T
      BY <1>2, <3>5 DEF Unset
    <3>7. someError = "none given" => T = S
      BY <1>12, <2>3
    <3>8. Follows(T, TRUE, ownError, someError, err)
      BY <2>1, <3>4, <3>5, <3>7 DEF Follows
    <3> QED
      BY <1>4, <3>3, <3>6, <3>8
  <2>5. CASE ~(~none /\ isDefault)
    <3>1. S = Unset
      BY <1>1, <2>5, DefaultEntry DEF S, isDefault, none
    <3>2. severity = IF ~(all = "everything") THEN "ignored"
                     ELSE IF err THEN "error" ELSE "warning"
      BY <1>2, <1>12, <3>1 DEF Unset
    <3>3. EnabledBy(options, code) = (all = "everything")
      BY <1>10, <2>2, <2>5
    <3>4. Follows(severity, all = "everything", ownError, someError, err)
      BY <2>1, <3>2 DEF Follows
    <3> QED
      BY <1>4, <3>3, <3>4
  <2> QED
    BY <2>4, <2>5
<1>13. \/ /\ NoneIs(options, EnableOps, {code})
          /\ T = IF ExplicitError(options, code) = "no-error=" /\ G = "error" THEN "warning" ELSE G
       \/ \E m \in 1 .. Len(options) :
             /\ LastIs(options, m, EnableOps, {code})
             /\ Says(T, options[m].op # "no-", options, code, err)
  BY <1>1, OwnEntry DEF T, G
<1>14. \/ NoneIs(options, EnableOps, GroupsOf(code)) /\ G = S
       \/ \E m \in 1 .. Len(options) :
             /\ LastIs(options, m, EnableOps, GroupsOf(code))
             /\ Says(G, options[m].op # "no-", options, options[m].name, err)
  BY <1>1, GroupEntry DEF G, S
<1> QED
  BY <1>7, <1>9, <1>12, <1>13, <1>14

LEMMA CommandLinesAre ==
    ASSUME NEW options \in CommandLines
    PROVE  IsCommandLine(options)
<1>1. PICK n \in 0 .. MaxOptions : options \in [1 .. n -> SomeOptions]
  BY DEF CommandLines
<1>2. n \in Nat
  BY ListsOK
<1> HIDE DEF SomeOptions
<1>3. options \in Seq(SomeOptions) /\ Len(options) = n
  BY <1>1, <1>2
<1>4. ASSUME NEW k \in 1 .. Len(options) PROVE options[k] \in SomeOptions
  BY <1>1, <1>3, <1>4
<1>5. ASSUME NEW o \in SomeOptions
      PROVE  o.op \in FlagOps \cup EnableOps \cup ErrorOps /\ (o.op \in FlagOps => o.name = "")
  BY DEF SomeOptions, FlagOps, EnableOps, ErrorOps
<1> QED
  BY <1>3, <1>4, <1>5 DEF IsCommandLine

\* OptionsFollowManual in every state, for any number of options.
THEOREM OptionsCorrect == Spec => []OptionsFollowManual
<1>1. OptionsFollowManual
  BY ListsOK, CommandLinesAre, ManualFollowed DEF OptionsFollowManual
<1> QED
  BY <1>1, PTL
-----------------------------------------------------------------------------
(***************************************************************************)
(* `pragma diagnostic.  How many directives have a name, one more at a     *)
(* time.                                                                   *)
(***************************************************************************)
LEMMA CountStep ==
    ASSUME NEW d, NEW name, NEW i \in Nat, NEW m \in Nat, i <= m + 1
    PROVE  /\ Count(d, name, i, m) \in Nat
           /\ Count(d, name, i, m + 1) = Count(d, name, i, m) + One(d[m + 1].name = name)
<1> DEFINE Of(j) == { k \in i .. j : d[k].name = name }
<1>1. IsFiniteSet(Of(m))
  <2>1. Of(m) \subseteq i .. m /\ i \in Int /\ m \in Int
    OBVIOUS
  <2> HIDE DEF Of
  <2> QED
    BY <2>1, FS_Interval, FS_Subset
<1>2. Cardinality(Of(m)) \in Nat
  BY <1>1, FS_CardinalityType
<1>3. i .. m + 1 = (i .. m) \cup {m + 1} /\ m + 1 \notin i .. m
  OBVIOUS
<1>4. CASE d[m + 1].name = name
  <2>1. Of(m + 1) = Of(m) \cup {m + 1} /\ m + 1 \notin Of(m)
    BY <1>3, <1>4
  <2> HIDE DEF Of
  <2>2. Cardinality(Of(m) \cup {m + 1}) = Cardinality(Of(m)) + 1
    BY <1>1, <2>1, FS_AddElement
  <2> QED
    BY <1>2, <1>4, <2>1, <2>2 DEF Count, One, Of
<1>5. CASE d[m + 1].name # name
  <2>1. Of(m + 1) = Of(m)
    BY <1>3, <1>5
  <2>2. One(d[m + 1].name = name) = 0
    BY <1>5 DEF One
  <2>3. /\ Count(d, name, i, m) = Cardinality(Of(m))
        /\ Count(d, name, i, m + 1) = Cardinality(Of(m + 1))
    BY DEF Count
  <2> HIDE DEF Of
  <2> QED
    BY <1>2, <2>1, <2>2, <2>3
<1> QED
  BY <1>4, <1>5

LEMMA CountNone ==
    ASSUME NEW d, NEW name, NEW m \in Nat
    PROVE  Count(d, name, m + 1, m) = 0
<1>1. { k \in m + 1 .. m : d[k].name = name } = {}
  OBVIOUS
<1> QED
  BY <1>1, FS_EmptySet DEF Count

\* Pushes less pops from one directive to another.
Balanced(d, i, n, excess) == Count(d, "push", i, n) = Count(d, "pop", i, n) + excess

LEMMA BalanceStep ==
    ASSUME NEW d, NEW i \in Nat, NEW n \in Nat, i <= n, NEW excess \in Int, Balanced(d, i, n, excess)
    PROVE  /\ d[n + 1].name = "push" => Balanced(d, i, n + 1, excess + 1)
           /\ d[n + 1].name = "pop" => Balanced(d, i, n + 1, excess - 1)
           /\ d[n + 1].name \notin {"push", "pop"} => Balanced(d, i, n + 1, excess)
<1> DEFINE pushes == Count(d, "push", i, n)
           pops == Count(d, "pop", i, n)
<1>1. /\ pushes \in Nat /\ pops \in Nat
      /\ Count(d, "push", i, n + 1) = pushes + One(d[n + 1].name = "push")
      /\ Count(d, "pop", i, n + 1) = pops + One(d[n + 1].name = "pop")
  BY CountStep
<1>2. pushes = pops + excess
  BY DEF Balanced
<1> HIDE DEF pushes, pops
<1> QED
  BY <1>1, <1>2 DEF Balanced, One

LEMMA OpenStep ==
    ASSUME NEW d, NEW n \in Nat
    PROVE  OpenPushes(d, n + 1)
               = { i \in OpenPushes(d, n) : Count(d, "push", i, n + 1) > Count(d, "pop", i, n + 1) }
                     \cup (IF d[n + 1].name = "push" THEN {n + 1} ELSE {})
<1> DEFINE More(i, m) == Count(d, "push", i, m) > Count(d, "pop", i, m)
           Still(i, m) == d[i].name = "push" /\ \A k \in i .. m : More(i, k)
<1>1. /\ OpenPushes(d, n) = { i \in 1 .. n : Still(i, n) }
      /\ OpenPushes(d, n + 1) = { i \in 1 .. n + 1 : Still(i, n + 1) }
  BY DEF OpenPushes
<1>2. ASSUME d[n + 1].name = "push" PROVE More(n + 1, n + 1)
  <2>1. n + 1 \in Nat /\ n + 1 <= n + 1
    OBVIOUS
  <2>2. /\ Count(d, "push", n + 1, n + 1) = 0 + One(d[n + 1].name = "push")
        /\ Count(d, "pop", n + 1, n + 1) = 0 + One(d[n + 1].name = "pop")
    BY <2>1, CountStep, CountNone
  <2> QED
    BY <1>2, <2>2 DEF One
<1> HIDE DEF More
<1>3. (n + 1) .. (n + 1) = {n + 1} /\ 1 .. n + 1 = (1 .. n) \cup {n + 1} /\ n + 1 \notin 1 .. n
  OBVIOUS
<1>4. Still(n + 1, n + 1) <=> d[n + 1].name = "push"
  BY <1>2, <1>3
<1>5. ASSUME NEW i \in 1 .. n PROVE Still(i, n + 1) <=> Still(i, n) /\ More(i, n + 1)
  <2>1. i .. n + 1 = (i .. n) \cup {n + 1}
    OBVIOUS
  <2> QED
    BY <2>1
<1> HIDE DEF Still
<1>6. OpenPushes(d, n + 1) = { i \in OpenPushes(d, n) : More(i, n + 1) }
                                 \cup (IF d[n + 1].name = "push" THEN {n + 1} ELSE {})
  BY <1>1, <1>3, <1>4, <1>5
<1> QED
  BY <1>6 DEF More

\* The push of a pop is before it.
LEMMA PushBefore ==
    ASSUME NEW d, NEW n \in Nat
    PROVE  /\ PushOf(d, n + 1) \in 0 .. n
           /\ OpenPushes(d, n) = {} => PushOf(d, n + 1) = 0
           /\ OpenPushes(d, n) # {} => /\ PushOf(d, n + 1) \in OpenPushes(d, n)
                                       /\ \A i \in OpenPushes(d, n) : PushOf(d, n + 1) >= i
<1> DEFINE open == OpenPushes(d, n)
<1>1. n + 1 - 1 = n
  OBVIOUS
<1>2. PushOf(d, n + 1) = IF open = {} THEN 0 ELSE Max(open)
  BY <1>1 DEF PushOf
<1>3. open \in SUBSET (1 .. n)
  BY DEF OpenPushes
<1> HIDE DEF open
<1>4. open # {} => Max(open) \in open /\ \A i \in open : Max(open) >= i
  BY <1>3, GreatestIndex
<1>5. PushOf(d, n + 1) \in 0 .. n
  <2>1. CASE open = {}
    BY <1>2, <2>1
  <2>2. CASE open # {}
    <3>1. PICK top : top = Max(open)
      OBVIOUS
    <3>2. top \in 1 .. n /\ PushOf(d, n + 1) = top
      BY <1>2, <1>3, <1>4, <2>2, <3>1
    <3> QED
      BY <3>2
  <2> QED
    BY <2>1, <2>2
<1> QED
  BY <1>2, <1>4, <1>5 DEF open

(***************************************************************************)
(* The pushes that are open after the first n directives, from the         *)
(* outermost to the innermost, and the pops behind each of them.           *)
(***************************************************************************)
Increasing(q) == \A i, j \in 1 .. Len(q) : i < j => q[i] < q[j]

OpenAre(d, n, q) ==
    /\ q \in Seq(Nat)
    /\ \A j \in 1 .. Len(q) : q[j] \in 1 .. n /\ Balanced(d, q[j], n, Len(q) + 1 - j)
    /\ OpenPushes(d, n) = { q[j] : j \in 1 .. Len(q) }

\* No pop behind an open push belongs to it or to one before it.
Inside(d, n, p) == \A k \in 1 .. n : k > p /\ d[k].name = "pop" => PushOf(d, k) > p

Stacked(d, n, q) ==
    /\ OpenAre(d, n, q) /\ Increasing(q)
    /\ \A j \in 1 .. Len(q) : Inside(d, n, q[j])

LEMMA InsideStep ==
    ASSUME NEW d, NEW n \in Nat, NEW p \in 1 .. n, Inside(d, n, p),
           d[n + 1].name = "pop" => PushOf(d, n + 1) > p
    PROVE  Inside(d, n + 1, p)
<1>1. 1 .. n + 1 = (1 .. n) \cup {n + 1}
  OBVIOUS
<1> QED
  BY <1>1 DEF Inside

LEMMA MorePushes ==
    ASSUME NEW d, NEW i \in Nat, NEW m \in Nat, i <= m + 1, NEW excess \in Int,
           Balanced(d, i, m, excess)
    PROVE  Count(d, "push", i, m) > Count(d, "pop", i, m) <=> excess > 0
<1>1. Count(d, "push", i, m) \in Nat /\ Count(d, "pop", i, m) \in Nat
  BY CountStep
<1> QED
  BY <1>1 DEF Balanced

LEMMA StackedStart ==
    ASSUME NEW d
    PROVE  Stacked(d, 0, <<>>)
<1>1. OpenPushes(d, 0) = {}
  BY DEF OpenPushes
<1>2. <<>> \in Seq(Nat) /\ Len(<<>>) = 0 /\ 1 .. 0 = {}
  OBVIOUS
<1> QED
  BY <1>1, <1>2 DEF Stacked, OpenAre, Increasing, Inside

LEMMA StackedPush ==
    ASSUME NEW d, NEW n \in Nat, NEW q, Stacked(d, n, q), d[n + 1].name = "push"
    PROVE  Stacked(d, n + 1, Append(q, n + 1))
<1> DEFINE r == Append(q, n + 1)
           len == Len(q)
<1>1. /\ q \in Seq(Nat) /\ len \in Nat /\ n + 1 \in Nat
      /\ \A j \in 1 .. len : q[j] \in 1 .. n /\ Balanced(d, q[j], n, len + 1 - j)
      /\ OpenPushes(d, n) = { q[j] : j \in 1 .. len }
      /\ Increasing(q)
      /\ \A j \in 1 .. len : Inside(d, n, q[j])
  BY DEF Stacked, OpenAre
<1>2. /\ r \in Seq(Nat) /\ Len(r) = len + 1 /\ r[len + 1] = n + 1
      /\ \A j \in 1 .. len : r[j] = q[j]
      /\ 1 .. len + 1 = (1 .. len) \cup {len + 1}
  BY <1>1
<1> HIDE DEF r, len
<1>3. ASSUME NEW j \in 1 .. len
      PROVE  /\ r[j] \in 1 .. n /\ r[j] \in 1 .. n + 1 /\ r[j] \in Nat /\ r[j] <= n
             /\ Balanced(d, r[j], n + 1, len + 1 + 1 - j)
             /\ Count(d, "push", r[j], n + 1) > Count(d, "pop", r[j], n + 1)
             /\ Inside(d, n + 1, r[j])
  <2>1. PICK p : p = r[j] /\ p = q[j]
    BY <1>2
  <2>2. p \in 1 .. n /\ Balanced(d, p, n, len + 1 - j) /\ Inside(d, n, p)
    BY <1>1, <2>1
  <2>3. p \in Nat /\ p <= n /\ p \in 1 .. n + 1 /\ p <= n + 1 + 1
    BY <2>2
  <2>4. /\ len + 1 - j \in Int /\ len + 1 - j + 1 = len + 1 + 1 - j
        /\ len + 1 + 1 - j \in Int /\ len + 1 + 1 - j > 0
    BY <1>1
  <2>5. Balanced(d, p, n + 1, len + 1 + 1 - j)
    <3>1. Balanced(d, p, n + 1, len + 1 - j + 1)
      BY <2>2, <2>3, <2>4, BalanceStep
    <3> QED
      BY <2>4, <3>1
  <2>6. Count(d, "push", p, n + 1) > Count(d, "pop", p, n + 1)
    BY <1>1, <2>3, <2>4, <2>5, MorePushes
  <2>7. Inside(d, n + 1, p)
    BY <2>2, InsideStep
  <2> QED
    BY <2>1, <2>2, <2>3, <2>5, <2>6, <2>7
<1>4. Balanced(d, n + 1, n + 1, 1) /\ Inside(d, n + 1, n + 1)
  <2>1. n + 1 \in Nat /\ n + 1 <= n + 1
    OBVIOUS
  <2>2. /\ Count(d, "push", n + 1, n + 1) = 0 + One(d[n + 1].name = "push")
        /\ Count(d, "pop", n + 1, n + 1) = 0 + One(d[n + 1].name = "pop")
    BY <2>1, CountStep, CountNone
  <2>3. \A k \in 1 .. n + 1 : ~(k > n + 1)
    OBVIOUS
  <2> QED
    BY <2>2, <2>3 DEF Balanced, One, Inside
<1>5. OpenPushes(d, n + 1) = { r[j] : j \in 1 .. len + 1 }
  <2>1. OpenPushes(d, n + 1) = { i \in OpenPushes(d, n) : Count(d, "push", i, n + 1) > Count(d, "pop", i, n + 1) }
                                  \cup {n + 1}
    BY OpenStep
  <2>2. OpenPushes(d, n) = { r[j] : j \in 1 .. len }
    BY <1>1, <1>2
  <2>3. \A i \in OpenPushes(d, n) : Count(d, "push", i, n + 1) > Count(d, "pop", i, n + 1)
    BY <1>3, <2>2
  <2>4. OpenPushes(d, n + 1) = OpenPushes(d, n) \cup {n + 1}
    BY <2>1, <2>3
  <2> QED
    BY <1>2, <2>2, <2>4
<1>6. \A j \in 1 .. len + 1 : r[j] \in 1 .. n + 1 /\ Balanced(d, r[j], n + 1, len + 1 + 1 - j)
  <2>1. n + 1 \in 1 .. n + 1 /\ len + 1 + 1 - (len + 1) = 1
    BY <1>1
  <2> QED
    BY <1>2, <1>3, <1>4, <2>1
<1>7. Increasing(r)
  <2>1. ASSUME NEW i \in 1 .. len + 1, NEW j \in 1 .. len + 1, i < j PROVE r[i] < r[j]
    <3>1. i \in 1 .. len
      BY <1>1, <2>1
    <3>2. CASE j = len + 1
      <4>1. r[i] \in Nat /\ r[i] <= n /\ r[j] = n + 1
        BY <1>2, <1>3, <3>1, <3>2
      <4> QED
        BY <4>1
    <3>3. CASE j # len + 1
      <4>1. j \in 1 .. len
        BY <1>1, <2>1, <3>3
      <4> QED
        BY <1>1, <1>2, <2>1, <3>1, <4>1 DEF Increasing, len
    <3> QED
      BY <3>2, <3>3
  <2> QED
    BY <1>2, <2>1 DEF Increasing
<1>8. \A j \in 1 .. len + 1 : Inside(d, n + 1, r[j])
  BY <1>2, <1>3, <1>4
<1>9. Stacked(d, n + 1, r)
  BY <1>2, <1>5, <1>6, <1>7, <1>8 DEF Stacked, OpenAre
<1> QED
  BY <1>9 DEF r

LEMMA StackedOther ==
    ASSUME NEW d, NEW n \in Nat, NEW q, Stacked(d, n, q), d[n + 1].name \notin {"push", "pop"}
    PROVE  Stacked(d, n + 1, q)
<1> DEFINE len == Len(q)
<1>1. /\ q \in Seq(Nat) /\ len \in Nat
      /\ \A j \in 1 .. len : q[j] \in 1 .. n /\ Balanced(d, q[j], n, len + 1 - j)
      /\ OpenPushes(d, n) = { q[j] : j \in 1 .. len }
      /\ Increasing(q)
      /\ \A j \in 1 .. len : Inside(d, n, q[j])
  BY DEF Stacked, OpenAre
<1> HIDE DEF len
<1>2. ASSUME NEW j \in 1 .. len
      PROVE  /\ q[j] \in 1 .. n + 1
             /\ Balanced(d, q[j], n + 1, len + 1 - j)
             /\ Count(d, "push", q[j], n + 1) > Count(d, "pop", q[j], n + 1)
             /\ Inside(d, n + 1, q[j])
  <2>1. PICK p : p = q[j]
    OBVIOUS
  <2>2. p \in 1 .. n /\ Balanced(d, p, n, len + 1 - j) /\ Inside(d, n, p)
    BY <1>1, <2>1
  <2>3. p \in Nat /\ p <= n /\ p \in 1 .. n + 1 /\ p <= n + 1 + 1 /\ n + 1 \in Nat
    BY <2>2
  <2>4. len + 1 - j \in Int /\ len + 1 - j > 0
    BY <1>1
  <2>5. Balanced(d, p, n + 1, len + 1 - j)
    BY <2>2, <2>3, <2>4, BalanceStep
  <2>6. Count(d, "push", p, n + 1) > Count(d, "pop", p, n + 1)
    BY <2>3, <2>4, <2>5, MorePushes
  <2>7. Inside(d, n + 1, p)
    BY <2>2, InsideStep
  <2> QED
    BY <2>1, <2>3, <2>5, <2>6, <2>7
<1>3. OpenPushes(d, n + 1) = OpenPushes(d, n)
  <2>1. OpenPushes(d, n + 1) = { i \in OpenPushes(d, n) : Count(d, "push", i, n + 1) > Count(d, "pop", i, n + 1) }
    BY OpenStep
  <2>2. \A i \in OpenPushes(d, n) : Count(d, "push", i, n + 1) > Count(d, "pop", i, n + 1)
    BY <1>1, <1>2
  <2> QED
    BY <2>1, <2>2
<1> QED
  BY <1>1, <1>2, <1>3 DEF Stacked, OpenAre, len

LEMMA StackedUnmatched ==
    ASSUME NEW d, NEW n \in Nat, Stacked(d, n, <<>>), d[n + 1].name = "pop"
    PROVE  Stacked(d, n + 1, <<>>) /\ PushOf(d, n + 1) = 0
<1>1. <<>> \in Seq(Nat) /\ Len(<<>>) = 0 /\ 1 .. 0 = {}
  OBVIOUS
<1>2. OpenPushes(d, n) = {}
  BY <1>1 DEF Stacked, OpenAre
<1>3. OpenPushes(d, n + 1) = {}
  BY <1>2, OpenStep
<1>4. PushOf(d, n + 1) = 0
  BY <1>2, PushBefore
<1> QED
  BY <1>1, <1>3, <1>4 DEF Stacked, OpenAre, Increasing

LEMMA StackedPop ==
    ASSUME NEW d, NEW n \in Nat, NEW q, Stacked(d, n, q), q # <<>>, d[n + 1].name = "pop"
    PROVE  Stacked(d, n + 1, Front(q)) /\ PushOf(d, n + 1) = q[Len(q)]
<1> DEFINE len == Len(q)
           r == Front(q)
<1>1. /\ q \in Seq(Nat)
      /\ \A j \in 1 .. len : q[j] \in 1 .. n /\ Balanced(d, q[j], n, len + 1 - j)
      /\ OpenPushes(d, n) = { q[j] : j \in 1 .. len }
      /\ Increasing(q)
      /\ \A j \in 1 .. len : Inside(d, n, q[j])
  BY DEF Stacked, OpenAre
<1>2. /\ r \in Seq(Nat) /\ len \in Nat /\ len >= 1 /\ Len(r) = len - 1
      /\ \A j \in 1 .. len - 1 : r[j] = q[j]
  BY <1>1, FrontIs
<1>3. 1 .. len = (1 .. len - 1) \cup {len} /\ len \in 1 .. len /\ len \notin 1 .. len - 1
  BY <1>2
<1>4. \A i, j \in 1 .. len : i < j => q[i] < q[j]
  BY <1>1 DEF Increasing
<1> HIDE DEF len, r
<1>5. ASSUME NEW j \in 1 .. len - 1 PROVE q[j] < q[len] /\ j < len /\ j \in 1 .. len
  <2>1. j < len /\ j \in 1 .. len
    BY <1>2
  <2> QED
    BY <1>3, <1>4, <2>1
<1>6. PushOf(d, n + 1) = q[len]
  <2>1. q[len] \in OpenPushes(d, n)
    BY <1>1, <1>3
  <2>2. OpenPushes(d, n) # {} /\ PushOf(d, n + 1) \in OpenPushes(d, n)
        /\ PushOf(d, n + 1) >= q[len]
    BY <2>1, PushBefore
  <2>3. PICK j \in 1 .. len : PushOf(d, n + 1) = q[j]
    BY <1>1, <2>2
  <2>4. CASE j = len
    BY <2>3, <2>4
  <2>5. CASE j # len
    <3>1. j \in 1 .. len - 1
      BY <1>3, <2>5
    <3>2. q[j] \in 1 .. n /\ q[len] \in 1 .. n /\ q[j] < q[len] /\ q[j] >= q[len]
      BY <1>1, <1>3, <1>5, <2>2, <2>3, <3>1
    <3> QED
      BY <3>2
  <2> QED
    BY <2>4, <2>5
<1>7. ASSUME NEW j \in 1 .. len
      PROVE  /\ q[j] \in 1 .. n + 1
             /\ Balanced(d, q[j], n + 1, len - j)
             /\ Count(d, "push", q[j], n + 1) > Count(d, "pop", q[j], n + 1) <=> len - j > 0
  <2>1. PICK p : p = q[j]
    OBVIOUS
  <2>2. p \in 1 .. n /\ Balanced(d, p, n, len + 1 - j)
    BY <1>1, <2>1
  <2>3. p \in Nat /\ p <= n /\ p \in 1 .. n + 1 /\ p <= n + 1 + 1 /\ n + 1 \in Nat
    BY <2>2
  <2>4. PICK e \in Int : e = len + 1 - j /\ e - 1 = len - j /\ len - j \in Int
    BY <1>2
  <2>5. Balanced(d, p, n + 1, len - j)
    <3>1. Balanced(d, p, n, e)
      BY <2>2, <2>4
    <3>2. Balanced(d, p, n + 1, e - 1)
      BY <2>3, <3>1, BalanceStep
    <3> QED
      BY <2>4, <3>2
  <2>6. Count(d, "push", p, n + 1) > Count(d, "pop", p, n + 1) <=> len - j > 0
    BY <2>3, <2>4, <2>5, MorePushes
  <2> QED
    BY <2>1, <2>3, <2>5, <2>6
<1>8. ASSUME NEW j \in 1 .. len - 1
      PROVE  /\ r[j] = q[j] /\ j \in 1 .. len /\ len - j > 0
             /\ len - 1 + 1 - j = len - j
             /\ Inside(d, n + 1, q[j])
  <2>1. r[j] = q[j] /\ j \in 1 .. len /\ len - j > 0 /\ len - 1 + 1 - j = len - j
    BY <1>2
  <2>2. PICK p : p = q[j]
    OBVIOUS
  <2>3. p \in 1 .. n /\ Inside(d, n, p) /\ PushOf(d, n + 1) > p
    <3>1. p \in 1 .. n /\ Inside(d, n, p) /\ q[len] \in 1 .. n /\ p < q[len]
      BY <1>1, <1>3, <1>5, <2>1, <2>2
    <3> QED
      BY <1>6, <3>1
  <2>4. Inside(d, n + 1, p)
    BY <2>3, InsideStep
  <2> QED
    BY <2>1, <2>2, <2>4
<1>9. OpenPushes(d, n + 1) = { r[j] : j \in 1 .. len - 1 }
  <2>1. OpenPushes(d, n + 1) = { i \in OpenPushes(d, n) : Count(d, "push", i, n + 1) > Count(d, "pop", i, n + 1) }
    BY OpenStep
  <2>2. ~(len - len > 0)
    BY <1>2
  <2>3. ~(Count(d, "push", q[len], n + 1) > Count(d, "pop", q[len], n + 1))
    BY <1>3, <1>7, <2>2
  <2>4. ASSUME NEW j \in 1 .. len - 1
        PROVE  r[j] = q[j] /\ Count(d, "push", q[j], n + 1) > Count(d, "pop", q[j], n + 1)
    BY <1>7, <1>8
  <2> QED
    BY <1>1, <1>3, <2>1, <2>3, <2>4
<1>10. \A j \in 1 .. len - 1 : r[j] \in 1 .. n + 1 /\ Balanced(d, r[j], n + 1, len - 1 + 1 - j)
  BY <1>7, <1>8
<1>11. Increasing(r)
  <2>1. ASSUME NEW i \in 1 .. len - 1, NEW j \in 1 .. len - 1, i < j PROVE r[i] < r[j]
    <3>1. r[i] = q[i] /\ r[j] = q[j] /\ i \in 1 .. len /\ j \in 1 .. len
      BY <1>8
    <3>2. q[i] < q[j]
      BY <1>4, <2>1, <3>1
    <3> QED
      BY <3>1, <3>2
  <2> QED
    BY <1>2, <2>1 DEF Increasing
<1>12. \A j \in 1 .. len - 1 : Inside(d, n + 1, r[j])
  BY <1>8
<1>13. Stacked(d, n + 1, r)
  BY <1>2, <1>9, <1>10, <1>11, <1>12 DEF Stacked, OpenAre
<1> QED
  BY <1>6, <1>13 DEF r, len

(***************************************************************************)
(* What the first n directives say of a code, one directive at a time.     *)
(* push and pop are no names of warnings.                                  *)
(***************************************************************************)
ClosesAt(d, k) == d[k].name = "pop" /\ PushOf(d, k) # 0

Between(d, k) == PushOf(d, k) .. k

LEMMA ClosedIs ==
    ASSUME NEW d, NEW before, NEW x
    PROVE  x \in Closed(d, before) <=> \E k \in before : ClosesAt(d, k) /\ x \in Between(d, k)
  BY DEF Closed, ClosesAt, Between

LEMMA BetweenIs ==
    ASSUME NEW d, NEW k \in Nat, k >= 1, NEW x \in Between(d, k)
    PROVE  PushOf(d, k) \in Nat /\ x \in Int /\ PushOf(d, k) <= x /\ x <= k
<1>1. k - 1 \in Nat /\ k - 1 + 1 = k
  OBVIOUS
<1>2. PushOf(d, k) \in 0 .. k - 1
  BY <1>1, PushBefore
<1> QED
  BY <1>2 DEF Between

LEMMA CountingStep ==
    ASSUME NEW d, NEW n \in Nat, NEW c, ~ClosesAt(d, n + 1)
    PROVE  Counting(d, 1 .. n + 1, c) =
               Counting(d, 1 .. n, c) \cup (IF c \in Named(d[n + 1].name) THEN {n + 1} ELSE {})
<1>1. 1 .. n + 1 = (1 .. n) \cup {n + 1} /\ n + 1 \notin 1 .. n
  OBVIOUS
<1>2. ASSUME NEW x PROVE x \in Closed(d, 1 .. n + 1) <=> x \in Closed(d, 1 .. n)
  <2>1. \A k \in 1 .. n + 1 : ClosesAt(d, k) => k \in 1 .. n
    BY <1>1
  <2>2. \A k \in 1 .. n : k \in 1 .. n + 1
    BY <1>1
  <2> QED
    BY <2>1, <2>2, ClosedIs
<1>3. n + 1 \notin Closed(d, 1 .. n)
  <2>1. ASSUME NEW k \in 1 .. n, n + 1 \in Between(d, k) PROVE FALSE
    <3>1. k \in Nat /\ k >= 1 /\ ~(n + 1 <= k)
      OBVIOUS
    <3> QED
      BY <2>1, <3>1, BetweenIs
  <2> QED
    BY <2>1, ClosedIs
<1> QED
  BY <1>1, <1>2, <1>3 DEF Counting

LEMMA CountingPop ==
    ASSUME NEW d, NEW n \in Nat, NEW c, NEW p \in 1 .. n, d[p].name = "push",
           d[n + 1].name = "pop", PushOf(d, n + 1) = p, Inside(d, n, p)
    PROVE  /\ Counting(d, 1 .. n + 1, c) = Counting(d, 1 .. p - 1, c)
           /\ Counting(d, 1 .. n + 1, c) \subseteq Counting(d, 1 .. n, c)
<1>1. /\ 1 .. n + 1 = (1 .. n) \cup {n + 1}
      /\ 1 .. p - 1 \subseteq 1 .. n
      /\ p \in Nat /\ p # 0
  OBVIOUS
<1>2. \A x : x \in Between(d, n + 1) <=> x \in p .. n + 1
  BY DEF Between
<1>3. ClosesAt(d, n + 1)
  BY <1>1 DEF ClosesAt
<1>4. ASSUME NEW x \in 1 .. n + 1, x \notin Closed(d, 1 .. n + 1) PROVE x \in 1 .. p - 1
  <2>1. x \notin Between(d, n + 1)
    BY <1>1, <1>3, <1>4, ClosedIs
  <2> QED
    BY <1>2, <2>1
<1>5. ASSUME NEW x \in 1 .. p - 1
      PROVE  x \in Closed(d, 1 .. n + 1) <=> x \in Closed(d, 1 .. p - 1)
  <2>1. ASSUME NEW k \in 1 .. n + 1, ClosesAt(d, k), x \in Between(d, k)
        PROVE  k \in 1 .. p - 1
    <3>1. CASE k = n + 1
      <4>1. x \in p .. n + 1
        BY <1>2, <2>1, <3>1
      <4> QED
        BY <4>1
    <3>2. CASE k # n + 1
      <4>1. k \in 1 .. n /\ k \in Nat /\ k >= 1
        BY <3>2
      <4>2. CASE k > p
        <5>1. PushOf(d, k) > p
          BY <2>1, <4>1, <4>2 DEF Inside, ClosesAt
        <5>2. PushOf(d, k) \in Nat /\ PushOf(d, k) <= x
          BY <2>1, <4>1, BetweenIs
        <5> QED
          BY <5>1, <5>2
      <4>3. k # p
        BY <2>1 DEF ClosesAt
      <4> QED
        BY <4>1, <4>2, <4>3
    <3> QED
      BY <3>1, <3>2
  <2>2. \A k \in 1 .. p - 1 : k \in 1 .. n + 1
    OBVIOUS
  <2> QED
    BY <2>1, <2>2, ClosedIs
<1>6. \A x \in 1 .. p - 1 : x \in 1 .. n + 1
  OBVIOUS
<1>7. Counting(d, 1 .. n + 1, c) = Counting(d, 1 .. p - 1, c)
  BY <1>4, <1>5, <1>6 DEF Counting
<1>8. ASSUME NEW x \in 1 .. n + 1, x \notin Closed(d, 1 .. n + 1)
      PROVE  x \in 1 .. n /\ x \notin Closed(d, 1 .. n)
  <2>1. x \in 1 .. n
    BY <1>1, <1>4, <1>8
  <2>2. \A k \in 1 .. n : k \in 1 .. n + 1
    OBVIOUS
  <2> QED
    BY <1>8, <2>1, <2>2, ClosedIs
<1>9. Counting(d, 1 .. n + 1, c) \subseteq Counting(d, 1 .. n, c)
  BY <1>8 DEF Counting
<1> QED
  BY <1>7, <1>9

LEMMA NamesApart == Named("push") = {} /\ Named("pop") = {}
  BY OptionsOK DEF Named

\* Directives that are in order and give warnings a severity.
IsDirectiveList(d) ==
    /\ \E D : d \in Seq(D)
    /\ \A k \in 1 .. Len(d) :
          /\ d[k].offset \in Nat
          /\ d[k].name \notin {"push", "pop"} => d[k].severity # Unset
          /\ \A j \in 1 .. Len(d) : j < k => d[j].offset < d[k].offset

Effective(d, n, c) == LastCounting(d, 1 .. n, c)

LEMMA EffectiveOther ==
    ASSUME NEW d, NEW n \in Nat, NEW c, ~ClosesAt(d, n + 1)
    PROVE  Effective(d, n + 1, c) = IF c \in Named(d[n + 1].name) THEN d[n + 1].severity
                                    ELSE Effective(d, n, c)
<1> DEFINE counting == Counting(d, 1 .. n, c)
           after == Counting(d, 1 .. n + 1, c)
<1>1. after = counting \cup (IF c \in Named(d[n + 1].name) THEN {n + 1} ELSE {})
  BY CountingStep
<1>2. counting \subseteq 1 .. n /\ after \subseteq 1 .. n + 1
  BY DEF Counting
<1>3. /\ Effective(d, n, c) = IF counting = {} THEN Unset ELSE d[Max(counting)].severity
      /\ Effective(d, n + 1, c) = IF after = {} THEN Unset ELSE d[Max(after)].severity
  BY DEF Effective, LastCounting
<1> HIDE DEF counting, after
<1>4. CASE c \notin Named(d[n + 1].name)
  BY <1>1, <1>3, <1>4
<1>5. CASE c \in Named(d[n + 1].name)
  <2>1. n + 1 \in after /\ after # {} /\ n + 1 \in Nat /\ after \in SUBSET (1 .. n + 1)
    BY <1>1, <1>2, <1>5
  <2>2. PICK top : top = Max(after)
    OBVIOUS
  <2>3. top \in after /\ top >= n + 1
    BY <2>1, <2>2, GreatestIndex
  <2>4. top \in 1 .. n + 1
    BY <2>1, <2>3
  <2>5. top = n + 1
    BY <2>3, <2>4
  <2> QED
    BY <1>3, <1>5, <2>1, <2>2, <2>5
<1> QED
  BY <1>4, <1>5

LEMMA EffectivePop ==
    ASSUME NEW d, IsDirectiveList(d), NEW n \in Nat, n < Len(d), NEW c,
           NEW p \in 1 .. n, d[p].name = "push",
           d[n + 1].name = "pop", PushOf(d, n + 1) = p, Inside(d, n, p)
    PROVE  /\ Effective(d, n + 1, c) = Effective(d, p - 1, c)
           /\ Effective(d, n, c) = Unset => Effective(d, n + 1, c) = Unset
<1> DEFINE counting == Counting(d, 1 .. n, c)
           after == Counting(d, 1 .. n + 1, c)
<1>1. after = Counting(d, 1 .. p - 1, c) /\ after \subseteq counting
  BY CountingPop
<1>2. Effective(d, n + 1, c) = Effective(d, p - 1, c)
  BY <1>1 DEF Effective, LastCounting
<1>3. ASSUME NEW k \in counting PROVE d[k].severity # Unset
  <2>1. k \in 1 .. n /\ c \in Named(d[k].name)
    BY <1>3 DEF Counting
  <2>2. d[k].name \notin {"push", "pop"}
    BY <2>1, NamesApart
  <2>3. k \in 1 .. Len(d)
    <3>1. Len(d) \in Nat
      BY DEF IsDirectiveList
    <3> QED
      BY <2>1, <3>1
  <2> QED
    BY <2>2, <2>3 DEF IsDirectiveList
<1>4. counting \in SUBSET (1 .. n)
  BY DEF Counting
<1>5. /\ Effective(d, n, c) = IF counting = {} THEN Unset ELSE d[Max(counting)].severity
      /\ Effective(d, n + 1, c) = IF after = {} THEN Unset ELSE d[Max(after)].severity
  BY DEF Effective, LastCounting
<1> HIDE DEF counting, after
<1>6. ASSUME Effective(d, n, c) = Unset PROVE Effective(d, n + 1, c) = Unset
  <2>1. counting = {}
    <3>1. ASSUME counting # {} PROVE FALSE
      <4>1. Max(counting) \in counting
        BY <1>4, <3>1, GreatestIndex
      <4> QED
        BY <1>3, <1>5, <1>6, <3>1, <4>1
    <3> QED
      BY <3>1
  <2> QED
    BY <1>1, <1>5, <2>1
<1> QED
  BY <1>2, <1>6

(***************************************************************************)
(* The stack of ApplyDirective and the pushes it is for: its top is what   *)
(* the directives say so far, an entry below what they said before a push. *)
(***************************************************************************)
LastSetting(settingsOf) ==
    IF settingsOf = <<>> THEN Unset ELSE settingsOf[Len(settingsOf)].severity

IsState(state) ==
    /\ state = [mappings |-> state.mappings, stack |-> state.stack]
    /\ \E T : state.stack \in Seq(T)
    /\ state.stack # <<>>
    /\ \A c \in Codes : \E M : state.mappings[c] \in Seq(M)

StackSays(d, n, q, stack) ==
    /\ Len(stack) = Len(q) + 1
    /\ \A c \in Codes : stack[Len(q) + 1][c] = Effective(d, n, c)
    /\ \A j \in 1 .. Len(q) : \A c \in Codes : stack[j][c] = Effective(d, q[j] - 1, c)

MappingsSay(d, n, mappings) == \A c \in Codes : LastSetting(mappings[c]) = Effective(d, n, c)

Agrees(d, n, q, state) ==
    IsState(state) /\ StackSays(d, n, q, state.stack) /\ MappingsSay(d, n, state.mappings)

LEMMA LastAppended ==
    ASSUME NEW M, NEW s \in Seq(M), NEW offset, NEW severity
    PROVE  /\ LastSetting(Append(s, Setting(offset, severity))) = severity
           /\ \E N : Append(s, Setting(offset, severity)) \in Seq(N)
<1> DEFINE e == Setting(offset, severity)
           N == M \cup {e}
<1>1. s \in Seq(N) /\ e \in N
  OBVIOUS
<1>2. e.severity = severity
  BY DEF Setting
<1> HIDE DEF e, N
<1>3. Append(s, e) \in Seq(N) /\ Len(Append(s, e)) = Len(s) + 1 /\ Append(s, e)[Len(s) + 1] = e
      /\ Append(s, e) # <<>>
  BY <1>1
<1> QED
  BY <1>2, <1>3 DEF LastSetting, e

LEMMA StackAppend ==
    ASSUME NEW T, NEW stack \in Seq(T), NEW top
    PROVE  /\ \E X : Append(stack, top) \in Seq(X)
           /\ Append(stack, top) # <<>>
           /\ Len(Append(stack, top)) = Len(stack) + 1 /\ Len(stack) \in Nat
           /\ Append(stack, top)[Len(stack) + 1] = top
           /\ \A k \in 1 .. Len(stack) : Append(stack, top)[k] = stack[k]
<1> DEFINE X == T \cup {top}
<1>1. stack \in Seq(X) /\ top \in X
  OBVIOUS
<1> HIDE DEF X
<1>2. /\ Append(stack, top) \in Seq(X)
      /\ Append(stack, top) # <<>>
      /\ Len(Append(stack, top)) = Len(stack) + 1 /\ Len(stack) \in Nat
      /\ Append(stack, top)[Len(stack) + 1] = top
      /\ \A k \in 1 .. Len(stack) : Append(stack, top)[k] = stack[k]
  BY <1>1, AppendProperties
<1> QED
  BY <1>2

\* The top of a stack replaced by another table.
LEMMA StackReplace ==
    ASSUME NEW T, NEW stack \in Seq(T), stack # <<>>, NEW top
    PROVE  LET replaced == Front(stack) \o <<top>>
           IN  /\ \E X : replaced \in Seq(X)
               /\ replaced # <<>>
               /\ Len(replaced) = Len(stack) /\ Len(stack) \in Nat /\ Len(stack) >= 1
               /\ replaced[Len(stack)] = top
               /\ \A k \in 1 .. Len(stack) - 1 : replaced[k] = stack[k]
<1> DEFINE X == T \cup {top}
           front == Front(stack)
           one == <<top>>
<1>1. stack \in Seq(X) /\ top \in X
  OBVIOUS
<1>2. one \in Seq(X) /\ Len(one) = 1 /\ one[1] = top
  BY <1>1
<1> HIDE DEF X, one
<1>3. /\ front \in Seq(X) /\ Len(stack) \in Nat /\ Len(stack) >= 1
      /\ Len(front) = Len(stack) - 1
      /\ \A k \in 1 .. Len(stack) - 1 : front[k] = stack[k]
  BY <1>1, FrontIs
<1> HIDE DEF front
<1>4. /\ front \o one \in Seq(X)
      /\ Len(front \o one) = Len(front) + Len(one)
      /\ \A k \in 1 .. Len(front) + Len(one) :
            (front \o one)[k] = IF k <= Len(front) THEN front[k] ELSE one[k - Len(front)]
  BY <1>2, <1>3, ConcatProperties
<1>5. Len(front \o one) = Len(stack)
  BY <1>2, <1>3, <1>4
<1>6. (front \o one)[Len(stack)] = top
  <2>1. Len(stack) \in 1 .. Len(front) + Len(one) /\ ~(Len(stack) <= Len(front))
        /\ Len(stack) - Len(front) = 1
    BY <1>2, <1>3
  <2> QED
    BY <1>2, <1>4, <2>1
<1>7. ASSUME NEW k \in 1 .. Len(stack) - 1 PROVE (front \o one)[k] = stack[k]
  <2>1. k \in 1 .. Len(front) + Len(one) /\ k <= Len(front)
    BY <1>2, <1>3
  <2> QED
    BY <1>3, <1>4, <2>1
<1>8. front \o one # <<>>
  <2>1. Len(front \o one) # 0
    BY <1>3, <1>5
  <2> QED
    BY <2>1
<1>9. /\ \E Y : front \o one \in Seq(Y)
      /\ front \o one # <<>>
      /\ Len(front \o one) = Len(stack) /\ Len(stack) \in Nat /\ Len(stack) >= 1
      /\ (front \o one)[Len(stack)] = top
      /\ \A k \in 1 .. Len(stack) - 1 : (front \o one)[k] = stack[k]
  BY <1>3, <1>4, <1>5, <1>6, <1>7, <1>8
<1> QED
  BY <1>9 DEF front, one

(***************************************************************************)
(* Each directive keeps the stack and the mappings what they are for.      *)
(***************************************************************************)
LEMMA DirectivePush ==
    ASSUME NEW d, NEW n \in Nat, NEW q, Stacked(d, n, q),
           NEW state, Agrees(d, n, q, state), d[n + 1].name = "push"
    PROVE  /\ Stacked(d, n + 1, Append(q, n + 1))
           /\ Agrees(d, n + 1, Append(q, n + 1), ApplyDirective(state, d[n + 1]))
           /\ ApplyDirective(state, d[n + 1]).mappings = state.mappings
<1> DEFINE r == Append(q, n + 1)
           len == Len(q)
           stack == state.stack
           top == Last(stack)
           after == ApplyDirective(state, d[n + 1])
<1>1. /\ state = [mappings |-> state.mappings, stack |-> stack]
      /\ \A c \in Codes : \E M : state.mappings[c] \in Seq(M)
      /\ Len(stack) = len + 1
      /\ \A c \in Codes : stack[len + 1][c] = Effective(d, n, c)
      /\ \A j \in 1 .. len : \A c \in Codes : stack[j][c] = Effective(d, q[j] - 1, c)
      /\ MappingsSay(d, n, state.mappings)
  BY DEF Agrees, IsState, StackSays
<1>2. PICK T : stack \in Seq(T)
  BY DEF Agrees, IsState
<1>3. q \in Seq(Nat) /\ len \in Nat /\ n + 1 \in Nat
  BY DEF Stacked, OpenAre
<1>4. /\ Len(r) = len + 1 /\ r[len + 1] = n + 1
      /\ \A j \in 1 .. len : r[j] = q[j]
  BY <1>3, AppendProperties
<1>5. after = [mappings |-> state.mappings, stack |-> Append(stack, top)]
  <2>1. after = [state EXCEPT !.stack = Append(@, top)]
    BY DEF ApplyDirective
  <2> HIDE DEF top, after
  <2> QED
    BY <1>1, <2>1
<1>6. top = stack[len + 1]
  BY <1>1 DEF Last
<1> HIDE DEF top, r, len, after
<1>7. ASSUME NEW c \in Codes PROVE Effective(d, n + 1, c) = Effective(d, n, c)
  <2>1. ~ClosesAt(d, n + 1) /\ c \notin Named(d[n + 1].name)
    BY NamesApart DEF ClosesAt
  <2> QED
    BY <2>1, EffectiveOther
<1> DEFINE pushed == Append(stack, top)
<1>8. /\ \E X : pushed \in Seq(X)
      /\ pushed # <<>> /\ Len(pushed) = len + 1 + 1 /\ pushed[len + 1 + 1] = top
      /\ \A k \in 1 .. len + 1 : pushed[k] = stack[k]
  <2>1. /\ \E X : pushed \in Seq(X)
        /\ pushed # <<>> /\ Len(pushed) = Len(stack) + 1 /\ pushed[Len(stack) + 1] = top
        /\ \A k \in 1 .. Len(stack) : pushed[k] = stack[k]
    BY <1>2, StackAppend
  <2> HIDE DEF pushed
  <2> QED
    BY <1>1, <2>1
<1> HIDE DEF pushed
<1>9. \A c \in Codes : pushed[len + 1 + 1][c] = Effective(d, n + 1, c)
  BY <1>1, <1>6, <1>7, <1>8
<1>10. ASSUME NEW j \in 1 .. len + 1, NEW c \in Codes
       PROVE  pushed[j][c] = Effective(d, r[j] - 1, c)
  <2>1. pushed[j] = stack[j]
    BY <1>8
  <2>2. CASE j = len + 1
    <3>1. r[j] - 1 = n
      BY <1>4, <2>2
    <3> QED
      BY <1>1, <2>1, <2>2, <3>1
  <2>3. CASE j # len + 1
    <3>1. j \in 1 .. len
      BY <1>3, <2>3
    <3> QED
      BY <1>1, <1>4, <2>1, <3>1
  <2> QED
    BY <2>2, <2>3
<1>11. after.stack = pushed /\ after.mappings = state.mappings
  BY <1>5 DEF pushed
<1>12. IsState(after)
  BY <1>1, <1>5, <1>8, <1>11 DEF IsState
<1>13. StackSays(d, n + 1, r, after.stack)
  BY <1>4, <1>8, <1>9, <1>10, <1>11 DEF StackSays
<1>14. MappingsSay(d, n + 1, after.mappings)
  BY <1>1, <1>7, <1>11 DEF MappingsSay
<1>15. Stacked(d, n + 1, r)
  BY StackedPush DEF r
<1> QED
  BY <1>11, <1>12, <1>13, <1>14, <1>15 DEF Agrees, r, after

LEMMA DirectiveUnmatched ==
    ASSUME NEW d, NEW n \in Nat, Stacked(d, n, <<>>),
           NEW state, Agrees(d, n, <<>>, state), d[n + 1].name = "pop"
    PROVE  /\ Stacked(d, n + 1, <<>>)
           /\ Agrees(d, n + 1, <<>>, ApplyDirective(state, d[n + 1]))
           /\ ApplyDirective(state, d[n + 1]).mappings = state.mappings
<1>1. Stacked(d, n + 1, <<>>) /\ PushOf(d, n + 1) = 0
  BY StackedUnmatched
<1>2. Len(state.stack) = 0 + 1
  BY DEF Agrees, StackSays
<1>3. ApplyDirective(state, d[n + 1]) = state
  BY <1>2 DEF ApplyDirective
<1>4. ASSUME NEW c \in Codes PROVE Effective(d, n + 1, c) = Effective(d, n, c)
  <2>1. ~ClosesAt(d, n + 1) /\ c \notin Named(d[n + 1].name)
    BY <1>1, NamesApart DEF ClosesAt
  <2> QED
    BY <2>1, EffectiveOther
<1>5. Agrees(d, n + 1, <<>>, state)
  <2>1. StackSays(d, n + 1, <<>>, state.stack)
    BY <1>4 DEF Agrees, StackSays
  <2>2. MappingsSay(d, n + 1, state.mappings)
    BY <1>4 DEF Agrees, MappingsSay
  <2> QED
    BY <2>1, <2>2 DEF Agrees
<1> QED
  BY <1>1, <1>3, <1>5

LEMMA DirectivePop ==
    ASSUME NEW d, IsDirectiveList(d), NEW n \in Nat, n < Len(d), NEW q, Stacked(d, n, q),
           NEW state, Agrees(d, n, q, state), d[n + 1].name = "pop", q # <<>>
    PROVE  /\ Stacked(d, n + 1, Front(q))
           /\ Agrees(d, n + 1, Front(q), ApplyDirective(state, d[n + 1]))
           /\ \A c \in Codes :
                 LET old == state.mappings[c]
                     new == ApplyDirective(state, d[n + 1]).mappings[c]
                 IN  new = old \/ \E s : new = Append(old, Setting(d[n + 1].offset, s))
<1> DEFINE r == Front(q)
           len == Len(q)
           stack == state.stack
           top == Last(stack)
           back == Reverted(stack)
           after == ApplyDirective(state, d[n + 1])
           mappings == [c \in Codes |->
                           IF top[c] = Unset THEN state.mappings[c]
                           ELSE Append(state.mappings[c], Setting(d[n + 1].offset, back[c]))]
           p == q[len]
<1>1. /\ \A c \in Codes : \E M : state.mappings[c] \in Seq(M)
      /\ stack # <<>>
      /\ Len(stack) = len + 1
      /\ \A c \in Codes : stack[len + 1][c] = Effective(d, n, c)
      /\ \A j \in 1 .. len : \A c \in Codes : stack[j][c] = Effective(d, q[j] - 1, c)
      /\ MappingsSay(d, n, state.mappings)
  BY DEF Agrees, IsState, StackSays
<1>2. PICK T : stack \in Seq(T)
  BY DEF Agrees, IsState
<1>3. /\ q \in Seq(Nat) /\ \A j \in 1 .. len : q[j] \in 1 .. n /\ Inside(d, n, q[j])
      /\ OpenPushes(d, n) = { q[j] : j \in 1 .. len }
  BY DEF Stacked, OpenAre
<1>4. /\ len \in Nat /\ len >= 1 /\ Len(r) = len - 1 /\ \A j \in 1 .. len - 1 : r[j] = q[j]
  BY <1>3, FrontIs
<1>5. Stacked(d, n + 1, r) /\ PushOf(d, n + 1) = p
  BY StackedPop
<1>6. after = [mappings |-> mappings, stack |-> Front(stack)]
  BY <1>1, <1>4 DEF ApplyDirective
<1>7. top = stack[len + 1] /\ back = stack[len]
  <2>1. Len(stack) - 1 = len
    BY <1>1, <1>4
  <2> QED
    BY <1>1, <2>1 DEF Last, Reverted
<1>8. p \in 1 .. n /\ d[p].name = "push" /\ Inside(d, n, p)
  <2>1. len \in 1 .. len
    BY <1>4
  <2>2. p \in 1 .. n /\ Inside(d, n, p) /\ p \in OpenPushes(d, n)
    BY <1>3, <2>1
  <2> QED
    BY <2>2 DEF OpenPushes
<1> DEFINE front == Front(stack)
<1>9. /\ front \in Seq(T) /\ Len(front) = len
      /\ \A k \in 1 .. len : front[k] = stack[k]
  <2>1. /\ front \in Seq(T) /\ Len(front) = Len(stack) - 1
        /\ \A k \in 1 .. Len(stack) - 1 : front[k] = stack[k]
    BY <1>1, <1>2, FrontIs
  <2>2. Len(stack) - 1 = len
    BY <1>1, <1>4
  <2> QED
    BY <2>1, <2>2
<1> HIDE DEF r, top, back, after, front, p
<1>10. ASSUME NEW c \in Codes
       PROVE  /\ Effective(d, n + 1, c) = Effective(d, p - 1, c)
              /\ Effective(d, n, c) = Unset => Effective(d, n + 1, c) = Unset
  BY <1>5, <1>8, EffectivePop
<1>11. ASSUME NEW c \in Codes PROVE back[c] = Effective(d, n + 1, c)
  <2>1. len \in 1 .. len
    BY <1>4
  <2>2. stack[len][c] = Effective(d, p - 1, c)
    BY <1>1, <2>1 DEF p
  <2> QED
    BY <1>7, <1>10, <2>2
<1>12. ASSUME NEW c \in Codes
       PROVE  /\ LastSetting(mappings[c]) = Effective(d, n + 1, c)
              /\ \E M : mappings[c] \in Seq(M)
              /\ mappings[c] = state.mappings[c]
                 \/ \E s : mappings[c] = Append(state.mappings[c], Setting(d[n + 1].offset, s))
  <2>1. PICK M : state.mappings[c] \in Seq(M)
    BY <1>1
  <2>2. CASE top[c] = Unset
    <3>1. mappings[c] = state.mappings[c]
      BY <2>2
    <3>2. Effective(d, n, c) = Unset
      BY <1>1, <1>7, <2>2
    <3>3. LastSetting(state.mappings[c]) = Effective(d, n, c)
      BY <1>1 DEF MappingsSay
    <3> HIDE DEF mappings
    <3> QED
      BY <1>10, <2>1, <3>1, <3>2, <3>3
  <2>3. CASE top[c] # Unset
    <3>1. mappings[c] = Append(state.mappings[c], Setting(d[n + 1].offset, back[c]))
      BY <2>3
    <3> HIDE DEF mappings
    <3>2. LastSetting(mappings[c]) = back[c] /\ \E N : mappings[c] \in Seq(N)
      BY <2>1, <3>1, LastAppended
    <3> QED
      BY <1>11, <3>1, <3>2
  <2> QED
    BY <2>2, <2>3
<1> HIDE DEF mappings
<1>13. after.mappings = mappings /\ after.stack = front
  BY <1>6 DEF front
<1>14. IsState(after)
  <2>1. front # <<>>
    <3>1. Len(front) # 0
      BY <1>4, <1>9
    <3> QED
      BY <3>1
  <2>2. after = [mappings |-> after.mappings, stack |-> after.stack]
    BY <1>6, <1>13 DEF front
  <2> QED
    BY <1>9, <1>12, <1>13, <2>1, <2>2 DEF IsState
<1>15. StackSays(d, n + 1, r, after.stack)
  <2>1. len - 1 + 1 = len /\ len \in 1 .. len
    BY <1>4
  <2>2. \A c \in Codes : front[len][c] = Effective(d, n + 1, c)
    BY <1>7, <1>9, <1>11, <2>1
  <2>3. ASSUME NEW j \in 1 .. len - 1, NEW c \in Codes
        PROVE  front[j][c] = Effective(d, r[j] - 1, c)
    <3>1. j \in 1 .. len /\ r[j] = q[j]
      BY <1>4
    <3> QED
      BY <1>1, <1>9, <3>1
  <2> QED
    BY <1>4, <1>9, <1>13, <2>1, <2>2, <2>3 DEF StackSays
<1>16. MappingsSay(d, n + 1, after.mappings)
  BY <1>12, <1>13 DEF MappingsSay
<1>17. \A c \in Codes : \/ after.mappings[c] = state.mappings[c]
                        \/ \E s : after.mappings[c]
                                    = Append(state.mappings[c], Setting(d[n + 1].offset, s))
  BY <1>12, <1>13
<1> QED
  BY <1>5, <1>14, <1>15, <1>16, <1>17 DEF Agrees, r, after

LEMMA DirectiveNamed ==
    ASSUME NEW d, NEW n \in Nat, NEW q, Stacked(d, n, q),
           NEW state, Agrees(d, n, q, state), d[n + 1].name \notin {"push", "pop"}
    PROVE  /\ Stacked(d, n + 1, q)
           /\ Agrees(d, n + 1, q, ApplyDirective(state, d[n + 1]))
           /\ \A c \in Codes :
                 LET old == state.mappings[c]
                     new == ApplyDirective(state, d[n + 1]).mappings[c]
                 IN  new = old \/ \E s : new = Append(old, Setting(d[n + 1].offset, s))
<1> DEFINE len == Len(q)
           stack == state.stack
           note == Named(d[n + 1].name)
           said == d[n + 1].severity
           table == [c \in Codes |-> IF c \in note THEN said ELSE Last(stack)[c]]
           mappings == [c \in Codes |->
                           IF c \in note
                             THEN Append(state.mappings[c], Setting(d[n + 1].offset, said))
                             ELSE state.mappings[c]]
           after == ApplyDirective(state, d[n + 1])
           replaced == Front(stack) \o <<table>>
<1>1. /\ \A c \in Codes : \E M : state.mappings[c] \in Seq(M)
      /\ stack # <<>>
      /\ Len(stack) = len + 1
      /\ \A c \in Codes : stack[len + 1][c] = Effective(d, n, c)
      /\ \A j \in 1 .. len : \A c \in Codes : stack[j][c] = Effective(d, q[j] - 1, c)
      /\ MappingsSay(d, n, state.mappings)
  BY DEF Agrees, IsState, StackSays
<1>2. PICK T : stack \in Seq(T)
  BY DEF Agrees, IsState
<1>3. q \in Seq(Nat) /\ len \in Nat
  BY DEF Stacked, OpenAre
<1>4. Stacked(d, n + 1, q)
  BY StackedOther
<1>5. after = [mappings |-> mappings, stack |-> replaced]
  BY DEF ApplyDirective
<1>6. Last(stack) = stack[len + 1]
  BY <1>1 DEF Last
<1>7. \A c \in Codes : table[c] = IF c \in note THEN said ELSE Effective(d, n, c)
  BY <1>1, <1>6
<1>8. ASSUME NEW c \in Codes
      PROVE  Effective(d, n + 1, c) = IF c \in note THEN said ELSE Effective(d, n, c)
  <2>1. ~ClosesAt(d, n + 1)
    BY DEF ClosesAt
  <2> QED
    BY <2>1, EffectiveOther
<1> HIDE DEF table, note, said, after
<1>9. /\ \E X : replaced \in Seq(X)
      /\ replaced # <<>> /\ Len(replaced) = len + 1 /\ replaced[len + 1] = table
      /\ \A k \in 1 .. len : replaced[k] = stack[k]
  <2>1. /\ \E X : replaced \in Seq(X)
        /\ replaced # <<>> /\ Len(replaced) = Len(stack) /\ replaced[Len(stack)] = table
        /\ \A k \in 1 .. Len(stack) - 1 : replaced[k] = stack[k]
    BY <1>1, <1>2, StackReplace, ZenonT(60)
  <2>2. Len(stack) - 1 = len
    BY <1>1, <1>3
  <2> HIDE DEF replaced
  <2> QED
    BY <1>1, <2>1, <2>2
<1>10. ASSUME NEW c \in Codes
       PROVE  /\ LastSetting(mappings[c]) = Effective(d, n + 1, c)
              /\ \E M : mappings[c] \in Seq(M)
              /\ mappings[c] = state.mappings[c]
                 \/ \E s : mappings[c] = Append(state.mappings[c], Setting(d[n + 1].offset, s))
  <2>1. PICK M : state.mappings[c] \in Seq(M)
    BY <1>1
  <2>2. CASE c \notin note
    <3>1. mappings[c] = state.mappings[c]
      BY <2>2
    <3>2. LastSetting(state.mappings[c]) = Effective(d, n, c)
      BY <1>1 DEF MappingsSay
    <3> HIDE DEF mappings
    <3> QED
      BY <1>8, <2>1, <2>2, <3>1, <3>2
  <2>3. CASE c \in note
    <3>1. mappings[c] = Append(state.mappings[c], Setting(d[n + 1].offset, said))
      BY <2>3
    <3> HIDE DEF mappings
    <3>2. LastSetting(mappings[c]) = said /\ \E N : mappings[c] \in Seq(N)
      BY <2>1, <3>1, LastAppended
    <3> QED
      BY <1>8, <2>3, <3>1, <3>2
  <2> QED
    BY <2>2, <2>3
<1> HIDE DEF mappings, replaced
<1>11. after.mappings = mappings /\ after.stack = replaced
  BY <1>5
<1>12. IsState(after)
  BY <1>5, <1>9, <1>10, <1>11 DEF IsState
<1>13. StackSays(d, n + 1, q, after.stack)
  BY <1>1, <1>7, <1>8, <1>9, <1>11 DEF StackSays
<1>14. MappingsSay(d, n + 1, after.mappings)
  BY <1>10, <1>11 DEF MappingsSay
<1>15. \A c \in Codes : \/ after.mappings[c] = state.mappings[c]
                        \/ \E s : after.mappings[c]
                                    = Append(state.mappings[c], Setting(d[n + 1].offset, s))
  BY <1>10, <1>11
<1> QED
  BY <1>4, <1>12, <1>13, <1>14, <1>15 DEF Agrees, after

(***************************************************************************)
(* The settings of a code grow at their end, so those before an offset are *)
(* the ones the directives before it made.                                 *)
(***************************************************************************)
Grown(old, new, offset) == new = old \/ \E s : new = Append(old, Setting(offset, s))

LEMMA GrownIs ==
    ASSUME NEW M, NEW old \in Seq(M), NEW new, NEW offset, Grown(old, new, offset)
    PROVE  /\ Len(old) \in Nat /\ Len(new) \in {Len(old), Len(old) + 1}
           /\ \A i \in 1 .. Len(old) : new[i] = old[i]
           /\ \A i \in 1 .. Len(new) : i \notin 1 .. Len(old) => new[i].offset = offset
<1>1. CASE new = old
  BY <1>1
<1>2. ASSUME NEW s, new = Append(old, Setting(offset, s))
      PROVE  /\ Len(new) = Len(old) + 1 /\ Len(old) \in Nat
             /\ \A i \in 1 .. Len(old) : new[i] = old[i]
             /\ \A i \in 1 .. Len(new) : i \notin 1 .. Len(old) => new[i].offset = offset
  <2> DEFINE e == Setting(offset, s)
  <2>1. e.offset = offset
    BY DEF Setting
  <2> HIDE DEF e
  <2>2. PICK N : old \in Seq(N) /\ e \in N
    <3>1. old \in Seq(M \cup {e}) /\ e \in M \cup {e}
      OBVIOUS
    <3> QED
      BY <3>1
  <2>3. new = Append(old, e)
    BY <1>2 DEF e
  <2>4. /\ Len(new) = Len(old) + 1 /\ Len(old) \in Nat /\ new[Len(old) + 1] = e
        /\ \A i \in 1 .. Len(old) : new[i] = old[i]
    BY <2>2, <2>3, AppendProperties
  <2>5. \A i \in 1 .. Len(new) : i \notin 1 .. Len(old) => i = Len(old) + 1
    BY <2>4
  <2> QED
    BY <2>1, <2>4, <2>5
<1> QED
  BY <1>1, <1>2 DEF Grown

\* The settings m[k] after each of n directives d, all of them sequences.
Growing(m, n, d) ==
    /\ m[0] = <<>>
    /\ \A k \in 0 .. n : \E M : m[k] \in Seq(M)
    /\ \A k \in 0 .. n - 1 : Grown(m[k], m[k + 1], d[k + 1].offset)

LEMMA SettingsBefore ==
    ASSUME NEW n \in Nat, NEW n0 \in 0 .. n, NEW offset, NEW d, NEW m, Growing(m, n, d),
           \A k \in 1 .. n : d[k].offset < offset <=> k <= n0
    PROVE  /\ Len(m[n0]) \in Nat /\ Len(m[n]) \in Nat /\ Len(m[n0]) <= Len(m[n])
           /\ \A i \in 1 .. Len(m[n0]) : m[n][i] = m[n0][i]
           /\ \A i \in 1 .. Len(m[n]) : m[n][i].offset < offset <=> i <= Len(m[n0])
<1>1. ASSUME NEW k \in 0 .. n PROVE Len(m[k]) \in Nat
  BY <1>1 DEF Growing
<1>2. ASSUME NEW k \in Nat, k < n
      PROVE  /\ Len(m[k]) \in Nat /\ Len(m[k + 1]) \in {Len(m[k]), Len(m[k]) + 1}
             /\ \A i \in 1 .. Len(m[k]) : m[k + 1][i] = m[k][i]
             /\ \A i \in 1 .. Len(m[k + 1]) : i \notin 1 .. Len(m[k])
                                                 => m[k + 1][i].offset = d[k + 1].offset
  <2>1. k \in 0 .. n - 1 /\ k \in 0 .. n
    BY <1>2
  <2>2. PICK M : m[k] \in Seq(M)
    BY <2>1 DEF Growing
  <2>3. Grown(m[k], m[k + 1], d[k + 1].offset)
    BY <2>1 DEF Growing
  <2> QED
    BY <2>2, <2>3, GrownIs
<1> DEFINE Early(k) == \A i \in 1 .. Len(m[k]) : m[k][i].offset < offset
           S == {k \in Nat : k <= n0 => Early(k)}
<1>3. n0 \in Nat /\ n0 <= n
  OBVIOUS
<1>4. 0 \in S
  <2>1. Len(m[0]) = 0
    BY DEF Growing
  <2> QED
    BY <2>1
<1>5. ASSUME NEW k \in Nat, k < n0, k \in S PROVE k + 1 \in S
  <2>1. k < n /\ k <= n0 /\ k + 1 \in 1 .. n /\ k + 1 <= n0 /\ k + 1 \in Nat
    BY <1>3, <1>5
  <2>2. d[k + 1].offset < offset
    BY <2>1
  <2>3. Early(k)
    BY <1>5, <2>1
  <2>4. ASSUME NEW i \in 1 .. Len(m[k + 1]) PROVE m[k + 1][i].offset < offset
    <3>1. CASE i \in 1 .. Len(m[k])
      BY <1>2, <2>1, <2>3, <3>1
    <3>2. CASE i \notin 1 .. Len(m[k])
      BY <1>2, <2>1, <2>2, <3>2
    <3> QED
      BY <3>1, <3>2
  <2> QED
    BY <2>1, <2>4
<1>6. Early(n0)
  <2>1. n0 \in S
    <3>1. n0 \in 0 .. n0
      BY <1>3
    <3> HIDE DEF S
    <3> QED
      BY <1>3, <1>4, <1>5, <3>1, CountUp
  <2> QED
    BY <1>3, <2>1
<1> DEFINE len == Len(m[n0])
           Late(k) == /\ len <= Len(m[k])
                      /\ \A i \in 1 .. len : m[k][i] = m[n0][i]
                      /\ \A i \in 1 .. Len(m[k]) : i > len => ~(m[k][i].offset < offset)
           R == {k \in Nat : n0 + k <= n => Late(n0 + k)}
<1>7. len \in Nat
  BY <1>1
<1> HIDE DEF Early, S
<1>8. 0 \in R
  <2>1. n0 + 0 = n0 /\ len <= len /\ \A i \in 1 .. len : ~(i > len)
    BY <1>3, <1>7
  <2> QED
    BY <2>1
<1>9. ASSUME NEW k \in Nat, k < n - n0, k \in R PROVE k + 1 \in R
  <2>1. PICK j \in Nat : j = n0 + k /\ j < n /\ j <= n /\ n0 + (k + 1) = j + 1
    BY <1>3, <1>9
  <2>2. Late(j)
    BY <1>9, <2>1
  <2>3. /\ Len(m[j]) \in Nat /\ Len(m[j + 1]) \in {Len(m[j]), Len(m[j]) + 1}
        /\ \A i \in 1 .. Len(m[j]) : m[j + 1][i] = m[j][i]
        /\ \A i \in 1 .. Len(m[j + 1]) : i \notin 1 .. Len(m[j])
                                            => m[j + 1][i].offset = d[j + 1].offset
    BY <1>2, <2>1
  <2>4. ~(d[j + 1].offset < offset)
    <3>1. j + 1 \in 1 .. n /\ ~(j + 1 <= n0)
      BY <1>3, <2>1
    <3> QED
      BY <3>1
  <2>5. len <= Len(m[j + 1]) /\ \A i \in 1 .. len : i \in 1 .. Len(m[j])
    BY <1>7, <2>2, <2>3
  <2>6. \A i \in 1 .. len : m[j + 1][i] = m[n0][i]
    BY <2>2, <2>3, <2>5
  <2>7. ASSUME NEW i \in 1 .. Len(m[j + 1]), i > len PROVE ~(m[j + 1][i].offset < offset)
    <3>1. CASE i \in 1 .. Len(m[j])
      BY <2>2, <2>3, <2>7, <3>1
    <3>2. CASE i \notin 1 .. Len(m[j])
      BY <2>3, <2>4, <3>2
    <3> QED
      BY <3>1, <3>2
  <2>8. Late(j + 1)
    BY <2>5, <2>6, <2>7
  <2> HIDE DEF Late
  <2> QED
    BY <2>1, <2>8
<1>10. Late(n)
  <2>1. n - n0 \in Nat /\ n - n0 \in 0 .. n - n0 /\ n0 + (n - n0) = n /\ n <= n
    BY <1>3
  <2>2. n - n0 \in R
    <3> HIDE DEF R
    <3> QED
      BY <1>8, <1>9, <2>1, CountUp
  <2> HIDE DEF Late
  <2>3. n0 + (n - n0) <= n => Late(n0 + (n - n0))
    BY <2>2
  <2> QED
    BY <2>1, <2>3
<1>11. ASSUME NEW i \in 1 .. Len(m[n]) PROVE m[n][i].offset < offset <=> i <= len
  <2>1. CASE i <= len
    <3>1. i \in 1 .. len
      BY <1>7, <2>1
    <3>2. m[n0][i].offset < offset
      BY <1>6, <3>1 DEF Early
    <3> QED
      BY <1>10, <2>1, <3>1, <3>2
  <2>2. CASE ~(i <= len)
    <3>1. i > len
      <4>1. i \in Int
        OBVIOUS
      <4> QED
        BY <1>7, <2>2, <4>1
    <3> QED
      BY <1>10, <2>2, <3>1
  <2> QED
    BY <2>1, <2>2
<1>12. n \in 0 .. n /\ Len(m[n]) \in Nat
  BY <1>1
<1> QED
  BY <1>7, <1>10, <1>11, <1>12

\* In a list in order, the directives before an offset come first.
LEMMA FirstOnes ==
    ASSUME NEW d, IsDirectiveList(d), NEW offset \in Nat
    PROVE  \E n0 \in 0 .. Len(d) :
               /\ { k \in DOMAIN d : d[k].offset < offset } = 1 .. n0
               /\ \A k \in 1 .. Len(d) : d[k].offset < offset <=> k <= n0
<1> DEFINE before == { k \in DOMAIN d : d[k].offset < offset }
<1>1. Len(d) \in Nat /\ DOMAIN d = 1 .. Len(d)
  BY DEF IsDirectiveList
<1>2. before \in SUBSET (1 .. Len(d)) /\ \A k \in 1 .. Len(d) : k \in before <=> d[k].offset < offset
  BY <1>1
<1> HIDE DEF before
<1>3. CASE before = {}
  <2>1. 0 \in 0 .. Len(d) /\ 1 .. 0 = {} /\ \A k \in 1 .. Len(d) : ~(k <= 0)
    BY <1>1
  <2>2. \A k \in 1 .. Len(d) : d[k].offset < offset <=> k <= 0
    BY <1>2, <1>3, <2>1
  <2> QED
    BY <1>3, <2>1, <2>2 DEF before
<1>4. CASE before # {}
  <2>1. PICK n0 : n0 \in before /\ \A j \in before : n0 >= j
    BY <1>1, <1>2, <1>4, GreatestIndex
  <2>2. n0 \in 1 .. Len(d) /\ n0 \in 0 .. Len(d) /\ d[n0].offset < offset
    BY <1>2, <2>1
  <2>3. ASSUME NEW k \in 1 .. Len(d) PROVE d[k].offset < offset <=> k <= n0
    <3>1. CASE k <= n0
      <4>1. k = n0 \/ d[k].offset < d[n0].offset
        BY <2>2, <3>1 DEF IsDirectiveList
      <4>2. d[k].offset \in Nat /\ d[n0].offset \in Nat
        BY <2>2 DEF IsDirectiveList
      <4> QED
        BY <2>2, <3>1, <4>1, <4>2
    <3>2. CASE ~(k <= n0)
      BY <1>2, <2>1, <2>2, <3>2
    <3> QED
      BY <3>1, <3>2
  <2>4. before = 1 .. n0
    <3>1. \A k \in 1 .. n0 : k \in 1 .. Len(d) /\ k <= n0
      BY <2>2
    <3>2. \A k \in before : k \in 1 .. Len(d) /\ k <= n0 /\ k \in 1 .. n0
      BY <1>2, <2>2, <2>3
    <3> QED
      BY <1>2, <2>3, <3>1, <3>2
  <2> QED
    BY <2>2, <2>3, <2>4 DEF before
<1> QED
  BY <1>3, <1>4

LEMMA StateStart ==
    ASSUME NEW d
    PROVE  Stacked(d, 0, <<>>) /\ Agrees(d, 0, <<>>, NoState)
<1>1. /\ NoState.mappings = NoMappings /\ NoState.stack = <<NoOverrides>>
      /\ NoState = [mappings |-> NoState.mappings, stack |-> NoState.stack]
  BY DEF NoState
<1>2. /\ <<NoOverrides>> \in Seq({NoOverrides}) /\ <<NoOverrides>> # <<>>
      /\ Len(<<NoOverrides>>) = 1 /\ <<NoOverrides>>[1] = NoOverrides
  OBVIOUS
<1>3. \A c \in Codes : NoMappings[c] = <<>> /\ NoOverrides[c] = Unset
  BY DEF NoMappings, NoOverrides
<1>4. \A c : Effective(d, 0, c) = Unset
  BY DEF Effective, LastCounting, Counting
<1>5. <<>> \in Seq({}) /\ Len(<<>>) = 0 /\ 1 .. 0 = {} /\ 0 + 1 = 1
  OBVIOUS
<1>6. IsState(NoState)
  BY <1>1, <1>2, <1>3, <1>5 DEF IsState
<1>7. StackSays(d, 0, <<>>, NoState.stack)
  BY <1>1, <1>2, <1>3, <1>4, <1>5 DEF StackSays
<1>8. MappingsSay(d, 0, NoState.mappings)
  BY <1>1, <1>3, <1>4 DEF MappingsSay, LastSetting
<1> QED
  BY <1>6, <1>7, <1>8, StackedStart DEF Agrees

\* One directive, whatever it is.
LEMMA DirectiveStep ==
    ASSUME NEW d, IsDirectiveList(d), NEW n \in Nat, n < Len(d), NEW q, Stacked(d, n, q),
           NEW state, Agrees(d, n, q, state)
    PROVE  /\ \E r : Stacked(d, n + 1, r) /\ Agrees(d, n + 1, r, ApplyDirective(state, d[n + 1]))
           /\ \A c \in Codes : Grown(state.mappings[c],
                                     ApplyDirective(state, d[n + 1]).mappings[c], d[n + 1].offset)
<1>1. CASE d[n + 1].name = "push"
  BY <1>1, DirectivePush DEF Grown
<1>2. CASE d[n + 1].name = "pop" /\ q = <<>>
  BY <1>2, DirectiveUnmatched DEF Grown
<1>3. CASE d[n + 1].name = "pop" /\ q # <<>>
  BY <1>3, DirectivePop DEF Grown
<1>4. CASE d[n + 1].name \notin {"push", "pop"}
  BY <1>4, DirectiveNamed DEF Grown
<1> QED
  BY <1>1, <1>2, <1>3, <1>4

(***************************************************************************)
(* setMappingsFromPragmas and findMappedSeverity: at any offset of a file  *)
(* the setting that counts is the last one before it that is not between a *)
(* push and its pop, however many directives there are and however they    *)
(* nest, of any code and any groups it is in.                              *)
(***************************************************************************)
THEOREM PragmasCountNested ==
    ASSUME NEW d, IsDirectiveList(d), NEW code \in Codes, NEW offset \in Nat
    PROVE  PragmaCounts(d, code, offset)
<1> DEFINE n == Len(d)
<1>1. PICK D : d \in Seq(D)
  BY DEF IsDirectiveList
<1>2. PICK trace : /\ trace[0] = NoState
                   /\ trace[n].mappings = MappingsFromPragmas(d, NoMappings)
                   /\ DirectivesTrace(trace, n, d)
  BY <1>1, DirectivesUnroll
<1>3. n \in Nat
  BY <1>1
<1> HIDE DEF n
<1> DEFINE Right(k) == \E q : Stacked(d, k, q) /\ Agrees(d, k, q, trace[k])
           S == {k \in Nat : k <= n => Right(k)}
<1>4. Right(0)
  BY <1>2, StateStart
<1>5. ASSUME NEW k \in Nat, k < n, Right(k)
      PROVE  /\ Right(k + 1)
             /\ \A c \in Codes : Grown(trace[k].mappings[c], trace[k + 1].mappings[c],
                                       d[k + 1].offset)
  <2>1. PICK q : Stacked(d, k, q) /\ Agrees(d, k, q, trace[k])
    BY <1>5
  <2>2. k \in 0 .. n - 1
    BY <1>3, <1>5
  <2>3. trace[k + 1] = ApplyDirective(trace[k], d[k + 1])
    BY <1>2, <2>2 DEF DirectivesTrace
  <2>4. k < Len(d)
    BY <1>5 DEF n
  <2>5. /\ \E r : Stacked(d, k + 1, r) /\ Agrees(d, k + 1, r, ApplyDirective(trace[k], d[k + 1]))
        /\ \A c \in Codes : Grown(trace[k].mappings[c],
                                  ApplyDirective(trace[k], d[k + 1]).mappings[c], d[k + 1].offset)
    BY <2>1, <2>4, DirectiveStep
  <2> QED
    BY <2>3, <2>5
<1> HIDE DEF Right
<1>6. \A k \in 0 .. n : Right(k)
  <2>1. 0 \in S
    BY <1>4
  <2>2. ASSUME NEW k \in Nat, k < n, k \in S PROVE k + 1 \in S
    <3>1. k <= n /\ k + 1 \in Nat
      BY <1>3, <2>2
    <3> QED
      BY <1>5, <2>2, <3>1
  <2>3. \A k \in 0 .. n : k \in S /\ k <= n
    <3>1. \A k \in 0 .. n : k \in S
      <4> HIDE DEF S
      <4> QED
        BY <1>3, <2>1, <2>2, CountUp
    <3> QED
      BY <1>3, <3>1
  <2> QED
    BY <2>3
<1>7. PICK n0 \in 0 .. n : /\ { k \in DOMAIN d : d[k].offset < offset } = 1 .. n0
                           /\ \A k \in 1 .. n : d[k].offset < offset <=> k <= n0
  BY FirstOnes DEF n
<1> DEFINE m == [k \in 0 .. n |-> trace[k].mappings[code]]
<1>8. \A k \in 0 .. n : m[k] = trace[k].mappings[code]
  OBVIOUS
<1>9. 0 \in 0 .. n /\ n \in 0 .. n /\ \A k \in 0 .. n - 1 : k \in 0 .. n /\ k + 1 \in 0 .. n
  BY <1>3
<1> HIDE DEF m
<1>10. Growing(m, n, d)
  <2>1. m[0] = <<>>
    BY <1>2, <1>8, <1>9 DEF NoState, NoMappings
  <2>2. ASSUME NEW k \in 0 .. n PROVE \E M : m[k] \in Seq(M)
    BY <1>6, <1>8 DEF Right, Agrees, IsState
  <2>3. ASSUME NEW k \in 0 .. n - 1 PROVE Grown(m[k], m[k + 1], d[k + 1].offset)
    <3>1. k \in Nat /\ k < n /\ k \in 0 .. n /\ k + 1 \in 0 .. n
      BY <1>3, <1>9
    <3>2. Right(k)
      BY <1>6, <3>1
    <3> QED
      BY <1>5, <1>8, <3>1, <3>2
  <2> QED
    BY <2>1, <2>2, <2>3 DEF Growing
<1>11. /\ Len(m[n0]) \in Nat /\ Len(m[n]) \in Nat /\ Len(m[n0]) <= Len(m[n])
       /\ \A i \in 1 .. Len(m[n0]) : m[n][i] = m[n0][i]
       /\ \A i \in 1 .. Len(m[n]) : m[n][i].offset < offset <=> i <= Len(m[n0])
  BY <1>3, <1>7, <1>10, SettingsBefore
<1> DEFINE len == Len(m[n0])
           mappings == MappingsFromPragmas(d, NoMappings)
<1>12. mappings[code] = m[n] /\ DOMAIN m[n] = 1 .. Len(m[n])
  <2>1. \E M : m[n] \in Seq(M)
    BY <1>9, <1>10 DEF Growing
  <2>2. DOMAIN m[n] = 1 .. Len(m[n])
    BY <2>1
  <2> QED
    BY <1>2, <1>8, <1>9, <2>2
<1>13. Cardinality({ k \in DOMAIN mappings[code] : mappings[code][k].offset < offset }) = len
  <2>1. { k \in DOMAIN m[n] : m[n][k].offset < offset } = 1 .. len
    BY <1>11, <1>12
  <2>2. Cardinality(1 .. len) = len
    <3>1. PICK l \in Nat : l = len
      BY <1>11
    <3>2. Cardinality(1 .. l) = IF 1 > l THEN 0 ELSE l - 1 + 1
      BY FS_Interval
    <3>3. Cardinality(1 .. l) = l
      BY <3>2
    <3> QED
      BY <3>1, <3>3
  <2> HIDE DEF len, mappings
  <2> QED
    BY <1>12, <2>1, <2>2
<1>14. LastSetting(m[n0]) = Effective(d, n0, code)
  BY <1>6, <1>7, <1>8 DEF Right, Agrees, MappingsSay
<1>15. FindMappedSeverity(mappings, code, offset)
           = IF len = 0 THEN Unset ELSE mappings[code][len].severity
  <2> HIDE DEF len, mappings
  <2> QED
    BY <1>13 DEF FindMappedSeverity
<1>16. LastSetting(m[n0]) = IF len = 0 THEN Unset ELSE m[n0][len].severity
  <2>1. PICK M : m[n0] \in Seq(M)
    BY <1>7, <1>10 DEF Growing
  <2>2. m[n0] = <<>> <=> Len(m[n0]) = 0
    BY <2>1
  <2> QED
    BY <2>2 DEF LastSetting
<1>17. len # 0 => mappings[code][len].severity = m[n0][len].severity
  BY <1>11, <1>12
<1>18. FindMappedSeverity(mappings, code, offset) = Effective(d, n0, code)
  <2> HIDE DEF len, mappings
  <2> QED
    BY <1>14, <1>15, <1>16, <1>17
<1>19. LastCounting(d, { k \in DOMAIN d : d[k].offset < offset }, code) = Effective(d, n0, code)
  BY <1>7 DEF Effective
<1> QED
  BY <1>18, <1>19 DEF PragmaCounts

LEMMA DirectiveListsAre ==
    ASSUME NEW d \in DirectiveLists
    PROVE  IsDirectiveList(d) /\ Len(d) \in Nat
<1>1. PICK n \in 0 .. MaxDirectives :
          /\ d \in [1 .. n -> UNION { SomeDirectives(k) : k \in 1 .. n }]
          /\ \A k \in 1 .. n : d[k].offset = 2 * k
  BY DEF DirectiveLists
<1>2. n \in Nat
  BY ListsOK
<1> DEFINE D == UNION { SomeDirectives(k) : k \in 1 .. n }
<1>3. d \in Seq(D) /\ Len(d) = n
  <2> HIDE DEF D
  <2> QED
    BY <1>1, <1>2 DEF D
<1>4. ASSUME NEW k \in 1 .. n
      PROVE  /\ d[k].offset \in Nat
             /\ d[k].name \notin {"push", "pop"} => d[k].severity # Unset
             /\ \A j \in 1 .. n : j < k => d[j].offset < d[k].offset
  <2>1. d[k].offset = 2 * k /\ \A j \in 1 .. n : d[j].offset = 2 * j
    BY <1>1
  <2>2. d[k].offset \in Nat /\ \A j \in 1 .. n : j < k => d[j].offset < d[k].offset
    BY <2>1
  <2>3. PICK j \in 1 .. n : d[k] \in SomeDirectives(j)
    BY <1>1
  <2>4. d[k].name \notin {"push", "pop"} => d[k].severity # Unset
    BY <2>3 DEF SomeDirectives, Unset
  <2> QED
    BY <2>2, <2>4
<1> QED
  BY <1>2, <1>3, <1>4 DEF IsDirectiveList

\* PragmasNest in every state, for any number of directives.
THEOREM PragmasCorrect == Spec => []PragmasNest
<1>1. ASSUME NEW d \in DirectiveLists, NEW code \in {"w", "x"},
             NEW offset \in 1 .. 2 * Len(d) + 1
      PROVE  PragmaCounts(d, code, offset)
  <2>1. IsDirectiveList(d) /\ Len(d) \in Nat
    BY DirectiveListsAre
  <2>2. offset \in Nat /\ code \in Codes
    BY <2>1, ListsOK
  <2> QED
    BY <2>1, <2>2, PragmasCountNested
<1>2. PragmasNest
  BY <1>1 DEF PragmasNest
<1> QED
  BY <1>2, PTL
===============================================================================
