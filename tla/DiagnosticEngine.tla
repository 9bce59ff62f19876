---------------------------- MODULE DiagnosticEngine ----------------------------
(***************************************************************************)
(* slang::DiagnosticEngine and its WaiverManager: a diagnostic is given a  *)
(* severity, may be suppressed or waived, is reported to the clients with  *)
(* its notes, and is counted.                                              *)
(*                                                                         *)
(* A call of issue for a diagnostic with notes issues the notes before it  *)
(* counts the diagnostic itself; frames is the stack of the calls under    *)
(* way.  reported is a history variable: what the clients were told since  *)
(* the last clearCounts, and seen the diagnostics given to shouldWaive.    *)
(***************************************************************************)
EXTENDS DiagnosticOptions

CONSTANTS
    Buffers, NoBuffer,
    Diags,              \* id -> diagnostic
    TopDiags,           \* the ones that are issued by themselves
    ErrorLimits,        \* choices of the driver for the error limit; 0: none
    Directives,         \* buffer -> its `pragma diagnostic directives
    OptionLists,        \* choices for lists of -W options
    SeverityCalls,      \* <<code, severity>> given to setSeverity
    WaiverFiles,        \* file -> entries; an entry is a rule or BadEntry
    BadEntry,
    Clients,
    MaxSettings,        \* bound: calls that change settings
    MaxIssued           \* bound: diagnostics issued

ASSUME EngineOK ==
    /\ NoBuffer \notin Buffers
    /\ \A d \in DOMAIN Diags : /\ Diags[d].code \in Codes
                               /\ Diags[d].buffer \in Buffers \cup {NoBuffer}
                               /\ ToSet(Diags[d].notes) \subseteq DOMAIN Diags
    /\ TopDiags \subseteq DOMAIN Diags
    /\ ErrorLimits \subseteq Nat
    /\ \A f \in DOMAIN WaiverFiles : WaiverFiles[f] \in Seq(ToSet(WaiverFiles[f]))
    /\ MaxSettings \in Nat /\ MaxIssued \in Nat

VARIABLES
    severityTable, baselineSeverityTable, flags, diagMappings, perBufferSeverity,
    ignoreWarn, ignoreMacroWarn,    \* buffers whose path a pattern matches
    rules, stats,                   \* the waiver rules and what happened to each
    clients, numErrors, numWarnings, errorLimit, issuedOverLimitErr,
    reportedIncludeStack,
    frames, settings, issued, reported, seen

tables == <<severityTable, baselineSeverityTable, flags, diagMappings, perBufferSeverity>>
filters == <<ignoreWarn, ignoreMacroWarn, rules>>
counters == <<numErrors, numWarnings>>
outcome == <<counters, issuedOverLimitErr, reportedIncludeStack, frames, stats, reported, seen>>
vars == <<tables, filters, clients, errorLimit, outcome, settings, issued>>

NoStats == [applied |-> 0, scope |-> FALSE, diagnostic |-> FALSE, noSymbol |-> FALSE]
NothingReported == [errors |-> 0, warnings |-> 0, topErrors |-> 0, tooMany |-> 0, after |-> 0]
FlagNames == {"ignoreAllWarnings", "ignoreAllNotes", "warningsAsErrors", "errorsAsFatal",
              "fatalsAsErrors"}

Init ==
    /\ severityTable = NoOverrides /\ baselineSeverityTable = NoOverrides
    /\ flags = [f \in FlagNames |-> FALSE]
    /\ diagMappings = [b \in Buffers |-> NoMappings]
    /\ perBufferSeverity = [b \in Buffers |-> NoParsedOptions]
    /\ ignoreWarn = {} /\ ignoreMacroWarn = {}
    /\ rules = <<>> /\ stats = <<>>
    /\ clients \in {<<>>} \cup { <<c>> : c \in Clients }
    /\ errorLimit \in ErrorLimits
    /\ numErrors = 0 /\ numWarnings = 0 /\ issuedOverLimitErr = FALSE
    /\ reportedIncludeStack = {}
    /\ frames = <<>> /\ settings = 0 /\ issued = 0
    /\ reported = NothingReported /\ seen = {}
-----------------------------------------------------------------------------
(***************************************************************************)
(* Settings.  The engine runs on one thread: no call comes in the middle   *)
(* of issue.  The driver reads the pragmas and the waiver files once.      *)
(***************************************************************************)
Set == frames = <<>> /\ settings < MaxSettings /\ settings' = settings + 1
Settled == UNCHANGED <<clients, errorLimit, issued, outcome>>

SetSeverity ==
    /\ Set
    /\ \E call \in SeverityCalls : severityTable' = [severityTable EXCEPT ![call[1]] = call[2]]
    /\ UNCHANGED <<baselineSeverityTable, flags, diagMappings, perBufferSeverity, filters>>
    /\ Settled

SetBaselineSeverity ==
    /\ Set
    /\ \E call \in SeverityCalls :
           /\ severityTable' = [severityTable EXCEPT ![call[1]] = call[2]]
           /\ baselineSeverityTable' = [baselineSeverityTable EXCEPT ![call[1]] = call[2]]
    /\ UNCHANGED <<flags, diagMappings, perBufferSeverity, filters>>
    /\ Settled

SetFlag ==
    /\ Set
    /\ \E f \in FlagNames : flags' = [flags EXCEPT ![f] = TRUE]
    /\ UNCHANGED <<severityTable, baselineSeverityTable, diagMappings, perBufferSeverity, filters>>
    /\ Settled

\* The results of -W options start from the tables of the engine.
WarningOptions(options) ==
    ParseWarningOptions(options, TRUE,
        [NoParsedOptions EXCEPT !.overrides = Insert(severityTable, baselineSeverityTable)])

SetWarningOptions ==
    /\ Set
    /\ \E options \in OptionLists :
           LET results == WarningOptions(options)
           IN  /\ severityTable' = results.overrides
               /\ flags' = [flags EXCEPT !.ignoreAllWarnings = ~results.enableAll,
                                         !.warningsAsErrors = results.warningsAsErrors]
    /\ UNCHANGED <<baselineSeverityTable, diagMappings, perBufferSeverity, filters>>
    /\ Settled

SetBufferWarningOptions ==
    /\ Set
    /\ \E b \in Buffers, options \in OptionLists :
           perBufferSeverity' = [perBufferSeverity EXCEPT ![b] =
               ParseWarningOptions(options, FALSE,
                   [@ EXCEPT !.overrides = Insert(@, baselineSeverityTable)])]
    /\ UNCHANGED <<severityTable, baselineSeverityTable, flags, diagMappings, filters>>
    /\ Settled

SetMappingsFromPragmas ==
    /\ Set
    /\ \A b \in Buffers : diagMappings[b] = NoMappings
    /\ diagMappings' = [b \in Buffers |-> MappingsFromPragmas(Directives[b], diagMappings[b])]
    /\ UNCHANGED <<severityTable, baselineSeverityTable, flags, perBufferSeverity, filters>>
    /\ Settled

\* clearMappings(), or only the entries with one severity.
ClearMappings ==
    /\ Set
    /\ \E gone \in {Severities} \cup { {s} : s \in Severities } :
           LET Keep(table) == [c \in Codes |-> IF table[c] \in gone THEN Unset ELSE table[c]]
           IN  /\ severityTable' = Keep(severityTable)
               /\ baselineSeverityTable' = Keep(baselineSeverityTable)
    /\ UNCHANGED <<flags, diagMappings, perBufferSeverity, filters>>
    /\ Settled

AddIgnorePaths ==
    /\ Set
    /\ \E b \in Buffers : \/ ignoreWarn' = ignoreWarn \cup {b} /\ UNCHANGED ignoreMacroWarn
                          \/ ignoreMacroWarn' = ignoreMacroWarn \cup {b} /\ UNCHANGED ignoreWarn
    /\ UNCHANGED <<tables, rules>>
    /\ Settled

\* The entries before a bad one stay loaded.
LoadFromFile ==
    /\ Set
    /\ issued = 0
    /\ \E file \in DOMAIN WaiverFiles :
           LET entries == WaiverFiles[file]
               bad == SelectInSeq(entries, LAMBDA e : e = BadEntry)
               good == IF bad = 0 THEN entries ELSE SubSeq(entries, 1, bad - 1)
           IN  /\ rules' = rules \o good
               /\ stats' = stats \o [k \in DOMAIN good |-> NoStats]
    /\ UNCHANGED <<tables, ignoreWarn, ignoreMacroWarn, clients, errorLimit, issued, counters,
                   issuedOverLimitErr, reportedIncludeStack, frames, reported, seen>>

ChangeClients ==
    /\ Set
    /\ \E c \in Clients : \/ clients' = Append(clients, c)
                          \/ clients' = SelectSeq(clients, LAMBDA k : k # c)
                          \/ clients' = <<>>
    /\ UNCHANGED <<tables, filters, errorLimit, issued, outcome>>

\* Drops the clients, and keeps the include stacks and the over-limit flag.
ClearCounts ==
    /\ Set
    /\ numErrors' = 0 /\ numWarnings' = 0 /\ clients' = <<>>
    /\ reported' = [reported EXCEPT !.errors = 0, !.warnings = 0, !.topErrors = 0]
    /\ UNCHANGED <<tables, filters, errorLimit, issued, issuedOverLimitErr, reportedIncludeStack,
                   frames, stats, seen>>

ClearIncludeStack ==
    /\ Set
    /\ reportedIncludeStack' = {}
    /\ UNCHANGED <<tables, filters, clients, errorLimit, issued, counters, issuedOverLimitErr,
                   frames, stats, reported, seen>>
-----------------------------------------------------------------------------
(***************************************************************************)
(* shouldWaive: the rules in order, the first one that matches in scope,   *)
(* diagnostic and line waives.  A rule remembers how far it got.           *)
(***************************************************************************)
ScopeMatches(rule, d) ==
    IF rule.hier THEN Diags[d].path # "" /\ Diags[d].path \in rule.scope
    ELSE Diags[d].buffer \in rule.scope

CodeMatches(rule, d) == rule.codes = {} \/ Diags[d].code \in rule.codes

Waives(rule, d) == ScopeMatches(rule, d) /\ CodeMatches(rule, d) /\ Diags[d].line \in rule.lines

FirstWaiver(d) == SelectInSeq(rules, LAMBDA rule : Waives(rule, d))

NoticedByCode(rule, old, d) ==
    [applied |-> old.applied + (IF Waives(rule, d) THEN 1 ELSE 0),
     scope |-> old.scope \/ (ScopeMatches(rule, d) /\ CodeMatches(rule, d)),
     diagnostic |-> old.diagnostic \/ CodeMatches(rule, d),
     noSymbol |-> old.noSymbol \/ (rule.hier /\ Diags[d].path = "" /\ Diags[d].code \in rule.codes)]

Noticed(rule, old, d) ==
    [applied |-> old.applied + (IF Waives(rule, d) THEN 1 ELSE 0),
     scope |-> old.scope \/ ScopeMatches(rule, d),
     diagnostic |-> old.diagnostic \/ (ScopeMatches(rule, d) /\ CodeMatches(rule, d)),
     noSymbol |-> old.noSymbol \/ (rule.hier /\ Diags[d].path = "" /\ Diags[d].code \in rule.codes)]

NoticedUpTo(d) ==
    LET first == FirstWaiver(d)
    IN  [k \in DOMAIN rules |-> IF first # 0 /\ k > first THEN stats[k]
                                ELSE Noticed(rules[k], stats[k], d)]

\* The reason getSummary gives for a rule that was never applied.
UnusedReason(rule, stat) ==
    CASE ~stat.scope /\ rule.hier /\ stat.noSymbol -> "no symbol"
      [] ~stat.scope /\ ~(rule.hier /\ stat.noSymbol) -> "no scope matched"
      [] stat.scope /\ ~stat.diagnostic -> "diagnostic not seen"
      [] OTHER -> "regex never matched"
-----------------------------------------------------------------------------
SeverityOf(d) ==
    LET b == Diags[d].buffer
        code == Diags[d].code
    IN  IF b = NoBuffer
          THEN GetSeverity(Unset, NoParsedOptions, severityTable, flags, code)
          ELSE GetSeverity(FindMappedSeverity(diagMappings[b], code, Diags[d].offset),
                           perBufferSeverity[b], severityTable, flags, code)

IsError(severity) == severity \in {"error", "fatal"}

OverLimitLate(severity) == IsError(severity) /\ errorLimit # 0 /\ numErrors > errorLimit

OverLimit(severity) == IsError(severity) /\ errorLimit # 0 /\ numErrors >= errorLimit

\* Only what is a warning by default can be hidden by the path of its file,
\* or of the macro it comes from.
Suppressed(d) ==
    /\ DefaultSeverity[Diags[d].code] = "warning"
    /\ Diags[d].buffer \in ignoreWarn \/ Diags[d].macroBuffer \in ignoreMacroWarn

Report(severity) ==
    reported' = [reported EXCEPT
        !.errors = @ + (IF IsError(severity) THEN 1 ELSE 0),
        !.topErrors = @ + (IF IsError(severity) /\ frames = <<>> THEN 1 ELSE 0),
        !.warnings = @ + (IF severity = "warning" THEN 1 ELSE 0),
        !.after = @ + reported.tooMany]

\* What is left of the call that issues notes once the next one is taken.
Rest == IF frames = <<>> THEN <<>>
        ELSE Front(frames) \o <<[Last(frames) EXCEPT !.notes = Tail(@)]>>

\* The diagnostic is dropped: nothing is reported and nothing counted.
Dropped(d) ==
    /\ \/ issuedOverLimitErr
       \/ SeverityOf(d) = "ignored"
    /\ frames' = Rest
    /\ UNCHANGED <<counters, issuedOverLimitErr, reportedIncludeStack, stats, reported, seen>>

\* One error more than the limit: TooManyErrors instead, and the end.
TooManyErrors(d) ==
    /\ ~issuedOverLimitErr
    /\ OverLimit(SeverityOf(d))
    /\ issuedOverLimitErr' = TRUE
    /\ reported' = [reported EXCEPT !.tooMany = @ + 1, !.after = @ + reported.tooMany]
    /\ frames' = Rest
    /\ UNCHANGED <<counters, reportedIncludeStack, stats, seen>>

\* issueImpl, up to the notes: the file counts as shown even when the
\* diagnostic is then suppressed or waived.
IssueImpl(d) ==
    LET severity == SeverityOf(d)
        located == Diags[d].buffer # NoBuffer
    IN  /\ ~issuedOverLimitErr
        /\ severity # "ignored" /\ ~OverLimit(severity)
        /\ reportedIncludeStack' =
               reportedIncludeStack \cup (IF located THEN {Diags[d].buffer} ELSE {})
        /\ IF located /\ Suppressed(d)
             THEN frames' = Rest /\ UNCHANGED <<stats, seen, reported>>
           ELSE IF located
             THEN /\ stats' = NoticedUpTo(d)
                  /\ seen' = seen \cup {d}
                  /\ IF FirstWaiver(d) # 0
                       THEN frames' = Rest /\ UNCHANGED reported
                       ELSE /\ frames' = Append(Rest, [severity |-> severity,
                                                       notes |-> Diags[d].notes])
                            /\ Report(severity)
           ELSE /\ frames' = Append(Rest, [severity |-> severity, notes |-> Diags[d].notes])
                /\ Report(severity)
                /\ UNCHANGED <<stats, seen>>
        /\ UNCHANGED <<counters, issuedOverLimitErr>>

Enter(d) == Dropped(d) \/ TooManyErrors(d) \/ IssueImpl(d)

Issue ==
    /\ frames = <<>>
    /\ issued < MaxIssued /\ issued' = issued + 1
    /\ \E d \in TopDiags : Enter(d)
    /\ UNCHANGED <<tables, filters, clients, errorLimit, settings>>

\* Notes without a location are left out unless their code asks for them.
IssueNote ==
    /\ frames # <<>> /\ Last(frames).notes # <<>>
    /\ LET note == Head(Last(frames).notes)
       IN  IF Diags[note].buffer # NoBuffer \/ Diags[note].showWithNoLocation
             THEN Enter(note)
             ELSE /\ frames' = Rest
                  /\ UNCHANGED <<counters, issuedOverLimitErr, reportedIncludeStack, stats,
                                 reported, seen>>
    /\ UNCHANGED <<tables, filters, clients, errorLimit, settings, issued>>

\* issueImpl returned true.
CountedNotFatal(severity) ==
    /\ numWarnings' = numWarnings + (IF severity = "warning" THEN 1 ELSE 0)
    /\ numErrors' = numErrors + (IF severity = "error" THEN 1 ELSE 0)

Counted(severity) ==
    /\ numWarnings' = numWarnings + (IF severity = "warning" THEN 1 ELSE 0)
    /\ numErrors' = numErrors + (IF IsError(severity) THEN 1 ELSE 0)

EndIssue ==
    /\ frames # <<>> /\ Last(frames).notes = <<>>
    /\ Counted(Last(frames).severity)
    /\ frames' = Front(frames)
    /\ UNCHANGED <<tables, filters, clients, errorLimit, settings, issued, issuedOverLimitErr,
                   reportedIncludeStack, stats, reported, seen>>

Next ==
    \/ SetSeverity \/ SetBaselineSeverity \/ SetFlag \/ SetWarningOptions
    \/ SetBufferWarningOptions \/ SetMappingsFromPragmas \/ ClearMappings \/ AddIgnorePaths
    \/ LoadFromFile \/ ChangeClients \/ ClearCounts \/ ClearIncludeStack
    \/ Issue \/ IssueNote \/ EndIssue

Spec == Init /\ [][Next]_vars
-----------------------------------------------------------------------------
Open(severities) == Cardinality({ k \in DOMAIN frames : frames[k].severity \in severities })

(***************************************************************************)
(* getNumErrors and getNumWarnings are what the clients were told since    *)
(* the last clearCounts, but for the calls that still issue their notes:   *)
(* remapped, waived, suppressed and nested diagnostics included.           *)
(***************************************************************************)
CountsMatch ==
    /\ numErrors + Open({"error", "fatal"}) = reported.errors
    /\ numWarnings + Open({"warning"}) = reported.warnings

(***************************************************************************)
(* Never more top-level errors than the limit, although a diagnostic is    *)
(* counted only after its notes; TooManyErrors is said once, and nothing   *)
(* is said after it, the notes of a diagnostic under way included.         *)
(***************************************************************************)
LimitRespected ==
    /\ errorLimit # 0 => reported.topErrors <= errorLimit
    /\ reported.tooMany = (IF issuedOverLimitErr THEN 1 ELSE 0)
    /\ reported.after = 0

(***************************************************************************)
(* The reason given for an unused waiver is the true one: it follows from  *)
(* the diagnostics that reached the rule, which are the ones no earlier    *)
(* rule waived.                                                            *)
(***************************************************************************)
WaiverReasonsTrue ==
    \A k \in DOMAIN rules :
        LET reached == { d \in seen : \A j \in 1 .. k - 1 : ~Waives(rules[j], d) }
            inScope == { d \in reached : ScopeMatches(rules[k], d) }
            named == { d \in inScope : CodeMatches(rules[k], d) }
        IN  stats[k].applied = 0 =>
                /\ \A d \in reached : ~Waives(rules[k], d)
                /\ UnusedReason(rules[k], stats[k]) =
                     CASE named # {} -> "regex never matched"
                       [] named = {} /\ inScope # {} -> "diagnostic not seen"
                       [] inScope = {} /\ rules[k].hier
                            /\ \E d \in reached : /\ Diags[d].path = ""
                                                  /\ Diags[d].code \in rules[k].codes
                            -> "no symbol"
                       [] OTHER -> "no scope matched"
===============================================================================
