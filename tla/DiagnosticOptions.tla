--------------------------- MODULE DiagnosticOptions ---------------------------
(***************************************************************************)
(* The severity of a diagnostic in slang::DiagnosticEngine: the -W options *)
(* of the command line and of a unit, `pragma diagnostic in the source,    *)
(* and the lookup that combines them.                                      *)
(*                                                                         *)
(* A table of severities is a function on Codes; Unset means no entry.     *)
(* Every code has an option name of its own: the code.                     *)
(***************************************************************************)
EXTENDS Naturals, SequencesExt

CONSTANTS
    Codes,              \* diagnostic codes
    Groups,             \* group -> codes; "default" is a group
    DefaultSeverity     \* code -> severity the code is declared with

Severities == {"ignored", "note", "warning", "error", "fatal"}
Unset == "unset"
Tables == [Codes -> Severities \cup {Unset}]
NoOverrides == [c \in Codes |-> Unset]

ASSUME OptionsOK ==
    /\ "default" \in DOMAIN Groups
    /\ Groups \in [DOMAIN Groups -> SUBSET Codes]
    /\ DOMAIN Groups \cap Codes = {}
    /\ {"push", "pop"} \cap (DOMAIN Groups \cup Codes) = {}
    /\ DefaultSeverity \in [Codes -> Severities]

\* The entries of one table, and where it has none those of the other.
Insert(table, other) == [c \in Codes |-> IF table[c] # Unset THEN table[c] ELSE other[c]]

(***************************************************************************)
(* An option is -W with op and name: -Weverything, -Wnone and -Werror have *)
(* no name; "on" is -Wname, "no-" is -Wno-name.                            *)
(***************************************************************************)
FlagOps == {"everything", "none", "error"}
EnableOps == {"on", "no-", "error="}
ErrorOps == {"error=", "no-error="}

Option(op, name) == [op |-> op, name |-> name]

Unknown(options) ==
    { k \in DOMAIN options : /\ options[k].op \notin FlagOps
                             /\ options[k].name \notin DOMAIN Groups \cup Codes }

Enables(o, names) == o.op \in EnableOps /\ o.name \in names

\* groupErrors and codeErrors: a map, so the last option about a name counts.
ExplicitError(options, name) ==
    LET k == SelectLastInSeq(options, LAMBDA o : o.op \in ErrorOps /\ o.name = name)
    IN  IF k = 0 THEN "none" ELSE options[k].op

NoParsedOptions ==
    [overrides |-> NoOverrides, enableAll |-> FALSE, ignoreAll |-> FALSE,
     warningsAsErrors |-> FALSE]

ParsedFlags(options, results) ==
    LET k == SelectLastInSeq(options, LAMBDA o : o.op \in {"everything", "none"})
    IN  [results EXCEPT !.enableAll = IF k = 0 THEN @ ELSE options[k].op = "everything",
                        !.ignoreAll = IF k = 0 THEN @ ELSE options[k].op = "none",
                        !.warningsAsErrors = @ \/ \E i \in DOMAIN options : options[i].op = "error"]

\* The severity an option that enables or disables a name gives it.
SeverityForKeepsWarning(options, name, set, asErrors) ==
    IF ~set THEN "ignored"
    ELSE IF ExplicitError(options, name) = "error=" THEN "error" ELSE "warning"

SeverityFor(options, name, set, asErrors) ==
    IF ~set THEN "ignored"
    ELSE CASE ExplicitError(options, name) = "error=" -> "error"
           [] ExplicitError(options, name) = "no-error=" -> "warning"
           [] OTHER -> IF asErrors THEN "error" ELSE "warning"

DefaultGroup(options, overrides, asErrors) ==
    Insert(overrides,
           [c \in Codes |-> IF c \in Groups["default"]
                              THEN SeverityFor(options, "default", TRUE, asErrors)
                              ELSE Unset])

\* groupEnables and codeEnables, in order: names are those of each code.
ApplyOption(table, o, names, options, asErrors) ==
    [c \in Codes |-> IF Enables(o, names[c])
                       THEN SeverityFor(options, o.name, o.op # "no-", asErrors)
                       ELSE table[c]]

ApplyNames(names, options, overrides, asErrors) ==
    FoldLeft(LAMBDA table, o : ApplyOption(table, o, names, options, asErrors),
             overrides, options)

GroupsOf(code) == { g \in DOMAIN Groups : code \in Groups[g] }

ApplyGroups(options, overrides, asErrors) ==
    ApplyNames([c \in Codes |-> GroupsOf(c)], options, overrides, asErrors)

\* An error some table asks for that -Wno-error= takes back.
Downgrade(options, overrides) ==
    [c \in Codes |-> IF ExplicitError(options, c) = "no-error=" /\ overrides[c] = "error"
                       THEN "warning" ELSE overrides[c]]

ApplyCodes(options, overrides, asErrors) ==
    ApplyNames([c \in Codes |-> {c}], options, overrides, asErrors)

ParseWarningOptions(options, includeDefault, given) ==
    LET results == ParsedFlags(options, given)
        asErrors == results.warningsAsErrors
        keepDefault == includeDefault /\ ~\E k \in DOMAIN options : options[k].op = "none"
        started == IF keepDefault THEN DefaultGroup(options, results.overrides, asErrors)
                   ELSE results.overrides
        grouped == ApplyGroups(options, started, asErrors)
    IN  [results EXCEPT !.overrides = ApplyCodes(options, Downgrade(options, grouped), asErrors)]
-----------------------------------------------------------------------------
(***************************************************************************)
(* `pragma diagnostic.  A directive is at an offset and pushes, pops or    *)
(* gives the codes of a name a severity.  The mappings of a code in a      *)
(* buffer are the sequence of its settings; Unset: back to the options.    *)
(***************************************************************************)
Named(name) == IF name \in DOMAIN Groups THEN Groups[name] ELSE {name} \cap Codes

Setting(offset, severity) == [offset |-> offset, severity |-> severity]

NoMappings == [c \in Codes |-> <<>>]

\* What a pop goes back to.
RevertedToOptions(stack) == NoOverrides

Reverted(stack) == stack[Len(stack) - 1]

\* One directive: the mappings so far and the stack of the settings made.
ApplyDirective(state, d) ==
    LET top == Last(state.stack)
        note == Named(d.name)
    IN  CASE d.name = "push" -> [state EXCEPT !.stack = Append(@, top)]
          [] d.name = "pop" /\ Len(state.stack) <= 1 -> state
          [] d.name = "pop" /\ Len(state.stack) > 1 ->
                [mappings |-> [c \in Codes |->
                                 IF top[c] = Unset THEN state.mappings[c]
                                 ELSE Append(state.mappings[c], Setting(d.offset, Reverted(state.stack)[c]))],
                 stack |-> Front(state.stack)]
          [] OTHER ->
                [mappings |-> [c \in Codes |->
                                 IF c \in note
                                   THEN Append(state.mappings[c], Setting(d.offset, d.severity))
                                   ELSE state.mappings[c]],
                 stack |-> Front(state.stack)
                           \o <<[c \in Codes |-> IF c \in note THEN d.severity ELSE top[c]]>>]

\* setMappingsFromPragmasImpl for one buffer; a second call appends again.
MappingsFromPragmas(directives, mappings) ==
    FoldLeft(ApplyDirective, [mappings |-> mappings, stack |-> <<NoOverrides>>],
             directives).mappings

\* lower_bound and one back: the last setting strictly before the offset.
FindMappedSeverity(mappings, code, offset) ==
    LET byOffset == Cardinality({ k \in DOMAIN mappings[code] :
                                    mappings[code][k].offset < offset })
    IN  IF byOffset = 0 THEN Unset ELSE mappings[code][byOffset].severity
-----------------------------------------------------------------------------
(***************************************************************************)
(* getSeverity: pragmas, then the options of the unit, then the table of   *)
(* the engine, then the declared severity under the flags of the engine.   *)
(***************************************************************************)
FindPerBufferSeverity(bws, code) ==
    IF bws.overrides[code] # Unset THEN bws.overrides[code]
    ELSE IF DefaultSeverity[code] # "warning" THEN Unset
    ELSE IF bws.ignoreAll THEN "ignored"
    ELSE IF ~bws.enableAll THEN Unset
    ELSE IF bws.warningsAsErrors THEN "error" ELSE "warning"

\* Does -Werror of the unit turn what the engine says into an error?
OverrideWarnAsError(bws, code) ==
    /\ DefaultSeverity[code] = "warning"
    /\ bws.warningsAsErrors

FlaggedSeverity(flags, code, warnAsError) ==
    LET severity == DefaultSeverity[code]
    IN  CASE severity = "note" /\ flags.ignoreAllNotes -> "ignored"
          [] severity = "warning" /\ flags.ignoreAllWarnings -> "ignored"
          [] severity = "warning" /\ ~flags.ignoreAllWarnings
                                  /\ (flags.warningsAsErrors \/ warnAsError) -> "error"
          [] severity = "error" /\ flags.errorsAsFatal -> "fatal"
          [] severity = "fatal" /\ flags.fatalsAsErrors -> "error"
          [] OTHER -> severity

GetSeverity(mapped, bws, table, flags, code) ==
    LET warnAsError == OverrideWarnAsError(bws, code)
    IN  IF mapped # Unset THEN mapped
        ELSE IF FindPerBufferSeverity(bws, code) # Unset THEN FindPerBufferSeverity(bws, code)
        ELSE IF table[code] # Unset
          THEN IF table[code] = "warning" /\ warnAsError THEN "error" ELSE table[code]
        ELSE FlaggedSeverity(flags, code, warnAsError)
===============================================================================
