--------------------------- MODULE MCDiagnosticEngine ---------------------------
(***************************************************************************)
(* Five codes, two files and diagnostics whose notes may be errors too;    *)
(* waiver rules that shadow each other and a file with a bad entry.        *)
(***************************************************************************)
EXTENDS DiagnosticEngine

EngineGroups == [g \in {"default", "grp"} |-> IF g = "default" THEN {"w"} ELSE {"w", "x"}]

EngineSeverity ==
    [c \in Codes |-> CASE c = "e" -> "error" [] c = "f" -> "fatal" [] c = "n" -> "note"
                       [] OTHER -> "warning"]

At(code, buffer, path, line, notes) ==
    [code |-> code, buffer |-> buffer, offset |-> 3, path |-> path, line |-> line,
     notes |-> notes, macroBuffer |-> NoBuffer, showWithNoLocation |-> FALSE]

EngineDiags ==
    [d \in {"d1", "d2", "d3", "d4", "n1", "n2", "n3"} |->
        CASE d = "d1" -> At("e", "b1", "a", "l1", <<"n1">>)
          [] d = "d2" -> At("w", "b1", "", "l1", <<"n2", "n1">>)
          [] d = "d3" -> [At("x", "b2", "b", "l2", <<>>) EXCEPT !.macroBuffer = "b1"]
          [] d = "d4" -> At("f", NoBuffer, "", "l1", <<"n3">>)
          [] d = "n1" -> At("n", "b2", "", "l2", <<"n3">>)
          [] d = "n2" -> At("n", NoBuffer, "", "l1", <<>>)
          [] d = "n3" -> [At("n", NoBuffer, "", "l1", <<>>) EXCEPT !.showWithNoLocation = TRUE]]

EngineDirectives ==
    [b \in Buffers |->
        IF b = "b2" THEN <<>>
        ELSE << [offset |-> 0, name |-> "push", severity |-> Unset],
                [offset |-> 1, name |-> "grp", severity |-> "error"],
                [offset |-> 3, name |-> "pop", severity |-> Unset] >>]

EngineOptions ==
    { <<Option("error", "")>>,
      <<Option("everything", ""), Option("no-", "w")>>,
      <<Option("none", ""), Option("error=", "x")>> }

EngineSeverityCalls == { <<"n", "error">>, <<"e", "warning">>, <<"w", "fatal">> }

Rule(hier, scope, codes, lines) == [hier |-> hier, scope |-> scope, codes |-> codes, lines |-> lines]

EngineWaivers ==
    [f \in {"f1", "f2"} |->
        IF f = "f1"
          THEN << Rule(FALSE, {"b1"}, {"w"}, {"l2"}), Rule(TRUE, {"b"}, {"w", "n"}, {"l1", "l2"}),
                  Rule(FALSE, {"b2"}, {}, {"l2"}), Rule(FALSE, {"b2"}, {"n"}, {"l2"}) >>
          ELSE << Rule(TRUE, {"a"}, {}, {"l1"}), BadEntry, Rule(FALSE, {"b1"}, {}, {"l1"}) >>]
-----------------------------------------------------------------------------
CONSTANTS
    MaxOptions,         \* bound: -W options of a command line
    MaxDirectives       \* bound: `pragma diagnostic directives of a file

ASSUME ListsOK ==
    /\ MaxOptions \in Nat /\ MaxDirectives \in Nat
    /\ \A code \in {"w", "x"} : code \in Codes /\ DefaultSeverity[code] = "warning"

SomeOptions ==
    [op : FlagOps, name : {""}]
        \cup [op : EnableOps \cup ErrorOps, name : {"grp", "w", "x"}]

\* What is about the options and the pragmas alone is looked at in a new engine.
Untouched == settings = 0 /\ issued = 0

CommandLines == UNION { [1 .. n -> SomeOptions] : n \in 0 .. MaxOptions }

\* The severity of a warning when nothing but the command line controls it.
CommandLineSeverity(options, code) ==
    LET results == ParseWarningOptions(options, TRUE, NoParsedOptions)
    IN  GetSeverity(Unset, NoParsedOptions, results.overrides,
                    [f \in FlagNames |->
                        CASE f = "ignoreAllWarnings" -> ~results.enableAll
                          [] f = "warningsAsErrors" -> results.warningsAsErrors
                          [] OTHER -> FALSE],
                    code)

\* The operation of the last option about one of the names.
LastOp(options, ops, names) ==
    LET k == SelectLastInSeq(options, LAMBDA o : o.op \in ops /\ o.name \in names)
    IN  IF k = 0 THEN "none given" ELSE options[k].op

EnabledBy(options, code) ==
    LET own == LastOp(options, EnableOps, {code})
        group == LastOp(options, EnableOps, GroupsOf(code))
        all == LastOp(options, {"everything", "none"}, {""})
    IN  CASE own # "none given" -> own # "no-"
          [] own = "none given" /\ group # "none given" -> group # "no-"
          [] OTHER -> all = "everything" \/ (all = "none given" /\ code \in Groups["default"])

FollowsManual(options, code) ==
    LET severity == CommandLineSeverity(options, code)
    IN  /\ (severity # "ignored") = EnabledBy(options, code)
        /\ severity # "ignored" =>
             CASE LastOp(options, ErrorOps, {code}) = "error=" -> severity = "error"
               [] LastOp(options, ErrorOps, {code} \cup GroupsOf(code)) = "none given" ->
                    severity = IF \E k \in DOMAIN options : options[k].op = "error"
                                 THEN "error" ELSE "warning"
               [] OTHER -> TRUE

(***************************************************************************)
(* The -W options mean what the manual says, in any order: the last option *)
(* about a warning counts, one about the warning itself before one about a *)
(* group, -Weverything and -Wnone only where there is no other; -Werror is *)
(* for the warnings that are enabled.  Left out is what -Wno-error= and a  *)
(* -Werror= for the group of an enabled warning do to each other.          *)
(***************************************************************************)
OptionsFollowManual ==
    Untouched => \A options \in CommandLines, code \in {"w", "x"} : FollowsManual(options, code)

SomeDirectives(k) ==
    { [offset |-> 2 * k, name |-> "push", severity |-> Unset],
      [offset |-> 2 * k, name |-> "pop", severity |-> Unset],
      [offset |-> 2 * k, name |-> "grp", severity |-> "error"],
      [offset |-> 2 * k, name |-> "w", severity |-> "ignored"],
      [offset |-> 2 * k, name |-> "nothing", severity |-> "ignored"] }

DirectiveLists ==
    UNION { { d \in [1 .. n -> UNION { SomeDirectives(k) : k \in 1 .. n }] :
                \A k \in 1 .. n : d[k].offset = 2 * k } : n \in 0 .. MaxDirectives }

Count(directives, name, i, j) == Cardinality({ k \in i .. j : directives[k].name = name })

\* The pushes of the first n directives that are not popped there.
OpenPushes(directives, n) ==
    { i \in 1 .. n : /\ directives[i].name = "push"
                     /\ \A m \in i .. n : Count(directives, "push", i, m)
                                              > Count(directives, "pop", i, m) }

\* The push a pop belongs to, 0 if there is none.
PushOf(directives, k) ==
    LET open == OpenPushes(directives, k - 1)
    IN  IF open = {} THEN 0 ELSE Max(open)

\* What is between a push and its pop.
Closed(directives, before) ==
    UNION { PushOf(directives, k) .. k :
              k \in { p \in before : directives[p].name = "pop" /\ PushOf(directives, p) # 0 } }

Counting(directives, before, code) ==
    { k \in before \ Closed(directives, before) : code \in Named(directives[k].name) }

LastCounting(directives, before, code) ==
    LET counting == Counting(directives, before, code)
    IN  IF counting = {} THEN Unset ELSE directives[Max(counting)].severity

PragmaCounts(directives, code, offset) ==
    FindMappedSeverity(MappingsFromPragmas(directives, NoMappings), code, offset) =
        LastCounting(directives, { k \in DOMAIN directives : directives[k].offset < offset }, code)

(***************************************************************************)
(* `pragma diagnostic at any place of a file: the last setting before it   *)
(* counts that is not between a push and its pop, however they nest, with  *)
(* pops that have no push.                                                 *)
(***************************************************************************)
PragmasNest ==
    Untouched => \A directives \in DirectiveLists, code \in {"w", "x"} :
        \A offset \in 1 .. 2 * Len(directives) + 1 : PragmaCounts(directives, code, offset)
===============================================================================
