---------------------------- MODULE MCPreprocessor ----------------------------
(***************************************************************************)
(* Every main file up to a length, over headers with and without guards, a *)
(* file that includes itself, one that ends a branch it did not begin, and *)
(* macros that include.  Other instances are the programs of a finding.    *)
(***************************************************************************)
EXTENDS Preprocessor

CONSTANT MaxMain    \* bound: items of the main file

I(kind, name) == [kind |-> kind, name |-> name]
D(name, body) == [kind |-> "define", name |-> name, body |-> body]
Tok == [kind |-> "token"]

\* M includes a header in the middle of its expansion and uses N before its
\* last items; N uses itself, P is from the command line, B is built in.
MBody == <<I("include", "guarded"), I("use", "P"), I("use", "N"), I("ifdef", "A"), Tok, I("endif", "A")>>
NBody == <<I("use", "P"), I("use", "N")>>

Headers ==
    [f \in Files |->
        CASE f = "guarded" -> << I("ifndef", "G"), D("G", <<>>), I("include", "once"), Tok,
                                 I("ifdef", "A"), I("include", "none"), I("else", "A"), Tok,
                                 I("endif", "A"), I("endif", "G") >>
          [] f = "loose" -> << I("ifndef", "A"), D("A", OneToken), I("endif", "A"), Tok >>
          [] f = "once" -> << I("once", ""), I("begin_keywords", "v1"), Tok,
                              I("end_keywords", "v1") >>
          [] f = "self" -> << I("ifdef", "A"), I("include", "self"), I("endif", "A"),
                              I("include", "self") >>
          [] f = "open" -> << I("ifdef", "M"), Tok >>
          [] f = "close" -> << I("ifndef", "B"), D("H", <<>>), I("endif", "B"), I("undef", "A"),
                                I("end_keywords", "v1"), I("endif", "A") >>
          [] f = "mapped" -> << I("begin_keywords", "v1"), I("include", "loose"),
                                I("end_keywords", "v1"), I("begin_keywords", NoVersion), D("N", NBody), D("B", <<>>), I("undef", "B"),
                                D("P", <<>>), I("undefineall", ""), I("include", "loose") >>
          [] OTHER -> <<>>]

MainItems ==
    { I("ifdef", "A"), I("elsif", "G"), I("else", "A"), I("endif", "A"),
      D("A", <<>>), D("M", MBody), I("use", "M"), I("include", "guarded"), I("include", "self"),
      I("include", "open"), I("include", "close"), I("include", "mapped") }

MainPrograms ==
    { [text |-> [Headers EXCEPT !["main"] = items], sources |-> <<"main">>] :
        items \in UNION { [1 .. n -> MainItems] : n \in 0 .. MaxMain } }

\* Two unmapped files and a mapped one in one unit.
UnitPrograms ==
    { [text |-> [Headers EXCEPT !["main"] = OneToken], sources |-> <<"main", "open", "mapped">>] }

\* A macro that defines a macro and uses it.
NestedBody == <<D("N", OneToken), I("use", "N"), Tok>>

NestedPrograms ==
    { [text |-> [Headers EXCEPT !["main"] = <<D("M", NestedBody), I("use", "M")>>],
       sources |-> <<"main">>] }

\* What the proofs ask of programs: they are sequences of items, no guard of
\* theirs has an `else, and only the unit above has unmapped files in a row
\* after a mapped one.
AllItems ==
    MainItems \cup UNION { Range(Headers[f]) : f \in Files }
        \cup Range(MBody) \cup Range(NBody) \cup Range(NestedBody) \cup {D("M", NestedBody)}

ASSUME Items == MadeOf(AllItems)

ASSUME NoElse == GuardsHaveNoElse

ASSUME Units == SourcesPopTheirOwn \/ Programs = UnitPrograms

Versions == [f \in Files |-> IF f = "mapped" THEN "v0" ELSE NoVersion]
===============================================================================
