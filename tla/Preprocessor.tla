------------------------------ MODULE Preprocessor ------------------------------
(***************************************************************************)
(* slang::parsing::Preprocessor: the stack of source files, conditional    *)
(* directives, macros and their expansions, header guards and keyword      *)
(* versions.  A file is a sequence of items: a token, or a directive with  *)
(* the name it is about; expansion turns a macro into the items of its     *)
(* body.  A step takes one item.                                           *)
(*                                                                         *)
(* text          the items of every file                                   *)
(* lexers        lexerStack; begun counts the `begin_keywords open in it   *)
(* expanded      the rest of the expansion being played; owner is the      *)
(*               height of lexers where the macro was used                 *)
(* frames        pendingMacroFrames, expansions paused by an `include      *)
(* branches      branchStack                                               *)
(* skipping      a branch is skipped; nested is nestedDepth                *)
(* guards        headerGuardStack                                          *)
(* includeOnce   includeOnceHeaders: the guard of a file                   *)
(* nesting       a history variable: the conditional directives met so     *)
(*               far, skipped ones too, and whether their text counts      *)
(***************************************************************************)
EXTENDS Naturals, SequencesExt

CONSTANTS
    Files,              \* files that can be read
    Names,              \* macro names
    Programs,           \* choices of [text, sources]: sources are parsed as one unit
    Predefined,         \* macros given on the command line
    BuiltIn,            \* macros the preprocessor defines itself
    MaxIncludeDepth,
    KeywordVersion,     \* file -> version it is mapped to, or NoVersion
    NoVersion,          \* no version, or one that is not known
    DefaultVersion,
    NoMacro, Never, Always

Undefined == [origin |-> "none", body |-> <<>>]

ASSUME PreprocessorOK ==
    /\ MaxIncludeDepth \in Nat
    /\ IsFiniteSet(Names)
    /\ Predefined \cap BuiltIn = {}
    /\ {NoMacro, Never, Always} \cap Names = {}
    /\ \A program \in Programs : program.sources \in Seq(Files)

VARIABLES
    text, lexers, expanded, owner, frames, includeDepth, branches, skipping, nested,
    guards, includeOnce, macros, keywords, diags, nesting

macroVars == <<expanded, owner, frames>>
sourceVars == <<lexers, includeDepth, guards, includeOnce, keywords>>
branchVars == <<branches, skipping, nested, nesting>>
vars == <<text, sourceVars, macroVars, branchVars, macros, diags>>
-----------------------------------------------------------------------------
\* Keyword versions: a mapped file brings its own, an unmapped one inside a
\* mapped one goes back to what was there before the mapping.
Keyword(version, source) == [version |-> version, source |-> source]

PushKeywords(stack, file) ==
    IF KeywordVersion[file] # NoVersion
      THEN Append(stack, Keyword(KeywordVersion[file], "mapping"))
    ELSE IF Last(stack).source = "mapping"
      THEN LET k == SelectLastInSeq(stack, LAMBDA e : e.source # "mapping")
           IN  Append(stack, Keyword(stack[k].version, "restored"))
    ELSE stack

PopKeywordsMappingOnly(stack) == IF Last(stack).source = "mapping" THEN Front(stack) ELSE stack

PopKeywords(stack) == IF Last(stack).source # "directive" THEN Front(stack) ELSE stack

NewGuard(depth) ==
    [state |-> "ifndef", ifndef |-> NoMacro, define |-> NoMacro, depth |-> depth]

Lexer(file, included) == [file |-> file, pos |-> 1, included |-> included, begun |-> 0]

OneToken == <<[kind |-> "token"]>>

BaseMacros ==
    [m \in Names |-> CASE m \in BuiltIn -> [origin |-> "builtIn", body |-> OneToken]
                       [] m \in Predefined -> [origin |-> "commandLine", body |-> OneToken]
                       [] OTHER -> Undefined]

\* All sources of a unit are pushed at once, the first one last.
Init ==
    /\ \E program \in Programs :
           LET sources == Reverse(program.sources)
           IN  /\ text = program.text
               /\ lexers = [k \in DOMAIN sources |-> Lexer(sources[k], FALSE)]
               /\ guards = [k \in DOMAIN sources |-> NewGuard(0)]
               /\ keywords = FoldLeft(PushKeywords, <<Keyword(DefaultVersion, "directive")>>,
                                      sources)
    /\ expanded = <<>> /\ owner = 0 /\ frames = <<>>
    /\ includeDepth = 0
    /\ branches = <<>> /\ skipping = FALSE /\ nested = 0 /\ nesting = <<>>
    /\ includeOnce = [f \in Files |-> Never]
    /\ macros = BaseMacros
    /\ diags = {}
-----------------------------------------------------------------------------
Depth == Len(lexers)
Top == Last(lexers)

AtEnd == expanded = <<>> /\ lexers # <<>> /\ Top.pos > Len(text[Top.file])
HasItem == lexers # <<>> /\ ~AtEnd

\* nextRaw: an expansion is played before the file goes on.
Item == IF expanded # <<>> THEN Head(expanded) ELSE text[Top.file][Top.pos]

Rest == IF expanded # <<>> THEN Tail(expanded) ELSE <<>>
Advanced == IF expanded # <<>> THEN lexers
            ELSE [lexers EXCEPT ![Depth].pos = @ + 1]

Handles(kinds) == HasItem /\ ~skipping /\ Item.kind \in kinds

IsDefined(m) == m \in Names /\ macros[m].origin # "none"

Report(codes) == diags' = diags \cup codes

\* A token, or a directive that is not the next one of the idiom, ends the
\* search for a header guard in this file.
Cancels(state, kind) ==
    \/ state = "ifndef" /\ kind # "ifndef"
    \/ state = "define" /\ kind # "define"
    \/ state = "eof"

WithGuard(stack, guard) == Front(stack) \o <<guard>>

Checked(kind) ==
    IF Cancels(Last(guards).state, kind)
      THEN WithGuard(guards, [Last(guards) EXCEPT !.state = "cancelled"])
      ELSE guards

\* What an item changes that is only taken from its source.
Take == lexers' = Advanced /\ expanded' = Rest /\ UNCHANGED <<text, owner, frames>>
-----------------------------------------------------------------------------
Token ==
    /\ Handles({"token"})
    /\ Take
    /\ guards' = Checked("token")
    /\ UNCHANGED <<includeDepth, includeOnce, keywords, branchVars, macros, diags>>

(***************************************************************************)
(* Conditional directives.                                                 *)
(***************************************************************************)
Conditionals == {"ifdef", "ifndef", "elsif", "else", "endif"}

\* What conditional directives mean, whether or not they are skipped.
FollowIn(nest, item) ==
    LET last == Last(nest)
        holds == IF item.kind = "else" THEN TRUE
                 ELSE IsDefined(item.name) # (item.kind = "ifndef")
    IN  CASE item.kind \in {"ifdef", "ifndef"} -> Append(nest, [on |-> holds, done |-> holds])
          [] item.kind \in {"elsif", "else"} /\ nest # <<>> ->
                Front(nest) \o <<[on |-> ~last.done /\ holds, done |-> last.done \/ holds]>>
          [] item.kind = "endif" /\ nest # <<>> -> Front(nest)
          [] OTHER -> nest

Follow(item) == FollowIn(nesting, item)

Active == branches = <<>> \/ Last(branches).currentActive

Branch(taken) == [anyTaken |-> taken, currentActive |-> taken, hasElse |-> FALSE]

\* parseBranchDirective: unless the branch is taken, skip to its sibling.
TakeBranch(taken) == skipping' = ~taken /\ nested' = 0 /\ nesting' = Follow(Item)

IfDef ==
    /\ Handles({"ifdef", "ifndef"})
    /\ Take
    /\ LET inverted == Item.kind = "ifndef"
           taken == Active /\ (IsDefined(Item.name) # inverted)
           seen == Checked(Item.kind)
           guard == Last(seen)
       IN  /\ branches' = Append(branches, Branch(taken))
           /\ TakeBranch(taken)
           /\ guards' =
                IF inverted /\ guard.state = "ifndef" /\ Len(branches) = guard.depth
                  THEN WithGuard(seen, [guard EXCEPT !.state = "define", !.ifndef = Item.name])
                  ELSE seen
    /\ UNCHANGED <<includeDepth, includeOnce, keywords, macros, diags>>

\* `elsif and `else; out of place they are an error and change nothing.
ShouldTakeElseIgnoresTaken(branch, parentActive, holds) == parentActive /\ holds

ShouldTakeElse(branch, parentActive, holds) == ~branch.anyTaken /\ parentActive /\ holds

ElseBranch ==
    /\ Handles({"elsif", "else"})
    /\ Take
    /\ guards' = Checked(Item.kind)
    /\ IF branches = <<>> \/ Last(branches).hasElse
         THEN /\ Report({"UnexpectedConditionalDirective"})
              /\ TakeBranch(TRUE)
              /\ UNCHANGED branches
         ELSE LET branch == Last(branches)
                  parent == Len(branches) = 1 \/ branches[Len(branches) - 1].currentActive
                  taken == ShouldTakeElse(branch, parent,
                                          Item.kind = "else" \/ IsDefined(Item.name))
              IN  /\ branches' = Front(branches) \o
                         <<[anyTaken |-> branch.anyTaken \/ taken, currentActive |-> taken,
                            hasElse |-> Item.kind = "else"]>>
                  /\ TakeBranch(taken)
                  /\ UNCHANGED diags
    /\ UNCHANGED <<includeDepth, includeOnce, keywords, macros>>

EndIf ==
    /\ Handles({"endif"})
    /\ Take
    /\ IF branches = <<>>
         THEN /\ Report({"UnexpectedConditionalDirective"})
              /\ guards' = Checked("endif")
              /\ TakeBranch(TRUE)
              /\ UNCHANGED branches
         ELSE LET left == Front(branches)
                  seen == Checked("endif")
                  guard == Last(seen)
              IN  /\ branches' = left
                  /\ TakeBranch(left = <<>> \/ Last(left).currentActive)
                  /\ guards' = IF guard.state = "endif" /\ Len(left) = guard.depth
                                 THEN WithGuard(seen, [guard EXCEPT !.state = "eof"])
                                 ELSE seen
                  /\ UNCHANGED diags
    /\ UNCHANGED <<includeDepth, includeOnce, keywords, macros>>

\* A sibling directive ends the skipping and is looked at again.
StopsSkipping(kind) == nested = 0 /\ kind \in {"endif", "else", "elsif"}

PutBackKeepsSkipping == UNCHANGED <<skipping, nested, nesting, lexers, macroVars>>

PutBack == skipping' = FALSE /\ UNCHANGED <<nested, nesting, lexers, macroVars>>

Skip ==
    /\ HasItem /\ skipping
    /\ IF StopsSkipping(Item.kind)
         THEN PutBack
         ELSE /\ nested' = CASE Item.kind \in {"ifdef", "ifndef"} -> nested + 1
                             [] Item.kind = "endif" /\ nested > 0 -> nested - 1
                             [] OTHER -> nested
              /\ nesting' = Follow(Item)
              /\ lexers' = Advanced /\ expanded' = Rest
              /\ UNCHANGED <<skipping, owner, frames>>
    /\ UNCHANGED <<text, branches, includeDepth, guards, includeOnce, keywords, macros, diags>>
-----------------------------------------------------------------------------
(***************************************************************************)
(* Macros.  What the command line defines stays; what is built in cannot   *)
(* be defined or undefined.                                                *)
(***************************************************************************)
Define ==
    /\ Handles({"define"})
    /\ Take
    /\ LET name == Item.name
           origin == macros[name].origin
           new == [origin |-> "source", body |-> Item.body]
           seen == Checked("define")
           guard == Last(seen)
       IN  /\ guards' = IF guard.state = "define" /\ Len(branches) = guard.depth + 1
                          THEN WithGuard(seen, [guard EXCEPT !.state = "endif", !.define = name])
                          ELSE seen
           /\ macros' = IF origin \in {"builtIn", "commandLine"} THEN macros
                        ELSE [macros EXCEPT ![name] = new]
           /\ Report(CASE origin = "builtIn" -> {"InvalidMacroName"}
                       [] origin = "source" /\ macros[name] # new -> {"RedefiningMacro"}
                       [] OTHER -> {})
    /\ UNCHANGED <<includeDepth, includeOnce, keywords, branchVars>>

Undef ==
    /\ Handles({"undef"})
    /\ Take
    /\ guards' = Checked("undef")
    /\ IF macros[Item.name].origin = "builtIn"
         THEN Report({"UndefineBuiltinDirective"}) /\ UNCHANGED macros
         ELSE macros' = [macros EXCEPT ![Item.name] = Undefined] /\ UNCHANGED diags
    /\ UNCHANGED <<includeDepth, includeOnce, keywords, branchVars>>

UndefineAll ==
    /\ Handles({"undefineall"})
    /\ Take
    /\ guards' = Checked("undefineall")
    /\ macros' = BaseMacros
    /\ UNCHANGED <<includeDepth, includeOnce, keywords, branchVars, diags>>

Used(m) == { n \in Names : /\ IsDefined(n)
                           /\ \E k \in DOMAIN macros[m].body :
                                  macros[m].body[k].kind = "use" /\ macros[m].body[k].name = n }

\* The macros an expansion of the given ones meets: the least set closed under use.
Met(ms) ==
    { n \in Names : \A set \in SUBSET Names :
                        (ms \subseteq set /\ \A u \in set : Used(u) \subseteq set) => n \in set }

IsRecursive(m) == \E n \in Met({m}) : n \in Met(Used(n))

Replacement(item) ==
    IF item.kind = "use" /\ IsDefined(item.name) THEN macros[item.name].body ELSE <<item>>

ExpandOnce(items) ==
    CHOOSE result \in { FlattenSeq([k \in DOMAIN list |-> Replacement(list[k])]) : list \in {items} } : TRUE

\* Macros inside macros are expanded before the first item is played; a
\* name that is not defined yet stays as it is.
ExpandReplacementListLater(m) == macros[m].body

ExpandReplacementList(m) ==
    FoldLeft(LAMBDA items, k : ExpandOnce(items), macros[m].body,
             [k \in 1 .. Cardinality(Names) |-> k])

\* The expansion replaces whatever is left of another one.
MacroUsage ==
    /\ Handles({"use"})
    /\ guards' = Checked("use")
    /\ lexers' = Advanced
    /\ IF ~IsDefined(Item.name)
         THEN expanded' = Rest /\ Report({"UnknownDirective"}) /\ UNCHANGED owner
       ELSE IF IsRecursive(Item.name)
         THEN expanded' = Rest /\ Report({"RecursiveMacro"}) /\ UNCHANGED owner
         ELSE /\ expanded' = ExpandReplacementList(Item.name)
              /\ owner' = Depth
              /\ UNCHANGED diags
    /\ UNCHANGED <<text, frames, includeDepth, includeOnce, keywords, branchVars, macros>>
-----------------------------------------------------------------------------
(***************************************************************************)
(* Files.  A file is skipped once it is known to be included only once.    *)
(***************************************************************************)
IncludedOnce(file) ==
    \/ includeOnce[file] = Always
    \/ includeOnce[file] \in Names /\ IsDefined(includeOnce[file])

\* The height of the lexers, the new one included, to which a paused
\* expansion belongs.
FrameDepthCurrent(height) == height

FrameDepth(height) == height - 1

PushSource(file) ==
    /\ lexers' = Append(Advanced, Lexer(file, TRUE))
    /\ guards' = Append(Checked("include"), NewGuard(Len(branches)))
    /\ keywords' = PushKeywords(keywords, file)
    /\ frames' = IF Rest = <<>> THEN frames
                 ELSE Append(frames, [items |-> Rest, owner |-> owner,
                                      lexerDepth |-> FrameDepth(Depth + 1)])
    /\ expanded' = <<>>
    /\ UNCHANGED <<text, owner, includeOnce, branchVars, macros>>

Include ==
    /\ Handles({"include"})
    /\ IF includeDepth < MaxIncludeDepth /\ Item.name \in Files /\ ~IncludedOnce(Item.name)
         THEN /\ PushSource(Item.name)
              /\ includeDepth' = includeDepth + 1
              /\ UNCHANGED diags
         ELSE /\ Take
              /\ guards' = Checked("include")
              /\ Report(CASE includeDepth >= MaxIncludeDepth -> {"ExceededMaxIncludeDepth"}
                          [] includeDepth < MaxIncludeDepth /\ Item.name \notin Files ->
                                {"CouldNotOpenIncludeFile"}
                          [] OTHER -> {})
              /\ UNCHANGED <<includeDepth, includeOnce, keywords, branchVars, macros>>

\* `pragma once; in an expansion there is no file to remember.
Once ==
    /\ Handles({"once"})
    /\ Take
    /\ guards' = Checked("once")
    /\ includeOnce' = IF expanded = <<>> /\ includeOnce[Top.file] = Never
                        THEN [includeOnce EXCEPT ![Top.file] = Always] ELSE includeOnce
    /\ UNCHANGED <<includeDepth, keywords, branchVars, macros, diags>>

\* A version that getKeywordVersion does not know begins nothing.
BeginKeywords ==
    /\ Handles({"begin_keywords"})
    /\ guards' = Checked("begin_keywords")
    /\ IF Item.name = NoVersion
         THEN /\ Take
              /\ Report({"UnrecognizedKeywordVersion"})
              /\ UNCHANGED keywords
         ELSE /\ lexers' = [Advanced EXCEPT ![Depth].begun = @ + 1]
              /\ keywords' = Append(keywords, Keyword(Item.name, "directive"))
              /\ expanded' = Rest
              /\ UNCHANGED <<text, owner, frames, diags>>
    /\ UNCHANGED <<includeDepth, includeOnce, branchVars, macros>>

\* The last entry of a directive goes, unless it is the default at the bottom.
EndKeywords ==
    /\ Handles({"end_keywords"})
    /\ LET k == SelectLastInSeq(keywords, LAMBDA e : e.source = "directive")
       IN  IF k = 1
             THEN Report({"MismatchedEndKeywordsDirective"}) /\ UNCHANGED keywords
             ELSE keywords' = RemoveAt(keywords, k) /\ UNCHANGED diags
    /\ lexers' = [Advanced EXCEPT ![Depth].begun = IF @ > 0 THEN @ - 1 ELSE 0]
    /\ guards' = Checked("end_keywords")
    /\ expanded' = Rest
    /\ UNCHANGED <<text, owner, frames, includeDepth, includeOnce, branchVars, macros>>

\* The macro that guards a whole file, when the file has ended.
GuardOfUnclosed(guard) ==
    IF guard.ifndef = guard.define THEN guard.ifndef ELSE NoMacro

GuardOf(guard) ==
    IF guard.state = "eof" /\ guard.ifndef = guard.define THEN guard.ifndef ELSE NoMacro

\* popSource
EndOfFile ==
    /\ AtEnd
    /\ LET guard == Last(guards)
           left == Front(lexers)
           resumes == frames # <<>> /\ Len(left) = Last(frames).lexerDepth
       IN  /\ includeDepth' = IF includeDepth > 0 THEN includeDepth - 1 ELSE 0
           /\ keywords' = PopKeywords(keywords)
           /\ includeOnce' = IF GuardOf(guard) # NoMacro /\ includeOnce[Top.file] = Never
                               THEN [includeOnce EXCEPT ![Top.file] = GuardOf(guard)]
                               ELSE includeOnce
           /\ guards' = Front(guards)
           /\ lexers' = left
           /\ IF resumes
                THEN /\ expanded' = Last(frames).items
                     /\ owner' = Last(frames).owner
                     /\ frames' = Front(frames)
                ELSE UNCHANGED macroVars
           /\ skipping' = (skipping /\ left # <<>>)
           /\ Report((IF guard.state = "eof" /\ guard.ifndef # guard.define
                        THEN {"HeaderGuardMismatch"} ELSE {})
                     \cup (IF left = <<>> /\ branches # <<>>
                             THEN {"MissingEndIfDirective"} ELSE {}))
    /\ UNCHANGED <<text, branches, nested, nesting, macros>>

Next ==
    \/ Token \/ IfDef \/ ElseBranch \/ EndIf \/ Skip
    \/ Define \/ Undef \/ UndefineAll \/ MacroUsage
    \/ Include \/ Once \/ BeginKeywords \/ EndKeywords \/ EndOfFile

Spec == Init /\ [][Next]_vars

(***************************************************************************)
(* The parser asks for tokens until it gets the end of the last file.      *)
(***************************************************************************)
FairSpec == Spec /\ WF_vars(Next)
-----------------------------------------------------------------------------
(***************************************************************************)
(* The include depth is the number of files that were included, at most    *)
(* the limit, whichever way the files end; every file has its header guard *)
(* state; a paused expansion goes on in the file where the macro was used, *)
(* and is never played in another one.                                     *)
(***************************************************************************)
StacksAligned ==
    /\ includeDepth = Cardinality({ k \in DOMAIN lexers : lexers[k].included })
    /\ includeDepth <= MaxIncludeDepth
    /\ Len(guards) = Len(lexers)
    /\ expanded # <<>> => owner = Depth
    /\ \A k \in DOMAIN frames : /\ frames[k].lexerDepth = frames[k].owner
                                /\ frames[k].owner < Depth
                                /\ k > 1 => frames[k - 1].owner < frames[k].owner

(***************************************************************************)
(* Text reaches the parser exactly when every branch around it is the      *)
(* first of its chain whose condition held, across the files and the       *)
(* expansions in which branches begin and end, as long as no conditional   *)
(* directive was out of place.                                             *)
(***************************************************************************)
TextIsLive ==
    HasItem /\ Item.kind \notin {"ifdef", "ifndef", "elsif", "else", "endif"}
            /\ "UnexpectedConditionalDirective" \notin diags
        => skipping = \E k \in DOMAIN nesting : ~nesting[k].on

\* An item is live if no branch around it is off; so is one that closes a
\* branch of another file.
Reads(state, item) ==
    [nest |-> FollowIn(state.nest, item),
     live |-> \/ state.live
              \/ item.kind \notin Conditionals /\ \A k \in DOMAIN state.nest : state.nest[k].on
              \/ item.kind \in {"elsif", "else", "endif"} /\ state.nest = <<>>]

\* Is an item of the file live under the macros of now?
LiveIn(file) == FoldLeft(Reads, [nest |-> <<>>, live |-> FALSE], text[file]).live

(***************************************************************************)
(* A file that an `include skips for its header guard would have added     *)
(* nothing: no text, no macro, no file.                                    *)
(***************************************************************************)
SkipsNothingLive ==
    \A f \in Files : includeOnce[f] \in Names /\ IsDefined(includeOnce[f]) => ~LiveIn(f)

Opened(items, n) == Cardinality({ k \in 1 .. n : items[k].kind \in {"ifdef", "ifndef"} })
Closed(items, n) == Cardinality({ k \in 1 .. n : items[k].kind = "endif" })

\* The whole text is one `ifndef that begins with a `define.
IsGuarded(items) ==
    /\ Len(items) > 2
    /\ items[1].kind = "ifndef" /\ items[2].kind = "define" /\ items[1].name = items[2].name
    /\ \A n \in 1 .. Len(items) - 1 : Opened(items, n) > Closed(items, n)
    /\ Opened(items, Len(items)) = Closed(items, Len(items))

\* The items of the programs, those in the bodies of their macros included.
MadeOf(items) ==
    /\ [kind |-> "token"] \in items
    /\ \A item \in items : item.kind = "define" => item.body \in Seq(items)
    /\ \A program \in Programs, file \in Files : program.text[file] \in Seq(items)

(***************************************************************************)
(* What skipping a file relies on.  The code does not ask for it: it takes *)
(* a file with an `else or `elsif of its guard for a guarded one too.      *)
(***************************************************************************)
GuardsHaveNoElse ==
    \A program \in Programs, file \in Files :
        LET items == program.text[file]
        IN  IsGuarded(items) =>
              \A n \in DOMAIN items : items[n].kind \in {"elsif", "else"} =>
                  Opened(items, n) # Closed(items, n) + 1

(***************************************************************************)
(* Inside of a guard, branches do not come from macros, and a file that is *)
(* included ends in the branch in which it began, which is not skipped.    *)
(***************************************************************************)
BranchesStayInside ==
    /\ HasItem /\ Last(guards).state = "endif" /\ expanded # <<>>
         => Item.kind \notin Conditionals
    /\ AtEnd /\ (\E k \in 1 .. Depth - 1 : guards[k].state = "endif")
         => ~skipping /\ Active /\ Len(branches) = Last(guards).depth

(***************************************************************************)
(* A file is read with the keywords of its mapping, if it has one and has  *)
(* not begun others itself, else with those of the last `begin_keywords.   *)
(***************************************************************************)
KeywordsScoped ==
    lexers # <<>> =>
        LET directive == SelectLastInSeq(keywords, LAMBDA e : e.source = "directive")
            mapped == KeywordVersion[Top.file] # NoVersion /\ Top.begun = 0
        IN  Last(keywords).version =
                IF mapped THEN KeywordVersion[Top.file] ELSE keywords[directive].version

Unmapped(file) == KeywordVersion[file] = NoVersion

(***************************************************************************)
(* What it relies on.  A file ends the keywords it began, and no others    *)
(* than the default.                                                       *)
(***************************************************************************)
KeywordsNest ==
    /\ Handles({"end_keywords"}) /\ Top.begun = 0
         => \A k \in 2 .. Len(keywords) : keywords[k].source # "directive"
    /\ AtEnd => Top.begun = 0

\* No unmapped file begins where keywords were restored for another: it
\* would not push an entry, but pop the one of the other.
PopsItsOwn ==
    Len(lexers') > Len(lexers) /\ Unmapped(Last(lexers').file) => Last(keywords).source # "restored"

FilesPopTheirOwn == [][PopsItsOwn]_vars

\* Nor does one in a unit.
SourcesPopTheirOwn ==
    \A program \in Programs :
        LET sources == program.sources
        IN  \A j, k \in DOMAIN sources :
                j + 1 < k /\ Unmapped(sources[j]) /\ Unmapped(sources[j + 1]) => Unmapped(sources[k])

(***************************************************************************)
(* handleTopLevelMacro asserts that no expansion is being played: nested   *)
(* macros were all expanded before.                                        *)
(***************************************************************************)
FullyExpanded ==
    Handles({"use"}) /\ IsDefined(Item.name) => Rest = <<>>

\* Does an expansion that is played or paused still use the name?
Awaited(name) ==
    \E items \in {expanded} \cup { frames[k].items : k \in DOMAIN frames } :
        \E j \in DOMAIN items : items[j].kind = "use" /\ items[j].name = name

\* What the assertion relies on: no macro is defined that such an expansion uses.
DefinesNothingAwaited ==
    \A name \in Names : ~IsDefined(name) /\ IsDefined(name)' => ~Awaited(name)'

NoLateDefinition == [][DefinesNothingAwaited]_vars

(***************************************************************************)
(* Preprocessing ends: includes are bounded by the depth limit, macros by  *)
(* the recursion check.                                                    *)
(***************************************************************************)
PreprocessingEnds == <>(lexers = <<>>)
===============================================================================
