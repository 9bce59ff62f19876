----------------------------- MODULE MCSourceLoader -----------------------------
(***************************************************************************)
(* A small set of files for the source loader: two libraries that claim    *)
(* the same files with different ranks, a unit, a library map that         *)
(* includes maps, and files to search that miss each other.                *)
(***************************************************************************)
EXTENDS SourceLoader

LoaderFiles == {"top", "cell", "prim", "none", "a0", "a1", "b1", "c1", "d1", "e1", "f1", "hdr"}
LoaderNames == {"a", "b", "c", "d", "e", "f", "g", "x"}

\* The file of a in the first directory is a header that top includes.  The
\* file of d declares a too, the file of e refers back to c,
\* the one of f to a name without a file.
LoaderDeclares ==
    [f \in LoaderFiles |->
        CASE f = "a1" -> {"a"} [] f = "b1" -> {"b"} [] f = "c1" -> {"c"}
          [] f = "d1" -> {"a", "d"} [] f = "e1" -> {"e"} [] f = "f1" -> {"f"} [] f = "prim" -> {"x"} [] OTHER -> {}]

LoaderRefers ==
    [f \in LoaderFiles |->
        CASE f = "top" -> <<"a", "b", "c">> [] f = "cell" -> <<"x", "b">>
          [] f = "b1" -> <<"x", "e", "f">> [] f = "c1" -> <<"d", "e">>
          [] f = "e1" -> <<"c", "e", "x">> [] f = "f1" -> <<"g">> [] OTHER -> <<>>]

LoaderIncludes ==
    [f \in LoaderFiles |->
        CASE f = "top" -> {"a0"} [] f = "b1" -> {"hdr"} [] f = "d1" -> {"hdr"} [] OTHER -> {}]

LoaderCandidates ==
    [n \in LoaderNames |->
        CASE n = "a" -> <<"a0", "a1">> [] n = "b" -> <<"b1">> [] n = "c" -> <<"none", "c1">>
          [] n = "d" -> <<"d1">> [] n = "e" -> <<"e1">> [] n = "f" -> <<"f1">> [] OTHER -> <<>>]

\* A pattern; that of a library map finds "cell" under two names.
Glob(files, rank) == <<[found |-> TRUE, files |-> files, rank |-> rank]>>

Call(globs, library, isLibraryFile, unit) ==
    [globs |-> globs, library |-> library, isLibraryFile |-> isLibraryFile, unit |-> unit]

TopCall == Call(Glob(<<"top">>, 0), NoLibrary, FALSE, NoUnit)
WildCall == Call(Glob(<<"cell", "top">>, 2), "lib1", TRUE, NoUnit)
RivalCall == Call(Glob(<<"top", "prim">>, 2), "lib2", TRUE, NoUnit)
ExactCall == Call(Glob(<<"cell", "cell", "top">>, 0), "lib2", TRUE, NoUnit)
UnitCall == Call(Glob(<<"prim", "cell">>, 0), NoLibrary, FALSE, "unit1")
PrefixCall == Call(<<[found |-> FALSE]>> \o Glob(<<"none">>, 1), NoLibrary, FALSE, NoUnit)
EmptyCall == Call(<<[found |-> FALSE]>>, NoLibrary, FALSE, NoUnit)

LoaderCalls ==
    [c \in {"top", "wild", "rival", "unit", "prefix"} |->
        CASE c = "top" -> TopCall [] c = "wild" -> WildCall [] c = "rival" -> RivalCall
          [] c = "unit" -> UnitCall [] c = "prefix" -> PrefixCall]

LoaderMaps ==
    [m \in {"m1", "m2", "m3"} |->
        CASE m = "m1" -> <<[kind |-> "include", map |-> "m2"], [kind |-> "library", call |-> ExactCall],
                           [kind |-> "include", map |-> "m2"]>>
          [] m = "m2" -> <<>>
          [] m = "m3" -> <<[kind |-> "library", call |-> EmptyCall],
                           [kind |-> "include", map |-> "m1"], [kind |-> "include", map |-> "m3"]>>]

LoaderOptions ==
    { [singleUnit |-> FALSE, librariesInheritMacros |-> FALSE, onlyLint |-> FALSE],
      [singleUnit |-> TRUE, librariesInheritMacros |-> FALSE, onlyLint |-> TRUE],
      [singleUnit |-> TRUE, librariesInheritMacros |-> TRUE, onlyLint |-> FALSE] }

\* Files may be searched in batches, and each for one name only.
ASSUME LoaderIndependent == Workers # {} /\ Independent
===============================================================================
