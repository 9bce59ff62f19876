------------------------------ MODULE SourceTrees ------------------------------
(***************************************************************************)
(* What the source loader knows of files and of syntax trees: which names a *)
(* tree declares and which it refers to, and where the file of a missing   *)
(* name would be.  A tree is the sequence of the files it was parsed from,  *)
(* with the two flags that say how.                                        *)
(***************************************************************************)
EXTENDS Naturals, SequencesExt

CONSTANTS
    Files, Names,
    NoFile,         \* the result of a search that found no file
    Declares,       \* file -> names its text (included text too) declares
    Refers,         \* file -> sequence of the names it refers to
    Includes,       \* file -> files it includes
    Candidates,     \* name -> dir / name.ext, for every directory and extension
    Readable        \* files that can be read

ASSUME TreesOK ==
    /\ NoFile \notin Files
    /\ Declares \in [Files -> SUBSET Names]
    /\ Refers \in [Files -> Seq(Names)]
    /\ Includes \in [Files -> SUBSET Files]
    /\ Candidates \in [Names -> Seq(Files)]
    /\ Readable \subseteq Files

Trees == [files : Seq(Files), isLibraryUnit : BOOLEAN, inherits : BOOLEAN]

\* The symbols visitDeclaredSymbols and visitReferencedSymbols report.
DeclaredBy(tree) == UNION { Declares[f] : f \in ToSet(tree.files) }
ReferredBy(tree) == FlattenSeq([k \in DOMAIN tree.files |-> Refers[tree.files[k]]])

Known(trees) == UNION { DeclaredBy(t) : t \in ToSet(trees) }
Missing(trees) == (UNION { ToSet(ReferredBy(t)) : t \in ToSet(trees) }) \ Known(trees)

\* The files that parsing a tree leaves in the cache of the source manager.
CachedBy(tree) == UNION { {f} \cup Includes[f] : f \in ToSet(tree.files) }

(***************************************************************************)
(* The first candidate nobody has opened yet that can be read.  A file in  *)
(* the cache is skipped: it was listed, included or searched before.       *)
(***************************************************************************)
FindBuffer(name, cached) ==
    LET paths == Candidates[name]
        k == SelectInSeq(paths, LAMBDA f : f \notin cached /\ f \in Readable)
    IN  IF k = 0 THEN NoFile ELSE paths[k]

\* The names worth a search once there are these trees: no tree declares
\* them and some file may.
Wanted(trees) ==
    LET cached == UNION { CachedBy(t) : t \in ToSet(trees) }
    IN  { n \in Names \ Known(trees) : FindBuffer(n, cached) # NoFile }

\* The names of a sequence that are in a set, in their order.
Sift(names, set) ==
    FlattenSeq([k \in DOMAIN names |-> IF names[k] \in set THEN <<names[k]>> ELSE <<>>])

\* The first occurrences of the names a tree refers to that are in nobody's way.
NewNames(tree, excluded) ==
    LET refs == ReferredBy(tree)
    IN  FlattenSeq([k \in DOMAIN refs |->
            IF refs[k] \notin excluded /\ \A j \in 1 .. k - 1 : refs[j] # refs[k]
              THEN <<refs[k]>> ELSE <<>>])
===============================================================================
