--------------------------- MODULE MCSourceManager ---------------------------
(***************************************************************************)
(* Small instances of SourceManager: two files, a header that exists only  *)
(* in the user directory, and texts of two lines.                          *)
(***************************************************************************)
EXTENDS SourceManager, TLC

CONSTANTS
    t1, t2,
    FlakyReads,     \* a read of "a" may fail as well as succeed
    MaxLength,      \* bound: characters of a text
    MaxLine,        \* bound: lines of a text with directives
    MaxLineDirectives   \* bound: `line directives of a text

ASSUME BoundsOK == MaxLength \in Nat /\ MaxLine \in Nat /\ MaxLineDirectives \in Nat

TwoLines == <<"c", "n", "c", "c">>
ThreeLines == <<"n", "c", "r", "n", "c">>

BothTexts == {TwoLines, ThreeLines}
OneText == {ThreeLines}

LineLayout(text) == ComputeLineOffsets(text)

(***************************************************************************)
(* "a" exists and changes on disk between two reads, "b" does not exist,   *)
(* "g" exists and is also assigned by the user, "x" cannot be made         *)
(* canonical.                                                              *)
(***************************************************************************)
MCOutcomes ==
    [p \in Paths |->
        CASE p = "a" -> IF FlakyReads THEN Texts \cup {Failed} ELSE Texts
          [] p = "g" -> Texts
          [] OTHER -> {Failed}]

(***************************************************************************)
(* The header is missing next to the file that includes it and in the      *)
(* library's directory, and is in the user directory.                      *)
(***************************************************************************)
MCSystemDirs == <<"x">>
MCLocalDir == <<"b">>
MCLibraryDirs == <<"x", "g">>
MCUserDirs == <<"a">>
NoDirs == <<>>

ThreadSymmetry == Permutations(Threads)
-------------------------------------------------------------------------------
\* The text algorithms are looked at once, before any file is opened.
NothingOpen == bufferEntries = <<>> /\ \A t \in Threads : pc[t] = "idle"

AllTexts == UNION { [1 .. n -> Chars] : n \in 0 .. MaxLength }

\* The `line directives of a file, in the order in which it is read.
DirectiveLists ==
    { d \in UNION { [1 .. n -> [lineInFile : 1 .. MaxLine, lineOfDirective : {1}]] :
                      n \in 0 .. MaxLineDirectives } :
        \A i, j \in DOMAIN d : i <= j => d[i].lineInFile <= d[j].lineInFile }

(***************************************************************************)
(* computeLineOffsets and the binary search of getRawLineNumber together   *)
(* give every offset the line it is on, the position after the last        *)
(* character included; getPreviousLineDirective finds the directive that   *)
(* governs a line.                                                         *)
(***************************************************************************)
LinesExact ==
    NothingOpen =>
        /\ \A text \in AllTexts : \A offsets \in {ComputeLineOffsets(text)}, o \in 0 .. Len(text) :
               RawLine(offsets, o) = LineOf(text, o)
        /\ \A directives \in DirectiveLists : \A raw \in 1 .. MaxLine + 1 :
               IsGoverning(directives, raw, PreviousLineDirective(directives, raw))
===============================================================================
