------------------------------ MODULE SourceText ------------------------------
(***************************************************************************)
(* The pure text algorithms of slang::SourceManager: finding the offsets   *)
(* at which lines start, mapping an offset to a line with a binary search  *)
(* over them, and applying `line directives.                               *)
(*                                                                         *)
(* A text is a sequence of character classes: "c" for any character that   *)
(* does not end a line (the terminating NUL included), "n" for \n, "r" for *)
(* \r.  The character at C++ offset o is text[o + 1].                      *)
(***************************************************************************)
EXTENDS Integers, Sequences, FiniteSets

Chars == {"c", "n", "r"}

Newlines == {"n", "r"}

\* Mutant of ComputeLineOffsets: \n\n and \r\r are one line break too.
ComputeLineOffsetsPairs(text) ==
    LET next(i) == IF i < Len(text) /\ text[i + 1] \in Newlines THEN i + 2 ELSE i + 1
        from[i \in 1 .. Len(text) + 1] ==
            IF i > Len(text) THEN <<>>
            ELSE IF text[i] \in Newlines
                 THEN <<next(i) - 1>> \o from[next(i)]
                 ELSE from[i + 1]
    IN  <<0>> \o from[1]

(***************************************************************************)
(* computeLineOffsets: what one call appends to the vector of offsets.     *)
(* \r\n and \n\r are one line break; \n\n and \r\r are two.                 *)
(***************************************************************************)
ComputeLineOffsets(text) ==
    LET PairAt(i) == /\ i < Len(text)
                     /\ text[i + 1] \in Newlines
                     /\ text[i + 1] # text[i]
        next(i) == IF PairAt(i) THEN i + 2 ELSE i + 1
        from[i \in 1 .. Len(text) + 1] ==
            IF i > Len(text) THEN <<>>
            ELSE IF text[i] \in Newlines
                 THEN <<next(i) - 1>> \o from[next(i)]
                 ELSE from[i + 1]
    IN  <<0>> \o from[1]

(***************************************************************************)
(* std::ranges::lower_bound: the halving search itself, so that its        *)
(* result on a sequence that is not sorted is the one the library gives.   *)
(* search[<<first, len>>] looks at the len elements after the first ones.  *)
(* The result is the number of elements before the iterator returned.      *)
(***************************************************************************)
LowerBound(s, x) ==
    LET n == Len(s)
        search[r \in {q \in (0 .. n) \X (0 .. n) : q[1] + q[2] <= n}] ==
            IF r[2] = 0 THEN r[1]
            ELSE LET middle == r[1] + (r[2] \div 2) + 1
                 IN  IF s[middle] < x
                     THEN search[<<middle, r[2] - (r[2] \div 2) - 1>>]
                     ELSE search[<<r[1], r[2] \div 2>>]
    IN  search[<<0, n>>]

\* Mutant of RawLine: the first offset of a line counts for the line before.
RawLineNoAdjust(offsets, offset) == LowerBound(offsets, offset)

(***************************************************************************)
(* The tail of getRawLineNumber: line 1 starts at offset 0, and an offset  *)
(* that is the first of a line belongs to that line.                       *)
(***************************************************************************)
RawLine(offsets, offset) ==
    LET it == LowerBound(offsets, offset)
    IN  IF it < Len(offsets) /\ offsets[it + 1] = offset THEN it + 1 ELSE it

\* Mutant of PreviousLineDirective: no special case for the first directive.
PreviousLineDirectivePlain(directives, raw) ==
    LowerBound([i \in DOMAIN directives |-> directives[i].lineInFile], raw)

(***************************************************************************)
(* FileInfo::getPreviousLineDirective: the index of the directive that     *)
(* governs a raw line, 0 when there is none.                               *)
(***************************************************************************)
PreviousLineDirective(directives, raw) ==
    LET it == LowerBound([i \in DOMAIN directives |-> directives[i].lineInFile], raw)
    IN  CASE directives = <<>> -> 0
          [] it = 0 /\ directives # <<>> ->
                 IF directives[1].lineInFile = raw THEN 1 ELSE 0
          [] it > 0 /\ it = Len(directives) /\ directives[it].lineInFile >= raw -> 0
          [] OTHER -> it

(***************************************************************************)
(* The line getLineNumber reports for a raw line governed by directive d.  *)
(* A directive on line L with number N numbers the line after it N.  The   *)
(* C++ result is a size_t: -1 stands for the SIZE_MAX that `line 0 gives   *)
(* on the directive's own line.                                            *)
(***************************************************************************)
NumberedLine(directives, d, raw) ==
    IF raw = 0 \/ d = 0 THEN raw
    ELSE directives[d].lineOfDirective + (raw - directives[d].lineInFile) - 1

ReportedLine(directives, raw) ==
    NumberedLine(directives, PreviousLineDirective(directives, raw), raw)

-------------------------------------------------------------------------------
(***************************************************************************)
(* Reference definitions.  Offset o (1 .. Len(text)) starts a line when a  *)
(* line break ends right before it.  Line breaks tile the \n and \r of the *)
(* text: two different ones side by side are one break if neither belongs  *)
(* to an earlier break.  The line of an offset is the number of lines that *)
(* start at or before it.                                                  *)
(***************************************************************************)
StartsLine(text, o) ==
    \E breaks \in SUBSET {b \in (1 .. Len(text)) \X (1 .. Len(text)) : b[2] \in {b[1], b[1] + 1}} :
        LET ends == {b[2] : b \in breaks}
        IN  /\ o \in ends
            /\ UNION {b[1] .. b[2] : b \in breaks} = {k \in 1 .. Len(text) : text[k] \in Newlines}
            /\ \A b \in breaks, c \in breaks : b = c \/ b[2] < c[1] \/ c[2] < b[1]
            /\ \A b \in breaks :
                   IF b[1] = b[2]
                   THEN b[1] = Len(text) \/ text[b[1] + 1] \notin Newlines \ {text[b[1]]}
                   ELSE text[b[1]] # text[b[2]]

LineOf(text, offset) ==
    1 + Cardinality({o \in 1 .. Len(text) : o <= offset /\ StartsLine(text, o)})

(***************************************************************************)
(* The directive that governs a line: the last one above it.  The very     *)
(* first directive also governs its own line, which is how pushSource      *)
(* gives a name to the whole of a buffer.                                  *)
(***************************************************************************)
IsGoverning(directives, raw, d) ==
    \/ /\ d \in DOMAIN directives
       /\ directives[d].lineInFile < raw
       /\ \A e \in DOMAIN directives : directives[e].lineInFile < raw => e <= d
    \/ /\ \A e \in DOMAIN directives : directives[e].lineInFile >= raw
       /\ d = IF directives # <<>> /\ directives[1].lineInFile = raw THEN 1 ELSE 0
===============================================================================
