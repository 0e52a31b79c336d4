----------------------------- MODULE Diagnostic -----------------------------
(***************************************************************************)
(* DiagnosticReporter (diagnostic.cpp) on the text the lexer reads: it     *)
(* finds the line of a diagnostic again by its number, prints it with its  *)
(* tabs expanded and puts a caret under the column.                        *)
(***************************************************************************)
EXTENDS Lexer, SequencesExt

Width == 4

\* A tab is Width blanks.
ExpandTabs(s) ==
    LET out[n \in 0 .. Len(s)] ==
            IF n = 0 THEN << >>
            ELSE out[n - 1] \o IF s[n] = "\t" THEN [j \in 1 .. Width |-> " "] ELSE <<s[n]>>
    IN  out[Len(s)]

\* Where the column of a line is in its expansion; a column past the line is
\* its end.
\* A plausible slip: a tab is one wide.
VisualColumnNarrow(raw, column) == Min({column - 1, Len(raw)})
VisualColumn(raw, column) ==
    LET visual[n \in 0 .. Len(raw)] ==
            IF n = 0 THEN 0 ELSE visual[n - 1] + IF raw[n] = "\t" THEN Width ELSE 1
    IN  visual[Min({column - 1, Len(raw)})]

\* find('\n', from), as the number of characters before the break or, at npos,
\* all of them.
FindBreak(from) ==
    Min({p \in from .. Len(src) : p < Len(src) => src[p + 1] = Newline})

\* The offset of the n-th line; lines past the last are empty.
LineOffset(n) ==
    LET offset[k \in 0 .. n - 1] ==
            IF k = 0 THEN 0
            ELSE IF offset[k - 1] > Len(src) THEN offset[k - 1]
            ELSE FindBreak(offset[k - 1]) + 1
    IN  offset[n - 1]

SourceLine(n) ==
    IF n < 1 \/ LineOffset(n) > Len(src) THEN << >>
    ELSE LET raw == SubSeq(src, LineOffset(n) + 1, FindBreak(LineOffset(n)))
         IN  IF raw # << >> /\ Last(raw) = "\r" THEN Front(raw) ELSE raw

Report(place) ==
    LET raw == SourceLine(place.line)
    IN  [snippet |-> place.line >= 1 /\ raw # << >>,
         shown   |-> ExpandTabs(raw),
         caret   |-> VisualColumn(raw, place.column)]

-----------------------------------------------------------------------------
\* The place behind a token, as consume() of the parser computes it
\* (parser.cpp:87).
PlaceBehind(token) ==
    [line |-> token.line, column |-> token.column + Len(token.lexeme)]

ReportedPlaces ==
    {lexed[k] : k \in DOMAIN lexed}
    \cup {PlaceBehind(lexed[k]) : k \in {k \in DOMAIN lexed : lexed[k].type # "STRING"}}
    \cup IF scanning = "failed" THEN {refusal} ELSE {}

\* The character at an offset is printed: it is no line break, nor the
\* carriage return in front of one.
IsShown(o) ==
    /\ o < Len(src) /\ src[o + 1] # Newline
    /\ src[o + 1] = "\r" => o + 1 < Len(src) /\ src[o + 2] # Newline

\* The lexer counts lines as it goes and the reporter searches for them; the
\* caret is printed under the character reported, or behind the line.
CaretUnderPlace ==
    scanning \in {"done", "failed"} =>
        \A place \in ReportedPlaces :
            LET o == OffsetOf(src, place)
                r == Report(place)
            IN  IF IsShown(o)
                THEN /\ r.snippet /\ r.caret < Len(r.shown)
                     /\ r.shown[r.caret + 1] = IF src[o + 1] = "\t" THEN " " ELSE src[o + 1]
                ELSE r.snippet => r.caret = Len(r.shown)
=============================================================================
