------------------------------- MODULE Lexer -------------------------------
(***************************************************************************)
(* Lexer (lexer.h, lexer.cpp): one character of lookahead, two in front of *)
(* a comment.  Offsets are those of the code: current is the number of     *)
(* characters consumed, and the character at offset o is src[o + 1].       *)
(***************************************************************************)
EXTENDS Token, FiniteSets

CONSTANTS
    Char,          \* the characters of the texts
    Letter,        \* those isAlphaCh holds of
    Digit,         \* those isDigitCh holds of
    KEYWORDS,      \* the spelling of keywords, and their types
    Texts          \* the texts to read

Newline == "\n"
Quote   == "\""
Blank   == {" ", "\r", "\t"}

\* Of what a token may start with, that no letter or digit is.
Mark == {"(", ")", "{", "}", ";", ":", "-", "+", "*", ",", "%", "/", "=", ">", "<", "!",
         Quote}

ASSUME CharactersAssumption ==
    /\ Letter \cap (Digit \cup Blank \cup Mark \cup {Newline, "_", "NUL"}) = {}
    /\ Digit \cap (Blank \cup Mark \cup {Newline, "_", "NUL"}) = {}
    /\ Texts \subseteq Seq(Char)
    /\ KEYWORDS \in [DOMAIN KEYWORDS -> Keywords]

VARIABLES
    src,
    scanning,      \* the function that reads: skipping, comment, scanToken, number,
                   \* identifier, stringLit, or done and failed
    start, current, line, lineStart, tokenLine, tokenColumn,
    lexed,         \* the member tokens
    refusal        \* the place of the CompileError

lexerVars == <<src, scanning, start, current, line, lineStart, tokenLine, tokenColumn,
               lexed, refusal>>

-----------------------------------------------------------------------------
(* The helpers.                                                            *)

IsAtEnd   == current >= Len(src)
Next1     == IF IsAtEnd THEN "NUL" ELSE src[current + 1]
Next2     == IF current + 1 >= Len(src) THEN "NUL" ELSE src[current + 2]
AlphaNum  == Letter \cup Digit

ColumnOf(offset) == offset - lineStart + 1

\* The lexeme of the token, n characters further on.
Lexeme(n) == SubSeq(src, start + 1, current + n)

\* The characters that are a token of their own whatever follows, and those
\* that match() may extend by '='.
Single ==
    [c \in {"(", ")", "{", "}", ";", ":", "-", "+", "*", ",", "%", "/"} |->
        CASE c = "(" -> "LEFT_PAREN"  [] c = ")" -> "RIGHT_PAREN"
          [] c = "{" -> "LEFT_BRACE"  [] c = "}" -> "RIGHT_BRACE"
          [] c = ";" -> "SEMICOLON"   [] c = ":" -> "COLON"
          [] c = "-" -> "MINUS"       [] c = "+" -> "PLUS"
          [] c = "*" -> "STAR"        [] c = "," -> "COMMA"
          [] c = "%" -> "PERCENT"     [] c = "/" -> "SLASH"]
Alone ==
    [c \in {"=", ">", "<"} |->
        CASE c = "=" -> "EQUAL" [] c = ">" -> "GREATER" [] c = "<" -> "LESS"]
WithEqual ==
    [c \in {"=", ">", "<", "!"} |->
        CASE c = "=" -> "EQUAL_EQUAL" [] c = ">" -> "GREATER_EQUAL"
          [] c = "<" -> "LESS_EQUAL"  [] c = "!" -> "NOT_EQUAL"]

Made(type, n) ==
    [type |-> type, lexeme |-> Lexeme(n), line |-> tokenLine, column |-> tokenColumn]

\* The function has consumed n characters and goes on as f.
Advance(n, f) ==
    /\ current' = current + n
    /\ scanning' = f
    /\ UNCHANGED <<src, start, line, lineStart, tokenLine, tokenColumn, lexed, refusal>>

\* A line break is consumed.
\* A plausible slip: the line is counted and its start is not kept.
BreakLineStart == lineStart
LineStartAfter == current + 1
BreakLine(f) ==
    /\ line' = line + 1
    /\ current' = current + 1
    /\ lineStart' = LineStartAfter
    /\ scanning' = f
    /\ UNCHANGED <<src, start, tokenLine, tokenColumn, lexed, refusal>>

\* addToken, after n characters.
AddToken(type, n) ==
    /\ lexed' = Append(lexed, Made(type, n))
    /\ current' = current + n
    /\ scanning' = "skipping"
    /\ UNCHANGED <<src, start, line, lineStart, tokenLine, tokenColumn, refusal>>

\* throw CompileError at the token, after n characters.
Refuse(n, place) ==
    /\ scanning' = "failed"
    /\ current' = current + n
    /\ refusal' = place
    /\ UNCHANGED <<src, start, line, lineStart, tokenLine, tokenColumn, lexed>>

TokenPlace == [line |-> tokenLine, column |-> tokenColumn]

-----------------------------------------------------------------------------
(* skipping().                                                             *)

SkipBlank ==
    /\ scanning = "skipping" /\ Next1 \in Blank
    /\ Advance(1, "skipping")

SkipLine ==
    /\ scanning = "skipping" /\ Next1 = Newline
    /\ BreakLine("skipping")

BeginComment ==
    /\ scanning = "skipping" /\ Next1 = "/" /\ Next2 = "/"
    /\ Advance(0, "comment")

\* The line break that ends a comment is left to skipping().
\* A plausible slip: the end of the text is not asked for.
CommentToBreak ==
    /\ scanning = "comment"
    /\ IF Next1 # Newline THEN Advance(IF IsAtEnd THEN 0 ELSE 1, "comment")
       ELSE Advance(0, "skipping")
Comment ==
    /\ scanning = "comment"
    /\ IF Next1 # Newline /\ ~IsAtEnd THEN Advance(1, "comment")
       ELSE Advance(0, "skipping")

Skippable == Next1 \in Blank \cup {Newline} \/ (Next1 = "/" /\ Next2 = "/")

\* scanTokens marks the place of the token and reads it.
BeginToken ==
    /\ scanning = "skipping" /\ ~IsAtEnd /\ ~Skippable
    /\ start' = current
    /\ tokenLine' = line
    /\ tokenColumn' = ColumnOf(current)
    /\ scanning' = "scanToken"
    /\ UNCHANGED <<src, current, line, lineStart, lexed, refusal>>

EndToken == [type |-> "END_OF_FILE", lexeme |-> << >>, line |-> line,
             column |-> ColumnOf(current)]

\* A plausible slip: the scanner returns, and does not leave its loop, when it
\* has skipped to the end.
EndTokensSkipped ==
    /\ scanning = "skipping" /\ IsAtEnd
    /\ scanning' = "done"
    /\ lexed' = IF src # << >> /\ src[Len(src)] \in Blank THEN lexed
                ELSE Append(lexed, EndToken)
    /\ UNCHANGED <<src, start, current, line, lineStart, tokenLine, tokenColumn, refusal>>
EndTokens ==
    /\ scanning = "skipping" /\ IsAtEnd
    /\ scanning' = "done"
    /\ lexed' = Append(lexed, EndToken)
    /\ UNCHANGED <<src, start, current, line, lineStart, tokenLine, tokenColumn, refusal>>

-----------------------------------------------------------------------------
(* scanToken().                                                            *)

ScanSingle ==
    /\ scanning = "scanToken" /\ Next1 \in DOMAIN Single
    /\ AddToken(Single[Next1], 1)

ScanPair ==
    /\ scanning = "scanToken" /\ Next1 \in DOMAIN WithEqual
    /\ \/ Next2 = "=" /\ AddToken(WithEqual[Next1], 2)
       \/ Next2 # "=" /\ Next1 \in DOMAIN Alone /\ AddToken(Alone[Next1], 1)
       \/ Next2 # "=" /\ Next1 \notin DOMAIN Alone /\ Refuse(1, TokenPlace)

ScanLonger ==
    /\ scanning = "scanToken"
    /\ \/ Next1 = Quote /\ Advance(1, "stringLit")
       \/ Next1 \in Digit /\ Advance(1, "number")
       \/ Next1 \in Letter \cup {"_"} /\ Advance(1, "identifier")

ScanOther ==
    /\ scanning = "scanToken"
    /\ Next1 \notin DOMAIN Single \cup DOMAIN WithEqual \cup {Quote, "_"} \cup AlphaNum
    /\ Refuse(1, TokenPlace)

ScanNumber ==
    /\ scanning = "number"
    /\ IF Next1 \in Digit THEN Advance(1, "number") ELSE AddToken("NUMBER", 0)

\* A keyword is a whole identifier.
\* A plausible slip: the keyword is taken as soon as it is read.
TypeOf(text) == IF text \in DOMAIN KEYWORDS THEN KEYWORDS[text] ELSE "IDENTIFIER"

ScanIdentifierEager ==
    /\ scanning = "identifier"
    /\ IF Next1 \in AlphaNum \cup {"_"} /\ Lexeme(0) \notin DOMAIN KEYWORDS
       THEN Advance(1, "identifier")
       ELSE AddToken(TypeOf(Lexeme(0)), 0)
ScanIdentifier ==
    /\ scanning = "identifier"
    /\ IF Next1 \in AlphaNum \cup {"_"} THEN Advance(1, "identifier")
       ELSE AddToken(TypeOf(Lexeme(0)), 0)

\* A string may span lines; one that never ends is reported where it starts.
\* A plausible slip: it is reported where the text ends.
UnclosedAtEnd == [line |-> line, column |-> ColumnOf(current)]
UnclosedAt    == TokenPlace
ScanString ==
    /\ scanning = "stringLit"
    /\ \/ IsAtEnd /\ Refuse(0, UnclosedAt)
       \/ ~IsAtEnd /\ Next1 = Newline /\ BreakLine("stringLit")
       \/ ~IsAtEnd /\ Next1 = Quote /\ AddToken("STRING", 1)
       \/ ~IsAtEnd /\ Next1 \notin {Newline, Quote} /\ Advance(1, "stringLit")

-----------------------------------------------------------------------------
LexerInit ==
    /\ src \in Texts
    /\ scanning = "skipping"
    /\ start = 0 /\ current = 0 /\ line = 1 /\ lineStart = 0
    /\ tokenLine = 1 /\ tokenColumn = 1
    /\ lexed = << >>
    /\ refusal = [line |-> 0, column |-> 0]

Skipping == SkipBlank \/ SkipLine \/ BeginComment \/ Comment \/ BeginToken \/ EndTokens
ScanToken == \/ ScanSingle \/ ScanPair \/ ScanLonger \/ ScanOther
             \/ ScanNumber \/ ScanIdentifier \/ ScanString

LexerNext == Skipping \/ ScanToken

LexerSpec == LexerInit /\ [][LexerNext]_lexerVars /\ WF_lexerVars(LexerNext)

-----------------------------------------------------------------------------
(* Properties.                                                             *)

\* Types.  Of the end the parser takes for granted that it is marked once, by
\* the last token (Token!TokenSequence).
LexerTypeOK ==
    /\ src \in Texts
    /\ scanning \in {"skipping", "comment", "scanToken", "number", "identifier",
                     "stringLit", "done", "failed"}
    /\ current \in 0 .. Len(src) /\ start \in 0 .. current
    /\ line \in Nat \ {0} /\ lineStart \in 0 .. current
    /\ tokenLine \in Nat \ {0} /\ tokenColumn \in Nat \ {0}
    /\ lexed \in Seq([type : TokenType, lexeme : Seq(Char), line : Nat \ {0},
                      column : Nat \ {0}])
    /\ refusal \in [line : Nat, column : Nat]
    /\ \A k \in DOMAIN lexed :
          lexed[k].type = "END_OF_FILE" <=> k = Len(lexed) /\ scanning = "done"
    /\ scanning = "done" => lexed # << >>

\* place is where offset o of the text t is, counted from the text alone.
IsPlace(t, o, place) ==
    /\ place.line = 1 + Cardinality({p \in 1 .. o : t[p] = Newline})
    /\ place.column \in 1 .. o + 1
    /\ place.column <= o => t[o + 1 - place.column] = Newline
    /\ \A p \in o + 2 - place.column .. o : t[p] # Newline

\* The offset of a place of the text.
OffsetOf(t, place) == CHOOSE o \in 0 .. Len(t) : IsPlace(t, o, place)

\* The token stands at offset o of the text, and is what is written there.
StandsAt(t, o, token) ==
    /\ IsPlace(t, o, token) /\ o + Len(token.lexeme) <= Len(t)
    /\ token.lexeme = SubSeq(t, o + 1, o + Len(token.lexeme))

\* Every token and the refusal stand where the text says, behind whatever
\* strings and comments that span or end lines.
PlacesTrue ==
    /\ \A k \in DOMAIN lexed : \E o \in 0 .. Len(src) : StandsAt(src, o, lexed[k])
    /\ scanning = "failed" => \E o \in 0 .. Len(src) : IsPlace(src, o, refusal)

\* Between two offsets of the text there are only blanks and comments.
IsGap(t, from, to) ==
    /\ from <= to
    /\ \A p \in from + 1 .. to :
          \/ t[p] \in Blank \cup {Newline}
          \/ \E q \in from + 1 .. p :
                /\ q < to /\ t[q] = "/" /\ t[q + 1] = "/"
                /\ \A r \in q .. p : t[r] # Newline

Begin(k) == OffsetOf(src, lexed[k])
End(k)   == IF k = 0 THEN 0 ELSE Begin(k) + Len(lexed[k].lexeme)

\* The tokens are the whole text but its blanks and comments, in order.
NothingSkipped ==
    scanning \in {"done", "failed"} =>
        /\ \A k \in DOMAIN lexed : IsGap(src, End(k - 1), Begin(k))
        /\ scanning = "done" => End(Len(lexed)) = Len(src)
        /\ scanning = "failed" => IsGap(src, End(Len(lexed)), OffsetOf(src, refusal))

\* scanTokens: no character but blanks and comments is lost, none is in two
\* tokens, and every token has the line and column it has in the text.
TokensAreTheText == PlacesTrue /\ NothingSkipped

\* The lexemes of the language, and what each is.
IsWord(s) ==
    /\ Len(s) > 0 /\ s[1] \notin Digit
    /\ \A i \in DOMAIN s : s[i] \in AlphaNum \cup {"_"}
Types(s) ==
    {t \in TokenType :
        \/ Len(s) = 1 /\ s[1] \in DOMAIN Single /\ t = Single[s[1]]
        \/ Len(s) = 1 /\ s[1] \in DOMAIN Alone /\ t = Alone[s[1]]
        \/ Len(s) = 2 /\ s[1] \in DOMAIN WithEqual /\ s[2] = "=" /\ t = WithEqual[s[1]]
        \/ Len(s) > 0 /\ (\A i \in DOMAIN s : s[i] \in Digit) /\ t = "NUMBER"
        \/ IsWord(s) /\ t = TypeOf(s)
        \/ /\ Len(s) > 1 /\ t = "STRING"
           /\ {i \in DOMAIN s : s[i] = Quote} = {1, Len(s)}}

\* Every token is the longest lexeme at its place (lexer.cpp:158), and of
\* its type; a keyword is not cut out of a longer name.
MaximalMunch ==
    \A k \in DOMAIN lexed :
        scanning \in {"done", "failed"} /\ lexed[k].type # "END_OF_FILE" =>
            /\ Types(lexed[k].lexeme) = {lexed[k].type}
            /\ \A e \in End(k) + 1 .. Len(src) : Types(SubSeq(src, Begin(k) + 1, e)) = {}

\* The lexer refuses a text where no lexeme starts, a string that is never
\* closed at its first character.
RefusalExact ==
    scanning = "failed" =>
        LET o == OffsetOf(src, refusal)
        IN  /\ o < Len(src)
            /\ \A e \in o + 1 .. Len(src) : Types(SubSeq(src, o + 1, e)) = {}

\* scanTokens returns or throws for every text (lexer.cpp:20).
LexerEnds == <>(scanning \in {"done", "failed"})
=============================================================================
