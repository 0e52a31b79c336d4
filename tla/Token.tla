------------------------------- MODULE Token -------------------------------
(***************************************************************************)
(* Tokens (common.h) as the lexer hands them to the parser.  What the      *)
(* parser needs of a lexeme is a name, a number or the content of a        *)
(* string; a number is any natural, whatever int can hold.                 *)
(***************************************************************************)
EXTENDS Naturals, Sequences

Punctuation ==
    {"LEFT_PAREN", "RIGHT_PAREN", "LEFT_BRACE", "RIGHT_BRACE", "COMMA", "MINUS",
     "PLUS", "COLON", "SEMICOLON", "SLASH", "STAR", "PERCENT", "EQUAL",
     "EQUAL_EQUAL", "NOT_EQUAL", "GREATER", "GREATER_EQUAL", "LESS", "LESS_EQUAL"}

Keywords ==
    {"ITAKDA", "KUNG", "KUNG_HINDI", "HABANG", "GAWIN", "PARA", "PILI", "KASO",
     "TIGIL", "SUNOD", "BASAHIN", "KUNIN", "ISULAT", "IPAKITA", "TOTOO", "MALI",
     "AT", "O", "HINDI"}

Literals == {"IDENTIFIER", "STRING", "NUMBER"}

TokenType == Punctuation \cup Keywords \cup Literals \cup {"END_OF_FILE"}

Symbol(t)     == [type |-> t]
Identifier(n) == [type |-> "IDENTIFIER", name |-> n]
Number(i)     == [type |-> "NUMBER", int |-> i]
Str(s)        == [type |-> "STRING", content |-> s]
EndOfFile     == Symbol("END_OF_FILE")

Token == [type : TokenType \ Literals]
         \cup [type : {"IDENTIFIER"}, name : STRING]
         \cup [type : {"NUMBER"}, int : Nat]
         \cup [type : {"STRING"}, content : STRING]

\* What scanTokens returns: the end is marked once, by the last token.
TokenSequence(ts) ==
    /\ ts \in Seq(Token)
    /\ Len(ts) >= 1
    /\ \A i \in 1 .. Len(ts) : ts[i].type = "END_OF_FILE" <=> i = Len(ts)
=============================================================================
