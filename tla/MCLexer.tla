------------------------------ MODULE MCLexer ------------------------------
(***************************************************************************)
(* Every text of up to MaxLength characters with one of each class the     *)
(* lexer tells apart, and longer ones of what names, lines and columns are *)
(* made of.  The keyword is the shortest of common.h, o, which is a prefix *)
(* of names.                                                               *)
(***************************************************************************)
EXTENDS Diagnostic

MaxLength  == 3
MaxWords   == 4
MaxLines   == 6
MaxColumns == 5

MCLetter == {"a", "o"}
MCDigit  == {"1"}
MCKeywords == [w \in {<<"o">>} |-> "O"]
MCChar == {"a", "o", "1", "_", " ", "\t", "\r", Newline, Quote, "/", "=", "!", "<", ";",
           "@"}
MCTexts == BoundedSeq(MCChar, MaxLength)
           \cup BoundedSeq({"a", "o", "1", "_", "=", " "}, MaxWords)
           \cup BoundedSeq({"a", Newline, Quote, "/"}, MaxLines)
           \cup BoundedSeq({"a", "\t", "\r", Newline, "@"}, MaxColumns)
=============================================================================
