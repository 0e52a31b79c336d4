--------------------------- MODULE MCSyntaxTests ---------------------------
(* The seven files test/invalid/invalid_syntax_*.txt as token sequences,    *)
(* with the limits of parser.h.  IntMax is 7 here, for 2147483647 there.    *)
(*                                                                          *)
(* Tests are the six files whose expectations the code meets, of            *)
(* numberExceedsLimit.txt only its lines 1 and 2.  What its lines 5 and 6   *)
(* and exceedsNestingLimit.txt expect the code does not do: each has inputs *)
(* and a property of its own at the end.                                    *)
EXTENDS Parser

Sym(t)  == Symbol(t)
Id(n)   == Identifier(n)
Times(t, n) == [k \in 1 .. n |-> Sym(t)]
Call(keyword, arguments) ==
    <<Sym(keyword), Sym("LEFT_PAREN")>> \o arguments
    \o <<Sym("RIGHT_PAREN"), Sym("SEMICOLON")>>
File(ts) == Append(ts, EndOfFile)

\* A test is a file and the errors it expects: the line of the file that
\* expects one stands beside it.
Test(file, expected) == [file |-> file, expected |-> expected]

MissingTokens ==
    Test(File(
        <<Sym("ITAKDA"), Id("a"), Sym("EQUAL"), Number(1),
          Sym("ITAKDA"), Sym("EQUAL"), Number(4),
          Sym("ITAKDA"), Id("b"), Number(7),
          Sym("ISULAT"), Sym("LEFT_PAREN"), Id("b"), Sym("SEMICOLON"),
          Sym("ISULAT"), Id("a"), Sym("RIGHT_PAREN"), Sym("SEMICOLON"),
          Sym("KUNG"), Id("a"), Sym("GREATER"), Number(1), Sym("LEFT_BRACE")>>
        \o Call("ISULAT", <<Id("a")>>) \o <<Sym("RIGHT_BRACE")>>),
      <<After("SEMICOLON", 4),      \* line 2
        At("IDENTIFIER", 6),        \* line 5
        At("EQUAL", 10),            \* line 8
        At("RIGHT_PAREN", 14),      \* line 11
        At("LEFT_PAREN", 16),       \* line 14
        At("LEFT_PAREN", 20),       \* line 19
        At("statement", 29)>>)      \* line 20

Then == Call("ISULAT", <<Number(2)>>)
RequiresBrace ==
    Test(File(
        <<Sym("KUNG"), Sym("LEFT_PAREN"), Sym("TOTOO"), Sym("RIGHT_PAREN")>> \o Then
        \o <<Sym("HABANG"), Sym("LEFT_PAREN"), Sym("TOTOO"), Sym("RIGHT_PAREN")>> \o Then
        \o <<Sym("PARA"), Sym("LEFT_PAREN"), Sym("ITAKDA"), Id("i"), Sym("EQUAL"), Number(0),
             Sym("SEMICOLON"), Id("i"), Sym("LESS"), Number(1), Sym("SEMICOLON"), Id("i"),
             Sym("EQUAL"), Id("i"), Sym("PLUS"), Number(1), Sym("RIGHT_PAREN")>> \o Then),
      <<At("LEFT_BRACE", 5), At("LEFT_BRACE", 14), At("LEFT_BRACE", 36)>>)

NotAnExpression ==
    Test(File(<<Number(1), Sym("PLUS"), Number(2), Sym("SEMICOLON")>>
        \o Call("ISULAT", << >>) \o Call("ISULAT", <<Number(1), Sym("PLUS")>>)
        \o Call("ISULAT", <<Sym("STAR"), Number(2)>>)),
      <<At("statement", 1), At("expression", 7), At("expression", 13),
        At("expression", 17)>>)

Declared(ts) == <<Sym("ITAKDA"), Id("a"), Sym("EQUAL")>> \o ts \o <<Sym("SEMICOLON")>>

\* expression() itself takes one level, and the 64th sign is one too many.
ExceedsExpressionLimit ==
    Test(File(Declared(Append(Times("MINUS", 68), Number(1)))
              \o Declared(Append(Times("HINDI", 77), Number(1)))),
      <<At("expr", 3 + 64), At("expr", 73 + 3 + 64)>>)

\* 56 parentheses are within the limit: the file expects no error.
WithinExpressionLimit ==
    Test(File(Declared(Times("LEFT_PAREN", 56) \o <<Number(1)>>
                       \o Times("RIGHT_PAREN", 56))), << >>)

NumberExceedsLimit == Test(File(Declared(<<Number(8)>>)), <<At("number", 4)>>)

Tests == <<MissingTokens, RequiresBrace, NotAnExpression, ExceedsExpressionLimit,
           WithinExpressionLimit, NumberExceedsLimit>>

MCInputs == [k \in DOMAIN Tests |-> Tests[k].file]

\* Of each file in Tests the errors it expects are reported, at these tokens,
\* and no other: statements that follow an error are read as the file has it,
\* and a stray '}' is an error of its own (invalid_syntax_missingTokens.txt:20).
AsTested == phase = "done" => diagnostics = Tests[source].expected

-----------------------------------------------------------------------------
(* What the code does not do as its tests expect.                          *)

MinimumInputs == <<File(Declared(<<Sym("MINUS"), Number(8)>>))>>

\* invalid_syntax_numberExceedsLimit.txt:6 expects an error of the minimum
\* of int, -2147483648, on line 5, as it does of 2147483648 on line 1.
MinimumRefusedAsTestExpects == phase = "done" => diagnostics = <<At("number", 5)>>

NestingInputs ==
    <<File(Times("LEFT_BRACE", 6) \o Call("ISULAT", <<Number(1)>>)
           \o Times("RIGHT_BRACE", 6))>>

\* invalid_syntax_exceedsNestingLimit.txt:15 expects one error, of the sixth
\* block, where missingTokens.txt:19-20 lists the error that follows from one
\* as well.
NestingRefusedOnceAsTestExpects ==
    phase = "done" => diagnostics = <<At("nesting", 6)>>
=============================================================================
