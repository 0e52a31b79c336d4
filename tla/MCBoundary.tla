----------------------------- MODULE MCBoundary -----------------------------
(* The program test/valid/boundary_int.txt, through analyzer, compiler and  *)
(* virtual machine, and the lines it expects.  IntMax is 15 here, for       *)
(* 2147483647 there; a node stands at its line.  The parser has read the    *)
(* minus sign of a literal as a part of it.                                 *)
EXTENDS Pipeline

Prints(op, a, b, line) ==
    PrintExpr(BinaryExpr(op, LiteralInt(a, line), LiteralInt(b, line), line), line)

BoundaryInt ==
    <<VarDeclStmt("i", LiteralInt(IntMax, 1), 1),
      PrintExpr(Variable("i", 2), 2),
      PrintExpr(BinaryExpr("SUB", Variable("i", 3), LiteralInt(1, 3), 3), 3),
      Prints("DIV", 7, 2, 4),
      Prints("DIV", -7, 2, 5),
      Prints("MOD", 7, 3, 6),
      Prints("MOD", -7, 3, 7)>>

MCPrograms == {BoundaryInt}
MCInputs   == {<< >>}
NoJobs     == {}

\* What boundary_int.txt:2-7 expects of each line.  3.5 is no value of the
\* language, so that it can only be the text of a line.
Expected == <<IntLine(IntMax), IntLine(IntMax - 1), TextLine("3.5"), IntLine(-9),
              IntLine(1), IntLine(2)>>

\* boundary_int.txt expects 7 / 2 to print 3.5 (line 4), -7 / 2 to print -9
\* (line 5) and -7 % 3 to print 2 (line 7).  The code's division truncates:
\* 3, -3 and -1, as arithmetic.txt:7, 8 and 13 expect of the same expressions.
PrintsAsBoundaryTestExpects == phase = "done" /\ ok => output = Expected
=============================================================================
