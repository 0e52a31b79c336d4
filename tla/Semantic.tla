------------------------------ MODULE Semantic ------------------------------
(***************************************************************************)
(* SemanticAnalyzer (semantic.h, semantic.cpp): one walk over the tree     *)
(* that goes on after an error.  a is the analyzer's state; declared holds *)
(* the names in the order of their declarations, and a diagnostic is what  *)
(* went wrong with the place it is reported at.  visit analyzes the parts  *)
(* of a node, as in Compiler.                                              *)
(***************************************************************************)
EXTENDS TreeSets, SequencesExt

Complaint == {"undeclared", "redeclared", "sameCase", "emptyCase", "break", "continue"}

Analyzer ==
    [declared : Seq(STRING), reported : SUBSET STRING, hadError : BOOLEAN,
     diagnostics : Seq([what : Complaint, loc : Place]), loopDepth : Int,
     breakDepth : Int]

NewAnalyzer ==
    [declared |-> << >>, reported |-> {}, hadError |-> FALSE,
     diagnostics |-> << >>, loopDepth |-> 0, breakDepth |-> 0]

Error(a, what, loc) ==
    [a EXCEPT !.hadError = TRUE,
              !.diagnostics = Append(@, [what |-> what, loc |-> loc])]

\* One report per name.
ReportUndeclared(a, name, loc) ==
    IF name \in a.reported THEN [a EXCEPT !.hadError = TRUE]
    ELSE Error([a EXCEPT !.reported = @ \cup {name}], "undeclared", loc)

Used(a, name, loc) ==
    IF name \in Range(a.declared) THEN a ELSE ReportUndeclared(a, name, loc)

Declared(a, name, loc) ==
    IF name \in Range(a.declared) THEN Error(a, "redeclared", loc)
    ELSE [a EXCEPT !.declared = Append(@, name)]

\* A plausible slip: what stands on the right is not looked at.
OperandsLeft(e) ==
    IF e.kind \in UnaryKinds THEN <<e.operand>>
    ELSE IF e.kind \in BinaryKinds THEN <<e.left>>
    ELSE << >>

Operands(e) ==
    IF e.kind \in UnaryKinds THEN <<e.operand>>
    ELSE IF e.kind \in BinaryKinds THEN <<e.left, e.right>>
    ELSE << >>

AnalyzeExprNode(visit, e, a) ==
    IF e.kind = "VARIABLE" THEN Used(a, e.name, e.loc)
    ELSE Visit(visit, Operands(e), a)

AnalyzeExprUpTo[h \in Heights] ==
    [e \in ExprUpTo[h] |->
        [a \in Analyzer |-> AnalyzeExprNode(AnalyzeExprUpTo[h - 1], e, a)]]

AnalyzeExpr(e, a) == AnalyzeExprUpTo[MaxHeight][e][a]

-----------------------------------------------------------------------------
(* Statements.  tigil is at home in loops and in pili, sunod in loops.     *)

Inside(a, loops, breaks) ==
    [a EXCEPT !.loopDepth = @ + loops, !.breakDepth = @ + breaks]

\* A plausible slip: pili is entered like a loop.
EnterSwitchAsLoop(a) == Inside(a, 1, 1)

EnterLoop(a)   == Inside(a, 1, 1)
LeaveLoop(a)   == Inside(a, -1, -1)
EnterSwitch(a) == Inside(a, 0, 1)
LeaveSwitch(a) == Inside(a, 0, -1)

AnalyzeBody(visit, s, a) == LeaveLoop(visit[s.body][EnterLoop(a)])

\* The labels of a pili are distinct and no case is empty; then the bodies.
AnalyzeLabel(cases, k, a) ==
    LET seen  == {cases[j].value : j \in 1 .. k - 1}
        label == cases[k]
        b     == IF label.value \in seen THEN Error(a, "sameCase", label.loc) ELSE a
    IN  IF label.body = << >> THEN Error(b, "emptyCase", label.loc) ELSE b

AnalyzeSwitch(visit, s, a) ==
    LET turns  == 1 .. Len(s.cases)
        labels == Visit([k \in turns |-> [b \in Analyzer |-> AnalyzeLabel(s.cases, k, b)]],
                        [k \in turns |-> k], AnalyzeExpr(s.subject, a))
        bodies == Visit([case \in Range(s.cases) |->
                            [b \in Analyzer |-> Visit(visit, case.body, b)]],
                        s.cases, EnterSwitch(labels))
    IN  LeaveSwitch(bodies)

AnalyzeStmtNode(visit, s, a) ==
    CASE s.kind = "VAR_DECL" ->
            Declared(AnalyzeExpr(s.initializer, a), s.name, s.loc)
      [] s.kind = "ASSIGN"   -> Used(AnalyzeExpr(s.value, a), s.name, s.loc)
      [] s.kind = "PRINT"    -> IF s.isString THEN a ELSE AnalyzeExpr(s.expr, a)
      [] s.kind = "BLOCK"    -> Visit(visit, s.statements, a)
      [] s.kind = "IF" ->
            Visit(visit, s.elseBranch,
                  visit[s.thenBranch][AnalyzeExpr(s.condition, a)])
      [] s.kind = "WHILE"    -> AnalyzeBody(visit, s, AnalyzeExpr(s.condition, a))
      [] s.kind = "DO_WHILE" -> AnalyzeExpr(s.condition, AnalyzeBody(visit, s, a))
      [] s.kind = "FOR" ->
            AnalyzeBody(visit, s, visit[s.update][
                AnalyzeExpr(s.condition, visit[s.init][a])])
      [] s.kind = "SWITCH"   -> AnalyzeSwitch(visit, s, a)
      [] s.kind = "BREAK" ->
            IF a.breakDepth = 0 THEN Error(a, "break", s.loc) ELSE a
      [] s.kind = "CONTINUE" ->
            IF a.loopDepth = 0 THEN Error(a, "continue", s.loc) ELSE a

AnalyzeStmtUpTo[h \in Heights] ==
    [s \in StmtUpTo[h] |->
        [a \in Analyzer |-> AnalyzeStmtNode(AnalyzeStmtUpTo[h - 1], s, a)]]

Analyze(program) == Visit(AnalyzeStmtUpTo[MaxHeight], program, NewAnalyzer)
=============================================================================
