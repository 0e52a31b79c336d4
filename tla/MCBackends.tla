----------------------------- MODULE MCBackends -----------------------------
(* Programs by templates: every pair of simple statements in every kind of  *)
(* loop and branch, those inside every kind of loop and pili again, and     *)
(* expressions that can fail in every way.  A node of a template stands at  *)
(* a place of its own.                                                      *)
EXTENDS Backends

X(l) == Variable("x", l)
N(v, l) == LiteralInt(v, l)
Block(ss, l) == BlockStmt(ss, l)
Less(v, l) == BinaryExpr("LT", X(l), N(v, l), l + 1)
Increment(l) == AssignStmt("x", BinaryExpr("ADD", X(l), N(1, l), l + 1), l)

Simple(l) == {Increment(l), PrintExpr(X(l), l), BreakStmt(l), ContinueStmt(l)}
Pairs(l)  == {<<a, b>> : a \in Simple(l), b \in Simple(l + 3)}

\* The loops around a body, starting with the x at hand (para starts at 0).
Loops(ss, l) ==
    {WhileStmt(Less(2, l), Block(ss, l), l),
     DoWhileStmt(Block(ss, l), Less(2, l), l),
     ForStmt(AssignStmt("x", N(0, l), l), Less(2, l + 2), Increment(l + 4),
             Block(ss, l), l)}

\* Two statements in the branches: both in one, or one in each.
Branches(p, l) ==
    {IfStmt(Less(1, l), Block(<<p[1]>>, l), <<Block(<<p[2]>>, l)>>, l),
     SwitchStmt(X(l), <<SwitchCase(0, <<p[1]>>, l + 2),
                        SwitchCase(1, <<p[2]>>, l + 3)>>, l)}

Inner(l) == UNION {Branches(p, l) \cup Loops(p, l) : p \in Pairs(l + 10)}

Program(ss) ==
    <<VarDeclStmt("x", ReadExpr(1), 2)>> \o ss \o <<PrintExpr(X(99), 99)>>

Flat   == {Program(<<s>>) : s \in Inner(10)}
Nested ==
    {Program(<<o>>) : o \in UNION {Loops(<<s, Increment(50)>>, 40) : s \in Inner(10)}}

\* pili in pili in a loop: a jump leaves two subjects, or one.
Deep ==
    {Program(<<WhileStmt(Less(2, 10), Block(<<
        SwitchStmt(X(20), <<SwitchCase(0, <<
            SwitchStmt(X(30), <<SwitchCase(0, <<p[1]>>, 31),
                                SwitchCase(1, <<Increment(33)>>, 32)>>, 30),
            p[2]>>, 21), SwitchCase(1, <<Increment(23)>>, 22)>>, 20)>>, 10), 10)>>) :
        p \in Pairs(50)}

-----------------------------------------------------------------------------
(* Expressions: a leaf may be anything, a name defined on one path only and *)
(* a read included.                                                         *)

Leaves(l) == {X(l), Variable("y", l), ReadExpr(l), LiteralBool(TRUE, l),
              UnaryNeg(X(l), l + 1), UnaryNot(X(l), l + 1)}

Operators == {"SUB", "DIV", "MOD", "LE", "NEQ"}

Expressions ==
    {BinaryExpr(op, a, b, 75) : op \in Operators, a \in Leaves(70), b \in Leaves(80)}
    \cup {LogicalExpr(op, a, b, 75) :
            op \in {"AND", "OR"}, a \in Leaves(70), b \in Leaves(80)}

Computing ==
    {Program(<<IfStmt(X(60), Block(<<VarDeclStmt("y", N(-1, 61), 62)>>, 60), << >>, 60),
               PrintExpr(e, 65)>>) : e \in Expressions}

\* Names and labels the analyzer objects to, jumps outside, and text.
Objectionable ==
    {Program(<<s>>) : s \in Simple(10)
        \cup {AssignStmt("z", X(11), 12), VarDeclStmt("x", N(0, 11), 12),
              PrintExpr(BinaryExpr("ADD", X(11), Variable("z", 12), 13), 14),
              PrintString("totoo", 12),
              SwitchStmt(X(11), <<SwitchCase(0, << >>, 12)>>, 13),
              SwitchStmt(X(11), <<SwitchCase(0, <<PrintExpr(X(14), 14)>>, 12),
                                  SwitchCase(0, <<Increment(15)>>, 13)>>, 13)}}
    \cup {<< >>}

MCPrograms == Flat \cup Nested \cup Deep \cup Computing \cup Objectionable

MCInputs == {<<0>>, <<1, -1>>, <<-4>>, <<2, 1, 0>>}
NoJobs   == {}
=============================================================================
