------------------------------- MODULE Syntax -------------------------------
(***************************************************************************)
(* The abstract syntax tree (ast.h): one constructor per node class.  A    *)
(* node is a record; loc stands for its line and column, and a slot is -1  *)
(* until the tree-walking interpreter resolves it.  The two payloads of a  *)
(* literal have names of their own.                                        *)
(***************************************************************************)
EXTENDS Integers, Sequences

Unresolved == -1

-----------------------------------------------------------------------------
(* Expressions.                                                            *)

LiteralInt(v, l)  == [kind |-> "LITERAL_INT", loc |-> l, int |-> v]
LiteralBool(b, l) == [kind |-> "LITERAL_BOOL", loc |-> l, bool |-> b]
Variable(n, l)    == [kind |-> "VARIABLE", loc |-> l, name |-> n,
                      slot |-> Unresolved]
UnaryNeg(e, l)    == [kind |-> "UNARY_NEG", loc |-> l, operand |-> e]
UnaryNot(e, l)    == [kind |-> "UNARY_NOT", loc |-> l, operand |-> e]
ReadExpr(l)       == [kind |-> "READ", loc |-> l]

BinaryExpr(op, x, y, l) ==
    [kind |-> "BINARY", loc |-> l, op |-> op, left |-> x, right |-> y]
LogicalExpr(op, x, y, l) ==
    [kind |-> "LOGICAL", loc |-> l, op |-> op, left |-> x, right |-> y]

UnaryKinds  == {"UNARY_NEG", "UNARY_NOT"}
BinaryKinds == {"BINARY", "LOGICAL"}

-----------------------------------------------------------------------------
(* Statements.  A missing else branch is the empty sequence.  basahin(x)   *)
(* is an assignment of a read expression.                                  *)

IfStmt(c, t, e, l) ==
    [kind |-> "IF", loc |-> l, condition |-> c, thenBranch |-> t,
     elseBranch |-> e]
WhileStmt(c, b, l) == [kind |-> "WHILE", loc |-> l, condition |-> c, body |-> b]
DoWhileStmt(b, c, l) ==
    [kind |-> "DO_WHILE", loc |-> l, condition |-> c, body |-> b]
ForStmt(i, c, u, b, l) ==
    [kind |-> "FOR", loc |-> l, init |-> i, condition |-> c, update |-> u,
     body |-> b]
SwitchCase(v, b, l) == [kind |-> "CASE", value |-> v, body |-> b, loc |-> l]
SwitchStmt(e, cs, l) == [kind |-> "SWITCH", loc |-> l, subject |-> e, cases |-> cs]
BreakStmt(l)      == [kind |-> "BREAK", loc |-> l]
ContinueStmt(l)   == [kind |-> "CONTINUE", loc |-> l]
BlockStmt(ss, l)  == [kind |-> "BLOCK", loc |-> l, statements |-> ss]
AssignStmt(n, e, l) ==
    [kind |-> "ASSIGN", loc |-> l, name |-> n, value |-> e, slot |-> Unresolved]
VarDeclStmt(n, e, l) ==
    [kind |-> "VAR_DECL", loc |-> l, name |-> n, initializer |-> e,
     slot |-> Unresolved]
PrintExpr(e, l)   == [kind |-> "PRINT", loc |-> l, isString |-> FALSE, expr |-> e]
PrintString(s, l) ==
    [kind |-> "PRINT", loc |-> l, isString |-> TRUE, stringLiteral |-> s]
=============================================================================
