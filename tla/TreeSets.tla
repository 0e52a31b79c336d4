------------------------------ MODULE TreeSets ------------------------------
(***************************************************************************)
(* The trees that the stages behind the parser are given, by their height: *)
(* the classes of ast.h with parts that are lower.  A walk over the tree,  *)
(* which is a recursive function of the code, is a function of the height  *)
(* here.  Every tree has a height, so MaxHeight bounds no more than TLC's  *)
(* runs do.                                                                *)
(***************************************************************************)
EXTENDS Value, Syntax

CONSTANT MaxHeight

ASSUME MaxHeightAssumption == MaxHeight \in Nat

Place == Nat       \* line and column

-----------------------------------------------------------------------------
(* Expressions.                                                            *)

BinOp == {"ADD", "SUB", "MUL", "DIV", "MOD", "GT", "GE", "LT", "LE", "EQ", "NEQ"}
LogOp == {"AND", "OR"}

LiteralIntNode  == [kind : {"LITERAL_INT"}, loc : Place, int : CInt]
LiteralBoolNode == [kind : {"LITERAL_BOOL"}, loc : Place, bool : BOOLEAN]
VariableNode    == [kind : {"VARIABLE"}, loc : Place, name : STRING, slot : Int]
ReadNode        == [kind : {"READ"}, loc : Place]
UnaryNode(E)    == [kind : UnaryKinds, loc : Place, operand : E]
BinaryNode(E)   == [kind : {"BINARY"}, loc : Place, op : BinOp, left : E, right : E]
LogicalNode(E)  == [kind : {"LOGICAL"}, loc : Place, op : LogOp, left : E, right : E]

ExprOver(E) ==
    LiteralIntNode \cup LiteralBoolNode \cup VariableNode \cup ReadNode
    \cup UnaryNode(E) \cup BinaryNode(E) \cup LogicalNode(E)

Heights == 0 .. MaxHeight

\* The expressions of at most h levels.
ExprUpTo[h \in Heights] ==
    IF h = 0 THEN {} ELSE LET E == ExprUpTo[h - 1] IN ExprOver(E)

Expr == ExprUpTo[MaxHeight]

-----------------------------------------------------------------------------
(* Statements over statements S.                                           *)

AssignNode    == [kind : {"ASSIGN"}, loc : Place, name : STRING, value : Expr, slot : Int]
VarDeclNode   == [kind : {"VAR_DECL"}, loc : Place, name : STRING, initializer : Expr,
                  slot : Int]
PrintExprNode == [kind : {"PRINT"}, loc : Place, isString : {FALSE}, expr : Expr]
PrintTextNode == [kind : {"PRINT"}, loc : Place, isString : {TRUE},
                  stringLiteral : STRING]
JumpNode      == [kind : {"BREAK", "CONTINUE"}, loc : Place]
BlockNode(S)  == [kind : {"BLOCK"}, loc : Place, statements : Seq(S)]
IfNode(S)     == [kind : {"IF"}, loc : Place, condition : Expr, thenBranch : S,
                  elseBranch : Seq(S)]
LoopNode(S)   == [kind : {"WHILE", "DO_WHILE"}, loc : Place, condition : Expr, body : S]
ForNode(S)    == [kind : {"FOR"}, loc : Place, init : S, condition : Expr,
                  update : {s \in S : s.kind = "ASSIGN"}, body : S]
CaseNode(S)   == [kind : {"CASE"}, value : CInt, body : Seq(S), loc : Place]
SwitchNode(S) == [kind : {"SWITCH"}, loc : Place, subject : Expr, cases : Seq(CaseNode(S))]

StmtOver(S) ==
    AssignNode \cup VarDeclNode \cup PrintExprNode \cup PrintTextNode \cup JumpNode
    \cup BlockNode(S) \cup IfNode(S) \cup LoopNode(S) \cup ForNode(S) \cup SwitchNode(S)

\* The statements of at most h levels of statements.
StmtUpTo[h \in Heights] ==
    IF h = 0 THEN {} ELSE LET S == StmtUpTo[h - 1] IN StmtOver(S)

Stmt == StmtUpTo[MaxHeight]

-----------------------------------------------------------------------------
(* A loop over a list: visit[x] takes the state before x to the one behind.*)

Visit(visit, xs, state) ==
    LET after[k \in 0 .. Len(xs)] ==
            IF k = 0 THEN state ELSE visit[xs[k]][after[k - 1]]
    IN  after[Len(xs)]
=============================================================================
