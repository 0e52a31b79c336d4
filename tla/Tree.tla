-------------------------------- MODULE Tree --------------------------------
(***************************************************************************)
(* The nodes of a syntax tree, and the shape that the stages behind the    *)
(* parser take for granted: they cast a node to its class and follow its   *)
(* pointers without a test.                                                *)
(***************************************************************************)
EXTENDS Value, Syntax, Functions

ExprKinds == {"LITERAL_INT", "LITERAL_BOOL", "VARIABLE", "READ"}
             \cup UnaryKinds \cup BinaryKinds
StmtKinds == {"VAR_DECL", "ASSIGN", "PRINT", "BLOCK", "IF", "WHILE", "DO_WHILE", "FOR",
              "SWITCH", "BREAK", "CONTINUE"}

-----------------------------------------------------------------------------
(* The parts of a node.                                                    *)

Operands(e) ==
    CASE e.kind \in UnaryKinds  -> {e.operand}
      [] e.kind \in BinaryKinds -> {e.left, e.right}
      [] OTHER -> {}

\* The statements and the expressions directly in a statement or a case.
Children(s) ==
    CASE s.kind = "BLOCK" -> Range(s.statements)
      [] s.kind = "CASE" -> Range(s.body)
      [] s.kind = "IF" -> {s.thenBranch} \cup Range(s.elseBranch)
      [] s.kind \in {"WHILE", "DO_WHILE"} -> {s.body}
      [] s.kind = "FOR" -> {s.init, s.update, s.body}
      [] s.kind = "SWITCH" -> Range(s.cases)
      [] OTHER -> {}

Expressions(s) ==
    CASE s.kind = "VAR_DECL" -> {s.initializer}
      [] s.kind = "ASSIGN" -> {s.value}
      [] s.kind = "PRINT" -> IF s.isString THEN {} ELSE {s.expr}
      [] s.kind \in {"IF", "WHILE", "DO_WHILE", "FOR"} -> {s.condition}
      [] s.kind = "SWITCH" -> {s.subject}
      [] OTHER -> {}

Parts(n) == Operands(n) \cup Children(n) \cup Expressions(n)

\* The nodes in the first h levels below a set of roots.
PartsOf(ns) == UNION {Parts(n) : n \in ns}
Levels(roots, h) ==
    LET level[k \in 0 .. h] == IF k = 0 THEN roots ELSE PartsOf(level[k - 1])
    IN  level

Nodes(roots, h) == UNION Range(Levels(roots, h))

-----------------------------------------------------------------------------
(* What a node has as its parts.  Bodies of loops and branches are blocks, *)
(* the update of para assigns, and an else branch is a block or an if.     *)

IsExpr(n) == n.kind \in ExprKinds
IsStmt(n) == n.kind \in StmtKinds

Shaped(n) ==
    CASE n.kind = "LITERAL_INT" -> n.int \in CInt
      [] n.kind \in UnaryKinds -> IsExpr(n.operand)
      [] n.kind \in BinaryKinds -> IsExpr(n.left) /\ IsExpr(n.right)
      [] n.kind = "VAR_DECL" -> IsExpr(n.initializer)
      [] n.kind = "ASSIGN" -> IsExpr(n.value)
      [] n.kind = "PRINT" -> n.isString \/ IsExpr(n.expr)
      [] n.kind = "BLOCK" -> \A s \in Range(n.statements) : IsStmt(s)
      [] n.kind = "IF" ->
            /\ IsExpr(n.condition) /\ n.thenBranch.kind = "BLOCK"
            /\ Len(n.elseBranch) <= 1
            /\ \A s \in Range(n.elseBranch) : s.kind \in {"BLOCK", "IF"}
      [] n.kind \in {"WHILE", "DO_WHILE"} -> IsExpr(n.condition) /\ n.body.kind = "BLOCK"
      [] n.kind = "FOR" ->
            /\ n.init.kind \in {"VAR_DECL", "ASSIGN"} /\ IsExpr(n.condition)
            /\ n.update.kind = "ASSIGN" /\ n.body.kind = "BLOCK"
      [] n.kind = "SWITCH" ->
            IsExpr(n.subject) /\ \A c \in Range(n.cases) : c.kind = "CASE"
      [] n.kind = "CASE" -> n.value \in CInt /\ \A s \in Range(n.body) : IsStmt(s)
      [] OTHER -> TRUE
=============================================================================
