------------------------------ MODULE MCParser ------------------------------
(* The texts of trees of every shape, at and past the small limits; those   *)
(* texts with a token missing, added or changed; and every short sequence   *)
(* of tokens.                                                               *)
EXTENDS Grammar

\* SubSeq makes TLC compute the elements once, not at every application.
Computed(A)   == SubSeq(A, 1, Len(A))
Map(A, Op(_)) == Computed([k \in DOMAIN A |-> Op(A[k])])
Cross(A, B, Op(_, _)) ==
    LET n == Len(B)
    IN  Computed([k \in 1 .. Len(A) * n |-> Op(A[((k - 1) \div n) + 1],
                                               B[((k - 1) % n) + 1])])

X    == Variable("x", 0)
N(v) == LiteralInt(v, 0)
T    == LiteralBool(TRUE, 0)

-----------------------------------------------------------------------------
(* Expressions: every operator on every other, and everything on minus.    *)

Shapes == <<"OR", "AND", "LT", "EQ", "ADD", "SUB", "MUL", "MOD">>
Applied(op, a, b) == IF op \in {"OR", "AND"} THEN LogicalExpr(op, a, b, 0)
                     ELSE BinaryExpr(op, a, b, 0)
Neg(e)  == UnaryNeg(e, 0)
Not(e)  == UnaryNot(e, 0)
Leaves  == <<X, T, N(3), N(-4), N(4), N(-5), ReadExpr(0)>>
Simple  == Map(Shapes, LAMBDA op : Applied(op, X, N(-1))) \o Map(Leaves, Neg)
           \o Map(Leaves, Not)
Double  == Cross(Shapes, Simple, LAMBDA op, e : Applied(op, e, X))
           \o Cross(Shapes, Simple, LAMBDA op, e : Applied(op, N(3), e))
           \o Map(Simple, Neg) \o Map(Simple, Not)
Exprs   == Leaves \o Simple \o Double \o Map(Double, Not) \o Map(Double, Neg)
           \o <<Not(Neg(Neg(X))), Neg(Not(Not(X))), Not(Not(Not(Not(X))))>>

-----------------------------------------------------------------------------
(* Statements in statements, up to three levels.                           *)

Assigned  == AssignStmt("x", X, 0)
Flat      == <<VarDeclStmt("x", T, 0), Assigned, AssignStmt("x", ReadExpr(0), 1),
               AssignStmt("x", ReadExpr(1), 0), PrintExpr(T, 0), PrintString("", 0),
               BreakStmt(0), ContinueStmt(0)>>
Braces(ss) == BlockStmt(ss, 0)
Wrap(how, s) ==
    CASE how = 1 -> Braces(<<s>>)
      [] how = 2 -> WhileStmt(T, Braces(<<s>>), 0)
      [] how = 3 -> DoWhileStmt(Braces(<<s>>), T, 0)
      [] how = 4 -> ForStmt(Assigned, X, Assigned, Braces(<<s>>), 0)
      [] how = 5 -> ForStmt(VarDeclStmt("x", T, 0), X, Assigned, Braces(<<s, Assigned>>), 0)
      [] how = 6 -> IfStmt(T, Braces(<<s>>), << >>, 0)
      [] how = 7 -> IfStmt(T, Braces(<< >>), <<Braces(<<s>>)>>, 0)
      [] how = 8 -> IfStmt(T, Braces(<<Assigned>>), <<IfStmt(X, Braces(<<s>>), << >>, 0)>>, 0)
      [] how = 9 -> SwitchStmt(X, <<SwitchCase(0, <<s, Assigned>>, 0),
                                    SwitchCase(-4, <<s>>, 0)>>, 0)
      [] how = 10 -> SwitchStmt(X, <<SwitchCase(3, << >>, 0), SwitchCase(-1, <<s>>, 0)>>, 0)
      [] how = 11 -> IfStmt(T, Braces(<<Assigned>>),
                        <<IfStmt(X, Braces(<<s>>), <<IfStmt(X, Braces(<< >>), << >>, 0)>>, 0)>>, 0)

Ways   == [k \in 1 .. 11 |-> k]
Once   == Cross(Ways, Flat, Wrap)
Twice  == Cross(Ways, Once, Wrap)
Thrice == Cross(Ways, Cross(Ways, Cross(Ways, <<BreakStmt(0)>>, Wrap), Wrap), Wrap)

MCCanonical ==
    <<<< >>>> \o Map(Exprs, LAMBDA e : <<PrintExpr(e, 0)>>)
    \o Map(Flat \o Once \o Twice \o Thrice, LAMBDA s : <<s>>)
    \o Cross(Flat, Flat, LAMBDA s, t : <<s, t>>)
    \o Map(<<4, -5>>, LAMBDA v : <<SwitchStmt(X, <<SwitchCase(v, << >>, 0)>>, 0)>>)

-----------------------------------------------------------------------------
(* Texts with one token wrong.                                             *)

Alphabet == <<Symbol("LEFT_PAREN"), Symbol("RIGHT_PAREN"), Symbol("LEFT_BRACE"),
              Symbol("RIGHT_BRACE"), Symbol("SEMICOLON"), Symbol("MINUS"),
              Symbol("ISULAT"), Symbol("KUNIN"), Symbol("TIGIL"), Identifier("x"),
              Number(4), Str("")>>

Before(ts, k) == SubSeq(ts, 1, k - 1)
From(ts, k)   == SubSeq(ts, k, Len(ts))
Damaged(ts) ==
    LET places == [k \in 1 .. Len(ts) - 1 |-> k]
    IN  Map(places, LAMBDA k : Before(ts, k) \o From(ts, k + 1))
        \o Map(places, LAMBDA k : Append(Before(ts, k), EndOfFile))
        \o Cross(places, Alphabet, LAMBDA k, t : Before(ts, k) \o <<t>> \o From(ts, k + 1))
        \o Cross(places, Alphabet, LAMBDA k, t : Before(ts, k) \o <<t>> \o From(ts, k))

Sound ==
    Map(Ways, LAMBDA w : ProgramText(<<Wrap(w, PrintString("", 0)), Assigned>>))
    \o Map(<<VarDeclStmt("x", Not(N(-1)), 0),
             PrintExpr(BinaryExpr("ADD", X, Neg(ReadExpr(0)), 0), 0)>>,
           LAMBDA s : ProgramText(<<s>>))

\* A long chain of each thing that nests.
Repeated(t, n) == [k \in 1 .. n |-> Symbol(t)]
Chains ==
    Map(<<"LEFT_PAREN", "HINDI", "MINUS">>, LAMBDA t :
        Sym("ISULAT") \o Sym("LEFT_PAREN") \o Repeated(t, 50) \o <<EndOfFile>>)
    \o <<Repeated("LEFT_BRACE", 20) \o Repeated("RIGHT_BRACE", 20) \o <<EndOfFile>>>>

\* Every short sequence, and every short sequence behind `isulat(`.
Longer(A) == Cross(Alphabet, A, LAMBDA t, ts : <<t>> \o ts)
Short1 == Map(Alphabet, LAMBDA t : <<t, EndOfFile>>)
Short2 == Longer(Short1)
Short3 == Longer(Short2)
Short  == Short1 \o Short2 \o Short3
          \o Map(Short3, LAMBDA ts : Sym("ISULAT") \o Sym("LEFT_PAREN") \o ts)

Texts ==
    Map(MCCanonical, ProgramText) \o Chains \o Short
    \o FlattenSeq(Map(Sound, Damaged))


\* A name of its own, so that TLC computes the texts once.
MCInputs == Texts
=============================================================================
