------------------------------ MODULE Grammar ------------------------------
(***************************************************************************)
(* What the parser promises, stated without it: the text of a tree with no *)
(* parenthesis but the necessary ones, and what the limits of parser.h     *)
(* allow a tree.  Canonical holds trees; the first inputs are their texts. *)
(***************************************************************************)
EXTENDS Parser

CONSTANT Canonical    \* a sequence of programs

-----------------------------------------------------------------------------
(* The text of a tree.  An expression of a lower precedence than its place *)
(* asks for stands in parentheses.                                         *)

Precedence(e) ==
    CASE e.kind = "LOGICAL"   -> IF e.op = "OR" THEN 1 ELSE 2
      [] e.kind = "UNARY_NOT" -> 3
      [] e.kind = "BINARY"    -> IF TokenOf(e.op) \in RelationalOps THEN 4
                                 ELSE IF e.op \in {"ADD", "SUB"} THEN 5 ELSE 6
      [] e.kind = "UNARY_NEG" -> 7
      [] e.kind = "LITERAL_INT" -> IF e.int < 0 THEN 7 ELSE 8
      [] OTHER -> 8

\* A minus before a number would be its sign.
Operand1(e) == IF e.kind = "UNARY_NEG" /\ e.operand.kind = "LITERAL_INT" /\ e.operand.int >= 0
               THEN 9 ELSE Precedence(e)

Sym(t) == <<Symbol(t)>>

RECURSIVE Text(_, _)

PlainText(e) ==
    CASE e.kind = "LITERAL_INT" ->
            IF e.int < 0 THEN <<Symbol("MINUS"), Number(-e.int)>> ELSE <<Number(e.int)>>
      [] e.kind = "LITERAL_BOOL" -> Sym(IF e.bool THEN "TOTOO" ELSE "MALI")
      [] e.kind = "VARIABLE"  -> <<Identifier(e.name)>>
      [] e.kind = "READ"      -> Sym("BASAHIN") \o Sym("LEFT_PAREN") \o Sym("RIGHT_PAREN")
      [] e.kind = "UNARY_NOT" -> Sym("HINDI") \o Text(e.operand, 3)
      [] e.kind = "UNARY_NEG" -> Sym("MINUS") \o Text(e.operand, Operand1(e))
      [] e.kind = "BINARY"    -> Text(e.left, Precedence(e)) \o Sym(TokenOf(e.op))
                                 \o Text(e.right, Precedence(e) + 1)
      [] e.kind = "LOGICAL"   -> Text(e.left, Precedence(e))
                                 \o Sym(IF e.op = "OR" THEN "O" ELSE "AT")
                                 \o Text(e.right, Precedence(e) + 1)

Parenthesised(ts) == Sym("LEFT_PAREN") \o ts \o Sym("RIGHT_PAREN")

Text(e, place) ==
    IF Precedence(e) < place THEN Parenthesised(PlainText(e)) ELSE PlainText(e)

ExprText(e) == Text(e, 1)

RECURSIVE StmtText(_)

StmtsText(ss) == FlattenSeq([k \in DOMAIN ss |-> StmtText(ss[k])])
Braced(ts)    == Sym("LEFT_BRACE") \o ts \o Sym("RIGHT_BRACE")
Condition(e)  == Parenthesised(ExprText(e))
Assignment(s) == <<Identifier(s.name), Symbol("EQUAL")>> \o ExprText(IF s.kind = "ASSIGN"
                    THEN s.value ELSE s.initializer)

\* basahin(x) is known by its read, which stands before the name.
ReadsInto(s) == s.value.kind = "READ" /\ s.value.loc < s.loc

CaseText(c) == Sym("KASO") \o PlainText(LiteralInt(c.value, c.loc)) \o Sym("COLON")
               \o StmtsText(c.body)

StmtText(s) ==
    CASE s.kind = "VAR_DECL" -> Sym("ITAKDA") \o Assignment(s) \o Sym("SEMICOLON")
      [] s.kind = "ASSIGN" ->
            (IF ReadsInto(s)
             THEN Sym("BASAHIN") \o Parenthesised(<<Identifier(s.name)>>)
             ELSE Assignment(s)) \o Sym("SEMICOLON")
      [] s.kind = "PRINT" ->
            Sym("ISULAT") \o Parenthesised(IF s.isString THEN <<Str(s.stringLiteral)>>
                                           ELSE ExprText(s.expr)) \o Sym("SEMICOLON")
      [] s.kind = "BLOCK" -> Braced(StmtsText(s.statements))
      [] s.kind = "IF" ->
            Sym("KUNG") \o Condition(s.condition) \o StmtText(s.thenBranch)
            \o (IF s.elseBranch = << >> THEN << >>
                ELSE Sym("KUNG_HINDI") \o StmtText(s.elseBranch[1]))
      [] s.kind = "WHILE" ->
            Sym("HABANG") \o Condition(s.condition) \o StmtText(s.body)
      [] s.kind = "DO_WHILE" ->
            Sym("GAWIN") \o StmtText(s.body) \o Sym("HABANG") \o Condition(s.condition)
            \o Sym("SEMICOLON")
      [] s.kind = "FOR" ->
            Sym("PARA") \o Parenthesised(StmtText(s.init) \o ExprText(s.condition)
                               \o Sym("SEMICOLON") \o Assignment(s.update))
            \o StmtText(s.body)
      [] s.kind = "SWITCH" ->
            Sym("PILI") \o Condition(s.subject)
            \o Braced(FlattenSeq([k \in DOMAIN s.cases |-> CaseText(s.cases[k])]))
      [] s.kind = "BREAK"    -> Sym("TIGIL") \o Sym("SEMICOLON")
      [] s.kind = "CONTINUE" -> Sym("SUNOD") \o Sym("SEMICOLON")

ProgramText(p) == Append(StmtsText(p), EndOfFile)

ASSUME CanonicalAssumption ==
    LET texts == [k \in DOMAIN Canonical |-> ProgramText(Canonical[k])]
    IN  IsPrefix(texts, Inputs)

-----------------------------------------------------------------------------
(* The guards a tree needs at a time.  An expression needs one, and every  *)
(* parenthesis, hindi and minus in it one more.                            *)

MaxOf(S) == Max(S \cup {0})

RECURSIVE ExprCost(_, _)
ExprCost(e, place) ==
    (IF Precedence(e) < place THEN 1 ELSE 0)
    + CASE e.kind = "UNARY_NOT" -> 1 + ExprCost(e.operand, 3)
        [] e.kind = "UNARY_NEG" -> 1 + ExprCost(e.operand, Operand1(e))
        [] e.kind \in BinaryKinds ->
              MaxOf({ExprCost(e.left, Precedence(e)), ExprCost(e.right, Precedence(e) + 1)})
        [] OTHER -> 0

RECURSIVE NestingCost(_), ElseCost(_)
NestingCost(s) ==
    (IF s.kind \in {"BLOCK", "SWITCH"} THEN 1 ELSE 0)
    + MaxOf({NestingCost(c) : c \in Children(s)})

Chained(s) == IF s.kind = "IF" THEN {b \in Range(s.elseBranch) : b.kind = "IF"} ELSE {}
ElseCost(s) == MaxOf({ElseCost(c) : c \in Children(s) \ Chained(s)}
                     \cup {1 + ElseCost(b) : b \in Chained(s)})

WithinLimits(p) ==
    /\ \A s \in Range(p) : /\ NestingCost(s) <= MAX_NESTING_DEPTH
                           /\ ElseCost(s) <= MAX_ELSE_CHAIN
    /\ \A n \in Nodes(Range(p), Len(ProgramText(p))) :
          /\ \A e \in Expressions(n) : 1 + ExprCost(e, 1) <= MAX_EXPR_DEPTH
          /\ n.kind = "LITERAL_INT" => n.int \in CInt
          /\ n.kind = "CASE" => n.value \in CInt

-----------------------------------------------------------------------------
(* Properties.                                                             *)

Parsed == phase = "done" /\ diagnostics = << >>

\* The tree of a text without needless parentheses is the one it was written
\* from: precedence, associativity and the extent of every statement.
RoundTrip ==
    Parsed /\ source \in DOMAIN Canonical => ProgramText(program) = tokens

\* A program is refused exactly if it exceeds a limit of parser.h or has a
\* number that int does not hold; no failure leaks a count into the next one.
LimitsExact ==
    phase = "done" /\ source \in DOMAIN Canonical
        => ((diagnostics = << >>) <=> WithinLimits(Canonical[source]))

\* Two keywords have a synonym, and parentheses are all the tree does without.
Plain(t) ==
    CASE t.type = "KUNIN"   -> Symbol("BASAHIN")
      [] t.type = "IPAKITA" -> Symbol("ISULAT")
      [] OTHER -> t
Skeleton(ts) ==
    LET bare == SelectSeq(ts, LAMBDA t : t.type \notin {"LEFT_PAREN", "RIGHT_PAREN"})
    IN  [k \in DOMAIN bare |-> Plain(bare[k])]

\* The value of -0 is 0, and its sign is not in the tree.
SignedZero ==
    \E k \in 2 .. Len(tokens) : tokens[k] = Number(0) /\ tokens[k - 1].type = "MINUS"

\* Whatever is accepted is in the tree to the last token, in its order: no
\* token is skipped in silence and none is read twice.
NothingLost == Parsed /\ ~SignedZero => Skeleton(ProgramText(program)) = Skeleton(tokens)
=============================================================================
