---------------------------- MODULE ParserProofs ----------------------------
(***************************************************************************)
(* Theorems about the Parser module, for every token sequence the lexer    *)
(* may return, every limit and every width of int.                         *)
(*                                                                         *)
(* Most actions replace the goal by the goals of a body.  What matters of  *)
(* a body is in Body: its goals hold no guard, and none of them lets the   *)
(* stack grow past a height that its rule has.                             *)
(*                                                                         *)
(* The steps of the functions are of three kinds: a function goes on or    *)
(* returns, it goes on under a new guard, or it throws.  The invariants    *)
(* are shown for the kinds, and then for the few steps of another kind.    *)
(***************************************************************************)
EXTENDS Parser, SequenceTheorems, FiniteSetTheorems, TLAPS

USE DEF Counter

-----------------------------------------------------------------------------
(* Token sequences.                                                        *)

\* A token that is not the last one has a successor.
LEMMA TokensLemma ==
    ASSUME source \in DOMAIN Inputs, tokens = Inputs[source]
    PROVE  /\ tokens \in Seq(Token)
           /\ Len(tokens) \in Nat \ {0} /\ DOMAIN tokens = 1 .. Len(tokens)
           /\ \A p \in DOMAIN tokens :
                /\ tokens[p] \in Token
                /\ tokens[p].type \in TokenType
                /\ tokens[p].type = "END_OF_FILE" <=> p = Len(tokens)
<1>1. TokenSequence(tokens)
  BY InputsAssumption DEF Range
<1>2. /\ tokens \in Seq(Token) /\ Len(tokens) >= 1
      /\ \A i \in 1 .. Len(tokens) : tokens[i].type = "END_OF_FILE" <=> i = Len(tokens)
  BY <1>1 DEF TokenSequence
<1>3. Len(tokens) \in Nat /\ DOMAIN tokens = 1 .. Len(tokens)
  BY <1>2, LenProperties, SMTT(30)
<1>4. \A p \in DOMAIN tokens : tokens[p] \in Token
  BY <1>2, <1>3, ElementOfSeq
<1>5. \A t \in Token : t.type \in TokenType
  BY DEF Token, TokenType, Literals
<1>6. Len(tokens) \in Nat \ {0}
  <2>1. \A n \in Nat : n >= 1 => n \in Nat \ {0}
    OBVIOUS
  <2> QED
    BY <1>2, <1>3, <2>1, Zenon
<1>7. \A p \in DOMAIN tokens : tokens[p].type \in TokenType
  BY <1>4, <1>5, SMTT(30)
<1>8. \A p \in DOMAIN tokens : tokens[p].type = "END_OF_FILE" <=> p = Len(tokens)
  BY <1>2, <1>3
<1> QED
  BY <1>2, <1>3, <1>4, <1>6, <1>7, <1>8

-----------------------------------------------------------------------------
(* Counting the elements of a sequence that are in a set.                  *)

Below(s, S, k) == {j \in 1 .. k - 1 : s[j] \in S}
Count(s, S)    == Cardinality(Below(s, S, Len(s) + 1))

LEMMA BelowFinite ==
    ASSUME NEW s, NEW S, NEW k \in Nat
    PROVE  /\ IsFiniteSet(Below(s, S, k))
           /\ Cardinality(Below(s, S, k)) \in Nat
<1>1. IsFiniteSet(1 .. k - 1)
  BY FS_Interval
<1>2. Below(s, S, k) \in SUBSET (1 .. k - 1)
  BY DEF Below
<1>3. IsFiniteSet(Below(s, S, k))
  BY <1>1, <1>2, FS_Subset
<1> QED
  BY <1>3, FS_CardinalityType

LEMMA BelowAgrees ==
    ASSUME NEW s, NEW t, NEW S, NEW k \in Nat, \A j \in 1 .. k - 1 : s[j] = t[j]
    PROVE  Below(s, S, k) = Below(t, S, k)
BY DEF Below

\* Elements outside S do not count.
LEMMA BelowSkips ==
    ASSUME NEW s, NEW S, NEW m \in Nat, NEW k \in Nat, m <= k,
           \A j \in m .. k - 1 : s[j] \notin S
    PROVE  Below(s, S, k) = Below(s, S, m)
BY DEF Below

LEMMA BelowCounts ==
    ASSUME NEW s, NEW S, NEW k \in Nat \ {0}, s[k] \in S
    PROVE  Cardinality(Below(s, S, k + 1)) = Cardinality(Below(s, S, k)) + 1
<1>1. Below(s, S, k + 1) = Below(s, S, k) \cup {k} /\ k \notin Below(s, S, k)
  BY DEF Below
<1> QED
  BY <1>1, BelowFinite, FS_AddElement

-----------------------------------------------------------------------------
(* Bodies.                                                                 *)

RuleHeight ==
    [statement |-> 10, requireBlock |-> 0, statements |-> 12, caseBody |-> 12,
     else |-> 1, init |-> 4, update |-> 3, switchBody |-> 0, cases |-> 15,
     printed |-> 1, label |-> 0, expression |-> 0, logicalNot |-> 8, unary |-> 2,
     primary |-> 2, logicalOr |-> 12, logicalAnd |-> 10, relational |-> 8,
     term |-> 6, factor |-> 4]

\* How far the stack can grow above a goal before the next guard.
Height(g) == IF g.do \in {"parse", "repeat"} THEN RuleHeight[g.arg] ELSE 0

Body(gs, h) ==
    /\ gs \in Seq(PlainGoal)
    /\ \A i \in 1 .. Len(gs) : Len(gs) - i + Height(gs[i]) <= h

LEMMA LevelDomain ==
    Level = {"logicalOr", "logicalAnd", "relational", "term", "factor"}
BY DEF Level, Operand

LEMMA HeightNat ==
    ASSUME NEW g \in PlainGoal
    PROVE  Height(g) \in Nat
<1>1. \A r \in Rule : RuleHeight[r] \in Nat
  BY LevelDomain DEF Rule, RuleHeight
<1>2. g.do \in {"parse", "repeat"} => g.arg \in Rule
  BY DEF PlainGoal, Rule
<1> QED
  BY <1>1, <1>2 DEF Height

LEMMA Tuple1 ==
    ASSUME NEW m \in Nat,
           NEW a \in PlainGoal, 0 + Height(a) <= m
    PROVE  Body(<<a>>, m) /\ Len(<<a>>) = 1
<1> DEFINE gs == <<a>>
<1>1. gs \in Seq(PlainGoal) /\ Len(gs) = 1
  OBVIOUS
<1>2. \A i \in 1 .. 1 : 1 - i + Height(gs[i]) <= m
  OBVIOUS
<1> QED
  BY <1>1, <1>2 DEF Body

LEMMA Tuple2 ==
    ASSUME NEW m \in Nat,
           NEW a \in PlainGoal, 1 + Height(a) <= m,
           NEW b \in PlainGoal, 0 + Height(b) <= m
    PROVE  Body(<<a, b>>, m) /\ Len(<<a, b>>) = 2
<1> DEFINE gs == <<a, b>>
<1>1. gs \in Seq(PlainGoal) /\ Len(gs) = 2
  OBVIOUS
<1>2. \A i \in 1 .. 2 : 2 - i + Height(gs[i]) <= m
  OBVIOUS
<1> QED
  BY <1>1, <1>2 DEF Body

LEMMA Tuple3 ==
    ASSUME NEW m \in Nat,
           NEW a \in PlainGoal, 2 + Height(a) <= m,
           NEW b \in PlainGoal, 1 + Height(b) <= m,
           NEW c \in PlainGoal, 0 + Height(c) <= m
    PROVE  Body(<<a, b, c>>, m) /\ Len(<<a, b, c>>) = 3
<1> DEFINE gs == <<a, b, c>>
<1>1. gs \in Seq(PlainGoal) /\ Len(gs) = 3
  OBVIOUS
<1>2. \A i \in 1 .. 3 : 3 - i + Height(gs[i]) <= m
  OBVIOUS
<1> QED
  BY <1>1, <1>2 DEF Body

LEMMA Tuple4 ==
    ASSUME NEW m \in Nat,
           NEW a \in PlainGoal, 3 + Height(a) <= m,
           NEW b \in PlainGoal, 2 + Height(b) <= m,
           NEW c \in PlainGoal, 1 + Height(c) <= m,
           NEW d \in PlainGoal, 0 + Height(d) <= m
    PROVE  Body(<<a, b, c, d>>, m) /\ Len(<<a, b, c, d>>) = 4
<1> DEFINE gs == <<a, b, c, d>>
<1>1. gs \in Seq(PlainGoal) /\ Len(gs) = 4
  OBVIOUS
<1>2. \A i \in 1 .. 4 : 4 - i + Height(gs[i]) <= m
  OBVIOUS
<1> QED
  BY <1>1, <1>2 DEF Body

LEMMA Tuple5 ==
    ASSUME NEW m \in Nat,
           NEW a \in PlainGoal, 4 + Height(a) <= m,
           NEW b \in PlainGoal, 3 + Height(b) <= m,
           NEW c \in PlainGoal, 2 + Height(c) <= m,
           NEW d \in PlainGoal, 1 + Height(d) <= m,
           NEW e \in PlainGoal, 0 + Height(e) <= m
    PROVE  Body(<<a, b, c, d, e>>, m) /\ Len(<<a, b, c, d, e>>) = 5
<1> DEFINE gs == <<a, b, c, d, e>>
<1>1. gs \in Seq(PlainGoal) /\ Len(gs) = 5
  OBVIOUS
<1>2. \A i \in 1 .. 5 : 5 - i + Height(gs[i]) <= m
  OBVIOUS
<1> QED
  BY <1>1, <1>2 DEF Body

LEMMA Tuple7 ==
    ASSUME NEW m \in Nat,
           NEW a \in PlainGoal, 6 + Height(a) <= m,
           NEW b \in PlainGoal, 5 + Height(b) <= m,
           NEW c \in PlainGoal, 4 + Height(c) <= m,
           NEW d \in PlainGoal, 3 + Height(d) <= m,
           NEW e \in PlainGoal, 2 + Height(e) <= m,
           NEW f \in PlainGoal, 1 + Height(f) <= m,
           NEW g \in PlainGoal, 0 + Height(g) <= m
    PROVE  Body(<<a, b, c, d, e, f, g>>, m) /\ Len(<<a, b, c, d, e, f, g>>) = 7
<1> DEFINE gs == <<a, b, c, d, e, f, g>>
<1>1. gs \in Seq(PlainGoal) /\ Len(gs) = 7
  OBVIOUS
<1>2. \A i \in 1 .. 7 : 7 - i + Height(gs[i]) <= m
  OBVIOUS
<1> QED
  BY <1>1, <1>2 DEF Body

LEMMA Tuple8 ==
    ASSUME NEW m \in Nat,
           NEW a \in PlainGoal, 7 + Height(a) <= m,
           NEW b \in PlainGoal, 6 + Height(b) <= m,
           NEW c \in PlainGoal, 5 + Height(c) <= m,
           NEW d \in PlainGoal, 4 + Height(d) <= m,
           NEW e \in PlainGoal, 3 + Height(e) <= m,
           NEW f \in PlainGoal, 2 + Height(f) <= m,
           NEW g \in PlainGoal, 1 + Height(g) <= m,
           NEW h \in PlainGoal, 0 + Height(h) <= m
    PROVE  Body(<<a, b, c, d, e, f, g, h>>, m) /\ Len(<<a, b, c, d, e, f, g, h>>) = 8
<1> DEFINE gs == <<a, b, c, d, e, f, g, h>>
<1>1. gs \in Seq(PlainGoal) /\ Len(gs) = 8
  OBVIOUS
<1>2. \A i \in 1 .. 8 : 8 - i + Height(gs[i]) <= m
  OBVIOUS
<1> QED
  BY <1>1, <1>2 DEF Body

LEMMA BodyConcat ==
    ASSUME NEW a, NEW b, NEW h \in Nat, NEW k \in Nat, NEW m \in Nat,
           Body(a, h), Body(b, k), h + Len(b) <= m, k <= m
    PROVE  Body(a \o b, m)
<1>1. a \in Seq(PlainGoal) /\ b \in Seq(PlainGoal) /\ Len(a) \in Nat /\ Len(b) \in Nat
  BY LenProperties DEF Body
<1>2. /\ a \o b \in Seq(PlainGoal) /\ Len(a \o b) = Len(a) + Len(b)
      /\ \A i \in 1 .. Len(a) + Len(b) :
            (a \o b)[i] = IF i <= Len(a) THEN a[i] ELSE b[i - Len(a)]
  BY <1>1, ConcatProperties
<1>3. ASSUME NEW i \in 1 .. Len(a) + Len(b)
      PROVE  Len(a) + Len(b) - i + Height((a \o b)[i]) <= m
  <2>1. CASE i <= Len(a)
    <3>1. Len(a) - i + Height(a[i]) <= h
      BY <2>1, <1>1 DEF Body
    <3>2. Height(a[i]) \in Nat
      BY <2>1, <1>1, ElementOfSeq, HeightNat
    <3> QED
      BY <3>1, <3>2, <2>1, <1>1, <1>2
  <2>2. CASE i > Len(a)
    <3>1. Len(b) - (i - Len(a)) + Height(b[i - Len(a)]) <= k
      BY <2>2, <1>1 DEF Body
    <3>2. Height(b[i - Len(a)]) \in Nat
      BY <2>2, <1>1, ElementOfSeq, HeightNat
    <3> QED
      BY <3>1, <3>2, <2>2, <1>1, <1>2
  <2> QED
    BY <2>1, <2>2, <1>1
<1> QED
  BY <1>2, <1>3 DEF Body

\* A node to build and a token to take, whatever they are.
LEMMA BuildGoal ==
    ASSUME NEW n \in NodeName, NEW l \in Nat
    PROVE  Build(n, l) \in PlainGoal /\ Height(Build(n, l)) = 0
BY DEF Build, PlainGoal, Height

LEMMA TakeGoal ==
    ASSUME NEW t \in TokenType
    PROVE  Take(t) \in PlainGoal /\ Height(Take(t)) = 0
BY DEF Take, PlainGoal, Height

LEMMA Names ==
    /\ "IDENTIFIER" \in TokenType /\ "EQUAL" \in TokenType
    /\ "SEMICOLON" \in TokenType /\ "COLON" \in TokenType
    /\ "HABANG" \in TokenType
    /\ "LEFT_PAREN" \in TokenType /\ "RIGHT_PAREN" \in TokenType
    /\ "LEFT_BRACE" \in TokenType /\ "RIGHT_BRACE" \in TokenType
    /\ "LIST" \in NodeName /\ "ITEM" \in NodeName /\ "READ" \in NodeName
    /\ "VAR_DECL" \in NodeName /\ "ASSIGN" \in NodeName /\ "WHILE" \in NodeName
    /\ "DO_WHILE" \in NodeName /\ "FOR" \in NodeName /\ "IF" \in NodeName
    /\ "BREAK" \in NodeName /\ "CONTINUE" \in NodeName /\ "READ_INTO" \in NodeName
    /\ "BLOCK" \in NodeName /\ "SWITCH" \in NodeName /\ "CASE" \in NodeName
    /\ "PRINT" \in NodeName /\ "HINDI" \in NodeName /\ "NEGATE" \in NodeName
BY DEF TokenType, Punctuation, Literals, Keywords, NodeName

LEMMA OtherGoals ==
    /\ List \in PlainGoal /\ Height(List) = 0
    /\ Item \in PlainGoal /\ Height(Item) = 0
    /\ Expression \in PlainGoal /\ Height(Expression) = 0
    /\ Block \in PlainGoal /\ Height(Block) = 0
<1>1. /\ List \in PlainGoal /\ Height(List) = 0
      /\ Item \in PlainGoal /\ Height(Item) = 0
  BY BuildGoal, Names DEF List, Item
<1>2. /\ Expression \in PlainGoal /\ Height(Expression) = 0
      /\ Block \in PlainGoal /\ Height(Block) = 0
  BY DEF Expression, Block, Parse, Rule, PlainGoal, Height, RuleHeight
<1> QED
  BY <1>1, <1>2, Zenon

\* The bodies of the functions.
LEMMA EmptyBody == \A h \in Nat : Body(<< >>, h)
BY DEF Body

LEMMA VarDeclBody ==
    ASSUME NEW l \in Nat
    PROVE  Body(VarDecl(l), 4)
<1>1. /\ Take("IDENTIFIER") \in PlainGoal /\ Height(Take("IDENTIFIER")) = 0
      /\ Take("EQUAL") \in PlainGoal /\ Height(Take("EQUAL")) = 0
      /\ Take("SEMICOLON") \in PlainGoal /\ Height(Take("SEMICOLON")) = 0
      /\ Build("VAR_DECL", l) \in PlainGoal /\ Height(Build("VAR_DECL", l)) = 0
  BY TakeGoal, BuildGoal, Names
<1>2. /\ 4 + Height(Take("IDENTIFIER")) <= 4
      /\ 3 + Height(Take("EQUAL")) <= 4
      /\ 2 + Height(Expression) <= 4
      /\ 1 + Height(Take("SEMICOLON")) <= 4
      /\ 0 + Height(Build("VAR_DECL", l)) <= 4
      /\ 4 \in Nat
  BY <1>1, OtherGoals
<1>3. /\ Body(<<Take("IDENTIFIER"), Take("EQUAL"), Expression, Take("SEMICOLON"),
             Build("VAR_DECL", l)>>, 4)
      /\ Len(<<Take("IDENTIFIER"), Take("EQUAL"), Expression, Take("SEMICOLON"),
             Build("VAR_DECL", l)>>) = 5
  BY <1>1, OtherGoals, <1>2, Tuple5, Zenon
<1> QED
  BY <1>3, Zenon DEF VarDecl

LEMMA AssignNoSemiBody ==
    ASSUME NEW l \in Nat
    PROVE  Body(AssignNoSemi(l), 3)
<1>1. /\ Take("IDENTIFIER") \in PlainGoal /\ Height(Take("IDENTIFIER")) = 0
      /\ Take("EQUAL") \in PlainGoal /\ Height(Take("EQUAL")) = 0
      /\ Build("ASSIGN", l) \in PlainGoal /\ Height(Build("ASSIGN", l)) = 0
  BY TakeGoal, BuildGoal, Names
<1>2. /\ 3 + Height(Take("IDENTIFIER")) <= 3
      /\ 2 + Height(Take("EQUAL")) <= 3
      /\ 1 + Height(Expression) <= 3
      /\ 0 + Height(Build("ASSIGN", l)) <= 3
      /\ 3 \in Nat
  BY <1>1, OtherGoals
<1>3. /\ Body(<<Take("IDENTIFIER"), Take("EQUAL"), Expression, Build("ASSIGN", l)>>, 3)
      /\ Len(<<Take("IDENTIFIER"), Take("EQUAL"), Expression, Build("ASSIGN", l)>>) = 4
  BY <1>1, OtherGoals, <1>2, Tuple4, Zenon
<1> QED
  BY <1>3, Zenon DEF AssignNoSemi

LEMMA ParensBody ==
    ASSUME NEW g \in PlainGoal, Height(g) <= 1
    PROVE  Body(InParens(g), 2) /\ Len(InParens(g)) = 3
<1>1. /\ Take("LEFT_PAREN") \in PlainGoal /\ Height(Take("LEFT_PAREN")) = 0
      /\ Take("RIGHT_PAREN") \in PlainGoal /\ Height(Take("RIGHT_PAREN")) = 0
  BY TakeGoal, Names
<1>2. /\ 2 + Height(Take("LEFT_PAREN")) <= 2 /\ 1 + Height(g) <= 2
      /\ 0 + Height(Take("RIGHT_PAREN")) <= 2 /\ 2 \in Nat
  BY <1>1, HeightNat
<1> QED
  BY <1>1, <1>2, Tuple3, Zenon DEF InParens

LEMMA ConditionBody == Body(InParens(Expression), 2) /\ Len(InParens(Expression)) = 3
BY OtherGoals, ParensBody

LEMMA AssignBody ==
    ASSUME NEW l \in Nat
    PROVE  Body(Assign(l), 4)
<1>1. /\ Take("SEMICOLON") \in PlainGoal /\ Height(Take("SEMICOLON")) = 0
  BY TakeGoal, BuildGoal, Names
<1>2. /\ 0 + Height(Take("SEMICOLON")) <= 0
      /\ 0 \in Nat
  BY <1>1
<1>3. Body(<<Take("SEMICOLON")>>, 0) /\ Len(<<Take("SEMICOLON")>>) = 1
  BY <1>1, <1>2, Tuple1, Zenon
<1>4. 3 \in Nat /\ 0 \in Nat /\ 4 \in Nat /\ 3 + Len(<<Take("SEMICOLON")>>) <= 4 /\ 0 <= 4
  BY <1>3
<1> QED
  BY AssignNoSemiBody, <1>3, <1>4, BodyConcat, Zenon DEF Assign

LEMMA IfBody ==
    ASSUME NEW l \in Nat
    PROVE  Body(If(l), 6)
<1>1. /\ Build("IF", l) \in PlainGoal /\ Height(Build("IF", l)) = 0
  BY TakeGoal, BuildGoal, Names
<1>2. /\ Parse("else", 0) \in PlainGoal /\ Height(Parse("else", 0)) = 1
  BY DEF Parse, Rule, PlainGoal, Height, RuleHeight
<1>3. /\ 3 + Height(Block) <= 3
      /\ 2 + Height(List) <= 3
      /\ 1 + Height(Parse("else", 0)) <= 3
      /\ 0 + Height(Build("IF", l)) <= 3
      /\ 3 \in Nat
  BY <1>1, <1>2, OtherGoals
<1>4. /\ Body(<<Block, List, Parse("else", 0), Build("IF", l)>>, 3)
      /\ Len(<<Block, List, Parse("else", 0), Build("IF", l)>>) = 4
  BY <1>1, <1>2, OtherGoals, <1>3, Tuple4, Zenon
<1>5. /\ 2 \in Nat
      /\ 3 \in Nat
      /\ 6 \in Nat
      /\ 2 + Len(<<Block, List, Parse("else", 0), Build("IF", l)>>) <= 6
      /\ 3 <= 6
  BY <1>4
<1> QED
  BY ConditionBody, <1>4, <1>5, BodyConcat, Zenon DEF If

LEMMA WhileBody ==
    ASSUME NEW l \in Nat
    PROVE  Body(While(l), 4)
<1>1. /\ Build("WHILE", l) \in PlainGoal /\ Height(Build("WHILE", l)) = 0
  BY TakeGoal, BuildGoal, Names
<1>2. /\ 1 + Height(Block) <= 1
      /\ 0 + Height(Build("WHILE", l)) <= 1
      /\ 1 \in Nat
  BY <1>1, OtherGoals
<1>3. Body(<<Block, Build("WHILE", l)>>, 1) /\ Len(<<Block, Build("WHILE", l)>>) = 2
  BY <1>1, OtherGoals, <1>2, Tuple2, Zenon
<1>4. /\ 2 \in Nat
      /\ 1 \in Nat
      /\ 4 \in Nat
      /\ 2 + Len(<<Block, Build("WHILE", l)>>) <= 4
      /\ 1 <= 4
  BY <1>3
<1> QED
  BY ConditionBody, <1>3, <1>4, BodyConcat, Zenon DEF While

LEMMA DoWhileBody ==
    ASSUME NEW l \in Nat
    PROVE  Body(DoWhile(l), 6)
<1>1. /\ Take("HABANG") \in PlainGoal /\ Height(Take("HABANG")) = 0
      /\ Take("SEMICOLON") \in PlainGoal /\ Height(Take("SEMICOLON")) = 0
      /\ Build("DO_WHILE", l) \in PlainGoal /\ Height(Build("DO_WHILE", l)) = 0
  BY TakeGoal, BuildGoal, Names
<1>2. /\ 1 + Height(Block) <= 1 /\ 0 + Height(Take("HABANG")) <= 1
      /\ 1 + Height(Take("SEMICOLON")) <= 1 /\ 0 + Height(Build("DO_WHILE", l)) <= 1
      /\ 1 \in Nat /\ 2 \in Nat /\ 4 \in Nat /\ 6 \in Nat
  BY <1>1, OtherGoals
<1>3. Body(<<Block, Take("HABANG")>>, 1)
  BY <1>1, <1>2, OtherGoals, Tuple2, Zenon
<1>4. /\ Body(<<Take("SEMICOLON"), Build("DO_WHILE", l)>>, 1)
      /\ Len(<<Take("SEMICOLON"), Build("DO_WHILE", l)>>) = 2
  BY <1>1, <1>2, Tuple2, Zenon
<1>5. /\ 1 + Len(InParens(Expression)) <= 4 /\ 2 <= 4 /\ 1 <= 6
      /\ 4 + Len(<<Take("SEMICOLON"), Build("DO_WHILE", l)>>) <= 6
  BY <1>4, ConditionBody
<1>6. Body(<<Block, Take("HABANG")>> \o InParens(Expression), 4)
  BY <1>2, <1>3, <1>5, ConditionBody, BodyConcat, Zenon
<1> QED
  BY <1>2, <1>4, <1>5, <1>6, BodyConcat, Zenon DEF DoWhile

LEMMA ForBody ==
    ASSUME NEW l \in Nat
    PROVE  Body(For(l), 10)
<1>1. /\ Take("LEFT_PAREN") \in PlainGoal /\ Height(Take("LEFT_PAREN")) = 0
      /\ Take("SEMICOLON") \in PlainGoal /\ Height(Take("SEMICOLON")) = 0
      /\ Take("RIGHT_PAREN") \in PlainGoal /\ Height(Take("RIGHT_PAREN")) = 0
      /\ Build("FOR", l) \in PlainGoal /\ Height(Build("FOR", l)) = 0
  BY TakeGoal, BuildGoal, Names
<1>2. /\ Parse("init", 0) \in PlainGoal /\ Height(Parse("init", 0)) = 4
      /\ Parse("update", 0) \in PlainGoal /\ Height(Parse("update", 0)) = 3
  BY DEF Parse, Rule, PlainGoal, Height, RuleHeight
<1>3. /\ 7 + Height(Take("LEFT_PAREN")) <= 10
      /\ 6 + Height(Parse("init", 0)) <= 10
      /\ 5 + Height(Expression) <= 10
      /\ 4 + Height(Take("SEMICOLON")) <= 10
      /\ 3 + Height(Parse("update", 0)) <= 10
      /\ 2 + Height(Take("RIGHT_PAREN")) <= 10
      /\ 1 + Height(Block) <= 10
      /\ 0 + Height(Build("FOR", l)) <= 10
      /\ 10 \in Nat
  BY <1>1, <1>2, OtherGoals
<1>4. /\ Body(<<Take("LEFT_PAREN"), Parse("init", 0), Expression, Take("SEMICOLON"),
             Parse("update", 0), Take("RIGHT_PAREN"), Block, Build("FOR", l)>>, 10)
      /\ Len(<<Take("LEFT_PAREN"), Parse("init", 0), Expression, Take("SEMICOLON"),
             Parse("update", 0), Take("RIGHT_PAREN"), Block, Build("FOR", l)>>) = 8
  BY <1>1, <1>2, OtherGoals, <1>3, Tuple8, Zenon
<1> QED
  BY <1>4, Zenon DEF For

LEMMA SwitchStmtBody ==
    ASSUME NEW l \in Nat
    PROVE  Body(Switch(l), 3)
<1>1. /\ Parse("switchBody", l) \in PlainGoal /\ Height(Parse("switchBody", l)) = 0
  BY DEF Parse, Rule, PlainGoal, Height, RuleHeight
<1>2. /\ 0 + Height(Parse("switchBody", l)) <= 0
      /\ 0 \in Nat
  BY <1>1
<1>3. Body(<<Parse("switchBody", l)>>, 0) /\ Len(<<Parse("switchBody", l)>>) = 1
  BY <1>1, <1>2, Tuple1, Zenon
<1>4. /\ 2 \in Nat
      /\ 0 \in Nat
      /\ 3 \in Nat
      /\ 2 + Len(<<Parse("switchBody", l)>>) <= 3
      /\ 0 <= 3
  BY <1>3
<1> QED
  BY ConditionBody, <1>3, <1>4, BodyConcat, Zenon DEF Switch

LEMMA PrintingBody ==
    ASSUME NEW l \in Nat
    PROVE  Body(Printing(l), 3)
<1>1. Take("SEMICOLON") \in PlainGoal /\ Height(Take("SEMICOLON")) = 0
  BY TakeGoal, Names
<1>2. Parse("printed", l) \in PlainGoal /\ Height(Parse("printed", l)) = 1
  BY DEF Parse, Rule, PlainGoal, Height, RuleHeight
<1>3. Height(Parse("printed", l)) <= 1 /\ 0 + Height(Take("SEMICOLON")) <= 0
      /\ 0 \in Nat /\ 2 \in Nat /\ 3 \in Nat
  BY <1>1, <1>2
<1>4. Body(InParens(Parse("printed", l)), 2)
  BY <1>2, <1>3, ParensBody, Zenon
<1>5. Body(<<Take("SEMICOLON")>>, 0) /\ Len(<<Take("SEMICOLON")>>) = 1
  BY <1>1, <1>3, Tuple1, Zenon
<1>6. 2 + Len(<<Take("SEMICOLON")>>) <= 3 /\ 0 <= 3
  BY <1>5
<1> QED
  BY <1>3, <1>4, <1>5, <1>6, BodyConcat, Zenon DEF Printing

LEMMA ReadingBody ==
    ASSUME NEW l \in Nat
    PROVE  Body(Reading(l), 4)
<1>1. /\ Take("IDENTIFIER") \in PlainGoal /\ Height(Take("IDENTIFIER")) = 0
      /\ Take("SEMICOLON") \in PlainGoal /\ Height(Take("SEMICOLON")) = 0
      /\ Build("READ_INTO", l) \in PlainGoal /\ Height(Build("READ_INTO", l)) = 0
  BY TakeGoal, BuildGoal, Names
<1>2. /\ Height(Take("IDENTIFIER")) <= 1
      /\ 1 + Height(Take("SEMICOLON")) <= 1 /\ 0 + Height(Build("READ_INTO", l)) <= 1
      /\ 1 \in Nat /\ 2 \in Nat /\ 4 \in Nat
  BY <1>1
<1>3. Body(InParens(Take("IDENTIFIER")), 2)
  BY <1>1, <1>2, ParensBody, Zenon
<1>4. /\ Body(<<Take("SEMICOLON"), Build("READ_INTO", l)>>, 1)
      /\ Len(<<Take("SEMICOLON"), Build("READ_INTO", l)>>) = 2
  BY <1>1, <1>2, Tuple2, Zenon
<1>5. 2 + Len(<<Take("SEMICOLON"), Build("READ_INTO", l)>>) <= 4 /\ 1 <= 4
  BY <1>4
<1> QED
  BY <1>2, <1>3, <1>4, <1>5, BodyConcat, Zenon DEF Reading

LEMMA JumpBody ==
    ASSUME NEW l \in Nat, NEW n \in {"BREAK", "CONTINUE"}
    PROVE  Body(Jump(n, l), 1)
<1>1. /\ Take("SEMICOLON") \in PlainGoal /\ Height(Take("SEMICOLON")) = 0
      /\ Build(n, l) \in PlainGoal /\ Height(Build(n, l)) = 0
  BY TakeGoal, BuildGoal, Names
<1>2. 1 + Height(Take("SEMICOLON")) <= 1 /\ 0 + Height(Build(n, l)) <= 1 /\ 1 \in Nat
  BY <1>1
<1> QED
  BY <1>1, <1>2, Tuple2, Zenon DEF Jump

LEMMA StatementsBody ==
    ASSUME current \in Nat
    PROVE  Body(Statements, 14)
<1>1. /\ Take("LEFT_BRACE") \in PlainGoal /\ Height(Take("LEFT_BRACE")) = 0
      /\ Take("RIGHT_BRACE") \in PlainGoal /\ Height(Take("RIGHT_BRACE")) = 0
      /\ Build("BLOCK", current) \in PlainGoal /\ Height(Build("BLOCK", current)) = 0
  BY TakeGoal, BuildGoal, Names
<1>2. /\ Parse("statements", 0) \in PlainGoal /\ Height(Parse("statements", 0)) = 12
  BY DEF Parse, Rule, PlainGoal, Height, RuleHeight
<1>3. /\ 4 + Height(Take("LEFT_BRACE")) <= 14
      /\ 3 + Height(List) <= 14
      /\ 2 + Height(Parse("statements", 0)) <= 14
      /\ 1 + Height(Take("RIGHT_BRACE")) <= 14
      /\ 0 + Height(Build("BLOCK", current)) <= 14
      /\ 14 \in Nat
  BY <1>1, <1>2, OtherGoals
<1>4. /\ Body(<<Take("LEFT_BRACE"), List, Parse("statements", 0), Take("RIGHT_BRACE"),
             Build("BLOCK", current)>>, 14)
      /\ Len(<<Take("LEFT_BRACE"), List, Parse("statements", 0), Take("RIGHT_BRACE"),
             Build("BLOCK", current)>>) = 5
  BY <1>1, <1>2, OtherGoals, <1>3, Tuple5, Zenon
<1> QED
  BY <1>4, Zenon DEF Statements

LEMMA CasesBody == Body(Cases, 16)
<1>1. /\ Take("LEFT_BRACE") \in PlainGoal /\ Height(Take("LEFT_BRACE")) = 0
      /\ Take("RIGHT_BRACE") \in PlainGoal /\ Height(Take("RIGHT_BRACE")) = 0
  BY TakeGoal, BuildGoal, Names
<1>2. /\ Parse("cases", 0) \in PlainGoal /\ Height(Parse("cases", 0)) = 15
  BY DEF Parse, Rule, PlainGoal, Height, RuleHeight
<1>3. /\ 3 + Height(Take("LEFT_BRACE")) <= 16
      /\ 2 + Height(List) <= 16
      /\ 1 + Height(Parse("cases", 0)) <= 16
      /\ 0 + Height(Take("RIGHT_BRACE")) <= 16
      /\ 16 \in Nat
  BY <1>1, <1>2, OtherGoals
<1>4. /\ Body(<<Take("LEFT_BRACE"), List, Parse("cases", 0), Take("RIGHT_BRACE")>>, 16)
      /\ Len(<<Take("LEFT_BRACE"), List, Parse("cases", 0), Take("RIGHT_BRACE")>>) = 4
  BY <1>1, <1>2, OtherGoals, <1>3, Tuple4, Zenon
<1> QED
  BY <1>4, Zenon DEF Cases

LEMMA SwitchBodyBody ==
    ASSUME NEW l \in Nat
    PROVE  Body(Cases \o <<Build("SWITCH", l)>>, 17)
<1>1. /\ Build("SWITCH", l) \in PlainGoal /\ Height(Build("SWITCH", l)) = 0
  BY TakeGoal, BuildGoal, Names
<1>2. /\ 0 + Height(Build("SWITCH", l)) <= 0
      /\ 0 \in Nat
  BY <1>1
<1>3. Body(<<Build("SWITCH", l)>>, 0) /\ Len(<<Build("SWITCH", l)>>) = 1
  BY <1>1, <1>2, Tuple1, Zenon
<1>4. /\ 16 \in Nat
      /\ 0 \in Nat
      /\ 17 \in Nat
      /\ 16 + Len(<<Build("SWITCH", l)>>) <= 17
      /\ 0 <= 17
  BY <1>3
<1> QED
  BY CasesBody, <1>3, <1>4, BodyConcat, Zenon

LEMMA ElseIfBody ==
    ASSUME NEW l \in Nat
    PROVE  Body(If(l) \o <<Item>>, 7)
<1>1. /\ 0 + Height(Item) <= 0
      /\ 0 \in Nat
  BY OtherGoals
<1>2. Body(<<Item>>, 0) /\ Len(<<Item>>) = 1
  BY OtherGoals, <1>1, Tuple1, Zenon
<1>3. 6 \in Nat /\ 0 \in Nat /\ 7 \in Nat /\ 6 + Len(<<Item>>) <= 7 /\ 0 <= 7
  BY <1>2
<1> QED
  BY IfBody, <1>2, <1>3, BodyConcat, Zenon

\* A body fits in more room.
LEMMA BodyWeaker ==
    ASSUME NEW gs, NEW h \in Nat, NEW k \in Nat, Body(gs, h), h <= k
    PROVE  Body(gs, k)
<1>1. Len(gs) \in Nat
  BY LenProperties DEF Body
<1>2. ASSUME NEW i \in 1 .. Len(gs)
      PROVE  Height(gs[i]) \in Nat
  BY <1>1, ElementOfSeq, HeightNat DEF Body
<1> QED
  BY <1>1, <1>2 DEF Body

LEMMA SentenceIs ==
    ASSUME NEW l
    PROVE  /\ Sentence("ITAKDA", l) = VarDecl(l)
           /\ Sentence("KUNG", l) = If(l)
           /\ Sentence("HABANG", l) = While(l)
           /\ Sentence("GAWIN", l) = DoWhile(l)
           /\ Sentence("PARA", l) = For(l)
           /\ Sentence("PILI", l) = Switch(l)
           /\ Sentence("TIGIL", l) = Jump("BREAK", l)
           /\ Sentence("SUNOD", l) = Jump("CONTINUE", l)
           /\ Sentence("BASAHIN", l) = Reading(l)
           /\ Sentence("KUNIN", l) = Reading(l)
           /\ Sentence("ISULAT", l) = Printing(l)
           /\ Sentence("IPAKITA", l) = Printing(l)
BY DEF Sentence

LEMMA SentenceBody ==
    ASSUME NEW t \in StatementStarts, NEW l \in Nat
    PROVE  Body(Sentence(t, l), 10)
<1>1. CASE t = "ITAKDA"
  BY <1>1, VarDeclBody, BodyWeaker, SentenceIs
<1>2. CASE t = "KUNG"
  BY <1>2, IfBody, BodyWeaker, SentenceIs
<1>3. CASE t = "HABANG"
  BY <1>3, WhileBody, BodyWeaker, SentenceIs
<1>4. CASE t = "GAWIN"
  BY <1>4, DoWhileBody, BodyWeaker, SentenceIs
<1>5. CASE t = "PARA"
  BY <1>5, ForBody, SentenceIs
<1>6. CASE t = "PILI"
  BY <1>6, SwitchStmtBody, BodyWeaker, SentenceIs
<1>7. CASE t = "TIGIL" \/ t = "SUNOD"
  BY <1>7, JumpBody, BodyWeaker, SentenceIs
<1>8. CASE t = "BASAHIN" \/ t = "KUNIN"
  BY <1>8, ReadingBody, BodyWeaker, SentenceIs
<1>9. CASE t = "ISULAT" \/ t = "IPAKITA"
  BY <1>9, PrintingBody, BodyWeaker, SentenceIs
<1> QED
  BY <1>1, <1>2, <1>3, <1>4, <1>5, <1>6, <1>7, <1>8, <1>9 DEF StatementStarts

-----------------------------------------------------------------------------
(* The stack of goals.                                                     *)

AnyGoal == PlainGoal \cup Guard

\* A guard is not one of the other goals.
LEMMA PlainIsNoGuard ==
    ASSUME NEW g \in PlainGoal
    PROVE  g \notin Guard /\ g.do # "leave"
BY DEF PlainGoal, Guard, Leave

LEMMA LeaveGuard ==
    ASSUME NEW c \in Counter
    PROVE  /\ Leave(c) \in Guard /\ Leave(c).do = "leave" /\ Leave(c).arg = c
           /\ Leave(c) \in AnyGoal /\ Height(Leave(c)) = 0
           /\ \A d \in Counter : Leave(c) \in {Leave(d)} <=> d = c
BY DEF Guard, Leave, AnyGoal, Height

LEMMA Prefix ==
    ASSUME NEW s, NEW n \in Nat, \A i \in 1 .. n : s[i] \in AnyGoal
    PROVE  /\ SubSeq(s, 1, n) \in Seq(AnyGoal) /\ Len(SubSeq(s, 1, n)) = n
           /\ \A i \in 1 .. n : SubSeq(s, 1, n)[i] = s[i]
BY SubSeqProperties

LEMMA Joined ==
    ASSUME NEW f \in Seq(AnyGoal), NEW g \in Seq(AnyGoal)
    PROVE  /\ f \o g \in Seq(AnyGoal) /\ Len(f \o g) = Len(f) + Len(g)
           /\ \A i \in 1 .. Len(f) : (f \o g)[i] = f[i]
           /\ \A i \in 1 .. Len(g) : (f \o g)[Len(f) + i] = g[i]
<1>1. /\ f \o g \in Seq(AnyGoal) /\ Len(f \o g) = Len(f) + Len(g)
      /\ \A i \in 1 .. Len(f) + Len(g) :
            (f \o g)[i] = IF i <= Len(f) THEN f[i] ELSE g[i - Len(f)]
  BY ConcatProperties
<1>2. Len(f) \in Nat /\ Len(g) \in Nat
  BY LenProperties
<1>3. ASSUME NEW i \in 1 .. Len(f)
      PROVE  (f \o g)[i] = f[i]
  BY <1>1, <1>2
<1>4. ASSUME NEW i \in 1 .. Len(g)
      PROVE  (f \o g)[Len(f) + i] = g[i]
  <2>1. /\ Len(f) + i \in 1 .. Len(f) + Len(g) /\ ~(Len(f) + i <= Len(f))
        /\ Len(f) + i - Len(f) = i
    BY <1>2
  <2> QED
    BY <1>1, <2>1
<1> QED
  BY <1>1, <1>3, <1>4, Zenon

\* Two stacks agree on their first n goals; above n stand the m goals of gs,
\* the first one on top.
Agree(s, t, n)     == \A j \in 1 .. n : t[j] = s[j]
Above(t, n, gs, m) == \A j \in 1 .. m : t[n + j] = gs[m - j + 1]
Outside(t, n, m, S) == \A j \in 1 .. m : t[n + j] \notin S

\* The goal on top gives way to a body.
LEMMA Replaced ==
    ASSUME NEW s \in Seq(AnyGoal), NEW n \in Nat, Len(s) = n + 1,
           NEW gs \in Seq(AnyGoal), NEW m \in Nat, Len(gs) = m
    PROVE  /\ Front(s) \o Reverse(gs) \in Seq(AnyGoal)
           /\ Len(Front(s) \o Reverse(gs)) = n + m
           /\ Agree(s, Front(s) \o Reverse(gs), n)
           /\ Above(Front(s) \o Reverse(gs), n, gs, m)
<1>1. Len(s) - 1 = n
  OBVIOUS
<1>2. \A i \in 1 .. n : s[i] \in AnyGoal
  BY ElementOfSeq
<1>3. /\ Front(s) \in Seq(AnyGoal) /\ Len(Front(s)) = n
      /\ \A i \in 1 .. n : Front(s)[i] = s[i]
  BY <1>1, <1>2, Prefix, Zenon DEF Front
<1>4. \A i \in 1 .. m : gs[m - i + 1] \in AnyGoal
  BY ElementOfSeq
<1>5. /\ Reverse(gs) \in Seq(AnyGoal) /\ Len(Reverse(gs)) = m
      /\ \A i \in 1 .. m : Reverse(gs)[i] = gs[m - i + 1]
  BY <1>4 DEF Reverse
<1> DEFINE f == Front(s)
<1> DEFINE g == Reverse(gs)
<1> HIDE DEF f, g
<1>6. /\ f \o g \in Seq(AnyGoal) /\ Len(f \o g) = n + m
      /\ \A i \in 1 .. n : (f \o g)[i] = f[i]
      /\ \A i \in 1 .. m : (f \o g)[n + i] = g[i]
  <2>1. f \in Seq(AnyGoal) /\ g \in Seq(AnyGoal) /\ Len(f) = n /\ Len(g) = m
    BY <1>3, <1>5, Zenon DEF f, g
  <2>2. /\ f \o g \in Seq(AnyGoal) /\ Len(f \o g) = Len(f) + Len(g)
        /\ \A i \in 1 .. Len(f) : (f \o g)[i] = f[i]
        /\ \A i \in 1 .. Len(g) : (f \o g)[Len(f) + i] = g[i]
    BY <2>1, Joined, Zenon
  <2> QED
    BY <2>1, <2>2, Zenon
<1>7. /\ Front(s) \o Reverse(gs) \in Seq(AnyGoal)
      /\ Len(Front(s) \o Reverse(gs)) = n + m
      /\ \A i \in 1 .. n : (Front(s) \o Reverse(gs))[i] = Front(s)[i]
      /\ \A i \in 1 .. m : (Front(s) \o Reverse(gs))[n + i] = Reverse(gs)[i]
  BY <1>6, Zenon DEF f, g
<1> QED
  BY <1>3, <1>5, <1>7, Zenon DEF Agree, Above

-----------------------------------------------------------------------------
(* What a step on the stack does to the counts.  The stacks s and t agree  *)
(* on their first n goals.                                                 *)

LEMMA CountSame ==
    ASSUME NEW s, NEW t, NEW S, NEW n \in Nat, NEW m \in Nat,
           Len(s) = n + 1, s[n + 1] \notin S, Len(t) = n + m,
           Agree(s, t, n), Outside(t, n, m, S)
    PROVE  Count(t, S) = Count(s, S)
<1> USE DEF Agree, Outside
<1>1. Below(s, S, n + 2) = Below(s, S, n + 1)
  BY DEF Below
<1>2. ASSUME NEW j \in n + 1 .. n + m
      PROVE  t[j] \notin S
  <2>1. j - n \in 1 .. m /\ n + (j - n) = j
    OBVIOUS
  <2> QED
    BY <2>1
<1>3. Below(t, S, n + m + 1) = Below(t, S, n + 1)
  BY <1>2 DEF Below
<1>4. Below(t, S, n + 1) = Below(s, S, n + 1)
  BY DEF Below
<1> QED
  BY <1>1, <1>3, <1>4 DEF Count

LEMMA CountMore ==
    ASSUME NEW s, NEW t, NEW S, NEW n \in Nat, NEW m \in Nat,
           Len(s) = n + 1, s[n + 1] \notin S, Len(t) = n + 1 + m,
           Agree(s, t, n), t[n + 1] \in S, Outside(t, n + 1, m, S)
    PROVE  Count(t, S) = Count(s, S) + 1
<1> USE DEF Agree, Outside
<1>1. Below(s, S, n + 2) = Below(s, S, n + 1)
  BY DEF Below
<1>2. ASSUME NEW j \in n + 2 .. n + 1 + m
      PROVE  t[j] \notin S
  <2>1. j - (n + 1) \in 1 .. m /\ n + 1 + (j - (n + 1)) = j
    OBVIOUS
  <2> QED
    BY <2>1
<1>3. Below(t, S, n + 1 + m + 1) = Below(t, S, n + 2)
  BY <1>2 DEF Below
<1>4. Below(t, S, n + 1) = Below(s, S, n + 1)
  BY DEF Below
<1>5. Cardinality(Below(t, S, n + 1 + 1)) = Cardinality(Below(t, S, n + 1)) + 1
  BY BelowCounts
<1>6. Cardinality(Below(t, S, n + 1 + m + 1)) = Cardinality(Below(s, S, n + 2)) + 1
  BY <1>1, <1>3, <1>4, <1>5
<1> QED
  BY <1>6 DEF Count

LEMMA CountLess ==
    ASSUME NEW s, NEW t, NEW S, NEW n \in Nat,
           Len(s) = n + 1, s[n + 1] \in S, Len(t) = n,
           Agree(s, t, n)
    PROVE  Count(t, S) = Count(s, S) - 1
<1> USE DEF Agree, Outside
<1>1. Below(t, S, n + 1) = Below(s, S, n + 1)
  BY DEF Below
<1>2. Cardinality(Below(s, S, n + 1 + 1)) = Cardinality(Below(s, S, n + 1)) + 1
  BY BelowCounts
<1>3. Cardinality(Below(s, S, n + 1)) \in Nat
  BY BelowFinite
<1> QED
  BY <1>1, <1>2, <1>3 DEF Count

LEMMA CountNat ==
    ASSUME NEW s \in Seq(AnyGoal), NEW S
    PROVE  Count(s, S) \in Nat
BY BelowFinite, LenProperties DEF Count

LEMMA CountEmpty == \A S : Count(<< >>, S) = 0
<1>1. \A S : Below(<< >>, S, 1) = {}
  BY DEF Below
<1> QED
  BY <1>1, FS_EmptySet DEF Count

-----------------------------------------------------------------------------
(* How high the stack can be.                                              *)

Bounded(s) ==
    \A k \in 1 .. Len(s) :
        k - 1 + Height(s[k]) <= 18 * (1 + Cardinality(Below(s, Guard, k)))

LEMMA BoundedExpand ==
    ASSUME NEW s, NEW t, NEW n \in Nat, NEW m \in Nat, NEW gs,
           Len(s) = n + 1, Len(t) = n + m, Len(gs) = m,
           Agree(s, t, n), Above(t, n, gs, m),
           s[n + 1] \in PlainGoal, Body(gs, Height(s[n + 1])), Bounded(s)
    PROVE  Bounded(t)
<1>1. ASSUME NEW k \in 1 .. n
      PROVE  k - 1 + Height(t[k]) <= 18 * (1 + Cardinality(Below(t, Guard, k)))
  <2>1. Below(t, Guard, k) = Below(s, Guard, k)
    BY DEF Below, Agree
  <2>2. k \in 1 .. Len(s) /\ t[k] = s[k]
    BY DEF Agree
  <2>3. k - 1 + Height(s[k]) <= 18 * (1 + Cardinality(Below(s, Guard, k)))
    BY <2>2, Zenon DEF Bounded
  <2> QED
    BY <2>1, <2>2, <2>3, Zenon
<1>2. ASSUME NEW j \in 1 .. m
      PROVE  n + j - 1 + Height(t[n + j]) <= 18 * (1 + Cardinality(Below(t, Guard, n + j)))
  <2>1. ASSUME NEW i \in n + 1 .. n + j - 1
        PROVE  t[i] \notin Guard
    <3>1. i - n \in 1 .. m /\ n + (i - n) = i /\ m - (i - n) + 1 \in 1 .. m
      OBVIOUS
    <3>2. gs[m - (i - n) + 1] \in PlainGoal
      BY <3>1, ElementOfSeq DEF Body
    <3> QED
      BY <3>1, <3>2, PlainIsNoGuard DEF Above
  <2>2. Below(t, Guard, n + j) = Below(s, Guard, n + 1)
    BY <2>1 DEF Below, Agree
  <2>3. n + Height(s[n + 1]) <= 18 * (1 + Cardinality(Below(s, Guard, n + 1)))
    BY DEF Bounded
  <2>4. m - j + 1 \in 1 .. m
    OBVIOUS
  <2>5. m - (m - j + 1) + Height(gs[m - j + 1]) <= Height(s[n + 1])
    BY <2>4 DEF Body
  <2>6. /\ Height(s[n + 1]) \in Nat /\ Height(gs[m - j + 1]) \in Nat
        /\ Cardinality(Below(s, Guard, n + 1)) \in Nat
    BY <2>4, HeightNat, ElementOfSeq, BelowFinite, SMTT(30) DEF Body
  <2>7. n + j - 1 + Height(gs[m - j + 1])
          <= 18 * (1 + Cardinality(Below(s, Guard, n + 1)))
    BY <2>3, <2>5, <2>6, SMTT(30)
  <2>8. t[n + j] = gs[m - j + 1]
    BY DEF Above
  <2> QED
    BY <2>2, <2>7, <2>8
<1>3. ASSUME NEW k \in n + 1 .. n + m
      PROVE  k - 1 + Height(t[k]) <= 18 * (1 + Cardinality(Below(t, Guard, k)))
  <2>1. \E j \in 1 .. m : k = n + j
    <3>1. k - n \in 1 .. m /\ k = n + (k - n)
      OBVIOUS
    <3> QED
      BY <3>1
  <2>2. PICK j \in 1 .. m : k = n + j
    BY <2>1
  <2>3. n + j - 1 + Height(t[n + j]) <= 18 * (1 + Cardinality(Below(t, Guard, n + j)))
    BY <1>2, Zenon
  <2> QED
    BY <2>2, <2>3
<1> QED
  BY <1>1, <1>3 DEF Bounded

LEMMA BoundedEnter ==
    ASSUME NEW s, NEW t, NEW n \in Nat, NEW m \in Nat, NEW gs,
           Len(s) = n + 1, Len(t) = n + 1 + m, Len(gs) = m,
           Agree(s, t, n), t[n + 1] \in Guard, Above(t, n + 1, gs, m),
           s[n + 1] \in PlainGoal, Body(gs, 17), Bounded(s)
    PROVE  Bounded(t)
<1>0. /\ n + Height(s[n + 1]) <= 18 * (1 + Cardinality(Below(s, Guard, n + 1)))
      /\ Height(s[n + 1]) \in Nat /\ Cardinality(Below(s, Guard, n + 1)) \in Nat
  BY HeightNat, BelowFinite DEF Bounded
<1>1. ASSUME NEW k \in 1 .. n
      PROVE  k - 1 + Height(t[k]) <= 18 * (1 + Cardinality(Below(t, Guard, k)))
  <2>1. Below(t, Guard, k) = Below(s, Guard, k)
    BY DEF Below, Agree
  <2>2. k \in 1 .. Len(s) /\ t[k] = s[k]
    BY DEF Agree
  <2>3. k - 1 + Height(s[k]) <= 18 * (1 + Cardinality(Below(s, Guard, k)))
    BY <2>2, Zenon DEF Bounded
  <2> QED
    BY <2>1, <2>2, <2>3, Zenon
<1>2. Below(t, Guard, n + 1) = Below(s, Guard, n + 1)
  BY DEF Below, Agree
<1>3. n + Height(t[n + 1]) <= 18 * (1 + Cardinality(Below(t, Guard, n + 1)))
  <2>1. Height(t[n + 1]) = 0
    BY LeaveGuard DEF Guard
  <2> QED
    BY <1>0, <1>2, <2>1
<1>4. Cardinality(Below(t, Guard, n + 1 + 1)) = Cardinality(Below(t, Guard, n + 1)) + 1
  <2>1. t[n + 1] \in Guard /\ n + 1 \in Nat \ {0}
    OBVIOUS
  <2> QED
    BY <2>1, BelowCounts, Zenon
<1>5. ASSUME NEW j \in 1 .. m
      PROVE  n + 1 + j - 1 + Height(t[n + 1 + j])
                <= 18 * (1 + Cardinality(Below(t, Guard, n + 1 + j)))
  <2>1. ASSUME NEW i \in n + 2 .. n + j
        PROVE  t[i] \notin Guard
    <3>1. i - (n + 1) \in 1 .. m /\ n + 1 + (i - (n + 1)) = i
          /\ m - (i - (n + 1)) + 1 \in 1 .. m
      OBVIOUS
    <3>2. gs[m - (i - (n + 1)) + 1] \in PlainGoal
      BY <3>1, ElementOfSeq DEF Body
    <3> QED
      BY <3>1, <3>2, PlainIsNoGuard DEF Above
  <2>2. Below(t, Guard, n + 1 + j) = Below(t, Guard, n + 1 + 1)
    BY <2>1 DEF Below
  <2>3. m - j + 1 \in 1 .. m
    OBVIOUS
  <2>4. m - (m - j + 1) + Height(gs[m - j + 1]) <= 17
    BY <2>3 DEF Body
  <2>5. Height(gs[m - j + 1]) \in Nat
    BY <2>3, HeightNat, ElementOfSeq DEF Body
  <2>6. n + 1 + j - 1 + Height(gs[m - j + 1])
          <= 18 * (1 + (Cardinality(Below(s, Guard, n + 1)) + 1))
    BY <1>0, <2>4, <2>5, SMTT(30)
  <2>7. t[n + 1 + j] = gs[m - j + 1]
    BY DEF Above
  <2> QED
    BY <1>2, <1>4, <2>2, <2>6, <2>7
<1>6. ASSUME NEW k \in n + 2 .. n + 1 + m
      PROVE  k - 1 + Height(t[k]) <= 18 * (1 + Cardinality(Below(t, Guard, k)))
  <2>1. \E j \in 1 .. m : k = n + 1 + j
    <3>1. k - (n + 1) \in 1 .. m /\ k = n + 1 + (k - (n + 1))
      OBVIOUS
    <3> QED
      BY <3>1
  <2>2. PICK j \in 1 .. m : k = n + 1 + j
    BY <2>1
  <2>3. n + 1 + j - 1 + Height(t[n + 1 + j])
          <= 18 * (1 + Cardinality(Below(t, Guard, n + 1 + j)))
    BY <1>5, Zenon
  <2> QED
    BY <2>2, <2>3
<1>7. n + 1 - 1 + Height(t[n + 1]) <= 18 * (1 + Cardinality(Below(t, Guard, n + 1)))
  BY <1>3
<1>8. \A k \in 1 .. n + 1 + m : k \in 1 .. n \/ k = n + 1 \/ k \in n + 2 .. n + 1 + m
  OBVIOUS
<1>9. \A k \in 1 .. n + 1 + m :
         k - 1 + Height(t[k]) <= 18 * (1 + Cardinality(Below(t, Guard, k)))
  BY <1>1, <1>6, <1>7, <1>8
<1> QED
  BY <1>9 DEF Bounded

LEMMA BoundedPop ==
    ASSUME NEW s, NEW t, NEW n \in Nat, Len(s) = n + 1, Len(t) = n,
           Agree(s, t, n), Bounded(s)
    PROVE  Bounded(t)
<1> USE DEF Agree
<1>1. ASSUME NEW k \in 1 .. n
      PROVE  k - 1 + Height(t[k]) <= 18 * (1 + Cardinality(Below(t, Guard, k)))
  <2>1. Below(t, Guard, k) = Below(s, Guard, k)
    BY DEF Below
  <2>2. k \in 1 .. Len(s) /\ t[k] = s[k]
    OBVIOUS
  <2>3. k - 1 + Height(s[k]) <= 18 * (1 + Cardinality(Below(s, Guard, k)))
    BY <2>2, Zenon DEF Bounded
  <2> QED
    BY <2>1, <2>2, <2>3, Zenon
<1> QED
  BY <1>1 DEF Bounded

\* The height of the stack when its goals are bounded.
LEMMA BoundedLen ==
    ASSUME NEW s \in Seq(AnyGoal), Bounded(s)
    PROVE  Len(s) <= 19 * (1 + Count(s, Guard))
<1>1. Len(s) \in Nat /\ Count(s, Guard) \in Nat
  BY LenProperties, CountNat
<1>2. CASE Len(s) = 0
  BY <1>1, <1>2
<1>3. CASE Len(s) > 0
  <2>1. Len(s) - 1 + Height(s[Len(s)]) <= 18 * (1 + Cardinality(Below(s, Guard, Len(s))))
    BY <1>1, <1>3 DEF Bounded
  <2>2. s[Len(s)] \in AnyGoal
    BY <1>1, <1>3, ElementOfSeq
  <2>3. Height(s[Len(s)]) \in Nat
    <3>1. CASE s[Len(s)] \in PlainGoal
      BY <3>1, HeightNat
    <3>2. CASE s[Len(s)] \in Guard
      BY <3>2, LeaveGuard DEF Guard
    <3> QED
      BY <2>2, <3>1, <3>2 DEF AnyGoal
  <2>4. Below(s, Guard, Len(s)) \subseteq Below(s, Guard, Len(s) + 1)
    BY <1>1 DEF Below
  <2>5. Cardinality(Below(s, Guard, Len(s))) <= Cardinality(Below(s, Guard, Len(s) + 1))
    BY <1>1, <2>4, BelowFinite, FS_Subset
  <2>6. Cardinality(Below(s, Guard, Len(s))) <= Count(s, Guard)
    BY <2>5, Zenon DEF Count
  <2>7. Cardinality(Below(s, Guard, Len(s))) \in Nat
    BY <1>1, BelowFinite
  <2> QED
    BY <1>1, <2>1, <2>3, <2>6, <2>7
<1> QED
  BY <1>1, <1>2, <1>3

-----------------------------------------------------------------------------
(* What the steps of the parser do to the stack.                           *)

LEMMA StackLast ==
    ASSUME NEW s \in Seq(AnyGoal), s # << >>
    PROVE  \E n \in Nat : /\ Len(s) = n + 1 /\ Last(s) = s[n + 1]
                          /\ Last(s) \in AnyGoal
<1>1. Len(s) \in Nat /\ Len(s) # 0
  BY EmptySeq, LenProperties
<1>2. Len(s) - 1 \in Nat /\ Len(s) = Len(s) - 1 + 1
  BY <1>1
<1>3. s[Len(s)] \in AnyGoal
  BY <1>1, ElementOfSeq
<1> QED
  BY <1>2, <1>3 DEF Last

\* A function goes on.
LEMMA ExpandStack ==
    ASSUME NEW s \in Seq(AnyGoal), s # << >>, Last(s) \in PlainGoal,
           NEW gs, Body(gs, Height(Last(s))), NEW t, t = Front(s) \o Reverse(gs)
    PROVE  /\ t \in Seq(AnyGoal)
           /\ \A c \in Counter : Count(t, {Leave(c)}) = Count(s, {Leave(c)})
           /\ Count(t, Guard) = Count(s, Guard)
           /\ Bounded(s) => Bounded(t)
<1>1. PICK n \in Nat : Len(s) = n + 1 /\ Last(s) = s[n + 1]
  BY StackLast
<1>2. gs \in Seq(AnyGoal)
  BY SeqMonotonic DEF Body, AnyGoal
<1>3. PICK m \in Nat : Len(gs) = m
  BY <1>2, LenProperties
<1>4. t \in Seq(AnyGoal) /\ Len(t) = n + m /\ Agree(s, t, n) /\ Above(t, n, gs, m)
  <2>1. /\ Front(s) \o Reverse(gs) \in Seq(AnyGoal)
        /\ Len(Front(s) \o Reverse(gs)) = n + m
        /\ Agree(s, Front(s) \o Reverse(gs), n)
        /\ Above(Front(s) \o Reverse(gs), n, gs, m)
    BY <1>1, <1>2, <1>3, Replaced
  <2> QED
    BY <2>1, Zenon
<1>5. \A j \in 1 .. m : gs[m - j + 1] \in PlainGoal
  BY <1>3, ElementOfSeq DEF Body
<1>6. s[n + 1] \in PlainGoal /\ \A j \in 1 .. m : t[n + j] \in PlainGoal
  BY <1>1, <1>4, <1>5, Zenon DEF Above
<1>7. ASSUME NEW S \in SUBSET Guard
      PROVE  Count(t, S) = Count(s, S)
  <2>1. s[n + 1] \notin S /\ Outside(t, n, m, S)
    BY <1>6, PlainIsNoGuard DEF Outside
  <2> QED
    BY <1>1, <1>4, <2>1, CountSame, Zenon
<1>8. ASSUME NEW c \in Counter
      PROVE  Count(t, {Leave(c)}) = Count(s, {Leave(c)})
  BY <1>7, LeaveGuard
<1>9. Count(t, Guard) = Count(s, Guard)
  BY <1>7
<1>10. ASSUME Bounded(s)
       PROVE  Bounded(t)
  <2>1. Body(gs, Height(s[n + 1]))
    BY <1>1, Zenon
  <2> QED
    BY <1>1, <1>3, <1>4, <1>6, <1>10, <2>1, BoundedExpand, Zenon
<1> QED
  BY <1>4, <1>8, <1>9, <1>10, Zenon

\* A function returns without a guard, or an exception leaves it.
LEMMA PopStack ==
    ASSUME NEW s \in Seq(AnyGoal), s # << >>, Last(s) \in PlainGoal, NEW t, t = Front(s)
    PROVE  /\ t \in Seq(AnyGoal)
           /\ \A c \in Counter : Count(t, {Leave(c)}) = Count(s, {Leave(c)})
           /\ Count(t, Guard) = Count(s, Guard)
           /\ Bounded(s) => Bounded(t)
<1>1. Body(<< >>, Height(Last(s)))
  BY EmptyBody, HeightNat
<1>2. Reverse(<< >>) = << >>
  BY DEF Reverse
<1>3. Front(s) \in Seq(AnyGoal)
  BY StackLast, ElementOfSeq, Prefix DEF Front
<1>4. t = Front(s) \o Reverse(<< >>)
  BY <1>2, <1>3, ConcatEmptySeq
<1> QED
  BY <1>1, <1>4, ExpandStack, Zenon

\* A function ends that holds a guard.
LEMMA LeaveStack ==
    ASSUME NEW s \in Seq(AnyGoal), s # << >>, NEW c \in Counter, Last(s) = Leave(c),
           NEW t, t = Front(s)
    PROVE  /\ t \in Seq(AnyGoal)
           /\ \A d \in Counter :
                Count(t, {Leave(d)}) = IF d = c THEN Count(s, {Leave(d)}) - 1
                                       ELSE Count(s, {Leave(d)})
           /\ Count(t, Guard) = Count(s, Guard) - 1
           /\ Bounded(s) => Bounded(t)
<1>1. PICK n \in Nat : Len(s) = n + 1 /\ Last(s) = s[n + 1]
  BY StackLast
<1>2. \A i \in 1 .. n : s[i] \in AnyGoal
  BY <1>1, ElementOfSeq
<1>3. Len(s) - 1 = n
  BY <1>1
<1>4. t \in Seq(AnyGoal) /\ Len(t) = n /\ Agree(s, t, n)
  BY <1>2, <1>3, Prefix, Zenon DEF Front, Agree
<1>5. ASSUME NEW S \in SUBSET Guard, Leave(c) \in S
      PROVE  Count(t, S) = Count(s, S) - 1
  <2>1. s[n + 1] \in S
    BY <1>1, <1>5, Zenon
  <2> QED
    BY <1>1, <1>4, <2>1, CountLess, Zenon
<1>6. ASSUME NEW S \in SUBSET Guard, Leave(c) \notin S
      PROVE  Count(t, S) = Count(s, S)
  <2>1. s[n + 1] \notin S
    BY <1>1, <1>6, Zenon
  <2>2. Len(t) = n + 0 /\ 0 \in Nat
    BY <1>4
  <2>3. Outside(t, n, 0, S)
    BY DEF Outside
  <2> QED
    BY <1>1, <1>4, <2>1, <2>2, <2>3, CountSame, Zenon
<1>7. ASSUME NEW d \in Counter
      PROVE  Count(t, {Leave(d)}) = IF d = c THEN Count(s, {Leave(d)}) - 1
                                    ELSE Count(s, {Leave(d)})
  <2>1. {Leave(d)} \in SUBSET Guard /\ (Leave(c) \in {Leave(d)} <=> d = c)
    BY LeaveGuard
  <2> QED
    BY <1>5, <1>6, <2>1, Zenon
<1>8. Count(t, Guard) = Count(s, Guard) - 1
  BY <1>5, LeaveGuard
<1>9. Bounded(s) => Bounded(t)
  BY <1>1, <1>4, BoundedPop, Zenon
<1> QED
  BY <1>4, <1>7, <1>8, <1>9, Zenon

\* A function goes on under a new guard.
\* t has one guard of c more than s, and stays bounded.
Grown(s, t, c) ==
    /\ t \in Seq(AnyGoal)
    /\ \A d \in Counter :
          Count(t, {Leave(d)}) = IF d = c THEN Count(s, {Leave(d)}) + 1
                                 ELSE Count(s, {Leave(d)})
    /\ Count(t, Guard) = Count(s, Guard) + 1
    /\ Bounded(s) => Bounded(t)

LEMMA EnterStack ==
    ASSUME NEW s \in Seq(AnyGoal), s # << >>, Last(s) \in PlainGoal, NEW c \in Counter,
           NEW gs, Body(gs, 17), NEW t, t = Front(s) \o Reverse(gs \o <<Leave(c)>>)
    PROVE  Grown(s, t, c)
<1>1. PICK n \in Nat : Len(s) = n + 1 /\ Last(s) = s[n + 1]
  BY StackLast
<1>2. gs \in Seq(AnyGoal) /\ gs \in Seq(PlainGoal)
  BY SeqMonotonic DEF Body, AnyGoal
<1>3. PICK m \in Nat : Len(gs) = m
  BY <1>2, LenProperties
<1> DEFINE g == <<Leave(c)>>
<1>4. g \in Seq(AnyGoal) /\ Len(g) = 1 /\ g[1] = Leave(c)
  BY LeaveGuard
<1> HIDE DEF g
<1> DEFINE body == gs \o g
<1>5. /\ body \in Seq(AnyGoal) /\ Len(body) = Len(gs) + Len(g)
      /\ \A i \in 1 .. Len(gs) : body[i] = gs[i]
      /\ \A i \in 1 .. Len(g) : body[Len(gs) + i] = g[i]
  BY <1>2, <1>4, Joined, Zenon
<1> HIDE DEF body
<1>6. PICK k \in Nat : k = m + 1
  BY <1>3
<1>7. /\ body \in Seq(AnyGoal) /\ Len(body) = k /\ body[k] = Leave(c)
      /\ \A i \in 1 .. m : body[i] = gs[i]
  BY <1>3, <1>4, <1>5, <1>6
<1>8. t = Front(s) \o Reverse(body)
  BY Zenon DEF body, g
<1>9. t \in Seq(AnyGoal) /\ Len(t) = n + k /\ Agree(s, t, n) /\ Above(t, n, body, k)
  <2>1. /\ Front(s) \o Reverse(body) \in Seq(AnyGoal)
        /\ Len(Front(s) \o Reverse(body)) = n + k
        /\ Agree(s, Front(s) \o Reverse(body), n)
        /\ Above(Front(s) \o Reverse(body), n, body, k)
    BY <1>1, <1>6, <1>7, Replaced
  <2> QED
    BY <1>8, <2>1, Zenon
<1>10. Len(t) = n + 1 + m
  BY <1>6, <1>9
<1>11. t[n + 1] = Leave(c)
  <2>1. 1 \in 1 .. k /\ k - 1 + 1 = k
    BY <1>6
  <2> QED
    BY <1>7, <1>9, <2>1, Zenon DEF Above
<1>12. Above(t, n + 1, gs, m)
  <2> SUFFICES ASSUME NEW j \in 1 .. m
               PROVE  t[n + 1 + j] = gs[m - j + 1]
    BY Zenon DEF Above
  <2>1. /\ 1 + j \in 1 .. k /\ n + (1 + j) = n + 1 + j
        /\ k - (1 + j) + 1 = m - j + 1 /\ m - j + 1 \in 1 .. m
    BY <1>6
  <2>2. t[n + (1 + j)] = body[k - (1 + j) + 1]
    BY <1>9, <2>1, Zenon DEF Above
  <2>3. body[m - j + 1] = gs[m - j + 1]
    BY <1>7, <2>1, Zenon
  <2> QED
    BY <2>1, <2>2, <2>3
<1>13. \A j \in 1 .. m : gs[m - j + 1] \in PlainGoal
  BY <1>2, <1>3, ElementOfSeq
<1>14. s[n + 1] \in PlainGoal /\ \A j \in 1 .. m : t[n + 1 + j] \in PlainGoal
  BY <1>1, <1>12, <1>13, Zenon DEF Above
<1>15. ASSUME NEW S \in SUBSET Guard
       PROVE  s[n + 1] \notin S /\ Outside(t, n + 1, m, S)
  BY <1>14, PlainIsNoGuard DEF Outside
<1>16. ASSUME NEW S \in SUBSET Guard, Leave(c) \in S
       PROVE  Count(t, S) = Count(s, S) + 1
  <2>1. t[n + 1] \in S
    BY <1>11, <1>16, Zenon
  <2>2. s[n + 1] \notin S /\ Outside(t, n + 1, m, S)
    BY <1>15, Zenon
  <2> QED
    BY <1>1, <1>9, <1>10, <2>1, <2>2, CountMore, Zenon
<1>17. ASSUME NEW S \in SUBSET Guard, Leave(c) \notin S
       PROVE  Count(t, S) = Count(s, S)
  <2>1. s[n + 1] \notin S /\ Outside(t, n + 1, m, S)
    BY <1>15, Zenon
  <2>2. ASSUME NEW j \in 1 .. k
        PROVE  t[n + j] \notin S
    <3>1. CASE j = 1
      BY <1>11, <1>17, <3>1
    <3>2. CASE j # 1
      <4>1. j - 1 \in 1 .. m /\ n + 1 + (j - 1) = n + j
        BY <1>6, <3>2
      <4> QED
        BY <2>1, <4>1 DEF Outside
    <3> QED
      BY <3>1, <3>2
  <2>3. Outside(t, n, k, S)
    BY <2>2 DEF Outside
  <2> QED
    BY <1>1, <1>9, <2>1, <2>3, CountSame, Zenon
<1>18. ASSUME NEW d \in Counter
       PROVE  Count(t, {Leave(d)}) = IF d = c THEN Count(s, {Leave(d)}) + 1
                                     ELSE Count(s, {Leave(d)})
  <2>1. {Leave(d)} \in SUBSET Guard /\ (Leave(c) \in {Leave(d)} <=> d = c)
    BY LeaveGuard
  <2> QED
    BY <1>16, <1>17, <2>1, Zenon
<1>19. Count(t, Guard) = Count(s, Guard) + 1
  BY <1>16, LeaveGuard
<1>20. ASSUME Bounded(s)
       PROVE  Bounded(t)
  <2>1. t[n + 1] \in Guard
    BY <1>11, LeaveGuard
  <2> QED
    BY <1>1, <1>3, <1>9, <1>10, <1>12, <1>14, <1>20, <2>1, BoundedEnter, Zenon
<1> QED
  BY <1>9, <1>18, <1>19, <1>20, Zenon DEF Grown

HIDE DEF Counter

-----------------------------------------------------------------------------
(* The kinds of steps.                                                     *)

Proceeds ==
    /\ phase = "parse" /\ goals # << >> /\ Goal \in PlainGoal
    /\ \E gs : Body(gs, Height(Goal)) /\ goals' = Pushed(gs)
    /\ current' \in DOMAIN tokens /\ current' >= current
    /\ UNCHANGED <<source, tokens, phase, depth, before, error, diagnostics>>

Enters ==
    /\ phase = "parse" /\ goals # << >> /\ Goal \in PlainGoal
    /\ \E c \in Counter : /\ Allows(c) /\ depth' = Entered(depth, c)
                          /\ \E gs : Body(gs, 17) /\ goals' = Pushed(gs \o <<Leave(c)>>)
    /\ current' \in DOMAIN tokens /\ current' >= current
    /\ UNCHANGED <<source, tokens, phase, before, error, diagnostics>>

Fails ==
    /\ phase = "parse" /\ phase' = "unwind"
    /\ current' \in DOMAIN tokens /\ current' >= current
    /\ error' \in Place
    /\ depth' = depth
    /\ UNCHANGED <<source, tokens, goals, before, diagnostics>>

StepKind == Proceeds \/ Enters \/ Fails

LEMMA InTokens ==
    ASSUME ParserTypeOK
    PROVE  /\ current \in Nat \ {0} /\ current \in DOMAIN tokens
           /\ Peek \in TokenType
           /\ ~AtEnd => current + 1 \in DOMAIN tokens
           /\ \A t : CheckNext(t) /\ t # "END_OF_FILE" => current + 2 \in DOMAIN tokens
<1>1. /\ Len(tokens) \in Nat \ {0} /\ DOMAIN tokens = 1 .. Len(tokens)
      /\ \A p \in DOMAIN tokens :
            /\ tokens[p].type \in TokenType
            /\ tokens[p].type = "END_OF_FILE" <=> p = Len(tokens)
  BY TokensLemma DEF ParserTypeOK
<1>2. current \in DOMAIN tokens
  BY DEF ParserTypeOK
<1>3. current \in Nat \ {0}
  BY <1>1, <1>2
<1>4. Peek \in TokenType
  BY <1>1, <1>2 DEF Peek
<1>5. ~AtEnd => current + 1 \in DOMAIN tokens
  BY <1>1, <1>2 DEF AtEnd, Peek
<1>6. ASSUME NEW t, CheckNext(t), t # "END_OF_FILE"
      PROVE  current + 2 \in DOMAIN tokens
  <2>1. current + 1 \in DOMAIN tokens /\ tokens[current + 1].type # "END_OF_FILE"
    BY <1>5, <1>6 DEF CheckNext
  <2> QED
    BY <1>1, <1>3, <2>1
<1> QED
  BY <1>2, <1>3, <1>4, <1>5, <1>6

LEMMA Onward == ParserTypeOK => \A n \in Nat : current + n >= current
BY InTokens

\* The kinds follow from the helpers.
LEMMA ExpandKind ==
    ASSUME ParserTypeOK, phase = "parse", goals # << >>, Goal \in PlainGoal,
           NEW n \in Nat, NEW gs, Body(gs, Height(Goal)), Expand(n, gs),
           current + n \in DOMAIN tokens
    PROVE  StepKind
BY Onward DEF Expand, StepKind, Proceeds

LEMMA PopIsPush == ParserTypeOK /\ goals # << >> => Rest = Pushed(<< >>)
<1> SUFFICES ASSUME ParserTypeOK, goals # << >> PROVE Rest = Pushed(<< >>)
  OBVIOUS
<1>1. goals \in Seq(AnyGoal)
  BY DEF ParserTypeOK, AnyGoal
<1>2. Reverse(<< >>) = << >>
  BY DEF Reverse
<1>3. Front(goals) \in Seq(AnyGoal)
  BY <1>1, StackLast, ElementOfSeq, Prefix DEF Front
<1> QED
  BY <1>2, <1>3, ConcatEmptySeq DEF Rest, Pushed

LEMMA ReturnKind ==
    ASSUME ParserTypeOK, phase = "parse", goals # << >>, Goal \in PlainGoal,
           NEW n \in Nat, NEW v, Return(n, v), current + n \in DOMAIN tokens
    PROVE  StepKind
<1>1. Body(<< >>, Height(Goal))
  BY EmptyBody, HeightNat
<1> QED
  BY <1>1, PopIsPush, Onward DEF Return, StepKind, Proceeds

LEMMA ThrowKind ==
    ASSUME ParserTypeOK, phase = "parse", NEW n \in Nat, NEW e \in Place, Throw(n, e),
           current + n \in DOMAIN tokens
    PROVE  StepKind
BY Onward DEF Throw, Raise, StepKind, Fails

LEMMA RefusalKeeps ==
    ASSUME depth \in [Counter -> Nat], NEW c \in Counter
    PROVE  AfterRefusal(c) = depth
<1>1. AfterRefusal(c) \in [Counter -> Int]
  BY DEF AfterRefusal, Left, Entered
<1>2. ASSUME NEW d \in Counter
      PROVE  AfterRefusal(c)[d] = depth[d]
  BY DEF AfterRefusal, Left, Entered
<1> QED
  BY <1>1, <1>2

LEMMA GuardedKind ==
    ASSUME ParserTypeOK, phase = "parse", goals # << >>, Goal \in PlainGoal,
           NEW c \in Counter, NEW n \in Nat, NEW l \in Nat, NEW gs, Body(gs, 17),
           Guarded(c, n, l, gs), current + n \in DOMAIN tokens
    PROVE  StepKind
<1>1. CASE Allows(c)
  BY <1>1, Onward DEF Guarded, StepKind, Enters
<1>2. CASE ~Allows(c)
  <2>1. At(c, l) \in Place
    BY DEF At, Place, Complaint
  <2>2. AfterRefusal(c) = depth
    BY RefusalKeeps DEF ParserTypeOK
  <2> QED
    BY <1>2, <2>1, <2>2, Onward DEF Guarded, Raise, StepKind, Fails
<1> QED
  BY <1>1, <1>2

-----------------------------------------------------------------------------
(* The kind of each step.                                                  *)

LEMMA OnGoal ==
    ASSUME ParserTypeOK, goals # << >>, Goal.do # "leave"
    PROVE  Goal \in PlainGoal
<1>1. goals \in Seq(AnyGoal)
  BY DEF ParserTypeOK, AnyGoal
<1>2. Goal \in AnyGoal
  BY <1>1, StackLast DEF Goal
<1> QED
  BY <1>2, LeaveGuard DEF AnyGoal, Guard

\* A rule that is parsed.
LEMMA OnRule ==
    ASSUME ParserTypeOK, NEW r, Parsing(r)
    PROVE  /\ phase = "parse" /\ goals # << >> /\ Goal \in PlainGoal
           /\ Goal.do = "parse" /\ Goal.arg = r /\ r \in Rule /\ Goal.loc \in Nat
           /\ Height(Goal) = RuleHeight[r]
<1>1. phase = "parse" /\ goals # << >> /\ Goal.do = "parse" /\ Goal.arg = r
  BY DEF Parsing
<1>2. Goal \in PlainGoal
  BY <1>1, OnGoal
<1>3. Goal.arg \in Rule /\ Goal.loc \in Nat
  BY <1>1, <1>2 DEF PlainGoal
<1>4. Height(Goal) = RuleHeight[r]
  BY <1>1 DEF Height
<1> QED
  BY <1>1, <1>2, <1>3, <1>4

LEMMA Here ==
    ASSUME ParserTypeOK
    PROVE  /\ current + 0 \in DOMAIN tokens
           /\ \A t : Check(t) => current + 1 \in DOMAIN tokens
           /\ \A t \in TokenType \ {"END_OF_FILE"} :
                 Peek = t => Check(t) /\ current + 1 \in DOMAIN tokens
           /\ current \in Nat
BY InTokens DEF Check, AtEnd

LEMMA PlaceHere ==
    ASSUME ParserTypeOK, NEW w \in Complaint, NEW p \in Nat
    PROVE  At(w, p) \in Place /\ After(w, p) \in Place
BY DEF At, After, Place

LEMMA EnterBlockKind ==
    ASSUME ParserTypeOK, phase = "parse", goals # << >>, Goal \in PlainGoal, EnterBlock
    PROVE  StepKind
<1>1. Body(Statements, 14) /\ current \in Nat /\ current + 0 \in DOMAIN tokens
  BY Here, StatementsBody
<1>2. Body(Statements, 17)
  BY <1>1, BodyWeaker
<1>3. "nesting" \in Counter /\ Guarded("nesting", 0, current, Statements)
  BY DEF Counter, EnterBlock
<1> QED
  BY <1>1, <1>2, <1>3, GuardedKind, Zenon

LEMMA StatementKind == ParserTypeOK /\ Statement => StepKind
<1> SUFFICES ASSUME ParserTypeOK, Statement PROVE StepKind
  OBVIOUS
<1>1. Parsing("statement")
  BY DEF Statement
<1>2. /\ phase = "parse" /\ goals # << >> /\ Goal \in PlainGoal
      /\ Height(Goal) = 10
  BY <1>1, OnRule DEF RuleHeight
<1>3. CASE Peek \in StatementStarts /\ Expand(1, Sentence(Peek, current))
  <2>1. current + 1 \in DOMAIN tokens
    BY <1>3, InTokens DEF AtEnd, StatementStarts
  <2>2. Body(Sentence(Peek, current), 10)
    BY <1>3, Here, SentenceBody
  <2> QED
    BY <1>2, <1>3, <2>1, <2>2, ExpandKind
<1>4. CASE Check("LEFT_BRACE") /\ EnterBlock
  BY <1>2, <1>4, EnterBlockKind
<1>5. CASE Check("IDENTIFIER") /\ Expand(0, Assign(current))
  BY <1>2, <1>5, Here, AssignBody, ExpandKind, BodyWeaker
<1>6. CASE Throw(0, At("statement", current))
  BY <1>2, <1>6, Here, PlaceHere, ThrowKind DEF Complaint
<1> QED
  BY <1>3, <1>4, <1>5, <1>6 DEF Statement

LEMMA RequireBlockKind == ParserTypeOK /\ RequireBlock => StepKind
<1> SUFFICES ASSUME ParserTypeOK, RequireBlock PROVE StepKind
  OBVIOUS
<1>1. Parsing("requireBlock")
  BY DEF RequireBlock
<1>2. phase = "parse" /\ goals # << >> /\ Goal \in PlainGoal
  BY <1>1, OnRule
<1>3. CASE EnterBlock
  BY <1>2, <1>3, EnterBlockKind
<1>4. CASE Throw(0, At("LEFT_BRACE", current))
  <2>1. "LEFT_BRACE" \in Complaint
    BY Names DEF Complaint
  <2> QED
    BY <1>2, <1>4, <2>1, Here, PlaceHere, ThrowKind
<1> QED
  BY <1>3, <1>4 DEF RequireBlock

LEMMA StatementListKind == ParserTypeOK /\ StatementList => StepKind
<1> SUFFICES ASSUME ParserTypeOK, StatementList PROVE StepKind
  OBVIOUS
<1>1. PICK r \in {"statements", "caseBody"} : Parsing(r)
  BY DEF StatementList
<1>2. /\ phase = "parse" /\ goals # << >> /\ Goal \in PlainGoal
      /\ Height(Goal) = 12
  BY <1>1, OnRule DEF RuleHeight
<1>3. current + 0 \in DOMAIN tokens
  BY Here
<1>4. CASE Expand(0, << >>)
  BY <1>2, <1>3, <1>4, EmptyBody, ExpandKind
<1>5. CASE Expand(0, <<Parse("statement", 0), Item, Goal>>)
  <2>1. Parse("statement", 0) \in PlainGoal /\ Height(Parse("statement", 0)) = 10
    BY DEF Parse, Rule, PlainGoal, Height, RuleHeight
  <2>2. /\ 2 + Height(Parse("statement", 0)) <= 12 /\ 1 + Height(Item) <= 12
        /\ 0 + Height(Goal) <= 12 /\ 12 \in Nat
    BY <1>2, <2>1, OtherGoals
  <2>3. Body(<<Parse("statement", 0), Item, Goal>>, 12)
    BY <1>2, <2>1, <2>2, OtherGoals, Tuple3, Zenon
  <2> QED
    BY <1>2, <1>3, <1>5, <2>3, ExpandKind
<1> QED
  BY <1>4, <1>5 DEF StatementList

LEMMA ElseBranchKind == ParserTypeOK /\ ElseBranch => StepKind
<1> SUFFICES ASSUME ParserTypeOK, ElseBranch PROVE StepKind
  OBVIOUS
<1>1. Parsing("else")
  BY DEF ElseBranch
<1>2. /\ phase = "parse" /\ goals # << >> /\ Goal \in PlainGoal /\ Height(Goal) = 1
  BY <1>1, OnRule DEF RuleHeight
<1>3. CASE Expand(0, << >>)
  BY <1>2, <1>3, Here, EmptyBody, ExpandKind
<1>4. CASE CheckNext("KUNG")
           /\ Guarded("elseChain", 2, current + 1, If(current + 1) \o <<Item>>)
  <2>1. current + 1 \in Nat /\ current + 2 \in DOMAIN tokens /\ "elseChain" \in Counter
    BY <1>4, InTokens DEF Counter
  <2>2. Body(If(current + 1) \o <<Item>>, 7)
    BY <2>1, ElseIfBody
  <2>3. Body(If(current + 1) \o <<Item>>, 17)
    BY <2>2, BodyWeaker
  <2> QED
    BY <1>2, <1>4, <2>1, <2>3, GuardedKind, Zenon
<1>5. CASE Check("KUNG_HINDI") /\ Expand(1, <<Block, Item>>)
  <2>1. 1 + Height(Block) <= 1 /\ 0 + Height(Item) <= 1 /\ 1 \in Nat
    BY OtherGoals
  <2>2. Body(<<Block, Item>>, 1)
    BY <2>1, OtherGoals, Tuple2, Zenon
  <2> QED
    BY <1>2, <1>5, <2>2, Here, ExpandKind
<1> QED
  BY <1>3, <1>4, <1>5 DEF ElseBranch

LEMMA ForKind == ParserTypeOK /\ (ForInit \/ ForUpdate) => StepKind
<1>1. ASSUME ParserTypeOK, ForInit
      PROVE  StepKind
  <2>1. /\ phase = "parse" /\ goals # << >> /\ Goal \in PlainGoal /\ Height(Goal) = 4
    BY <1>1, OnRule DEF ForInit, RuleHeight
  <2>2. CASE Check("ITAKDA") /\ Expand(1, VarDecl(current))
    <3>1. Body(VarDecl(current), Height(Goal)) /\ current + 1 \in DOMAIN tokens
      BY <1>1, <2>1, <2>2, Here, VarDeclBody
    <3> QED
      BY <1>1, <2>1, <2>2, <3>1, ExpandKind
  <2>3. CASE Expand(0, Assign(current))
    <3>1. Body(Assign(current), Height(Goal)) /\ current + 0 \in DOMAIN tokens
      BY <1>1, <2>1, Here, AssignBody
    <3> QED
      BY <1>1, <2>1, <2>3, <3>1, ExpandKind
  <2> QED
    BY <1>1, <2>2, <2>3 DEF ForInit
<1>2. ASSUME ParserTypeOK, ForUpdate
      PROVE  StepKind
  <2>1. /\ phase = "parse" /\ goals # << >> /\ Goal \in PlainGoal /\ Height(Goal) = 3
    BY <1>2, OnRule DEF ForUpdate, RuleHeight
  <2>2. Body(AssignNoSemi(current), Height(Goal)) /\ current + 0 \in DOMAIN tokens
    BY <1>2, <2>1, Here, AssignNoSemiBody
  <2> QED
    BY <1>2, <2>1, <2>2, ExpandKind DEF ForUpdate
<1> QED
  BY <1>1, <1>2

LEMMA SwitchBodyKind == ParserTypeOK /\ SwitchBody => StepKind
<1> SUFFICES ASSUME ParserTypeOK, SwitchBody PROVE StepKind
  OBVIOUS
<1>1. /\ phase = "parse" /\ goals # << >> /\ Goal \in PlainGoal /\ Goal.loc \in Nat
  BY OnRule DEF SwitchBody
<1>2. Body(Cases \o <<Build("SWITCH", Goal.loc)>>, 17)
  BY <1>1, SwitchBodyBody
<1>3. "nesting" \in Counter /\ current + 0 \in DOMAIN tokens
  BY Here DEF Counter
<1>4. Guarded("nesting", 0, Goal.loc, Cases \o <<Build("SWITCH", Goal.loc)>>)
  BY DEF SwitchBody
<1> QED
  BY <1>1, <1>2, <1>3, <1>4, GuardedKind, Zenon

LEMMA SwitchCasesKind == ParserTypeOK /\ SwitchCases => StepKind
<1> SUFFICES ASSUME ParserTypeOK, SwitchCases PROVE StepKind
  OBVIOUS
<1>1. /\ phase = "parse" /\ goals # << >> /\ Goal \in PlainGoal /\ Height(Goal) = 15
  BY OnRule DEF SwitchCases, RuleHeight
<1>2. CASE Expand(0, << >>)
  BY <1>1, <1>2, Here, EmptyBody, ExpandKind
<1> DEFINE gs == <<Parse("label", 0), Take("COLON"), List, Parse("caseBody", 0),
                   Build("CASE", 0), Item, Goal>>
<1>3. CASE Check("KASO") /\ Expand(1, gs)
  <2>1. /\ Parse("label", 0) \in PlainGoal /\ Height(Parse("label", 0)) = 0
        /\ Parse("caseBody", 0) \in PlainGoal /\ Height(Parse("caseBody", 0)) = 12
    BY DEF Parse, Rule, PlainGoal, Height, RuleHeight
  <2>2. /\ Take("COLON") \in PlainGoal /\ Height(Take("COLON")) = 0
        /\ Build("CASE", 0) \in PlainGoal /\ Height(Build("CASE", 0)) = 0
    BY TakeGoal, BuildGoal, Names
  <2>3. /\ 6 + Height(Parse("label", 0)) <= 15 /\ 5 + Height(Take("COLON")) <= 15
        /\ 4 + Height(List) <= 15 /\ 3 + Height(Parse("caseBody", 0)) <= 15
        /\ 2 + Height(Build("CASE", 0)) <= 15 /\ 1 + Height(Item) <= 15
        /\ 0 + Height(Goal) <= 15 /\ 15 \in Nat
    BY <1>1, <2>1, <2>2, OtherGoals
  <2>4. Body(gs, 15)
    BY <1>1, <2>1, <2>2, <2>3, OtherGoals, Tuple7, Zenon
  <2>5. Body(gs, Height(Goal)) /\ current + 1 \in DOMAIN tokens
    BY <1>1, <1>3, <2>4, Here, Zenon
  <2> HIDE DEF gs
  <2> QED
    BY <1>1, <1>3, <2>5, ExpandKind, Zenon
<1> QED
  BY <1>2, <1>3 DEF SwitchCases

LEMMA PrintedKind == ParserTypeOK /\ Printed => StepKind
<1> SUFFICES ASSUME ParserTypeOK, Printed PROVE StepKind
  OBVIOUS
<1>1. /\ phase = "parse" /\ goals # << >> /\ Goal \in PlainGoal /\ Height(Goal) = 1
      /\ Goal.loc \in Nat
  BY OnRule DEF Printed, RuleHeight
<1>2. CASE Check("STRING") /\ Return(1, PrintString(tokens[current].content, Goal.loc))
  BY <1>1, <1>2, Here, ReturnKind
<1>3. CASE Expand(0, <<Expression, Build("PRINT", Goal.loc)>>)
  <2>1. /\ Build("PRINT", Goal.loc) \in PlainGoal
        /\ Height(Build("PRINT", Goal.loc)) = 0
    BY <1>1, BuildGoal, Names
  <2>2. /\ 1 + Height(Expression) <= 1 /\ 0 + Height(Build("PRINT", Goal.loc)) <= 1
        /\ 1 \in Nat
    BY <2>1, OtherGoals
  <2>3. Body(<<Expression, Build("PRINT", Goal.loc)>>, 1)
    BY <2>1, <2>2, OtherGoals, Tuple2, Zenon
  <2> QED
    BY <1>1, <1>3, <2>3, Here, ExpandKind
<1> QED
  BY <1>2, <1>3 DEF Printed

LEMMA IntLiteralKind ==
    ASSUME ParserTypeOK, phase = "parse", goals # << >>, Goal \in PlainGoal,
           NEW n \in Nat, NEW l, NEW negative, IntLiteral(n, negative, l), n > 0,
           current + n \in DOMAIN tokens
    PROVE  StepKind
<1> DEFINE number == tokens[current + n - 1].int
<1>1. CASE Return(n, LiteralInt(IF negative THEN -number ELSE number, l))
  BY <1>1, ReturnKind
<1>2. CASE Throw(n, At("number", current + n - 1))
  <2>1. current + n - 1 \in Nat /\ "number" \in Complaint
    BY Here DEF Complaint
  <2> QED
    BY <1>2, <2>1, PlaceHere, ThrowKind
<1> QED
  BY <1>1, <1>2 DEF IntLiteral

LEMMA SwitchLabelKind == ParserTypeOK /\ SwitchLabel => StepKind
<1> SUFFICES ASSUME ParserTypeOK, SwitchLabel PROVE StepKind
  OBVIOUS
<1>1. phase = "parse" /\ goals # << >> /\ Goal \in PlainGoal
  BY OnRule DEF SwitchLabel
<1> DEFINE n == IF Check("MINUS") THEN 1 ELSE 0
<1>2. n \in Nat /\ n + 1 \in Nat /\ n + 1 > 0 /\ current + n \in DOMAIN tokens
      /\ current + n \in Nat
  BY Here
<1>3. CASE tokens[current + n].type = "NUMBER" /\ IntLiteral(n + 1, n = 1, current + n)
  <2>1. /\ Len(tokens) \in Nat /\ DOMAIN tokens = 1 .. Len(tokens)
        /\ current + n # Len(tokens)
    BY <1>2, <1>3, TokensLemma DEF ParserTypeOK
  <2>2. current + (n + 1) \in DOMAIN tokens
    BY <1>2, <2>1, Here
  <2> QED
    BY <1>1, <1>2, <1>3, <2>2, IntLiteralKind
<1>4. CASE Throw(n, At("NUMBER", current + n))
  <2>1. "NUMBER" \in Complaint
    BY DEF Complaint, TokenType, Literals
  <2> QED
    BY <1>1, <1>2, <1>4, <2>1, PlaceHere, ThrowKind
<1> QED
  BY <1>3, <1>4 DEF SwitchLabel

\* The rules that a function calls alone.
LEMMA CallBody ==
    ASSUME NEW r \in Rule, NEW h \in Nat, RuleHeight[r] <= h
    PROVE  Body(<<Parse(r, 0)>>, h)
<1>1. Parse(r, 0) \in PlainGoal /\ Height(Parse(r, 0)) = RuleHeight[r]
  BY DEF Parse, PlainGoal, Height
<1>2. 0 + Height(Parse(r, 0)) <= h
  BY <1>1, HeightNat
<1> QED
  BY <1>1, <1>2, Tuple1, Zenon

LEMMA ExpressionRuleKind == ParserTypeOK /\ ExpressionRule => StepKind
<1> SUFFICES ASSUME ParserTypeOK, ExpressionRule PROVE StepKind
  OBVIOUS
<1>1. phase = "parse" /\ goals # << >> /\ Goal \in PlainGoal
  BY OnRule DEF ExpressionRule
<1>2. Body(<<Parse("logicalOr", 0)>>, 17)
  <2>1. "logicalOr" \in Rule /\ RuleHeight["logicalOr"] <= 17 /\ 17 \in Nat
    BY LevelDomain DEF Rule, RuleHeight
  <2> QED
    BY <2>1, CallBody, Zenon
<1>3. "expr" \in Counter /\ current + 0 \in DOMAIN tokens /\ current \in Nat
  BY Here DEF Counter
<1>4. Guarded("expr", 0, current, <<Parse("logicalOr", 0)>>)
  BY DEF ExpressionRule
<1> QED
  BY <1>1, <1>2, <1>3, <1>4, GuardedKind, Zenon

LEMMA LevelHeights ==
    ASSUME NEW v \in Level
    PROVE  /\ Operand[v] \in Rule /\ v \in Rule
           /\ RuleHeight[v] \in Nat /\ RuleHeight[Operand[v]] \in Nat
           /\ 2 + RuleHeight[Operand[v]] <= RuleHeight[v]
BY LevelDomain DEF Operand, Rule, RuleHeight

LEMMA BinaryLevelKind == ParserTypeOK /\ BinaryLevel => StepKind
<1> SUFFICES ASSUME ParserTypeOK, BinaryLevel PROVE StepKind
  OBVIOUS
<1>1. PICK v \in Level : /\ Parsing(v)
                         /\ Expand(0, <<Parse(Operand[v], 0), Repeat(v)>>)
  BY DEF BinaryLevel
<1>2. /\ phase = "parse" /\ goals # << >> /\ Goal \in PlainGoal
      /\ Height(Goal) = RuleHeight[v]
  BY <1>1, OnRule
<1>3. /\ Parse(Operand[v], 0) \in PlainGoal
      /\ Height(Parse(Operand[v], 0)) = RuleHeight[Operand[v]]
  BY LevelHeights DEF Parse, PlainGoal, Height
<1>4. Repeat(v) \in PlainGoal /\ Height(Repeat(v)) = RuleHeight[v]
  BY DEF Repeat, PlainGoal, Height
<1>5. /\ 1 + Height(Parse(Operand[v], 0)) <= RuleHeight[v]
      /\ 0 + Height(Repeat(v)) <= RuleHeight[v] /\ RuleHeight[v] \in Nat
  BY <1>3, <1>4, LevelHeights
<1>6. Body(<<Parse(Operand[v], 0), Repeat(v)>>, RuleHeight[v])
  BY <1>3, <1>4, <1>5, Tuple2, Zenon
<1> QED
  BY <1>1, <1>2, <1>6, Here, ExpandKind

LEMMA OperatorNames ==
    ASSUME NEW v \in Level, Peek \in Operators[v]
    PROVE  Peek \in NodeName /\ Peek # "END_OF_FILE"
BY LevelDomain DEF Operators, RelationalOps, NodeName, BinOp, LogOp

LEMMA RepeatLevelKind == ParserTypeOK /\ RepeatLevel => StepKind
<1> SUFFICES ASSUME ParserTypeOK, RepeatLevel PROVE StepKind
  OBVIOUS
<1>1. phase = "parse" /\ goals # << >> /\ Goal.do = "repeat"
  BY DEF RepeatLevel
<1>2. Goal \in PlainGoal /\ Goal.arg \in Level
  BY <1>1, OnGoal DEF PlainGoal
<1> DEFINE v == Goal.arg
<1>3. Height(Goal) = RuleHeight[v] /\ v \in Level
  BY <1>1, <1>2 DEF Height
<1>4. CASE Expand(0, << >>)
  BY <1>1, <1>2, <1>4, Here, EmptyBody, HeightNat, ExpandKind
<1>5. CASE Peek \in Operators[v] /\ Expand(1, NextOperand(v))
  <2>1. /\ Parse(Operand[v], 0) \in PlainGoal
        /\ Height(Parse(Operand[v], 0)) = RuleHeight[Operand[v]]
    BY <1>3, LevelHeights DEF Parse, PlainGoal, Height
  <2>2. Repeat(v) \in PlainGoal /\ Height(Repeat(v)) = RuleHeight[v]
    BY <1>3 DEF Repeat, PlainGoal, Height
  <2>3. Peek \in NodeName /\ current + 1 \in DOMAIN tokens /\ current \in Nat
    BY <1>3, <1>5, OperatorNames, InTokens DEF AtEnd
  <2>4. Build(Peek, current) \in PlainGoal /\ Height(Build(Peek, current)) = 0
    BY <2>3, BuildGoal
  <2>5. /\ 2 + Height(Parse(Operand[v], 0)) <= RuleHeight[v]
        /\ 1 + Height(Build(Peek, current)) <= RuleHeight[v]
        /\ 0 + Height(Repeat(v)) <= RuleHeight[v] /\ RuleHeight[v] \in Nat
    BY <1>3, <2>1, <2>2, <2>4, LevelHeights
  <2>6. Body(NextOperand(v), RuleHeight[v])
    BY <2>1, <2>2, <2>4, <2>5, Tuple3, Zenon DEF NextOperand
  <2> QED
    BY <1>1, <1>2, <1>3, <1>5, <2>3, <2>6, ExpandKind
<1> QED
  BY <1>4, <1>5 DEF RepeatLevel

LEMMA LogicalNotKind == ParserTypeOK /\ LogicalNot => StepKind
<1> SUFFICES ASSUME ParserTypeOK, LogicalNot PROVE StepKind
  OBVIOUS
<1>1. phase = "parse" /\ goals # << >> /\ Goal \in PlainGoal /\ Height(Goal) = 8
  BY OnRule DEF LogicalNot, RuleHeight
<1> DEFINE gs == <<Parse("logicalNot", 0), Build("HINDI", current)>>
<1>2. CASE Check("HINDI") /\ Guarded("expr", 1, current, gs)
  <2>1. Parse("logicalNot", 0) \in PlainGoal /\ Height(Parse("logicalNot", 0)) = 8
    BY DEF Parse, Rule, PlainGoal, Height, RuleHeight
  <2>2. Build("HINDI", current) \in PlainGoal /\ Height(Build("HINDI", current)) = 0
    BY Here, BuildGoal, Names
  <2>3. /\ 1 + Height(Parse("logicalNot", 0)) <= 17
        /\ 0 + Height(Build("HINDI", current)) <= 17 /\ 17 \in Nat
    BY <2>1, <2>2
  <2>4. Body(gs, 17)
    BY <2>1, <2>2, <2>3, Tuple2, Zenon
  <2>5. "expr" \in Counter /\ current + 1 \in DOMAIN tokens /\ current \in Nat
    BY <1>2, Here DEF Counter
  <2> HIDE DEF gs
  <2> QED
    BY <1>1, <1>2, <2>4, <2>5, GuardedKind, Zenon
<1>3. CASE Expand(0, <<Parse("relational", 0)>>)
  <2>1. "relational" \in Rule /\ RuleHeight["relational"] <= 8 /\ 8 \in Nat
    BY LevelDomain DEF Rule, RuleHeight
  <2>2. Body(<<Parse("relational", 0)>>, 8)
    BY <2>1, CallBody, Zenon
  <2> QED
    BY <1>1, <1>3, <2>2, Here, ExpandKind
<1> QED
  BY <1>2, <1>3 DEF LogicalNot

LEMMA UnaryKind == ParserTypeOK /\ Unary => StepKind
<1> SUFFICES ASSUME ParserTypeOK, Unary PROVE StepKind
  OBVIOUS
<1>1. phase = "parse" /\ goals # << >> /\ Goal \in PlainGoal /\ Height(Goal) = 2
  BY OnRule DEF Unary, RuleHeight
<1>2. CASE CheckNext("NUMBER") /\ IntLiteral(2, TRUE, current)
  <2>1. current + 2 \in DOMAIN tokens /\ 2 \in Nat /\ 2 > 0
    BY <1>2, InTokens
  <2> QED
    BY <1>1, <1>2, <2>1, IntLiteralKind, Zenon
<1> DEFINE gs == <<Parse("unary", 0), Build("NEGATE", current)>>
<1>3. CASE Check("MINUS") /\ Guarded("expr", 1, current, gs)
  <2>1. Parse("unary", 0) \in PlainGoal /\ Height(Parse("unary", 0)) = 2
    BY DEF Parse, Rule, PlainGoal, Height, RuleHeight
  <2>2. Build("NEGATE", current) \in PlainGoal /\ Height(Build("NEGATE", current)) = 0
    BY Here, BuildGoal, Names
  <2>3. /\ 1 + Height(Parse("unary", 0)) <= 17
        /\ 0 + Height(Build("NEGATE", current)) <= 17 /\ 17 \in Nat
    BY <2>1, <2>2
  <2>4. Body(gs, 17)
    BY <2>1, <2>2, <2>3, Tuple2, Zenon
  <2>5. "expr" \in Counter /\ current + 1 \in DOMAIN tokens /\ current \in Nat
    BY <1>3, Here DEF Counter
  <2> HIDE DEF gs
  <2> QED
    BY <1>1, <1>3, <2>4, <2>5, GuardedKind, Zenon
<1>4. CASE Expand(0, <<Parse("primary", 0)>>)
  <2>1. "primary" \in Rule /\ RuleHeight["primary"] <= 2 /\ 2 \in Nat
    BY DEF Rule, RuleHeight
  <2>2. Body(<<Parse("primary", 0)>>, 2)
    BY <2>1, CallBody, Zenon
  <2> QED
    BY <1>1, <1>4, <2>2, Here, ExpandKind
<1> QED
  BY <1>2, <1>3, <1>4 DEF Unary

LEMMA PrimaryKind == ParserTypeOK /\ Primary => StepKind
<1> SUFFICES ASSUME ParserTypeOK, Primary PROVE StepKind
  OBVIOUS
<1>1. phase = "parse" /\ goals # << >> /\ Goal \in PlainGoal /\ Height(Goal) = 2
  BY OnRule DEF Primary, RuleHeight
<1>2. CASE Check("NUMBER") /\ IntLiteral(1, FALSE, current)
  <2>1. current + 1 \in DOMAIN tokens /\ 1 \in Nat /\ 1 > 0
    BY <1>2, Here
  <2> QED
    BY <1>1, <1>2, <2>1, IntLiteralKind, Zenon
<1>3. ASSUME NEW t, NEW v, Check(t), Return(1, v)
      PROVE  StepKind
  BY <1>1, <1>3, Here, ReturnKind
<1>4. CASE /\ Peek \in {"BASAHIN", "KUNIN"}
           /\ Expand(1, <<Take("LEFT_PAREN"), Take("RIGHT_PAREN"),
                          Build("READ", current)>>)
  <2>1. /\ Take("LEFT_PAREN") \in PlainGoal /\ Height(Take("LEFT_PAREN")) = 0
        /\ Take("RIGHT_PAREN") \in PlainGoal /\ Height(Take("RIGHT_PAREN")) = 0
        /\ Build("READ", current) \in PlainGoal /\ Height(Build("READ", current)) = 0
    BY TakeGoal, BuildGoal, Names, Here
  <2>2. /\ 2 + Height(Take("LEFT_PAREN")) <= 2 /\ 1 + Height(Take("RIGHT_PAREN")) <= 2
        /\ 0 + Height(Build("READ", current)) <= 2 /\ 2 \in Nat
    BY <2>1
  <2>3. Body(<<Take("LEFT_PAREN"), Take("RIGHT_PAREN"), Build("READ", current)>>, 2)
    BY <2>1, <2>2, Tuple3, Zenon
  <2>4. current + 1 \in DOMAIN tokens
    BY <1>4, InTokens DEF AtEnd
  <2> QED
    BY <1>1, <1>4, <2>3, <2>4, ExpandKind
<1>5. CASE Check("LEFT_PAREN") /\ Expand(1, <<Expression, Take("RIGHT_PAREN")>>)
  <2>1. Take("RIGHT_PAREN") \in PlainGoal /\ Height(Take("RIGHT_PAREN")) = 0
    BY TakeGoal, Names
  <2>2. /\ 1 + Height(Expression) <= 2 /\ 0 + Height(Take("RIGHT_PAREN")) <= 2
        /\ 2 \in Nat
    BY <2>1, OtherGoals
  <2>3. Body(<<Expression, Take("RIGHT_PAREN")>>, 2)
    BY <2>1, <2>2, OtherGoals, Tuple2, Zenon
  <2>4. current + 1 \in DOMAIN tokens
    BY <1>5, Here
  <2> QED
    BY <1>1, <1>5, <2>3, <2>4, ExpandKind
<1>6. CASE Throw(0, At("expression", current))
  <2>1. "expression" \in Complaint
    BY DEF Complaint
  <2> QED
    BY <1>1, <1>6, <2>1, Here, PlaceHere, ThrowKind
<1> QED
  BY <1>2, <1>3, <1>4, <1>5, <1>6 DEF Primary

LEMMA ConsumeKind == ParserTypeOK /\ Consume => StepKind
<1> SUFFICES ASSUME ParserTypeOK, Consume PROVE StepKind
  OBVIOUS
<1>1. phase = "parse" /\ goals # << >> /\ Goal.do = "take"
  BY DEF Consume
<1>2. Goal \in PlainGoal /\ Goal.arg \in TokenType
  BY <1>1, OnGoal DEF PlainGoal
<1>3. CASE Check(Goal.arg) /\ Return(1, current)
  BY <1>1, <1>2, <1>3, Here, ReturnKind
<1>4. CASE Check(Goal.arg) /\ Expand(1, << >>)
  <2>1. Body(<< >>, Height(Goal))
    BY <1>2, EmptyBody, HeightNat
  <2>2. current + 1 \in DOMAIN tokens
    BY <1>4, Here
  <2> QED
    BY <1>1, <1>2, <1>4, <2>1, <2>2, ExpandKind
<1>5. CASE Throw(0, Missing(Goal.arg))
  <2>1. Goal.arg \in Complaint
    BY <1>2 DEF Complaint
  <2>2. current \in Nat /\ (current > 1 => current - 1 \in Nat)
    BY Here
  <2>3. Missing(Goal.arg) \in Place
    BY <2>1, <2>2, PlaceHere DEF Missing
  <2> QED
    BY <1>1, <1>5, <2>3, Here, ThrowKind
<1> QED
  BY <1>3, <1>4, <1>5 DEF Consume

LEMMA MakeKind == ParserTypeOK /\ Make => StepKind
<1> SUFFICES ASSUME ParserTypeOK, Make PROVE StepKind
  OBVIOUS
<1>1. phase = "parse" /\ goals # << >> /\ Goal.do = "build" /\ goals' = Rest
  BY DEF Make
<1>2. Goal \in PlainGoal
  BY <1>1, OnGoal
<1>3. Body(<< >>, Height(Goal)) /\ goals' = Pushed(<< >>)
  BY <1>1, <1>2, EmptyBody, HeightNat, PopIsPush
<1>4. current' \in DOMAIN tokens /\ current' >= current
  BY InTokens DEF Make
<1> QED
  BY <1>1, <1>2, <1>3, <1>4 DEF Make, StepKind, Proceeds

\* Every step of a function is of one of the kinds.
LEMMA Kinds ==
    ParserTypeOK /\ (StatementRules \/ ExpressionRules \/ Consume \/ Make) => StepKind
BY StatementKind, RequireBlockKind, StatementListKind, ElseBranchKind, ForKind,
   SwitchBodyKind, SwitchCasesKind, SwitchLabelKind, PrintedKind, ExpressionRuleKind,
   BinaryLevelKind, RepeatLevelKind, LogicalNotKind, UnaryKind, PrimaryKind, ConsumeKind,
   MakeKind DEF StatementRules, ExpressionRules

-----------------------------------------------------------------------------
(* The turns of parseProgram's loop.                                       *)

\* Until a token is consumed, the goal is the statement itself or the token
\* that it looked at, which then starts no statement of a keyword.
Standing(g) ==
    \/ g.do = "parse" /\ g.arg = "statement"
    \/ g.do = "take" /\ g.arg = Peek /\ Peek \notin StatementStarts

TurnInv ==
    /\ phase \in {"parse", "unwind"} =>
          /\ current >= before /\ tokens[before].type # "END_OF_FILE"
          /\ phase = "parse" /\ current = before => goals # << >> /\ Standing(Goal)
          /\ phase = "unwind" /\ current = before => Peek \notin StatementStarts
    /\ phase = "sync" => current > before

LEMMA TopOf ==
    ASSUME ParserTypeOK, goals # << >>, NEW gs \in Seq(AnyGoal), gs # << >>
    PROVE  Pushed(gs) # << >> /\ Last(Pushed(gs)) = gs[1]
<1>1. goals \in Seq(AnyGoal)
  BY DEF ParserTypeOK, AnyGoal
<1>2. PICK n \in Nat : Len(goals) = n + 1
  BY <1>1, StackLast
<1>3. PICK m \in Nat : Len(gs) = m /\ m > 0
  BY LenProperties, EmptySeq
<1> DEFINE t == Front(goals) \o Reverse(gs)
<1>4. t \in Seq(AnyGoal) /\ Len(t) = n + m /\ Above(t, n, gs, m)
  BY <1>1, <1>2, <1>3, Replaced, ZenonT(30)
<1> HIDE DEF t
<1>5. t[n + m] = gs[1]
  BY <1>3, <1>4 DEF Above
<1>6. t # << >> /\ Last(t) = t[n + m]
  BY <1>3, <1>4, EmptySeq DEF Last
<1> QED
  BY <1>5, <1>6, Zenon DEF t, Pushed, Rest

LEMMA OnlyStatement ==
    ASSUME Standing(Goal), StatementRules \/ ExpressionRules
    PROVE  Statement
<1>1. \A r : Parsing(r) => r = "statement"
  BY DEF Standing, Parsing
<1>2. "statement" \notin Level
  BY LevelDomain
<1>3. CASE StatementRules
  BY <1>1, <1>3 DEF StatementRules, RequireBlock, StatementList, ElseBranch, ForInit,
     ForUpdate, SwitchBody, SwitchCases, SwitchLabel, Printed
<1>4. CASE ExpressionRules
  BY <1>1, <1>2, <1>4 DEF ExpressionRules, ExpressionRule, BinaryLevel, RepeatLevel,
     LogicalNot, Unary, Primary, Standing
<1> QED
  BY <1>3, <1>4

\* A function that has consumed a token stays behind it.
LEMMA MovedTurn ==
    ASSUME ParserTypeOK, TurnInv, StepKind, current > before
    PROVE  TurnInv'
<1>1. current \in Nat /\ before \in Nat /\ current' \in Nat
  BY InTokens, TokensLemma DEF ParserTypeOK, StepKind, Proceeds, Enters, Fails
<1>2. current' > before' /\ before' = before /\ source' = source /\ tokens' = tokens
  BY <1>1 DEF StepKind, Proceeds, Enters, Fails
<1>3. phase = "parse" /\ phase' \in {"parse", "unwind"}
  BY DEF StepKind, Proceeds, Enters, Fails
<1> QED
  BY <1>1, <1>2, <1>3 DEF TurnInv

\* The goals that begin with the token looked at.
LEMMA OpensWith ==
    ASSUME NEW l \in Nat
    PROVE  /\ Assign(l) \in Seq(AnyGoal) /\ Assign(l) # << >>
           /\ Assign(l)[1] = Take("IDENTIFIER")
           /\ ParserTypeOK => LET gs == Statements \o <<Leave("nesting")>>
                              IN  /\ gs \in Seq(AnyGoal) /\ gs # << >>
                                  /\ gs[1] = Take("LEFT_BRACE")
<1>1. Assign(l) \in Seq(AnyGoal)
  BY AssignBody, SeqMonotonic DEF Body, AnyGoal
<1>2. Assign(l) # << >> /\ Assign(l)[1] = Take("IDENTIFIER")
  BY DEF Assign, AssignNoSemi
<1>3. ASSUME ParserTypeOK
      PROVE  Statements \in Seq(AnyGoal) /\ Len(Statements) = 5
             /\ Statements[1] = Take("LEFT_BRACE")
  BY <1>3, Here, StatementsBody, SeqMonotonic DEF Body, AnyGoal, Statements
<1>4. <<Leave("nesting")>> \in Seq(AnyGoal) /\ Len(<<Leave("nesting")>>) = 1
  BY DEF AnyGoal, Guard, Counter
<1> QED
  BY <1>1, <1>2, <1>3, <1>4, Joined

LEMMA StatementTurn ==
    ASSUME ParserTypeOK, TurnInv, Statement, current = before
    PROVE  TurnInv'
<1>1. /\ phase = "parse" /\ goals # << >> /\ current \in Nat
      /\ tokens[before].type # "END_OF_FILE"
  BY InTokens DEF Statement, Parsing, TurnInv
<1>2. before' = before /\ source' = source /\ tokens' = tokens
  BY DEF Statement, Expand, EnterBlock, Guarded, Throw, Raise
<1>3. CASE Expand(1, Sentence(Peek, current))
  BY <1>1, <1>2, <1>3 DEF Expand, TurnInv
<1>4. ASSUME NEW t \in {"LEFT_BRACE", "IDENTIFIER"}, Peek = t, current' = current,
             phase' = "parse", NEW gs \in Seq(AnyGoal), gs # << >>, gs[1] = Take(t),
             goals' = Pushed(gs)
      PROVE  TurnInv'
  <2>1. goals' # << >> /\ Goal' = Take(t)
    BY <1>1, <1>4, TopOf DEF Goal
  <2>2. Peek' = t /\ t \notin StatementStarts
    BY <1>2, <1>4 DEF Peek, StatementStarts
  <2>3. Standing(Goal)'
    BY <2>1, <2>2 DEF Standing, Take
  <2> QED
    BY <1>1, <1>2, <1>4, <2>1, <2>3 DEF TurnInv
<1>5. ASSUME phase' = "unwind", current' = current, Peek \notin StatementStarts
      PROVE  TurnInv'
  BY <1>1, <1>2, <1>5 DEF TurnInv, Peek
<1>6. CASE Check("LEFT_BRACE") /\ EnterBlock
  <2>1. Peek = "LEFT_BRACE" /\ Peek \notin StatementStarts /\ current + 0 = current
    BY <1>1, <1>6 DEF Check, StatementStarts
  <2>2. CASE Allows("nesting")
    <3> DEFINE gs == Statements \o <<Leave("nesting")>>
    <3>1. gs \in Seq(AnyGoal) /\ gs # << >> /\ gs[1] = Take("LEFT_BRACE")
      BY <1>1, OpensWith
    <3>2. goals' = Pushed(gs) /\ phase' = phase /\ current' = current
      BY <1>6, <2>1, <2>2 DEF EnterBlock, Guarded
    <3> QED
      BY <1>1, <1>4, <2>1, <3>1, <3>2
  <2>3. CASE ~Allows("nesting")
    BY <1>5, <1>6, <2>1, <2>3 DEF EnterBlock, Guarded, Raise
  <2> QED
    BY <2>2, <2>3
<1>7. CASE Check("IDENTIFIER") /\ Expand(0, Assign(current))
  <2>1. Assign(current) \in Seq(AnyGoal) /\ Assign(current) # << >>
        /\ Assign(current)[1] = Take("IDENTIFIER")
    BY <1>1, OpensWith
  <2>2. Peek = "IDENTIFIER" /\ current' = current /\ phase' = phase
        /\ goals' = Pushed(Assign(current))
    BY <1>1, <1>7 DEF Check, Expand
  <2> QED
    BY <1>1, <1>4, <2>1, <2>2
<1>8. CASE Peek \notin StatementStarts /\ Throw(0, At("statement", current))
  BY <1>1, <1>5, <1>8 DEF Throw, Raise
<1> QED
  BY <1>3, <1>6, <1>7, <1>8 DEF Statement

LEMMA ConsumeTurn ==
    ASSUME ParserTypeOK, TurnInv, Consume, current = before
    PROVE  TurnInv'
<1>1. /\ phase = "parse" /\ Goal.do = "take" /\ Goal.arg = Peek /\ ~AtEnd
      /\ current \in Nat /\ tokens[before].type # "END_OF_FILE"
  BY InTokens DEF Consume, TurnInv, Standing, AtEnd, Peek
<1>2. /\ current' = current + 1 /\ phase' = phase /\ before' = before
      /\ tokens' = tokens
  BY <1>1 DEF Consume, Check, Return, Expand
<1> QED
  BY <1>1, <1>2 DEF TurnInv

LEMMA RulesTurn ==
    ASSUME ParserTypeOK, TurnInv, StatementRules \/ ExpressionRules \/ Consume \/ Make
    PROVE  TurnInv'
<1>1. StepKind /\ phase = "parse"
  BY Kinds DEF StepKind, Proceeds, Enters, Fails
<1>2. current >= before /\ current \in Nat /\ before \in Nat
  BY <1>1, InTokens, TokensLemma DEF TurnInv, ParserTypeOK
<1>3. CASE current > before
  BY <1>1, <1>3, MovedTurn
<1>4. CASE current = before
  <2>1. goals # << >> /\ Standing(Goal)
    BY <1>1, <1>4 DEF TurnInv
  <2>2. ~Make
    BY <2>1 DEF Make, Standing
  <2> QED
    BY <1>4, <2>1, <2>2, OnlyStatement, StatementTurn, ConsumeTurn
<1> QED
  BY <1>2, <1>3, <1>4

\* advance() stays inside the tokens.
LEMMA AdvancedIn ==
    ASSUME source \in DOMAIN Inputs, tokens = Inputs[source], NEW p \in DOMAIN tokens
    PROVE  /\ Advanced(p) \in DOMAIN tokens /\ Advanced(p) >= p
           /\ tokens[p].type # "END_OF_FILE" => Advanced(p) = p + 1
BY TokensLemma DEF Advanced

LEMMA MovedByCatch ==
    ASSUME ParserTypeOK, TurnInv, Catch
    PROVE  current' > before /\ before' = before
<1>1. current \in Nat /\ before \in Nat /\ current \in DOMAIN tokens
  BY InTokens, TokensLemma DEF ParserTypeOK
<1>2. /\ current' = SyncStart /\ before' = before /\ current >= before
      /\ tokens[before].type # "END_OF_FILE"
      /\ current = before => Peek \notin StatementStarts
  BY DEF Catch, TurnInv
<1>3. /\ Advanced(current) \in Nat /\ Advanced(current) >= current
      /\ tokens[current].type # "END_OF_FILE" => Advanced(current) = current + 1
  BY <1>1, AdvancedIn, TokensLemma, SMTT(30) DEF ParserTypeOK
<1>4. SyncStart = IF Peek \in StatementStarts THEN current ELSE Advanced(current)
  BY DEF SyncStart
<1> QED
  BY <1>1, <1>2, <1>3, <1>4

LEMMA LoopTurn ==
    ASSUME ParserTypeOK, TurnInv,
           \/ BeginStatement \/ EndStatement \/ Finish \/ Release
           \/ Unwind \/ Catch \/ Synchronize \/ Resume
    PROVE  TurnInv'
<1>1. current \in Nat /\ before \in Nat /\ current \in DOMAIN tokens
  BY InTokens, TokensLemma DEF ParserTypeOK
<1>2. CASE BeginStatement
  <2>1. goals' # << >> /\ Goal' = Parse("statement", 0)
    BY <1>2 DEF BeginStatement, Goal, Last
  <2>2. Standing(Goal)'
    BY <2>1 DEF Standing, Parse
  <2> QED
    BY <1>1, <1>2, <2>1, <2>2 DEF BeginStatement, TurnInv, AtEnd, Peek
<1>3. CASE EndStatement \/ Finish \/ Resume
  BY <1>3 DEF EndStatement, Finish, Resume, TurnInv
<1>4. CASE Release
  <2>1. Goal.do = "leave" /\ ~Standing(Goal)
    BY <1>4 DEF Release, Standing
  <2> QED
    BY <1>4, <2>1 DEF Release, TurnInv, Peek
<1>5. CASE Unwind
  BY <1>5 DEF Unwind, TurnInv, Peek
<1>6. CASE Catch
  BY <1>1, <1>6, MovedByCatch DEF Catch, TurnInv
<1>7. CASE Synchronize
  <2>1. Advanced(current) >= current /\ Advanced(current) \in DOMAIN tokens
    BY <1>1, AdvancedIn DEF ParserTypeOK
  <2>2. Advanced(current) \in Nat
    BY <2>1, TokensLemma DEF ParserTypeOK
  <2> QED
    BY <1>1, <1>7, <2>1, <2>2 DEF Synchronize, TurnInv
<1> QED
  BY <1>2, <1>3, <1>4, <1>5, <1>6, <1>7

-----------------------------------------------------------------------------
(* The stack and the counters.                                             *)

Total(d) == d["nesting"] + d["elseChain"] + d["expr"]

\* d counts the guards of s, and the height of s is bounded.
Balanced(s, d) ==
    /\ \A c \in Counter : d[c] = Count(s, {Leave(c)})
    /\ Total(d) = Count(s, Guard)
    /\ Bounded(s)

InLimits(d) == \A c \in Counter : d[c] <= Limit[c]

StackInv ==
    /\ ParserTypeOK
    /\ phase \in {"top", "sync", "done"} => goals = << >>
    /\ Balanced(goals, depth)
    /\ InLimits(depth)

LEMMA LimitNat == \A c \in Counter : Limit[c] \in Nat
BY LimitsAssumption DEF Limit, Counter

LEMMA BalancedEmpty ==
    Balanced(<< >>, [c \in Counter |-> 0]) /\ InLimits([c \in Counter |-> 0])
<1>1. Bounded(<< >>)
  BY DEF Bounded
<1>2. Total([c \in Counter |-> 0]) = 0
  BY DEF Total, Counter
<1> QED
  BY <1>1, <1>2, CountEmpty, LimitNat DEF Balanced, InLimits

LEMMA ProceedsStack == StackInv /\ Proceeds => StackInv'
<1> SUFFICES ASSUME StackInv, Proceeds PROVE StackInv'
  OBVIOUS
<1>1. PICK gs : Body(gs, Height(Goal)) /\ goals' = Front(goals) \o Reverse(gs)
  BY DEF Proceeds, Pushed, Rest
<1>2. goals \in Seq(AnyGoal) /\ goals # << >> /\ Last(goals) \in PlainGoal
  BY DEF StackInv, ParserTypeOK, AnyGoal, Proceeds, Goal
<1>3. /\ goals' \in Seq(AnyGoal)
      /\ \A c \in Counter : Count(goals', {Leave(c)}) = Count(goals, {Leave(c)})
      /\ Count(goals', Guard) = Count(goals, Guard)
      /\ Bounded(goals) => Bounded(goals')
  BY <1>1, <1>2, ExpandStack, Zenon DEF Goal
<1>4. Balanced(goals, depth)' /\ InLimits(depth)'
  BY <1>3 DEF StackInv, Balanced, InLimits, Proceeds
<1>5. ParserTypeOK'
  BY <1>3 DEF StackInv, ParserTypeOK, AnyGoal, Proceeds
<1> QED
  BY <1>4, <1>5 DEF StackInv, Proceeds

LEMMA EntersStack == StackInv /\ Enters => StackInv'
<1> SUFFICES ASSUME StackInv, Enters PROVE StackInv'
  OBVIOUS
<1>1. PICK c \in Counter : /\ Allows(c) /\ depth' = Entered(depth, c)
                           /\ \E gs : Body(gs, 17) /\ goals' = Pushed(gs \o <<Leave(c)>>)
  BY DEF Enters
<1>2. PICK gs : Body(gs, 17) /\ goals' = Front(goals) \o Reverse(gs \o <<Leave(c)>>)
  BY <1>1 DEF Pushed, Rest
<1>3. goals \in Seq(AnyGoal) /\ goals # << >> /\ Last(goals) \in PlainGoal
  BY DEF StackInv, ParserTypeOK, AnyGoal, Enters, Goal
<1>4. Grown(goals, goals', c)
  BY <1>2, <1>3, EnterStack, Zenon
<1>5. depth \in [Counter -> Nat]
  BY DEF StackInv, ParserTypeOK
<1>6. /\ depth' \in [Counter -> Nat]
      /\ \A d \in Counter : depth'[d] = IF d = c THEN depth[d] + 1 ELSE depth[d]
  BY <1>1, <1>5 DEF Entered
<1>7. Total(depth') = Total(depth) + 1
  BY <1>5, <1>6 DEF Total, Counter
<1>8. \A d \in Counter : depth[d] = Count(goals, {Leave(d)})
  BY DEF StackInv, Balanced
<1>9. Balanced(goals', depth')
  BY <1>4, <1>6, <1>7, <1>8 DEF StackInv, Balanced, Grown
<1>10. depth'[c] <= Limit[c]
  BY <1>1 DEF Allows
<1>11. InLimits(depth')
  BY <1>6, <1>10 DEF StackInv, InLimits
<1>12. ParserTypeOK'
  BY <1>4, <1>6 DEF StackInv, ParserTypeOK, AnyGoal, Enters, Grown
<1> QED
  BY <1>9, <1>11, <1>12 DEF StackInv, Enters

LEMMA FailsStack == StackInv /\ Fails => StackInv'
<1> SUFFICES ASSUME StackInv, Fails PROVE StackInv'
  OBVIOUS
<1>1. ParserTypeOK'
  BY DEF StackInv, ParserTypeOK, Fails
<1> QED
  BY <1>1 DEF StackInv, Fails

LEMMA ReleaseStack == StackInv /\ Release => StackInv'
<1> SUFFICES ASSUME StackInv, Release PROVE StackInv'
  OBVIOUS
<1>1. goals \in Seq(AnyGoal) /\ goals # << >> /\ Goal.do = "leave"
  BY DEF StackInv, ParserTypeOK, AnyGoal, Release
<1>2. Goal \in Guard
  BY <1>1, StackLast, PlainIsNoGuard DEF Goal, AnyGoal
<1>3. PICK c \in Counter : Goal = Leave(c)
  BY <1>2 DEF Guard
<1>4. Goal.arg = c /\ goals' = Front(goals) /\ Last(goals) = Leave(c)
  BY <1>3, LeaveGuard DEF Release, Rest, Goal
<1>5. /\ goals' \in Seq(AnyGoal)
      /\ \A d \in Counter :
            Count(goals', {Leave(d)}) = IF d = c THEN Count(goals, {Leave(d)}) - 1
                                        ELSE Count(goals, {Leave(d)})
      /\ Count(goals', Guard) = Count(goals, Guard) - 1
      /\ Bounded(goals) => Bounded(goals')
  BY <1>1, <1>4, LeaveStack
<1>6. depth \in [Counter -> Nat] /\ depth' = Left(depth, c)
  BY <1>4 DEF StackInv, ParserTypeOK, Release
<1>7. \A d \in Counter : depth[d] = Count(goals, {Leave(d)})
  BY DEF StackInv, Balanced
<1>8. \A d \in Counter : depth'[d] = IF d = c THEN depth[d] - 1 ELSE depth[d]
  BY <1>6 DEF Left
<1>9. \A d \in Counter : depth'[d] = Count(goals', {Leave(d)})
  BY <1>5, <1>7, <1>8
<1>10. \A d \in Counter : depth'[d] \in Nat
  BY <1>5, <1>9, CountNat
<1>11. depth' \in [Counter -> Nat]
  BY <1>6, <1>10 DEF Left
<1>12. Total(depth') = Total(depth) - 1
  BY <1>6, <1>8 DEF Total, Counter
<1>13. Balanced(goals', depth')
  BY <1>5, <1>9, <1>12 DEF StackInv, Balanced
<1>14. InLimits(depth')
  BY <1>6, <1>8, LimitNat DEF StackInv, InLimits
<1>15. ParserTypeOK'
  BY <1>5, <1>11 DEF StackInv, ParserTypeOK, AnyGoal, Release
<1> QED
  BY <1>13, <1>14, <1>15 DEF StackInv, Release

LEMMA UnwindStack == StackInv /\ Unwind => StackInv'
<1> SUFFICES ASSUME StackInv, Unwind PROVE StackInv'
  OBVIOUS
<1>1. goals \in Seq(AnyGoal) /\ goals # << >> /\ goals' = Front(goals)
  BY DEF StackInv, ParserTypeOK, AnyGoal, Unwind, Rest
<1>2. Last(goals) \in PlainGoal
  BY OnGoal DEF StackInv, Unwind, Goal
<1>3. /\ goals' \in Seq(AnyGoal)
      /\ \A c \in Counter : Count(goals', {Leave(c)}) = Count(goals, {Leave(c)})
      /\ Count(goals', Guard) = Count(goals, Guard)
      /\ Bounded(goals) => Bounded(goals')
  BY <1>1, <1>2, PopStack
<1>4. Balanced(goals, depth)' /\ InLimits(depth)'
  BY <1>3 DEF StackInv, Balanced, InLimits, Unwind
<1>5. ParserTypeOK'
  BY <1>3 DEF StackInv, ParserTypeOK, AnyGoal, Unwind
<1> QED
  BY <1>4, <1>5 DEF StackInv, Unwind

LEMMA LoopStack ==
    StackInv /\ TurnInv
    /\ (BeginStatement \/ EndStatement \/ Finish \/ Catch \/ Synchronize \/ Resume)
    => StackInv'
<1> SUFFICES ASSUME StackInv, TurnInv PROVE
        (BeginStatement \/ EndStatement \/ Finish \/ Catch \/ Synchronize \/ Resume)
        => StackInv'
  OBVIOUS
<1>1. ASSUME BeginStatement PROVE StackInv'
  <2> DEFINE g == Parse("statement", 0)
  <2>1. g \in PlainGoal
    BY DEF Parse, Rule, PlainGoal
  <2>2. goals' \in Seq(AnyGoal) /\ goals' = <<g>>
    BY <1>1, <2>1 DEF BeginStatement, AnyGoal
  <2>3. goals = << >> /\ Height(g) = 10
    BY <1>1 DEF BeginStatement, StackInv, Parse, Height, RuleHeight
  <2>4. ASSUME NEW S, g \notin S
        PROVE  Count(<<g>>, S) = 0
    <3>1. Below(<<g>>, S, 2) = {}
      BY <2>4 DEF Below
    <3> QED
      BY <3>1, FS_EmptySet DEF Count
  <2>5. \A c \in Counter : Count(<<g>>, {Leave(c)}) = Count(<< >>, {Leave(c)})
    BY <2>1, <2>4, PlainIsNoGuard, LeaveGuard, CountEmpty
  <2>6. Count(<<g>>, Guard) = Count(<< >>, Guard)
    BY <2>1, <2>4, PlainIsNoGuard, CountEmpty
  <2>7. Bounded(<<g>>)
    <3>1. Cardinality(Below(<<g>>, Guard, 1)) \in Nat
      BY BelowFinite
    <3> QED
      BY <2>3, <3>1 DEF Bounded
  <2>8. Balanced(goals, depth)' /\ InLimits(depth)'
    BY <1>1, <2>2, <2>3, <2>5, <2>6, <2>7 DEF StackInv, Balanced, InLimits, BeginStatement
  <2>9. ParserTypeOK'
    BY <1>1, <2>2 DEF StackInv, ParserTypeOK, AnyGoal, BeginStatement
  <2> QED
    BY <1>1, <2>8, <2>9 DEF StackInv, BeginStatement
<1>2. ASSUME EndStatement \/ Finish PROVE StackInv'
  <2>1. ParserTypeOK'
    BY <1>2 DEF StackInv, ParserTypeOK, EndStatement, Finish
  <2> QED
    BY <1>2, <2>1 DEF StackInv, EndStatement, Finish
<1>3. ASSUME Catch PROVE StackInv'
  <2>1. current' \in DOMAIN tokens
    BY <1>3, AdvancedIn DEF Catch, SyncStart, StackInv, ParserTypeOK
  <2>2. NoError \in Place
    BY DEF NoError, At, Place, Complaint
  <2>3. current' > 1
    <3>1. before \in Nat \ {0} /\ current' \in Nat
      BY <1>3, <2>1, TokensLemma DEF StackInv, ParserTypeOK
    <3> QED
      BY <1>3, <3>1, MovedByCatch DEF StackInv
  <2>4. ParserTypeOK'
    BY <1>3, <2>1, <2>2, <2>3, AppendProperties DEF StackInv, ParserTypeOK, Catch
  <2> QED
    BY <1>3, <2>4 DEF StackInv, Catch
<1>4. ASSUME Synchronize PROVE StackInv'
  <2>1. current' \in DOMAIN tokens
    BY <1>4, AdvancedIn DEF Synchronize, StackInv, ParserTypeOK
  <2>2. current' > 1
    <3>1. current \in Nat /\ current' \in Nat /\ current > 1
      BY <1>4, <2>1, TokensLemma DEF StackInv, ParserTypeOK, Synchronize
    <3> QED
      BY <1>4, <3>1, AdvancedIn DEF StackInv, ParserTypeOK, Synchronize
  <2>3. ParserTypeOK'
    BY <1>4, <2>1, <2>2 DEF StackInv, ParserTypeOK, Synchronize
  <2> QED
    BY <1>4, <2>3 DEF StackInv, Synchronize
<1>5. ASSUME Resume PROVE StackInv'
  <2>1. current' \in DOMAIN tokens
    BY <1>5, AdvancedIn DEF Resume, ResumeAt, StackInv, ParserTypeOK
  <2>2. ParserTypeOK'
    BY <1>5, <2>1 DEF StackInv, ParserTypeOK, Resume
  <2> QED
    BY <1>5, <2>2 DEF StackInv, Resume
<1> QED
  BY <1>1, <1>2, <1>3, <1>4, <1>5

LEMMA StackInit == ParserInit => StackInv
<1> SUFFICES ASSUME ParserInit PROVE StackInv
  OBVIOUS
<1>1. current \in DOMAIN tokens /\ before \in DOMAIN tokens
  BY TokensLemma DEF ParserInit
<1>2. NoError \in Place
  BY DEF NoError, At, Place, Complaint
<1>3. ParserTypeOK
  BY <1>1, <1>2 DEF ParserInit, ParserTypeOK
<1> QED
  BY <1>3, BalancedEmpty DEF ParserInit, StackInv

ParserInv == StackInv /\ TurnInv

LEMMA ParserInit_Inv == ParserInit => ParserInv
BY StackInit DEF ParserInv, ParserInit, TurnInv

LEMMA ParserNext_Inv == ParserInv /\ [ParserNext]_parserVars => ParserInv'
<1> SUFFICES ASSUME StackInv, TurnInv, [ParserNext]_parserVars
             PROVE  StackInv' /\ TurnInv'
  BY DEF ParserInv
<1>1. ParserTypeOK
  BY DEF StackInv
<1>2. ASSUME StatementRules \/ ExpressionRules \/ Consume \/ Make
      PROVE  StackInv' /\ TurnInv'
  <2>1. StepKind
    BY <1>1, <1>2, Kinds
  <2> QED
    BY <1>1, <1>2, <2>1, ProceedsStack, EntersStack, FailsStack, RulesTurn DEF StepKind
<1>3. ASSUME Release \/ Unwind
      PROVE  StackInv' /\ TurnInv'
  BY <1>1, <1>3, ReleaseStack, UnwindStack, LoopTurn
<1>4. ASSUME BeginStatement \/ EndStatement \/ Finish \/ Catch \/ Synchronize \/ Resume
      PROVE  StackInv' /\ TurnInv'
  BY <1>1, <1>4, LoopStack, LoopTurn
<1>5. CASE UNCHANGED parserVars
  <2>1. StackInv'
    BY <1>5 DEF StackInv, ParserTypeOK, Balanced, InLimits, parserVars, Total
  <2>2. TurnInv'
    BY <1>5 DEF TurnInv, Standing, parserVars, Goal, Peek
  <2> QED
    BY <2>1, <2>2
<1> QED
  BY <1>2, <1>3, <1>4, <1>5 DEF ParserNext

LEMMA ParserAlways == ParserSpec => []ParserInv
BY ParserInit_Inv, ParserNext_Inv, PTL DEF ParserSpec

\* Types.  The parser never reads a token outside its sequence, whatever the
\* error it recovers from, and the place of every diagnostic exists.
THEOREM ParserTypeCorrect == ParserSpec => []ParserTypeOK
<1>1. ParserInv => ParserTypeOK
  BY DEF ParserInv, StackInv
<1> QED
  BY <1>1, ParserAlways, PTL

\* The counters of DepthCheck are the guards alive, within their limits, at
\* every moment of a return, of a refusal and of an exception.
THEOREM GuardsAlwaysBalanced == ParserSpec => []GuardsBalanced
<1>1. ASSUME ParserInv PROVE GuardsBalanced
  <2> SUFFICES ASSUME NEW c \in Counter
               PROVE  depth[c] = Cardinality(Guards(c)) /\ depth[c] <= Limit[c]
    BY DEF GuardsBalanced
  <2>1. goals \in Seq(AnyGoal) /\ Len(goals) \in Nat /\ DOMAIN goals = 1 .. Len(goals)
    BY <1>1, LenProperties DEF ParserInv, StackInv, ParserTypeOK, AnyGoal
  <2>2. Guards(c) = Below(goals, {Leave(c)}, Len(goals) + 1)
    BY <2>1 DEF Guards, Below
  <2> QED
    BY <1>1, <2>2 DEF ParserInv, StackInv, Balanced, InLimits, Count
<1> QED
  BY <1>1, ParserAlways, PTL

\* The recursion of the parser is bounded by its limits, for every input.
THEOREM RecursionAlwaysBounded == ParserSpec => []RecursionBounded
<1>1. ASSUME ParserInv PROVE RecursionBounded
  <2>1. goals \in Seq(AnyGoal) /\ Bounded(goals)
    BY <1>1 DEF ParserInv, StackInv, ParserTypeOK, AnyGoal, Balanced
  <2>2. Len(goals) <= 19 * (1 + Count(goals, Guard))
    BY <2>1, BoundedLen
  <2>3. Count(goals, Guard) = depth["nesting"] + depth["elseChain"] + depth["expr"]
    BY <1>1 DEF ParserInv, StackInv, Balanced, Total
  <2>4. /\ depth["nesting"] \in Nat /\ depth["elseChain"] \in Nat /\ depth["expr"] \in Nat
    <3>1. depth \in [Counter -> Nat]
      BY <1>1 DEF ParserInv, StackInv, ParserTypeOK
    <3> QED
      BY <3>1 DEF Counter
  <2> QED
    BY <2>2, <2>3, <2>4 DEF RecursionBounded, GoalsPerLevel
<1> QED
  BY <1>1, ParserAlways, PTL
\* Every turn of parseProgram's loop consumes a token, also one that ends in an
\* error at its first: an error there is at no keyword, and synchronize()
\* steps over it.
THEOREM TurnsConsume == ParserSpec => EveryTurnConsumes
<1> DEFINE Consumed == phase # "top" /\ phase' = "top"
                       => current > before /\ current' = current
<1>1. ASSUME ParserInv, [ParserNext]_parserVars PROVE [Consumed]_parserVars
  <2> SUFFICES ASSUME ParserNext, phase # "top", phase' = "top"
               PROVE  current > before /\ current' = current
    BY <1>1
  <2>1. EndStatement \/ Resume
    <3>1. ASSUME StatementRules \/ ExpressionRules \/ Consume \/ Make
          PROVE  FALSE
      BY <1>1, <3>1, Kinds DEF ParserInv, StackInv, StepKind, Proceeds, Enters, Fails
    <3> QED
      BY <3>1 DEF ParserNext, BeginStatement, Finish, Release, Unwind, Catch, Synchronize
  <2>2. current \in Nat /\ before \in Nat
    BY <1>1, InTokens, TokensLemma DEF ParserInv, StackInv, ParserTypeOK
  <2>3. CASE EndStatement
    BY <1>1, <2>2, <2>3 DEF ParserInv, TurnInv, EndStatement
  <2>4. CASE Resume
    BY <1>1, <2>2, <2>4 DEF ParserInv, TurnInv, Resume, ResumeAt
  <2> QED
    BY <2>1, <2>3, <2>4
<1> QED
  BY <1>1, ParserAlways, PTL DEF ParserSpec, EveryTurnConsumes

-----------------------------------------------------------------------------
(* What the parser reports: the order of its diagnostics and the tokens    *)
(* they stand behind.                                                      *)
(*                                                                         *)
(* A place that an error names later than it is read is kept in a goal:    *)
(* the keyword of a pili, in front of its body.  A string is consumed in   *)
(* front of the ')' that printing still has to take.  The invariant says   *)
(* this of the stack of goals, and where the last report stands relative   *)
(* to the statement that is parsed.                                        *)

\* Goals that keep no place and take no string.

QuietGoal ==
    {g \in AnyGoal : /\ g.do = "take" => g.arg # "STRING"
                     /\ g.do = "parse" => g.arg \notin {"printed", "switchBody"}}

LEMMA QuietTake ==
    ASSUME NEW t \in TokenType \ {"STRING"}
    PROVE  Take(t) \in QuietGoal
BY DEF Take, QuietGoal, AnyGoal, PlainGoal

LEMMA QuietBuild ==
    ASSUME NEW n \in NodeName, NEW l \in Nat
    PROVE  Build(n, l) \in QuietGoal
BY DEF Build, QuietGoal, AnyGoal, PlainGoal

LEMMA QuietParse ==
    ASSUME NEW r \in Rule \ {"printed", "switchBody"}, NEW l \in Nat
    PROVE  Parse(r, l) \in QuietGoal
BY DEF Parse, QuietGoal, AnyGoal, PlainGoal

LEMMA QuietRepeat ==
    ASSUME NEW v \in Level
    PROVE  Repeat(v) \in QuietGoal
BY DEF Repeat, QuietGoal, AnyGoal, PlainGoal

LEMMA QuietLeave ==
    ASSUME NEW c \in Counter
    PROVE  Leave(c) \in QuietGoal
BY DEF Leave, QuietGoal, AnyGoal, Guard

LEMMA QuietTokens ==
    /\ Take("IDENTIFIER") \in QuietGoal /\ Take("EQUAL") \in QuietGoal
    /\ Take("SEMICOLON") \in QuietGoal /\ Take("COLON") \in QuietGoal
    /\ Take("HABANG") \in QuietGoal
    /\ Take("LEFT_PAREN") \in QuietGoal /\ Take("RIGHT_PAREN") \in QuietGoal
    /\ Take("LEFT_BRACE") \in QuietGoal /\ Take("RIGHT_BRACE") \in QuietGoal
BY QuietTake, Names

LEMMA QuietRules ==
    /\ Expression \in QuietGoal /\ Block \in QuietGoal
    /\ List \in QuietGoal /\ Item \in QuietGoal
    /\ \A r \in {"statement", "statements", "caseBody", "else", "init", "update",
                 "cases", "label", "logicalOr", "logicalAnd", "logicalNot", "relational",
                 "term", "factor", "unary", "primary"} : Parse(r, 0) \in QuietGoal
<1>1. List \in QuietGoal /\ Item \in QuietGoal
  BY QuietBuild, Names DEF List, Item
<1>2. Expression \in QuietGoal /\ Block \in QuietGoal
  BY QuietParse DEF Expression, Block, Rule
<1>3. \A r \in {"statement", "statements", "caseBody", "else", "init", "update",
                "cases", "label", "logicalOr", "logicalAnd", "logicalNot", "relational",
                "term", "factor", "unary", "primary"} : Parse(r, 0) \in QuietGoal
  BY QuietParse, LevelDomain DEF Rule
<1> QED
  BY <1>1, <1>2, <1>3

LEMMA QuietJoin ==
    ASSUME NEW f \in Seq(QuietGoal), NEW g \in Seq(QuietGoal)
    PROVE  f \o g \in Seq(QuietGoal)
BY ConcatProperties

LEMMA QuietEmpty == << >> \in Seq(QuietGoal)
OBVIOUS

\* The bodies of the functions, but for the switch and for printing.
LEMMA QuietParens ==
    ASSUME NEW g \in QuietGoal
    PROVE  InParens(g) \in Seq(QuietGoal)
BY QuietTokens DEF InParens

LEMMA QuietAssign ==
    ASSUME NEW l \in Nat
    PROVE  /\ AssignNoSemi(l) \in Seq(QuietGoal)
           /\ Assign(l) \in Seq(QuietGoal)
           /\ VarDecl(l) \in Seq(QuietGoal)
<1>1. Build("ASSIGN", l) \in QuietGoal /\ Build("VAR_DECL", l) \in QuietGoal
  BY QuietBuild, Names
<1>2. AssignNoSemi(l) \in Seq(QuietGoal)
  BY <1>1, QuietTokens, QuietRules DEF AssignNoSemi
<1>3. <<Take("SEMICOLON")>> \in Seq(QuietGoal)
  BY QuietTokens
<1>4. Assign(l) \in Seq(QuietGoal)
  BY <1>2, <1>3, QuietJoin, Zenon DEF Assign
<1>5. VarDecl(l) \in Seq(QuietGoal)
  BY <1>1, QuietTokens, QuietRules DEF VarDecl
<1> QED
  BY <1>2, <1>4, <1>5

LEMMA QuietBranches ==
    ASSUME NEW l \in Nat
    PROVE  /\ If(l) \in Seq(QuietGoal) /\ While(l) \in Seq(QuietGoal)
           /\ DoWhile(l) \in Seq(QuietGoal) /\ For(l) \in Seq(QuietGoal)
<1>1. /\ Build("IF", l) \in QuietGoal /\ Build("WHILE", l) \in QuietGoal
      /\ Build("DO_WHILE", l) \in QuietGoal /\ Build("FOR", l) \in QuietGoal
  BY QuietBuild, Names
<1>2. /\ Parse("else", 0) \in QuietGoal /\ Parse("init", 0) \in QuietGoal
      /\ Parse("update", 0) \in QuietGoal
  BY QuietRules
<1>3. InParens(Expression) \in Seq(QuietGoal)
  BY QuietParens, QuietRules
<1>4. If(l) \in Seq(QuietGoal)
  <2>1. <<Block, List, Parse("else", 0), Build("IF", l)>> \in Seq(QuietGoal)
    BY <1>1, <1>2, QuietRules
  <2> QED
    BY <1>3, <2>1, QuietJoin, Zenon DEF If
<1>5. While(l) \in Seq(QuietGoal)
  <2>1. <<Block, Build("WHILE", l)>> \in Seq(QuietGoal)
    BY <1>1, QuietRules
  <2> QED
    BY <1>3, <2>1, QuietJoin, Zenon DEF While
<1>6. DoWhile(l) \in Seq(QuietGoal)
  <2>1. /\ <<Block, Take("HABANG")>> \in Seq(QuietGoal)
        /\ <<Take("SEMICOLON"), Build("DO_WHILE", l)>> \in Seq(QuietGoal)
    BY <1>1, QuietRules, QuietTokens
  <2>2. <<Block, Take("HABANG")>> \o InParens(Expression) \in Seq(QuietGoal)
    BY <1>3, <2>1, QuietJoin, Zenon
  <2> QED
    BY <2>1, <2>2, QuietJoin, Zenon DEF DoWhile
<1>7. For(l) \in Seq(QuietGoal)
  BY <1>1, <1>2, QuietRules, QuietTokens DEF For
<1> QED
  BY <1>4, <1>5, <1>6, <1>7

LEMMA QuietLines ==
    ASSUME NEW l \in Nat
    PROVE  /\ Jump("BREAK", l) \in Seq(QuietGoal) /\ Jump("CONTINUE", l) \in Seq(QuietGoal)
           /\ Reading(l) \in Seq(QuietGoal)
<1>1. /\ Build("BREAK", l) \in QuietGoal /\ Build("CONTINUE", l) \in QuietGoal
      /\ Build("READ_INTO", l) \in QuietGoal
  BY QuietBuild, Names
<1>2. Jump("BREAK", l) \in Seq(QuietGoal) /\ Jump("CONTINUE", l) \in Seq(QuietGoal)
  BY <1>1, QuietTokens DEF Jump
<1>3. InParens(Take("IDENTIFIER")) \in Seq(QuietGoal)
  BY QuietParens, QuietTokens
<1>4. <<Take("SEMICOLON"), Build("READ_INTO", l)>> \in Seq(QuietGoal)
  BY <1>1, QuietTokens
<1>5. Reading(l) \in Seq(QuietGoal)
  BY <1>3, <1>4, QuietJoin, Zenon DEF Reading
<1> QED
  BY <1>2, <1>5

LEMMA QuietLists ==
    ASSUME current \in Nat
    PROVE  Statements \in Seq(QuietGoal) /\ Cases \in Seq(QuietGoal)
<1>1. /\ Build("BLOCK", current) \in QuietGoal
      /\ Parse("statements", 0) \in QuietGoal /\ Parse("cases", 0) \in QuietGoal
  BY QuietBuild, QuietRules, Names
<1>2. Statements \in Seq(QuietGoal)
  BY <1>1, QuietTokens, QuietRules DEF Statements
<1>3. Cases \in Seq(QuietGoal)
  BY <1>1, QuietTokens, QuietRules DEF Cases
<1> QED
  BY <1>2, <1>3

-----------------------------------------------------------------------------
(* What a step puts on the stack, consumes and reports.                    *)

\* The place of a pili is where the statement begins, and its body is the last
\* thing to do; what is printed stands in front of its ')'.
Fits(gs) ==
    \A j \in DOMAIN gs :
        /\ gs[j].do = "take" => gs[j].arg # "STRING"
        /\ gs[j].do = "parse" /\ gs[j].arg = "printed" =>
              j < Len(gs) /\ gs[j + 1] = Take("RIGHT_PAREN")
        /\ gs[j].do = "parse" /\ gs[j].arg = "switchBody" =>
              j = Len(gs) /\ gs[j].loc = current

\* The function goes on, and has consumed no string.
Moves ==
    /\ phase' = "parse"
    /\ \E gs \in Seq(AnyGoal) : Fits(gs) /\ goals' = Pushed(gs)
    /\ \/ current' = current /\ Goal.do # "take"
       \/ tokens[current' - 1].type # "STRING"

\* It throws, at a token that it has looked at.
Stops ==
    /\ phase' = "unwind" /\ goals' = goals
    /\ ~error'.after /\ error'.at >= current /\ error'.at <= current'

Manner == Moves \/ Stops

LEMMA QuietFits ==
    ASSUME NEW gs \in Seq(QuietGoal)
    PROVE  gs \in Seq(AnyGoal) /\ Fits(gs)
<1>1. gs \in Seq(AnyGoal)
  BY SeqMonotonic DEF QuietGoal
<1>2. \A j \in DOMAIN gs : gs[j] \in QuietGoal
  BY ElementOfSeq
<1> QED
  BY <1>1, <1>2 DEF Fits, QuietGoal

LEMMA ExpandManner ==
    ASSUME ParserTypeOK, phase = "parse", NEW n \in Nat, NEW gs \in Seq(QuietGoal),
           Expand(n, gs),
           (n = 0 /\ Goal.do # "take") \/ tokens[current + n - 1].type # "STRING"
    PROVE  Moves
<1>1. gs \in Seq(AnyGoal) /\ Fits(gs)
  BY QuietFits
<1>2. current' = current + n /\ goals' = Pushed(gs) /\ phase' = "parse"
  BY DEF Expand
<1>3. \/ current' = current /\ Goal.do # "take"
      \/ tokens[current' - 1].type # "STRING"
  BY <1>2, InTokens
<1> QED
  BY <1>1, <1>2, <1>3, Zenon DEF Moves

LEMMA ReturnManner ==
    ASSUME ParserTypeOK, phase = "parse", goals # << >>, NEW n \in Nat, NEW v, Return(n, v),
           tokens[current + n - 1].type # "STRING"
    PROVE  Moves
<1>1. << >> \in Seq(AnyGoal) /\ Fits(<< >>)
  BY QuietEmpty, QuietFits
<1>2. current' = current + n /\ goals' = Rest /\ phase' = "parse"
  BY DEF Return
<1>3. goals' = Pushed(<< >>)
  BY <1>2, PopIsPush
<1>4. tokens[current' - 1].type # "STRING"
  BY <1>2, InTokens
<1> QED
  BY <1>1, <1>2, <1>3, <1>4, Zenon DEF Moves

LEMMA ThrowManner ==
    ASSUME ParserTypeOK, NEW n \in Nat, NEW w, NEW p \in current .. current + n,
           Throw(n, At(w, p))
    PROVE  Stops
BY InTokens DEF Throw, Raise, At, Stops

LEMMA GuardedManner ==
    ASSUME ParserTypeOK, phase = "parse", NEW c \in Counter, NEW n \in Nat,
           NEW p \in current .. current + n, NEW gs \in Seq(QuietGoal),
           Guarded(c, n, p, gs),
           (n = 0 /\ Goal.do # "take") \/ tokens[current + n - 1].type # "STRING"
    PROVE  Manner
<1>1. CASE Allows(c)
  <2>1. <<Leave(c)>> \in Seq(QuietGoal)
    BY QuietLeave
  <2>2. gs \o <<Leave(c)>> \in Seq(QuietGoal)
    BY <2>1, QuietJoin, Zenon
  <2>3. gs \o <<Leave(c)>> \in Seq(AnyGoal) /\ Fits(gs \o <<Leave(c)>>)
    BY <2>2, QuietFits, Zenon
  <2>4. /\ current' = current + n /\ phase' = "parse"
        /\ goals' = Pushed(gs \o <<Leave(c)>>)
    BY <1>1 DEF Guarded
  <2>5. \/ current' = current /\ Goal.do # "take"
        \/ tokens[current' - 1].type # "STRING"
    BY <2>4, InTokens
  <2> QED
    BY <2>3, <2>4, <2>5, Zenon DEF Moves, Manner
<1>2. CASE ~Allows(c)
  BY <1>2, InTokens DEF Guarded, Raise, At, Stops, Manner
<1> QED
  BY <1>1, <1>2

\* A token that a function has looked at is no string.
LEMMA Looked ==
    ASSUME ParserTypeOK, NEW t, t # "STRING"
    PROVE  /\ Peek = t => tokens[current + 1 - 1].type # "STRING"
           /\ Check(t) => tokens[current + 1 - 1].type # "STRING"
           /\ CheckNext(t) => tokens[current + 2 - 1].type # "STRING"
           /\ current \in current .. current + 0 /\ current \in current .. current + 1
           /\ current + 1 \in current .. current + 2
<1>1. current \in Nat /\ current + 1 - 1 = current /\ current + 2 - 1 = current + 1
  BY InTokens
<1> QED
  BY <1>1 DEF Peek, Check, CheckNext

LEMMA EnterBlockManner ==
    ASSUME ParserTypeOK, phase = "parse", Goal.do = "parse", EnterBlock
    PROVE  Manner
<1>1. Statements \in Seq(QuietGoal) /\ current \in current .. current + 0
  BY QuietLists, InTokens
<1>2. "nesting" \in Counter /\ 0 \in Nat /\ Goal.do # "take"
  BY DEF Counter
<1> QED
  BY <1>1, <1>2, GuardedManner, Zenon DEF EnterBlock

-----------------------------------------------------------------------------
(* The steps of the functions, but for those on a string or on a switch.   *)

\* The goal of a rule.
LEMMA RuleGoal ==
    ASSUME ParserTypeOK, NEW r, Parsing(r)
    PROVE  phase = "parse" /\ goals # << >> /\ Goal.do = "parse" /\ Goal.do # "take"
BY DEF Parsing

LEMMA SentenceFits ==
    ASSUME ParserTypeOK, NEW t \in StatementStarts
    PROVE  Sentence(t, current) \in Seq(AnyGoal) /\ Fits(Sentence(t, current))
<1>1. current \in Nat
  BY InTokens
<1>2. CASE t \in {"ITAKDA", "KUNG", "HABANG", "GAWIN", "PARA", "TIGIL", "SUNOD", "BASAHIN",
                 "KUNIN"}
  <2>1. Sentence(t, current) \in Seq(QuietGoal)
    BY <1>1, <1>2, SentenceIs, QuietAssign, QuietBranches, QuietLines, ZenonT(60)
  <2> QED
    BY <2>1, QuietFits
<1>3. CASE t = "PILI"
  <2> DEFINE g == Parse("switchBody", current)
  <2>1. /\ g \in AnyGoal /\ g.do = "parse" /\ g.arg = "switchBody" /\ g.loc = current
        /\ g.do # "take"
    BY <1>1 DEF Parse, AnyGoal, PlainGoal, Rule
  <2>2. /\ Take("LEFT_PAREN") \in QuietGoal /\ Expression \in QuietGoal
        /\ Take("RIGHT_PAREN") \in QuietGoal
    BY QuietTokens, QuietRules
  <2> HIDE DEF g
  <2>3. PICK gs : gs = <<Take("LEFT_PAREN"), Expression, Take("RIGHT_PAREN"), g>>
    OBVIOUS
  <2>4. /\ Len(gs) = 4 /\ DOMAIN gs = 1 .. 4
        /\ gs[1] = Take("LEFT_PAREN") /\ gs[2] = Expression
        /\ gs[3] = Take("RIGHT_PAREN") /\ gs[4] = g
    BY <2>3
  <2>5. gs \in Seq(AnyGoal)
    BY <2>1, <2>2, <2>3 DEF QuietGoal
  <2>6. \A j \in 1 .. 3 : gs[j] \in QuietGoal
    BY <2>2, <2>4
  <2>7. Fits(gs)
    <3> SUFFICES ASSUME NEW j \in 1 .. 4
                 PROVE  /\ gs[j].do = "take" => gs[j].arg # "STRING"
                        /\ gs[j].do = "parse" /\ gs[j].arg = "printed" =>
                              j < Len(gs) /\ gs[j + 1] = Take("RIGHT_PAREN")
                        /\ gs[j].do = "parse" /\ gs[j].arg = "switchBody" =>
                              j = Len(gs) /\ gs[j].loc = current
      BY <2>4 DEF Fits
    <3>1. CASE j \in 1 .. 3
      BY <2>6, <3>1 DEF QuietGoal
    <3>2. CASE j = 4
      BY <2>1, <2>4, <3>2
    <3> QED
      BY <3>1, <3>2
  <2>8. gs = InParens(Expression) \o <<g>>
    BY <2>3 DEF InParens
  <2>9. Sentence(t, current) = gs
    BY <1>3, <2>8, SentenceIs, Zenon DEF Switch, g
  <2> QED
    BY <2>5, <2>7, <2>9
<1>4. CASE t \in {"ISULAT", "IPAKITA"}
  <2> DEFINE g == Parse("printed", current)
  <2>1. g \in AnyGoal /\ g.do = "parse" /\ g.arg = "printed" /\ g.do # "take"
    BY <1>1 DEF Parse, AnyGoal, PlainGoal, Rule
  <2>2. /\ Take("LEFT_PAREN") \in QuietGoal /\ Take("SEMICOLON") \in QuietGoal
        /\ Take("RIGHT_PAREN") \in QuietGoal
    BY QuietTokens
  <2> HIDE DEF g
  <2>3. PICK gs : gs = <<Take("LEFT_PAREN"), g, Take("RIGHT_PAREN"), Take("SEMICOLON")>>
    OBVIOUS
  <2>4. /\ Len(gs) = 4 /\ DOMAIN gs = 1 .. 4
        /\ gs[1] = Take("LEFT_PAREN") /\ gs[2] = g
        /\ gs[3] = Take("RIGHT_PAREN") /\ gs[4] = Take("SEMICOLON")
    BY <2>3
  <2>5. gs \in Seq(AnyGoal)
    BY <2>1, <2>2, <2>3 DEF QuietGoal
  <2>6. \A j \in {1, 3, 4} : gs[j] \in QuietGoal
    BY <2>2, <2>4
  <2>7. Fits(gs)
    <3> SUFFICES ASSUME NEW j \in 1 .. 4
                 PROVE  /\ gs[j].do = "take" => gs[j].arg # "STRING"
                        /\ gs[j].do = "parse" /\ gs[j].arg = "printed" =>
                              j < Len(gs) /\ gs[j + 1] = Take("RIGHT_PAREN")
                        /\ gs[j].do = "parse" /\ gs[j].arg = "switchBody" =>
                              j = Len(gs) /\ gs[j].loc = current
      BY <2>4 DEF Fits
    <3>1. CASE j \in {1, 3, 4}
      BY <2>6, <3>1 DEF QuietGoal
    <3>2. CASE j = 2
      BY <2>1, <2>4, <3>2
    <3> QED
      BY <3>1, <3>2
  <2>8. gs = InParens(g) \o <<Take("SEMICOLON")>>
    BY <2>3 DEF InParens
  <2>9. Sentence(t, current) = Printing(current)
    BY <1>4, SentenceIs
  <2>10. Sentence(t, current) = gs
    BY <2>8, <2>9, Zenon DEF Printing, g
  <2> QED
    BY <2>5, <2>7, <2>10
<1> QED
  BY <1>2, <1>3, <1>4 DEF StatementStarts

LEMMA StatementManner == ParserTypeOK /\ Statement => Manner
<1> SUFFICES ASSUME ParserTypeOK, Statement PROVE Manner
  OBVIOUS
<1>1. phase = "parse" /\ Goal.do = "parse" /\ Goal.do # "take" /\ current \in Nat
  BY RuleGoal, InTokens DEF Statement
<1>2. CASE Peek \in StatementStarts /\ Expand(1, Sentence(Peek, current))
  <2>1. /\ Sentence(Peek, current) \in Seq(AnyGoal) /\ Fits(Sentence(Peek, current))
        /\ goals' = Pushed(Sentence(Peek, current))
    BY <1>2, SentenceFits DEF Expand
  <2>2. current' - 1 = current /\ phase' = "parse"
    BY <1>1, <1>2 DEF Expand
  <2>3. tokens[current' - 1].type # "STRING"
    BY <1>2, <2>2 DEF Peek, StatementStarts
  <2> QED
    BY <2>1, <2>2, <2>3 DEF Moves, Manner
<1>3. CASE EnterBlock
  BY <1>1, <1>3, EnterBlockManner
<1>4. CASE Expand(0, Assign(current))
  BY <1>1, <1>4, QuietAssign, ExpandManner DEF Manner
<1>5. CASE Throw(0, At("statement", current))
  BY <1>5, Looked, ThrowManner DEF Manner
<1> QED
  BY <1>2, <1>3, <1>4, <1>5 DEF Statement

LEMMA BlockManner == ParserTypeOK /\ (RequireBlock \/ StatementList) => Manner
<1>1. ASSUME ParserTypeOK, RequireBlock PROVE Manner
  <2>1. phase = "parse" /\ Goal.do = "parse"
    BY <1>1, RuleGoal DEF RequireBlock
  <2>2. CASE EnterBlock
    BY <1>1, <2>1, <2>2, EnterBlockManner
  <2>3. CASE Throw(0, At("LEFT_BRACE", current))
    BY <1>1, <2>3, Looked, ThrowManner DEF Manner
  <2> QED
    BY <1>1, <2>2, <2>3 DEF RequireBlock
<1>2. ASSUME ParserTypeOK, StatementList PROVE Manner
  <2>1. PICK r \in {"statements", "caseBody"} : Parsing(r)
    BY <1>2 DEF StatementList
  <2>2. /\ phase = "parse" /\ goals # << >> /\ Goal.do = "parse" /\ Goal.arg = r
        /\ Goal \in PlainGoal /\ Goal.do # "take"
    BY <1>2, <2>1, OnRule
  <2>3. CASE Expand(0, << >>)
    BY <1>2, <2>2, <2>3, QuietEmpty, ExpandManner DEF Manner
  <2>4. CASE Expand(0, <<Parse("statement", 0), Item, Goal>>)
    <3>1. Goal \in QuietGoal /\ Parse("statement", 0) \in QuietGoal /\ Item \in QuietGoal
      BY <2>2, QuietRules DEF QuietGoal, AnyGoal
    <3>2. <<Parse("statement", 0), Item, Goal>> \in Seq(QuietGoal)
      BY <3>1
    <3> QED
      BY <1>2, <2>2, <2>4, <3>2, ExpandManner DEF Manner
  <2> QED
    BY <1>2, <2>3, <2>4 DEF StatementList
<1> QED
  BY <1>1, <1>2

LEMMA ElseManner == ParserTypeOK /\ ElseBranch => Manner
<1> SUFFICES ASSUME ParserTypeOK, ElseBranch PROVE Manner
  OBVIOUS
<1>1. phase = "parse" /\ Goal.do = "parse" /\ Goal.do # "take" /\ current \in Nat
  BY RuleGoal, InTokens DEF ElseBranch
<1>2. CASE Expand(0, << >>)
  BY <1>1, <1>2, QuietEmpty, ExpandManner DEF Manner
<1>3. CASE CheckNext("KUNG")
           /\ Guarded("elseChain", 2, current + 1, If(current + 1) \o <<Item>>)
  <2>1. current + 1 \in Nat /\ <<Item>> \in Seq(QuietGoal)
    BY <1>1, QuietRules
  <2>2. If(current + 1) \in Seq(QuietGoal)
    BY <2>1, QuietBranches
  <2>3. If(current + 1) \o <<Item>> \in Seq(QuietGoal)
    BY <2>1, <2>2, QuietJoin, Zenon
  <2>4. /\ "elseChain" \in Counter /\ 2 \in Nat
        /\ current + 1 \in current .. current + 2
        /\ tokens[current + 2 - 1].type # "STRING"
    BY <1>3, Looked DEF Counter
  <2> QED
    BY <1>1, <1>3, <2>3, <2>4, GuardedManner, Zenon
<1>4. CASE Check("KUNG_HINDI") /\ Expand(1, <<Block, Item>>)
  <2>1. <<Block, Item>> \in Seq(QuietGoal)
    BY QuietRules
  <2> QED
    BY <1>1, <1>4, <2>1, Looked, ExpandManner DEF Manner
<1> QED
  BY <1>2, <1>3, <1>4 DEF ElseBranch

LEMMA ForManner == ParserTypeOK /\ (ForInit \/ ForUpdate) => Manner
<1>1. ASSUME ParserTypeOK, ForInit PROVE Manner
  <2>1. phase = "parse" /\ Goal.do # "take" /\ current \in Nat
    BY <1>1, RuleGoal, InTokens DEF ForInit
  <2>2. CASE Check("ITAKDA") /\ Expand(1, VarDecl(current))
    BY <1>1, <2>1, <2>2, QuietAssign, Looked, ExpandManner DEF Manner
  <2>3. CASE Expand(0, Assign(current))
    BY <1>1, <2>1, <2>3, QuietAssign, ExpandManner DEF Manner
  <2> QED
    BY <1>1, <2>2, <2>3 DEF ForInit
<1>2. ASSUME ParserTypeOK, ForUpdate PROVE Manner
  <2>1. phase = "parse" /\ Goal.do # "take" /\ current \in Nat
    BY <1>2, RuleGoal, InTokens DEF ForUpdate
  <2> QED
    BY <1>2, <2>1, QuietAssign, ExpandManner DEF ForUpdate, Manner
<1> QED
  BY <1>1, <1>2

LEMMA IntLiteralManner ==
    ASSUME ParserTypeOK, phase = "parse", goals # << >>, NEW n \in Nat \ {0}, NEW b \in BOOLEAN,
           NEW l, IntLiteral(n, b, l), tokens[current + n - 1].type # "STRING"
    PROVE  Manner
<1> DEFINE number == tokens[current + n - 1].int
<1>1. CASE FitsSigned(number, b)
  <2> DEFINE v == LiteralInt(IF b THEN -number ELSE number, l)
  <2>1. Return(n, v)
    BY <1>1 DEF IntLiteral
  <2> HIDE DEF v
  <2> QED
    BY <2>1, ReturnManner DEF Manner
<1>2. CASE ~FitsSigned(number, b)
  <2>1. Throw(n, At("number", current + n - 1))
    BY <1>2 DEF IntLiteral
  <2>2. current + n - 1 \in current .. current + n
    BY InTokens
  <2> QED
    BY <2>1, <2>2, ThrowManner DEF Manner
<1> QED
  BY <1>1, <1>2

LEMMA CasesManner == ParserTypeOK /\ (SwitchCases \/ SwitchLabel) => Manner
<1>1. ASSUME ParserTypeOK, SwitchCases PROVE Manner
  <2>1. /\ phase = "parse" /\ goals # << >> /\ Goal.do = "parse" /\ Goal.arg = "cases"
        /\ Goal \in PlainGoal /\ Goal.do # "take"
    BY <1>1, OnRule DEF SwitchCases
  <2>2. CASE Expand(0, << >>)
    BY <1>1, <2>1, <2>2, QuietEmpty, ExpandManner DEF Manner
  <2>3. CASE /\ Check("KASO")
             /\ Expand(1, <<Parse("label", 0), Take("COLON"), List, Parse("caseBody", 0),
                            Build("CASE", 0), Item, Goal>>)
    <3>1. /\ Goal \in QuietGoal /\ Parse("label", 0) \in QuietGoal
          /\ Take("COLON") \in QuietGoal /\ List \in QuietGoal
          /\ Parse("caseBody", 0) \in QuietGoal /\ Build("CASE", 0) \in QuietGoal
          /\ Item \in QuietGoal
      BY <2>1, QuietRules, QuietTokens, QuietBuild, Names DEF QuietGoal, AnyGoal
    <3>2. <<Parse("label", 0), Take("COLON"), List, Parse("caseBody", 0),
            Build("CASE", 0), Item, Goal>> \in Seq(QuietGoal)
      BY <3>1
    <3>3. tokens[current + 1 - 1].type # "STRING" /\ 1 \in Nat
      BY <1>1, <2>3, Looked
    <3> QED
      BY <1>1, <2>1, <2>3, <3>2, <3>3, ExpandManner, Zenon DEF Manner
  <2> QED
    BY <1>1, <2>2, <2>3 DEF SwitchCases
<1>2. ASSUME ParserTypeOK, SwitchLabel PROVE Manner
  <2>1. phase = "parse" /\ goals # << >> /\ current \in Nat
    BY <1>2, RuleGoal, InTokens DEF SwitchLabel
  <2>2. PICK n : n = IF Check("MINUS") THEN 1 ELSE 0
    OBVIOUS
  <2>3. n \in {0, 1} /\ n + 1 \in Nat \ {0} /\ (n = 1) \in BOOLEAN
    BY <2>2
  <2>4. CASE tokens[current + n].type = "NUMBER"
    <3>1. IntLiteral(n + 1, n = 1, current + n)
      BY <1>2, <2>2, <2>4 DEF SwitchLabel
    <3>2. current + (n + 1) - 1 = current + n
      BY <2>1, <2>3
    <3> QED
      BY <1>2, <2>1, <2>3, <2>4, <3>1, <3>2, IntLiteralManner
  <2>5. CASE Throw(n, At("NUMBER", current + n))
    <3>1. current + n \in current .. current + n /\ n \in Nat
      BY <2>1, <2>3
    <3> QED
      BY <1>2, <2>5, <3>1, ThrowManner DEF Manner
  <2> QED
    BY <1>2, <2>2, <2>4, <2>5 DEF SwitchLabel
<1> QED
  BY <1>1, <1>2

LEMMA PrintedManner == ParserTypeOK /\ Printed /\ ~Check("STRING") => Manner
<1> SUFFICES ASSUME ParserTypeOK, Printed, ~Check("STRING") PROVE Manner
  OBVIOUS
<1>1. phase = "parse" /\ Goal.do # "take" /\ Goal.loc \in Nat
  BY OnRule DEF Printed
<1>2. Expression \in QuietGoal /\ Build("PRINT", Goal.loc) \in QuietGoal
  BY <1>1, QuietRules, QuietBuild, Names
<1>3. <<Expression, Build("PRINT", Goal.loc)>> \in Seq(QuietGoal)
  BY <1>2
<1>4. Expand(0, <<Expression, Build("PRINT", Goal.loc)>>)
  BY DEF Printed
<1> QED
  BY <1>1, <1>3, <1>4, ExpandManner DEF Manner

LEMMA LevelsManner == ParserTypeOK /\ (BinaryLevel \/ RepeatLevel) => Manner
<1>1. ASSUME ParserTypeOK, BinaryLevel PROVE Manner
  <2>1. PICK v \in Level : Parsing(v)
                           /\ Expand(0, <<Parse(Operand[v], 0), Repeat(v)>>)
    BY <1>1 DEF BinaryLevel
  <2>2. phase = "parse" /\ Goal.do # "take"
    BY <1>1, <2>1, RuleGoal
  <2>3. Operand[v] \in {"logicalAnd", "logicalNot", "term", "factor", "unary"}
    BY <2>1, LevelDomain DEF Operand
  <2>4. Parse(Operand[v], 0) \in QuietGoal /\ Repeat(v) \in QuietGoal
    BY <2>3, QuietRules, QuietRepeat
  <2>5. <<Parse(Operand[v], 0), Repeat(v)>> \in Seq(QuietGoal)
    BY <2>4
  <2> QED
    BY <1>1, <2>1, <2>2, <2>5, ExpandManner DEF Manner
<1>2. ASSUME ParserTypeOK, RepeatLevel PROVE Manner
  <2>1. phase = "parse" /\ goals # << >> /\ Goal.do = "repeat" /\ Goal.do # "take"
        /\ current \in Nat
    BY <1>2, InTokens DEF RepeatLevel
  <2>2. Goal \in PlainGoal /\ Goal.arg \in Level
    BY <1>2, <2>1, OnGoal DEF PlainGoal
  <2>3. PICK v \in Level : v = Goal.arg
    BY <2>2
  <2>4. CASE Expand(0, << >>)
    BY <1>2, <2>1, <2>4, QuietEmpty, ExpandManner DEF Manner
  <2>5. CASE Peek \in Operators[v] /\ Expand(1, NextOperand(v))
    <3>1. Operand[v] \in {"logicalAnd", "logicalNot", "term", "factor", "unary"}
      BY LevelDomain DEF Operand
    <3>2. Peek \in {"O", "AT", "PLUS", "MINUS", "STAR", "SLASH", "PERCENT"}
                   \cup RelationalOps
      BY <2>5, LevelDomain DEF Operators
    <3>3. Peek \in NodeName /\ Peek # "STRING"
      BY <3>2 DEF NodeName, BinOp, LogOp, RelationalOps
    <3>4. /\ Parse(Operand[v], 0) \in QuietGoal /\ Repeat(v) \in QuietGoal
          /\ Build(Peek, current) \in QuietGoal
      BY <2>1, <3>1, <3>3, QuietRules, QuietRepeat, QuietBuild
    <3>5. NextOperand(v) \in Seq(QuietGoal)
      BY <3>4 DEF NextOperand
    <3>6. tokens[current + 1 - 1].type # "STRING" /\ 1 \in Nat
      BY <1>2, <3>3, Looked
    <3> QED
      BY <1>2, <2>1, <2>5, <3>5, <3>6, ExpandManner, Zenon DEF Manner
  <2> QED
    BY <1>2, <2>3, <2>4, <2>5 DEF RepeatLevel
<1> QED
  BY <1>1, <1>2

LEMMA OperatorsManner == ParserTypeOK /\ (ExpressionRule \/ LogicalNot \/ Unary) => Manner
<1>1. ASSUME ParserTypeOK, ExpressionRule PROVE Manner
  <2>1. phase = "parse" /\ Goal.do # "take" /\ "expr" \in Counter /\ 0 \in Nat
        /\ current \in current .. current + 0
    BY <1>1, RuleGoal, Looked DEF ExpressionRule, Counter
  <2>2. <<Parse("logicalOr", 0)>> \in Seq(QuietGoal)
    BY QuietRules
  <2>3. Guarded("expr", 0, current, <<Parse("logicalOr", 0)>>)
    BY <1>1 DEF ExpressionRule
  <2> QED
    BY <1>1, <2>1, <2>2, <2>3, GuardedManner, Zenon
<1>2. ASSUME ParserTypeOK, LogicalNot PROVE Manner
  <2>1. phase = "parse" /\ Goal.do # "take" /\ current \in Nat
    BY <1>2, RuleGoal, InTokens DEF LogicalNot
  <2>2. CASE /\ Check("HINDI")
             /\ Guarded("expr", 1, current, <<Parse("logicalNot", 0),
                                              Build("HINDI", current)>>)
    <3>1. Parse("logicalNot", 0) \in QuietGoal /\ Build("HINDI", current) \in QuietGoal
      BY <2>1, QuietRules, QuietBuild, Names
    <3>2. <<Parse("logicalNot", 0), Build("HINDI", current)>> \in Seq(QuietGoal)
      BY <3>1
    <3>3. /\ tokens[current + 1 - 1].type # "STRING" /\ 1 \in Nat /\ "expr" \in Counter
          /\ current \in current .. current + 1
      BY <1>2, <2>2, Looked DEF Counter
    <3> QED
      BY <1>2, <2>1, <2>2, <3>2, <3>3, GuardedManner, Zenon
  <2>3. CASE Expand(0, <<Parse("relational", 0)>>)
    <3>1. <<Parse("relational", 0)>> \in Seq(QuietGoal)
      BY QuietRules
    <3> QED
      BY <1>2, <2>1, <2>3, <3>1, ExpandManner DEF Manner
  <2> QED
    BY <1>2, <2>2, <2>3 DEF LogicalNot
<1>3. ASSUME ParserTypeOK, Unary PROVE Manner
  <2>1. phase = "parse" /\ goals # << >> /\ Goal.do # "take" /\ current \in Nat
    BY <1>3, RuleGoal, InTokens DEF Unary
  <2>2. CASE CheckNext("NUMBER") /\ IntLiteral(2, TRUE, current)
    <3>1. tokens[current + 2 - 1].type # "STRING" /\ 2 \in Nat \ {0} /\ TRUE \in BOOLEAN
      BY <1>3, <2>2, Looked
    <3> QED
      BY <1>3, <2>1, <2>2, <3>1, IntLiteralManner, Zenon
  <2>3. CASE /\ Check("MINUS")
             /\ Guarded("expr", 1, current, <<Parse("unary", 0), Build("NEGATE", current)>>)
    <3>1. Parse("unary", 0) \in QuietGoal /\ Build("NEGATE", current) \in QuietGoal
      BY <2>1, QuietRules, QuietBuild, Names
    <3>2. <<Parse("unary", 0), Build("NEGATE", current)>> \in Seq(QuietGoal)
      BY <3>1
    <3>3. /\ tokens[current + 1 - 1].type # "STRING" /\ 1 \in Nat /\ "expr" \in Counter
          /\ current \in current .. current + 1
      BY <1>3, <2>3, Looked DEF Counter
    <3> QED
      BY <1>3, <2>1, <2>3, <3>2, <3>3, GuardedManner, Zenon
  <2>4. CASE Expand(0, <<Parse("primary", 0)>>)
    <3>1. <<Parse("primary", 0)>> \in Seq(QuietGoal)
      BY QuietRules
    <3> QED
      BY <1>3, <2>1, <2>4, <3>1, ExpandManner DEF Manner
  <2> QED
    BY <1>3, <2>2, <2>3, <2>4 DEF Unary
<1> QED
  BY <1>1, <1>2, <1>3

LEMMA PrimaryManner == ParserTypeOK /\ Primary => Manner
<1> SUFFICES ASSUME ParserTypeOK, Primary PROVE Manner
  OBVIOUS
<1>1. phase = "parse" /\ goals # << >> /\ Goal.do # "take" /\ current \in Nat
  BY RuleGoal, InTokens DEF Primary
<1>2. CASE Check("NUMBER") /\ IntLiteral(1, FALSE, current)
  <2>1. tokens[current + 1 - 1].type # "STRING" /\ 1 \in Nat \ {0} /\ FALSE \in BOOLEAN
    BY <1>2, Looked
  <2> QED
    BY <1>1, <1>2, <2>1, IntLiteralManner, Zenon
<1>3. ASSUME NEW t \in {"TOTOO", "MALI", "IDENTIFIER"}, NEW v, Check(t), Return(1, v)
      PROVE  Manner
  BY <1>1, <1>3, Looked, ReturnManner DEF Manner
<1>4. CASE /\ Peek \in {"BASAHIN", "KUNIN"}
           /\ Expand(1, <<Take("LEFT_PAREN"), Take("RIGHT_PAREN"),
                          Build("READ", current)>>)
  <2>1. Build("READ", current) \in QuietGoal
    BY <1>1, QuietBuild, Names
  <2>2. <<Take("LEFT_PAREN"), Take("RIGHT_PAREN"), Build("READ", current)>>
        \in Seq(QuietGoal)
    BY <2>1, QuietTokens
  <2> QED
    BY <1>1, <1>4, <2>2, Looked, ExpandManner DEF Manner
<1>5. CASE Check("LEFT_PAREN") /\ Expand(1, <<Expression, Take("RIGHT_PAREN")>>)
  <2>1. <<Expression, Take("RIGHT_PAREN")>> \in Seq(QuietGoal)
    BY QuietTokens, QuietRules
  <2> QED
    BY <1>1, <1>5, <2>1, Looked, ExpandManner DEF Manner
<1>6. CASE Throw(0, At("expression", current))
  BY <1>6, Looked, ThrowManner DEF Manner
<1> QED
  BY <1>2, <1>3, <1>4, <1>5, <1>6 DEF Primary

LEMMA MakeManner == ParserTypeOK /\ Make => Manner
<1> SUFFICES ASSUME ParserTypeOK, Make PROVE Manner
  OBVIOUS
<1>1. /\ phase = "parse" /\ goals # << >> /\ Goal.do # "take" /\ goals' = Rest
      /\ phase' = phase /\ current' = current
  BY DEF Make
<1>2. << >> \in Seq(AnyGoal) /\ Fits(<< >>) /\ goals' = Pushed(<< >>)
  BY <1>1, QuietEmpty, QuietFits, PopIsPush
<1> QED
  BY <1>1, <1>2, Zenon DEF Moves, Manner

\* The steps on a switch: its body is entered, or the limit is reached.
LEMMA SwitchBodyManner ==
    ASSUME ParserTypeOK, SwitchBody
    PROVE  \/ Manner
           \/ /\ ~Allows("nesting") /\ phase' = "unwind" /\ goals' = goals
              /\ ~error'.after /\ error'.at = Goal.loc /\ current' = current
<1>1. phase = "parse" /\ Goal.do # "take" /\ Goal.loc \in Nat /\ current \in Nat
  BY OnRule, InTokens DEF SwitchBody
<1> DEFINE gs == Cases \o <<Build("SWITCH", Goal.loc)>>
<1>2. Guarded("nesting", 0, Goal.loc, gs)
  BY DEF SwitchBody
<1>3. CASE Allows("nesting")
  <2>1. <<Build("SWITCH", Goal.loc)>> \in Seq(QuietGoal)
        /\ <<Leave("nesting")>> \in Seq(QuietGoal)
    BY <1>1, QuietBuild, QuietLeave, Names DEF Counter
  <2>2. gs \in Seq(QuietGoal)
    BY <1>1, <2>1, QuietLists, QuietJoin, Zenon
  <2>3. gs \o <<Leave("nesting")>> \in Seq(QuietGoal)
    BY <2>1, <2>2, QuietJoin, Zenon
  <2>4. gs \o <<Leave("nesting")>> \in Seq(AnyGoal) /\ Fits(gs \o <<Leave("nesting")>>)
    BY <2>3, QuietFits, Zenon
  <2> HIDE DEF gs
  <2>5. /\ current' = current + 0 /\ phase' = phase
        /\ goals' = Pushed(gs \o <<Leave("nesting")>>)
    BY <1>2, <1>3 DEF Guarded
  <2>6. current' = current
    BY <1>1, <2>5
  <2> QED
    BY <1>1, <2>4, <2>5, <2>6, Zenon DEF Moves, Manner
<1>4. CASE ~Allows("nesting")
  <2> HIDE DEF gs
  <2> QED
    BY <1>1, <1>2, <1>4 DEF Guarded, Raise, At
<1> QED
  BY <1>3, <1>4

-----------------------------------------------------------------------------
(* The invariant.                                                          *)

\* The last report stands before place p, or at the keyword of the statement
\* there; the error of a statement that begins at p is behind it.
Settled(p) ==
    diagnostics # << >> =>
        LET d == Last(diagnostics)
        IN  d.at < p \/ (d.at = p /\ ~d.after /\ tokens[p].type \in StatementStarts)

\* The place that a switch keeps is in this statement; it is the beginning of
\* the statement only for the outermost switch.
GoalFits(k) ==
    LET g == goals[k]
    IN  /\ g.do = "take" => g.arg # "STRING"
        /\ g.do = "parse" /\ g.arg = "printed" =>
              k > 1 /\ goals[k - 1] = Take("RIGHT_PAREN")
        /\ g.do = "parse" /\ g.arg = "switchBody" =>
              g.loc >= before /\ g.loc <= current /\ (g.loc = before => k = 1)
StackFits == \A k \in DOMAIN goals : GoalFits(k)

\* Nothing is below the first function of a statement.
FirstGoal == phase = "parse" /\ current = before /\ Goal.do = "parse" => Len(goals) = 1

\* Behind a string the ')' is taken.
BehindString ==
    phase = "parse" /\ current > before /\ tokens[current - 1].type = "STRING"
    => goals # << >> /\ Goal = Take("RIGHT_PAREN")

ErrorFits ==
    /\ error.at >= before /\ error.at <= current
    /\ error.at = current => ~error.after
    /\ error.at = before => error.after \/ tokens[before].type \notin StatementStarts
    /\ error.after => tokens[error.at].type # "STRING"

ReportInv ==
    /\ StackFits /\ FirstGoal /\ BehindString
    /\ phase \in {"parse", "unwind"} => Settled(before)
    /\ phase \in {"top", "sync"} /\ ~AtEnd => Settled(current)
    /\ phase = "unwind" => ErrorFits
    /\ ReportsInOrder /\ AnchorOnOneLine

\* The stack that a body is pushed on.
LEMMA PushedStack ==
    ASSUME ParserTypeOK, NEW n \in Nat, Len(goals) = n + 1,
           NEW gs \in Seq(AnyGoal), NEW m \in Nat, Len(gs) = m
    PROVE  /\ Pushed(gs) \in Seq(AnyGoal) /\ Len(Pushed(gs)) = n + m
           /\ Agree(goals, Pushed(gs), n) /\ Above(Pushed(gs), n, gs, m)
<1>1. goals \in Seq(AnyGoal)
  BY DEF ParserTypeOK, AnyGoal
<1> DEFINE t == Front(goals) \o Reverse(gs)
<1>2. /\ t \in Seq(AnyGoal) /\ Len(t) = n + m
      /\ Agree(goals, t, n) /\ Above(t, n, gs, m)
  BY <1>1, Replaced, ZenonT(30)
<1>3. Pushed(gs) = t
  BY Zenon DEF Pushed, Rest
<1> HIDE DEF t
<1> QED
  BY <1>2, <1>3, Zenon

\* A body that fits keeps the stack fitting.
LEMMA PushFits ==
    ASSUME ParserTypeOK, StackFits, goals # << >>, NEW gs \in Seq(AnyGoal), Fits(gs),
           goals' = Pushed(gs), before' = before, current' \in Nat, current' >= current,
           current >= before, current = before => Len(goals) = 1 \/ gs = << >>
    PROVE  StackFits'
<1>1. goals \in Seq(AnyGoal) /\ current \in Nat /\ before \in Nat
  BY InTokens, TokensLemma DEF ParserTypeOK, AnyGoal
<1>2. PICK n \in Nat : Len(goals) = n + 1
  BY <1>1, StackLast
<1>3. PICK m \in Nat : Len(gs) = m
  BY LenProperties
<1>4. /\ goals' \in Seq(AnyGoal) /\ Len(goals') = n + m
      /\ Agree(goals, goals', n) /\ Above(goals', n, gs, m)
  BY <1>2, <1>3, PushedStack
<1>5. DOMAIN goals' = 1 .. n + m /\ DOMAIN goals = 1 .. n + 1 /\ DOMAIN gs = 1 .. m
  BY <1>1, <1>2, <1>3, <1>4, LenProperties
<1> SUFFICES ASSUME NEW k \in 1 .. n + m PROVE GoalFits(k)'
  BY <1>5 DEF StackFits
<1>6. CASE k <= n
  <2>1. goals'[k] = goals[k] /\ (k > 1 => goals'[k - 1] = goals[k - 1]) /\ GoalFits(k)
    BY <1>4, <1>5, <1>6, SMTT(30) DEF Agree, StackFits
  <2>2. ASSUME goals[k].do = "parse", goals[k].arg = "switchBody"
        PROVE  /\ goals[k].loc >= before' /\ goals[k].loc <= current'
               /\ goals[k].loc = before' => k = 1
    <3>1. goals[k] \in AnyGoal
      BY <1>1, <1>2, <1>6, ElementOfSeq
    <3>2. goals[k].loc \in Nat
      BY <2>2, <3>1 DEF AnyGoal, PlainGoal, Guard, Leave
    <3> QED
      BY <1>1, <2>1, <2>2, <3>2 DEF GoalFits
  <2> QED
    BY <2>1, <2>2 DEF GoalFits
<1>7. CASE k > n
  <2>1. PICK i \in 1 .. m : k = n + i
    BY <1>7
  <2>2. PICK j \in 1 .. m : j = m - i + 1
    BY <2>1
  <2>3. goals'[k] = gs[j]
    BY <1>4, <2>1, <2>2 DEF Above
  <2>4. /\ gs[j].do = "take" => gs[j].arg # "STRING"
        /\ gs[j].do = "parse" /\ gs[j].arg = "printed" =>
              j < m /\ gs[j + 1] = Take("RIGHT_PAREN")
        /\ gs[j].do = "parse" /\ gs[j].arg = "switchBody" =>
              j = m /\ gs[j].loc = current
    BY <1>3, <1>5 DEF Fits
  <2>5. ASSUME gs[j].do = "parse", gs[j].arg = "printed"
        PROVE  k > 1 /\ goals'[k - 1] = Take("RIGHT_PAREN")
    <3>1. j < m /\ gs[j + 1] = Take("RIGHT_PAREN")
      BY <2>4, <2>5
    <3>2. PICK h \in 1 .. m : i = h + 1
      BY <2>2, <3>1
    <3>3. goals'[n + h] = gs[m - h + 1] /\ k - 1 = n + h /\ m - h + 1 = j + 1
      BY <1>4, <2>1, <2>2, <3>2 DEF Above
    <3> QED
      BY <2>1, <3>1, <3>2, <3>3
  <2>6. ASSUME gs[j].do = "parse", gs[j].arg = "switchBody"
        PROVE  /\ gs[j].loc >= before' /\ gs[j].loc <= current'
               /\ gs[j].loc = before' => k = 1
    <3>1. j = m /\ gs[j].loc = current /\ i = 1
      BY <2>2, <2>4, <2>6
    <3>2. current = before => n = 0
      BY <1>2, <1>3, <2>1
    <3> QED
      BY <1>1, <2>1, <3>1, <3>2
  <2> QED
    BY <2>3, <2>4, <2>5, <2>6 DEF GoalFits
<1> QED
  BY <1>6, <1>7

\* So does taking the goal on top away.
LEMMA PopFits ==
    ASSUME ParserTypeOK, StackFits, goals # << >>, goals' = Rest, before' = before,
           current' \in Nat, current' >= current, current >= before
    PROVE  StackFits'
<1>1. << >> \in Seq(AnyGoal) /\ Fits(<< >>) /\ goals' = Pushed(<< >>)
  BY QuietEmpty, QuietFits, PopIsPush
<1> QED
  BY <1>1, PushFits, Zenon

-----------------------------------------------------------------------------
(* The steps of the functions preserve it.                                 *)

\* What holds of the stack before the step of a function.
LEMMA Before ==
    ASSUME ParserTypeOK, TurnInv, phase = "parse"
    PROVE  /\ current \in Nat /\ before \in Nat /\ current >= before
           /\ current = before => goals # << >> /\ Standing(Goal)
BY InTokens, TokensLemma DEF ParserTypeOK, TurnInv

LEMMA Kept ==
    ASSUME StepKind
    PROVE  /\ phase = "parse" /\ before' = before /\ tokens' = tokens
           /\ diagnostics' = diagnostics /\ current' \in DOMAIN tokens
           /\ current' >= current
BY DEF StepKind, Proceeds, Enters, Fails

\* What the reports are and what settles them does not change.
LEMMA ReportsKept ==
    ASSUME ReportInv, phase \in {"parse", "unwind"}, phase' \in {"parse", "unwind"},
           before' = before, tokens' = tokens, diagnostics' = diagnostics
    PROVE  /\ phase' \in {"parse", "unwind"} => Settled(before)'
           /\ phase' \in {"top", "sync"} /\ ~AtEnd' => Settled(current)'
           /\ ReportsInOrder' /\ AnchorOnOneLine'
BY DEF ReportInv, Settled, ReportsInOrder, AnchorOnOneLine

LEMMA MovesReport ==
    ASSUME ParserTypeOK, TurnInv, TurnInv', ReportInv, StepKind, Moves, goals # << >>,
           current = before => Statement
    PROVE  ReportInv'
<1>1. /\ phase = "parse" /\ phase' = "parse" /\ before' = before /\ tokens' = tokens
      /\ diagnostics' = diagnostics /\ current' \in DOMAIN tokens /\ current' >= current
      /\ current \in Nat /\ before \in Nat /\ current >= before
  BY Kept, Before DEF Moves
<1>2. current' \in Nat
  BY <1>1, TokensLemma DEF ParserTypeOK
<1>3. PICK gs \in Seq(AnyGoal) : Fits(gs) /\ goals' = Pushed(gs)
  BY DEF Moves
<1>4. current = before => Goal.do = "parse"
  BY DEF Statement, Parsing
<1>5. StackFits'
  <2>1. current = before => Len(goals) = 1
    BY <1>1, <1>4 DEF ReportInv, FirstGoal
  <2> QED
    BY <1>1, <1>2, <1>3, <2>1, PushFits DEF ReportInv
<1>6. FirstGoal'
  <2> SUFFICES ASSUME current' = before' PROVE Goal'.do # "parse"
    BY DEF FirstGoal
  <2>1. current = before /\ current' = current
    BY <1>1
  <2>2. Statement
    BY <2>1
  <2>3. CASE Expand(1, Sentence(Peek, current))
    BY <1>1, <2>1, <2>3 DEF Expand
  <2>4. ASSUME NEW t, NEW hs \in Seq(AnyGoal), hs # << >>, hs[1] = Take(t),
               goals' = Pushed(hs)
        PROVE  Goal'.do # "parse"
    <3>1. Goal' = Take(t)
      BY <2>4, TopOf DEF Goal
    <3> QED
      BY <3>1 DEF Take
  <2>5. CASE EnterBlock
    <3>1. goals' = Pushed(Statements \o <<Leave("nesting")>>)
      BY <1>1, <2>5 DEF EnterBlock, Guarded, Raise
    <3> QED
      BY <1>1, <2>4, <3>1, OpensWith
  <2>6. CASE Expand(0, Assign(current))
    <3>1. goals' = Pushed(Assign(current))
      BY <2>6 DEF Expand
    <3> QED
      BY <1>1, <2>4, <3>1, OpensWith
  <2>7. CASE Throw(0, At("statement", current))
    BY <1>1, <2>7 DEF Throw, Raise
  <2> QED
    BY <2>2, <2>3, <2>5, <2>6, <2>7 DEF Statement
<1>7. BehindString'
  <2>1. CASE current' = current /\ Goal.do # "take"
    <3>1. Goal # Take("RIGHT_PAREN")
      BY <2>1 DEF Take
    <3> QED
      BY <1>1, <2>1, <3>1 DEF BehindString, ReportInv
  <2>2. CASE tokens[current' - 1].type # "STRING"
    BY <1>1, <2>2 DEF BehindString
  <2> QED
    BY <2>1, <2>2 DEF Moves
<1> QED
  BY <1>1, <1>5, <1>6, <1>7, ReportsKept DEF ReportInv

\* An exception leaves the stack as it is.
LEMMA FailsFits ==
    ASSUME ParserTypeOK, StackFits, goals' = goals, before' = before, current' \in Nat,
           current' >= current
    PROVE  StackFits'
<1>1. goals \in Seq(AnyGoal) /\ current \in Nat /\ before \in Nat
  BY InTokens, TokensLemma DEF ParserTypeOK, AnyGoal
<1> SUFFICES ASSUME NEW k \in DOMAIN goals PROVE GoalFits(k)'
  BY DEF StackFits
<1>2. GoalFits(k) /\ goals[k] \in AnyGoal
  BY <1>1, ElementOfSeq DEF StackFits
<1>3. goals[k].do = "parse" => goals[k].loc \in Nat
  BY <1>2 DEF AnyGoal, PlainGoal, Guard, Leave
<1> QED
  BY <1>1, <1>2, <1>3 DEF GoalFits

LEMMA StopsReport ==
    ASSUME ParserTypeOK, TurnInv, TurnInv', ReportInv, StepKind, Stops,
           current = before => Statement
    PROVE  ReportInv'
<1>1. /\ phase = "parse" /\ phase' = "unwind" /\ before' = before /\ tokens' = tokens
      /\ diagnostics' = diagnostics /\ current' \in DOMAIN tokens /\ current' >= current
      /\ current \in Nat /\ before \in Nat /\ current >= before /\ goals' = goals
  BY Kept, Before DEF Stops
<1>2. current' \in Nat
  BY <1>1, TokensLemma DEF ParserTypeOK
<1>3. error'.at \in Nat
  BY <1>1 DEF StepKind, Proceeds, Enters, Fails, Place
<1>4. ASSUME error'.at = before PROVE tokens[before].type \notin StatementStarts
  <2>1. current = before
    BY <1>1, <1>3, <1>4 DEF Stops
  <2>2. Statement
    BY <2>1
  <2>3. current' = current
    BY <1>1, <2>2 DEF Statement, Expand, EnterBlock, Guarded, Throw, Raise
  <2> QED
    BY <1>1, <2>1, <2>3 DEF TurnInv, Peek
<1>5. ErrorFits'
  BY <1>1, <1>2, <1>3, <1>4 DEF ErrorFits, Stops
<1>6. StackFits'
  BY <1>1, <1>2, FailsFits DEF ReportInv
<1> QED
  BY <1>1, <1>5, <1>6, ReportsKept DEF ReportInv, FirstGoal, BehindString

\* consume() moves behind its token, or reports it: a ';' or '}' behind the
\* token before, which is no string as the ')' behind a string comes first.
LEMMA ConsumeReport ==
    ASSUME ParserTypeOK, TurnInv, TurnInv', ReportInv, StepKind, Consume
    PROVE  ReportInv'
<1>1. /\ phase = "parse" /\ before' = before /\ tokens' = tokens
      /\ diagnostics' = diagnostics /\ current' \in DOMAIN tokens /\ current' >= current
      /\ current \in Nat /\ before \in Nat /\ current >= before
  BY Kept, Before
<1>2. current' \in Nat
  BY <1>1, TokensLemma DEF ParserTypeOK
<1>3. /\ goals # << >> /\ Goal.do = "take" /\ goals \in Seq(AnyGoal)
  BY DEF Consume, ParserTypeOK, AnyGoal
<1>4. Goal.arg # "STRING"
  <2>1. PICK k \in DOMAIN goals : Goal = goals[k]
    BY <1>3, LenProperties, EmptySeq DEF Goal, Last
  <2> QED
    BY <1>3, <2>1 DEF ReportInv, StackFits, GoalFits
<1>5. ASSUME Check(Goal.arg), goals' = Rest, current' = current + 1, phase' = phase
      PROVE  ReportInv'
  <2>1. tokens[current' - 1].type # "STRING" /\ current' # before
    BY <1>1, <1>4, <1>5 DEF Check, Peek
  <2>2. StackFits'
    BY <1>1, <1>2, <1>3, <1>5, PopFits DEF ReportInv
  <2> QED
    BY <1>1, <1>5, <2>1, <2>2, ReportsKept DEF ReportInv, FirstGoal, BehindString
<1>6. ASSUME ~Check(Goal.arg), Throw(0, Missing(Goal.arg))
      PROVE  ReportInv'
  <2>1. phase' = "unwind" /\ goals' = goals /\ error' = Missing(Goal.arg)
        /\ current' = current
    BY <1>1, <1>6 DEF Throw, Raise
  <2>2. current > before
    BY <1>1, <1>3, <1>6 DEF TurnInv, Standing, Check, AtEnd, Peek
  <2>3. StackFits'
    BY <1>1, <1>2, <2>1, FailsFits DEF ReportInv
  <2>4. ErrorFits'
    <3>1. CASE Goal.arg \in {"SEMICOLON", "RIGHT_BRACE"}
      <4>1. before > 0
        BY TokensLemma DEF ParserTypeOK
      <4>2. error' = After(Goal.arg, current - 1)
        BY <1>1, <2>1, <2>2, <3>1, <4>1 DEF Missing
      <4>3. tokens[current - 1].type # "STRING"
        BY <1>1, <2>2, <3>1 DEF ReportInv, BehindString, Take
      <4> QED
        BY <1>1, <2>1, <2>2, <4>2, <4>3 DEF ErrorFits, After
    <3>2. CASE Goal.arg \notin {"SEMICOLON", "RIGHT_BRACE"}
      BY <1>1, <2>1, <2>2, <3>2 DEF ErrorFits, Missing, At
    <3> QED
      BY <3>1, <3>2
  <2> QED
    BY <1>1, <2>1, <2>3, <2>4, ReportsKept DEF ReportInv, FirstGoal, BehindString
<1>7. CASE Check(Goal.arg) /\ Return(1, current)
  BY <1>5, <1>7 DEF Return
<1>8. CASE Check(Goal.arg) /\ Expand(1, << >>)
  <2>1. goals' = Rest /\ current' = current + 1 /\ phase' = phase
    BY <1>3, <1>8, PopIsPush DEF Expand
  <2> QED
    BY <1>5, <1>8, <2>1
<1> QED
  BY <1>6, <1>7, <1>8 DEF Consume

\* A string is consumed in front of the ')' of its printing.
LEMMA StringReport ==
    ASSUME ParserTypeOK, TurnInv, TurnInv', ReportInv, StepKind, Printed, Check("STRING")
    PROVE  ReportInv'
<1>1. /\ phase = "parse" /\ before' = before /\ tokens' = tokens
      /\ diagnostics' = diagnostics /\ current' \in DOMAIN tokens /\ current' >= current
      /\ current \in Nat /\ before \in Nat /\ current >= before
  BY Kept, Before
<1>2. current' \in Nat
  BY <1>1, TokensLemma DEF ParserTypeOK
<1>3. /\ goals # << >> /\ Goal.do = "parse" /\ Goal.arg = "printed"
      /\ goals \in Seq(AnyGoal)
  BY DEF Printed, Parsing, ParserTypeOK, AnyGoal
<1>4. goals' = Rest /\ phase' = "parse" /\ current' = current + 1
  BY <1>1 DEF Printed, Return
<1>5. PICK n \in Nat : Len(goals) = n + 1 /\ goals[n + 1] = Goal
  BY <1>3, StackLast DEF Goal, Last
<1>6. n + 1 > 1 /\ goals[n + 1 - 1] = Take("RIGHT_PAREN")
  <2>1. n + 1 \in DOMAIN goals
    BY <1>3, <1>5, LenProperties
  <2> QED
    BY <1>3, <1>5, <2>1 DEF ReportInv, StackFits, GoalFits
<1>7. /\ Len(goals') = n /\ \A i \in 1 .. n : goals'[i] = goals[i]
  <2>1. \A i \in 1 .. n : goals[i] \in AnyGoal
    BY <1>3, <1>5, ElementOfSeq
  <2>2. Rest = SubSeq(goals, 1, n)
    BY <1>5 DEF Rest, Front
  <2> QED
    BY <1>4, <2>1, <2>2, Prefix
<1>8. goals' # << >> /\ Goal' = Take("RIGHT_PAREN")
  BY <1>5, <1>6, <1>7 DEF Goal, Last
<1>9. StackFits'
  BY <1>1, <1>2, <1>3, <1>4, PopFits DEF ReportInv
<1>10. FirstGoal' /\ BehindString'
  BY <1>1, <1>4, <1>8 DEF FirstGoal, BehindString
<1> QED
  BY <1>1, <1>4, <1>9, <1>10, ReportsKept DEF ReportInv

\* A switch that is refused is reported at its keyword, which is not the
\* beginning of the statement: the outermost is never refused.
LEMMA RefusedReport ==
    ASSUME StackInv, TurnInv, TurnInv', ReportInv, StepKind, SwitchBody,
           ~Allows("nesting"), phase' = "unwind", goals' = goals,
           ~error'.after, error'.at = Goal.loc, current' = current
    PROVE  ReportInv'
<1>1. ParserTypeOK
  BY DEF StackInv
<1>2. /\ phase = "parse" /\ before' = before /\ tokens' = tokens
      /\ diagnostics' = diagnostics /\ current \in Nat /\ before \in Nat
      /\ current >= before
  BY <1>1, Kept, Before
<1>3. /\ goals # << >> /\ Goal.do = "parse" /\ Goal.arg = "switchBody"
      /\ Goal \in PlainGoal /\ Goal.loc \in Nat /\ goals \in Seq(AnyGoal)
  BY <1>1, OnRule DEF SwitchBody, ParserTypeOK, AnyGoal
<1>4. PICK n \in Nat : Len(goals) = n + 1 /\ goals[n + 1] = Goal
  BY <1>3, StackLast DEF Goal, Last
<1>5. /\ Goal.loc >= before /\ Goal.loc <= current
      /\ Goal.loc = before => n + 1 = 1
  <2>1. n + 1 \in DOMAIN goals
    BY <1>3, <1>4, LenProperties
  <2> QED
    BY <1>3, <1>4, <2>1 DEF ReportInv, StackFits, GoalFits
<1>6. Goal.loc # before
  <2> SUFFICES ASSUME Goal.loc = before PROVE Allows("nesting")
    OBVIOUS
  <2>1. n = 0 /\ goals[1] = Goal /\ Len(goals) = 1
    BY <1>4, <1>5
  <2>2. Leave("nesting") # Goal /\ "nesting" \in Counter
    BY <1>3 DEF Leave, Counter
  <2>3. Below(goals, {Leave("nesting")}, Len(goals) + 1) = {}
    BY <2>1, <2>2 DEF Below
  <2>4. Count(goals, {Leave("nesting")}) = 0
    BY <2>3, FS_EmptySet DEF Count
  <2>5. depth["nesting"] = 0 /\ depth \in [Counter -> Nat]
    BY <1>1, <2>2, <2>4 DEF StackInv, Balanced, ParserTypeOK
  <2>6. Entered(depth, "nesting")["nesting"] = 1
    BY <2>2, <2>5 DEF Entered
  <2>7. Limit["nesting"] >= 1
    BY <2>2, LimitsAssumption DEF Limit
  <2> QED
    BY <2>6, <2>7 DEF Allows
<1>7. ErrorFits'
  BY <1>2, <1>3, <1>5, <1>6 DEF ErrorFits
<1>8. StackFits'
  BY <1>1, <1>2, FailsFits DEF ReportInv
<1> QED
  BY <1>2, <1>7, <1>8, ReportsKept DEF ReportInv, FirstGoal, BehindString

LEMMA FunctionsReport ==
    ASSUME StackInv, TurnInv, TurnInv', ReportInv,
           StatementRules \/ ExpressionRules \/ Consume \/ Make
    PROVE  ReportInv'
<1>1. ParserTypeOK /\ StepKind /\ phase = "parse"
  BY Kinds DEF StackInv, StepKind, Proceeds, Enters, Fails
<1>2. CASE Consume
  BY <1>1, <1>2, ConsumeReport
<1>3. CASE Printed /\ Check("STRING")
  BY <1>1, <1>3, StringReport
<1>4. ASSUME ~Consume, goals # << >>, Manner
      PROVE  ReportInv'
  <2>1. current = before => Statement
    <3> SUFFICES ASSUME current = before PROVE Statement
      OBVIOUS
    <3>1. Standing(Goal)
      BY <1>1, Before
    <3>2. ~Make
      BY <3>1 DEF Make, Standing
    <3> QED
      BY <1>4, <3>1, <3>2, OnlyStatement
  <2> QED
    BY <1>1, <1>4, <2>1, MovesReport, StopsReport DEF Manner
<1>5. CASE SwitchBody
  <2>1. goals # << >> /\ ~Consume
    BY <1>5 DEF SwitchBody, Parsing, Consume
  <2> QED
    BY <1>1, <1>4, <1>5, <2>1, SwitchBodyManner, RefusedReport
<1>6. CASE Make
  <2>1. goals # << >> /\ ~Consume
    BY <1>6 DEF Make, Consume
  <2> QED
    BY <1>1, <1>4, <1>6, <2>1, MakeManner
<1>7. CASE /\ ~SwitchBody /\ ~(Printed /\ Check("STRING"))
           /\ StatementRules \/ ExpressionRules
  <2>1. Manner
    BY <1>1, <1>7, StatementManner, BlockManner, ElseManner, ForManner, CasesManner,
       PrintedManner, LevelsManner, OperatorsManner, PrimaryManner
       DEF StatementRules, ExpressionRules
  <2>2. goals # << >> /\ Goal.do \in {"parse", "repeat"}
    BY <1>7 DEF StatementRules, ExpressionRules, Statement, RequireBlock, StatementList,
       ElseBranch, ForInit, ForUpdate, SwitchCases, SwitchLabel, Printed, Parsing,
       ExpressionRule, BinaryLevel, RepeatLevel, LogicalNot, Unary, Primary
  <2>3. ~Consume
    BY <2>2 DEF Consume
  <2> QED
    BY <1>4, <2>1, <2>2, <2>3
<1> QED
  BY <1>2, <1>3, <1>5, <1>6, <1>7

-----------------------------------------------------------------------------
(* The loop of parseProgram preserves it.                                  *)

\* The reports are numbers of tokens, the last one is behind the others.
LEMMA Numbers ==
    ASSUME ParserTypeOK
    PROVE  /\ current \in Nat /\ before \in Nat /\ error.at \in Nat
           /\ diagnostics \in Seq(Place) /\ Len(diagnostics) \in Nat
           /\ diagnostics # << >> =>
                 /\ Len(diagnostics) > 0
                 /\ Last(diagnostics) = diagnostics[Len(diagnostics)]
                 /\ Last(diagnostics).at \in Nat
<1>1. current \in Nat /\ before \in Nat /\ error.at \in Nat
  BY InTokens, TokensLemma DEF ParserTypeOK, Place
<1>2. diagnostics \in Seq(Place) /\ Len(diagnostics) \in Nat
  BY LenProperties DEF ParserTypeOK
<1>3. ASSUME diagnostics # << >>
      PROVE  /\ Len(diagnostics) > 0 /\ Last(diagnostics) = diagnostics[Len(diagnostics)]
             /\ Last(diagnostics).at \in Nat
  <2>1. Len(diagnostics) > 0 /\ Len(diagnostics) \in 1 .. Len(diagnostics)
    BY <1>2, <1>3, EmptySeq
  <2>2. diagnostics[Len(diagnostics)] \in Place
    BY <1>2, <2>1, ElementOfSeq
  <2> QED
    BY <2>1, <2>2 DEF Last, Place
<1> QED
  BY <1>1, <1>2, <1>3

LEMMA PopReport ==
    ASSUME StackInv, TurnInv, ReportInv, Release \/ Unwind
    PROVE  ReportInv'
<1>1. /\ goals # << >> /\ goals' = Rest /\ before' = before /\ current' = current
      /\ phase' = phase /\ phase \in {"parse", "unwind"} /\ tokens' = tokens
      /\ diagnostics' = diagnostics /\ error' = error
  BY DEF Release, Unwind
<1>2. ParserTypeOK /\ current \in Nat /\ before \in Nat /\ current >= before
  BY <1>1, Numbers DEF StackInv, TurnInv
<1>3. StackFits'
  BY <1>1, <1>2, PopFits DEF ReportInv
<1>4. ASSUME phase = "parse"
      PROVE  FirstGoal' /\ BehindString'
  <2>1. Goal.do = "leave"
    BY <1>4 DEF Release, Unwind
  <2>2. current # before
    BY <1>4, <2>1 DEF TurnInv, Standing
  <2>3. tokens[current - 1].type # "STRING"
    BY <1>2, <1>4, <2>1, <2>2 DEF ReportInv, BehindString, Take
  <2> QED
    BY <1>1, <2>2, <2>3 DEF FirstGoal, BehindString
<1>5. FirstGoal' /\ BehindString'
  BY <1>1, <1>4 DEF FirstGoal, BehindString
<1> QED
  BY <1>1, <1>3, <1>5, ReportsKept DEF ReportInv, ErrorFits

LEMMA BeginReport ==
    ASSUME StackInv, ReportInv, BeginStatement
    PROVE  ReportInv'
<1>1. /\ phase = "top" /\ ~AtEnd /\ phase' = "parse" /\ before' = current
      /\ current' = current /\ goals' = <<Parse("statement", 0)>>
      /\ tokens' = tokens /\ diagnostics' = diagnostics
  BY DEF BeginStatement
<1>2. StackFits'
  <2>1. DOMAIN goals' = {1} /\ goals'[1] = Parse("statement", 0)
    BY <1>1
  <2> QED
    BY <2>1 DEF StackFits, GoalFits, Parse
<1>3. FirstGoal' /\ BehindString'
  BY <1>1, Numbers DEF FirstGoal, BehindString, StackInv
<1>4. Settled(before)'
  BY <1>1 DEF ReportInv, Settled
<1> QED
  BY <1>1, <1>2, <1>3, <1>4 DEF ReportInv, ReportsInOrder, AnchorOnOneLine

LEMMA LeaveReport ==
    ASSUME StackInv, TurnInv, ReportInv,
           EndStatement \/ Finish \/ Synchronize \/ Resume
    PROVE  ReportInv'
<1>1. ParserTypeOK
  BY DEF StackInv
<1>2. /\ goals' = << >> /\ tokens' = tokens /\ diagnostics' = diagnostics
      /\ phase' \notin {"parse", "unwind"} /\ before' = before
  BY DEF StackInv, EndStatement, Finish, Synchronize, Resume
<1>3. StackFits' /\ FirstGoal' /\ BehindString'
  BY <1>2 DEF StackFits, FirstGoal, BehindString
<1>4. ASSUME phase' \in {"top", "sync"}, ~AtEnd'
      PROVE  Settled(current)'
  <2>1. CASE EndStatement
    <3>1. current > before /\ Settled(before) /\ current' = current
      BY <1>1, <2>1, Numbers DEF EndStatement, TurnInv, ReportInv
    <3> QED
      BY <1>1, <1>2, <3>1, Numbers DEF Settled
  <2>2. CASE Synchronize
    <3>1. ~AtEnd /\ Settled(current)
      BY <2>2 DEF Synchronize, StopsAt, AtEnd, Peek, ReportInv
    <3>2. current' = current + 1
      BY <1>1, <2>2, <3>1 DEF Synchronize, Advanced, AtEnd, Peek
    <3> QED
      BY <1>1, <1>2, <3>1, <3>2, Numbers DEF Settled
  <2>3. CASE Resume
    <3>1. current' = current
      BY <1>1, <2>3, Numbers DEF Resume, ResumeAt, TurnInv
    <3>2. Settled(current)
      BY <1>2, <1>4, <2>3, <3>1 DEF Resume, ReportInv, AtEnd, Peek
    <3> QED
      BY <1>2, <3>1, <3>2 DEF Settled
  <2>4. CASE Finish
    BY <1>4, <2>4 DEF Finish
  <2> QED
    BY <2>1, <2>2, <2>3, <2>4
<1> QED
  BY <1>2, <1>3, <1>4 DEF ReportInv, ReportsInOrder, AnchorOnOneLine

\* The error that is caught is behind every report before it, and the parser
\* goes on behind the error, unless a keyword was found where it stands.
LEMMA CatchReport ==
    ASSUME StackInv, TurnInv, ReportInv, Catch
    PROVE  ReportInv'
<1>1. ParserTypeOK
  BY DEF StackInv
<1>2. /\ phase = "unwind" /\ phase' = "sync" /\ goals = << >> /\ goals' = << >>
      /\ tokens' = tokens /\ diagnostics' = Append(diagnostics, error)
      /\ current' = SyncStart /\ before' = before
  BY DEF Catch
<1>3. ErrorFits /\ Settled(before) /\ ReportsInOrder /\ AnchorOnOneLine
  BY <1>2 DEF ReportInv
<1>4. StackFits' /\ FirstGoal' /\ BehindString'
  BY <1>2 DEF StackFits, FirstGoal, BehindString
<1>5. PICK n \in Nat : n = Len(diagnostics)
  BY <1>1, Numbers
<1>6. /\ Len(diagnostics') = n + 1 /\ diagnostics'[n + 1] = error
      /\ \A k \in 1 .. n : diagnostics'[k] = diagnostics[k]
      /\ diagnostics' \in Seq(Place)
  BY <1>1, <1>2, <1>5, AppendProperties, Numbers DEF ParserTypeOK
<1>7. ASSUME n > 0
      PROVE  Behind(error, diagnostics[n])
  <2>1. diagnostics # << >> /\ Last(diagnostics) = diagnostics[n]
        /\ diagnostics[n].at \in Nat
    <3>1. diagnostics # << >>
      BY <1>5, <1>7
    <3> QED
      BY <1>1, <1>5, <3>1, Numbers
  <2>2. \/ diagnostics[n].at < before
        \/ /\ diagnostics[n].at = before /\ ~diagnostics[n].after
           /\ tokens[before].type \in StatementStarts
    BY <1>3, <2>1 DEF Settled
  <2>3. error.at \in Nat /\ before \in Nat /\ error.at >= before
    BY <1>1, <1>3, Numbers DEF ErrorFits
  <2> QED
    BY <1>3, <2>1, <2>2, <2>3 DEF ErrorFits, Behind
<1>8. ReportsInOrder'
  <2> SUFFICES ASSUME NEW k \in 2 .. n + 1
               PROVE  Behind(diagnostics'[k], diagnostics'[k - 1])
    BY <1>6 DEF ReportsInOrder, Behind
  <2>1. CASE k <= n
    <3>1. /\ diagnostics'[k] = diagnostics[k] /\ diagnostics'[k - 1] = diagnostics[k - 1]
          /\ k \in 2 .. Len(diagnostics)
      BY <1>5, <1>6, <2>1
    <3> QED
      BY <1>3, <3>1 DEF ReportsInOrder
  <2>2. CASE k = n + 1
    <3>1. diagnostics'[k] = error /\ diagnostics'[k - 1] = diagnostics[n] /\ n > 0
      BY <1>5, <1>6, <2>2
    <3> QED
      BY <1>7, <3>1
  <2> QED
    BY <1>5, <2>1, <2>2
<1>9. AnchorOnOneLine'
  <2> SUFFICES ASSUME NEW k \in 1 .. n + 1, diagnostics'[k].after
               PROVE  tokens[diagnostics'[k].at].type # "STRING"
    BY <1>2, <1>6, LenProperties DEF AnchorOnOneLine
  <2>1. CASE k <= n
    <3>1. diagnostics'[k] = diagnostics[k] /\ k \in DOMAIN diagnostics
      BY <1>1, <1>5, <1>6, <2>1, Numbers, LenProperties
    <3> QED
      BY <1>3, <3>1 DEF AnchorOnOneLine
  <2>2. CASE k = n + 1
    BY <1>3, <1>6, <2>2 DEF ErrorFits
  <2> QED
    BY <1>5, <2>1, <2>2
<1>10. ASSUME ~AtEnd'
       PROVE  Settled(current)'
  <2>1. Last(diagnostics') = error
    BY <1>6 DEF Last
  <2>2. /\ error.at \in Nat /\ current \in Nat /\ error.at <= current
        /\ error.at = current => ~error.after
    BY <1>1, <1>3, Numbers DEF ErrorFits
  <2>3. \/ error.at < current'
        \/ error.at = current' /\ ~error.after /\ tokens'[current'].type \in StatementStarts
    <3>1. CASE Peek \in StatementStarts
      <4>1. current' = current /\ tokens'[current].type \in StatementStarts
        BY <1>2, <3>1 DEF SyncStart, Peek
      <4> QED
        BY <2>2, <4>1
    <3>2. CASE Peek \notin StatementStarts
      <4>1. current' = IF Peek = "END_OF_FILE" THEN current ELSE current + 1
        BY <1>2, <3>2 DEF SyncStart, Advanced, Peek
      <4>2. Peek # "END_OF_FILE"
        BY <1>2, <1>10, <4>1 DEF AtEnd, Peek
      <4> QED
        BY <2>2, <4>1, <4>2
    <3> QED
      BY <3>1, <3>2
  <2> QED
    BY <2>1, <2>3, Zenon DEF Settled
<1> QED
  BY <1>2, <1>4, <1>8, <1>9, <1>10 DEF ReportInv

-----------------------------------------------------------------------------
(* The theorems.                                                           *)

LEMMA ReportInit == ParserInit => ReportInv
BY DEF ParserInit, ReportInv, StackFits, FirstGoal, BehindString, Settled, ErrorFits,
   ReportsInOrder, AnchorOnOneLine

LEMMA ReportNext ==
    ParserInv /\ ParserInv' /\ ReportInv /\ [ParserNext]_parserVars => ReportInv'
<1> SUFFICES ASSUME StackInv, TurnInv, TurnInv', ReportInv, [ParserNext]_parserVars
             PROVE  ReportInv'
  BY DEF ParserInv
<1>1. CASE UNCHANGED parserVars
  BY <1>1 DEF parserVars, ReportInv, StackFits, GoalFits, FirstGoal, BehindString, Settled,
     ErrorFits, ReportsInOrder, AnchorOnOneLine, AtEnd, Peek, Goal
<1>2. CASE ParserNext
  BY <1>2, FunctionsReport, PopReport, BeginReport, LeaveReport, CatchReport
     DEF ParserNext
<1> QED
  BY <1>1, <1>2

LEMMA ReportAlways == ParserSpec => []ReportInv
BY ParserAlways, ReportInit, ReportNext, PTL DEF ParserSpec

\* Diagnostics are in the order of the text and none is reported twice, through
\* every recovery: a statement that begins where the last report stands begins
\* with a keyword, and no error stands at the keyword of its own statement.
THEOREM ReportsAlwaysInOrder == ParserSpec => []ReportsInOrder
<1>1. ReportInv => ReportsInOrder
  BY DEF ReportInv
<1> QED
  BY <1>1, ReportAlways, PTL

\* No report stands behind a string, whose end consume() cannot compute.
THEOREM AnchorsOnOneLine == ParserSpec => []AnchorOnOneLine
<1>1. ReportInv => AnchorOnOneLine
  BY DEF ReportInv
<1> QED
  BY <1>1, ReportAlways, PTL
==============================================================================
