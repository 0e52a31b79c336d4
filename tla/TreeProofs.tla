----------------------------- MODULE TreeProofs -----------------------------
(***************************************************************************)
(* Every node of a tree that the parser builds has the shape that the      *)
(* later stages take for granted and stands at its token, for every token  *)
(* sequence the lexer may return.                                          *)
(*                                                                         *)
(* Nodes are made of the last values on a stack, without a test.  So every *)
(* value has a sort, and the goals that are left turn the sorts on the     *)
(* stack, one goal after the other, into a single statement.               *)
(***************************************************************************)
EXTENDS ParserProofs, Induction

-----------------------------------------------------------------------------
(* Sorts.  An else branch is a list of at most one.                        *)

NodeSort == {"expr", "stmt", "block", "init", "assign", "if", "case"}
ListSort == {"stmts", "cases", "none", "else"}
Sort     == {"name", "label"} \cup NodeSort \cup ListSort

\* What a rule takes from the stack of sorts, and what it leaves there instead.
RuleYields(r, t, s) ==
    \/ r = "statement" /\ t = << >> /\ s = "stmt"
    \/ r = "requireBlock" /\ t = << >> /\ s = "block"
    \/ r = "init" /\ t = << >> /\ s = "init"
    \/ r = "update" /\ t = << >> /\ s = "assign"
    \/ r \in {"statements", "caseBody"} /\ t = <<"stmts">> /\ s = "stmts"
    \/ r = "cases" /\ t = <<"cases">> /\ s = "cases"
    \/ r = "else" /\ t = <<"none">> /\ s = "else"
    \/ r = "switchBody" /\ t = <<"expr">> /\ s = "stmt"
    \/ r = "printed" /\ t = << >> /\ s = "stmt"
    \/ r = "label" /\ t = << >> /\ s = "label"
    \/ r \in {"expression", "logicalNot", "unary", "primary"} \cup Level
          /\ t = << >> /\ s = "expr"

\* The same for the making of a node.
NodeYields(node, t, s) ==
    \/ node = "LIST" /\ t = << >> /\ s \in {"stmts", "cases", "none"}
    \/ node = "ITEM" /\ t = <<"stmts", "stmt">> /\ s = "stmts"
    \/ node = "ITEM" /\ t = <<"cases", "case">> /\ s = "cases"
    \/ node = "ITEM" /\ t \in {<<"none", "block">>, <<"none", "if">>} /\ s = "else"
    \/ node = "READ" /\ t = << >> /\ s = "expr"
    \/ node \in {"HINDI", "NEGATE"} /\ t = <<"expr">> /\ s = "expr"
    \/ node \in DOMAIN BinOp \cup DOMAIN LogOp /\ t = <<"expr", "expr">> /\ s = "expr"
    \/ node \in {"BREAK", "CONTINUE"} /\ t = << >> /\ s = "stmt"
    \/ node = "PRINT" /\ t = <<"expr">> /\ s = "stmt"
    \/ node = "BLOCK" /\ t = <<"stmts">> /\ s \in {"stmt", "block"}
    \/ node = "READ_INTO" /\ t = <<"name">> /\ s = "stmt"
    \/ node = "VAR_DECL" /\ t = <<"name", "expr">> /\ s \in {"stmt", "init"}
    \/ node = "ASSIGN" /\ t = <<"name", "expr">> /\ s \in {"stmt", "init", "assign"}
    \/ node = "WHILE" /\ t = <<"expr", "block">> /\ s = "stmt"
    \/ node = "DO_WHILE" /\ t = <<"block", "expr">> /\ s = "stmt"
    \/ node = "CASE" /\ t = <<"label", "stmts">> /\ s = "case"
    \/ node = "SWITCH" /\ t = <<"expr", "cases">> /\ s = "stmt"
    \/ node = "IF" /\ t = <<"expr", "block", "else">> /\ s \in {"stmt", "if"}
    \/ node = "FOR" /\ t = <<"init", "expr", "assign", "block">> /\ s = "stmt"

Yields(g, t, s) ==
    \/ g.do = "take" /\ g.arg = "IDENTIFIER" /\ t = << >> /\ s = "name"
    \/ g.do = "parse" /\ RuleYields(g.arg, t, s)
    \/ g.do = "repeat" /\ t = <<"expr">> /\ s = "expr"
    \/ g.do = "build" /\ NodeYields(g.arg, t, s)

Quiet(g) == g.do = "leave" \/ (g.do = "take" /\ g.arg # "IDENTIFIER")

\* A goal turns the sorts P into the sorts Q.  A are the goals that may occur.
Turns(g, P, Q) ==
    \/ Quiet(g) /\ P = Q
    \/ \E B \in Seq(Sort), t \in Seq(Sort), s \in Sort :
          Yields(g, t, s) /\ P = B \o t /\ Q = Append(B, s)
Step(A, g, P, Q) == g \in A /\ Turns(g, P, Q)

\* So does a body, goal by goal.
Runs(A, gs, P, Q) ==
    /\ gs \in Seq(AnyGoal)
    /\ \E D \in [0 .. Len(gs) -> Seq(Sort)] :
          /\ D[0] = P /\ D[Len(gs)] = Q
          /\ \A j \in 1 .. Len(gs) : Step(A, gs[j], D[j - 1], D[j])

\* The goals on a stack turn P into a statement.
Typed(A, gs, P) ==
    /\ gs \in Seq(AnyGoal)
    /\ \E T \in [0 .. Len(gs) -> Seq(Sort)] :
          /\ T[0] = <<"stmt">> /\ T[Len(gs)] = P
          /\ \A k \in 1 .. Len(gs) : Step(A, gs[k], T[k], T[k - 1])

-----------------------------------------------------------------------------
(* Stacks.                                                                 *)

LEMMA TypedEmpty ==
    ASSUME NEW A
    PROVE  Typed(A, << >>, <<"stmt">>)
<1> DEFINE T == [k \in 0 .. 0 |-> <<"stmt">>]
<1>1. "stmt" \in Sort
  BY DEF Sort, NodeSort
<1>2. T \in [0 .. 0 -> Seq(Sort)] /\ T[0] = <<"stmt">>
  BY <1>1
<1>3. << >> \in Seq(AnyGoal) /\ Len(<< >>) = 0 /\ \A k \in 1 .. 0 : FALSE
  OBVIOUS
<1> HIDE DEF T
<1> QED
  BY <1>2, <1>3 DEF Typed

LEMMA TypedTop ==
    ASSUME NEW A \in SUBSET AnyGoal, NEW gs, gs # << >>, NEW P, Typed(A, gs, P)
    PROVE  \E Q \in Seq(Sort) : Step(A, Last(gs), P, Q) /\ Typed(A, Front(gs), Q)
<1>1. PICK n \in Nat : Len(gs) = n + 1 /\ Last(gs) = gs[n + 1]
  BY StackLast DEF Typed
<1>2. PICK T \in [0 .. Len(gs) -> Seq(Sort)] :
          /\ T[0] = <<"stmt">> /\ T[Len(gs)] = P
          /\ \A k \in 1 .. Len(gs) : Step(A, gs[k], T[k], T[k - 1])
  BY DEF Typed
<1>3. Len(gs) - 1 = n /\ n + 1 - 1 = n /\ n + 1 \in 1 .. Len(gs) /\ n \in 0 .. Len(gs)
  BY <1>1
<1>4. \A i \in 1 .. n : gs[i] \in AnyGoal
  BY <1>1, ElementOfSeq DEF Typed
<1>5. /\ Front(gs) \in Seq(AnyGoal) /\ Len(Front(gs)) = n
      /\ \A i \in 1 .. n : Front(gs)[i] = gs[i]
  BY <1>3, <1>4, Prefix, Zenon DEF Front
<1> DEFINE U == [k \in 0 .. n |-> T[k]]
<1>6. U \in [0 .. n -> Seq(Sort)]
  BY <1>1
<1>7. \A k \in 0 .. n : U[k] = T[k]
  OBVIOUS
<1>8. \A k \in 1 .. n : k \in 0 .. n /\ k - 1 \in 0 .. n /\ k \in 1 .. Len(gs)
  BY <1>1
<1>9. 0 \in 0 .. n /\ n \in 0 .. n
  OBVIOUS
<1> HIDE DEF U
<1>10. \A k \in 1 .. n : Step(A, Front(gs)[k], U[k], U[k - 1])
  BY <1>2, <1>5, <1>7, <1>8, Zenon
<1>11. Typed(A, Front(gs), U[n])
  BY <1>2, <1>5, <1>6, <1>7, <1>9, <1>10, Zenon DEF Typed
<1>12. Step(A, Last(gs), P, U[n])
  BY <1>1, <1>2, <1>3, <1>7, <1>9, Zenon
<1> QED
  BY <1>6, <1>9, <1>11, <1>12, Zenon

LEMMA TypedPush ==
    ASSUME NEW A \in SUBSET AnyGoal, NEW f, NEW gs, NEW P, NEW Q,
           Typed(A, f, Q), Runs(A, gs, P, Q)
    PROVE  Typed(A, f \o Reverse(gs), P)
<1>1. PICK n \in Nat : f \in Seq(AnyGoal) /\ Len(f) = n
  BY LenProperties DEF Typed
<1>2. PICK m \in Nat : gs \in Seq(AnyGoal) /\ Len(gs) = m
  BY LenProperties DEF Runs
<1>3. PICK T \in [0 .. n -> Seq(Sort)] :
          /\ T[0] = <<"stmt">> /\ T[n] = Q
          /\ \A k \in 1 .. n : Step(A, f[k], T[k], T[k - 1])
  BY <1>1, Zenon DEF Typed
<1>4. PICK D \in [0 .. m -> Seq(Sort)] :
          /\ D[0] = P /\ D[m] = Q
          /\ \A j \in 1 .. m : Step(A, gs[j], D[j - 1], D[j])
  BY <1>2, Zenon DEF Runs
<1>5. /\ Reverse(gs) \in Seq(AnyGoal) /\ Len(Reverse(gs)) = m
      /\ \A i \in 1 .. m : Reverse(gs)[i] = gs[m - i + 1]
  <2>1. \A i \in 1 .. m : gs[m - i + 1] \in AnyGoal
    BY <1>2, ElementOfSeq
  <2> QED
    BY <1>2, <2>1 DEF Reverse
<1> DEFINE g == Reverse(gs)
<1> HIDE DEF g
<1>6. g \in Seq(AnyGoal) /\ Len(g) = m /\ \A i \in 1 .. m : g[i] = gs[m - i + 1]
  BY <1>5, Zenon DEF g
<1>7. /\ f \o g \in Seq(AnyGoal) /\ Len(f \o g) = n + m
      /\ \A i \in 1 .. n : (f \o g)[i] = f[i]
      /\ \A i \in 1 .. m : (f \o g)[n + i] = g[i]
  BY <1>1, <1>6, Joined
<1> DEFINE U == [k \in 0 .. n + m |-> IF k <= n THEN T[k] ELSE D[n + m - k]]
<1>8. U \in [0 .. n + m -> Seq(Sort)]
  BY <1>3, <1>4
<1>9. U[0] = <<"stmt">> /\ U[n + m] = P
  <2>1. CASE m = 0
    BY <1>3, <1>4, <2>1
  <2>2. CASE m # 0
    BY <1>3, <1>4, <2>2
  <2> QED
    BY <2>1, <2>2
<1>10. \A k \in 0 .. n + m : U[k] = IF k <= n THEN T[k] ELSE D[n + m - k]
  OBVIOUS
<1> HIDE DEF U
<1>11. ASSUME NEW k \in 1 .. n + m
       PROVE  Step(A, (f \o g)[k], U[k], U[k - 1])
  <2>1. CASE k <= n
    <3>1. k \in 1 .. n /\ U[k] = T[k] /\ U[k - 1] = T[k - 1]
      BY <1>10, <2>1
    <3>2. (f \o g)[k] = f[k] /\ Step(A, f[k], T[k], T[k - 1])
      BY <1>3, <1>7, <3>1
    <3> QED
      BY <3>1, <3>2
  <2>2. CASE k > n
    <3>1. PICK i \in 1 .. m : k = n + i
      BY <2>2
    <3>2. PICK j \in 1 .. m : j = m - i + 1
      BY <3>1
    <3>3. (f \o g)[k] = gs[j]
      BY <1>6, <1>7, <3>1, <3>2
    <3>4. U[k] = D[j - 1]
      BY <1>10, <2>2, <3>1, <3>2
    <3>5. U[k - 1] = D[j]
      <4>1. CASE i = 1
        BY <1>10, <1>3, <1>4, <3>1, <3>2, <4>1
      <4>2. CASE i # 1
        BY <1>10, <3>1, <3>2, <4>2
      <4> QED
        BY <4>1, <4>2
    <3> QED
      BY <1>4, <3>3, <3>4, <3>5, Zenon
  <2>3. k <= n \/ k > n
    OBVIOUS
  <2> QED
    BY <2>1, <2>2, <2>3, Zenon
<1>12. Typed(A, f \o g, P)
  BY <1>7, <1>8, <1>9, <1>11, Zenon DEF Typed
<1> QED
  BY <1>12, Zenon DEF g

-----------------------------------------------------------------------------
(* Bodies.                                                                 *)

LEMMA Runs0 ==
    ASSUME NEW A \in SUBSET AnyGoal, NEW P \in Seq(Sort)
    PROVE  Runs(A, << >>, P, P)
<1> DEFINE D == [j \in 0 .. 0 |-> P]
<1>1. D \in [0 .. 0 -> Seq(Sort)] /\ D[0] = P
  OBVIOUS
<1>2. << >> \in Seq(AnyGoal) /\ Len(<< >>) = 0 /\ \A j \in 1 .. 0 : FALSE
  OBVIOUS
<1> HIDE DEF D
<1> QED
  BY <1>1, <1>2 DEF Runs

LEMMA Runs1 ==
    ASSUME NEW A \in SUBSET AnyGoal, NEW a,
           NEW P0 \in Seq(Sort), NEW P1 \in Seq(Sort),
           Step(A, a, P0, P1)
    PROVE  Runs(A, <<a>>, P0, P1)
<1> DEFINE D == [j \in 0 .. 1 |-> <<P0, P1>>[j + 1]]
<1>1. D \in [0 .. 1 -> Seq(Sort)]
  OBVIOUS
<1>2. /\ D[0] = P0 /\ D[1] = P1
  OBVIOUS
<1> HIDE DEF D
<1>3. \A j \in 1 .. 1 : Step(A, <<a>>[j], D[j - 1], D[j])
  <2> SUFFICES ASSUME NEW j \in 1 .. 1
               PROVE  Step(A, <<a>>[j], D[j - 1], D[j])
    OBVIOUS
  <2>1. CASE j = 1
    BY <1>2, <2>1
  <2> QED
    BY <2>1
<1>4. <<a>> \in Seq(AnyGoal) /\ Len(<<a>>) = 1
  BY DEF Step
<1> QED
  BY <1>1, <1>2, <1>3, <1>4 DEF Runs

LEMMA Runs2 ==
    ASSUME NEW A \in SUBSET AnyGoal, NEW a, NEW b,
           NEW P0 \in Seq(Sort), NEW P1 \in Seq(Sort), NEW P2 \in Seq(Sort),
           Step(A, a, P0, P1), Step(A, b, P1, P2)
    PROVE  Runs(A, <<a, b>>, P0, P2)
<1> DEFINE D == [j \in 0 .. 2 |-> <<P0, P1, P2>>[j + 1]]
<1>1. D \in [0 .. 2 -> Seq(Sort)]
  OBVIOUS
<1>2. /\ D[0] = P0 /\ D[1] = P1 /\ D[2] = P2
  OBVIOUS
<1> HIDE DEF D
<1>3. \A j \in 1 .. 2 : Step(A, <<a, b>>[j], D[j - 1], D[j])
  <2> SUFFICES ASSUME NEW j \in 1 .. 2
               PROVE  Step(A, <<a, b>>[j], D[j - 1], D[j])
    OBVIOUS
  <2>1. CASE j = 1
    BY <1>2, <2>1
  <2>2. CASE j = 2
    BY <1>2, <2>2
  <2> QED
    BY <2>1, <2>2
<1>4. <<a, b>> \in Seq(AnyGoal) /\ Len(<<a, b>>) = 2
  BY DEF Step
<1> QED
  BY <1>1, <1>2, <1>3, <1>4 DEF Runs

LEMMA Runs3 ==
    ASSUME NEW A \in SUBSET AnyGoal, NEW a, NEW b, NEW c,
           NEW P0 \in Seq(Sort), NEW P1 \in Seq(Sort), NEW P2 \in Seq(Sort),
           NEW P3 \in Seq(Sort),
           Step(A, a, P0, P1), Step(A, b, P1, P2), Step(A, c, P2, P3)
    PROVE  Runs(A, <<a, b, c>>, P0, P3)
<1> DEFINE D == [j \in 0 .. 3 |-> <<P0, P1, P2, P3>>[j + 1]]
<1>1. D \in [0 .. 3 -> Seq(Sort)]
  OBVIOUS
<1>2. /\ D[0] = P0 /\ D[1] = P1 /\ D[2] = P2 /\ D[3] = P3
  OBVIOUS
<1> HIDE DEF D
<1>3. \A j \in 1 .. 3 : Step(A, <<a, b, c>>[j], D[j - 1], D[j])
  <2> SUFFICES ASSUME NEW j \in 1 .. 3
               PROVE  Step(A, <<a, b, c>>[j], D[j - 1], D[j])
    OBVIOUS
  <2>1. CASE j = 1
    BY <1>2, <2>1
  <2>2. CASE j = 2
    BY <1>2, <2>2
  <2>3. CASE j = 3
    BY <1>2, <2>3
  <2> QED
    BY <2>1, <2>2, <2>3
<1>4. <<a, b, c>> \in Seq(AnyGoal) /\ Len(<<a, b, c>>) = 3
  BY DEF Step
<1> QED
  BY <1>1, <1>2, <1>3, <1>4 DEF Runs

LEMMA Runs4 ==
    ASSUME NEW A \in SUBSET AnyGoal, NEW a, NEW b, NEW c, NEW d,
           NEW P0 \in Seq(Sort), NEW P1 \in Seq(Sort), NEW P2 \in Seq(Sort),
           NEW P3 \in Seq(Sort), NEW P4 \in Seq(Sort),
           Step(A, a, P0, P1), Step(A, b, P1, P2), Step(A, c, P2, P3), Step(A, d, P3, P4)
    PROVE  Runs(A, <<a, b, c, d>>, P0, P4)
<1> DEFINE D == [j \in 0 .. 4 |-> <<P0, P1, P2, P3, P4>>[j + 1]]
<1>1. D \in [0 .. 4 -> Seq(Sort)]
  OBVIOUS
<1>2. /\ D[0] = P0 /\ D[1] = P1 /\ D[2] = P2 /\ D[3] = P3 /\ D[4] = P4
  OBVIOUS
<1> HIDE DEF D
<1>3. \A j \in 1 .. 4 : Step(A, <<a, b, c, d>>[j], D[j - 1], D[j])
  <2> SUFFICES ASSUME NEW j \in 1 .. 4
               PROVE  Step(A, <<a, b, c, d>>[j], D[j - 1], D[j])
    OBVIOUS
  <2>1. CASE j = 1
    BY <1>2, <2>1
  <2>2. CASE j = 2
    BY <1>2, <2>2
  <2>3. CASE j = 3
    BY <1>2, <2>3
  <2>4. CASE j = 4
    BY <1>2, <2>4
  <2> QED
    BY <2>1, <2>2, <2>3, <2>4
<1>4. <<a, b, c, d>> \in Seq(AnyGoal) /\ Len(<<a, b, c, d>>) = 4
  BY DEF Step
<1> QED
  BY <1>1, <1>2, <1>3, <1>4 DEF Runs

LEMMA Runs5 ==
    ASSUME NEW A \in SUBSET AnyGoal, NEW a, NEW b, NEW c, NEW d, NEW e,
           NEW P0 \in Seq(Sort), NEW P1 \in Seq(Sort), NEW P2 \in Seq(Sort),
           NEW P3 \in Seq(Sort), NEW P4 \in Seq(Sort), NEW P5 \in Seq(Sort),
           Step(A, a, P0, P1), Step(A, b, P1, P2), Step(A, c, P2, P3), Step(A, d, P3, P4),
           Step(A, e, P4, P5)
    PROVE  Runs(A, <<a, b, c, d, e>>, P0, P5)
<1> DEFINE D == [j \in 0 .. 5 |-> <<P0, P1, P2, P3, P4, P5>>[j + 1]]
<1>1. D \in [0 .. 5 -> Seq(Sort)]
  OBVIOUS
<1>2. /\ D[0] = P0 /\ D[1] = P1 /\ D[2] = P2 /\ D[3] = P3 /\ D[4] = P4
      /\ D[5] = P5
  OBVIOUS
<1> HIDE DEF D
<1>3. \A j \in 1 .. 5 : Step(A, <<a, b, c, d, e>>[j], D[j - 1], D[j])
  <2> SUFFICES ASSUME NEW j \in 1 .. 5
               PROVE  Step(A, <<a, b, c, d, e>>[j], D[j - 1], D[j])
    OBVIOUS
  <2>1. CASE j = 1
    BY <1>2, <2>1
  <2>2. CASE j = 2
    BY <1>2, <2>2
  <2>3. CASE j = 3
    BY <1>2, <2>3
  <2>4. CASE j = 4
    BY <1>2, <2>4
  <2>5. CASE j = 5
    BY <1>2, <2>5
  <2> QED
    BY <2>1, <2>2, <2>3, <2>4, <2>5
<1>4. <<a, b, c, d, e>> \in Seq(AnyGoal) /\ Len(<<a, b, c, d, e>>) = 5
  BY DEF Step
<1> QED
  BY <1>1, <1>2, <1>3, <1>4 DEF Runs

LEMMA Runs7 ==
    ASSUME NEW A \in SUBSET AnyGoal, NEW a, NEW b, NEW c, NEW d, NEW e, NEW f, NEW g,
           NEW P0 \in Seq(Sort), NEW P1 \in Seq(Sort), NEW P2 \in Seq(Sort),
           NEW P3 \in Seq(Sort), NEW P4 \in Seq(Sort), NEW P5 \in Seq(Sort),
           NEW P6 \in Seq(Sort), NEW P7 \in Seq(Sort),
           Step(A, a, P0, P1), Step(A, b, P1, P2), Step(A, c, P2, P3), Step(A, d, P3, P4),
           Step(A, e, P4, P5), Step(A, f, P5, P6), Step(A, g, P6, P7)
    PROVE  Runs(A, <<a, b, c, d, e, f, g>>, P0, P7)
<1> DEFINE D == [j \in 0 .. 7 |-> <<P0, P1, P2, P3, P4, P5, P6, P7>>[j + 1]]
<1>1. D \in [0 .. 7 -> Seq(Sort)]
  OBVIOUS
<1>2. /\ D[0] = P0 /\ D[1] = P1 /\ D[2] = P2 /\ D[3] = P3 /\ D[4] = P4
      /\ D[5] = P5 /\ D[6] = P6 /\ D[7] = P7
  OBVIOUS
<1> HIDE DEF D
<1>3. \A j \in 1 .. 7 : Step(A, <<a, b, c, d, e, f, g>>[j], D[j - 1], D[j])
  <2> SUFFICES ASSUME NEW j \in 1 .. 7
               PROVE  Step(A, <<a, b, c, d, e, f, g>>[j], D[j - 1], D[j])
    OBVIOUS
  <2>1. CASE j = 1
    BY <1>2, <2>1
  <2>2. CASE j = 2
    BY <1>2, <2>2
  <2>3. CASE j = 3
    BY <1>2, <2>3
  <2>4. CASE j = 4
    BY <1>2, <2>4
  <2>5. CASE j = 5
    BY <1>2, <2>5
  <2>6. CASE j = 6
    BY <1>2, <2>6
  <2>7. CASE j = 7
    BY <1>2, <2>7
  <2> QED
    BY <2>1, <2>2, <2>3, <2>4, <2>5, <2>6, <2>7
<1>4. <<a, b, c, d, e, f, g>> \in Seq(AnyGoal) /\ Len(<<a, b, c, d, e, f, g>>) = 7
  BY DEF Step
<1> QED
  BY <1>1, <1>2, <1>3, <1>4 DEF Runs

LEMMA Runs8 ==
    ASSUME NEW A \in SUBSET AnyGoal, NEW a, NEW b, NEW c, NEW d, NEW e, NEW f, NEW g, NEW h,
           NEW P0 \in Seq(Sort), NEW P1 \in Seq(Sort), NEW P2 \in Seq(Sort),
           NEW P3 \in Seq(Sort), NEW P4 \in Seq(Sort), NEW P5 \in Seq(Sort),
           NEW P6 \in Seq(Sort), NEW P7 \in Seq(Sort), NEW P8 \in Seq(Sort),
           Step(A, a, P0, P1), Step(A, b, P1, P2), Step(A, c, P2, P3), Step(A, d, P3, P4),
           Step(A, e, P4, P5), Step(A, f, P5, P6), Step(A, g, P6, P7), Step(A, h, P7, P8)
    PROVE  Runs(A, <<a, b, c, d, e, f, g, h>>, P0, P8)
<1> DEFINE D == [j \in 0 .. 8 |-> <<P0, P1, P2, P3, P4, P5, P6, P7, P8>>[j + 1]]
<1>1. D \in [0 .. 8 -> Seq(Sort)]
  OBVIOUS
<1>2. /\ D[0] = P0 /\ D[1] = P1 /\ D[2] = P2 /\ D[3] = P3 /\ D[4] = P4
      /\ D[5] = P5 /\ D[6] = P6 /\ D[7] = P7 /\ D[8] = P8
  OBVIOUS
<1> HIDE DEF D
<1>3. \A j \in 1 .. 8 : Step(A, <<a, b, c, d, e, f, g, h>>[j], D[j - 1], D[j])
  <2> SUFFICES ASSUME NEW j \in 1 .. 8
               PROVE  Step(A, <<a, b, c, d, e, f, g, h>>[j], D[j - 1], D[j])
    OBVIOUS
  <2>1. CASE j = 1
    BY <1>2, <2>1, SMTT(30)
  <2>2. CASE j = 2
    BY <1>2, <2>2, SMTT(30)
  <2>3. CASE j = 3
    BY <1>2, <2>3, SMTT(30)
  <2>4. CASE j = 4
    BY <1>2, <2>4, SMTT(30)
  <2>5. CASE j = 5
    BY <1>2, <2>5, SMTT(30)
  <2>6. CASE j = 6
    BY <1>2, <2>6, SMTT(30)
  <2>7. CASE j = 7
    BY <1>2, <2>7, SMTT(30)
  <2>8. CASE j = 8
    BY <1>2, <2>8, SMTT(30)
  <2> QED
    BY <2>1, <2>2, <2>3, <2>4, <2>5, <2>6, <2>7, <2>8
<1>4. <<a, b, c, d, e, f, g, h>> \in Seq(AnyGoal) /\ Len(<<a, b, c, d, e, f, g, h>>) = 8
  BY DEF Step
<1> QED
  BY <1>1, <1>2, <1>3, <1>4 DEF Runs

LEMMA RunsJoin ==
    ASSUME NEW A \in SUBSET AnyGoal, NEW a, NEW b, NEW P, NEW Q, NEW R,
           Runs(A, a, P, Q), Runs(A, b, Q, R)
    PROVE  Runs(A, a \o b, P, R)
<1>1. PICK n \in Nat : a \in Seq(AnyGoal) /\ Len(a) = n
  BY LenProperties DEF Runs
<1>2. PICK m \in Nat : b \in Seq(AnyGoal) /\ Len(b) = m
  BY LenProperties DEF Runs
<1>3. PICK D \in [0 .. n -> Seq(Sort)] :
          /\ D[0] = P /\ D[n] = Q
          /\ \A j \in 1 .. n : Step(A, a[j], D[j - 1], D[j])
  BY <1>1, Zenon DEF Runs
<1>4. PICK E \in [0 .. m -> Seq(Sort)] :
          /\ E[0] = Q /\ E[m] = R
          /\ \A j \in 1 .. m : Step(A, b[j], E[j - 1], E[j])
  BY <1>2, Zenon DEF Runs
<1>5. /\ a \o b \in Seq(AnyGoal) /\ Len(a \o b) = n + m
      /\ \A i \in 1 .. n : (a \o b)[i] = a[i]
      /\ \A i \in 1 .. m : (a \o b)[n + i] = b[i]
  BY <1>1, <1>2, Joined
<1> DEFINE U == [k \in 0 .. n + m |-> IF k <= n THEN D[k] ELSE E[k - n]]
<1>6. U \in [0 .. n + m -> Seq(Sort)]
  BY <1>3, <1>4
<1>7. \A k \in 0 .. n + m : U[k] = IF k <= n THEN D[k] ELSE E[k - n]
  OBVIOUS
<1> HIDE DEF U
<1>8. U[0] = P /\ U[n + m] = R
  <2>1. CASE m = 0
    BY <1>3, <1>4, <1>7, <2>1
  <2>2. CASE m # 0
    BY <1>3, <1>4, <1>7, <2>2
  <2> QED
    BY <2>1, <2>2
<1>9. ASSUME NEW k \in 1 .. n + m
      PROVE  Step(A, (a \o b)[k], U[k - 1], U[k])
  <2>1. CASE k <= n
    <3>1. k \in 1 .. n /\ U[k] = D[k] /\ U[k - 1] = D[k - 1]
      BY <1>7, <2>1
    <3>2. (a \o b)[k] = a[k] /\ Step(A, a[k], D[k - 1], D[k])
      BY <1>3, <1>5, <3>1
    <3> QED
      BY <3>1, <3>2
  <2>2. CASE k > n
    <3>1. PICK i \in 1 .. m : k = n + i
      BY <2>2
    <3>2. U[k] = E[i]
      <4>1. k - n = i /\ ~(k <= n) /\ k \in 0 .. n + m
        BY <3>1
      <4> QED
        BY <1>7, <4>1, Zenon
    <3>3. U[k - 1] = E[i - 1]
      <4>1. CASE i = 1
        BY <1>3, <1>4, <1>7, <3>1, <4>1
      <4>2. CASE i # 1
        BY <1>7, <3>1, <4>2
      <4> QED
        BY <4>1, <4>2
    <3>4. (a \o b)[k] = b[i]
      BY <1>5, <3>1
    <3> QED
      BY <1>4, <3>2, <3>3, <3>4, Zenon
  <2>3. k <= n \/ k > n
    OBVIOUS
  <2> QED
    BY <2>1, <2>2, <2>3, Zenon
<1> QED
  BY <1>5, <1>6, <1>8, <1>9, Zenon DEF Runs

-----------------------------------------------------------------------------
(* Goals.                                                                  *)

LEMMA Sorts ==
    ASSUME NEW P \in Seq(Sort), NEW a \in Sort
    PROVE  Append(P, a) \in Seq(Sort) /\ P \o << >> = P /\ P \o <<a>> = Append(P, a)
BY AppendProperties, AppendIsConcat, ConcatEmptySeq

LEMMA Sorts2 ==
    ASSUME NEW P \in Seq(Sort), NEW a \in Sort, NEW b \in Sort
    PROVE  P \o <<a, b>> = Append(Append(P, a), b)
OBVIOUS

LEMMA Sorts3 ==
    ASSUME NEW P \in Seq(Sort), NEW a \in Sort, NEW b \in Sort, NEW c \in Sort
    PROVE  P \o <<a, b, c>> = Append(Append(Append(P, a), b), c)
OBVIOUS

LEMMA Sorts4 ==
    ASSUME NEW P \in Seq(Sort), NEW a \in Sort, NEW b \in Sort, NEW c \in Sort,
           NEW d \in Sort
    PROVE  P \o <<a, b, c, d>> = Append(Append(Append(Append(P, a), b), c), d)
OBVIOUS

LEMMA StepQuiet ==
    ASSUME NEW P \in Seq(Sort), NEW t, t # "IDENTIFIER",
           NEW A, Take(t) \in A
    PROVE  Step(A, Take(t), P, P)
BY DEF Step, Turns, Quiet, Take

LEMMA StepLeave ==
    ASSUME NEW P \in Seq(Sort), NEW c, NEW A, Leave(c) \in A
    PROVE  Step(A, Leave(c), P, P)
BY DEF Step, Turns, Quiet, Leave

LEMMA StepPush ==
    ASSUME NEW P \in Seq(Sort), NEW A, NEW g \in A, NEW s \in Sort, Yields(g, << >>, s)
    PROVE  Step(A, g, P, Append(P, s))
<1>1. << >> \in Seq(Sort)
  OBVIOUS
<1> QED
  BY <1>1, Sorts DEF Step, Turns

LEMMA StepTake1 ==
    ASSUME NEW P \in Seq(Sort), NEW A, NEW g \in A, NEW s \in Sort, NEW a \in Sort,
           Yields(g, <<a>>, s)
    PROVE  Step(A, g, Append(P, a), Append(P, s))
<1>1. <<a>> \in Seq(Sort)
  OBVIOUS
<1> QED
  BY <1>1, Sorts DEF Step, Turns

LEMMA StepTake2 ==
    ASSUME NEW P \in Seq(Sort), NEW A, NEW g \in A, NEW s \in Sort, NEW a \in Sort,
           NEW b \in Sort, Yields(g, <<a, b>>, s)
    PROVE  Step(A, g, Append(Append(P, a), b), Append(P, s))
<1>1. <<a, b>> \in Seq(Sort)
  OBVIOUS
<1> QED
  BY <1>1, Sorts2 DEF Step, Turns

LEMMA StepTake3 ==
    ASSUME NEW P \in Seq(Sort), NEW A, NEW g \in A, NEW s \in Sort, NEW a \in Sort,
           NEW b \in Sort, NEW c \in Sort, Yields(g, <<a, b, c>>, s)
    PROVE  Step(A, g, Append(Append(Append(P, a), b), c), Append(P, s))
<1>1. <<a, b, c>> \in Seq(Sort)
  OBVIOUS
<1>2. PICK t \in Seq(Sort) : t = <<a, b, c>>
  BY <1>1, Zenon
<1>3. P \o t = Append(Append(Append(P, a), b), c)
  BY <1>2, Sorts3
<1>4. Yields(g, t, s)
  BY <1>2
<1> QED
  BY <1>3, <1>4, Zenon DEF Step, Turns

LEMMA StepTake4 ==
    ASSUME NEW P \in Seq(Sort), NEW A, NEW g \in A, NEW s \in Sort, NEW a \in Sort,
           NEW b \in Sort, NEW c \in Sort, NEW d \in Sort, Yields(g, <<a, b, c, d>>, s)
    PROVE  Step(A, g, Append(Append(Append(Append(P, a), b), c), d), Append(P, s))
<1>1. <<a, b, c, d>> \in Seq(Sort)
  OBVIOUS
<1>2. PICK t \in Seq(Sort) : t = <<a, b, c, d>>
  BY <1>1, Zenon
<1>3. P \o t = Append(Append(Append(Append(P, a), b), c), d)
  BY <1>2, Sorts4
<1>4. Yields(g, t, s)
  BY <1>2
<1> QED
  BY <1>3, <1>4, Zenon DEF Step, Turns

\* The goals without a place of their own.
Common ==
    {g \in AnyGoal : /\ g.do = "build" => g.arg \in {"LIST", "ITEM", "CASE"}
                     /\ g.do = "parse" => g.arg \notin {"switchBody", "printed"}}

LEMMA CommonGoals ==
    /\ \A t \in TokenType : Take(t) \in Common
    /\ List \in Common /\ Item \in Common /\ Expression \in Common /\ Block \in Common
    /\ Build("CASE", 0) \in Common
    /\ \A r \in Rule \ {"switchBody", "printed"} : Parse(r, 0) \in Common
    /\ \A level \in Level : Repeat(level) \in Common
    /\ \A c \in Counter : Leave(c) \in Common
<1>1. \A t \in TokenType : Take(t) \in Common
  BY TakeGoal DEF Common, AnyGoal, Take
<1>2. \A n \in {"LIST", "ITEM", "CASE"} : Build(n, 0) \in Common
  BY BuildGoal, Names DEF Common, AnyGoal, Build
<1>3. \A r \in Rule \ {"switchBody", "printed"} : Parse(r, 0) \in Common
  BY DEF Common, AnyGoal, PlainGoal, Parse
<1>4. \A level \in Level : Repeat(level) \in Common
  BY DEF Common, AnyGoal, PlainGoal, Repeat
<1>5. \A c \in Counter : Leave(c) \in Common
  BY LeaveGuard DEF Common, Leave
<1>6. {"expression", "requireBlock"} \subseteq Rule \ {"switchBody", "printed"}
  BY DEF Rule
<1> QED
  BY <1>1, <1>2, <1>3, <1>4, <1>5, <1>6 DEF List, Item, Expression, Block

LEMMA RuleNames ==
    /\ {"statement", "requireBlock", "statements", "caseBody", "else", "init", "update",
        "cases", "label", "expression", "logicalNot", "unary", "primary"} \cup Level
       \subseteq Rule \ {"switchBody", "printed"}
    /\ Sort = {"name", "label", "expr", "stmt", "block", "init", "assign", "if", "case",
               "stmts", "cases", "none", "else"}
BY LevelDomain DEF Rule, Sort, NodeSort, ListSort

\* What the goals without a place do.
LEMMA CommonPushes ==
    ASSUME NEW A \in SUBSET AnyGoal, Common \subseteq A, NEW P \in Seq(Sort)
    PROVE  /\ \A s \in Sort : Append(P, s) \in Seq(Sort)
           /\ \A t \in TokenType \ {"IDENTIFIER"} : Step(A, Take(t), P, P)
           /\ \A c \in Counter : Step(A, Leave(c), P, P)
           /\ Step(A, Take("IDENTIFIER"), P, Append(P, "name"))
           /\ Step(A, Block, P, Append(P, "block"))
           /\ Step(A, Parse("statement", 0), P, Append(P, "stmt"))
           /\ Step(A, Parse("init", 0), P, Append(P, "init"))
           /\ Step(A, Parse("update", 0), P, Append(P, "assign"))
           /\ Step(A, Parse("label", 0), P, Append(P, "label"))
           /\ \A r \in {"expression", "logicalNot", "unary", "primary"} \cup Level :
                 Step(A, Parse(r, 0), P, Append(P, "expr"))
           /\ Step(A, Expression, P, Append(P, "expr"))
           /\ \A s \in {"stmts", "cases", "none"} : Step(A, List, P, Append(P, s))
<1>1. \A s \in Sort : Append(P, s) \in Seq(Sort)
  BY Sorts
<1>2. \A t \in TokenType \ {"IDENTIFIER"} : Step(A, Take(t), P, P)
  BY CommonGoals, StepQuiet
<1>3. \A c \in Counter : Step(A, Leave(c), P, P)
  BY CommonGoals, StepLeave
<1>4. Step(A, Take("IDENTIFIER"), P, Append(P, "name"))
  <2>1. Yields(Take("IDENTIFIER"), << >>, "name")
    BY DEF Yields, Take
  <2> QED
    BY <2>1, CommonGoals, StepPush, Names, RuleNames
<1>5. ASSUME NEW r \in Rule \ {"switchBody", "printed"}, NEW s \in Sort,
             RuleYields(r, << >>, s)
      PROVE  Step(A, Parse(r, 0), P, Append(P, s))
  <2>1. Yields(Parse(r, 0), << >>, s)
    BY <1>5 DEF Yields, Parse
  <2> QED
    BY <2>1, CommonGoals, StepPush
<1>6. /\ Step(A, Parse("requireBlock", 0), P, Append(P, "block"))
      /\ Step(A, Parse("statement", 0), P, Append(P, "stmt"))
      /\ Step(A, Parse("init", 0), P, Append(P, "init"))
      /\ Step(A, Parse("update", 0), P, Append(P, "assign"))
      /\ Step(A, Parse("label", 0), P, Append(P, "label"))
  <2>1. /\ RuleYields("requireBlock", << >>, "block")
        /\ RuleYields("statement", << >>, "stmt")
        /\ RuleYields("init", << >>, "init")
        /\ RuleYields("update", << >>, "assign")
        /\ RuleYields("label", << >>, "label")
    BY DEF RuleYields
  <2> QED
    BY <1>5, <2>1, RuleNames
<1>7. \A r \in {"expression", "logicalNot", "unary", "primary"} \cup Level :
          Step(A, Parse(r, 0), P, Append(P, "expr"))
  <2> SUFFICES ASSUME NEW r \in {"expression", "logicalNot", "unary", "primary"} \cup Level
               PROVE  Step(A, Parse(r, 0), P, Append(P, "expr"))
    OBVIOUS
  <2>1. RuleYields(r, << >>, "expr")
    BY DEF RuleYields
  <2> QED
    BY <1>5, <2>1, RuleNames
<1>8. ASSUME NEW s \in {"stmts", "cases", "none"}
      PROVE  Step(A, List, P, Append(P, s))
  <2>1. Yields(List, << >>, s)
    BY DEF Yields, List, Build, NodeYields
  <2> QED
    BY <2>1, CommonGoals, StepPush, RuleNames
<1> QED
  BY <1>1, <1>2, <1>3, <1>4, <1>6, <1>7, <1>8 DEF Block, Expression

LEMMA CommonTakes ==
    ASSUME NEW A \in SUBSET AnyGoal, Common \subseteq A, NEW P \in Seq(Sort)
    PROVE  /\ \A r \in {"statements", "caseBody"} :
                 Step(A, Parse(r, 0), Append(P, "stmts"), Append(P, "stmts"))
           /\ Step(A, Parse("cases", 0), Append(P, "cases"), Append(P, "cases"))
           /\ Step(A, Parse("else", 0), Append(P, "none"), Append(P, "else"))
           /\ \A level \in Level :
                 Step(A, Repeat(level), Append(P, "expr"), Append(P, "expr"))
           /\ Step(A, Item, Append(Append(P, "stmts"), "stmt"), Append(P, "stmts"))
           /\ Step(A, Item, Append(Append(P, "cases"), "case"), Append(P, "cases"))
           /\ \A s \in {"block", "if"} :
                 Step(A, Item, Append(Append(P, "none"), s), Append(P, "else"))
           /\ Step(A, Build("CASE", 0), Append(Append(P, "label"), "stmts"),
                   Append(P, "case"))
<1>1. ASSUME NEW r \in Rule \ {"switchBody", "printed"}, NEW a \in Sort, NEW s \in Sort,
             RuleYields(r, <<a>>, s)
      PROVE  Step(A, Parse(r, 0), Append(P, a), Append(P, s))
  <2>1. Yields(Parse(r, 0), <<a>>, s)
    BY <1>1 DEF Yields, Parse
  <2> QED
    BY <2>1, CommonGoals, StepTake1
<1>2. /\ \A r \in {"statements", "caseBody"} : RuleYields(r, <<"stmts">>, "stmts")
      /\ RuleYields("cases", <<"cases">>, "cases")
      /\ RuleYields("else", <<"none">>, "else")
  BY DEF RuleYields
<1>3. /\ \A r \in {"statements", "caseBody"} :
            Step(A, Parse(r, 0), Append(P, "stmts"), Append(P, "stmts"))
      /\ Step(A, Parse("cases", 0), Append(P, "cases"), Append(P, "cases"))
      /\ Step(A, Parse("else", 0), Append(P, "none"), Append(P, "else"))
  BY <1>1, <1>2, RuleNames
<1>4. ASSUME NEW level \in Level
      PROVE  Step(A, Repeat(level), Append(P, "expr"), Append(P, "expr"))
  <2>1. Yields(Repeat(level), <<"expr">>, "expr")
    BY DEF Yields, Repeat
  <2> QED
    BY <2>1, CommonGoals, StepTake1, RuleNames
<1>5. /\ Yields(Item, <<"stmts", "stmt">>, "stmts")
      /\ Yields(Item, <<"cases", "case">>, "cases")
      /\ \A s \in {"block", "if"} : Yields(Item, <<"none", s>>, "else")
      /\ Yields(Build("CASE", 0), <<"label", "stmts">>, "case")
  BY DEF Yields, Item, Build, NodeYields
<1>6. /\ Step(A, Item, Append(Append(P, "stmts"), "stmt"), Append(P, "stmts"))
      /\ Step(A, Item, Append(Append(P, "cases"), "case"), Append(P, "cases"))
      /\ \A s \in {"block", "if"} :
            Step(A, Item, Append(Append(P, "none"), s), Append(P, "else"))
      /\ Step(A, Build("CASE", 0), Append(Append(P, "label"), "stmts"), Append(P, "case"))
  <2>1. Item \in A /\ Build("CASE", 0) \in A
    BY CommonGoals
  <2>2. {"name", "label", "stmt", "stmts", "cases", "none", "case", "block", "if", "else"}
            \subseteq Sort
    BY RuleNames
  <2>3. Step(A, Item, Append(Append(P, "stmts"), "stmt"), Append(P, "stmts"))
    BY <1>5, <2>1, <2>2, StepTake2
  <2>4. Step(A, Item, Append(Append(P, "cases"), "case"), Append(P, "cases"))
    BY <1>5, <2>1, <2>2, StepTake2
  <2>5. ASSUME NEW s \in {"block", "if"}
        PROVE  Step(A, Item, Append(Append(P, "none"), s), Append(P, "else"))
    <3>1. s \in Sort /\ Yields(Item, <<"none", s>>, "else")
      BY <1>5, <2>2
    <3> QED
      BY <2>1, <2>2, <3>1, StepTake2
  <2>6. Step(A, Build("CASE", 0), Append(Append(P, "label"), "stmts"), Append(P, "case"))
    BY <1>5, <2>1, <2>2, StepTake2
  <2> QED
    BY <2>3, <2>4, <2>5, <2>6
<1> QED
  BY <1>3, <1>4, <1>6

-----------------------------------------------------------------------------
(* The bodies of the functions.                                            *)

LEMMA VarDeclRuns ==
    ASSUME NEW A \in SUBSET AnyGoal, Common \subseteq A, NEW P \in Seq(Sort), NEW l,
           Build("VAR_DECL", l) \in A, NEW s \in {"stmt", "init"}
    PROVE  Runs(A, VarDecl(l), P, Append(P, s))
<1>1. PICK Q \in Seq(Sort) : Q = Append(P, "name")
  BY CommonPushes, RuleNames
<1>2. PICK R \in Seq(Sort) : R = Append(Q, "expr")
  BY CommonPushes, RuleNames
<1>3. PICK Z \in Seq(Sort) : Z = Append(P, s)
  BY CommonPushes, RuleNames
<1>4. Yields(Build("VAR_DECL", l), <<"name", "expr">>, s)
  BY DEF Yields, Build, NodeYields
<1>5. Step(A, Build("VAR_DECL", l), R, Z)
  <2>1. "name" \in Sort /\ "expr" \in Sort /\ s \in Sort
    BY RuleNames
  <2>2. Step(A, Build("VAR_DECL", l), Append(Append(P, "name"), "expr"), Append(P, s))
    BY <1>4, <2>1, StepTake2
  <2> QED
    BY <1>1, <1>2, <1>3, <2>2
<1>6. /\ Step(A, Take("IDENTIFIER"), P, Q)
      /\ Step(A, Take("EQUAL"), Q, Q)
      /\ Step(A, Expression, Q, R)
      /\ Step(A, Take("SEMICOLON"), R, R)
  BY <1>1, <1>2, <1>3, CommonPushes, CommonTakes, Names
<1> QED
  BY <1>1, <1>2, <1>3, <1>5, <1>6, Runs5 DEF VarDecl

LEMMA AssignNoSemiRuns ==
    ASSUME NEW A \in SUBSET AnyGoal, Common \subseteq A, NEW P \in Seq(Sort), NEW l,
           Build("ASSIGN", l) \in A, NEW s \in {"stmt", "init", "assign"}
    PROVE  Runs(A, AssignNoSemi(l), P, Append(P, s))
<1>1. PICK Q \in Seq(Sort) : Q = Append(P, "name")
  BY CommonPushes, RuleNames
<1>2. PICK R \in Seq(Sort) : R = Append(Q, "expr")
  BY CommonPushes, RuleNames
<1>3. PICK Z \in Seq(Sort) : Z = Append(P, s)
  BY CommonPushes, RuleNames
<1>4. Yields(Build("ASSIGN", l), <<"name", "expr">>, s)
  BY DEF Yields, Build, NodeYields
<1>5. Step(A, Build("ASSIGN", l), R, Z)
  <2>1. "name" \in Sort /\ "expr" \in Sort /\ s \in Sort
    BY RuleNames
  <2>2. Step(A, Build("ASSIGN", l), Append(Append(P, "name"), "expr"), Append(P, s))
    BY <1>4, <2>1, StepTake2
  <2> QED
    BY <1>1, <1>2, <1>3, <2>2
<1>6. /\ Step(A, Take("IDENTIFIER"), P, Q)
      /\ Step(A, Take("EQUAL"), Q, Q)
      /\ Step(A, Expression, Q, R)
  BY <1>1, <1>2, <1>3, CommonPushes, CommonTakes, Names
<1> QED
  BY <1>1, <1>2, <1>3, <1>5, <1>6, Runs4 DEF AssignNoSemi

LEMMA AssignRuns ==
    ASSUME NEW A \in SUBSET AnyGoal, Common \subseteq A, NEW P \in Seq(Sort),
           NEW l, Build("ASSIGN", l) \in A, NEW s \in {"stmt", "init", "assign"}
    PROVE  Runs(A, Assign(l), P, Append(P, s))
<1>1. PICK Z \in Seq(Sort) : Z = Append(P, s)
  BY CommonPushes, RuleNames
<1>2. Runs(A, <<Take("SEMICOLON")>>, Z, Z)
  BY CommonPushes, Names, Runs1
<1> QED
  BY <1>1, <1>2, AssignNoSemiRuns, RunsJoin DEF Assign

LEMMA ParensRuns ==
    ASSUME NEW A \in SUBSET AnyGoal, Common \subseteq A, NEW P \in Seq(Sort),
           NEW Q \in Seq(Sort), NEW g, Step(A, g, P, Q)
    PROVE  Runs(A, InParens(g), P, Q)
<1>1. Step(A, Take("LEFT_PAREN"), P, P) /\ Step(A, Take("RIGHT_PAREN"), Q, Q)
  BY CommonPushes, Names
<1> QED
  BY <1>1, Runs3 DEF InParens

LEMMA ConditionRuns ==
    ASSUME NEW A \in SUBSET AnyGoal, Common \subseteq A, NEW P \in Seq(Sort)
    PROVE  Runs(A, InParens(Expression), P, Append(P, "expr"))
BY CommonPushes, ParensRuns, RuleNames

LEMMA IfRuns ==
    ASSUME NEW A \in SUBSET AnyGoal, Common \subseteq A, NEW P \in Seq(Sort), NEW l,
           Build("IF", l) \in A, NEW s \in {"stmt", "if"}
    PROVE  Runs(A, If(l), P, Append(P, s))
<1>1. PICK Q \in Seq(Sort) : Q = Append(P, "expr")
  BY CommonPushes, RuleNames
<1>2. PICK R \in Seq(Sort) : R = Append(Q, "block")
  BY CommonPushes, RuleNames
<1>3. PICK S \in Seq(Sort) : S = Append(R, "none")
  BY CommonPushes, RuleNames
<1>4. PICK V \in Seq(Sort) : V = Append(R, "else")
  BY CommonPushes, RuleNames
<1>5. PICK Z \in Seq(Sort) : Z = Append(P, s)
  BY CommonPushes, RuleNames
<1>6. Yields(Build("IF", l), <<"expr", "block", "else">>, s)
  BY DEF Yields, Build, NodeYields
<1>7. Step(A, Build("IF", l), V, Z)
  <2>1. {"expr", "block", "else", s} \subseteq Sort
    BY RuleNames
  <2>2. Step(A, Build("IF", l), Append(Append(Append(P, "expr"), "block"), "else"),
             Append(P, s))
    BY <1>6, <2>1, StepTake3
  <2> QED
    BY <1>1, <1>2, <1>4, <1>5, <2>2, Zenon
<1>8. /\ Step(A, Block, Q, R)
      /\ Step(A, List, R, S)
      /\ Step(A, Parse("else", 0), S, V)
  BY <1>1, <1>2, <1>3, <1>4, <1>5, CommonPushes, CommonTakes, Names
<1>9. Runs(A, <<Block, List, Parse("else", 0), Build("IF", l)>>, Q, Z)
  BY <1>1, <1>2, <1>3, <1>4, <1>5, <1>7, <1>8, Runs4
<1>10. Runs(A, InParens(Expression), P, Q)
  BY <1>1, ConditionRuns
<1> QED
  BY <1>5, <1>9, <1>10, RunsJoin DEF If

LEMMA WhileRuns ==
    ASSUME NEW A \in SUBSET AnyGoal, Common \subseteq A, NEW P \in Seq(Sort), NEW l,
           Build("WHILE", l) \in A
    PROVE  Runs(A, While(l), P, Append(P, "stmt"))
<1>1. PICK Q \in Seq(Sort) : Q = Append(P, "expr")
  BY CommonPushes, RuleNames
<1>2. PICK R \in Seq(Sort) : R = Append(Q, "block")
  BY CommonPushes, RuleNames
<1>3. PICK Z \in Seq(Sort) : Z = Append(P, "stmt")
  BY CommonPushes, RuleNames
<1>4. Yields(Build("WHILE", l), <<"expr", "block">>, "stmt")
  BY DEF Yields, Build, NodeYields
<1>5. Step(A, Build("WHILE", l), R, Z)
  BY <1>1, <1>2, <1>3, <1>4, StepTake2, RuleNames
<1>6. Step(A, Block, Q, R)
  BY <1>1, <1>2, <1>3, CommonPushes, CommonTakes, Names
<1>7. Runs(A, <<Block, Build("WHILE", l)>>, Q, Z)
  BY <1>1, <1>2, <1>3, <1>5, <1>6, Runs2
<1>8. Runs(A, InParens(Expression), P, Q)
  BY <1>1, ConditionRuns
<1> QED
  BY <1>3, <1>7, <1>8, RunsJoin DEF While

LEMMA DoWhileRuns ==
    ASSUME NEW A \in SUBSET AnyGoal, Common \subseteq A, NEW P \in Seq(Sort),
           NEW l, Build("DO_WHILE", l) \in A
    PROVE  Runs(A, DoWhile(l), P, Append(P, "stmt"))
<1>1. PICK Q \in Seq(Sort) : Q = Append(P, "block")
  BY CommonPushes, RuleNames
<1>2. PICK R \in Seq(Sort) : R = Append(Q, "expr")
  BY CommonPushes, RuleNames
<1>3. PICK Z \in Seq(Sort) : Z = Append(P, "stmt")
  BY CommonPushes, RuleNames
<1>4. Yields(Build("DO_WHILE", l), <<"block", "expr">>, "stmt")
  BY SMTT(30) DEF Yields, Build, NodeYields
<1>5. Step(A, Build("DO_WHILE", l), R, Z)
  BY <1>1, <1>2, <1>3, <1>4, StepTake2, RuleNames, Zenon
<1>6. /\ Step(A, Block, P, Q) /\ Step(A, Take("HABANG"), Q, Q)
      /\ Step(A, Take("SEMICOLON"), R, R)
  BY <1>1, CommonPushes, Names
<1>7. Runs(A, <<Block, Take("HABANG")>>, P, Q)
  BY <1>6, Runs2
<1>8. Runs(A, InParens(Expression), Q, R)
  BY <1>2, ConditionRuns
<1>9. Runs(A, <<Take("SEMICOLON"), Build("DO_WHILE", l)>>, R, Z)
  BY <1>5, <1>6, Runs2
<1>10. Runs(A, <<Block, Take("HABANG")>> \o InParens(Expression), P, R)
  BY <1>7, <1>8, RunsJoin
<1> QED
  BY <1>3, <1>9, <1>10, RunsJoin DEF DoWhile

LEMMA ForRuns ==
    ASSUME NEW A \in SUBSET AnyGoal, Common \subseteq A, NEW P \in Seq(Sort), NEW l,
           Build("FOR", l) \in A
    PROVE  Runs(A, For(l), P, Append(P, "stmt"))
<1>1. PICK Q \in Seq(Sort) : Q = Append(P, "init")
  BY CommonPushes, RuleNames
<1>2. PICK R \in Seq(Sort) : R = Append(Q, "expr")
  BY CommonPushes, RuleNames
<1>3. PICK S \in Seq(Sort) : S = Append(R, "assign")
  BY CommonPushes, RuleNames
<1>4. PICK V \in Seq(Sort) : V = Append(S, "block")
  BY CommonPushes, RuleNames
<1>5. PICK Z \in Seq(Sort) : Z = Append(P, "stmt")
  BY CommonPushes, RuleNames
<1>6. Yields(Build("FOR", l), <<"init", "expr", "assign", "block">>, "stmt")
  BY DEF Yields, Build, NodeYields
<1>7. Step(A, Build("FOR", l), V, Z)
  <2>1. {"init", "expr", "assign", "block", "stmt"} \subseteq Sort
    BY RuleNames
  <2>2. Step(A, Build("FOR", l),
             Append(Append(Append(Append(P, "init"), "expr"), "assign"), "block"),
             Append(P, "stmt"))
    BY <1>6, <2>1, StepTake4
  <2> QED
    BY <1>1, <1>2, <1>3, <1>4, <1>5, <2>2, Zenon
<1>8. /\ Step(A, Take("LEFT_PAREN"), P, P)
      /\ Step(A, Parse("init", 0), P, Q)
      /\ Step(A, Expression, Q, R)
      /\ Step(A, Take("SEMICOLON"), R, R)
      /\ Step(A, Parse("update", 0), R, S)
      /\ Step(A, Take("RIGHT_PAREN"), S, S)
      /\ Step(A, Block, S, V)
  BY <1>1, <1>2, <1>3, <1>4, <1>5, CommonPushes, CommonTakes, Names
<1> QED
  BY <1>1, <1>2, <1>3, <1>4, <1>5, <1>7, <1>8, Runs8 DEF For

LEMMA SwitchRuns ==
    ASSUME NEW A \in SUBSET AnyGoal, Common \subseteq A, NEW P \in Seq(Sort),
           NEW l, Parse("switchBody", l) \in A
    PROVE  Runs(A, Switch(l), P, Append(P, "stmt"))
<1>1. PICK Q \in Seq(Sort) : Q = Append(P, "expr")
  BY CommonPushes, RuleNames
<1>2. PICK Z \in Seq(Sort) : Z = Append(P, "stmt")
  BY CommonPushes, RuleNames
<1>3. Yields(Parse("switchBody", l), <<"expr">>, "stmt")
  BY DEF Yields, Parse, RuleYields
<1>4. Step(A, Parse("switchBody", l), Q, Z)
  BY <1>1, <1>2, <1>3, StepTake1, RuleNames
<1>5. Runs(A, InParens(Expression), P, Q)
  BY <1>1, ConditionRuns
<1>6. Runs(A, <<Parse("switchBody", l)>>, Q, Z)
  BY <1>4, Runs1
<1> QED
  BY <1>2, <1>5, <1>6, RunsJoin DEF Switch

LEMMA JumpRuns ==
    ASSUME NEW A \in SUBSET AnyGoal, Common \subseteq A, NEW P \in Seq(Sort), NEW l,
           NEW node \in {"BREAK", "CONTINUE"}, Build(node, l) \in A
    PROVE  Runs(A, Jump(node, l), P, Append(P, "stmt"))
<1>1. PICK Z \in Seq(Sort) : Z = Append(P, "stmt")
  BY CommonPushes, RuleNames
<1>2. Yields(Build(node, l), << >>, "stmt")
  BY DEF Yields, Build, NodeYields
<1>3. Step(A, Build(node, l), P, Z)
  BY <1>1, <1>2, StepPush, RuleNames
<1>4. Step(A, Take("SEMICOLON"), P, P)
  BY <1>1, CommonPushes, CommonTakes, Names
<1> QED
  BY <1>1, <1>3, <1>4, Runs2 DEF Jump

LEMMA PrintingRuns ==
    ASSUME NEW A \in SUBSET AnyGoal, Common \subseteq A, NEW P \in Seq(Sort),
           NEW l, Parse("printed", l) \in A
    PROVE  Runs(A, Printing(l), P, Append(P, "stmt"))
<1>1. PICK Z \in Seq(Sort) : Z = Append(P, "stmt")
  BY CommonPushes, RuleNames
<1>2. Yields(Parse("printed", l), << >>, "stmt")
  BY DEF Yields, Parse, RuleYields
<1>3. Step(A, Parse("printed", l), P, Z)
  BY <1>1, <1>2, StepPush, RuleNames
<1>4. Runs(A, InParens(Parse("printed", l)), P, Z)
  BY <1>3, ParensRuns
<1>5. Runs(A, <<Take("SEMICOLON")>>, Z, Z)
  BY CommonPushes, Names, Runs1
<1> QED
  BY <1>1, <1>4, <1>5, RunsJoin DEF Printing

LEMMA ReadingRuns ==
    ASSUME NEW A \in SUBSET AnyGoal, Common \subseteq A, NEW P \in Seq(Sort),
           NEW l, Build("READ_INTO", l) \in A
    PROVE  Runs(A, Reading(l), P, Append(P, "stmt"))
<1>1. PICK Q \in Seq(Sort) : Q = Append(P, "name")
  BY CommonPushes, RuleNames
<1>2. PICK Z \in Seq(Sort) : Z = Append(P, "stmt")
  BY CommonPushes, RuleNames
<1>3. Yields(Build("READ_INTO", l), <<"name">>, "stmt")
  BY DEF Yields, Build, NodeYields
<1>4. Step(A, Build("READ_INTO", l), Q, Z)
  BY <1>1, <1>2, <1>3, StepTake1, RuleNames
<1>5. Step(A, Take("IDENTIFIER"), P, Q) /\ Step(A, Take("SEMICOLON"), Q, Q)
  BY <1>1, CommonPushes, Names
<1>6. Runs(A, InParens(Take("IDENTIFIER")), P, Q)
  BY <1>5, ParensRuns
<1>7. Runs(A, <<Take("SEMICOLON"), Build("READ_INTO", l)>>, Q, Z)
  BY <1>4, <1>5, Runs2
<1> QED
  BY <1>2, <1>6, <1>7, RunsJoin DEF Reading

\* What a function holds a guard for runs under it.
LEMMA LeaveRuns ==
    ASSUME NEW A \in SUBSET AnyGoal, Common \subseteq A, NEW P \in Seq(Sort),
           NEW Q \in Seq(Sort), NEW gs, Runs(A, gs, P, Q), NEW c \in Counter
    PROVE  Runs(A, gs \o <<Leave(c)>>, P, Q)
BY CommonPushes, Runs1, RunsJoin

LEMMA SentenceRuns ==
    ASSUME NEW A \in SUBSET AnyGoal, Common \subseteq A, NEW P \in Seq(Sort), NEW l,
           NEW t \in StatementStarts,
           t = "ITAKDA" => Build("VAR_DECL", l) \in A,
           t = "KUNG" => Build("IF", l) \in A,
           t = "HABANG" => Build("WHILE", l) \in A,
           t = "GAWIN" => Build("DO_WHILE", l) \in A,
           t = "PARA" => Build("FOR", l) \in A,
           t = "PILI" => Parse("switchBody", l) \in A,
           t = "TIGIL" => Build("BREAK", l) \in A,
           t = "SUNOD" => Build("CONTINUE", l) \in A,
           t \in {"BASAHIN", "KUNIN"} => Build("READ_INTO", l) \in A,
           t \in {"ISULAT", "IPAKITA"} => Parse("printed", l) \in A
    PROVE  Runs(A, Sentence(t, l), P, Append(P, "stmt"))
<1>1. CASE t = "ITAKDA"
  BY <1>1, VarDeclRuns, SentenceIs
<1>2. CASE t = "KUNG"
  BY <1>2, IfRuns, SentenceIs
<1>3. CASE t = "HABANG"
  BY <1>3, WhileRuns, SentenceIs
<1>4. CASE t = "GAWIN"
  BY <1>4, DoWhileRuns, SentenceIs
<1>5. CASE t = "PARA"
  BY <1>5, ForRuns, SentenceIs
<1>6. CASE t = "PILI"
  BY <1>6, SwitchRuns, SentenceIs
<1>7. CASE t = "TIGIL" \/ t = "SUNOD"
  BY <1>7, JumpRuns, SentenceIs
<1>8. CASE t = "BASAHIN" \/ t = "KUNIN"
  BY <1>8, ReadingRuns, SentenceIs
<1>9. CASE t = "ISULAT" \/ t = "IPAKITA"
  BY <1>9, PrintingRuns, SentenceIs
<1> QED
  BY <1>1, <1>2, <1>3, <1>4, <1>5, <1>6, <1>7, <1>8, <1>9 DEF StatementStarts

LEMMA BlockRuns ==
    ASSUME NEW A \in SUBSET AnyGoal, Common \subseteq A, NEW P \in Seq(Sort),
           Build("BLOCK", current) \in A, NEW s \in {"stmt", "block"}
    PROVE  Runs(A, Statements \o <<Leave("nesting")>>, P, Append(P, s))
<1>1. PICK Q \in Seq(Sort) : Q = Append(P, "stmts")
  BY CommonPushes, RuleNames
<1>2. PICK Z \in Seq(Sort) : Z = Append(P, s)
  BY CommonPushes, RuleNames
<1>3. Yields(Build("BLOCK", current), <<"stmts">>, s)
  BY DEF Yields, Build, NodeYields
<1>4. Step(A, Build("BLOCK", current), Q, Z)
  BY <1>1, <1>2, <1>3, StepTake1, RuleNames
<1>5. /\ Step(A, Take("LEFT_BRACE"), P, P)
      /\ Step(A, List, P, Q)
      /\ Step(A, Parse("statements", 0), Q, Q)
      /\ Step(A, Take("RIGHT_BRACE"), Q, Q)
  BY <1>1, CommonPushes, CommonTakes, Names
<1>6. Runs(A, Statements, P, Z)
  BY <1>4, <1>5, Runs5 DEF Statements
<1> QED
  BY <1>2, <1>6, LeaveRuns DEF Counter

LEMMA StatementsRuns ==
    ASSUME NEW A \in SUBSET AnyGoal, Common \subseteq A, NEW P \in Seq(Sort),
           NEW Q \in Seq(Sort), Q = Append(P, "stmts"), NEW g, Step(A, g, Q, Q)
    PROVE  Runs(A, <<Parse("statement", 0), Item, g>>, Q, Q)
<1>1. PICK R \in Seq(Sort) : R = Append(Q, "stmt")
  BY CommonPushes, RuleNames
<1>2. Step(A, Parse("statement", 0), Q, R) /\ Step(A, Item, R, Q)
  BY <1>1, CommonPushes, CommonTakes
<1> QED
  BY <1>2, Runs3

LEMMA ElseIfRuns ==
    ASSUME NEW A \in SUBSET AnyGoal, Common \subseteq A, NEW P \in Seq(Sort), NEW l,
           Build("IF", l) \in A
    PROVE  Runs(A, (If(l) \o <<Item>>) \o <<Leave("elseChain")>>, Append(P, "none"),
                Append(P, "else"))
<1>1. PICK Q \in Seq(Sort) : Q = Append(P, "none")
  BY CommonPushes, RuleNames
<1>2. PICK R \in Seq(Sort) : R = Append(Q, "if")
  BY CommonPushes, RuleNames
<1>3. PICK Z \in Seq(Sort) : Z = Append(P, "else")
  BY CommonPushes, RuleNames
<1>4. Runs(A, If(l), Q, R)
  BY <1>2, IfRuns
<1>5. Runs(A, <<Item>>, R, Z)
  BY <1>1, <1>2, <1>3, CommonTakes, Runs1
<1>6. Runs(A, If(l) \o <<Item>>, Q, Z)
  BY <1>4, <1>5, RunsJoin
<1> QED
  BY <1>1, <1>3, <1>6, LeaveRuns DEF Counter

LEMMA ElseRuns ==
    ASSUME NEW A \in SUBSET AnyGoal, Common \subseteq A, NEW P \in Seq(Sort)
    PROVE  Runs(A, <<Block, Item>>, Append(P, "none"), Append(P, "else"))
<1>1. PICK Q \in Seq(Sort) : Q = Append(P, "none")
  BY CommonPushes, RuleNames
<1>2. PICK R \in Seq(Sort) : R = Append(Q, "block")
  BY CommonPushes, RuleNames
<1>3. PICK Z \in Seq(Sort) : Z = Append(P, "else")
  BY CommonPushes, RuleNames
<1>4. Step(A, Block, Q, R) /\ Step(A, Item, R, Z)
  BY <1>1, <1>2, <1>3, CommonPushes, CommonTakes
<1> QED
  BY <1>1, <1>3, <1>4, Runs2

LEMMA SwitchBodyRuns ==
    ASSUME NEW A \in SUBSET AnyGoal, Common \subseteq A, NEW P \in Seq(Sort), NEW l,
           Build("SWITCH", l) \in A
    PROVE  Runs(A, (Cases \o <<Build("SWITCH", l)>>) \o <<Leave("nesting")>>,
                Append(P, "expr"), Append(P, "stmt"))
<1>1. PICK Q \in Seq(Sort) : Q = Append(P, "expr")
  BY CommonPushes, RuleNames
<1>2. PICK R \in Seq(Sort) : R = Append(Q, "cases")
  BY CommonPushes, RuleNames
<1>3. PICK Z \in Seq(Sort) : Z = Append(P, "stmt")
  BY CommonPushes, RuleNames
<1>4. /\ Step(A, Take("LEFT_BRACE"), Q, Q)
      /\ Step(A, List, Q, R)
      /\ Step(A, Parse("cases", 0), R, R)
      /\ Step(A, Take("RIGHT_BRACE"), R, R)
  BY <1>2, CommonPushes, CommonTakes, Names
<1>5. Runs(A, Cases, Q, R)
  BY <1>4, Runs4 DEF Cases
<1>6. Yields(Build("SWITCH", l), <<"expr", "cases">>, "stmt")
  BY SMTT(30) DEF Yields, Build, NodeYields
<1>7. Step(A, Build("SWITCH", l), R, Z)
  BY <1>1, <1>2, <1>3, <1>6, StepTake2, RuleNames, Zenon
<1>8. Runs(A, <<Build("SWITCH", l)>>, R, Z)
  BY <1>7, Runs1
<1>9. Runs(A, Cases \o <<Build("SWITCH", l)>>, Q, Z)
  BY <1>5, <1>8, RunsJoin
<1> QED
  BY <1>1, <1>3, <1>9, LeaveRuns DEF Counter

LEMMA CasesRuns ==
    ASSUME NEW A \in SUBSET AnyGoal, Common \subseteq A, NEW P \in Seq(Sort),
           NEW Q \in Seq(Sort), Q = Append(P, "cases"), NEW g, Step(A, g, Q, Q)
    PROVE  Runs(A, <<Parse("label", 0), Take("COLON"), List, Parse("caseBody", 0),
                     Build("CASE", 0), Item, g>>, Q, Q)
<1>1. PICK R \in Seq(Sort) : R = Append(Q, "label")
  BY CommonPushes, RuleNames
<1>2. PICK S \in Seq(Sort) : S = Append(R, "stmts")
  BY CommonPushes, RuleNames
<1>3. PICK V \in Seq(Sort) : V = Append(Q, "case")
  BY CommonPushes, RuleNames
<1>4. /\ Step(A, Parse("label", 0), Q, R)
      /\ Step(A, Take("COLON"), R, R)
      /\ Step(A, List, R, S)
  BY <1>1, <1>2, CommonPushes, Names
<1>5. /\ Step(A, Parse("caseBody", 0), S, S)
      /\ Step(A, Build("CASE", 0), S, V)
      /\ Step(A, Item, V, Q)
  BY <1>1, <1>2, <1>3, CommonTakes
<1> QED
  BY <1>4, <1>5, Runs7

LEMMA PrintedRuns ==
    ASSUME NEW A \in SUBSET AnyGoal, Common \subseteq A, NEW P \in Seq(Sort), NEW l,
           Build("PRINT", l) \in A
    PROVE  Runs(A, <<Expression, Build("PRINT", l)>>, P, Append(P, "stmt"))
<1>1. PICK Q \in Seq(Sort) : Q = Append(P, "expr")
  BY CommonPushes, RuleNames
<1>2. PICK Z \in Seq(Sort) : Z = Append(P, "stmt")
  BY CommonPushes, RuleNames
<1>3. Yields(Build("PRINT", l), <<"expr">>, "stmt")
  BY DEF Yields, Build, NodeYields
<1>4. Step(A, Build("PRINT", l), Q, Z) /\ Step(A, Expression, P, Q)
  BY <1>1, <1>2, <1>3, StepTake1, CommonPushes, RuleNames
<1> QED
  BY <1>2, <1>4, Runs2

LEMMA UnaryRuns ==
    ASSUME NEW A \in SUBSET AnyGoal, Common \subseteq A, NEW P \in Seq(Sort), NEW l,
           NEW node \in {"HINDI", "NEGATE"}, Build(node, l) \in A,
           NEW r \in {"logicalNot", "unary"}
    PROVE  Runs(A, <<Parse(r, 0), Build(node, l)>> \o <<Leave("expr")>>, P,
                Append(P, "expr"))
<1>1. PICK Q \in Seq(Sort) : Q = Append(P, "expr")
  BY CommonPushes, RuleNames
<1>2. Yields(Build(node, l), <<"expr">>, "expr")
  BY DEF Yields, Build, NodeYields
<1>3. Step(A, Build(node, l), Q, Q) /\ Step(A, Parse(r, 0), P, Q)
  BY <1>1, <1>2, StepTake1, CommonPushes, RuleNames
<1>4. Runs(A, <<Parse(r, 0), Build(node, l)>>, P, Q)
  BY <1>3, Runs2
<1> QED
  BY <1>1, <1>4, LeaveRuns DEF Counter

LEMMA ExpressionRuns ==
    ASSUME NEW A \in SUBSET AnyGoal, Common \subseteq A, NEW P \in Seq(Sort)
    PROVE  /\ Runs(A, <<Parse("logicalOr", 0)>> \o <<Leave("expr")>>, P,
                   Append(P, "expr"))
           /\ \A level \in Level :
                 Runs(A, <<Parse(Operand[level], 0), Repeat(level)>>, P,
                      Append(P, "expr"))
           /\ Runs(A, <<Parse("relational", 0)>>, P, Append(P, "expr"))
           /\ Runs(A, <<Parse("primary", 0)>>, P, Append(P, "expr"))
           /\ Runs(A, <<Expression, Take("RIGHT_PAREN")>>, P, Append(P, "expr"))
<1>1. PICK Q \in Seq(Sort) : Q = Append(P, "expr")
  BY CommonPushes, RuleNames
<1>2. \A r \in {"expression", "logicalNot", "unary", "primary"} \cup Level :
          Step(A, Parse(r, 0), P, Q)
  BY <1>1, CommonPushes
<1>3. Step(A, Take("RIGHT_PAREN"), Q, Q) /\ Step(A, Expression, P, Q)
  BY <1>1, CommonPushes, Names
<1>4. Runs(A, <<Parse("logicalOr", 0)>> \o <<Leave("expr")>>, P, Q)
  BY <1>2, Runs1, LeaveRuns, LevelDomain DEF Counter
<1>5. ASSUME NEW level \in Level
      PROVE  Runs(A, <<Parse(Operand[level], 0), Repeat(level)>>, P, Q)
  <2>1. Operand[level] \in {"expression", "logicalNot", "unary", "primary"} \cup Level
    BY LevelDomain DEF Operand
  <2>2. Step(A, Repeat(level), Q, Q)
    BY <1>1, CommonTakes
  <2> QED
    BY <1>2, <2>1, <2>2, Runs2
<1>6. Runs(A, <<Parse("relational", 0)>>, P, Q) /\ Runs(A, <<Parse("primary", 0)>>, P, Q)
  BY <1>2, Runs1, LevelDomain
<1>7. Runs(A, <<Expression, Take("RIGHT_PAREN")>>, P, Q)
  BY <1>3, Runs2
<1> QED
  BY <1>1, <1>4, <1>5, <1>6, <1>7

LEMMA OperandRuns ==
    ASSUME NEW A \in SUBSET AnyGoal, Common \subseteq A, NEW P \in Seq(Sort),
           NEW Q \in Seq(Sort), Q = Append(P, "expr"), NEW level \in Level,
           Peek \in DOMAIN BinOp \cup DOMAIN LogOp, Build(Peek, current) \in A,
           NEW g, Step(A, g, Q, Q)
    PROVE  Runs(A, <<Parse(Operand[level], 0), Build(Peek, current), g>>, Q, Q)
<1>1. PICK R \in Seq(Sort) : R = Append(Q, "expr")
  BY CommonPushes, RuleNames
<1>2. PICK node \in DOMAIN BinOp \cup DOMAIN LogOp : node = Peek
  OBVIOUS
<1>3. Yields(Build(node, current), <<"expr", "expr">>, "expr")
  BY SMTT(30) DEF Yields, Build, NodeYields
<1>4. Step(A, Build(node, current), R, Q)
  BY <1>1, <1>2, <1>3, StepTake2, RuleNames, Zenon
<1>5. Operand[level] \in {"expression", "logicalNot", "unary", "primary"} \cup Level
  BY LevelDomain DEF Operand
<1>6. Step(A, Parse(Operand[level], 0), Q, R)
  BY <1>1, <1>5, CommonPushes
<1> QED
  BY <1>2, <1>4, <1>6, Runs3

LEMMA ReadRuns ==
    ASSUME NEW A \in SUBSET AnyGoal, Common \subseteq A, NEW P \in Seq(Sort), NEW l,
           Build("READ", l) \in A
    PROVE  Runs(A, <<Take("LEFT_PAREN"), Take("RIGHT_PAREN"), Build("READ", l)>>, P,
                Append(P, "expr"))
<1>1. PICK Q \in Seq(Sort) : Q = Append(P, "expr")
  BY CommonPushes, RuleNames
<1>2. Yields(Build("READ", l), << >>, "expr")
  BY DEF Yields, Build, NodeYields
<1>3. Step(A, Build("READ", l), P, Q)
  BY <1>1, <1>2, StepPush, RuleNames
<1>4. Step(A, Take("LEFT_PAREN"), P, P) /\ Step(A, Take("RIGHT_PAREN"), P, P)
  BY CommonPushes, Names
<1> QED
  BY <1>1, <1>3, <1>4, Runs3

-----------------------------------------------------------------------------
(* Places.  A goal that has a place was pushed when its token was read.    *)

\* The tokens that a goal stands at.  Nodes without a place have none.
TokensOf(node) ==
    CASE node = "READ"     -> {"BASAHIN", "KUNIN"}
      [] node = "HINDI"    -> {"HINDI"}
      [] node = "NEGATE"   -> {"MINUS"}
      [] node \in DOMAIN BinOp \cup DOMAIN LogOp -> {node}
      [] node = "BREAK"    -> {"TIGIL"}
      [] node = "CONTINUE" -> {"SUNOD"}
      [] node \in {"PRINT", "printed"} -> {"ISULAT", "IPAKITA"}
      [] node = "BLOCK"    -> {"LEFT_BRACE"}
      [] node = "READ_INTO" -> {"BASAHIN", "KUNIN"}
      [] node = "VAR_DECL" -> {"ITAKDA"}
      [] node = "ASSIGN"   -> {"IDENTIFIER"}
      [] node = "WHILE"    -> {"HABANG"}
      [] node = "DO_WHILE" -> {"GAWIN"}
      [] node \in {"SWITCH", "switchBody"} -> {"PILI"}
      [] node = "IF"       -> {"KUNG"}
      [] node = "FOR"      -> {"PARA"}
      [] OTHER -> {}

\* In para, an assignment is begun at position p before it is known that a
\* name stands there.
Stands(ts, p, g) ==
    /\ g.loc \in DOMAIN ts
    /\ ts[g.loc].type \in TokensOf(g.arg) \/ (g.arg = "ASSIGN" /\ g.loc = p)

Placed(ts, p) ==
    Common \cup {g \in AnyGoal : g.do \in {"build", "parse"} /\ Stands(ts, p, g)}

LEMMA PlacedGoals ==
    ASSUME NEW ts, NEW p
    PROVE  Placed(ts, p) \in SUBSET AnyGoal /\ Common \subseteq Placed(ts, p)
BY DEF Placed, Common

LEMMA PlacedBuild ==
    ASSUME NEW ts, NEW p, DOMAIN ts \subseteq Nat, NEW l \in DOMAIN ts,
           NEW node \in NodeName, ts[l].type \in TokensOf(node)
    PROVE  Build(node, l) \in Placed(ts, p)
<1>1. Build(node, l) \in AnyGoal
  BY BuildGoal DEF AnyGoal
<1> QED
  BY <1>1 DEF Placed, Stands, Build

LEMMA PlacedParse ==
    ASSUME NEW ts, NEW p, DOMAIN ts \subseteq Nat, NEW l \in DOMAIN ts,
           NEW r \in {"switchBody", "printed"}, ts[l].type \in TokensOf(r)
    PROVE  Parse(r, l) \in Placed(ts, p)
<1>1. Parse(r, l) \in AnyGoal
  BY DEF AnyGoal, PlainGoal, Parse, Rule
<1> QED
  BY <1>1 DEF Placed, Stands, Parse

\* The same goal, not yet known to stand at a name.
LEMMA PlacedAssign ==
    ASSUME NEW ts, DOMAIN ts \subseteq Nat, NEW p \in DOMAIN ts
    PROVE  Build("ASSIGN", p) \in Placed(ts, p)
<1>1. Build("ASSIGN", p) \in AnyGoal
  BY BuildGoal, Names DEF AnyGoal
<1> QED
  BY <1>1 DEF Placed, Stands, Build

LEMMA PlacedGrows ==
    ASSUME NEW ts, NEW p, 0 \notin DOMAIN ts
    PROVE  Placed(ts, 0) \subseteq Placed(ts, p)
BY DEF Placed, Stands

\* It is a name.
LEMMA PlacedName ==
    ASSUME NEW ts, NEW p, ts[p].type = "IDENTIFIER"
    PROVE  Placed(ts, p) \subseteq Placed(ts, 0)
<1>1. TokensOf("ASSIGN") = {"IDENTIFIER"}
  BY DEF TokensOf, BinOp, LogOp
<1>2. ASSUME NEW g \in AnyGoal, Stands(ts, p, g)
      PROVE  Stands(ts, 0, g)
  BY <1>1, <1>2 DEF Stands
<1> QED
  BY <1>2 DEF Placed

LEMMA StepMore ==
    ASSUME NEW A, NEW B, A \subseteq B, NEW g, NEW P, NEW Q, Step(A, g, P, Q)
    PROVE  Step(B, g, P, Q)
BY DEF Step

LEMMA TypedMore ==
    ASSUME NEW A, NEW B, A \subseteq B, NEW gs, NEW P, Typed(A, gs, P)
    PROVE  Typed(B, gs, P)
BY StepMore DEF Typed

-----------------------------------------------------------------------------
(* Nodes.                                                                  *)

StandsRight(ts, n) == n.loc \in DOMAIN ts /\ ts[n.loc].type \in StandsAt(n)

\* A set of nodes with all their parts, and a node of such a set.
Sound(ts, S) == \A n \in S : Parts(n) \subseteq S /\ Shaped(n) /\ StandsRight(ts, n)
Good(ts, n)  == \E S : n \in S /\ Sound(ts, S)

LEMMA GoodNode ==
    ASSUME NEW ts, NEW n, Shaped(n), StandsRight(ts, n), \A m \in Parts(n) : Good(ts, m)
    PROVE  Good(ts, n)
<1> DEFINE C(m) == CHOOSE S : m \in S /\ Sound(ts, S)
<1> DEFINE U == UNION {C(m) : m \in Parts(n)}
<1> DEFINE W == {n} \cup U
<1>1. \A m \in Parts(n) : m \in C(m) /\ Sound(ts, C(m))
  BY DEF Good
<1> HIDE DEF C
<1>2. Parts(n) \subseteq U
  BY <1>1
<1>3. ASSUME NEW x \in U
      PROVE  Parts(x) \subseteq U /\ Shaped(x) /\ StandsRight(ts, x)
  <2>1. PICK m \in Parts(n) : x \in C(m)
    OBVIOUS
  <2>2. Parts(x) \subseteq C(m) /\ Shaped(x) /\ StandsRight(ts, x)
    BY <1>1, <2>1, Zenon DEF Sound
  <2>3. C(m) \subseteq U
    OBVIOUS
  <2> HIDE DEF U
  <2> QED
    BY <2>2, <2>3
<1> HIDE DEF U
<1>4. Sound(ts, W)
  BY <1>2, <1>3, Zenon DEF Sound
<1> QED
  BY <1>4 DEF Good

\* What is known of a value of each sort.
IsNode(ts, n, K) == n.kind \in K /\ Good(ts, n)
IsList(ts, v, K) == v \in Seq(Range(v)) /\ \A n \in Range(v) : IsNode(ts, n, K)

KindsOf(s) ==
    CASE s = "expr"   -> ExprKinds
      [] s = "stmt"   -> StmtKinds
      [] s = "block"  -> {"BLOCK"}
      [] s = "init"   -> {"VAR_DECL", "ASSIGN"}
      [] s = "assign" -> {"ASSIGN"}
      [] s = "if"     -> {"IF"}
      [] s = "case"   -> {"CASE"}

OfSort(ts, v, s) ==
    /\ s = "name" => v \in DOMAIN ts /\ ts[v].type = "IDENTIFIER"
    /\ s = "label" => v.loc \in DOMAIN ts /\ ts[v.loc].type = "NUMBER" /\ v.int \in CInt
    /\ s \in NodeSort => IsNode(ts, v, KindsOf(s))
    /\ s = "stmts" => IsList(ts, v, StmtKinds)
    /\ s = "cases" => IsList(ts, v, {"CASE"})
    /\ s = "none"  => v = << >>
    /\ s = "else"  => IsList(ts, v, {"BLOCK", "IF"}) /\ Len(v) <= 1

LEMMA EmptyList ==
    ASSUME NEW ts, NEW K
    PROVE  IsList(ts, << >>, K)
<1>1. Range(<< >>) = {} /\ << >> \in Seq({})
  BY DEF Range
<1> QED
  BY <1>1 DEF IsList

LEMMA LongerList ==
    ASSUME NEW ts, NEW K, NEW v, IsList(ts, v, K), NEW n, IsNode(ts, n, K)
    PROVE  IsList(ts, Append(v, n), K) /\ Len(Append(v, n)) = Len(v) + 1
<1> DEFINE R == Range(v) \cup {n}
<1>1. v \in Seq(R) /\ n \in R
  BY SeqMonotonic DEF IsList
<1>2. PICK w : w = Append(v, n)
  OBVIOUS
<1>3. /\ w \in Seq(R) /\ Len(w) = Len(v) + 1 /\ Len(v) \in Nat
      /\ \A i \in 1 .. Len(v) : w[i] = v[i]
      /\ w[Len(v) + 1] = n
  BY <1>1, <1>2, AppendProperties, LenProperties
<1>4. DOMAIN v = 1 .. Len(v) /\ DOMAIN w = 1 .. Len(v) + 1
  BY <1>1, <1>3, LenProperties
<1>5. Range(w) = R
  <2>1. \A i \in DOMAIN w : w[i] \in R
    BY <1>3, <1>4, ElementOfSeq
  <2>2. \A x \in Range(v) : x \in Range(w)
    BY <1>3, <1>4 DEF Range
  <2>3. n \in Range(w)
    BY <1>3, <1>4 DEF Range
  <2> QED
    BY <2>1, <2>2, <2>3 DEF Range
<1>6. \A x \in R : IsNode(ts, x, K)
  BY DEF IsList
<1> HIDE DEF R
<1> QED
  BY <1>2, <1>3, <1>5, <1>6, Zenon DEF IsList

-----------------------------------------------------------------------------
(* Nodes made of good parts are good.                                      *)

LEMMA PartsAre ==
    ASSUME NEW n
    PROVE  /\ n.kind \in {"LITERAL_INT", "LITERAL_BOOL", "VARIABLE", "READ", "BREAK",
                          "CONTINUE"} => Parts(n) = {}
           /\ n.kind \in UnaryKinds => Parts(n) = {n.operand}
           /\ n.kind \in BinaryKinds => Parts(n) = {n.left, n.right}
           /\ n.kind = "VAR_DECL" => Parts(n) = {n.initializer}
           /\ n.kind = "ASSIGN" => Parts(n) = {n.value}
           /\ n.kind = "PRINT" => Parts(n) = IF n.isString THEN {} ELSE {n.expr}
           /\ n.kind = "BLOCK" => Parts(n) = Range(n.statements)
           /\ n.kind = "CASE" => Parts(n) = Range(n.body)
           /\ n.kind = "IF" =>
                 Parts(n) = {n.thenBranch, n.condition} \cup Range(n.elseBranch)
           /\ n.kind \in {"WHILE", "DO_WHILE"} => Parts(n) = {n.body, n.condition}
           /\ n.kind = "FOR" => Parts(n) = {n.init, n.update, n.body, n.condition}
           /\ n.kind = "SWITCH" => Parts(n) = {n.subject} \cup Range(n.cases)
<1>1. n.kind \in {"LITERAL_INT", "LITERAL_BOOL", "VARIABLE", "READ", "BREAK",
                  "CONTINUE"} => Parts(n) = {}
  BY DEF Parts, Operands, Children, Expressions, UnaryKinds, BinaryKinds
<1>2. /\ n.kind \in UnaryKinds => Parts(n) = {n.operand}
      /\ n.kind \in BinaryKinds => Parts(n) = {n.left, n.right}
  BY DEF Parts, Operands, Children, Expressions, UnaryKinds, BinaryKinds
<1>3. /\ n.kind = "VAR_DECL" => Parts(n) = {n.initializer}
      /\ n.kind = "ASSIGN" => Parts(n) = {n.value}
      /\ n.kind = "PRINT" => Parts(n) = IF n.isString THEN {} ELSE {n.expr}
  BY DEF Parts, Operands, Children, Expressions, UnaryKinds, BinaryKinds
<1>4. /\ n.kind = "BLOCK" => Parts(n) = Range(n.statements)
      /\ n.kind = "CASE" => Parts(n) = Range(n.body)
  BY DEF Parts, Operands, Children, Expressions, UnaryKinds, BinaryKinds
<1>5. n.kind = "IF" => Parts(n) = {n.thenBranch, n.condition} \cup Range(n.elseBranch)
  BY DEF Parts, Operands, Children, Expressions, UnaryKinds, BinaryKinds
<1>6. /\ n.kind \in {"WHILE", "DO_WHILE"} => Parts(n) = {n.body, n.condition}
      /\ n.kind = "FOR" => Parts(n) = {n.init, n.update, n.body, n.condition}
  BY DEF Parts, Operands, Children, Expressions, UnaryKinds, BinaryKinds
<1>7. n.kind = "SWITCH" => Parts(n) = {n.subject} \cup Range(n.cases)
  BY DEF Parts, Operands, Children, Expressions, UnaryKinds, BinaryKinds
<1> QED
  BY <1>1, <1>2, <1>3, <1>4, <1>5, <1>6, <1>7

LEMMA ShapedIs ==
    ASSUME NEW n
    PROVE  /\ n.kind \in {"LITERAL_BOOL", "VARIABLE", "READ", "BREAK", "CONTINUE"}
                 => Shaped(n)
           /\ n.kind = "LITERAL_INT" /\ n.int \in CInt => Shaped(n)
           /\ n.kind \in UnaryKinds /\ IsExpr(n.operand) => Shaped(n)
           /\ n.kind \in BinaryKinds /\ IsExpr(n.left) /\ IsExpr(n.right) => Shaped(n)
           /\ n.kind = "VAR_DECL" /\ IsExpr(n.initializer) => Shaped(n)
           /\ n.kind = "ASSIGN" /\ IsExpr(n.value) => Shaped(n)
           /\ n.kind = "PRINT" /\ (n.isString \/ IsExpr(n.expr)) => Shaped(n)
           /\ n.kind = "BLOCK" /\ (\A s \in Range(n.statements) : IsStmt(s)) => Shaped(n)
           /\ n.kind = "CASE" /\ n.value \in CInt /\ (\A s \in Range(n.body) : IsStmt(s))
                 => Shaped(n)
           /\ n.kind = "IF" /\ IsExpr(n.condition) /\ n.thenBranch.kind = "BLOCK"
              /\ Len(n.elseBranch) <= 1
              /\ (\A s \in Range(n.elseBranch) : s.kind \in {"BLOCK", "IF"}) => Shaped(n)
           /\ n.kind \in {"WHILE", "DO_WHILE"} /\ IsExpr(n.condition)
              /\ n.body.kind = "BLOCK" => Shaped(n)
           /\ n.kind = "FOR" /\ n.init.kind \in {"VAR_DECL", "ASSIGN"}
              /\ IsExpr(n.condition) /\ n.update.kind = "ASSIGN" /\ n.body.kind = "BLOCK"
                 => Shaped(n)
           /\ n.kind = "SWITCH" /\ IsExpr(n.subject)
              /\ (\A c \in Range(n.cases) : c.kind = "CASE") => Shaped(n)
<1>1. n.kind \in {"LITERAL_BOOL", "VARIABLE", "READ", "BREAK", "CONTINUE"} => Shaped(n)
  BY DEF Shaped, UnaryKinds, BinaryKinds
<1>2. /\ n.kind = "LITERAL_INT" /\ n.int \in CInt => Shaped(n)
      /\ n.kind \in UnaryKinds /\ IsExpr(n.operand) => Shaped(n)
      /\ n.kind \in BinaryKinds /\ IsExpr(n.left) /\ IsExpr(n.right) => Shaped(n)
      /\ n.kind = "VAR_DECL" /\ IsExpr(n.initializer) => Shaped(n)
      /\ n.kind = "ASSIGN" /\ IsExpr(n.value) => Shaped(n)
      /\ n.kind = "PRINT" /\ (n.isString \/ IsExpr(n.expr)) => Shaped(n)
  BY DEF Shaped, UnaryKinds, BinaryKinds
<1>3. /\ n.kind = "BLOCK" /\ (\A s \in Range(n.statements) : IsStmt(s)) => Shaped(n)
      /\ n.kind = "CASE" /\ n.value \in CInt /\ (\A s \in Range(n.body) : IsStmt(s))
            => Shaped(n)
  BY DEF Shaped, UnaryKinds, BinaryKinds
<1>4. /\ n.kind = "IF" /\ IsExpr(n.condition) /\ n.thenBranch.kind = "BLOCK"
         /\ Len(n.elseBranch) <= 1
         /\ (\A s \in Range(n.elseBranch) : s.kind \in {"BLOCK", "IF"}) => Shaped(n)
      /\ n.kind \in {"WHILE", "DO_WHILE"} /\ IsExpr(n.condition)
         /\ n.body.kind = "BLOCK" => Shaped(n)
  BY DEF Shaped, UnaryKinds, BinaryKinds
<1>5. /\ n.kind = "FOR" /\ n.init.kind \in {"VAR_DECL", "ASSIGN"}
         /\ IsExpr(n.condition) /\ n.update.kind = "ASSIGN" /\ n.body.kind = "BLOCK"
            => Shaped(n)
      /\ n.kind = "SWITCH" /\ IsExpr(n.subject)
         /\ (\A c \in Range(n.cases) : c.kind = "CASE") => Shaped(n)
  BY DEF Shaped, UnaryKinds, BinaryKinds
<1> QED
  BY <1>1, <1>2, <1>3, <1>4, <1>5

LEMMA GoodLeaf ==
    ASSUME NEW ts, NEW n, StandsRight(ts, n),
           \/ n.kind \in {"LITERAL_BOOL", "VARIABLE", "READ", "BREAK", "CONTINUE"}
           \/ n.kind = "LITERAL_INT" /\ n.int \in CInt
           \/ n.kind = "PRINT" /\ n.isString = TRUE
    PROVE  Good(ts, n)
<1>1. Parts(n) = {} /\ Shaped(n)
  BY PartsAre, ShapedIs
<1> QED
  BY <1>1, GoodNode

\* A node with one expression, or two.
LEMMA GoodOverExpr ==
    ASSUME NEW ts, NEW n, StandsRight(ts, n), NEW e, IsNode(ts, e, ExprKinds),
           \/ n.kind \in UnaryKinds /\ n.operand = e
           \/ n.kind = "VAR_DECL" /\ n.initializer = e
           \/ n.kind = "ASSIGN" /\ n.value = e
           \/ n.kind = "PRINT" /\ n.isString = FALSE /\ n.expr = e
    PROVE  Good(ts, n)
<1>1. IsExpr(e) /\ Good(ts, e)
  BY DEF IsNode, IsExpr
<1>2. Parts(n) = {e} /\ Shaped(n)
  BY <1>1, PartsAre, ShapedIs
<1> QED
  BY <1>1, <1>2, GoodNode

LEMMA GoodBinary ==
    ASSUME NEW ts, NEW n, StandsRight(ts, n), n.kind \in BinaryKinds,
           IsNode(ts, n.left, ExprKinds), IsNode(ts, n.right, ExprKinds)
    PROVE  Good(ts, n)
<1>1. IsExpr(n.left) /\ Good(ts, n.left) /\ IsExpr(n.right) /\ Good(ts, n.right)
  BY DEF IsNode, IsExpr
<1>2. Parts(n) = {n.left, n.right} /\ Shaped(n)
  BY <1>1, PartsAre, ShapedIs
<1> QED
  BY <1>1, <1>2, GoodNode

LEMMA GoodOverList ==
    ASSUME NEW ts, NEW n, StandsRight(ts, n), NEW v, IsList(ts, v, StmtKinds),
           \/ n.kind = "BLOCK" /\ n.statements = v
           \/ n.kind = "CASE" /\ n.body = v /\ n.value \in CInt
    PROVE  Good(ts, n)
<1>1. \A s \in Range(v) : IsStmt(s) /\ Good(ts, s)
  BY DEF IsList, IsNode, IsStmt
<1>2. Parts(n) = Range(v) /\ Shaped(n)
  BY <1>1, PartsAre, ShapedIs
<1> QED
  BY <1>1, <1>2, GoodNode

LEMMA GoodIf ==
    ASSUME NEW ts, NEW n, StandsRight(ts, n), n.kind = "IF",
           IsNode(ts, n.condition, ExprKinds), IsNode(ts, n.thenBranch, {"BLOCK"}),
           IsList(ts, n.elseBranch, {"BLOCK", "IF"}), Len(n.elseBranch) <= 1
    PROVE  Good(ts, n)
<1>1. /\ IsExpr(n.condition) /\ Good(ts, n.condition)
      /\ n.thenBranch.kind = "BLOCK" /\ Good(ts, n.thenBranch)
      /\ \A s \in Range(n.elseBranch) : s.kind \in {"BLOCK", "IF"} /\ Good(ts, s)
  BY DEF IsList, IsNode, IsExpr
<1>2. Parts(n) = {n.thenBranch, n.condition} \cup Range(n.elseBranch) /\ Shaped(n)
  BY <1>1, PartsAre, ShapedIs
<1> QED
  BY <1>1, <1>2, GoodNode

LEMMA GoodLoop ==
    ASSUME NEW ts, NEW n, StandsRight(ts, n), n.kind \in {"WHILE", "DO_WHILE"},
           IsNode(ts, n.condition, ExprKinds), IsNode(ts, n.body, {"BLOCK"})
    PROVE  Good(ts, n)
<1>1. /\ IsExpr(n.condition) /\ Good(ts, n.condition)
      /\ n.body.kind = "BLOCK" /\ Good(ts, n.body)
  BY DEF IsNode, IsExpr
<1>2. Parts(n) = {n.body, n.condition} /\ Shaped(n)
  BY <1>1, PartsAre, ShapedIs
<1> QED
  BY <1>1, <1>2, GoodNode

LEMMA GoodFor ==
    ASSUME NEW ts, NEW n, StandsRight(ts, n), n.kind = "FOR",
           IsNode(ts, n.init, {"VAR_DECL", "ASSIGN"}), IsNode(ts, n.condition, ExprKinds),
           IsNode(ts, n.update, {"ASSIGN"}), IsNode(ts, n.body, {"BLOCK"})
    PROVE  Good(ts, n)
<1>1. /\ IsExpr(n.condition) /\ Good(ts, n.condition)
      /\ n.init.kind \in {"VAR_DECL", "ASSIGN"} /\ Good(ts, n.init)
      /\ n.update.kind = "ASSIGN" /\ Good(ts, n.update)
      /\ n.body.kind = "BLOCK" /\ Good(ts, n.body)
  BY DEF IsNode, IsExpr
<1>2. Parts(n) = {n.init, n.update, n.body, n.condition} /\ Shaped(n)
  BY <1>1, PartsAre, ShapedIs
<1> QED
  BY <1>1, <1>2, GoodNode

LEMMA GoodSwitch ==
    ASSUME NEW ts, NEW n, StandsRight(ts, n), n.kind = "SWITCH",
           IsNode(ts, n.subject, ExprKinds), IsList(ts, n.cases, {"CASE"})
    PROVE  Good(ts, n)
<1>1. /\ IsExpr(n.subject) /\ Good(ts, n.subject)
      /\ \A c \in Range(n.cases) : c.kind = "CASE" /\ Good(ts, c)
  BY DEF IsList, IsNode, IsExpr
<1>2. Parts(n) = {n.subject} \cup Range(n.cases) /\ Shaped(n)
  BY <1>1, PartsAre, ShapedIs
<1> QED
  BY <1>1, <1>2, GoodNode

-----------------------------------------------------------------------------
(* The nodes that the parser makes.                                        *)

LEMMA OpNames ==
    /\ DOMAIN BinOp = {"PLUS", "MINUS", "STAR", "PERCENT", "SLASH", "GREATER",
                       "GREATER_EQUAL", "LESS", "LESS_EQUAL", "EQUAL_EQUAL", "NOT_EQUAL"}
    /\ DOMAIN LogOp = {"O", "AT"}
BY DEF BinOp, LogOp

LEMMA OpInjective ==
    ASSUME NEW s \in DOMAIN BinOp, NEW t \in DOMAIN BinOp, BinOp[s] = BinOp[t]
    PROVE  s = t
BY DEF BinOp

LEMMA TokenOfOp ==
    ASSUME NEW t \in DOMAIN BinOp
    PROVE  TokenOf(BinOp[t]) = t
<1>1. PICK c : c = TokenOf(BinOp[t])
  OBVIOUS
<1>2. c \in DOMAIN BinOp /\ BinOp[c] = BinOp[t]
  BY <1>1 DEF TokenOf
<1> QED
  BY <1>1, <1>2, OpInjective

LEMMA NodeIs ==
    ASSUME NEW l, NEW a
    PROVE  /\ Node("LIST", l, a) = << >>
           /\ Node("ITEM", l, a) = Append(a[1], a[2])
           /\ Node("READ", l, a) = ReadExpr(l)
           /\ Node("HINDI", l, a) = UnaryNot(a[1], l)
           /\ Node("NEGATE", l, a) = UnaryNeg(a[1], l)
           /\ \A t \in DOMAIN BinOp :
                 Node(t, l, a) = BinaryExpr(BinOp[t], a[1], a[2], l)
           /\ \A t \in DOMAIN LogOp :
                 Node(t, l, a) = LogicalExpr(LogOp[t], a[1], a[2], l)
           /\ Node("BREAK", l, a) = BreakStmt(l)
           /\ Node("CONTINUE", l, a) = ContinueStmt(l)
           /\ Node("PRINT", l, a) = PrintExpr(a[1], l)
           /\ Node("BLOCK", l, a) = BlockStmt(a[1], l)
           /\ Node("READ_INTO", l, a) = AssignStmt(NameAt(a[1]), ReadExpr(l), a[1])
           /\ Node("VAR_DECL", l, a) = VarDeclStmt(NameAt(a[1]), a[2], l)
           /\ Node("ASSIGN", l, a) = AssignStmt(NameAt(a[1]), a[2], l)
           /\ Node("WHILE", l, a) = WhileStmt(a[1], a[2], l)
           /\ Node("DO_WHILE", l, a) = DoWhileStmt(a[1], a[2], l)
           /\ Node("CASE", l, a) = SwitchCase(a[1].int, a[2], a[1].loc)
           /\ Node("SWITCH", l, a) = SwitchStmt(a[1], a[2], l)
           /\ Node("IF", l, a) = IfStmt(a[1], a[2], a[3], l)
           /\ Node("FOR", l, a) = ForStmt(a[1], a[2], a[3], a[4], l)
<1>1. /\ Node("LIST", l, a) = << >>
      /\ Node("ITEM", l, a) = Append(a[1], a[2])
      /\ Node("READ", l, a) = ReadExpr(l)
      /\ Node("HINDI", l, a) = UnaryNot(a[1], l)
      /\ Node("NEGATE", l, a) = UnaryNeg(a[1], l)
  BY OpNames DEF Node
<1>2. \A t \in DOMAIN BinOp : Node(t, l, a) = BinaryExpr(BinOp[t], a[1], a[2], l)
  BY OpNames DEF Node
<1>3. \A t \in DOMAIN LogOp : Node(t, l, a) = LogicalExpr(LogOp[t], a[1], a[2], l)
  BY OpNames DEF Node
<1>4. /\ Node("BREAK", l, a) = BreakStmt(l)
      /\ Node("CONTINUE", l, a) = ContinueStmt(l)
      /\ Node("PRINT", l, a) = PrintExpr(a[1], l)
      /\ Node("BLOCK", l, a) = BlockStmt(a[1], l)
      /\ Node("READ_INTO", l, a) = AssignStmt(NameAt(a[1]), ReadExpr(l), a[1])
  BY OpNames DEF Node
<1>5. /\ Node("VAR_DECL", l, a) = VarDeclStmt(NameAt(a[1]), a[2], l)
      /\ Node("ASSIGN", l, a) = AssignStmt(NameAt(a[1]), a[2], l)
      /\ Node("WHILE", l, a) = WhileStmt(a[1], a[2], l)
      /\ Node("DO_WHILE", l, a) = DoWhileStmt(a[1], a[2], l)
      /\ Node("CASE", l, a) = SwitchCase(a[1].int, a[2], a[1].loc)
  BY OpNames DEF Node
<1>6. /\ Node("SWITCH", l, a) = SwitchStmt(a[1], a[2], l)
      /\ Node("IF", l, a) = IfStmt(a[1], a[2], a[3], l)
      /\ Node("FOR", l, a) = ForStmt(a[1], a[2], a[3], a[4], l)
  BY OpNames DEF Node
<1> QED
  BY <1>1, <1>2, <1>3, <1>4, <1>5, <1>6

LEMMA TokensAre ==
    /\ TokensOf("READ") = {"BASAHIN", "KUNIN"} /\ TokensOf("READ_INTO") = TokensOf("READ")
    /\ TokensOf("HINDI") = {"HINDI"} /\ TokensOf("NEGATE") = {"MINUS"}
    /\ \A t \in DOMAIN BinOp \cup DOMAIN LogOp : TokensOf(t) = {t}
    /\ TokensOf("BREAK") = {"TIGIL"} /\ TokensOf("CONTINUE") = {"SUNOD"}
    /\ TokensOf("PRINT") = {"ISULAT", "IPAKITA"} /\ TokensOf("printed") = TokensOf("PRINT")
    /\ TokensOf("BLOCK") = {"LEFT_BRACE"} /\ TokensOf("VAR_DECL") = {"ITAKDA"}
    /\ TokensOf("ASSIGN") = {"IDENTIFIER"} /\ TokensOf("WHILE") = {"HABANG"}
    /\ TokensOf("DO_WHILE") = {"GAWIN"} /\ TokensOf("IF") = {"KUNG"}
    /\ TokensOf("SWITCH") = {"PILI"} /\ TokensOf("switchBody") = {"PILI"}
    /\ TokensOf("FOR") = {"PARA"}
<1>1. \A t \in DOMAIN BinOp \cup DOMAIN LogOp : TokensOf(t) = {t}
  BY OpNames DEF TokensOf
<1> QED
  BY <1>1, OpNames DEF TokensOf

\* A value of the sort of a node.
LEMMA AsSort ==
    ASSUME NEW ts, NEW n, NEW k, n.kind = k, Good(ts, n), NEW s \in NodeSort,
           k \in KindsOf(s)
    PROVE  OfSort(ts, n, s)
BY DEF OfSort, IsNode, NodeSort

LEMMA FromSort ==
    ASSUME NEW ts, NEW v
    PROVE  /\ OfSort(ts, v, "expr") => IsNode(ts, v, ExprKinds)
           /\ OfSort(ts, v, "stmt") => IsNode(ts, v, StmtKinds)
           /\ OfSort(ts, v, "block") => IsNode(ts, v, {"BLOCK"})
           /\ OfSort(ts, v, "init") => IsNode(ts, v, {"VAR_DECL", "ASSIGN"})
           /\ OfSort(ts, v, "assign") => IsNode(ts, v, {"ASSIGN"})
           /\ OfSort(ts, v, "if") => IsNode(ts, v, {"IF"})
           /\ OfSort(ts, v, "case") => IsNode(ts, v, {"CASE"})
BY DEF OfSort, NodeSort, KindsOf

LEMMA MadeLeaf ==
    ASSUME NEW ts, NEW l \in DOMAIN ts
    PROVE  /\ ts[l].type \in TokensOf("READ") => OfSort(ts, ReadExpr(l), "expr")
           /\ ts[l].type \in TokensOf("BREAK") => OfSort(ts, BreakStmt(l), "stmt")
           /\ ts[l].type \in TokensOf("CONTINUE") => OfSort(ts, ContinueStmt(l), "stmt")
           /\ ts[l].type \in {"TOTOO", "MALI"} =>
                 \A b : OfSort(ts, LiteralBool(b, l), "expr")
           /\ ts[l].type = "IDENTIFIER" => \A x : OfSort(ts, Variable(x, l), "expr")
           /\ ts[l].type \in {"NUMBER", "MINUS"} =>
                 \A i \in CInt : OfSort(ts, LiteralInt(i, l), "expr")
           /\ ts[l].type \in TokensOf("PRINT") =>
                 \A x : OfSort(ts, PrintString(x, l), "stmt")
<1>1. ASSUME NEW n, n.kind = "READ", n.loc = l, ts[l].type \in TokensOf("READ")
      PROVE  OfSort(ts, n, "expr")
  <2>1. StandsRight(ts, n)
    BY <1>1, TokensAre DEF StandsRight, StandsAt
  <2> QED
    BY <1>1, <2>1, GoodLeaf, AsSort DEF KindsOf, NodeSort, ExprKinds
<1>2. ASSUME NEW n, n.kind \in {"BREAK", "CONTINUE"}, n.loc = l,
             ts[l].type \in TokensOf(n.kind)
      PROVE  OfSort(ts, n, "stmt")
  <2>1. StandsRight(ts, n)
    BY <1>2, TokensAre DEF StandsRight, StandsAt
  <2> QED
    BY <1>2, <2>1, GoodLeaf, AsSort DEF KindsOf, NodeSort, StmtKinds
<1>3. ASSUME NEW n, n.loc = l,
             \/ n.kind = "LITERAL_BOOL" /\ ts[l].type \in {"TOTOO", "MALI"}
             \/ n.kind = "VARIABLE" /\ ts[l].type = "IDENTIFIER"
             \/ n.kind = "LITERAL_INT" /\ ts[l].type \in {"NUMBER", "MINUS"}
                   /\ n.int \in CInt
      PROVE  OfSort(ts, n, "expr")
  <2>1. StandsRight(ts, n)
    BY <1>3 DEF StandsRight, StandsAt
  <2> QED
    BY <1>3, <2>1, GoodLeaf, AsSort DEF KindsOf, NodeSort, ExprKinds
<1>4. ASSUME NEW n, n.kind = "PRINT", n.isString = TRUE, n.loc = l,
             ts[l].type \in TokensOf("PRINT")
      PROVE  OfSort(ts, n, "stmt")
  <2>1. StandsRight(ts, n)
    BY <1>4, TokensAre DEF StandsRight, StandsAt
  <2> QED
    BY <1>4, <2>1, GoodLeaf, AsSort DEF KindsOf, NodeSort, StmtKinds
<1>5. ts[l].type \in TokensOf("READ") => OfSort(ts, ReadExpr(l), "expr")
  BY <1>1 DEF ReadExpr
<1>6. /\ ts[l].type \in TokensOf("BREAK") => OfSort(ts, BreakStmt(l), "stmt")
      /\ ts[l].type \in TokensOf("CONTINUE") => OfSort(ts, ContinueStmt(l), "stmt")
  BY <1>2 DEF BreakStmt, ContinueStmt
<1>7. ts[l].type \in {"TOTOO", "MALI"} => \A b : OfSort(ts, LiteralBool(b, l), "expr")
  BY <1>3 DEF LiteralBool
<1>8. ts[l].type = "IDENTIFIER" => \A x : OfSort(ts, Variable(x, l), "expr")
  BY <1>3 DEF Variable
<1>9. ts[l].type \in {"NUMBER", "MINUS"} =>
          \A i \in CInt : OfSort(ts, LiteralInt(i, l), "expr")
  BY <1>3 DEF LiteralInt
<1>10. ts[l].type \in TokensOf("PRINT") => \A x : OfSort(ts, PrintString(x, l), "stmt")
  BY <1>4 DEF PrintString
<1> QED
  BY <1>5, <1>6, <1>7, <1>8, <1>9, <1>10

\* The values a are of the sorts t.
AreOf(ts, a, t) == \A i \in 1 .. Len(t) : OfSort(ts, a[i], t[i])

LEMMA ArgsAre ==
    ASSUME NEW ts, NEW a, NEW w, NEW x, NEW y, NEW z
    PROVE  /\ AreOf(ts, a, <<w>>) => OfSort(ts, a[1], w)
           /\ AreOf(ts, a, <<w, x>>) => OfSort(ts, a[1], w) /\ OfSort(ts, a[2], x)
           /\ AreOf(ts, a, <<w, x, y>>) =>
                 OfSort(ts, a[1], w) /\ OfSort(ts, a[2], x) /\ OfSort(ts, a[3], y)
           /\ AreOf(ts, a, <<w, x, y, z>>) =>
                 /\ OfSort(ts, a[1], w) /\ OfSort(ts, a[2], x)
                 /\ OfSort(ts, a[3], y) /\ OfSort(ts, a[4], z)
BY DEF AreOf

LEMMA MadeUnary ==
    ASSUME NEW ts, NEW l \in DOMAIN ts, NEW a, AreOf(ts, a, <<"expr">>)
    PROVE  /\ ts[l].type \in TokensOf("HINDI") => OfSort(ts, Node("HINDI", l, a), "expr")
           /\ ts[l].type \in TokensOf("NEGATE") => OfSort(ts, Node("NEGATE", l, a), "expr")
<1>1. IsNode(ts, a[1], ExprKinds)
  BY ArgsAre, FromSort
<1>2. ASSUME NEW n, n.loc = l, n.operand = a[1],
             \/ n.kind = "UNARY_NOT" /\ ts[l].type \in TokensOf("HINDI")
             \/ n.kind = "UNARY_NEG" /\ ts[l].type \in TokensOf("NEGATE")
      PROVE  OfSort(ts, n, "expr")
  <2>1. StandsRight(ts, n)
    BY <1>2, TokensAre DEF StandsRight, StandsAt
  <2>2. Good(ts, n)
    BY <1>1, <1>2, <2>1, GoodOverExpr DEF UnaryKinds
  <2> QED
    BY <1>2, <2>2, AsSort DEF KindsOf, NodeSort, ExprKinds, UnaryKinds
<1> QED
  BY <1>2, NodeIs DEF UnaryNot, UnaryNeg

LEMMA MadeBinary ==
    ASSUME NEW ts, NEW l \in DOMAIN ts, NEW a, AreOf(ts, a, <<"expr", "expr">>),
           NEW node \in DOMAIN BinOp \cup DOMAIN LogOp, ts[l].type \in TokensOf(node)
    PROVE  OfSort(ts, Node(node, l, a), "expr")
<1>1. IsNode(ts, a[1], ExprKinds) /\ IsNode(ts, a[2], ExprKinds)
  BY ArgsAre, FromSort
<1>2. PICK n : n = Node(node, l, a)
  OBVIOUS
<1>3. /\ n.kind \in BinaryKinds /\ n.loc = l /\ n.left = a[1] /\ n.right = a[2]
      /\ ts[l].type \in StandsAt(n)
  <2>1. ts[l].type = node
    BY TokensAre
  <2>2. CASE node \in DOMAIN BinOp
    <3>1. n = BinaryExpr(BinOp[node], a[1], a[2], l)
      BY <1>2, <2>2, NodeIs
    <3>2. /\ n.kind = "BINARY" /\ n.loc = l /\ n.left = a[1] /\ n.right = a[2]
          /\ n.op = BinOp[node]
      BY <3>1 DEF BinaryExpr
    <3>3. StandsAt(n) = {node}
      BY <2>2, <3>2, TokenOfOp DEF StandsAt
    <3> QED
      BY <2>1, <3>2, <3>3 DEF BinaryKinds
  <2>3. CASE node \in DOMAIN LogOp
    <3>1. n = LogicalExpr(LogOp[node], a[1], a[2], l)
      BY <1>2, <2>3, NodeIs
    <3>2. /\ n.kind = "LOGICAL" /\ n.loc = l /\ n.left = a[1] /\ n.right = a[2]
          /\ n.op = LogOp[node]
      BY <3>1 DEF LogicalExpr
    <3>3. StandsAt(n) = {node}
      BY <2>3, <3>2, OpNames DEF StandsAt, LogOp
    <3> QED
      BY <2>1, <3>2, <3>3 DEF BinaryKinds
  <2> QED
    BY <2>2, <2>3
<1>4. StandsRight(ts, n)
  BY <1>3 DEF StandsRight
<1>5. Good(ts, n)
  BY <1>1, <1>3, <1>4, GoodBinary
<1> QED
  BY <1>2, <1>3, <1>5, AsSort DEF KindsOf, NodeSort, ExprKinds, BinaryKinds

LEMMA MadeOverExpr ==
    ASSUME NEW ts, NEW l \in DOMAIN ts, NEW a
    PROVE  /\ ts[l].type \in TokensOf("PRINT") /\ AreOf(ts, a, <<"expr">>)
                 => OfSort(ts, Node("PRINT", l, a), "stmt")
           /\ ts[l].type \in TokensOf("VAR_DECL") /\ AreOf(ts, a, <<"name", "expr">>)
                 => \A s \in {"stmt", "init"} : OfSort(ts, Node("VAR_DECL", l, a), s)
           /\ ts[l].type \in TokensOf("ASSIGN") /\ AreOf(ts, a, <<"name", "expr">>)
                 => \A s \in {"stmt", "init", "assign"} :
                       OfSort(ts, Node("ASSIGN", l, a), s)
           /\ ts[l].type \in TokensOf("READ_INTO") /\ AreOf(ts, a, <<"name">>)
                 => OfSort(ts, Node("READ_INTO", l, a), "stmt")
<1>1. ASSUME NEW n, NEW e, IsNode(ts, e, ExprKinds),
             \/ /\ n.kind = "PRINT" /\ n.isString = FALSE /\ n.expr = e
                /\ n.loc = l /\ ts[l].type \in TokensOf("PRINT")
             \/ /\ n.kind = "VAR_DECL" /\ n.initializer = e
                /\ n.loc = l /\ ts[l].type \in TokensOf("VAR_DECL")
             \/ /\ n.kind = "ASSIGN" /\ n.value = e
                /\ n.loc \in DOMAIN ts /\ ts[n.loc].type = "IDENTIFIER"
      PROVE  /\ OfSort(ts, n, "stmt")
             /\ n.kind \in {"VAR_DECL", "ASSIGN"} => OfSort(ts, n, "init")
             /\ n.kind = "ASSIGN" => OfSort(ts, n, "assign")
  <2>1. StandsRight(ts, n)
    BY <1>1, TokensAre DEF StandsRight, StandsAt
  <2>2. Good(ts, n)
    BY <1>1, <2>1, GoodOverExpr
  <2> QED
    BY <1>1, <2>2, AsSort DEF KindsOf, NodeSort, StmtKinds
<1>2. ASSUME ts[l].type \in TokensOf("PRINT"), AreOf(ts, a, <<"expr">>)
      PROVE  OfSort(ts, Node("PRINT", l, a), "stmt")
  <2>1. IsNode(ts, a[1], ExprKinds)
    BY <1>2, ArgsAre, FromSort
  <2>2. PICK n : n = Node("PRINT", l, a)
    OBVIOUS
  <2>3. n.kind = "PRINT" /\ n.isString = FALSE /\ n.expr = a[1] /\ n.loc = l
    BY <2>2, NodeIs DEF PrintExpr
  <2> QED
    BY <1>1, <1>2, <2>1, <2>2, <2>3
<1>3. ASSUME ts[l].type \in TokensOf("VAR_DECL"), AreOf(ts, a, <<"name", "expr">>)
      PROVE  \A s \in {"stmt", "init"} : OfSort(ts, Node("VAR_DECL", l, a), s)
  <2>1. IsNode(ts, a[2], ExprKinds)
    BY <1>3, ArgsAre, FromSort
  <2>2. PICK n : n = Node("VAR_DECL", l, a)
    OBVIOUS
  <2>3. n.kind = "VAR_DECL" /\ n.initializer = a[2] /\ n.loc = l
    BY <2>2, NodeIs DEF VarDeclStmt
  <2> QED
    BY <1>1, <1>3, <2>1, <2>2, <2>3
<1>4. ASSUME ts[l].type \in TokensOf("ASSIGN"), AreOf(ts, a, <<"name", "expr">>)
      PROVE  \A s \in {"stmt", "init", "assign"} : OfSort(ts, Node("ASSIGN", l, a), s)
  <2>1. IsNode(ts, a[2], ExprKinds) /\ ts[l].type = "IDENTIFIER"
    BY <1>4, ArgsAre, FromSort, TokensAre
  <2>2. PICK n : n = Node("ASSIGN", l, a)
    OBVIOUS
  <2>3. n.kind = "ASSIGN" /\ n.value = a[2] /\ n.loc = l
    BY <2>2, NodeIs DEF AssignStmt
  <2> QED
    BY <1>1, <2>1, <2>2, <2>3
<1>5. ASSUME ts[l].type \in TokensOf("READ_INTO"), AreOf(ts, a, <<"name">>)
      PROVE  OfSort(ts, Node("READ_INTO", l, a), "stmt")
  <2>1. a[1] \in DOMAIN ts /\ ts[a[1]].type = "IDENTIFIER"
    BY <1>5, ArgsAre DEF OfSort
  <2>2. IsNode(ts, ReadExpr(l), ExprKinds)
    BY <1>5, MadeLeaf, FromSort, TokensAre
  <2> QED
    BY <1>1, <2>1, <2>2, NodeIs, ZenonT(60) DEF AssignStmt
<1> QED
  BY <1>2, <1>3, <1>4, <1>5

LEMMA MadeOverList ==
    ASSUME NEW ts, NEW l, NEW a
    PROVE  /\ l \in DOMAIN ts /\ ts[l].type \in TokensOf("BLOCK")
              /\ AreOf(ts, a, <<"stmts">>)
                 => \A s \in {"stmt", "block"} : OfSort(ts, Node("BLOCK", l, a), s)
           /\ AreOf(ts, a, <<"label", "stmts">>) => OfSort(ts, Node("CASE", l, a), "case")
<1>1. ASSUME NEW n, n.loc \in DOMAIN ts, NEW v, IsList(ts, v, StmtKinds),
             \/ /\ n.kind = "BLOCK" /\ n.statements = v
                /\ ts[n.loc].type \in TokensOf("BLOCK")
             \/ /\ n.kind = "CASE" /\ n.body = v /\ n.value \in CInt
                /\ ts[n.loc].type = "NUMBER"
      PROVE  Good(ts, n)
  <2>1. StandsRight(ts, n)
    BY <1>1, TokensAre DEF StandsRight, StandsAt
  <2> QED
    BY <1>1, <2>1, GoodOverList
<1>2. ASSUME l \in DOMAIN ts, ts[l].type \in TokensOf("BLOCK"), AreOf(ts, a, <<"stmts">>)
      PROVE  \A s \in {"stmt", "block"} : OfSort(ts, Node("BLOCK", l, a), s)
  <2>1. IsList(ts, a[1], StmtKinds)
    BY <1>2, ArgsAre DEF OfSort
  <2>2. PICK n : n = Node("BLOCK", l, a)
    OBVIOUS
  <2>3. n.kind = "BLOCK" /\ n.statements = a[1] /\ n.loc = l
    BY <2>2, NodeIs DEF BlockStmt
  <2>4. Good(ts, n)
    BY <1>1, <1>2, <2>1, <2>3
  <2> QED
    BY <2>2, <2>3, <2>4, AsSort DEF KindsOf, NodeSort, StmtKinds
<1>3. ASSUME AreOf(ts, a, <<"label", "stmts">>)
      PROVE  OfSort(ts, Node("CASE", l, a), "case")
  <2>1. /\ IsList(ts, a[2], StmtKinds)
        /\ a[1].loc \in DOMAIN ts /\ ts[a[1].loc].type = "NUMBER" /\ a[1].int \in CInt
    BY <1>3, ArgsAre DEF OfSort
  <2>2. PICK n : n = Node("CASE", l, a)
    OBVIOUS
  <2>3. n.kind = "CASE" /\ n.body = a[2] /\ n.value = a[1].int /\ n.loc = a[1].loc
    BY <2>2, NodeIs DEF SwitchCase
  <2>4. Good(ts, n)
    BY <1>1, <2>1, <2>3
  <2> QED
    BY <2>2, <2>3, <2>4, AsSort DEF KindsOf, NodeSort
<1> QED
  BY <1>2, <1>3

LEMMA MadeIf ==
    ASSUME NEW ts, NEW l \in DOMAIN ts, ts[l].type \in TokensOf("IF"), NEW a,
           AreOf(ts, a, <<"expr", "block", "else">>), NEW s \in {"stmt", "if"}
    PROVE  OfSort(ts, Node("IF", l, a), s)
<1>1. /\ IsNode(ts, a[1], ExprKinds) /\ IsNode(ts, a[2], {"BLOCK"})
      /\ OfSort(ts, a[3], "else")
  BY ArgsAre, FromSort
<1>2. IsList(ts, a[3], {"BLOCK", "IF"}) /\ Len(a[3]) <= 1
  BY <1>1 DEF OfSort
<1>3. PICK n : n = Node("IF", l, a)
  OBVIOUS
<1>4. /\ n.kind = "IF" /\ n.loc = l /\ n.condition = a[1] /\ n.thenBranch = a[2]
      /\ n.elseBranch = a[3]
  BY <1>3, NodeIs DEF IfStmt
<1>5. StandsRight(ts, n)
  BY <1>4, TokensAre DEF StandsRight, StandsAt
<1>6. Good(ts, n)
  BY <1>1, <1>2, <1>4, <1>5, GoodIf
<1> QED
  BY <1>3, <1>4, <1>6, AsSort DEF KindsOf, NodeSort, StmtKinds

LEMMA MadeLoop ==
    ASSUME NEW ts, NEW l \in DOMAIN ts, NEW a
    PROVE  /\ ts[l].type \in TokensOf("WHILE") /\ AreOf(ts, a, <<"expr", "block">>)
                 => OfSort(ts, Node("WHILE", l, a), "stmt")
           /\ ts[l].type \in TokensOf("DO_WHILE") /\ AreOf(ts, a, <<"block", "expr">>)
                 => OfSort(ts, Node("DO_WHILE", l, a), "stmt")
<1>1. ASSUME NEW n, n.loc = l, IsNode(ts, n.condition, ExprKinds),
             IsNode(ts, n.body, {"BLOCK"}),
             \/ n.kind = "WHILE" /\ ts[l].type \in TokensOf("WHILE")
             \/ n.kind = "DO_WHILE" /\ ts[l].type \in TokensOf("DO_WHILE")
      PROVE  OfSort(ts, n, "stmt")
  <2>1. StandsRight(ts, n)
    BY <1>1, TokensAre DEF StandsRight, StandsAt
  <2>2. Good(ts, n)
    BY <1>1, <2>1, GoodLoop
  <2> QED
    BY <1>1, <2>2, AsSort DEF KindsOf, NodeSort, StmtKinds
<1>2. ASSUME ts[l].type \in TokensOf("WHILE"), AreOf(ts, a, <<"expr", "block">>)
      PROVE  OfSort(ts, Node("WHILE", l, a), "stmt")
  <2>1. IsNode(ts, a[1], ExprKinds) /\ IsNode(ts, a[2], {"BLOCK"})
    BY <1>2, ArgsAre, FromSort
  <2> QED
    BY <1>1, <1>2, <2>1, NodeIs DEF WhileStmt
<1>3. ASSUME ts[l].type \in TokensOf("DO_WHILE"), AreOf(ts, a, <<"block", "expr">>)
      PROVE  OfSort(ts, Node("DO_WHILE", l, a), "stmt")
  <2>1. IsNode(ts, a[1], {"BLOCK"}) /\ IsNode(ts, a[2], ExprKinds)
    BY <1>3, ArgsAre, FromSort
  <2> QED
    BY <1>1, <1>3, <2>1, NodeIs DEF DoWhileStmt
<1> QED
  BY <1>2, <1>3

LEMMA MadeFor ==
    ASSUME NEW ts, NEW l \in DOMAIN ts, ts[l].type \in TokensOf("FOR"), NEW a,
           AreOf(ts, a, <<"init", "expr", "assign", "block">>)
    PROVE  OfSort(ts, Node("FOR", l, a), "stmt")
<1>1. /\ IsNode(ts, a[1], {"VAR_DECL", "ASSIGN"}) /\ IsNode(ts, a[2], ExprKinds)
      /\ IsNode(ts, a[3], {"ASSIGN"}) /\ IsNode(ts, a[4], {"BLOCK"})
  BY ArgsAre, FromSort
<1>2. PICK n : n = Node("FOR", l, a)
  OBVIOUS
<1>3. /\ n.kind = "FOR" /\ n.loc = l /\ n.init = a[1] /\ n.condition = a[2]
      /\ n.update = a[3] /\ n.body = a[4]
  BY <1>2, NodeIs DEF ForStmt
<1>4. StandsRight(ts, n)
  BY <1>3, TokensAre DEF StandsRight, StandsAt
<1>5. Good(ts, n)
  BY <1>1, <1>3, <1>4, GoodFor
<1> QED
  BY <1>2, <1>3, <1>5, AsSort DEF KindsOf, NodeSort, StmtKinds

LEMMA MadeSwitch ==
    ASSUME NEW ts, NEW l \in DOMAIN ts, ts[l].type \in TokensOf("SWITCH"), NEW a,
           AreOf(ts, a, <<"expr", "cases">>)
    PROVE  OfSort(ts, Node("SWITCH", l, a), "stmt")
<1>1. IsNode(ts, a[1], ExprKinds) /\ IsList(ts, a[2], {"CASE"})
  BY ArgsAre, FromSort DEF OfSort
<1>2. PICK n : n = Node("SWITCH", l, a)
  OBVIOUS
<1>3. n.kind = "SWITCH" /\ n.loc = l /\ n.subject = a[1] /\ n.cases = a[2]
  BY <1>2, NodeIs DEF SwitchStmt
<1>4. StandsRight(ts, n)
  BY <1>3, TokensAre DEF StandsRight, StandsAt
<1>5. Good(ts, n)
  BY <1>1, <1>3, <1>4, GoodSwitch
<1> QED
  BY <1>2, <1>3, <1>5, AsSort DEF KindsOf, NodeSort, StmtKinds

LEMMA MadeList ==
    ASSUME NEW ts, NEW l, NEW a
    PROVE  /\ \A s \in {"stmts", "cases", "none"} : OfSort(ts, Node("LIST", l, a), s)
           /\ AreOf(ts, a, <<"stmts", "stmt">>) => OfSort(ts, Node("ITEM", l, a), "stmts")
           /\ AreOf(ts, a, <<"cases", "case">>) => OfSort(ts, Node("ITEM", l, a), "cases")
           /\ \A s \in {"block", "if"} :
                 AreOf(ts, a, <<"none", s>>) => OfSort(ts, Node("ITEM", l, a), "else")
<1>1. \A s \in {"stmts", "cases", "none"} : OfSort(ts, Node("LIST", l, a), s)
  BY NodeIs, EmptyList DEF OfSort, NodeSort
<1>2. Node("ITEM", l, a) = Append(a[1], a[2])
  BY NodeIs
<1>3. ASSUME AreOf(ts, a, <<"stmts", "stmt">>)
      PROVE  OfSort(ts, Node("ITEM", l, a), "stmts")
  <2>1. IsList(ts, a[1], StmtKinds) /\ IsNode(ts, a[2], StmtKinds)
    BY <1>3, ArgsAre, FromSort DEF OfSort
  <2>2. IsList(ts, Append(a[1], a[2]), StmtKinds)
    BY <2>1, LongerList
  <2> QED
    BY <1>2, <2>2 DEF OfSort, NodeSort
<1>4. ASSUME AreOf(ts, a, <<"cases", "case">>)
      PROVE  OfSort(ts, Node("ITEM", l, a), "cases")
  <2>1. IsList(ts, a[1], {"CASE"}) /\ IsNode(ts, a[2], {"CASE"})
    BY <1>4, ArgsAre, FromSort DEF OfSort
  <2>2. IsList(ts, Append(a[1], a[2]), {"CASE"})
    BY <2>1, LongerList
  <2> QED
    BY <1>2, <2>2 DEF OfSort, NodeSort
<1>5. ASSUME NEW s \in {"block", "if"}, AreOf(ts, a, <<"none", s>>)
      PROVE  OfSort(ts, Node("ITEM", l, a), "else")
  <2>1. OfSort(ts, a[1], "none") /\ OfSort(ts, a[2], s)
    BY <1>5, ArgsAre
  <2>2. a[1] = << >>
    BY <2>1 DEF OfSort
  <2>3. IsNode(ts, a[2], {"BLOCK", "IF"})
    BY <2>1, FromSort DEF IsNode
  <2>4. IsList(ts, a[1], {"BLOCK", "IF"})
    BY <2>2, EmptyList, Zenon
  <2>5. PICK v, n, w : v = a[1] /\ n = a[2] /\ w = Append(v, n)
    OBVIOUS
  <2>6. IsList(ts, w, {"BLOCK", "IF"}) /\ Len(w) = Len(v) + 1
    BY <2>3, <2>4, <2>5, LongerList
  <2>7. Len(v) = 0
    BY <2>2, <2>5
  <2>8. Len(w) <= 1
    BY <2>6, <2>7
  <2>9. OfSort(ts, w, "else")
    BY <2>6, <2>8 DEF OfSort, NodeSort
  <2> QED
    BY <1>2, <2>5, <2>9
<1> QED
  BY <1>1, <1>3, <1>4, <1>5

LEMMA MadeNode ==
    ASSUME NEW ts, NEW node, NEW l, NEW t, NEW s, NodeYields(node, t, s),
           node \notin {"LIST", "ITEM", "CASE"}
               => l \in DOMAIN ts /\ ts[l].type \in TokensOf(node),
           NEW a, AreOf(ts, a, t)
    PROVE  OfSort(ts, Node(node, l, a), s)
<1>1. CASE node \in {"LIST", "ITEM"}
  BY <1>1, MadeList, OpNames DEF NodeYields
<1>2. CASE node \in {"READ", "BREAK", "CONTINUE"}
  BY <1>2, MadeLeaf, NodeIs, OpNames DEF NodeYields
<1>3. CASE node \in {"HINDI", "NEGATE"}
  BY <1>3, MadeUnary, OpNames DEF NodeYields
<1>4. CASE node \in DOMAIN BinOp \cup DOMAIN LogOp
  <2>1. t = <<"expr", "expr">> /\ s = "expr" /\ node \notin {"LIST", "ITEM", "CASE"}
    BY <1>4, OpNames DEF NodeYields
  <2> QED
    BY <1>4, <2>1, MadeBinary
<1>5. CASE node \in {"PRINT", "VAR_DECL", "ASSIGN", "READ_INTO"}
  BY <1>5, MadeOverExpr, OpNames DEF NodeYields
<1>6. CASE node \in {"BLOCK", "CASE"}
  BY <1>6, MadeOverList, OpNames DEF NodeYields
<1>7. CASE node = "IF"
  BY <1>7, MadeIf, OpNames DEF NodeYields
<1>8. CASE node \in {"WHILE", "DO_WHILE"}
  BY <1>8, MadeLoop, OpNames DEF NodeYields
<1>9. CASE node = "FOR"
  BY <1>9, MadeFor, OpNames DEF NodeYields
<1>10. CASE node = "SWITCH"
  BY <1>10, MadeSwitch, OpNames DEF NodeYields
<1> QED
  BY <1>1, <1>2, <1>3, <1>4, <1>5, <1>6, <1>7, <1>8, <1>9, <1>10 DEF NodeYields

LEMMA ArityIs ==
    ASSUME NEW node, NEW t, NEW s, NodeYields(node, t, s)
    PROVE  Arity(node) = Len(t)
<1>1. CASE node \in DOMAIN BinOp \cup DOMAIN LogOp
  <2>1. t = <<"expr", "expr">>
    BY <1>1, OpNames DEF NodeYields
  <2> QED
    BY <1>1, <2>1, OpNames DEF Arity
<1>2. CASE node \in {"LIST", "READ", "BREAK", "CONTINUE"}
  BY <1>2, OpNames DEF NodeYields, Arity
<1>3. CASE node \in {"HINDI", "NEGATE", "PRINT", "BLOCK", "READ_INTO"}
  BY <1>3, OpNames DEF NodeYields, Arity
<1>4. CASE node \in {"ITEM", "VAR_DECL", "ASSIGN", "WHILE", "DO_WHILE", "CASE", "SWITCH"}
  BY <1>4, OpNames DEF NodeYields, Arity
<1>5. CASE node \in {"IF", "FOR"}
  BY <1>5, OpNames DEF NodeYields, Arity
<1> QED
  BY <1>1, <1>2, <1>3, <1>4, <1>5 DEF NodeYields

-----------------------------------------------------------------------------
(* The value stack.                                                        *)

Matches(ts, vs, P) == \E V : vs \in Seq(V) /\ Len(vs) = Len(P) /\ AreOf(ts, vs, P)

LEMMA MatchesEmpty ==
    ASSUME NEW ts
    PROVE  Matches(ts, << >>, << >>) /\ << >> \in Seq(Sort)
BY DEF Matches, AreOf

LEMMA MatchesAppend ==
    ASSUME NEW ts, NEW vs, NEW P \in Seq(Sort), Matches(ts, vs, P), NEW v,
           NEW s \in Sort, OfSort(ts, v, s)
    PROVE  Matches(ts, Append(vs, v), Append(P, s))
<1>1. PICK V : vs \in Seq(V) /\ Len(vs) = Len(P) /\ AreOf(ts, vs, P)
  BY DEF Matches
<1> DEFINE W == V \cup {v}
<1>2. vs \in Seq(W) /\ v \in W
  BY <1>1, SeqMonotonic
<1> HIDE DEF W
<1>3. PICK n \in Nat : Len(vs) = n /\ Len(P) = n
  BY <1>1, LenProperties
<1>4. PICK ws \in Seq(W) : ws = Append(vs, v)
  BY <1>2, AppendProperties
<1>5. Len(ws) = n + 1 /\ ws[n + 1] = v /\ \A i \in 1 .. n : ws[i] = vs[i]
  BY <1>2, <1>3, <1>4, AppendProperties
<1>6. PICK Q \in Seq(Sort) : Q = Append(P, s)
  BY AppendProperties
<1>7. Len(Q) = n + 1 /\ Q[n + 1] = s /\ \A i \in 1 .. n : Q[i] = P[i]
  BY <1>3, <1>6, AppendProperties
<1>8. ASSUME NEW i \in 1 .. n + 1
      PROVE  OfSort(ts, ws[i], Q[i])
  <2>1. CASE i = n + 1
    BY <1>5, <1>7, <2>1
  <2>2. CASE i # n + 1
    <3>1. i \in 1 .. n
      BY <2>2
    <3>2. OfSort(ts, vs[i], P[i])
      BY <1>1, <1>3, <3>1, Zenon DEF AreOf
    <3> QED
      BY <1>5, <1>7, <3>1, <3>2, Zenon
  <2> QED
    BY <2>1, <2>2, Zenon
<1>9. AreOf(ts, ws, Q)
  BY <1>7, <1>8, Zenon DEF AreOf
<1> QED
  BY <1>4, <1>5, <1>6, <1>7, <1>9, Zenon DEF Matches

\* The values of the last sorts are the last values.
LEMMA MatchesSplit ==
    ASSUME NEW ts, NEW vs, NEW B \in Seq(Sort), NEW t \in Seq(Sort),
           Matches(ts, vs, B \o t), NEW k, k = Len(vs) - Len(t)
    PROVE  /\ Matches(ts, SubSeq(vs, 1, k), B)
           /\ AreOf(ts, SubSeq(vs, k + 1, Len(vs)), t)
<1>1. PICK V : vs \in Seq(V) /\ Len(vs) = Len(B \o t) /\ AreOf(ts, vs, B \o t)
  BY DEF Matches
<1>2. PICK b \in Nat : Len(B) = b
  BY LenProperties
<1>3. PICK m \in Nat : Len(t) = m
  BY LenProperties
<1>4. PICK P \in Seq(Sort) : P = B \o t
  BY ConcatProperties
<1>5. /\ Len(P) = b + m
      /\ \A i \in 1 .. b + m : P[i] = IF i <= b THEN B[i] ELSE t[i - b]
  BY <1>2, <1>3, <1>4, ConcatProperties
<1>6. k = b /\ Len(vs) = b + m
  BY <1>1, <1>2, <1>3, <1>4, <1>5
<1>7. \A i \in 1 .. b + m : vs[i] \in V /\ OfSort(ts, vs[i], P[i])
  BY <1>1, <1>4, <1>5, <1>6, ElementOfSeq DEF AreOf
<1>8. PICK u : u = SubSeq(vs, 1, k)
  OBVIOUS
<1>9. u \in Seq(V) /\ Len(u) = b /\ \A i \in 1 .. b : u[i] = vs[i]
  BY <1>6, <1>7, <1>8, SubSeqProperties
<1>10. \A i \in 1 .. b : OfSort(ts, u[i], B[i])
  <2> TAKE i \in 1 .. b
  <2>1. i \in 1 .. b + m /\ P[i] = B[i]
    BY <1>5
  <2> QED
    BY <1>7, <1>9, <2>1, Zenon
<1>11. Matches(ts, u, B)
  BY <1>2, <1>9, <1>10, Zenon DEF Matches, AreOf
<1>12. PICK a : a = SubSeq(vs, k + 1, Len(vs))
  OBVIOUS
<1>13. \A i \in 1 .. m : a[i] = vs[b + i]
  <2>1. \A i \in b + 1 .. b + m : vs[i] \in V
    BY <1>7
  <2>2. \A i \in 1 .. (b + m) - (b + 1) + 1 :
            SubSeq(vs, b + 1, b + m)[i] = vs[b + 1 + i - 1]
    BY <2>1, SubSeqProperties, SMTT(30)
  <2>3. a = SubSeq(vs, b + 1, b + m)
    BY <1>6, <1>12
  <2> QED
    BY <2>2, <2>3
<1>14. \A i \in 1 .. m : OfSort(ts, a[i], t[i])
  <2> TAKE i \in 1 .. m
  <2>1. b + i \in 1 .. b + m /\ ~(b + i <= b) /\ b + i - b = i
    OBVIOUS
  <2>2. P[b + i] = t[i]
    BY <1>5, <2>1
  <2> QED
    BY <1>7, <1>13, <2>1, <2>2, Zenon
<1>15. AreOf(ts, a, t)
  BY <1>3, <1>14, Zenon DEF AreOf
<1> QED
  BY <1>8, <1>11, <1>12, <1>15, Zenon

\* A missing else branch.
LEMMA MatchesElse ==
    ASSUME NEW ts, NEW vs, NEW B \in Seq(Sort), Matches(ts, vs, Append(B, "none"))
    PROVE  Matches(ts, vs, Append(B, "else"))
<1>1. "none" \in Sort /\ "else" \in Sort
  BY RuleNames
<1>2. PICK P \in Seq(Sort) : P = Append(B, "none")
  BY <1>1, AppendProperties
<1>3. PICK Q \in Seq(Sort) : Q = Append(B, "else")
  BY <1>1, AppendProperties
<1>4. PICK n \in Nat : Len(B) = n
  BY LenProperties
<1>5. /\ Len(P) = n + 1 /\ Len(Q) = n + 1 /\ P[n + 1] = "none" /\ Q[n + 1] = "else"
      /\ \A i \in 1 .. n : P[i] = B[i] /\ Q[i] = B[i]
  BY <1>1, <1>2, <1>3, <1>4, AppendProperties
<1>6. PICK V : vs \in Seq(V) /\ Len(vs) = Len(P) /\ AreOf(ts, vs, P)
  BY <1>2 DEF Matches
<1>7. ASSUME NEW v, OfSort(ts, v, "none")
      PROVE  OfSort(ts, v, "else")
  <2>1. v = << >>
    BY <1>7 DEF OfSort
  <2>2. IsList(ts, v, {"BLOCK", "IF"}) /\ Len(v) <= 1
    BY <2>1, EmptyList
  <2> QED
    BY <2>2 DEF OfSort, NodeSort
<1>8. ASSUME NEW i \in 1 .. n + 1
      PROVE  OfSort(ts, vs[i], Q[i])
  <2>1. OfSort(ts, vs[i], P[i])
    BY <1>5, <1>6, Zenon DEF AreOf
  <2>2. CASE i = n + 1
    BY <1>5, <1>7, <2>1, <2>2
  <2>3. CASE i # n + 1
    BY <1>5, <2>1, <2>3
  <2> QED
    BY <2>2, <2>3, Zenon
<1>9. AreOf(ts, vs, Q)
  BY <1>5, <1>8, Zenon DEF AreOf
<1> QED
  BY <1>3, <1>5, <1>6, <1>9, Zenon DEF Matches

-----------------------------------------------------------------------------
(* What the goal on top does.                                              *)

\* What a rule on top makes of the sorts P.
RuleSays(r, P, Q) ==
    /\ r \in {"statement", "printed"} => Q = Append(P, "stmt")
    /\ r = "requireBlock" => Q = Append(P, "block")
    /\ r = "init" => Q = Append(P, "init")
    /\ r = "update" => Q = Append(P, "assign")
    /\ r = "label" => Q = Append(P, "label")
    /\ r \in {"expression", "logicalNot", "unary", "primary"} \cup Level
          => Q = Append(P, "expr")
    /\ r \in {"statements", "caseBody"} =>
          Q = P /\ \E B \in Seq(Sort) : P = Append(B, "stmts")
    /\ r = "cases" => Q = P /\ \E B \in Seq(Sort) : P = Append(B, "cases")
    /\ r = "else" => \E B \in Seq(Sort) : P = Append(B, "none") /\ Q = Append(B, "else")
    /\ r = "switchBody" =>
          \E B \in Seq(Sort) : P = Append(B, "expr") /\ Q = Append(B, "stmt")

LEMMA RuleIs ==
    ASSUME NEW A, NEW g, NEW P \in Seq(Sort), NEW Q, Step(A, g, P, Q), g.do = "parse"
    PROVE  RuleSays(g.arg, P, Q)
<1> DEFINE r == g.arg
<1>0. /\ ~Quiet(g)
      /\ \A t, s : Yields(g, t, s) => RuleYields(r, t, s)
  BY DEF Quiet, Yields
<1> HIDE DEF r
<1>1. PICK B \in Seq(Sort), t \in Seq(Sort), s \in Sort :
          RuleYields(r, t, s) /\ P = B \o t /\ Q = Append(B, s)
  BY <1>0 DEF Step, Turns
<1>2. /\ B \o << >> = B
      /\ \A x \in Sort : B \o <<x>> = Append(B, x)
  BY Sorts
<1>3. {"stmts", "cases", "none", "expr"} \subseteq Sort
  BY RuleNames
<1>4. /\ r \in {"statement", "printed"} => t = << >> /\ s = "stmt"
      /\ r = "requireBlock" => t = << >> /\ s = "block"
      /\ r = "init" => t = << >> /\ s = "init"
      /\ r = "update" => t = << >> /\ s = "assign"
      /\ r = "label" => t = << >> /\ s = "label"
      /\ r \in {"expression", "logicalNot", "unary", "primary"} \cup Level
            => t = << >> /\ s = "expr"
  BY <1>1, LevelDomain DEF RuleYields
<1>5. /\ r \in {"statements", "caseBody"} => t = <<"stmts">> /\ s = "stmts"
      /\ r = "cases" => t = <<"cases">> /\ s = "cases"
      /\ r = "else" => t = <<"none">> /\ s = "else"
      /\ r = "switchBody" => t = <<"expr">> /\ s = "stmt"
  BY <1>1, LevelDomain DEF RuleYields
<1>6. t = << >> => P = B
  BY <1>1, <1>2
<1>7. /\ t = <<"stmts">> => P = Append(B, "stmts")
      /\ t = <<"cases">> => P = Append(B, "cases")
      /\ t = <<"none">> => P = Append(B, "none")
      /\ t = <<"expr">> => P = Append(B, "expr")
  BY <1>1, <1>2, <1>3
<1>8. RuleSays(r, P, Q)
  BY <1>1, <1>4, <1>5, <1>6, <1>7, Zenon DEF RuleSays
<1> QED
  BY <1>8 DEF r

LEMMA RepeatIs ==
    ASSUME NEW A, NEW g, NEW P \in Seq(Sort), NEW Q, g.do = "repeat", Step(A, g, P, Q)
    PROVE  Q = P /\ \E B \in Seq(Sort) : P = Append(B, "expr")
<1>1. PICK B \in Seq(Sort), t \in Seq(Sort), s \in Sort :
          t = <<"expr">> /\ s = "expr" /\ P = B \o t /\ Q = Append(B, s)
  BY DEF Step, Turns, Quiet, Yields
<1>2. B \o <<"expr">> = Append(B, "expr")
  BY Sorts, RuleNames
<1> QED
  BY <1>1, <1>2

LEMMA TakeIs ==
    ASSUME NEW A, NEW g, NEW P \in Seq(Sort), NEW Q, Step(A, g, P, Q)
    PROVE  /\ g.do = "leave" => Q = P
           /\ g.do = "take" /\ g.arg # "IDENTIFIER" => Q = P
           /\ g.do = "take" /\ g.arg = "IDENTIFIER" => Q = Append(P, "name")
<1>1. CASE Quiet(g) /\ P = Q
  BY <1>1 DEF Quiet
<1>2. ASSUME NEW B \in Seq(Sort), NEW t \in Seq(Sort), NEW s \in Sort,
             Yields(g, t, s), P = B \o t, Q = Append(B, s)
      PROVE  /\ g.do # "leave"
             /\ g.do = "take" => g.arg = "IDENTIFIER" /\ Q = Append(P, "name")
  <2>1. g.do # "leave"
    BY <1>2 DEF Yields
  <2>2. g.do = "take" => g.arg = "IDENTIFIER" /\ t = << >> /\ s = "name"
    BY <1>2 DEF Yields
  <2>3. B \o << >> = B
    BY ConcatEmptySeq
  <2> QED
    BY <1>2, <2>1, <2>2, <2>3
<1> QED
  BY <1>1, <1>2 DEF Step, Turns

-----------------------------------------------------------------------------
(* The invariant.                                                          *)

Awaits(p) == \E P \in Seq(Sort) : /\ Matches(tokens, values, P)
                                  /\ Typed(Placed(tokens, p), goals, P)

TreeInv ==
    /\ phase \in {"top", "sync"} => values = << >>
    /\ phase = "parse" => \/ Awaits(0)
                          \/ goals # << >> /\ Goal = Take("IDENTIFIER") /\ Awaits(current)
    /\ IsList(tokens, program, StmtKinds)

\* The kinds of steps: a function goes on, it begins an assignment whose name
\* it has not seen, it returns, or it throws.
Unfolds(p, gs) ==
    \A P, Q \in Seq(Sort) :
        Matches(tokens, values, P) /\ Step(Placed(tokens, 0), Goal, P, Q)
            => \E R \in Seq(Sort) : /\ Matches(tokens, values, R)
                                    /\ Runs(Placed(tokens, p), gs, R, Q)

Grows ==
    /\ UNCHANGED <<tokens, phase, values, program>>
    /\ \E gs : goals' = Pushed(gs) /\ Unfolds(0, gs)

Ventures ==
    /\ UNCHANGED <<tokens, phase, current, values, program>>
    /\ goals' # << >> /\ Goal' = Take("IDENTIFIER")
    /\ \E gs : goals' = Pushed(gs) /\ Unfolds(current, gs)

Returns ==
    /\ UNCHANGED <<tokens, phase, program>>
    /\ goals' = Rest
    /\ \E v : /\ values' = Append(values, v)
              /\ \A P, Q \in Seq(Sort) :
                    Step(Placed(tokens, 0), Goal, P, Q)
                        => \E s \in Sort : Q = Append(P, s) /\ OfSort(tokens, v, s)

Throws == phase' = "unwind" /\ UNCHANGED <<tokens, program>>

TreeStep == Grows \/ Ventures \/ Returns \/ Throws

\* The tokens.
LEMMA TokensIn ==
    ASSUME ParserTypeOK
    PROVE  /\ DOMAIN tokens \subseteq Nat /\ 0 \notin DOMAIN tokens
           /\ current \in DOMAIN tokens /\ current \in Nat
           /\ tokens[current].type = Peek
<1>1. Len(tokens) \in Nat \ {0} /\ DOMAIN tokens = 1 .. Len(tokens)
  BY TokensLemma DEF ParserTypeOK
<1> QED
  BY <1>1, InTokens DEF Peek

LEMMA TopGoal ==
    ASSUME goals # << >>, NEW p, Awaits(p), DOMAIN tokens \subseteq Nat
    PROVE  \E P, Q \in Seq(Sort) :
               /\ Matches(tokens, values, P)
               /\ Step(Placed(tokens, p), Goal, P, Q)
               /\ Typed(Placed(tokens, p), Rest, Q)
<1>1. PICK P \in Seq(Sort) :
          Matches(tokens, values, P) /\ Typed(Placed(tokens, p), goals, P)
  BY DEF Awaits
<1>2. Placed(tokens, p) \in SUBSET AnyGoal
  BY PlacedGoals
<1>3. PICK Q \in Seq(Sort) : /\ Step(Placed(tokens, p), Last(goals), P, Q)
                            /\ Typed(Placed(tokens, p), Front(goals), Q)
  BY <1>1, <1>2, TypedTop, Zenon
<1> QED
  BY <1>1, <1>3, Zenon DEF Goal, Rest

LEMMA GrowsTree ==
    ASSUME ParserTypeOK, TreeInv, goals # << >>, Awaits(0), Grows
    PROVE  TreeInv'
<1>1. PICK P, Q \in Seq(Sort) : /\ Matches(tokens, values, P)
                                /\ Step(Placed(tokens, 0), Goal, P, Q)
                                /\ Typed(Placed(tokens, 0), Rest, Q)
  BY TopGoal, TokensIn
<1>2. PICK gs : goals' = Pushed(gs) /\ Unfolds(0, gs)
  BY DEF Grows
<1>3. PICK R \in Seq(Sort) : Matches(tokens, values, R) /\ Runs(Placed(tokens, 0), gs, R, Q)
  BY <1>1, <1>2, Zenon DEF Unfolds
<1>4. Typed(Placed(tokens, 0), Rest \o Reverse(gs), R)
  BY <1>1, <1>3, TypedPush, PlacedGoals, Zenon
<1>5. Typed(Placed(tokens, 0), goals', R)
  BY <1>2, <1>4, Zenon DEF Pushed
<1>6. tokens' = tokens /\ values' = values /\ phase' = phase /\ program' = program
  BY DEF Grows
<1>7. Awaits(0)'
  BY <1>3, <1>5, <1>6, Zenon DEF Awaits
<1> QED
  BY <1>6, <1>7, Zenon DEF TreeInv

LEMMA NamesTree ==
    ASSUME ParserTypeOK, TreeInv, goals # << >>, Awaits(0), Ventures
    PROVE  TreeInv'
<1>1. PICK P, Q \in Seq(Sort) : /\ Matches(tokens, values, P)
                                /\ Step(Placed(tokens, 0), Goal, P, Q)
                                /\ Typed(Placed(tokens, 0), Rest, Q)
  BY TopGoal, TokensIn
<1>2. PICK gs : goals' = Pushed(gs) /\ Unfolds(current, gs)
  BY DEF Ventures
<1>3. PICK R \in Seq(Sort) :
          Matches(tokens, values, R) /\ Runs(Placed(tokens, current), gs, R, Q)
  BY <1>1, <1>2, Zenon DEF Unfolds
<1>4. Typed(Placed(tokens, current), Rest, Q)
  BY <1>1, PlacedGrows, TokensIn, TypedMore, Zenon
<1>5. Typed(Placed(tokens, current), Rest \o Reverse(gs), R)
  BY <1>3, <1>4, TypedPush, PlacedGoals, Zenon
<1>6. Typed(Placed(tokens, current), goals', R)
  BY <1>2, <1>5, Zenon DEF Pushed
<1>7. /\ tokens' = tokens /\ values' = values /\ phase' = phase /\ program' = program
      /\ current' = current /\ goals' # << >> /\ Goal' = Take("IDENTIFIER")
  BY DEF Ventures
<1>8. Awaits(current)'
  BY <1>3, <1>6, <1>7, Zenon DEF Awaits
<1>9. Take("IDENTIFIER")' = Take("IDENTIFIER")
  BY DEF Take
<1> QED
  BY <1>7, <1>8, <1>9, Zenon DEF TreeInv

LEMMA ReturnsTree ==
    ASSUME ParserTypeOK, TreeInv, phase = "parse", goals # << >>, Awaits(0), Returns
    PROVE  TreeInv'
<1>1. PICK P, Q \in Seq(Sort) : /\ Matches(tokens, values, P)
                                /\ Step(Placed(tokens, 0), Goal, P, Q)
                                /\ Typed(Placed(tokens, 0), Rest, Q)
  BY TopGoal, TokensIn
<1>2. PICK v : /\ values' = Append(values, v)
               /\ \A S, T \in Seq(Sort) :
                     Step(Placed(tokens, 0), Goal, S, T)
                        => \E s \in Sort : T = Append(S, s) /\ OfSort(tokens, v, s)
  BY Zenon DEF Returns
<1>3. PICK s \in Sort : Q = Append(P, s) /\ OfSort(tokens, v, s)
  BY <1>1, <1>2, Zenon
<1>4. Matches(tokens, values', Q)
  BY <1>1, <1>2, <1>3, MatchesAppend, Zenon
<1>5. tokens' = tokens /\ phase' = "parse" /\ program' = program /\ goals' = Rest
  BY DEF Returns
<1>6. Awaits(0)'
  BY <1>1, <1>4, <1>5, Zenon DEF Awaits
<1>7. phase' \notin {"top", "sync"}
  BY <1>5
<1> QED
  BY <1>5, <1>6, <1>7, Zenon DEF TreeInv

LEMMA StepTree ==
    ASSUME ParserTypeOK, TreeInv, phase = "parse", goals # << >>, Awaits(0), TreeStep
    PROVE  TreeInv'
<1>1. CASE Throws
  <2>1. phase' \notin {"top", "sync", "parse"} /\ tokens' = tokens /\ program' = program
    BY <1>1 DEF Throws
  <2> QED
    BY <2>1 DEF TreeInv
<1> QED
  BY <1>1, GrowsTree, NamesTree, ReturnsTree DEF TreeStep

-----------------------------------------------------------------------------
(* The kind of each step.                                                  *)

LEMMA UnfoldsSame ==
    ASSUME NEW p, NEW gs,
           \A P, Q \in Seq(Sort) :
               Step(Placed(tokens, 0), Goal, P, Q) => Runs(Placed(tokens, p), gs, P, Q)
    PROVE  Unfolds(p, gs)
BY Zenon DEF Unfolds

LEMMA ExpandGrows ==
    ASSUME NEW n, NEW gs, Expand(n, gs), Unfolds(0, gs)
    PROVE  TreeStep
BY DEF Expand, TreeStep, Grows

LEMMA GuardedGrows ==
    ASSUME NEW c, NEW n, NEW l, NEW gs, Guarded(c, n, l, gs), Unfolds(0, gs \o <<Leave(c)>>)
    PROVE  TreeStep
<1>1. CASE Allows(c)
  BY <1>1 DEF Guarded, TreeStep, Grows
<1>2. CASE ~Allows(c)
  BY <1>2 DEF Guarded, Raise, TreeStep, Throws
<1> QED
  BY <1>1, <1>2

LEMMA ThrowThrows ==
    ASSUME NEW n, NEW e, Throw(n, e)
    PROVE  TreeStep
BY DEF Throw, Raise, TreeStep, Throws

LEMMA ReturnReturns ==
    ASSUME NEW n, NEW v, Return(n, v),
           \A P, Q \in Seq(Sort) :
               Step(Placed(tokens, 0), Goal, P, Q)
                   => \E s \in Sort : Q = Append(P, s) /\ OfSort(tokens, v, s)
    PROVE  TreeStep
BY DEF Return, TreeStep, Returns

\* The goals that stand at the token looked at.
LEMMA PlacedHere ==
    ASSUME ParserTypeOK
    PROVE  /\ Placed(tokens, 0) \in SUBSET AnyGoal /\ Common \subseteq Placed(tokens, 0)
           /\ \A node \in NodeName :
                 Peek \in TokensOf(node) => Build(node, current) \in Placed(tokens, 0)
           /\ \A r \in {"switchBody", "printed"} :
                 Peek \in TokensOf(r) => Parse(r, current) \in Placed(tokens, 0)
<1>1. ASSUME NEW node \in NodeName, Peek \in TokensOf(node)
      PROVE  Build(node, current) \in Placed(tokens, 0)
  BY <1>1, TokensIn, PlacedBuild
<1>2. ASSUME NEW r \in {"switchBody", "printed"}, Peek \in TokensOf(r)
      PROVE  Parse(r, current) \in Placed(tokens, 0)
  BY <1>2, TokensIn, PlacedParse
<1> QED
  BY <1>1, <1>2, PlacedGoals

LEMMA EnterBlockStep ==
    ASSUME ParserTypeOK, EnterBlock, Check("LEFT_BRACE"), NEW s \in {"stmt", "block"},
           \A P, Q \in Seq(Sort) : Step(Placed(tokens, 0), Goal, P, Q) => Q = Append(P, s)
    PROVE  TreeStep
<1>1. Build("BLOCK", current) \in Placed(tokens, 0)
  BY PlacedHere, TokensAre, Names DEF Check
<1>2. Unfolds(0, Statements \o <<Leave("nesting")>>)
  BY <1>1, BlockRuns, PlacedHere, UnfoldsSame
<1> QED
  BY <1>2, GuardedGrows DEF EnterBlock

LEMMA SentenceUnfolds ==
    ASSUME ParserTypeOK, Peek \in StatementStarts,
           \A P, Q \in Seq(Sort) :
               Step(Placed(tokens, 0), Goal, P, Q) => Q = Append(P, "stmt")
    PROVE  Unfolds(0, Sentence(Peek, current))
<1> DEFINE A == Placed(tokens, 0)
<1>1. /\ Peek = "ITAKDA" => Build("VAR_DECL", current) \in A
      /\ Peek = "KUNG" => Build("IF", current) \in A
      /\ Peek = "HABANG" => Build("WHILE", current) \in A
      /\ Peek = "GAWIN" => Build("DO_WHILE", current) \in A
      /\ Peek = "PARA" => Build("FOR", current) \in A
      /\ Peek = "PILI" => Parse("switchBody", current) \in A
      /\ Peek = "TIGIL" => Build("BREAK", current) \in A
      /\ Peek = "SUNOD" => Build("CONTINUE", current) \in A
      /\ Peek \in {"BASAHIN", "KUNIN"} => Build("READ_INTO", current) \in A
      /\ Peek \in {"ISULAT", "IPAKITA"} => Parse("printed", current) \in A
  BY PlacedHere, TokensAre, Names
<1>2. A \in SUBSET AnyGoal /\ Common \subseteq A
  BY PlacedHere
<1> HIDE DEF A
<1>3. ASSUME NEW P \in Seq(Sort)
      PROVE  Runs(A, Sentence(Peek, current), P, Append(P, "stmt"))
  BY <1>1, <1>2, SentenceRuns
<1>4. ASSUME NEW P \in Seq(Sort), NEW Q \in Seq(Sort), Step(A, Goal, P, Q)
      PROVE  Runs(A, Sentence(Peek, current), P, Q)
  BY <1>3, <1>4 DEF A
<1> QED
  BY <1>4, UnfoldsSame DEF A

\* The rule on top turns the sorts as RuleIs says.
LEMMA OnTop ==
    ASSUME ParserTypeOK, NEW r, Parsing(r), NEW P \in Seq(Sort), NEW Q \in Seq(Sort),
           Step(Placed(tokens, 0), Goal, P, Q)
    PROVE  RuleSays(r, P, Q)
<1>1. Goal.do = "parse" /\ Goal.arg = r
  BY DEF Parsing
<1>2. RuleSays(Goal.arg, P, Q)
  BY <1>1, RuleIs
<1> QED
  BY <1>1, <1>2

LEMMA StatementStep == ParserTypeOK /\ Statement => TreeStep
<1> SUFFICES ASSUME ParserTypeOK, Statement PROVE TreeStep
  OBVIOUS
<1>1. Parsing("statement")
  BY DEF Statement
<1>2. \A P, Q \in Seq(Sort) :
          Step(Placed(tokens, 0), Goal, P, Q) => Q = Append(P, "stmt")
  BY <1>1, OnTop DEF RuleSays
<1>3. CASE Peek \in StatementStarts /\ Expand(1, Sentence(Peek, current))
  BY <1>2, <1>3, SentenceUnfolds, ExpandGrows
<1>4. CASE Check("LEFT_BRACE") /\ EnterBlock
  BY <1>2, <1>4, EnterBlockStep
<1>5. CASE Check("IDENTIFIER") /\ Expand(0, Assign(current))
  <2>1. Build("ASSIGN", current) \in Placed(tokens, 0)
    BY <1>5, PlacedHere, TokensAre, Names DEF Check
  <2>2. Unfolds(0, Assign(current))
    <3>1. \A P \in Seq(Sort) :
              Runs(Placed(tokens, 0), Assign(current), P, Append(P, "stmt"))
      BY <2>1, AssignRuns, PlacedHere
    <3> QED
      BY <1>2, <3>1, UnfoldsSame
  <2> QED
    BY <1>5, <2>2, ExpandGrows
<1>6. CASE Throw(0, At("statement", current))
  BY <1>6, ThrowThrows
<1> QED
  BY <1>3, <1>4, <1>5, <1>6 DEF Statement

LEMMA RequireBlockStep == ParserTypeOK /\ RequireBlock => TreeStep
<1> SUFFICES ASSUME ParserTypeOK, RequireBlock PROVE TreeStep
  OBVIOUS
<1>1. Parsing("requireBlock")
  BY DEF RequireBlock
<1>2. \A P, Q \in Seq(Sort) :
          Step(Placed(tokens, 0), Goal, P, Q) => Q = Append(P, "block")
  BY <1>1, OnTop DEF RuleSays
<1> QED
  BY <1>2, EnterBlockStep, ThrowThrows DEF RequireBlock

LEMMA EmptyUnfolds ==
    ASSUME ParserTypeOK, \A P, Q \in Seq(Sort) : Step(Placed(tokens, 0), Goal, P, Q) => Q = P
    PROVE  Unfolds(0, << >>)
BY Runs0, PlacedHere, UnfoldsSame

LEMMA StatementListStep == ParserTypeOK /\ StatementList => TreeStep
<1> SUFFICES ASSUME ParserTypeOK, StatementList PROVE TreeStep
  OBVIOUS
<1>1. PICK r \in {"statements", "caseBody"} : Parsing(r)
  BY DEF StatementList
<1>2. ASSUME NEW P \in Seq(Sort), NEW Q \in Seq(Sort), Step(Placed(tokens, 0), Goal, P, Q)
      PROVE  Q = P /\ \E B \in Seq(Sort) : P = Append(B, "stmts")
  BY <1>1, <1>2, OnTop DEF RuleSays
<1>3. CASE Expand(0, << >>)
  BY <1>2, <1>3, EmptyUnfolds, ExpandGrows
<1>4. CASE Expand(0, <<Parse("statement", 0), Item, Goal>>)
  <2>1. ASSUME NEW P \in Seq(Sort), NEW Q \in Seq(Sort),
               Step(Placed(tokens, 0), Goal, P, Q)
        PROVE  Runs(Placed(tokens, 0), <<Parse("statement", 0), Item, Goal>>, P, Q)
    <3>1. PICK B \in Seq(Sort) : Q = P /\ P = Append(B, "stmts")
      BY <1>2, <2>1
    <3> QED
      BY <2>1, <3>1, StatementsRuns, PlacedHere
  <2> QED
    BY <1>4, <2>1, UnfoldsSame, ExpandGrows
<1> QED
  BY <1>3, <1>4 DEF StatementList

LEMMA ElseBranchStep == ParserTypeOK /\ ElseBranch => TreeStep
<1> SUFFICES ASSUME ParserTypeOK, ElseBranch PROVE TreeStep
  OBVIOUS
<1>1. Parsing("else")
  BY DEF ElseBranch
<1>2. ASSUME NEW P \in Seq(Sort), NEW Q \in Seq(Sort), Step(Placed(tokens, 0), Goal, P, Q)
      PROVE  \E B \in Seq(Sort) : P = Append(B, "none") /\ Q = Append(B, "else")
  BY <1>1, <1>2, OnTop DEF RuleSays
<1>3. CASE Expand(0, << >>)
  <2>1. ASSUME NEW P \in Seq(Sort), NEW Q \in Seq(Sort), Matches(tokens, values, P),
               Step(Placed(tokens, 0), Goal, P, Q)
        PROVE  \E R \in Seq(Sort) : /\ Matches(tokens, values, R)
                                    /\ Runs(Placed(tokens, 0), << >>, R, Q)
    <3>1. PICK B \in Seq(Sort) : P = Append(B, "none") /\ Q = Append(B, "else")
      BY <1>2, <2>1
    <3>2. Matches(tokens, values, Q)
      BY <2>1, <3>1, MatchesElse, Zenon
    <3> QED
      BY <3>2, Runs0, PlacedHere
  <2>2. Unfolds(0, << >>)
    BY <2>1, Zenon DEF Unfolds
  <2> QED
    BY <1>3, <2>2, ExpandGrows
<1>4. CASE /\ CheckNext("KUNG")
           /\ Guarded("elseChain", 2, current + 1, If(current + 1) \o <<Item>>)
  <2>1. /\ current + 1 \in DOMAIN tokens /\ tokens[current + 1].type = "KUNG"
    BY <1>4, InTokens DEF CheckNext
  <2>2. Build("IF", current + 1) \in Placed(tokens, 0)
    BY <2>1, TokensIn, PlacedBuild, TokensAre, Names
  <2>3. ASSUME NEW P \in Seq(Sort), NEW Q \in Seq(Sort),
               Step(Placed(tokens, 0), Goal, P, Q)
        PROVE  Runs(Placed(tokens, 0),
                    (If(current + 1) \o <<Item>>) \o <<Leave("elseChain")>>, P, Q)
    <3>1. PICK B \in Seq(Sort) : P = Append(B, "none") /\ Q = Append(B, "else")
      BY <1>2, <2>3
    <3> QED
      BY <2>2, <3>1, ElseIfRuns, PlacedHere
  <2> QED
    BY <1>4, <2>3, UnfoldsSame, GuardedGrows
<1>5. CASE Expand(1, <<Block, Item>>)
  <2>1. ASSUME NEW P \in Seq(Sort), NEW Q \in Seq(Sort),
               Step(Placed(tokens, 0), Goal, P, Q)
        PROVE  Runs(Placed(tokens, 0), <<Block, Item>>, P, Q)
    <3>1. PICK B \in Seq(Sort) : P = Append(B, "none") /\ Q = Append(B, "else")
      BY <1>2, <2>1
    <3> QED
      BY <3>1, ElseRuns, PlacedHere
  <2> QED
    BY <1>5, <2>1, UnfoldsSame, ExpandGrows
<1> QED
  BY <1>3, <1>4, <1>5 DEF ElseBranch

\* An assignment whose name is not yet seen.
LEMMA ExpandVentures ==
    ASSUME ParserTypeOK, goals # << >>, NEW gs \in Seq(AnyGoal), gs # << >>,
           gs[1] = Take("IDENTIFIER"), Expand(0, gs), Unfolds(current, gs)
    PROVE  TreeStep
<1>1. goals' = Pushed(gs) /\ Pushed(gs) # << >> /\ Last(Pushed(gs)) = gs[1]
  BY TopOf DEF Expand
<1>2. Goal' = Take("IDENTIFIER") /\ goals' # << >>
  BY <1>1 DEF Goal
<1>3. UNCHANGED <<tokens, phase, current, values, program>>
  BY TokensIn DEF Expand
<1> QED
  BY <1>1, <1>2, <1>3 DEF TreeStep, Ventures

LEMMA AheadGoals ==
    ASSUME ParserTypeOK
    PROVE  /\ Placed(tokens, current) \in SUBSET AnyGoal
           /\ Common \subseteq Placed(tokens, current)
           /\ Build("ASSIGN", current) \in Placed(tokens, current)
BY TokensIn, PlacedAssign, PlacedGoals

LEMMA ForInitStep == ParserTypeOK /\ ForInit => TreeStep
<1> SUFFICES ASSUME ParserTypeOK, ForInit PROVE TreeStep
  OBVIOUS
<1>1. Parsing("init") /\ goals # << >>
  BY DEF ForInit, Parsing
<1>2. \A P, Q \in Seq(Sort) :
          Step(Placed(tokens, 0), Goal, P, Q) => Q = Append(P, "init")
  BY <1>1, OnTop DEF RuleSays
<1>3. CASE Check("ITAKDA") /\ Expand(1, VarDecl(current))
  <2>1. Build("VAR_DECL", current) \in Placed(tokens, 0)
    BY <1>3, PlacedHere, TokensAre, Names DEF Check
  <2>2. \A P \in Seq(Sort) :
            Runs(Placed(tokens, 0), VarDecl(current), P, Append(P, "init"))
    BY <2>1, VarDeclRuns, PlacedHere
  <2>3. Unfolds(0, VarDecl(current))
    BY <1>2, <2>2, UnfoldsSame
  <2> QED
    BY <1>3, <2>3, ExpandGrows
<1>4. CASE Expand(0, Assign(current))
  <2>1. \A P \in Seq(Sort) :
            Runs(Placed(tokens, current), Assign(current), P, Append(P, "init"))
    BY AssignRuns, AheadGoals
  <2>2. Unfolds(current, Assign(current))
    BY <1>2, <2>1, UnfoldsSame
  <2>3. /\ Assign(current) \in Seq(AnyGoal) /\ Assign(current) # << >>
        /\ Assign(current)[1] = Take("IDENTIFIER")
    BY TokensIn, OpensWith
  <2> QED
    BY <1>1, <1>4, <2>2, <2>3, ExpandVentures
<1> QED
  BY <1>3, <1>4 DEF ForInit

LEMMA ForUpdateStep == ParserTypeOK /\ ForUpdate => TreeStep
<1> SUFFICES ASSUME ParserTypeOK, ForUpdate PROVE TreeStep
  OBVIOUS
<1>1. Parsing("update") /\ goals # << >> /\ Expand(0, AssignNoSemi(current))
  BY DEF ForUpdate, Parsing
<1>2. \A P, Q \in Seq(Sort) :
          Step(Placed(tokens, 0), Goal, P, Q) => Q = Append(P, "assign")
  BY <1>1, OnTop DEF RuleSays
<1>3. \A P \in Seq(Sort) :
          Runs(Placed(tokens, current), AssignNoSemi(current), P, Append(P, "assign"))
  BY AssignNoSemiRuns, AheadGoals
<1>4. Unfolds(current, AssignNoSemi(current))
  BY <1>2, <1>3, UnfoldsSame
<1>5. /\ AssignNoSemi(current) \in Seq(AnyGoal) /\ AssignNoSemi(current) # << >>
      /\ AssignNoSemi(current)[1] = Take("IDENTIFIER")
  BY TokensIn, AssignNoSemiBody, SeqMonotonic DEF Body, AnyGoal, AssignNoSemi
<1> QED
  BY <1>1, <1>4, <1>5, ExpandVentures

\* A rule that is parsed at the place of its statement.
LEMMA RuleStands ==
    ASSUME ParserTypeOK, NEW r \in {"switchBody", "printed"}, Parsing(r),
           NEW P \in Seq(Sort), NEW Q \in Seq(Sort), Step(Placed(tokens, 0), Goal, P, Q)
    PROVE  Goal.loc \in DOMAIN tokens /\ tokens[Goal.loc].type \in TokensOf(r)
<1>1. PICK g : g = Goal
  OBVIOUS
<1>2. g \in Placed(tokens, 0) /\ g.do = "parse" /\ g.arg = r
  BY <1>1 DEF Step, Parsing
<1>3. g \notin Common
  BY <1>2, LevelDomain DEF Common, Take, Parse, Build, Repeat, Leave, List, Item
<1>4. Stands(tokens, 0, g)
  BY <1>2, <1>3 DEF Placed
<1> QED
  BY <1>1, <1>2, <1>4 DEF Stands

LEMMA SwitchBodyStep == ParserTypeOK /\ SwitchBody => TreeStep
<1> SUFFICES ASSUME ParserTypeOK, SwitchBody PROVE TreeStep
  OBVIOUS
<1>1. Parsing("switchBody")
  BY DEF SwitchBody
<1>2. PICK l : l = Goal.loc
  OBVIOUS
<1>3. ASSUME NEW P \in Seq(Sort), NEW Q \in Seq(Sort), Step(Placed(tokens, 0), Goal, P, Q)
      PROVE  Runs(Placed(tokens, 0),
                  (Cases \o <<Build("SWITCH", l)>>) \o <<Leave("nesting")>>, P, Q)
  <2>1. PICK B \in Seq(Sort) : P = Append(B, "expr") /\ Q = Append(B, "stmt")
    BY <1>1, <1>3, OnTop DEF RuleSays
  <2>2. l \in DOMAIN tokens /\ tokens[l].type \in TokensOf("switchBody")
    BY <1>1, <1>2, <1>3, RuleStands
  <2>3. Build("SWITCH", l) \in Placed(tokens, 0)
    BY <2>2, TokensIn, PlacedBuild, TokensAre, Names
  <2> QED
    BY <2>1, <2>3, SwitchBodyRuns, PlacedHere
<1>4. Unfolds(0, (Cases \o <<Build("SWITCH", l)>>) \o <<Leave("nesting")>>)
  BY <1>3, UnfoldsSame
<1>5. Guarded("nesting", 0, l, Cases \o <<Build("SWITCH", l)>>)
  BY <1>2 DEF SwitchBody
<1> QED
  BY <1>4, <1>5, GuardedGrows

LEMMA SwitchCasesStep == ParserTypeOK /\ SwitchCases => TreeStep
<1> SUFFICES ASSUME ParserTypeOK, SwitchCases PROVE TreeStep
  OBVIOUS
<1>1. Parsing("cases")
  BY DEF SwitchCases
<1>2. ASSUME NEW P \in Seq(Sort), NEW Q \in Seq(Sort), Step(Placed(tokens, 0), Goal, P, Q)
      PROVE  Q = P /\ \E B \in Seq(Sort) : P = Append(B, "cases")
  BY <1>1, <1>2, OnTop DEF RuleSays
<1>3. CASE Expand(0, << >>)
  BY <1>2, <1>3, EmptyUnfolds, ExpandGrows
<1> DEFINE gs == <<Parse("label", 0), Take("COLON"), List, Parse("caseBody", 0),
                   Build("CASE", 0), Item, Goal>>
<1>4. CASE Expand(1, gs)
  <2>1. ASSUME NEW P \in Seq(Sort), NEW Q \in Seq(Sort),
               Step(Placed(tokens, 0), Goal, P, Q)
        PROVE  Runs(Placed(tokens, 0), gs, P, Q)
    <3>1. PICK B \in Seq(Sort) : Q = P /\ P = Append(B, "cases")
      BY <1>2, <2>1
    <3> QED
      BY <2>1, <3>1, CasesRuns, PlacedHere
  <2> HIDE DEF gs
  <2> QED
    BY <1>4, <2>1, UnfoldsSame, ExpandGrows
<1> QED
  BY <1>3, <1>4 DEF SwitchCases

LEMMA PrintedStep == ParserTypeOK /\ Printed => TreeStep
<1> SUFFICES ASSUME ParserTypeOK, Printed PROVE TreeStep
  OBVIOUS
<1>1. Parsing("printed")
  BY DEF Printed
<1>2. PICK l : l = Goal.loc
  OBVIOUS
<1>3. ASSUME NEW P \in Seq(Sort), NEW Q \in Seq(Sort), Step(Placed(tokens, 0), Goal, P, Q)
      PROVE  /\ Q = Append(P, "stmt")
             /\ l \in DOMAIN tokens /\ tokens[l].type \in TokensOf("PRINT")
  BY <1>1, <1>2, <1>3, OnTop, RuleStands, TokensAre DEF RuleSays
<1>4. ASSUME NEW x, Return(1, PrintString(x, l))
      PROVE  TreeStep
  <2>1. ASSUME NEW P \in Seq(Sort), NEW Q \in Seq(Sort),
               Step(Placed(tokens, 0), Goal, P, Q)
        PROVE  \E s \in Sort : Q = Append(P, s) /\ OfSort(tokens, PrintString(x, l), s)
    <3>1. OfSort(tokens, PrintString(x, l), "stmt")
      BY <1>3, <2>1, MadeLeaf
    <3> QED
      BY <1>3, <2>1, <3>1, RuleNames
  <2> QED
    BY <1>4, <2>1, ReturnReturns
<1>5. CASE Expand(0, <<Expression, Build("PRINT", l)>>)
  <2>1. ASSUME NEW P \in Seq(Sort), NEW Q \in Seq(Sort),
               Step(Placed(tokens, 0), Goal, P, Q)
        PROVE  Runs(Placed(tokens, 0), <<Expression, Build("PRINT", l)>>, P, Q)
    <3>1. Build("PRINT", l) \in Placed(tokens, 0)
      BY <1>3, <2>1, TokensIn, PlacedBuild, Names
    <3> QED
      BY <1>3, <2>1, <3>1, PrintedRuns, PlacedHere
  <2> QED
    BY <1>5, <2>1, UnfoldsSame, ExpandGrows
<1> QED
  BY <1>2, <1>4, <1>5 DEF Printed

\* A number that fits is a value of the sort that is awaited.
LEMMA IntStep ==
    ASSUME NEW n, NEW negative, NEW l, IntLiteral(n, negative, l), NEW s \in Sort,
           \A P, Q \in Seq(Sort) : Step(Placed(tokens, 0), Goal, P, Q) => Q = Append(P, s),
           \A i \in CInt : OfSort(tokens, LiteralInt(i, l), s)
    PROVE  TreeStep
<1>1. PICK i : i = tokens[current + n - 1].int
  OBVIOUS
<1>2. CASE FitsSigned(i, negative)
  <2>1. PICK j \in CInt : j = IF negative THEN -i ELSE i
    BY <1>2 DEF FitsSigned
  <2>2. Return(n, LiteralInt(j, l))
    BY <1>1, <1>2, <2>1 DEF IntLiteral
  <2>3. OfSort(tokens, LiteralInt(j, l), s)
    BY <2>1
  <2> QED
    BY <2>2, <2>3, ReturnReturns, Zenon
<1>3. CASE ~FitsSigned(i, negative)
  BY <1>1, <1>3, ThrowThrows DEF IntLiteral
<1> QED
  BY <1>2, <1>3

LEMMA SwitchLabelStep == ParserTypeOK /\ SwitchLabel => TreeStep
<1> SUFFICES ASSUME ParserTypeOK, SwitchLabel PROVE TreeStep
  OBVIOUS
<1>1. Parsing("label")
  BY DEF SwitchLabel
<1>2. \A P, Q \in Seq(Sort) :
          Step(Placed(tokens, 0), Goal, P, Q) => Q = Append(P, "label")
  BY <1>1, OnTop DEF RuleSays
<1>3. PICK n : n = IF Check("MINUS") THEN 1 ELSE 0
  OBVIOUS
<1>4. CASE tokens[current + n].type = "NUMBER"
  <2>1. PICK l : l = current + n
    OBVIOUS
  <2>2. l \in DOMAIN tokens
    <3>1. Check("MINUS") => current + 1 \in DOMAIN tokens
      BY Here
    <3> QED
      BY <1>3, <2>1, <3>1, TokensIn
  <2>3. \A i \in CInt : OfSort(tokens, LiteralInt(i, l), "label")
    BY <1>4, <2>1, <2>2 DEF OfSort, LiteralInt, NodeSort
  <2>4. IntLiteral(n + 1, n = 1, l)
    BY <1>3, <1>4, <2>1 DEF SwitchLabel
  <2>5. "label" \in Sort
    BY RuleNames
  <2> QED
    BY <1>2, <2>3, <2>4, <2>5, IntStep
<1>5. CASE tokens[current + n].type # "NUMBER"
  BY <1>3, <1>5, ThrowThrows DEF SwitchLabel
<1> QED
  BY <1>4, <1>5

LEMMA ExpressionRuleStep == ParserTypeOK /\ ExpressionRule => TreeStep
<1> SUFFICES ASSUME ParserTypeOK, ExpressionRule PROVE TreeStep
  OBVIOUS
<1>1. Parsing("expression")
  BY DEF ExpressionRule
<1>2. \A P, Q \in Seq(Sort) :
          Step(Placed(tokens, 0), Goal, P, Q) => Q = Append(P, "expr")
  BY <1>1, OnTop DEF RuleSays
<1>3. \A P \in Seq(Sort) :
          Runs(Placed(tokens, 0), <<Parse("logicalOr", 0)>> \o <<Leave("expr")>>, P,
               Append(P, "expr"))
  BY ExpressionRuns, PlacedHere
<1>4. Unfolds(0, <<Parse("logicalOr", 0)>> \o <<Leave("expr")>>)
  BY <1>2, <1>3, UnfoldsSame
<1> QED
  BY <1>4, GuardedGrows DEF ExpressionRule

LEMMA BinaryLevelStep == ParserTypeOK /\ BinaryLevel => TreeStep
<1> SUFFICES ASSUME ParserTypeOK, BinaryLevel PROVE TreeStep
  OBVIOUS
<1>1. PICK level \in Level :
          Parsing(level) /\ Expand(0, <<Parse(Operand[level], 0), Repeat(level)>>)
  BY DEF BinaryLevel
<1>2. \A P, Q \in Seq(Sort) :
          Step(Placed(tokens, 0), Goal, P, Q) => Q = Append(P, "expr")
  BY <1>1, OnTop DEF RuleSays
<1> DEFINE gs == <<Parse(Operand[level], 0), Repeat(level)>>
<1>3. \A P \in Seq(Sort) : Runs(Placed(tokens, 0), gs, P, Append(P, "expr"))
  BY ExpressionRuns, PlacedHere
<1>4. Expand(0, gs)
  BY <1>1
<1> HIDE DEF gs
<1>5. Unfolds(0, gs)
  BY <1>2, <1>3, UnfoldsSame
<1> QED
  BY <1>4, <1>5, ExpandGrows

LEMMA OperatorTokens ==
    ASSUME NEW level \in Level, NEW t \in Operators[level]
    PROVE  t \in DOMAIN BinOp \cup DOMAIN LogOp
BY LevelDomain, OpNames DEF Operators, RelationalOps

LEMMA RepeatLevelStep == ParserTypeOK /\ RepeatLevel => TreeStep
<1> SUFFICES ASSUME ParserTypeOK, RepeatLevel PROVE TreeStep
  OBVIOUS
<1>1. goals # << >> /\ Goal.do = "repeat"
  BY DEF RepeatLevel
<1>2. PICK level \in Level : level = Goal.arg
  BY <1>1, OnGoal DEF PlainGoal
<1>3. ASSUME NEW P \in Seq(Sort), NEW Q \in Seq(Sort), Step(Placed(tokens, 0), Goal, P, Q)
      PROVE  Q = P /\ \E B \in Seq(Sort) : P = Append(B, "expr")
  BY <1>1, <1>3, RepeatIs
<1>4. CASE Expand(0, << >>)
  BY <1>3, <1>4, EmptyUnfolds, ExpandGrows
<1>5. CASE Peek \in Operators[level] /\ Expand(1, NextOperand(level))
  <2>1. Peek \in DOMAIN BinOp \cup DOMAIN LogOp
    BY <1>5, OperatorTokens
  <2>2. Build(Peek, current) \in Placed(tokens, 0)
    BY <2>1, PlacedHere, TokensAre DEF NodeName
  <2>3. PICK g : g = Repeat(level)
    OBVIOUS
  <2>4. ASSUME NEW P \in Seq(Sort), NEW Q \in Seq(Sort),
               Step(Placed(tokens, 0), Goal, P, Q)
        PROVE  Runs(Placed(tokens, 0),
                    <<Parse(Operand[level], 0), Build(Peek, current), g>>, P, Q)
    <3>1. PICK B \in Seq(Sort) : Q = P /\ P = Append(B, "expr")
      BY <1>3, <2>4
    <3>2. Step(Placed(tokens, 0), g, Q, Q)
      BY <2>3, <3>1, CommonTakes, PlacedHere
    <3> QED
      BY <2>1, <2>2, <3>1, <3>2, OperandRuns, PlacedHere
  <2>5. NextOperand(level) = <<Parse(Operand[level], 0), Build(Peek, current), g>>
    BY <2>3 DEF NextOperand
  <2>6. Unfolds(0, NextOperand(level))
    BY <2>4, <2>5, UnfoldsSame
  <2> QED
    BY <1>5, <2>6, ExpandGrows
<1> QED
  BY <1>2, <1>4, <1>5 DEF RepeatLevel

\* The operand of hindi and of a minus sign.
LEMMA UnaryUnfolds ==
    ASSUME ParserTypeOK, NEW node \in {"HINDI", "NEGATE"}, Peek \in TokensOf(node),
           NEW r \in {"logicalNot", "unary"},
           \A P, Q \in Seq(Sort) :
               Step(Placed(tokens, 0), Goal, P, Q) => Q = Append(P, "expr")
    PROVE  Unfolds(0, <<Parse(r, 0), Build(node, current)>> \o <<Leave("expr")>>)
<1>1. Build(node, current) \in Placed(tokens, 0)
  BY PlacedHere, Names
<1>2. \A P \in Seq(Sort) :
          Runs(Placed(tokens, 0),
               <<Parse(r, 0), Build(node, current)>> \o <<Leave("expr")>>,
               P, Append(P, "expr"))
  BY <1>1, UnaryRuns, PlacedHere
<1> QED
  BY <1>2, UnfoldsSame, ZenonT(60)

LEMMA LogicalNotStep == ParserTypeOK /\ LogicalNot => TreeStep
<1> SUFFICES ASSUME ParserTypeOK, LogicalNot PROVE TreeStep
  OBVIOUS
<1>1. Parsing("logicalNot")
  BY DEF LogicalNot
<1>2. \A P, Q \in Seq(Sort) :
          Step(Placed(tokens, 0), Goal, P, Q) => Q = Append(P, "expr")
  BY <1>1, OnTop DEF RuleSays
<1>3. CASE /\ Check("HINDI")
           /\ Guarded("expr", 1, current, <<Parse("logicalNot", 0),
                                            Build("HINDI", current)>>)
  <2>1. Peek \in TokensOf("HINDI")
    BY <1>3, TokensAre DEF Check
  <2>2. Unfolds(0, <<Parse("logicalNot", 0), Build("HINDI", current)>> \o <<Leave("expr")>>)
    BY <1>2, <2>1, UnaryUnfolds
  <2> QED
    BY <1>3, <2>2, GuardedGrows
<1>4. CASE Expand(0, <<Parse("relational", 0)>>)
  <2>1. \A P \in Seq(Sort) :
            Runs(Placed(tokens, 0), <<Parse("relational", 0)>>, P, Append(P, "expr"))
    BY ExpressionRuns, PlacedHere
  <2> QED
    BY <1>2, <1>4, <2>1, UnfoldsSame, ExpandGrows
<1> QED
  BY <1>3, <1>4 DEF LogicalNot

\* A literal or a variable.
LEMMA LeafReturns ==
    ASSUME NEW n, NEW v, Return(n, v), OfSort(tokens, v, "expr"),
           \A P, Q \in Seq(Sort) :
               Step(Placed(tokens, 0), Goal, P, Q) => Q = Append(P, "expr")
    PROVE  TreeStep
BY RuleNames, ReturnReturns

LEMMA UnaryStep == ParserTypeOK /\ Unary => TreeStep
<1> SUFFICES ASSUME ParserTypeOK, Unary PROVE TreeStep
  OBVIOUS
<1>1. Parsing("unary")
  BY DEF Unary
<1>2. \A P, Q \in Seq(Sort) :
          Step(Placed(tokens, 0), Goal, P, Q) => Q = Append(P, "expr")
  BY <1>1, OnTop DEF RuleSays
<1>3. CASE Check("MINUS") /\ IntLiteral(2, TRUE, current)
  <2>1. \A i \in CInt : OfSort(tokens, LiteralInt(i, current), "expr")
    BY <1>3, TokensIn, MadeLeaf DEF Check
  <2> QED
    BY <1>2, <1>3, <2>1, RuleNames, IntStep
<1>4. CASE /\ Check("MINUS")
           /\ Guarded("expr", 1, current, <<Parse("unary", 0), Build("NEGATE", current)>>)
  <2>1. Peek \in TokensOf("NEGATE")
    BY <1>4, TokensAre DEF Check
  <2>2. Unfolds(0, <<Parse("unary", 0), Build("NEGATE", current)>> \o <<Leave("expr")>>)
    BY <1>2, <2>1, UnaryUnfolds
  <2> QED
    BY <1>4, <2>2, GuardedGrows
<1>5. CASE Expand(0, <<Parse("primary", 0)>>)
  <2>1. \A P \in Seq(Sort) :
            Runs(Placed(tokens, 0), <<Parse("primary", 0)>>, P, Append(P, "expr"))
    BY ExpressionRuns, PlacedHere
  <2> QED
    BY <1>2, <1>5, <2>1, UnfoldsSame, ExpandGrows
<1> QED
  BY <1>3, <1>4, <1>5 DEF Unary

LEMMA PrimaryStep == ParserTypeOK /\ Primary => TreeStep
<1> SUFFICES ASSUME ParserTypeOK, Primary PROVE TreeStep
  OBVIOUS
<1>1. Parsing("primary")
  BY DEF Primary
<1>2. \A P, Q \in Seq(Sort) :
          Step(Placed(tokens, 0), Goal, P, Q) => Q = Append(P, "expr")
  BY <1>1, OnTop DEF RuleSays
<1>3. CASE Check("NUMBER") /\ IntLiteral(1, FALSE, current)
  <2>1. \A i \in CInt : OfSort(tokens, LiteralInt(i, current), "expr")
    BY <1>3, TokensIn, MadeLeaf DEF Check
  <2> QED
    BY <1>2, <1>3, <2>1, RuleNames, IntStep
<1>4. ASSUME NEW v, OfSort(tokens, v, "expr"), Return(1, v)
      PROVE  TreeStep
  BY <1>2, <1>4, LeafReturns
<1>5. CASE Check("IDENTIFIER") /\ Return(1, Variable(tokens[current].name, current))
  <2>1. OfSort(tokens, Variable(tokens[current].name, current), "expr")
    BY <1>5, TokensIn, MadeLeaf DEF Check
  <2> QED
    BY <1>2, <1>5, <2>1, LeafReturns
<1>6. CASE /\ Peek \in {"BASAHIN", "KUNIN"}
           /\ Expand(1, <<Take("LEFT_PAREN"), Take("RIGHT_PAREN"), Build("READ", current)>>)
  <2>1. Build("READ", current) \in Placed(tokens, 0)
    BY <1>6, PlacedHere, TokensAre, Names
  <2>2. \A P \in Seq(Sort) :
            Runs(Placed(tokens, 0),
                 <<Take("LEFT_PAREN"), Take("RIGHT_PAREN"), Build("READ", current)>>, P,
                 Append(P, "expr"))
    BY <2>1, ReadRuns, PlacedHere
  <2> QED
    BY <1>2, <1>6, <2>2, UnfoldsSame, ExpandGrows
<1>7. CASE Expand(1, <<Expression, Take("RIGHT_PAREN")>>)
  <2>1. \A P \in Seq(Sort) :
            Runs(Placed(tokens, 0), <<Expression, Take("RIGHT_PAREN")>>, P,
                 Append(P, "expr"))
    BY ExpressionRuns, PlacedHere
  <2> QED
    BY <1>2, <1>7, <2>1, UnfoldsSame, ExpandGrows
<1>8. CASE Throw(0, At("expression", current))
  BY <1>8, ThrowThrows
<1>9. CASE Check("TOTOO") /\ Return(1, LiteralBool(TRUE, current))
  <2>1. \A b : OfSort(tokens, LiteralBool(b, current), "expr")
    BY <1>9, TokensIn, MadeLeaf DEF Check
  <2>2. OfSort(tokens, LiteralBool(TRUE, current), "expr")
    BY <2>1, Zenon
  <2> QED
    BY <1>4, <1>9, <2>2, Zenon
<1>10. CASE Check("MALI") /\ Return(1, LiteralBool(FALSE, current))
  <2>1. \A b : OfSort(tokens, LiteralBool(b, current), "expr")
    BY <1>10, TokensIn, MadeLeaf DEF Check
  <2>2. OfSort(tokens, LiteralBool(FALSE, current), "expr")
    BY <2>1, Zenon
  <2> QED
    BY <1>4, <1>10, <2>2, Zenon
<1> QED
  BY <1>3, <1>5, <1>6, <1>7, <1>8, <1>9, <1>10, Zenon DEF Primary

-----------------------------------------------------------------------------
(* Steps of another kind.                                                  *)

LEMMA ThrowsTree ==
    ASSUME TreeInv, Throws
    PROVE  TreeInv'
<1>1. phase' \notin {"top", "sync", "parse"} /\ tokens' = tokens /\ program' = program
  BY DEF Throws
<1> QED
  BY <1>1 DEF TreeInv

\* The awaited name is there.
LEMMA NameSeen ==
    ASSUME ParserTypeOK, Awaits(current), Check("IDENTIFIER")
    PROVE  Awaits(0)
<1>1. Placed(tokens, current) \subseteq Placed(tokens, 0)
  BY PlacedName, TokensIn DEF Check
<1>2. PICK P \in Seq(Sort) :
          Matches(tokens, values, P) /\ Typed(Placed(tokens, current), goals, P)
  BY DEF Awaits
<1>3. Typed(Placed(tokens, 0), goals, P)
  BY <1>1, <1>2, TypedMore, Zenon
<1> QED
  BY <1>2, <1>3, Zenon DEF Awaits

LEMMA TopTakes ==
    ASSUME NEW P \in Seq(Sort), NEW Q \in Seq(Sort), Step(Placed(tokens, 0), Goal, P, Q)
    PROVE  /\ Goal.do = "leave" => Q = P
           /\ Goal.do = "take" /\ Goal.arg # "IDENTIFIER" => Q = P
           /\ Goal.do = "take" /\ Goal.arg = "IDENTIFIER" => Q = Append(P, "name")
<1>1. PICK g, A : g = Goal /\ A = Placed(tokens, 0)
  OBVIOUS
<1>2. Step(A, g, P, Q)
  BY <1>1
<1>3. /\ g.do = "leave" => Q = P
      /\ g.do = "take" /\ g.arg # "IDENTIFIER" => Q = P
      /\ g.do = "take" /\ g.arg = "IDENTIFIER" => Q = Append(P, "name")
  BY <1>2, TakeIs
<1> QED
  BY <1>1, <1>3

LEMMA ConsumeTree ==
    ASSUME ParserTypeOK, TreeInv, Consume
    PROVE  TreeInv'
<1>1. phase = "parse" /\ goals # << >> /\ Goal.do = "take"
  BY DEF Consume
<1>2. Awaits(0) \/ (Goal = Take("IDENTIFIER") /\ Awaits(current))
  BY <1>1 DEF TreeInv
<1>3. CASE Check(Goal.arg) /\ Goal.arg = "IDENTIFIER" /\ Return(1, current)
  <2>1. Awaits(0) /\ Peek = "IDENTIFIER"
    BY <1>2, <1>3, NameSeen DEF Check
  <2>2. "name" \in Sort /\ OfSort(tokens, current, "name")
    BY <2>1, TokensIn DEF OfSort, Sort, NodeSort
  <2>3. ASSUME NEW P \in Seq(Sort), NEW Q \in Seq(Sort),
               Step(Placed(tokens, 0), Goal, P, Q)
        PROVE  Q = Append(P, "name")
    BY <1>1, <1>3, <2>3, TopTakes
  <2>4. TreeStep
    BY <1>3, <2>2, <2>3, ReturnReturns, Zenon
  <2> QED
    BY <1>1, <2>1, <2>4, StepTree
<1>4. CASE Goal.arg # "IDENTIFIER" /\ Expand(1, << >>)
  <2>1. Awaits(0)
    BY <1>2, <1>4 DEF Take
  <2>2. ASSUME NEW P \in Seq(Sort), NEW Q \in Seq(Sort),
               Step(Placed(tokens, 0), Goal, P, Q)
        PROVE  Q = P
    BY <1>1, <1>4, <2>2, TopTakes
  <2>3. TreeStep
    BY <1>4, <2>2, EmptyUnfolds, ExpandGrows
  <2> QED
    BY <1>1, <2>1, <2>3, StepTree
<1>5. CASE Throw(0, Missing(Goal.arg))
  BY <1>5, ThrowsTree DEF Throw, Raise, Throws
<1> QED
  BY <1>3, <1>4, <1>5 DEF Consume

\* The goal on top, unless it is the name of an assignment in para.
LEMMA TopAwaits ==
    ASSUME TreeInv, phase = "parse", goals = << >> \/ Goal.do # "take"
    PROVE  Awaits(0)
BY DEF TreeInv, Take

\* What the making of a node takes from the stack.
LEMMA BuildIs ==
    ASSUME NEW ts, 0 \notin DOMAIN ts, NEW g, NEW P \in Seq(Sort), NEW Q \in Seq(Sort),
           Step(Placed(ts, 0), g, P, Q), g.do = "build"
    PROVE  /\ \E B \in Seq(Sort), t \in Seq(Sort), s \in Sort :
                  NodeYields(g.arg, t, s) /\ P = B \o t /\ Q = Append(B, s)
           /\ g.arg \notin {"LIST", "ITEM", "CASE"}
                  => g.loc \in DOMAIN ts /\ ts[g.loc].type \in TokensOf(g.arg)
<1>1. /\ ~Quiet(g)
      /\ \A t, s : Yields(g, t, s) => NodeYields(g.arg, t, s)
  BY DEF Quiet, Yields
<1>2. PICK B \in Seq(Sort), t \in Seq(Sort), s \in Sort :
          Yields(g, t, s) /\ P = B \o t /\ Q = Append(B, s)
  BY <1>1 DEF Step, Turns
<1>3. g \in Placed(ts, 0)
  BY DEF Step
<1>4. g.arg \notin {"LIST", "ITEM", "CASE"} => Stands(ts, 0, g)
  BY <1>3 DEF Placed, Common
<1> QED
  BY <1>1, <1>2, <1>4 DEF Stands

LEMMA MakeTree ==
    ASSUME ParserTypeOK, TreeInv, Make
    PROVE  TreeInv'
<1>1. phase = "parse" /\ goals # << >> /\ Goal.do = "build"
  BY DEF Make
<1>2. PICK P, Q \in Seq(Sort) : /\ Matches(tokens, values, P)
                                /\ Step(Placed(tokens, 0), Goal, P, Q)
                                /\ Typed(Placed(tokens, 0), Rest, Q)
  BY <1>1, TopAwaits, TopGoal, TokensIn
<1>3. PICK g : g = Goal
  OBVIOUS
<1> DEFINE node == g.arg
<1> DEFINE l == g.loc
<1>4. /\ \E B \in Seq(Sort), t \in Seq(Sort), s \in Sort :
             NodeYields(node, t, s) /\ P = B \o t /\ Q = Append(B, s)
      /\ node \notin {"LIST", "ITEM", "CASE"}
             => l \in DOMAIN tokens /\ tokens[l].type \in TokensOf(node)
  <2>1. Step(Placed(tokens, 0), g, P, Q) /\ g.do = "build"
    BY <1>1, <1>2, <1>3
  <2> QED
    BY <2>1, BuildIs, TokensIn
<1> HIDE DEF node, l
<1>5. PICK B \in Seq(Sort), t \in Seq(Sort), s \in Sort :
          NodeYields(node, t, s) /\ P = B \o t /\ Q = Append(B, s)
  BY <1>4
<1>6. PICK k : k = Len(values) - Arity(node)
  OBVIOUS
<1>7. k = Len(values) - Len(t)
  BY <1>5, <1>6, ArityIs
<1>8. PICK vs, a : vs = SubSeq(values, 1, k) /\ a = SubSeq(values, k + 1, Len(values))
  OBVIOUS
<1>9. Matches(tokens, vs, B) /\ AreOf(tokens, a, t)
  BY <1>2, <1>5, <1>7, <1>8, MatchesSplit
<1>10. OfSort(tokens, Node(node, l, a), s)
  BY <1>4, <1>5, <1>9, MadeNode, Zenon
<1>11. /\ values' = Append(vs, Node(node, l, a)) /\ goals' = Rest
       /\ tokens' = tokens /\ phase' = phase /\ program' = program
  BY <1>3, <1>6, <1>8 DEF Make, node, l
<1>12. Matches(tokens, values', Q)
  BY <1>5, <1>9, <1>10, <1>11, MatchesAppend, Zenon
<1>13. Awaits(0)'
  BY <1>2, <1>11, <1>12, Zenon DEF Awaits
<1> QED
  BY <1>1, <1>11, <1>13 DEF TreeInv

LEMMA ReleaseTree ==
    ASSUME ParserTypeOK, TreeInv, Release
    PROVE  TreeInv'
<1>1. /\ goals # << >> /\ Goal.do = "leave" /\ goals' = Rest
      /\ phase \in {"parse", "unwind"}
      /\ phase' = phase /\ tokens' = tokens /\ values' = values /\ program' = program
  BY DEF Release
<1>2. CASE phase = "unwind"
  BY <1>1, <1>2 DEF TreeInv
<1>3. CASE phase = "parse"
  <2>1. PICK P, Q \in Seq(Sort) : /\ Matches(tokens, values, P)
                                  /\ Step(Placed(tokens, 0), Goal, P, Q)
                                  /\ Typed(Placed(tokens, 0), Rest, Q)
    BY <1>1, <1>3, TopAwaits, TopGoal, TokensIn
  <2>2. Q = P
    BY <1>1, <2>1, TopTakes
  <2>3. Awaits(0)'
    BY <1>1, <2>1, <2>2, Zenon DEF Awaits
  <2> QED
    BY <1>1, <1>3, <2>3 DEF TreeInv
<1> QED
  BY <1>1, <1>2, <1>3

LEMMA BeginTree ==
    ASSUME ParserTypeOK, TreeInv, BeginStatement
    PROVE  TreeInv'
<1>1. /\ phase' = "parse" /\ goals' = <<Parse("statement", 0)>> /\ values' = << >>
      /\ tokens' = tokens /\ program' = program
  BY DEF BeginStatement, TreeInv
<1>2. PICK A : A = Placed(tokens, 0)
  OBVIOUS
<1>3. A \in SUBSET AnyGoal /\ Common \subseteq A
  BY <1>2, PlacedHere
<1>4. /\ Matches(tokens, << >>, << >>) /\ << >> \in Seq(Sort)
      /\ Append(<< >>, "stmt") = <<"stmt">> /\ <<"stmt">> \in Seq(Sort)
  BY MatchesEmpty, RuleNames
<1>5. PICK g : g = Parse("statement", 0)
  OBVIOUS
<1>6. Step(A, g, << >>, <<"stmt">>)
  BY <1>3, <1>4, <1>5, CommonPushes
<1>7. Runs(A, <<g>>, << >>, <<"stmt">>)
  BY <1>3, <1>4, <1>6, Runs1
<1>8. Typed(A, << >> \o Reverse(<<g>>), << >>)
  BY <1>3, <1>7, TypedEmpty, TypedPush
<1>9. << >> \o Reverse(<<g>>) = <<g>>
  BY DEF Reverse
<1>10. Awaits(0)'
  BY <1>1, <1>2, <1>4, <1>5, <1>8, <1>9 DEF Awaits
<1> QED
  BY <1>1, <1>10 DEF TreeInv

LEMMA EndTree ==
    ASSUME ParserTypeOK, TreeInv, EndStatement
    PROVE  TreeInv'
<1>1. /\ phase = "parse" /\ goals = << >> /\ phase' = "top" /\ values' = << >>
      /\ tokens' = tokens /\ program' = Append(program, Last(values))
  BY DEF EndStatement
<1>2. PICK P \in Seq(Sort) :
          Matches(tokens, values, P) /\ Typed(Placed(tokens, 0), << >>, P)
  BY <1>1, TopAwaits DEF Awaits
<1>3. P = <<"stmt">>
  BY <1>2 DEF Typed
<1>4. Len(values) = 1 /\ OfSort(tokens, values[1], "stmt")
  BY <1>2, <1>3 DEF Matches, AreOf
<1>5. IsNode(tokens, Last(values), StmtKinds)
  BY <1>4, FromSort DEF Last
<1>6. IsList(tokens, program', StmtKinds)
  BY <1>1, <1>5, LongerList DEF TreeInv
<1> QED
  BY <1>1, <1>6 DEF TreeInv

LEMMA RuleTree ==
    ASSUME ParserTypeOK, TreeInv, StatementRules \/ ExpressionRules
    PROVE  TreeInv'
<1>1. TreeStep
  <2>1. CASE StatementRules
    BY <2>1, StatementStep, RequireBlockStep, StatementListStep, ElseBranchStep,
       ForInitStep, ForUpdateStep, SwitchBodyStep, SwitchCasesStep, SwitchLabelStep,
       PrintedStep DEF StatementRules
  <2>2. CASE ExpressionRules
    BY <2>2, ExpressionRuleStep, BinaryLevelStep, RepeatLevelStep, LogicalNotStep,
       UnaryStep, PrimaryStep DEF ExpressionRules
  <2> QED
    BY <2>1, <2>2
<1>2. phase = "parse" /\ goals # << >> /\ Goal.do \in {"parse", "repeat"}
  BY DEF StatementRules, ExpressionRules, Statement, RequireBlock, StatementList,
     ElseBranch, ForInit, ForUpdate, SwitchBody, SwitchCases, SwitchLabel, Printed,
     ExpressionRule, BinaryLevel, RepeatLevel, LogicalNot, Unary, Primary, Parsing
<1>3. Awaits(0)
  BY <1>2, TopAwaits
<1> QED
  BY <1>1, <1>2, <1>3, StepTree

LEMMA TreeNext == ParserTypeOK /\ TreeInv /\ [ParserNext]_parserVars => TreeInv'
<1> SUFFICES ASSUME ParserTypeOK, TreeInv, [ParserNext]_parserVars PROVE TreeInv'
  OBVIOUS
<1>1. CASE UNCHANGED parserVars
  BY <1>1 DEF parserVars, TreeInv, Awaits, Goal
<1>2. CASE Unwind
  BY <1>2, ThrowsTree DEF Unwind, Throws
<1>3. CASE Catch \/ Synchronize \/ Resume \/ Finish
  BY <1>3 DEF Catch, Synchronize, Resume, Finish, TreeInv
<1> QED
  BY <1>1, <1>2, <1>3, BeginTree, EndTree, RuleTree, ConsumeTree, MakeTree, ReleaseTree
  DEF ParserNext

\* The program is a list of well-shaped statements, and so are the goals and
\* the values of a statement that is being parsed.
LEMMA TreeAlways == ParserSpec => []TreeInv
<1>1. ParserInit => TreeInv
  BY EmptyList DEF ParserInit, TreeInv
<1>2. ParserSpec => []ParserTypeOK
  BY ParserTypeCorrect
<1> QED
  BY <1>1, <1>2, TreeNext, PTL DEF ParserSpec

-----------------------------------------------------------------------------
(* The nodes of a tree.                                                    *)

LEMMA LevelsAre ==
    ASSUME NEW W, \A n \in W : Parts(n) \subseteq W, NEW roots \in SUBSET W, NEW h \in Nat
    PROVE  Levels(roots, h) \in [0 .. h -> SUBSET W]
<1> DEFINE D == SUBSET W
<1> DEFINE G == [p \in (1 .. h) \X D |-> PartsOf(p[2])]
<1>1. \A S \in D : PartsOf(S) \in D
  BY DEF PartsOf
<1>2. G \in [(1 .. h) \X D -> D] /\ roots \in D
  BY <1>1
<1> HIDE DEF D, G
<1>3. PICK f \in [0 .. h -> D] : IsLoop(f, h, roots, G)
  BY <1>2, Loop, Zenon
<1>4. \A n \in 0 .. h : n # 0 => G[<<n, f[n - 1]>>] = PartsOf(f[n - 1])
  <2> TAKE n \in 0 .. h
  <2> HAVE n # 0
  <2>1. n \in 1 .. h /\ n - 1 \in 0 .. h
    OBVIOUS
  <2>2. <<n, f[n - 1]>> \in (1 .. h) \X D
    BY <2>1
  <2> QED
    BY <2>2 DEF G
<1>5. f = [n \in 0 .. h |-> IF n = 0 THEN roots ELSE PartsOf(f[n - 1])]
  BY <1>3, <1>4, Zenon DEF IsLoop
<1>6. PICK v : v = Levels(roots, h)
  OBVIOUS
<1>7. v = [n \in 0 .. h |-> IF n = 0 THEN roots ELSE PartsOf(v[n - 1])]
  BY <1>5, <1>6, Zenon DEF Levels
<1>8. v[0] = roots /\ \A n \in 1 .. h : v[n] = PartsOf(v[n - 1])
  <2>1. 0 \in 0 .. h /\ \A n \in 1 .. h : n \in 0 .. h /\ n # 0
    OBVIOUS
  <2> QED
    BY <1>7, <2>1, Zenon
<1> DEFINE S == {n \in 0 .. h : v[n] \in D}
<1>9. 0 \in S
  BY <1>2, <1>8
<1>10. ASSUME NEW n \in 1 .. h, n - 1 \in S
       PROVE  n \in S
  <2>1. v[n - 1] \in D /\ v[n] = PartsOf(v[n - 1]) /\ n \in 0 .. h
    BY <1>8, <1>10
  <2>2. v[n] \in D
    BY <1>1, <2>1
  <2> QED
    BY <2>1, <2>2
<1> HIDE DEF S
<1>11. \A n \in 0 .. h : n \in S
  BY <1>9, <1>10, InductionTo, Zenon
<1>12. v \in [0 .. h -> D]
  BY <1>7, <1>11 DEF S
<1> QED
  BY <1>6, <1>12 DEF D

LEMMA NodesWithin ==
    ASSUME NEW W, \A n \in W : Parts(n) \subseteq W, NEW roots \in SUBSET W, NEW h \in Nat
    PROVE  Nodes(roots, h) \subseteq W
<1>1. PICK v : v = Levels(roots, h) /\ v \in [0 .. h -> SUBSET W]
  BY LevelsAre
<1>2. UNION Range(v) \subseteq W
  BY <1>1 DEF Range
<1> QED
  BY <1>1, <1>2 DEF Nodes

\* Good nodes have good trees.
LEMMA GoodNodes ==
    ASSUME NEW ts, NEW roots, \A m \in roots : Good(ts, m), NEW h \in Nat,
           NEW n \in Nodes(roots, h)
    PROVE  Shaped(n) /\ StandsRight(ts, n)
<1> DEFINE C(m) == CHOOSE S : m \in S /\ Sound(ts, S)
<1> DEFINE U == UNION {C(m) : m \in roots}
<1>1. \A m \in roots : m \in C(m) /\ Sound(ts, C(m))
  BY DEF Good
<1> HIDE DEF C
<1>2. roots \in SUBSET U
  BY <1>1
<1>3. ASSUME NEW x \in U
      PROVE  Parts(x) \subseteq U /\ Shaped(x) /\ StandsRight(ts, x)
  <2>1. PICK m \in roots : x \in C(m)
    OBVIOUS
  <2>2. Parts(x) \subseteq C(m) /\ Shaped(x) /\ StandsRight(ts, x)
    BY <1>1, <2>1, Zenon DEF Sound
  <2>3. C(m) \subseteq U
    OBVIOUS
  <2> HIDE DEF U
  <2> QED
    BY <2>2, <2>3
<1> HIDE DEF U
<1>4. n \in U
  BY <1>2, <1>3, NodesWithin, Zenon
<1> QED
  BY <1>3, <1>4

LEMMA ProgramNodes ==
    ASSUME ParserTypeOK, TreeInv, NEW h \in Nat, NEW n \in Nodes(Range(program), h)
    PROVE  Shaped(n) /\ n.loc \in DOMAIN tokens /\ tokens[n.loc].type \in StandsAt(n)
<1>1. \A m \in Range(program) : Good(tokens, m)
  BY DEF TreeInv, IsList, IsNode
<1>2. Shaped(n) /\ StandsRight(tokens, n)
  BY <1>1, GoodNodes, Zenon
<1> QED
  BY <1>2 DEF StandsRight

-----------------------------------------------------------------------------
(* Theorems.                                                               *)

\* Every node of a program has the line and column of the token that makes it
\* what it is: the place that checkDepth, the analyzer, the compiler and a
\* fault of the running program report is the one the reader looks for.
THEOREM TreesPlaced == ParserSpec => []PlacesTrue
<1>1. ParserTypeOK /\ TreeInv => PlacesTrue
  <2> SUFFICES ASSUME ParserTypeOK, TreeInv,
                      NEW n \in Nodes(Range(program), Len(tokens))
               PROVE  tokens[n.loc].type \in StandsAt(n)
    BY DEF PlacesTrue
  <2>1. Len(tokens) \in Nat
    BY TokensLemma DEF ParserTypeOK
  <2> QED
    BY <2>1, ProgramNodes
<1> QED
  BY <1>1, TreeAlways, ParserTypeCorrect, PTL

\* The trees of the statements parsed so far, to any depth: a StmtPtr of ast.h
\* may point to any statement, or to none, but the body of a loop is a block,
\* an else branch a block or an if, the update of para an assignment; no part
\* is missing, and every literal and label is an int.
TreesShaped ==
    /\ \A s \in Range(program) : IsStmt(s)
    /\ \A h \in Nat : \A n \in Nodes(Range(program), h) : Shaped(n)

\* Whatever the tokens are, and after any recoveries as well as without one, the
\* analyzer, the compiler and the tree walker, which follow the pointers of a
\* node without a test, find a node of the class that belongs there.
THEOREM TreesAlwaysShaped == ParserSpec => []TreesShaped
<1>1. ParserTypeOK /\ TreeInv => TreesShaped
  <2>1. TreeInv => \A s \in Range(program) : IsStmt(s)
    BY DEF TreeInv, IsList, IsNode, IsStmt
  <2> QED
    BY <2>1, ProgramNodes DEF TreesShaped
<1> QED
  BY <1>1, TreeAlways, ParserTypeCorrect, PTL
=============================================================================
