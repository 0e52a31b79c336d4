--------------------------- MODULE CompilerProofs ----------------------------
(***************************************************************************)
(* What the compiler emits fits the verifier, for every tree: the chunk is *)
(* well formed and every way to an instruction leads there with one depth. *)
(*                                                                         *)
(* A depth is laid along with the code (Laid): one for every place, the    *)
(* next one included.  Expressions are straight-line code that leaves one  *)
(* operand (Flow).  A statement leaves what the scopes hold, and jumps     *)
(* that wait in them for their targets (StmtFlow): those are the places    *)
(* where the code does not fit yet, and each takes with it what is held up *)
(* to the scope it waits in.                                               *)
(***************************************************************************)
EXTENDS VMProofs, Pipeline, Induction

-----------------------------------------------------------------------------
(* The sets of trees, level by level.                                      *)

LEMMA HeightsAre ==
    /\ 0 \in Heights /\ MaxHeight \in Heights
    /\ \A h \in Heights : h # 0 => h - 1 \in Heights
BY MaxHeightAssumption DEF Heights

LEMMA ExprLevels ==
    /\ ExprUpTo[0] = {}
    /\ \A h \in Heights : h # 0 => ExprUpTo[h] = ExprOver(ExprUpTo[h - 1])
<1> DEFINE Is(f, m) == f = [h \in 0 .. m |-> IF h = 0 THEN {} ELSE ExprOver(f[h - 1])]
<1> DEFINE S == {m \in Nat : \E f : Is(f, m)}
<1>1. 0 \in S
  <2>1. Is([h \in 0 .. 0 |-> {}], 0)
    OBVIOUS
  <2> QED
    BY <2>1
<1>2. ASSUME NEW m \in Nat, m \in S
      PROVE  m + 1 \in S
  <2>1. PICK f : Is(f, m)
    BY <1>2
  <2> DEFINE g == [h \in 0 .. m + 1 |-> IF h <= m THEN f[h] ELSE ExprOver(f[m])]
  <2>2. \A h \in 0 .. m + 1 : g[h] = IF h = 0 THEN {} ELSE ExprOver(g[h - 1])
    <3> TAKE h \in 0 .. m + 1
    <3>1. CASE h = 0
      BY <2>1, <3>1
    <3>2. CASE h # 0 /\ h <= m
      <4>1. h \in 0 .. m /\ h - 1 \in 0 .. m + 1 /\ h - 1 <= m
        BY <3>2
      <4>2. g[h] = f[h] /\ g[h - 1] = f[h - 1]
        BY <4>1
      <4>3. f[h] = ExprOver(f[h - 1])
        BY <2>1, <3>2, <4>1
      <4> QED
        BY <3>2, <4>2, <4>3, Zenon
    <3>3. CASE h = m + 1
      <4>1. h # 0 /\ ~(h <= m) /\ h - 1 = m /\ m \in 0 .. m + 1
        BY <3>3
      <4> QED
        BY <4>1
    <3> QED
      BY <3>1, <3>2, <3>3
  <2>3. Is(g, m + 1)
    BY <2>2
  <2> HIDE DEF g
  <2> QED
    BY <2>3
<1> HIDE DEF S
<1>3. MaxHeight \in S
  BY <1>1, <1>2, Induction, MaxHeightAssumption
<1>4. PICK f : Is(f, MaxHeight)
  BY <1>3 DEF S
<1>5. ExprUpTo = [h \in Heights |-> IF h = 0 THEN {} ELSE ExprOver(ExprUpTo[h - 1])]
  BY <1>4, Zenon DEF ExprUpTo, Heights
<1>6. \A h \in Heights : ExprUpTo[h] = IF h = 0 THEN {} ELSE ExprOver(ExprUpTo[h - 1])
  BY <1>5, Zenon
<1> QED
  BY <1>6, HeightsAre, Zenon
LEMMA StmtLevels ==
    /\ StmtUpTo[0] = {}
    /\ \A h \in Heights : h # 0 => StmtUpTo[h] = StmtOver(StmtUpTo[h - 1])
<1> DEFINE Is(f, m) == f = [h \in 0 .. m |-> IF h = 0 THEN {} ELSE StmtOver(f[h - 1])]
<1> DEFINE S == {m \in Nat : \E f : Is(f, m)}
<1>1. 0 \in S
  <2>1. Is([h \in 0 .. 0 |-> {}], 0)
    OBVIOUS
  <2> QED
    BY <2>1
<1>2. ASSUME NEW m \in Nat, m \in S
      PROVE  m + 1 \in S
  <2>1. PICK f : Is(f, m)
    BY <1>2
  <2> DEFINE g == [h \in 0 .. m + 1 |-> IF h <= m THEN f[h] ELSE StmtOver(f[m])]
  <2>2. \A h \in 0 .. m + 1 : g[h] = IF h = 0 THEN {} ELSE StmtOver(g[h - 1])
    <3> TAKE h \in 0 .. m + 1
    <3>1. CASE h = 0
      BY <2>1, <3>1
    <3>2. CASE h # 0 /\ h <= m
      <4>1. h \in 0 .. m /\ h - 1 \in 0 .. m + 1 /\ h - 1 <= m
        BY <3>2
      <4>2. g[h] = f[h] /\ g[h - 1] = f[h - 1]
        BY <4>1
      <4>3. f[h] = StmtOver(f[h - 1])
        BY <2>1, <3>2, <4>1
      <4> QED
        BY <3>2, <4>2, <4>3, Zenon
    <3>3. CASE h = m + 1
      <4>1. h # 0 /\ ~(h <= m) /\ h - 1 = m /\ m \in 0 .. m + 1
        BY <3>3
      <4> QED
        BY <4>1
    <3> QED
      BY <3>1, <3>2, <3>3
  <2>3. Is(g, m + 1)
    BY <2>2
  <2> HIDE DEF g
  <2> QED
    BY <2>3
<1> HIDE DEF S
<1>3. MaxHeight \in S
  BY <1>1, <1>2, Induction, MaxHeightAssumption
<1>4. PICK f : Is(f, MaxHeight)
  BY <1>3 DEF S
<1>5. StmtUpTo = [h \in Heights |-> IF h = 0 THEN {} ELSE StmtOver(StmtUpTo[h - 1])]
  BY <1>4, Zenon DEF StmtUpTo, Heights
<1>6. \A h \in Heights : StmtUpTo[h] = IF h = 0 THEN {} ELSE StmtOver(StmtUpTo[h - 1])
  BY <1>5, Zenon
<1> QED
  BY <1>6, HeightsAre, Zenon

-----------------------------------------------------------------------------
(* The walks, level by level.                                              *)

\* CompileExpr: the function on a level calls the one on the level below.
LEMMA CompileExprLevels ==
    \A h \in Heights : h # 0 =>
        \A n \in ExprUpTo[h], x \in Compiler :
            CompileExprUpTo[h][n][x] = CompileExprNode(CompileExprUpTo[h - 1], n, x)
<1> DEFINE At(f, h) ==
        [n \in ExprUpTo[h] |-> [x \in Compiler |-> CompileExprNode(f[h - 1], n, x)]]
<1> DEFINE Is(f, m) == f = [h \in 0 .. m |-> At(f, h)]
<1> DEFINE S == {m \in Nat : \E f : Is(f, m)}
<1>1. \A f, g : At(f, 0) = At(g, 0)
  BY ExprLevels
<1>2. \A f, g, h : f[h - 1] = g[h - 1] => At(f, h) = At(g, h)
  OBVIOUS
<1> HIDE DEF At
<1>3. 0 \in S
  <2> DEFINE g == [h \in 0 .. 0 |-> At(<< >>, h)]
  <2>1. \A h \in 0 .. 0 : At(<< >>, h) = At(g, h)
    <3>1. \A h \in 0 .. 0 : h = 0
      OBVIOUS
    <3> QED
      BY <1>1, <3>1, Zenon
  <2>2. Is(g, 0)
    BY <2>1
  <2> HIDE DEF g
  <2> QED
    BY <2>2
<1>4. ASSUME NEW m \in Nat, m \in S
      PROVE  m + 1 \in S
  <2>1. PICK f : Is(f, m)
    BY <1>4
  <2> DEFINE g == [h \in 0 .. m + 1 |-> IF h <= m THEN f[h] ELSE At(f, h)]
  <2>2. \A h \in 0 .. m + 1 : g[h] = At(f, h)
    BY <2>1
  <2>3. ASSUME NEW h \in 0 .. m + 1, h # 0
        PROVE  g[h - 1] = f[h - 1]
    BY <2>3
  <2> HIDE DEF g
  <2>4. \A h \in 0 .. m + 1 : At(f, h) = At(g, h)
    <3> TAKE h \in 0 .. m + 1
    <3>1. CASE h = 0
      BY <1>1, <3>1, Zenon
    <3>2. CASE h # 0
      BY <1>2, <2>3, <3>2, Zenon
    <3> QED
      BY <3>1, <3>2
  <2>5. Is(g, m + 1)
    <3>1. g = [h \in 0 .. m + 1 |-> At(f, h)]
      BY <2>2 DEF g
    <3> QED
      BY <2>4, <3>1
  <2> QED
    BY <2>5
<1> HIDE DEF S
<1>5. MaxHeight \in S
  BY <1>3, <1>4, Induction, MaxHeightAssumption
<1>6. PICK f : Is(f, MaxHeight)
  BY <1>5 DEF S
<1>7. CompileExprUpTo = [h \in Heights |-> At(CompileExprUpTo, h)]
  BY <1>6, Zenon DEF CompileExprUpTo, Heights, At
<1>8. \A h \in Heights : CompileExprUpTo[h] = At(CompileExprUpTo, h)
  BY <1>7, Zenon
<1>9. ASSUME NEW h \in Heights, NEW n \in ExprUpTo[h], NEW x \in Compiler
      PROVE  CompileExprUpTo[h][n][x] = CompileExprNode(CompileExprUpTo[h - 1], n, x)
  <2>1. CompileExprUpTo[h][n] = [y \in Compiler |-> CompileExprNode(CompileExprUpTo[h - 1], n, y)]
    BY <1>8, Zenon DEF At
  <2> QED
    BY <2>1, Zenon
<1> QED
  BY <1>9, Zenon

\* CompileStmt: the function on a level calls the one on the level below.
LEMMA CompileStmtLevels ==
    \A h \in Heights : h # 0 =>
        \A n \in StmtUpTo[h], x \in Compiler :
            CompileStmtUpTo[h][n][x] = CompileStmtNode(CompileStmtUpTo[h - 1], n, x)
<1> DEFINE At(f, h) ==
        [n \in StmtUpTo[h] |-> [x \in Compiler |-> CompileStmtNode(f[h - 1], n, x)]]
<1> DEFINE Is(f, m) == f = [h \in 0 .. m |-> At(f, h)]
<1> DEFINE S == {m \in Nat : \E f : Is(f, m)}
<1>1. \A f, g : At(f, 0) = At(g, 0)
  BY StmtLevels
<1>2. \A f, g, h : f[h - 1] = g[h - 1] => At(f, h) = At(g, h)
  OBVIOUS
<1> HIDE DEF At
<1>3. 0 \in S
  <2> DEFINE g == [h \in 0 .. 0 |-> At(<< >>, h)]
  <2>1. \A h \in 0 .. 0 : At(<< >>, h) = At(g, h)
    <3>1. \A h \in 0 .. 0 : h = 0
      OBVIOUS
    <3> QED
      BY <1>1, <3>1, Zenon
  <2>2. Is(g, 0)
    BY <2>1
  <2> HIDE DEF g
  <2> QED
    BY <2>2
<1>4. ASSUME NEW m \in Nat, m \in S
      PROVE  m + 1 \in S
  <2>1. PICK f : Is(f, m)
    BY <1>4
  <2> DEFINE g == [h \in 0 .. m + 1 |-> IF h <= m THEN f[h] ELSE At(f, h)]
  <2>2. \A h \in 0 .. m + 1 : g[h] = At(f, h)
    BY <2>1
  <2>3. ASSUME NEW h \in 0 .. m + 1, h # 0
        PROVE  g[h - 1] = f[h - 1]
    BY <2>3
  <2> HIDE DEF g
  <2>4. \A h \in 0 .. m + 1 : At(f, h) = At(g, h)
    <3> TAKE h \in 0 .. m + 1
    <3>1. CASE h = 0
      BY <1>1, <3>1, Zenon
    <3>2. CASE h # 0
      BY <1>2, <2>3, <3>2, Zenon
    <3> QED
      BY <3>1, <3>2
  <2>5. Is(g, m + 1)
    <3>1. g = [h \in 0 .. m + 1 |-> At(f, h)]
      BY <2>2 DEF g
    <3> QED
      BY <2>4, <3>1
  <2> QED
    BY <2>5
<1> HIDE DEF S
<1>5. MaxHeight \in S
  BY <1>3, <1>4, Induction, MaxHeightAssumption
<1>6. PICK f : Is(f, MaxHeight)
  BY <1>5 DEF S
<1>7. CompileStmtUpTo = [h \in Heights |-> At(CompileStmtUpTo, h)]
  BY <1>6, Zenon DEF CompileStmtUpTo, Heights, At
<1>8. \A h \in Heights : CompileStmtUpTo[h] = At(CompileStmtUpTo, h)
  BY <1>7, Zenon
<1>9. ASSUME NEW h \in Heights, NEW n \in StmtUpTo[h], NEW x \in Compiler
      PROVE  CompileStmtUpTo[h][n][x] = CompileStmtNode(CompileStmtUpTo[h - 1], n, x)
  <2>1. CompileStmtUpTo[h][n] = [y \in Compiler |-> CompileStmtNode(CompileStmtUpTo[h - 1], n, y)]
    BY <1>8, Zenon DEF At
  <2> QED
    BY <2>1, Zenon
<1> QED
  BY <1>9, Zenon

\* AnalyzeExpr: the function on a level calls the one on the level below.
LEMMA AnalyzeExprLevels ==
    \A h \in Heights : h # 0 =>
        \A n \in ExprUpTo[h], x \in Analyzer :
            AnalyzeExprUpTo[h][n][x] = AnalyzeExprNode(AnalyzeExprUpTo[h - 1], n, x)
<1> DEFINE At(f, h) ==
        [n \in ExprUpTo[h] |-> [x \in Analyzer |-> AnalyzeExprNode(f[h - 1], n, x)]]
<1> DEFINE Is(f, m) == f = [h \in 0 .. m |-> At(f, h)]
<1> DEFINE S == {m \in Nat : \E f : Is(f, m)}
<1>1. \A f, g : At(f, 0) = At(g, 0)
  BY ExprLevels
<1>2. \A f, g, h : f[h - 1] = g[h - 1] => At(f, h) = At(g, h)
  OBVIOUS
<1> HIDE DEF At
<1>3. 0 \in S
  <2> DEFINE g == [h \in 0 .. 0 |-> At(<< >>, h)]
  <2>1. \A h \in 0 .. 0 : At(<< >>, h) = At(g, h)
    <3>1. \A h \in 0 .. 0 : h = 0
      OBVIOUS
    <3> QED
      BY <1>1, <3>1, Zenon
  <2>2. Is(g, 0)
    BY <2>1
  <2> HIDE DEF g
  <2> QED
    BY <2>2
<1>4. ASSUME NEW m \in Nat, m \in S
      PROVE  m + 1 \in S
  <2>1. PICK f : Is(f, m)
    BY <1>4
  <2> DEFINE g == [h \in 0 .. m + 1 |-> IF h <= m THEN f[h] ELSE At(f, h)]
  <2>2. \A h \in 0 .. m + 1 : g[h] = At(f, h)
    BY <2>1
  <2>3. ASSUME NEW h \in 0 .. m + 1, h # 0
        PROVE  g[h - 1] = f[h - 1]
    BY <2>3
  <2> HIDE DEF g
  <2>4. \A h \in 0 .. m + 1 : At(f, h) = At(g, h)
    <3> TAKE h \in 0 .. m + 1
    <3>1. CASE h = 0
      BY <1>1, <3>1, Zenon
    <3>2. CASE h # 0
      BY <1>2, <2>3, <3>2, Zenon
    <3> QED
      BY <3>1, <3>2
  <2>5. Is(g, m + 1)
    <3>1. g = [h \in 0 .. m + 1 |-> At(f, h)]
      BY <2>2 DEF g
    <3> QED
      BY <2>4, <3>1
  <2> QED
    BY <2>5
<1> HIDE DEF S
<1>5. MaxHeight \in S
  BY <1>3, <1>4, Induction, MaxHeightAssumption
<1>6. PICK f : Is(f, MaxHeight)
  BY <1>5 DEF S
<1>7. AnalyzeExprUpTo = [h \in Heights |-> At(AnalyzeExprUpTo, h)]
  BY <1>6, Zenon DEF AnalyzeExprUpTo, Heights, At
<1>8. \A h \in Heights : AnalyzeExprUpTo[h] = At(AnalyzeExprUpTo, h)
  BY <1>7, Zenon
<1>9. ASSUME NEW h \in Heights, NEW n \in ExprUpTo[h], NEW x \in Analyzer
      PROVE  AnalyzeExprUpTo[h][n][x] = AnalyzeExprNode(AnalyzeExprUpTo[h - 1], n, x)
  <2>1. AnalyzeExprUpTo[h][n] = [y \in Analyzer |-> AnalyzeExprNode(AnalyzeExprUpTo[h - 1], n, y)]
    BY <1>8, Zenon DEF At
  <2> QED
    BY <2>1, Zenon
<1> QED
  BY <1>9, Zenon

\* AnalyzeStmt: the function on a level calls the one on the level below.
LEMMA AnalyzeStmtLevels ==
    \A h \in Heights : h # 0 =>
        \A n \in StmtUpTo[h], x \in Analyzer :
            AnalyzeStmtUpTo[h][n][x] = AnalyzeStmtNode(AnalyzeStmtUpTo[h - 1], n, x)
<1> DEFINE At(f, h) ==
        [n \in StmtUpTo[h] |-> [x \in Analyzer |-> AnalyzeStmtNode(f[h - 1], n, x)]]
<1> DEFINE Is(f, m) == f = [h \in 0 .. m |-> At(f, h)]
<1> DEFINE S == {m \in Nat : \E f : Is(f, m)}
<1>1. \A f, g : At(f, 0) = At(g, 0)
  BY StmtLevels
<1>2. \A f, g, h : f[h - 1] = g[h - 1] => At(f, h) = At(g, h)
  OBVIOUS
<1> HIDE DEF At
<1>3. 0 \in S
  <2> DEFINE g == [h \in 0 .. 0 |-> At(<< >>, h)]
  <2>1. \A h \in 0 .. 0 : At(<< >>, h) = At(g, h)
    <3>1. \A h \in 0 .. 0 : h = 0
      OBVIOUS
    <3> QED
      BY <1>1, <3>1, Zenon
  <2>2. Is(g, 0)
    BY <2>1
  <2> HIDE DEF g
  <2> QED
    BY <2>2
<1>4. ASSUME NEW m \in Nat, m \in S
      PROVE  m + 1 \in S
  <2>1. PICK f : Is(f, m)
    BY <1>4
  <2> DEFINE g == [h \in 0 .. m + 1 |-> IF h <= m THEN f[h] ELSE At(f, h)]
  <2>2. \A h \in 0 .. m + 1 : g[h] = At(f, h)
    BY <2>1
  <2>3. ASSUME NEW h \in 0 .. m + 1, h # 0
        PROVE  g[h - 1] = f[h - 1]
    BY <2>3
  <2> HIDE DEF g
  <2>4. \A h \in 0 .. m + 1 : At(f, h) = At(g, h)
    <3> TAKE h \in 0 .. m + 1
    <3>1. CASE h = 0
      BY <1>1, <3>1, Zenon
    <3>2. CASE h # 0
      BY <1>2, <2>3, <3>2, Zenon
    <3> QED
      BY <3>1, <3>2
  <2>5. Is(g, m + 1)
    <3>1. g = [h \in 0 .. m + 1 |-> At(f, h)]
      BY <2>2 DEF g
    <3> QED
      BY <2>4, <3>1
  <2> QED
    BY <2>5
<1> HIDE DEF S
<1>5. MaxHeight \in S
  BY <1>3, <1>4, Induction, MaxHeightAssumption
<1>6. PICK f : Is(f, MaxHeight)
  BY <1>5 DEF S
<1>7. AnalyzeStmtUpTo = [h \in Heights |-> At(AnalyzeStmtUpTo, h)]
  BY <1>6, Zenon DEF AnalyzeStmtUpTo, Heights, At
<1>8. \A h \in Heights : AnalyzeStmtUpTo[h] = At(AnalyzeStmtUpTo, h)
  BY <1>7, Zenon
<1>9. ASSUME NEW h \in Heights, NEW n \in StmtUpTo[h], NEW x \in Analyzer
      PROVE  AnalyzeStmtUpTo[h][n][x] = AnalyzeStmtNode(AnalyzeStmtUpTo[h - 1], n, x)
  <2>1. AnalyzeStmtUpTo[h][n] = [y \in Analyzer |-> AnalyzeStmtNode(AnalyzeStmtUpTo[h - 1], n, y)]
    BY <1>8, Zenon DEF At
  <2> QED
    BY <2>1, Zenon
<1> QED
  BY <1>9, Zenon

-----------------------------------------------------------------------------
(* Lists of parts.                                                         *)

\* The states between the elements of a list that is visited.
IsWalk(run, visit, xs, b) ==
    /\ run[0] = b
    /\ \A k \in 1 .. Len(xs) : run[k] = visit[xs[k]][run[k - 1]]
    /\ Visit(visit, xs, b) = run[Len(xs)]

LEMMA VisitWalks ==
    ASSUME NEW D, NEW b \in D, NEW xs, Len(xs) \in Nat, NEW visit,
           \A k \in 1 .. Len(xs) : \A d \in D : visit[xs[k]][d] \in D
    PROVE  \E run \in [0 .. Len(xs) -> D] : IsWalk(run, visit, xs, b)
<1> DEFINE N == Len(xs)
<1> DEFINE G == [p \in (1 .. N) \X D |-> visit[xs[p[1]]][p[2]]]
<1>1. G \in [(1 .. N) \X D -> D]
  OBVIOUS
<1>2. \A k \in 1 .. N : \A d \in D : G[<<k, d>>] = visit[xs[k]][d]
  OBVIOUS
<1> HIDE DEF G
<1>3. PICK f \in [0 .. N -> D] : IsLoop(f, N, b, G)
  BY <1>1, Loop, Zenon
<1>4. \A k \in 0 .. N : k # 0 => G[<<k, f[k - 1]>>] = visit[xs[k]][f[k - 1]]
  <2> TAKE k \in 0 .. N
  <2> HAVE k # 0
  <2>1. k \in 1 .. N /\ k - 1 \in 0 .. N
    OBVIOUS
  <2>2. f[k - 1] \in D
    BY <2>1
  <2> QED
    BY <1>2, <2>1, <2>2
<1>5. f = [k \in 0 .. N |-> IF k = 0 THEN b ELSE visit[xs[k]][f[k - 1]]]
  BY <1>3, <1>4, Zenon DEF IsLoop
<1> DEFINE A(v) == v = [k \in 0 .. N |-> IF k = 0 THEN b ELSE visit[xs[k]][v[k - 1]]]
<1> DEFINE w == CHOOSE v : A(v)
<1>6. A(w)
  BY <1>5, Zenon
<1>7. Visit(visit, xs, b) = w[N]
  BY Zenon DEF Visit
<1> HIDE DEF w
<1>8. w[0] = b /\ \A k \in 1 .. N : w[k] = visit[xs[k]][w[k - 1]]
  <2>1. 0 \in 0 .. N /\ \A k \in 1 .. N : k \in 0 .. N /\ k # 0
    OBVIOUS
  <2> QED
    BY <1>6, <2>1, Zenon
<1> DEFINE S == {k \in 0 .. N : w[k] \in D}
<1>9. 0 \in S
  BY <1>8
<1>10. ASSUME NEW k \in 1 .. N, k - 1 \in S
       PROVE  k \in S
  <2>1. w[k - 1] \in D /\ k \in 0 .. N
    BY <1>10
  <2>2. w[k] = visit[xs[k]][w[k - 1]]
    BY <1>8
  <2>3. w[k] \in D
    BY <2>1, <2>2
  <2> QED
    BY <2>1, <2>3
<1>11. \A k \in 0 .. N : k \in S
  <2> HIDE DEF S
  <2> QED
    BY <1>9, <1>10, InductionTo, Zenon
<1>12. w \in [0 .. N -> D]
  BY <1>6, <1>11
<1> QED
  BY <1>7, <1>8, <1>12 DEF IsWalk

-----------------------------------------------------------------------------
(* What the scopes hold.                                                   *)

LEMMA SlotsAre ==
    ASSUME NEW s \in Seq(Scope)
    PROVE  /\ Len(s) \in Nat /\ DOMAIN s = 1 .. Len(s)
           /\ \A n \in 1 .. Len(s) : s[n] \in Scope /\ s[n].slots \in Nat
<1>1. Len(s) \in Nat /\ DOMAIN s = 1 .. Len(s)
  BY LenProperties
<1>2. \A n \in 1 .. Len(s) : s[n] \in Scope
  BY ElementOfSeq
<1> QED
  BY <1>1, <1>2 DEF Scope

LEMMA HeldIs ==
    ASSUME NEW s \in Seq(Scope)
    PROVE  /\ Len(s) \in Nat
           /\ Held(s) \in [0 .. Len(s) -> Nat]
           /\ Held(s)[0] = 0
           /\ \A n \in 1 .. Len(s) : Held(s)[n] = Held(s)[n - 1] + s[n].slots
<1> DEFINE N == Len(s)
<1> DEFINE G == [p \in (1 .. N) \X Nat |-> p[2] + s[p[1]].slots]
<1>1. N \in Nat /\ \A n \in 1 .. N : s[n].slots \in Nat
  BY SlotsAre
<1>2. G \in [(1 .. N) \X Nat -> Nat]
  BY <1>1
<1>3. \A n \in 1 .. N : \A d \in Nat : G[<<n, d>>] = d + s[n].slots
  OBVIOUS
<1> HIDE DEF G
<1>4. PICK f \in [0 .. N -> Nat] : IsLoop(f, N, 0, G)
  BY <1>1, <1>2, Loop, Zenon
<1>5. \A n \in 0 .. N : n # 0 => G[<<n, f[n - 1]>>] = f[n - 1] + s[n].slots
  <2> TAKE n \in 0 .. N
  <2> HAVE n # 0
  <2>1. n \in 1 .. N /\ n - 1 \in 0 .. N
    BY <1>1
  <2>2. f[n - 1] \in Nat
    BY <2>1
  <2> QED
    BY <1>3, <2>1, <2>2
<1>6. f = [n \in 0 .. N |-> IF n = 0 THEN 0 ELSE f[n - 1] + s[n].slots]
  BY <1>4, <1>5, Zenon DEF IsLoop
<1> DEFINE A(v) == v = [n \in 0 .. N |-> IF n = 0 THEN 0 ELSE v[n - 1] + s[n].slots]
<1>7. PICK w : w = Held(s)
  OBVIOUS
<1>8. A(w)
  BY <1>6, <1>7, Zenon DEF Held
<1>9. w[0] = 0 /\ \A n \in 1 .. N : w[n] = w[n - 1] + s[n].slots
  <2>1. 0 \in 0 .. N /\ \A n \in 1 .. N : n \in 0 .. N /\ n # 0
    BY <1>1
  <2> QED
    BY <1>8, <2>1, Zenon
<1> DEFINE S == {n \in 0 .. N : w[n] \in Nat}
<1>10. 0 \in S
  BY <1>1, <1>9
<1>11. ASSUME NEW n \in 1 .. N, n - 1 \in S
       PROVE  n \in S
  <2>1. n \in 0 .. N /\ w[n - 1] \in Nat /\ w[n] = w[n - 1] + s[n].slots
    BY <1>1, <1>9, <1>11
  <2>2. s[n].slots \in Nat
    BY <1>1
  <2>3. w[n] \in Nat
    BY <2>1, <2>2
  <2> QED
    BY <2>1, <2>3
<1>12. \A n \in 0 .. N : n \in S
  <2> HIDE DEF S
  <2> QED
    BY <1>1, <1>10, <1>11, InductionTo, Zenon
<1>13. w \in [0 .. N -> Nat]
  BY <1>8, <1>12
<1> QED
  BY <1>1, <1>7, <1>9, <1>13

LEMMA HeldGrows ==
    ASSUME NEW s \in Seq(Scope), NEW m \in 0 .. Len(s)
    PROVE  Held(s)[m] <= Held(s)[Len(s)]
<1>1. PICK h \in [0 .. Len(s) -> Nat] : h = Held(s)
  BY HeldIs
<1>2. /\ Len(s) \in Nat
      /\ \A n \in 1 .. Len(s) : h[n] = h[n - 1] + s[n].slots /\ s[n].slots \in Nat
  <2>1. /\ Len(s) \in Nat
        /\ \A n \in 1 .. Len(s) : h[n] = h[n - 1] + s[n].slots
    BY <1>1, HeldIs
  <2> QED
    BY <2>1, SlotsAre
<1> DEFINE S == {n \in 0 .. Len(s) : n >= m => h[m] <= h[n]}
<1>3. 0 \in S
  BY <1>2
<1>4. ASSUME NEW n \in 1 .. Len(s), n - 1 \in S
      PROVE  n \in S
  <2>1. h[n] = h[n - 1] + s[n].slots /\ s[n].slots \in Nat
    BY <1>2
  <2>2. h[n] \in Nat /\ h[n - 1] \in Nat /\ h[m] \in Nat
    BY <1>2, SMTT(30)
  <2>3. CASE n = m
    BY <2>2, <2>3
  <2>4. CASE n # m
    BY <1>2, <1>4, <2>1, <2>2, <2>4
  <2> QED
    BY <2>3, <2>4
<1>5. \A n \in 0 .. Len(s) : n \in S
  <2> HIDE DEF S
  <2> QED
    BY <1>2, <1>3, <1>4, InductionTo, Zenon
<1>6. h[m] <= h[Len(s)]
  BY <1>2, <1>5
<1> QED
  BY <1>1, <1>6

LEMMA HeldPrefix ==
    ASSUME NEW s \in Seq(Scope), NEW t \in Seq(Scope), NEW m \in Nat,
           m <= Len(s), m <= Len(t), \A n \in 1 .. m : s[n].slots = t[n].slots
    PROVE  \A n \in 0 .. m : Held(s)[n] = Held(t)[n]
<1>1. PICK h : h = Held(s)
  OBVIOUS
<1>2. PICK g : g = Held(t)
  OBVIOUS
<1>3. /\ Len(s) \in Nat /\ Len(t) \in Nat /\ h[0] = 0 /\ g[0] = 0
      /\ \A n \in 1 .. m : h[n] = h[n - 1] + s[n].slots
      /\ \A n \in 1 .. m : g[n] = g[n - 1] + t[n].slots
  <2>1. /\ Len(s) \in Nat /\ h[0] = 0
        /\ \A n \in 1 .. Len(s) : h[n] = h[n - 1] + s[n].slots
    BY <1>1, HeldIs
  <2>2. /\ Len(t) \in Nat /\ g[0] = 0
        /\ \A n \in 1 .. Len(t) : g[n] = g[n - 1] + t[n].slots
    BY <1>2, HeldIs
  <2> QED
    BY <2>1, <2>2
<1> DEFINE S == {n \in 0 .. m : h[n] = g[n]}
<1>4. 0 \in S
  BY <1>3
<1>5. ASSUME NEW n \in 1 .. m, n - 1 \in S
      PROVE  n \in S
  BY <1>3, <1>5
<1>6. \A n \in 0 .. m : n \in S
  <2> HIDE DEF S
  <2> QED
    BY <1>4, <1>5, InductionTo, Zenon
<1> QED
  BY <1>1, <1>2, <1>6

-----------------------------------------------------------------------------
(* The compiler's operations on its chunk.                                 *)

Places(c)     == 0 .. NextPlace(c) - 1
Emitted(c, p) == InstrAt(c.chunk, p)

LEMMA CompilerIs ==
    ASSUME NEW c \in Compiler
    PROVE  /\ c.chunk \in Chunk /\ c.scopes \in Seq(Scope) /\ c.aborted \in BOOLEAN
           /\ c.chunk.code \in Seq(Instr)
           /\ c.chunk.intConstants \in Seq(CInt)
           /\ c.chunk.stringConstants \in Seq(STRING)
           /\ c.chunk.globalNames \in Seq(STRING)
           /\ NextPlace(c) \in Nat /\ NextPlace(c) = Len(c.chunk.code)
           /\ DOMAIN c.chunk.code = 1 .. NextPlace(c)
           /\ \A p \in Places(c) : Emitted(c, p) = c.chunk.code[p + 1]
           /\ \A p \in Places(c) : Emitted(c, p) \in Instr
<1>1. c.chunk \in Chunk /\ c.scopes \in Seq(Scope) /\ c.aborted \in BOOLEAN
  BY DEF Compiler
<1>2. /\ c.chunk.code \in Seq(Instr)
      /\ c.chunk.intConstants \in Seq(CInt)
      /\ c.chunk.stringConstants \in Seq(STRING)
      /\ c.chunk.globalNames \in Seq(STRING)
  BY <1>1 DEF Chunk
<1>3. /\ NextPlace(c) \in Nat /\ NextPlace(c) = Len(c.chunk.code)
      /\ DOMAIN c.chunk.code = 1 .. NextPlace(c)
  BY <1>2, LenProperties DEF NextPlace, Size
<1>4. \A p \in Places(c) : Emitted(c, p) = c.chunk.code[p + 1]
  BY DEF Emitted, InstrAt
<1>5. ASSUME NEW p \in Places(c) PROVE Emitted(c, p) \in Instr
  <2>1. p + 1 \in 1 .. Len(c.chunk.code)
    BY <1>3 DEF Places
  <2> QED
    BY <1>2, <1>4, <2>1, ElementOfSeq
<1> QED
  BY <1>1, <1>2, <1>3, <1>4, <1>5

\* A compiler that differs in its chunk.
WithChunk(c, ch) == [c EXCEPT !.chunk = ch]

LEMMA WithChunkIs ==
    ASSUME NEW c \in Compiler, NEW ch \in Chunk, NEW d, d = WithChunk(c, ch)
    PROVE  /\ d \in Compiler /\ d.chunk = ch
           /\ d.scopes = c.scopes /\ d.aborted = c.aborted
BY DEF WithChunk, Compiler

WithCode(ch, code) == [ch EXCEPT !.code = code]

LEMMA WithCodeIs ==
    ASSUME NEW ch \in Chunk, NEW code \in Seq(Instr), NEW r, r = WithCode(ch, code)
    PROVE  /\ r \in Chunk /\ r.code = code /\ r.intConstants = ch.intConstants
           /\ r.stringConstants = ch.stringConstants
           /\ r.globalNames = ch.globalNames
BY DEF WithCode, Chunk

\* What is left alone when the code is replaced.
KeepsPools(c, d) ==
    /\ d.chunk.intConstants = c.chunk.intConstants
    /\ d.chunk.stringConstants = c.chunk.stringConstants
    /\ d.chunk.globalNames = c.chunk.globalNames

KeepsScopes(c, d) == d.scopes = c.scopes /\ d.aborted = c.aborted

LEMMA NewCode ==
    ASSUME NEW c \in Compiler, NEW code \in Seq(Instr),
           NEW d, d = WithChunk(c, WithCode(c.chunk, code))
    PROVE  /\ d \in Compiler /\ KeepsPools(c, d) /\ KeepsScopes(c, d)
           /\ d.chunk.code = code
<1>1. PICK ch : ch = WithCode(c.chunk, code)
  OBVIOUS
<1>2. /\ ch \in Chunk /\ ch.code = code
      /\ ch.intConstants = c.chunk.intConstants
      /\ ch.stringConstants = c.chunk.stringConstants
      /\ ch.globalNames = c.chunk.globalNames
  BY <1>1, CompilerIs, WithCodeIs
<1>3. d = WithChunk(c, ch)
  BY <1>1
<1>4. /\ d \in Compiler /\ d.chunk = ch
      /\ d.scopes = c.scopes /\ d.aborted = c.aborted
  BY <1>2, <1>3, WithChunkIs
<1> QED
  BY <1>2, <1>4 DEF KeepsPools, KeepsScopes

LEMMA EmitIs ==
    ASSUME NEW c \in Compiler, NEW op \in OpCode, NEW operand \in Int, NEW loc \in Nat,
           NEW d, d = Emit(c, op, operand, loc)
    PROVE  /\ d \in Compiler /\ KeepsPools(c, d) /\ KeepsScopes(c, d)
           /\ NextPlace(d) = NextPlace(c) + 1
           /\ \A p \in Places(c) : Emitted(d, p) = Emitted(c, p)
           /\ Emitted(d, NextPlace(c)).op = op
           /\ Emitted(d, NextPlace(c)).operand = operand
<1> DEFINE in == [op |-> op, operand |-> operand, loc |-> loc]
<1>1. in \in Instr /\ in.op = op /\ in.operand = operand
  BY DEF Instr
<1> HIDE DEF in
<1>2. PICK code : code = Append(c.chunk.code, in)
  OBVIOUS
<1>3. /\ c.chunk.code \in Seq(Instr)
      /\ NextPlace(c) = Len(c.chunk.code) /\ NextPlace(c) \in Nat
  BY CompilerIs
<1>4. /\ code \in Seq(Instr) /\ Len(code) = NextPlace(c) + 1
      /\ code[NextPlace(c) + 1] = in
      /\ \A k \in 1 .. NextPlace(c) : code[k] = c.chunk.code[k]
  BY <1>1, <1>2, <1>3, AppendProperties
<1>5. d = WithChunk(c, WithCode(c.chunk, code))
  BY <1>2 DEF Emit, WithChunk, WithCode, in
<1>6. /\ d \in Compiler /\ KeepsPools(c, d) /\ KeepsScopes(c, d)
      /\ d.chunk.code = code
  BY <1>4, <1>5, NewCode
<1>7. NextPlace(d) = NextPlace(c) + 1
  BY <1>4, <1>6 DEF NextPlace, Size
<1>8. \A p \in Places(c) : p + 1 \in 1 .. NextPlace(c)
  BY <1>3 DEF Places
<1>9. \A p \in Places(c) : Emitted(d, p) = Emitted(c, p)
  BY <1>4, <1>6, <1>8 DEF Emitted, InstrAt
<1>10. Emitted(d, NextPlace(c)) = in
  BY <1>4, <1>6 DEF Emitted, InstrAt
<1> QED
  BY <1>1, <1>6, <1>7, <1>9, <1>10

LEMMA EmitPopsIs ==
    ASSUME NEW c \in Compiler, NEW n \in Nat, NEW loc \in Nat,
           NEW d, d = EmitPops(c, n, loc)
    PROVE  /\ d \in Compiler /\ KeepsPools(c, d) /\ KeepsScopes(c, d)
           /\ NextPlace(d) = NextPlace(c) + n
           /\ \A p \in Places(c) : Emitted(d, p) = Emitted(c, p)
           /\ \A p \in NextPlace(c) .. NextPlace(c) + n - 1 :
                  Emitted(d, p).op = "OP_POP"
<1> DEFINE in == [op |-> "OP_POP", operand |-> 0, loc |-> loc]
<1> DEFINE pops == [k \in 1 .. n |-> in]
<1>1. in \in Instr /\ in.op = "OP_POP"
  BY DEF Instr, OpCode
<1> HIDE DEF in
<1>2. pops \in Seq(Instr) /\ Len(pops) = n /\ \A k \in 1 .. n : pops[k] = in
  BY <1>1, SeqDef
<1> HIDE DEF pops
<1>3. PICK code : code = c.chunk.code \o pops
  OBVIOUS
<1>4. /\ c.chunk.code \in Seq(Instr)
      /\ NextPlace(c) = Len(c.chunk.code) /\ NextPlace(c) \in Nat
  BY CompilerIs
<1>5. /\ code \in Seq(Instr) /\ Len(code) = NextPlace(c) + n
      /\ \A k \in 1 .. NextPlace(c) : code[k] = c.chunk.code[k]
      /\ \A k \in NextPlace(c) + 1 .. NextPlace(c) + n : code[k] = in
  <2>1. /\ code \in Seq(Instr) /\ Len(code) = NextPlace(c) + n
        /\ \A k \in 1 .. NextPlace(c) + n :
              code[k] = IF k <= NextPlace(c) THEN c.chunk.code[k]
                        ELSE pops[k - NextPlace(c)]
    <3>1. PICK old \in Seq(Instr) : old = c.chunk.code
      BY <1>4
    <3>2. /\ code \in Seq(Instr) /\ Len(code) = Len(old) + Len(pops)
          /\ \A k \in 1 .. Len(old) + Len(pops) :
                code[k] = IF k <= Len(old) THEN old[k] ELSE pops[k - Len(old)]
      BY <1>2, <1>3, <3>1, ConcatProperties, ZenonT(60)
    <3>3. Len(old) = NextPlace(c) /\ Len(pops) = n
      BY <1>2, <1>4, <3>1
    <3> QED
      BY <3>1, <3>2, <3>3, Zenon
  <2>2. \A k \in NextPlace(c) + 1 .. NextPlace(c) + n :
           /\ k \in 1 .. NextPlace(c) + n /\ ~(k <= NextPlace(c))
           /\ k - NextPlace(c) \in 1 .. n
    BY <1>4
  <2>3. \A k \in 1 .. NextPlace(c) : k \in 1 .. NextPlace(c) + n /\ k <= NextPlace(c)
    BY <1>4
  <2>4. \A k \in 1 .. NextPlace(c) : code[k] = c.chunk.code[k]
    BY <2>1, <2>3
  <2>5. \A k \in NextPlace(c) + 1 .. NextPlace(c) + n : code[k] = pops[k - NextPlace(c)]
    BY <2>1, <2>2
  <2>6. \A k \in NextPlace(c) + 1 .. NextPlace(c) + n : code[k] = in
    BY <1>2, <2>2, <2>5
  <2> QED
    BY <2>1, <2>4, <2>6
<1>6. d = WithChunk(c, WithCode(c.chunk, code))
  BY <1>3 DEF EmitPops, WithChunk, WithCode, in, pops
<1>7. /\ d \in Compiler /\ KeepsPools(c, d) /\ KeepsScopes(c, d)
      /\ d.chunk.code = code
  BY <1>5, <1>6, NewCode
<1>8. NextPlace(d) = NextPlace(c) + n
  BY <1>5, <1>7 DEF NextPlace, Size
<1>9. /\ \A p \in Places(c) : p + 1 \in 1 .. NextPlace(c)
      /\ \A p \in NextPlace(c) .. NextPlace(c) + n - 1 :
            p + 1 \in NextPlace(c) + 1 .. NextPlace(c) + n
  BY <1>4 DEF Places
<1>10. \A p \in Places(c) : Emitted(d, p) = Emitted(c, p)
  BY <1>5, <1>7, <1>9 DEF Emitted, InstrAt
<1>11. \A p \in NextPlace(c) .. NextPlace(c) + n - 1 : Emitted(d, p) = in
  BY <1>5, <1>7, <1>9 DEF Emitted, InstrAt
<1> QED
  BY <1>1, <1>7, <1>8, <1>10, <1>11

LEMMA PatchIs ==
    ASSUME NEW c \in Compiler, NEW places, NEW target \in Int,
           NEW d, d = PatchJumps(c, places, target)
    PROVE  /\ d \in Compiler /\ KeepsPools(c, d) /\ KeepsScopes(c, d)
           /\ NextPlace(d) = NextPlace(c)
           /\ \A p \in Places(c) : Emitted(d, p).op = Emitted(c, p).op
           /\ \A p \in Places(c) :
                 Emitted(d, p).operand =
                     IF p \in places THEN target ELSE Emitted(c, p).operand
<1>1. /\ c.chunk.code \in Seq(Instr) /\ NextPlace(c) \in Nat
      /\ NextPlace(c) = Len(c.chunk.code)
      /\ DOMAIN c.chunk.code = 1 .. NextPlace(c)
      /\ \A k \in 1 .. NextPlace(c) : c.chunk.code[k] \in Instr
  BY CompilerIs, ElementOfSeq
<1>2. PICK code : code = Patched(c.chunk.code, places, target)
  OBVIOUS
<1>3. ASSUME NEW in \in Instr
      PROVE  /\ [in EXCEPT !.operand = target] \in Instr
             /\ [in EXCEPT !.operand = target].op = in.op
             /\ [in EXCEPT !.operand = target].operand = target
  BY DEF Instr
<1>4. /\ code = [k \in 1 .. NextPlace(c) |->
                    IF k - 1 \in places THEN [c.chunk.code[k] EXCEPT !.operand = target]
                    ELSE c.chunk.code[k]]
  BY <1>1, <1>2 DEF Patched
<1>5. ASSUME NEW k \in 1 .. NextPlace(c)
      PROVE  /\ code[k] \in Instr /\ code[k].op = c.chunk.code[k].op
             /\ code[k].operand = IF k - 1 \in places THEN target
                                  ELSE c.chunk.code[k].operand
  <2>1. c.chunk.code[k] \in Instr
    BY <1>1
  <2>2. CASE k - 1 \in places
    <3>1. code[k] = [c.chunk.code[k] EXCEPT !.operand = target]
      BY <1>4, <2>2
    <3> QED
      BY <1>3, <2>1, <2>2, <3>1
  <2>3. CASE k - 1 \notin places
    <3>1. code[k] = c.chunk.code[k]
      BY <1>4, <2>3
    <3> QED
      BY <2>1, <2>3, <3>1
  <2> QED
    BY <2>2, <2>3
<1>6. code \in Seq(Instr) /\ Len(code) = NextPlace(c)
  <2>1. code \in [1 .. NextPlace(c) -> Instr]
    BY <1>4, <1>5
  <2>2. code \in Seq(Instr)
    BY <1>1, <2>1, SeqDef
  <2>3. DOMAIN code = 1 .. NextPlace(c)
    BY <2>1
  <2>4. Len(code) = NextPlace(c)
    BY <1>1, <2>2, <2>3, LenProperties
  <2> QED
    BY <2>2, <2>4
<1>7. d = WithChunk(c, WithCode(c.chunk, code))
  BY <1>2 DEF PatchJumps, WithChunk, WithCode
<1>8. /\ d \in Compiler /\ KeepsPools(c, d) /\ KeepsScopes(c, d)
      /\ d.chunk.code = code
  BY <1>6, <1>7, NewCode
<1>9. NextPlace(d) = NextPlace(c)
  BY <1>6, <1>8 DEF NextPlace, Size
<1>10. \A p \in Places(c) : /\ p + 1 \in 1 .. NextPlace(c) /\ (p + 1) - 1 = p
  BY <1>1 DEF Places
<1>11. \A p \in Places(c) : /\ Emitted(d, p) = code[p + 1]
                            /\ Emitted(c, p) = c.chunk.code[p + 1]
  BY <1>8 DEF Emitted, InstrAt
<1>12. ASSUME NEW p \in Places(c)
       PROVE  /\ Emitted(d, p).op = Emitted(c, p).op
              /\ Emitted(d, p).operand =
                     IF p \in places THEN target ELSE Emitted(c, p).operand
  BY <1>5, <1>10, <1>11
<1> QED
  BY <1>8, <1>9, <1>12

\* The pool q has the entries of pool, and x.
AddsTo(pool, x, q) == Range(q) = Range(pool) \cup {x}

LEMMA InternedIs ==
    ASSUME NEW T, NEW pool \in Seq(T), NEW x \in T, NEW q, q = Interned(pool, x)
    PROVE  /\ q \in Seq(T) /\ Len(pool) <= Len(q)
           /\ Len(pool) \in Nat /\ Len(q) \in Nat
           /\ AddsTo(pool, x, q)
           /\ IndexIn(q, x) \in 0 .. Len(q) - 1
<1>1. Len(pool) \in Nat /\ DOMAIN pool = 1 .. Len(pool)
  BY LenProperties
<1>2. /\ q \in Seq(T) /\ Len(pool) <= Len(q) /\ Len(q) \in Nat
      /\ Range(q) = Range(pool) \cup {x}
  <2>1. CASE x \in Range(pool)
    <3>1. q = pool
      BY <2>1 DEF Interned
    <3> QED
      BY <1>1, <2>1, <3>1
  <2>2. CASE x \notin Range(pool)
    <3>1. q = Append(pool, x)
      BY <2>2 DEF Interned
    <3>2. /\ q \in Seq(T) /\ Len(q) = Len(pool) + 1 /\ q[Len(pool) + 1] = x
          /\ \A k \in 1 .. Len(pool) : q[k] = pool[k]
      BY <3>1, AppendProperties
    <3>3. DOMAIN q = 1 .. Len(pool) + 1
      BY <3>2, LenProperties
    <3>4. \A k \in DOMAIN q : k \in DOMAIN pool \/ k = Len(pool) + 1
      BY <1>1, <3>3
    <3>5. DOMAIN pool \subseteq DOMAIN q /\ Len(pool) + 1 \in DOMAIN q
      BY <1>1, <3>3
    <3>6. \A k \in DOMAIN pool : q[k] = pool[k]
      BY <1>1, <3>2
    <3>7. Range(q) = Range(pool) \cup {x}
      BY <3>2, <3>4, <3>5, <3>6 DEF Range
    <3> QED
      BY <1>1, <3>2, <3>7
  <2> QED
    BY <2>1, <2>2
<1>3. DOMAIN q = 1 .. Len(q)
  BY <1>2, LenProperties
<1>4. \E k \in DOMAIN q : q[k] = x
  <2>1. x \in Range(q)
    BY <1>2
  <2> QED
    BY <2>1 DEF Range
<1>5. PICK i \in DOMAIN q : i = CHOOSE k \in DOMAIN q : q[k] = x
  BY <1>4
<1>6. IndexIn(q, x) = i - 1
  BY <1>5, Zenon DEF IndexIn
<1> QED
  BY <1>1, <1>2, <1>3, <1>5, <1>6 DEF AddsTo

\* The same code and scopes, with pools that may have grown.
Grown(c, d) ==
    /\ KeepsScopes(c, d)
    /\ d.chunk.code = c.chunk.code
    /\ Len(c.chunk.intConstants) <= Len(d.chunk.intConstants)
    /\ Len(c.chunk.stringConstants) <= Len(d.chunk.stringConstants)
    /\ Len(c.chunk.globalNames) <= Len(d.chunk.globalNames)

LEMMA EmitIntIs ==
    ASSUME NEW c \in Compiler, NEW v \in CInt, NEW loc,
           NEW d, d = EmitInt(c, v, loc)
    PROVE  \E b \in Compiler, k \in Nat :
               /\ Grown(c, b) /\ k < Len(b.chunk.intConstants)
               /\ b.chunk.globalNames = c.chunk.globalNames
               /\ d = Emit(b, "OP_CONST_INT", k, loc)
<1>1. PICK pool : pool = Interned(c.chunk.intConstants, v)
  OBVIOUS
<1>2. /\ c.chunk \in Chunk /\ c.chunk.intConstants \in Seq(CInt)
      /\ c.chunk.stringConstants \in Seq(STRING)
      /\ c.chunk.globalNames \in Seq(STRING)
  BY CompilerIs
<1>3. /\ pool \in Seq(CInt) /\ Len(c.chunk.intConstants) <= Len(pool)
      /\ Len(pool) \in Nat /\ IndexIn(pool, v) \in 0 .. Len(pool) - 1
  <2>1. PICK old \in Seq(CInt) : old = c.chunk.intConstants
    BY <1>2
  <2>2. pool = Interned(old, v)
    BY <1>1, <2>1
  <2>3. /\ pool \in Seq(CInt) /\ Len(old) <= Len(pool)
        /\ Len(pool) \in Nat /\ IndexIn(pool, v) \in 0 .. Len(pool) - 1
    BY <2>2, InternedIs, Zenon
  <2> QED
    BY <2>1, <2>3, Zenon
<1>4. PICK ch : ch = [c.chunk EXCEPT !.intConstants = pool]
  OBVIOUS
<1>5. /\ ch \in Chunk /\ ch.code = c.chunk.code /\ ch.intConstants = pool
      /\ ch.stringConstants = c.chunk.stringConstants
      /\ ch.globalNames = c.chunk.globalNames
  BY <1>2, <1>3, <1>4 DEF Chunk
<1>6. PICK b : b = WithChunk(c, ch)
  OBVIOUS
<1>7. /\ b \in Compiler /\ b.chunk = ch /\ b.scopes = c.scopes /\ b.aborted = c.aborted
  BY <1>5, <1>6, WithChunkIs
<1>8. b = [c EXCEPT !.chunk.intConstants = pool]
  BY <1>4, <1>6 DEF WithChunk
<1>9. PICK k \in Nat : k = IndexIn(pool, v)
  BY <1>3
<1>10. d = Emit(b, "OP_CONST_INT", k, loc)
  BY <1>1, <1>8, <1>9, Zenon DEF EmitInt
<1>11. Len(c.chunk.stringConstants) \in Nat /\ Len(c.chunk.globalNames) \in Nat
  BY <1>2, LenProperties
<1>12. Grown(c, b)
  BY <1>3, <1>5, <1>7, <1>11 DEF Grown, KeepsScopes
<1>13. k < Len(b.chunk.intConstants)
  BY <1>3, <1>5, <1>7, <1>9
<1>14. b.chunk.globalNames = c.chunk.globalNames
  BY <1>5, <1>7
<1> QED
  BY <1>7, <1>10, <1>12, <1>13, <1>14

LEMMA EmitStringIs ==
    ASSUME NEW c \in Compiler, NEW v \in STRING, NEW loc,
           NEW d, d = EmitString(c, v, loc)
    PROVE  \E b \in Compiler, k \in Nat :
               /\ Grown(c, b) /\ k < Len(b.chunk.stringConstants)
               /\ b.chunk.globalNames = c.chunk.globalNames
               /\ d = Emit(b, "OP_PRINT_STR", k, loc)
<1>1. PICK pool : pool = Interned(c.chunk.stringConstants, v)
  OBVIOUS
<1>2. /\ c.chunk \in Chunk /\ c.chunk.intConstants \in Seq(CInt)
      /\ c.chunk.stringConstants \in Seq(STRING)
      /\ c.chunk.globalNames \in Seq(STRING)
  BY CompilerIs
<1>3. /\ pool \in Seq(STRING) /\ Len(c.chunk.stringConstants) <= Len(pool)
      /\ Len(pool) \in Nat /\ IndexIn(pool, v) \in 0 .. Len(pool) - 1
  <2>1. PICK old \in Seq(STRING) : old = c.chunk.stringConstants
    BY <1>2
  <2>2. pool = Interned(old, v)
    BY <1>1, <2>1
  <2>3. /\ pool \in Seq(STRING) /\ Len(old) <= Len(pool)
        /\ Len(pool) \in Nat /\ IndexIn(pool, v) \in 0 .. Len(pool) - 1
    BY <2>2, InternedIs, Zenon
  <2> QED
    BY <2>1, <2>3, Zenon
<1>4. PICK ch : ch = [c.chunk EXCEPT !.stringConstants = pool]
  OBVIOUS
<1>5. /\ ch \in Chunk /\ ch.code = c.chunk.code /\ ch.stringConstants = pool
      /\ ch.intConstants = c.chunk.intConstants
      /\ ch.globalNames = c.chunk.globalNames
  BY <1>2, <1>3, <1>4 DEF Chunk
<1>6. PICK b : b = WithChunk(c, ch)
  OBVIOUS
<1>7. /\ b \in Compiler /\ b.chunk = ch /\ b.scopes = c.scopes /\ b.aborted = c.aborted
  BY <1>5, <1>6, WithChunkIs
<1>8. b = [c EXCEPT !.chunk.stringConstants = pool]
  BY <1>4, <1>6 DEF WithChunk
<1>9. PICK k \in Nat : k = IndexIn(pool, v)
  BY <1>3
<1>10. d = Emit(b, "OP_PRINT_STR", k, loc)
  BY <1>1, <1>8, <1>9, Zenon DEF EmitString
<1>11. Len(c.chunk.intConstants) \in Nat /\ Len(c.chunk.globalNames) \in Nat
  BY <1>2, LenProperties
<1>12. Grown(c, b)
  BY <1>3, <1>5, <1>7, <1>11 DEF Grown, KeepsScopes
<1>13. k < Len(b.chunk.stringConstants)
  BY <1>3, <1>5, <1>7, <1>9
<1>14. b.chunk.globalNames = c.chunk.globalNames
  BY <1>5, <1>7
<1> QED
  BY <1>7, <1>10, <1>12, <1>13, <1>14

LEMMA EmitGlobalIs ==
    ASSUME NEW c \in Compiler, NEW op, NEW v \in STRING, NEW loc,
           NEW d, d = EmitGlobal(c, op, v, loc)
    PROVE  \E b \in Compiler, k \in Nat :
               /\ Grown(c, b) /\ k < Len(b.chunk.globalNames)
               /\ AddsTo(c.chunk.globalNames, v, b.chunk.globalNames)
               /\ d = Emit(b, op, k, loc)
<1>1. PICK pool : pool = Interned(c.chunk.globalNames, v)
  OBVIOUS
<1>2. /\ c.chunk \in Chunk /\ c.chunk.intConstants \in Seq(CInt)
      /\ c.chunk.stringConstants \in Seq(STRING)
      /\ c.chunk.globalNames \in Seq(STRING)
  BY CompilerIs
<1>3. /\ pool \in Seq(STRING) /\ Len(c.chunk.globalNames) <= Len(pool)
      /\ Len(pool) \in Nat /\ IndexIn(pool, v) \in 0 .. Len(pool) - 1
      /\ Range(pool) = Range(c.chunk.globalNames) \cup {v}
  <2>1. PICK old \in Seq(STRING) : old = c.chunk.globalNames
    BY <1>2
  <2>2. pool = Interned(old, v)
    BY <1>1, <2>1
  <2>3. /\ pool \in Seq(STRING) /\ Len(old) <= Len(pool)
        /\ Len(pool) \in Nat /\ IndexIn(pool, v) \in 0 .. Len(pool) - 1
    BY <2>2, InternedIs, Zenon
  <2>4. AddsTo(old, v, pool)
    BY <2>2, InternedIs, Zenon
  <2> QED
    BY <2>1, <2>3, <2>4 DEF AddsTo
<1>4. PICK ch : ch = [c.chunk EXCEPT !.globalNames = pool]
  OBVIOUS
<1>5. /\ ch \in Chunk /\ ch.code = c.chunk.code /\ ch.globalNames = pool
      /\ ch.intConstants = c.chunk.intConstants
      /\ ch.stringConstants = c.chunk.stringConstants
  BY <1>2, <1>3, <1>4 DEF Chunk
<1>6. PICK b : b = WithChunk(c, ch)
  OBVIOUS
<1>7. /\ b \in Compiler /\ b.chunk = ch /\ b.scopes = c.scopes /\ b.aborted = c.aborted
  BY <1>5, <1>6, WithChunkIs
<1>8. b = [c EXCEPT !.chunk.globalNames = pool]
  BY <1>4, <1>6 DEF WithChunk
<1>9. PICK k \in Nat : k = IndexIn(pool, v)
  BY <1>3
<1>10. d = Emit(b, op, k, loc)
  BY <1>1, <1>8, <1>9, Zenon DEF EmitGlobal
<1>11. Len(c.chunk.intConstants) \in Nat /\ Len(c.chunk.stringConstants) \in Nat
  BY <1>2, LenProperties
<1>12. Grown(c, b)
  BY <1>3, <1>5, <1>7, <1>11 DEF Grown, KeepsScopes
<1>13. k < Len(b.chunk.globalNames)
  BY <1>3, <1>5, <1>7, <1>9
<1>14. AddsTo(c.chunk.globalNames, v, b.chunk.globalNames)
  BY <1>3, <1>5, <1>7 DEF AddsTo
<1> QED
  BY <1>7, <1>10, <1>12, <1>13, <1>14

-----------------------------------------------------------------------------
(* The depths that the code laid out so far expects: one at every place,   *)
(* the next one included.                                                  *)

\* A place laid out already, or the next one, where the depth is t.
Known(c, E, p, t) == p \in 0 .. NextPlace(c) /\ E[p] = t

\* A jump that takes the depth t with it.
Takes(c, E, p, t) ==
    p \in Places(c) /\ Emitted(c, p).op \in JumpOps /\ E[p] = t

Indexed(c, op, operand) ==
    /\ op = "OP_CONST_INT" => InRange(operand, Len(c.chunk.intConstants))
    /\ op = "OP_PRINT_STR" => InRange(operand, Len(c.chunk.stringConstants))
    /\ op \in GlobalOps    => InRange(operand, Len(c.chunk.globalNames))

\* The instruction at p finds what it pops and leaves what the next one expects.
Settled(c, E, p) ==
    /\ Emitted(c, p).op # "OP_HALT"
    /\ Indexed(c, Emitted(c, p).op, Emitted(c, p).operand)
    /\ E[p] >= Pops(Emitted(c, p).op)
    /\ Emitted(c, p).op # "OP_JUMP" =>
          E[p + 1] = E[p] - Pops(Emitted(c, p).op) + Pushes(Emitted(c, p).op)

\* A jump at p has a target, with the depth that it takes there.
Lands(c, E, p) ==
    Emitted(c, p).op \in JumpOps => Known(c, E, Emitted(c, p).operand, E[p])

Awaited(scope) == Range(scope.breakJumps) \cup Range(scope.continueJumps)
Waiting(c)     == UNION {Awaited(c.scopes[n]) : n \in 1 .. Len(c.scopes)}
Total(c)       == Held(c.scopes)[Len(c.scopes)]

\* The jumps that wait in a scope take what the scopes up to it hold.
WaitsIn(c, E, n) ==
    /\ \A p \in Awaited(c.scopes[n]) : Takes(c, E, p, Held(c.scopes)[n])
    /\ c.scopes[n].kind = "Switch" => c.scopes[n].continueJumps = << >>

Waits(c, E) == \A n \in 1 .. Len(c.scopes) : WaitsIn(c, E, n)

\* The code fits the depths E, but for the targets of the jumps in X; t is
\* the depth at its end.
Laid(c, E, X, t) ==
    /\ E \in [0 .. NextPlace(c) -> Nat] /\ E[0] = 0
    /\ E[NextPlace(c)] = t
    /\ \A p \in Places(c) : Settled(c, E, p)
    /\ \A p \in Places(c) : p \in X \/ Lands(c, E, p)
    /\ Waits(c, E)

\* More code, where the code so far expects what it did.
Extends(c, E, d, F) ==
    /\ NextPlace(c) <= NextPlace(d)
    /\ \A p \in 0 .. NextPlace(c) : F[p] = E[p]
    /\ \A p \in Places(c) : Emitted(d, p).op = Emitted(c, p).op

PoolsGrow(c, d) ==
    /\ Len(c.chunk.intConstants) <= Len(d.chunk.intConstants)
    /\ Len(c.chunk.stringConstants) <= Len(d.chunk.stringConstants)
    /\ Len(c.chunk.globalNames) <= Len(d.chunk.globalNames)

LEMMA PoolLengths ==
    ASSUME NEW c \in Compiler
    PROVE  /\ Len(c.chunk.intConstants) \in Nat
           /\ Len(c.chunk.stringConstants) \in Nat
           /\ Len(c.chunk.globalNames) \in Nat
BY CompilerIs, LenProperties

LEMMA PoolsKept ==
    ASSUME NEW c \in Compiler, NEW d, KeepsPools(c, d)
    PROVE  PoolsGrow(c, d)
BY PoolLengths DEF PoolsGrow, KeepsPools

LEMMA PoolsOfGrown ==
    ASSUME NEW c, NEW d, Grown(c, d)
    PROVE  PoolsGrow(c, d)
BY DEF PoolsGrow, Grown

LEMMA ExtendsKnown ==
    ASSUME NEW c \in Compiler, NEW d \in Compiler, NEW E, NEW F, Extends(c, E, d, F),
           NEW p, NEW t
    PROVE  /\ Known(c, E, p, t) => Known(d, F, p, t)
           /\ Takes(c, E, p, t) => Takes(d, F, p, t)
<1>1. /\ NextPlace(c) \in Nat /\ NextPlace(d) \in Nat
      /\ NextPlace(c) <= NextPlace(d)
  BY CompilerIs DEF Extends
<1>2. Known(c, E, p, t) => Known(d, F, p, t)
  BY <1>1 DEF Extends, Known
<1>3. ASSUME Takes(c, E, p, t) PROVE Takes(d, F, p, t)
  <2>1. p \in Places(c) /\ p \in Places(d) /\ p \in 0 .. NextPlace(c)
    BY <1>1, <1>3 DEF Takes, Places
  <2> QED
    BY <1>3, <2>1 DEF Extends, Takes
<1> QED
  BY <1>2, <1>3

LEMMA ExtendsTrans ==
    ASSUME NEW c \in Compiler, NEW d \in Compiler, NEW e \in Compiler,
           NEW E, NEW F, NEW G, Extends(c, E, d, F), Extends(d, F, e, G)
    PROVE  Extends(c, E, e, G)
<1>1. /\ NextPlace(c) \in Nat /\ NextPlace(d) \in Nat /\ NextPlace(e) \in Nat
      /\ NextPlace(c) <= NextPlace(d) /\ NextPlace(d) <= NextPlace(e)
  BY CompilerIs DEF Extends
<1>2. /\ \A p \in 0 .. NextPlace(c) : p \in 0 .. NextPlace(d)
      /\ \A p \in Places(c) : p \in Places(d)
      /\ NextPlace(c) <= NextPlace(e)
  BY <1>1 DEF Places
<1>3. \A p \in 0 .. NextPlace(c) : G[p] = E[p]
  BY <1>2 DEF Extends
<1>4. \A p \in Places(c) : Emitted(e, p).op = Emitted(c, p).op
  BY <1>2 DEF Extends
<1> QED
  BY <1>2, <1>3, <1>4 DEF Extends

LEMMA SettledStable ==
    ASSUME NEW c \in Compiler, NEW d \in Compiler, NEW E, NEW F, Extends(c, E, d, F),
           PoolsGrow(c, d), NEW p \in Places(c), Settled(c, E, p),
           \/ Emitted(d, p).operand = Emitted(c, p).operand
           \/ Emitted(c, p).op \in JumpOps
    PROVE  Settled(d, F, p)
<1>1. p \in 0 .. NextPlace(c) /\ p + 1 \in 0 .. NextPlace(c)
  BY CompilerIs DEF Places
<1>2. F[p] = E[p] /\ F[p + 1] = E[p + 1] /\ Emitted(d, p).op = Emitted(c, p).op
  BY <1>1 DEF Extends
<1>3. Emitted(c, p) \in Instr /\ Emitted(d, p) \in Instr
  <2>1. p \in Places(d)
    BY CompilerIs DEF Places, Extends
  <2> QED
    BY <2>1, CompilerIs
<1>4. Indexed(d, Emitted(d, p).op, Emitted(d, p).operand)
  <2> DEFINE op == Emitted(c, p).op
  <2>1. CASE op \in JumpOps
    <3>1. op # "OP_CONST_INT" /\ op # "OP_PRINT_STR" /\ op \notin GlobalOps
      BY <2>1 DEF JumpOps, BranchOps, GlobalOps, StoreOps
    <3> QED
      BY <1>2, <3>1 DEF Indexed
  <2>2. CASE op \notin JumpOps
    <3>1. PICK k \in Int : k = Emitted(c, p).operand
      BY <1>3 DEF Instr
    <3>2. Emitted(d, p).operand = k
      BY <2>2, <3>1
    <3>3. Indexed(c, op, k)
      BY <3>1 DEF Settled
    <3>4. Indexed(d, op, k)
      BY <3>3, PoolLengths, SMTT(30) DEF Indexed, InRange, PoolsGrow
    <3> QED
      BY <1>2, <3>2, <3>4
  <2> QED
    BY <2>1, <2>2
<1> QED
  BY <1>2, <1>4 DEF Settled

LEMMA LandsStable ==
    ASSUME NEW c \in Compiler, NEW d \in Compiler, NEW E, NEW F, Extends(c, E, d, F),
           NEW p \in Places(c), Lands(c, E, p),
           Emitted(d, p).operand = Emitted(c, p).operand
    PROVE  Lands(d, F, p)
<1>1. p \in 0 .. NextPlace(c)
  BY CompilerIs DEF Places
<1>2. F[p] = E[p] /\ Emitted(d, p).op = Emitted(c, p).op
  BY <1>1 DEF Extends
<1>3. ASSUME Known(c, E, Emitted(c, p).operand, E[p])
      PROVE  Known(d, F, Emitted(d, p).operand, F[p])
  BY <1>2, <1>3, ExtendsKnown
<1> QED
  BY <1>2, <1>3 DEF Lands

LEMMA WaitsStable ==
    ASSUME NEW c \in Compiler, NEW d \in Compiler, NEW E, NEW F, Extends(c, E, d, F),
           d.scopes = c.scopes, Waits(c, E)
    PROVE  Waits(d, F)
<1>1. ASSUME NEW n \in 1 .. Len(c.scopes) PROVE WaitsIn(d, F, n)
  <2>1. WaitsIn(c, E, n)
    BY DEF Waits
  <2>2. \A p \in Awaited(c.scopes[n]) : Takes(d, F, p, Held(c.scopes)[n])
    BY <2>1, ExtendsKnown DEF WaitsIn
  <2> QED
    BY <2>1, <2>2 DEF WaitsIn
<1> QED
  BY <1>1 DEF Waits

LEMMA LaidTypes ==
    ASSUME NEW c \in Compiler, NEW E, NEW X, NEW t, Laid(c, E, X, t)
    PROVE  /\ NextPlace(c) \in Nat /\ t \in Nat /\ Known(c, E, NextPlace(c), t)
           /\ \A p \in 0 .. NextPlace(c) : E[p] \in Nat
BY CompilerIs DEF Laid, Known

LEMMA LaidMore ==
    ASSUME NEW c, NEW E, NEW X, NEW Y, NEW t, Laid(c, E, X, t), X \subseteq Y
    PROVE  Laid(c, E, Y, t)
<1>1. \A p \in Places(c) : p \in Y \/ Lands(c, E, p)
  BY DEF Laid
<1> QED
  BY <1>1 DEF Laid

\* One more instruction; u is the depth behind it.
LEMMA EmitLaid ==
    ASSUME NEW c \in Compiler, NEW op \in OpCode, NEW operand \in Int, NEW loc \in Nat,
           NEW d, d = Emit(c, op, operand, loc),
           NEW E, NEW X, NEW t, NEW u \in Nat, Laid(c, E, X, t),
           op # "OP_HALT", Indexed(c, op, operand), t >= Pops(op),
           op # "OP_JUMP" => u = t - Pops(op) + Pushes(op),
           op \in JumpOps => NextPlace(c) \in X \/ Known(c, E, operand, t)
    PROVE  \E F : Laid(d, F, X, u) /\ Extends(c, E, d, F)
<1> DEFINE N == NextPlace(c)
<1> DEFINE F == [p \in 0 .. N + 1 |-> IF p <= N THEN E[p] ELSE u]
<1>1. /\ d \in Compiler /\ KeepsPools(c, d) /\ KeepsScopes(c, d)
      /\ NextPlace(d) = N + 1
      /\ \A p \in Places(c) : Emitted(d, p) = Emitted(c, p)
      /\ Emitted(d, N).op = op
      /\ Emitted(d, N).operand = operand
  BY EmitIs
<1>2. /\ N \in Nat /\ t \in Nat /\ Known(c, E, N, t)
      /\ \A p \in 0 .. N : E[p] \in Nat
  BY LaidTypes
<1>3. /\ F \in [0 .. N + 1 -> Nat] /\ F[N + 1] = u
      /\ \A p \in 0 .. N : F[p] = E[p]
  BY <1>2
<1> HIDE DEF F
<1>4. Extends(c, E, d, F)
  <2>1. NextPlace(c) <= NextPlace(d)
    BY <1>1, <1>2
  <2> QED
    BY <1>1, <1>3, <2>1 DEF Extends
<1>5. PoolsGrow(c, d)
  BY <1>1, PoolsKept
<1>6. F[0] = 0 /\ E[N] = t /\ F[N] = t
  BY <1>2, <1>3 DEF Laid, Known
<1>7. ASSUME NEW p \in Places(c)
      PROVE  Settled(d, F, p) /\ (p \in X \/ Lands(d, F, p))
  <2>1. Settled(c, E, p) /\ (p \in X \/ Lands(c, E, p))
    BY DEF Laid
  <2>2. Emitted(d, p).operand = Emitted(c, p).operand
    BY <1>1
  <2>3. Settled(d, F, p)
    BY <1>1, <1>4, <1>5, <2>1, <2>2, SettledStable
  <2>4. Lands(c, E, p) => Lands(d, F, p)
    BY <1>1, <1>4, <2>2, LandsStable
  <2> QED
    BY <2>1, <2>3, <2>4
<1>8. Settled(d, F, N)
  <2>1. Indexed(d, op, operand)
    BY <1>5, PoolLengths, SMTT(30) DEF Indexed, InRange, PoolsGrow
  <2> QED
    BY <1>1, <1>3, <1>6, <2>1 DEF Settled
<1>9. N \in X \/ Lands(d, F, N)
  <2>1. ASSUME Known(c, E, operand, t) PROVE Known(d, F, operand, t)
    BY <1>1, <1>4, <2>1, ExtendsKnown
  <2> QED
    BY <1>1, <1>6, <2>1 DEF Lands
<1>10. \A p \in Places(d) : p \in Places(c) \/ p = N
  BY <1>1, <1>2 DEF Places
<1>11. Waits(d, F)
  <2>1. Waits(c, E) /\ d.scopes = c.scopes
    BY <1>1 DEF Laid, KeepsScopes
  <2> QED
    BY <1>1, <1>4, <2>1, WaitsStable
<1>12. /\ \A p \in Places(d) : Settled(d, F, p)
       /\ \A p \in Places(d) : p \in X \/ Lands(d, F, p)
  BY <1>7, <1>8, <1>9, <1>10
<1>13. Laid(d, F, X, u)
  BY <1>1, <1>3, <1>6, <1>11, <1>12 DEF Laid
<1> QED
  BY <1>4, <1>13

LEMMA GrownLaid ==
    ASSUME NEW c \in Compiler, NEW d \in Compiler, Grown(c, d),
           NEW E, NEW X, NEW t, Laid(c, E, X, t)
    PROVE  Laid(d, E, X, t) /\ Extends(c, E, d, E)
<1>1. d.chunk.code = c.chunk.code /\ d.scopes = c.scopes
  BY DEF Grown, KeepsScopes
<1>2. NextPlace(d) = NextPlace(c) /\ NextPlace(c) \in Nat
  BY <1>1, CompilerIs DEF NextPlace, Size
<1>3. Places(d) = Places(c) /\ \A p : Emitted(d, p) = Emitted(c, p)
  BY <1>1, <1>2 DEF Places, Emitted, InstrAt
<1>4. Extends(c, E, d, E)
  BY <1>2, <1>3 DEF Extends
<1>5. PoolsGrow(c, d)
  BY PoolsOfGrown
<1>6. ASSUME NEW p \in Places(c)
      PROVE  Settled(d, E, p) /\ (p \in X \/ Lands(d, E, p))
  <2>1. Settled(c, E, p) /\ (p \in X \/ Lands(c, E, p))
    BY DEF Laid
  <2>2. Emitted(d, p).operand = Emitted(c, p).operand
    BY <1>3
  <2>3. Settled(d, E, p)
    BY <1>4, <1>5, <2>1, <2>2, SettledStable
  <2>4. Lands(c, E, p) => Lands(d, E, p)
    BY <1>4, <2>2, LandsStable
  <2> QED
    BY <2>1, <2>3, <2>4
<1>7. Waits(d, E)
  <2>1. Waits(c, E)
    BY DEF Laid
  <2> QED
    BY <1>1, <1>4, <2>1, WaitsStable
<1>8. Laid(d, E, X, t)
  <2>1. E \in [0 .. NextPlace(d) -> Nat] /\ E[0] = 0 /\ E[NextPlace(d)] = t
    BY <1>2 DEF Laid
  <2> QED
    BY <1>3, <1>6, <1>7, <2>1 DEF Laid
<1> QED
  BY <1>4, <1>8

\* The pops that leave u of u + n operands.
LEMMA EmitPopsLaid ==
    ASSUME NEW c \in Compiler, NEW n \in Nat, NEW loc \in Nat,
           NEW d, d = EmitPops(c, n, loc),
           NEW E, NEW X, NEW u \in Nat, Laid(c, E, X, u + n)
    PROVE  \E F : Laid(d, F, X, u) /\ Extends(c, E, d, F)
<1> DEFINE N == NextPlace(c)
<1> DEFINE F == [p \in 0 .. N + n |-> IF p <= N THEN E[p] ELSE u + n - (p - N)]
<1>1. /\ d \in Compiler /\ KeepsPools(c, d) /\ KeepsScopes(c, d)
      /\ NextPlace(d) = N + n
      /\ \A p \in Places(c) : Emitted(d, p) = Emitted(c, p)
      /\ \A p \in N .. N + n - 1 : Emitted(d, p).op = "OP_POP"
  BY EmitPopsIs
<1>2. /\ N \in Nat /\ Known(c, E, N, u + n)
      /\ \A p \in 0 .. N : E[p] \in Nat
  BY LaidTypes
<1>3. E[N] = u + n
  BY <1>2 DEF Known
<1>4. /\ F \in [0 .. N + n -> Nat] /\ F[N + n] = u
      /\ \A p \in 0 .. N : F[p] = E[p]
      /\ \A p \in N .. N + n : F[p] = u + n - (p - N)
  <2>1. \A p \in 0 .. N + n : F[p] \in Nat
    BY <1>2
  <2>2. F \in [0 .. N + n -> Nat]
    BY <2>1
  <2>3. F[N + n] = u
    <3>1. N + n \in 0 .. N + n
      BY <1>2
    <3>2. PICK q \in 0 .. N + n : q = N + n
      BY <3>1
    <3>3. F[q] = IF q <= N THEN E[q] ELSE u + n - (q - N)
      OBVIOUS
    <3>4. CASE n = 0
      BY <1>2, <1>3, <3>2, <3>3, <3>4
    <3>5. CASE n # 0
      BY <1>2, <3>2, <3>3, <3>5
    <3> QED
      BY <3>4, <3>5
  <2>4. \A p \in 0 .. N : F[p] = E[p]
    BY <1>2
  <2>5. \A p \in N .. N + n : F[p] = u + n - (p - N)
    BY <1>2, <1>3
  <2> QED
    BY <2>2, <2>3, <2>4, <2>5
<1> HIDE DEF F
<1>5. Extends(c, E, d, F)
  <2>1. NextPlace(c) <= NextPlace(d)
    BY <1>1, <1>2
  <2> QED
    BY <1>1, <1>4, <2>1 DEF Extends
<1>6. PoolsGrow(c, d)
  BY <1>1, PoolsKept
<1>7. F[0] = 0
  BY <1>2, <1>4 DEF Laid
<1>8. ASSUME NEW p \in Places(c)
      PROVE  Settled(d, F, p) /\ (p \in X \/ Lands(d, F, p))
  <2>1. Settled(c, E, p) /\ (p \in X \/ Lands(c, E, p))
    BY DEF Laid
  <2>2. Emitted(d, p).operand = Emitted(c, p).operand
    BY <1>1
  <2>3. Settled(d, F, p)
    BY <1>1, <1>5, <1>6, <2>1, <2>2, SettledStable
  <2>4. Lands(c, E, p) => Lands(d, F, p)
    BY <1>1, <1>5, <2>2, LandsStable
  <2> QED
    BY <2>1, <2>3, <2>4
<1>9. ASSUME NEW p \in N .. N + n - 1
      PROVE  Settled(d, F, p) /\ Lands(d, F, p)
  <2>1. Emitted(d, p).op = "OP_POP"
    BY <1>1
  <2>2. Pops("OP_POP") = 1 /\ Pushes("OP_POP") = 0
    BY DEF Pops, Pushes, BinaryOps, ArithOps, DivOps, CompareOps, EqualOps, UnaryOps,
           StoreOps, BranchOps, BoolOps
  <2>3. F[p] = u + n - (p - N) /\ F[p + 1] = u + n - ((p + 1) - N)
    <3>1. p \in N .. N + n /\ p + 1 \in N .. N + n
      BY <1>2
    <3>2. PICK q \in N .. N + n : q = p + 1
      BY <3>1
    <3>3. F[p] = u + n - (p - N)
      BY <1>4, <3>1
    <3>4. F[q] = u + n - (q - N)
      BY <1>4
    <3>5. F[p + 1] = u + n - ((p + 1) - N)
      BY <3>2, <3>4, Zenon
    <3> QED
      BY <3>3, <3>5, Zenon
  <2>4. F[p] >= 1 /\ F[p + 1] = F[p] - 1 + 0
    BY <1>2, <2>3
  <2>5. Indexed(d, "OP_POP", Emitted(d, p).operand)
    BY DEF Indexed, GlobalOps, StoreOps
  <2>6. Settled(d, F, p)
    BY <2>1, <2>2, <2>4, <2>5 DEF Settled
  <2>7. Lands(d, F, p)
    BY <2>1 DEF Lands, JumpOps, BranchOps
  <2> QED
    BY <2>6, <2>7
<1>10. \A p \in Places(d) : p \in Places(c) \/ p \in N .. N + n - 1
  BY <1>1, <1>2 DEF Places
<1>11. Waits(d, F)
  <2>1. Waits(c, E) /\ d.scopes = c.scopes
    BY <1>1 DEF Laid, KeepsScopes
  <2> QED
    BY <1>1, <1>5, <2>1, WaitsStable
<1>12. /\ \A p \in Places(d) : Settled(d, F, p)
       /\ \A p \in Places(d) : p \in X \/ Lands(d, F, p)
  BY <1>8, <1>9, <1>10
<1>13. Laid(d, F, X, u)
  BY <1>1, <1>4, <1>7, <1>11, <1>12 DEF Laid
<1> QED
  BY <1>5, <1>13

\* The jumps P get their target, and nothing else changes.
LEMMA PatchLaid ==
    ASSUME NEW c \in Compiler, NEW P, NEW target \in Int,
           NEW d, d = PatchJumps(c, P, target),
           NEW E, NEW X, NEW Y, NEW t, NEW u, Laid(c, E, X, t),
           Known(c, E, target, u), \A p \in P : Takes(c, E, p, u),
           X \subseteq Y \cup P
    PROVE  /\ d \in Compiler /\ KeepsScopes(c, d) /\ NextPlace(d) = NextPlace(c)
           /\ Laid(d, E, Y, t) /\ Extends(c, E, d, E)
<1>1. /\ d \in Compiler /\ KeepsPools(c, d) /\ KeepsScopes(c, d)
      /\ NextPlace(d) = NextPlace(c)
      /\ \A p \in Places(c) : Emitted(d, p).op = Emitted(c, p).op
      /\ \A p \in Places(c) :
            Emitted(d, p).operand = IF p \in P THEN target ELSE Emitted(c, p).operand
  BY PatchIs
<1>2. NextPlace(c) \in Nat /\ Places(d) = Places(c)
  BY <1>1, CompilerIs DEF Places
<1>3. Extends(c, E, d, E)
  BY <1>1, <1>2 DEF Extends
<1>4. PoolsGrow(c, d)
  BY <1>1, PoolsKept
<1>5. ASSUME NEW p \in Places(c), p \in P
      PROVE  Settled(d, E, p) /\ Lands(d, E, p)
  <2>1. Settled(c, E, p)
    BY DEF Laid
  <2>2. Emitted(c, p).op \in JumpOps /\ E[p] = u
    BY <1>5 DEF Takes
  <2>3. Settled(d, E, p)
    BY <1>1, <1>3, <1>4, <2>1, <2>2, SettledStable
  <2>4. Known(d, E, target, u)
    BY <1>1, <1>3, ExtendsKnown
  <2>5. Emitted(d, p).operand = target
    BY <1>1, <1>5
  <2>6. Lands(d, E, p)
    BY <2>2, <2>4, <2>5 DEF Lands
  <2> QED
    BY <2>3, <2>6
<1>6. ASSUME NEW p \in Places(c), p \notin P
      PROVE  Settled(d, E, p) /\ (p \in Y \/ Lands(d, E, p))
  <2>1. Settled(c, E, p) /\ (p \in Y \/ Lands(c, E, p))
    BY <1>6 DEF Laid
  <2>2. Emitted(d, p).operand = Emitted(c, p).operand
    BY <1>1, <1>6
  <2>3. Settled(d, E, p)
    BY <1>1, <1>3, <1>4, <2>1, <2>2, SettledStable
  <2>4. Lands(c, E, p) => Lands(d, E, p)
    BY <1>1, <1>3, <2>2, LandsStable
  <2> QED
    BY <2>1, <2>3, <2>4
<1>7. Waits(d, E)
  <2>1. Waits(c, E) /\ d.scopes = c.scopes
    BY <1>1 DEF Laid, KeepsScopes
  <2> QED
    BY <1>1, <1>3, <2>1, WaitsStable
<1>8. Laid(d, E, Y, t)
  <2>1. E \in [0 .. NextPlace(d) -> Nat] /\ E[0] = 0 /\ E[NextPlace(d)] = t
    BY <1>1 DEF Laid
  <2>2. /\ \A p \in Places(d) : Settled(d, E, p)
        /\ \A p \in Places(d) : p \in Y \/ Lands(d, E, p)
    BY <1>2, <1>5, <1>6
  <2> QED
    BY <1>7, <2>1, <2>2 DEF Laid
<1> QED
  BY <1>1, <1>3, <1>8

-----------------------------------------------------------------------------
(* The compiler's operations on its scopes.                                *)

\* The same scopes, with jumps that wait in them.
Shape(c, d) ==
    /\ Len(d.scopes) = Len(c.scopes)
    /\ \A n \in 1 .. Len(c.scopes) : /\ d.scopes[n].kind = c.scopes[n].kind
                                     /\ d.scopes[n].slots = c.scopes[n].slots

LEMMA ScopesKept ==
    ASSUME NEW c, NEW d, KeepsScopes(c, d)
    PROVE  Shape(c, d) /\ Total(d) = Total(c) /\ Waiting(d) = Waiting(c)
BY DEF KeepsScopes, Shape, Total, Waiting

LEMMA ScopesKeptTrans ==
    ASSUME NEW c, NEW d, NEW e, KeepsScopes(c, d), KeepsScopes(d, e)
    PROVE  KeepsScopes(c, e)
BY DEF KeepsScopes

LEMMA ShapeTrans ==
    ASSUME NEW c, NEW d, NEW e, Shape(c, d), Shape(d, e)
    PROVE  Shape(c, e)
BY DEF Shape

LEMMA ScopeLengths ==
    ASSUME NEW c \in Compiler
    PROVE  /\ c.scopes \in Seq(Scope) /\ Len(c.scopes) \in Nat /\ Total(c) \in Nat
           /\ \A n \in 1 .. Len(c.scopes) : c.scopes[n] \in Scope
           /\ \A n \in 0 .. Len(c.scopes) : Held(c.scopes)[n] \in Nat
<1>1. c.scopes \in Seq(Scope)
  BY CompilerIs
<1>2. PICK s \in Seq(Scope) : s = c.scopes
  BY <1>1
<1>3. /\ Len(s) \in Nat /\ \A n \in 1 .. Len(s) : s[n] \in Scope
  BY SlotsAre
<1>4. \A n \in 0 .. Len(s) : Held(s)[n] \in Nat
  BY HeldIs
<1> QED
  BY <1>1, <1>2, <1>3, <1>4 DEF Total

LEMMA ShapeHeld ==
    ASSUME NEW c \in Compiler, NEW d \in Compiler, Shape(c, d)
    PROVE  /\ \A n \in 0 .. Len(c.scopes) : Held(d.scopes)[n] = Held(c.scopes)[n]
           /\ Total(d) = Total(c)
<1>1. PICK s \in Seq(Scope) : s = c.scopes
  BY CompilerIs
<1>2. PICK r \in Seq(Scope) : r = d.scopes
  BY CompilerIs
<1>3. /\ Len(s) \in Nat /\ Len(r) = Len(s)
      /\ \A n \in 1 .. Len(s) : r[n].slots = s[n].slots
  BY <1>1, <1>2, ScopeLengths DEF Shape
<1>4. \A n \in 0 .. Len(s) : Held(r)[n] = Held(s)[n]
  <2>1. Len(s) <= Len(r) /\ Len(s) <= Len(s)
    BY <1>3
  <2> QED
    BY <1>3, <2>1, HeldPrefix
<1>5. Held(r)[Len(s)] = Held(s)[Len(s)]
  BY <1>3, <1>4
<1> QED
  BY <1>1, <1>2, <1>3, <1>4, <1>5 DEF Total

LEMMA SameChunk ==
    ASSUME NEW c \in Compiler, NEW d \in Compiler, d.chunk = c.chunk,
           NEW E, NEW X, NEW t, Laid(c, E, X, t)
    PROVE  /\ NextPlace(d) = NextPlace(c)
           /\ \A p, u : Takes(d, E, p, u) <=> Takes(c, E, p, u)
           /\ \A p, u : Known(d, E, p, u) <=> Known(c, E, p, u)
           /\ Extends(c, E, d, E)
           /\ Waits(d, E) => Laid(d, E, X, t)
<1>1. /\ NextPlace(d) = NextPlace(c) /\ Places(d) = Places(c)
      /\ \A p : Emitted(d, p) = Emitted(c, p)
  BY DEF NextPlace, Places, Emitted
<1>2. /\ \A p, u : Takes(d, E, p, u) <=> Takes(c, E, p, u)
      /\ \A p, u : Known(d, E, p, u) <=> Known(c, E, p, u)
  BY <1>1 DEF Takes, Known
<1>3. Extends(c, E, d, E)
  BY <1>1, CompilerIs DEF Extends
<1>4. \A op, k : Indexed(d, op, k) <=> Indexed(c, op, k)
  BY DEF Indexed
<1>5. \A p : Settled(d, E, p) <=> Settled(c, E, p)
  BY <1>1, <1>4 DEF Settled
<1>6. \A p : Lands(d, E, p) <=> Lands(c, E, p)
  BY <1>1, <1>2 DEF Lands
<1>7. Waits(d, E) => Laid(d, E, X, t)
  BY <1>1, <1>5, <1>6 DEF Laid
<1> QED
  BY <1>1, <1>2, <1>3, <1>7

LEMMA PushLaid ==
    ASSUME NEW c \in Compiler, NEW scope \in {LoopScope, SwitchScope},
           NEW d, d = PushScope(c, scope)
    PROVE  /\ d \in Compiler /\ d.chunk = c.chunk /\ d.aborted = c.aborted
           /\ Len(d.scopes) = Len(c.scopes) + 1
           /\ d.scopes[Len(c.scopes) + 1] = scope
           /\ \A n \in 1 .. Len(c.scopes) : d.scopes[n] = c.scopes[n]
           /\ Waiting(d) = Waiting(c) /\ Total(d) = Total(c) + scope.slots
           /\ \A E, X, t : Laid(c, E, X, t) => Laid(d, E, X, t) /\ Extends(c, E, d, E)
<1>1. /\ scope \in Scope /\ scope.breakJumps = << >> /\ scope.continueJumps = << >>
      /\ scope.slots \in Nat
  <2>1. << >> \in Seq(Nat)
    OBVIOUS
  <2>2. CASE scope = LoopScope
    <3>1. LoopScope \in Scope
      BY <2>1 DEF Scope, LoopScope
    <3> QED
      BY <2>2, <3>1 DEF LoopScope
  <2>3. CASE scope = SwitchScope
    <3>1. SwitchScope \in Scope
      BY <2>1 DEF Scope, SwitchScope
    <3> QED
      BY <2>3, <3>1 DEF SwitchScope
  <2> QED
    BY <2>2, <2>3
<1>2. Awaited(scope) = {}
  BY <1>1 DEF Awaited, Range
<1>3. PICK s \in Seq(Scope) : s = c.scopes
  BY CompilerIs
<1>4. PICK r : r = Append(s, scope)
  OBVIOUS
<1>5. /\ r \in Seq(Scope) /\ Len(r) = Len(s) + 1 /\ r[Len(s) + 1] = scope
      /\ \A n \in 1 .. Len(s) : r[n] = s[n]
  BY <1>1, <1>4, AppendProperties
<1>6. /\ d \in Compiler /\ d.chunk = c.chunk /\ d.aborted = c.aborted /\ d.scopes = r
  BY <1>3, <1>4, <1>5 DEF PushScope, Compiler
<1>7. Len(s) \in Nat
  BY LenProperties
<1>8. Waiting(d) = Waiting(c)
  <2>1. \A n \in 1 .. Len(r) : n \in 1 .. Len(s) \/ n = Len(s) + 1
    BY <1>5, <1>7
  <2>2. \A n \in 1 .. Len(s) : n \in 1 .. Len(r)
    BY <1>5, <1>7
  <2>3. \A x : (\E n \in 1 .. Len(r) : x \in Awaited(r[n]))
                 <=> (\E n \in 1 .. Len(s) : x \in Awaited(s[n]))
    BY <1>2, <1>5, <2>1, <2>2
  <2>4. /\ \A x : x \in Waiting(d) <=> \E n \in 1 .. Len(r) : x \in Awaited(r[n])
        /\ \A x : x \in Waiting(c) <=> \E n \in 1 .. Len(s) : x \in Awaited(s[n])
    BY <1>3, <1>6 DEF Waiting
  <2> QED
    BY <2>3, <2>4
<1>9. \A n \in 0 .. Len(s) : Held(r)[n] = Held(s)[n]
  <2>1. Len(s) <= Len(r) /\ Len(s) <= Len(s)
    BY <1>5, <1>7
  <2>2. \A n \in 1 .. Len(s) : r[n].slots = s[n].slots
    BY <1>5
  <2> QED
    BY <1>5, <1>7, <2>1, <2>2, HeldPrefix
<1>10. Total(d) = Total(c) + scope.slots
  <2>1. \A n \in 1 .. Len(r) : Held(r)[n] = Held(r)[n - 1] + r[n].slots
    BY <1>5, HeldIs
  <2>2. PICK n \in 1 .. Len(r) : n = Len(s) + 1
    BY <1>5, <1>7
  <2>3. Held(r)[n] = Held(r)[n - 1] + scope.slots /\ n - 1 = Len(s) /\ n = Len(r)
    BY <1>5, <1>7, <2>1, <2>2
  <2>4. Held(r)[Len(s)] = Held(s)[Len(s)]
    BY <1>7, <1>9
  <2>5. Held(r)[Len(r)] = Held(s)[Len(s)] + scope.slots
    BY <2>3, <2>4, Zenon
  <2> QED
    BY <1>3, <1>6, <2>5 DEF Total
<1>11. ASSUME NEW E, NEW X, NEW t, Laid(c, E, X, t)
       PROVE  Laid(d, E, X, t) /\ Extends(c, E, d, E)
  <2>1. /\ \A p, u : Takes(d, E, p, u) <=> Takes(c, E, p, u)
        /\ Extends(c, E, d, E)
        /\ Waits(d, E) => Laid(d, E, X, t)
    BY <1>6, <1>11, SameChunk
  <2>2. ASSUME NEW n \in 1 .. Len(r) PROVE WaitsIn(d, E, n)
    <3>1. CASE n \in 1 .. Len(s)
      <4>1. WaitsIn(c, E, n)
        BY <1>3, <1>11, <3>1 DEF Laid, Waits
      <4>2. d.scopes[n] = c.scopes[n]
        BY <1>3, <1>5, <1>6, <3>1
      <4>3. Held(d.scopes)[n] = Held(c.scopes)[n]
        <5>1. n \in 0 .. Len(s)
          BY <1>7, <3>1
        <5> QED
          BY <1>3, <1>6, <1>9, <5>1, Zenon
      <4> QED
        BY <2>1, <4>1, <4>2, <4>3, Zenon DEF WaitsIn
    <3>2. CASE n = Len(s) + 1
      <4>1. d.scopes[n] = scope
        BY <1>5, <1>6, <3>2
      <4> QED
        BY <1>1, <1>2, <4>1 DEF WaitsIn
    <3> QED
      BY <1>5, <1>7, <3>1, <3>2
  <2> QED
    BY <1>6, <2>1, <2>2 DEF Waits
<1> QED
  BY <1>3, <1>5, <1>6, <1>8, <1>10, <1>11

LEMMA PopLaid ==
    ASSUME NEW c \in Compiler, Len(c.scopes) # 0, NEW d, d = PopScope(c)
    PROVE  /\ d \in Compiler /\ d.chunk = c.chunk /\ d.aborted = c.aborted
           /\ Len(d.scopes) = Len(c.scopes) - 1
           /\ \A n \in 1 .. Len(d.scopes) : d.scopes[n] = c.scopes[n]
           /\ Waiting(c) \subseteq Waiting(d) \cup Awaited(InnerScope(c))
           /\ \A E, X, t : Laid(c, E, X, t) => Laid(d, E, X, t) /\ Extends(c, E, d, E)
<1>1. PICK s \in Seq(Scope) : s = c.scopes
  BY CompilerIs
<1>2. Len(s) \in Nat /\ Len(s) # 0
  BY <1>1, LenProperties
<1>3. PICK m \in Nat : m = Len(s) - 1
  BY <1>2
<1>4. PICK r : r = SubSeq(s, 1, m)
  OBVIOUS
<1>5. /\ r \in Seq(Scope) /\ Len(r) = m /\ \A n \in 1 .. m : r[n] = s[n]
  <2>1. \A n \in 1 .. m : s[n] \in Scope
    BY <1>2, <1>3, ElementOfSeq
  <2> QED
    BY <1>2, <1>3, <1>4, <2>1, SubSeqProperties
<1>6. /\ d \in Compiler /\ d.chunk = c.chunk /\ d.aborted = c.aborted /\ d.scopes = r
  <2>1. d = [c EXCEPT !.scopes = r]
    BY <1>1, <1>3, <1>4 DEF PopScope
  <2> QED
    BY <1>5, <2>1 DEF Compiler
<1>7. Waiting(c) \subseteq Waiting(d) \cup Awaited(InnerScope(c))
  <2>1. \A n \in 1 .. Len(s) : n \in 1 .. m \/ n = Len(s)
    BY <1>2, <1>3
  <2>2. ASSUME NEW x, NEW n \in 1 .. Len(s), x \in Awaited(s[n])
        PROVE  (\E k \in 1 .. m : x \in Awaited(r[k])) \/ x \in Awaited(s[Len(s)])
    BY <1>5, <2>1, <2>2
  <2>3. /\ \A x : x \in Waiting(c) <=> \E n \in 1 .. Len(s) : x \in Awaited(s[n])
        /\ \A x : x \in Waiting(d) <=> \E n \in 1 .. m : x \in Awaited(r[n])
    BY <1>1, <1>5, <1>6 DEF Waiting
  <2> QED
    BY <1>1, <2>2, <2>3 DEF InnerScope
<1>8. \A n \in 0 .. m : Held(r)[n] = Held(s)[n]
  <2>1. m <= Len(r) /\ m <= Len(s)
    BY <1>2, <1>3, <1>5
  <2>2. \A n \in 1 .. m : r[n].slots = s[n].slots
    BY <1>5
  <2> QED
    BY <1>5, <2>1, <2>2, HeldPrefix
<1>9. ASSUME NEW E, NEW X, NEW t, Laid(c, E, X, t)
      PROVE  Laid(d, E, X, t) /\ Extends(c, E, d, E)
  <2>1. /\ \A p, u : Takes(d, E, p, u) <=> Takes(c, E, p, u)
        /\ Extends(c, E, d, E)
        /\ Waits(d, E) => Laid(d, E, X, t)
    BY <1>6, <1>9, SameChunk
  <2>2. ASSUME NEW n \in 1 .. m PROVE WaitsIn(d, E, n)
    <3>1. n \in 0 .. m /\ n \in 1 .. Len(c.scopes)
      BY <1>1, <1>2, <1>3
    <3>2. WaitsIn(c, E, n)
      BY <1>9, <3>1 DEF Laid, Waits
    <3>3. d.scopes[n] = c.scopes[n]
      BY <1>1, <1>5, <1>6
    <3>4. Held(d.scopes)[n] = Held(c.scopes)[n]
      BY <1>1, <1>6, <1>8, <3>1, Zenon
    <3> QED
      BY <2>1, <3>2, <3>3, <3>4, Zenon DEF WaitsIn
  <2> QED
    BY <1>5, <1>6, <2>1, <2>2 DEF Waits
<1> QED
  BY <1>1, <1>3, <1>5, <1>6, <1>7, <1>9

LEMMA RangeAppend ==
    ASSUME NEW T, NEW q \in Seq(T), NEW x \in T
    PROVE  Range(Append(q, x)) = Range(q) \cup {x}
<1>1. PICK r : r = Append(q, x)
  OBVIOUS
<1>2. /\ r \in Seq(T) /\ Len(r) = Len(q) + 1 /\ r[Len(q) + 1] = x
      /\ \A k \in 1 .. Len(q) : r[k] = q[k]
  BY <1>1, AppendProperties
<1>3. /\ Len(q) \in Nat /\ DOMAIN q = 1 .. Len(q) /\ DOMAIN r = 1 .. Len(q) + 1
  BY <1>2, LenProperties
<1>4. /\ \A k \in DOMAIN r : k \in DOMAIN q \/ k = Len(q) + 1
      /\ \A k \in DOMAIN q : k \in DOMAIN r /\ r[k] = q[k]
      /\ Len(q) + 1 \in DOMAIN r
  BY <1>2, <1>3
<1>5. \A y : y \in Range(r) <=> y \in Range(q) \/ y = x
  BY <1>2, <1>4 DEF Range
<1> QED
  BY <1>1, <1>5

\* A scope in which one more jump waits.
LEMMA AwaitLaid ==
    ASSUME NEW c \in Compiler, NEW n \in 1 .. Len(c.scopes), NEW p, NEW sc \in Scope,
           sc.kind = c.scopes[n].kind, sc.slots = c.scopes[n].slots,
           Awaited(sc) = Awaited(c.scopes[n]) \cup {p},
           sc.kind = "Switch" => sc.continueJumps = c.scopes[n].continueJumps,
           NEW d, d = [c EXCEPT !.scopes = [@ EXCEPT ![n] = sc]]
    PROVE  /\ d \in Compiler /\ Shape(c, d) /\ d.chunk = c.chunk
           /\ d.aborted = c.aborted
           /\ Waiting(d) = Waiting(c) \cup {p}
           /\ \A E, X, t : Laid(c, E, X, t) /\ Takes(c, E, p, Held(c.scopes)[n])
                  => Laid(d, E, X, t) /\ Extends(c, E, d, E)
<1>1. PICK s \in Seq(Scope) : s = c.scopes
  BY CompilerIs
<1>2. PICK r : r = [s EXCEPT ![n] = sc]
  OBVIOUS
<1>3. /\ Len(s) \in Nat /\ DOMAIN s = 1 .. Len(s) /\ n \in 1 .. Len(s)
      /\ \A k \in 1 .. Len(s) : s[k] \in Scope
  BY <1>1, LenProperties, ElementOfSeq
<1>4. /\ r \in Seq(Scope) /\ Len(r) = Len(s) /\ r[n] = sc
      /\ \A k \in 1 .. Len(s) : k # n => r[k] = s[k]
  <2>1. r \in Seq(Scope) /\ Len(r) = Len(s)
    BY <1>2, <1>3, ExceptSeq
  <2>2. r[n] = sc /\ \A k \in 1 .. Len(s) : k # n => r[k] = s[k]
    BY <1>2, <1>3
  <2> QED
    BY <2>1, <2>2
<1>5. /\ d \in Compiler /\ d.chunk = c.chunk /\ d.aborted = c.aborted /\ d.scopes = r
  BY <1>1, <1>2, <1>4 DEF Compiler
<1>6. Shape(c, d)
  BY <1>1, <1>4, <1>5 DEF Shape
<1>7. Waiting(d) = Waiting(c) \cup {p}
  <2>1. \A x, k : k \in 1 .. Len(s) /\ x \in Awaited(r[k]) => x = p \/ x \in Awaited(s[k])
    BY <1>1, <1>4
  <2>2. \A x, k : k \in 1 .. Len(s) /\ x \in Awaited(s[k]) => x \in Awaited(r[k])
    BY <1>1, <1>4
  <2>3. p \in Awaited(r[n]) /\ n \in 1 .. Len(s)
    BY <1>3, <1>4
  <2>4. \A x : (\E k \in 1 .. Len(s) : x \in Awaited(r[k]))
                 <=> x = p \/ \E k \in 1 .. Len(s) : x \in Awaited(s[k])
    BY <2>1, <2>2, <2>3
  <2>5. /\ \A x : x \in Waiting(c) <=> \E k \in 1 .. Len(s) : x \in Awaited(s[k])
        /\ \A x : x \in Waiting(d) <=> \E k \in 1 .. Len(s) : x \in Awaited(r[k])
    BY <1>1, <1>4, <1>5 DEF Waiting
  <2> QED
    BY <2>4, <2>5
<1>8. \A k \in 1 .. Len(s) : Held(d.scopes)[k] = Held(c.scopes)[k]
  <2>1. \A k \in 0 .. Len(s) : Held(d.scopes)[k] = Held(c.scopes)[k]
    BY <1>1, <1>5, <1>6, ShapeHeld
  <2> QED
    BY <1>3, <2>1, SMTT(30)
<1>9. ASSUME NEW E, NEW X, NEW t, Laid(c, E, X, t), Takes(c, E, p, Held(c.scopes)[n])
      PROVE  Laid(d, E, X, t) /\ Extends(c, E, d, E)
  <2>1. /\ \A q, u : Takes(d, E, q, u) <=> Takes(c, E, q, u)
        /\ Extends(c, E, d, E)
        /\ Waits(d, E) => Laid(d, E, X, t)
    BY <1>5, <1>9, SameChunk
  <2>2. ASSUME NEW k \in 1 .. Len(s) PROVE WaitsIn(d, E, k)
    <3>1. WaitsIn(c, E, k)
      BY <1>1, <1>9 DEF Laid, Waits
    <3>2. Held(d.scopes)[k] = Held(c.scopes)[k]
      BY <1>8
    <3>3. CASE k # n
      <4>1. d.scopes[k] = c.scopes[k]
        BY <1>1, <1>4, <1>5, <3>3
      <4> QED
        BY <2>1, <3>1, <3>2, <4>1, Zenon DEF WaitsIn
    <3>4. CASE k = n
      <4>1. d.scopes[n] = sc
        BY <1>4, <1>5
      <4>2. \A q \in Awaited(sc) : q \in Awaited(c.scopes[n]) \/ q = p
        OBVIOUS
      <4>3. \A q \in Awaited(sc) : Takes(c, E, q, Held(c.scopes)[n])
        BY <1>9, <3>1, <3>4, <4>2, Zenon DEF WaitsIn
      <4>4. \A q \in Awaited(d.scopes[n]) : Takes(d, E, q, Held(d.scopes)[n])
        BY <2>1, <3>2, <3>4, <4>1, <4>3, Zenon
      <4>5. d.scopes[n].kind = "Switch" => d.scopes[n].continueJumps = << >>
        BY <3>1, <3>4, <4>1 DEF WaitsIn
      <4> QED
        BY <3>4, <4>4, <4>5 DEF WaitsIn
    <3> QED
      BY <3>3, <3>4
  <2> QED
    BY <1>4, <1>5, <2>1, <2>2 DEF Waits
<1> QED
  BY <1>5, <1>6, <1>7, <1>9

LEMMA AwaitBreakLaid ==
    ASSUME NEW c \in Compiler, NEW n \in 1 .. Len(c.scopes), NEW p \in Nat,
           NEW d, d = AwaitBreak(c, n, p)
    PROVE  /\ d \in Compiler /\ Shape(c, d) /\ d.chunk = c.chunk
           /\ d.aborted = c.aborted
           /\ Waiting(d) = Waiting(c) \cup {p}
           /\ \A E, X, t : Laid(c, E, X, t) /\ Takes(c, E, p, Held(c.scopes)[n])
                  => Laid(d, E, X, t) /\ Extends(c, E, d, E)
<1>1. PICK old \in Scope : old = c.scopes[n]
  BY ScopeLengths
<1>2. PICK q : q = Append(old.breakJumps, p)
  OBVIOUS
<1>3. PICK sc : sc = [old EXCEPT !.breakJumps = q]
  OBVIOUS
<1>4. old.breakJumps \in Seq(Nat)
  BY DEF Scope
<1>5. q \in Seq(Nat) /\ Range(q) = Range(old.breakJumps) \cup {p}
  BY <1>2, <1>4, RangeAppend, AppendProperties
<1>6. /\ sc \in Scope /\ sc.kind = old.kind /\ sc.slots = old.slots
      /\ sc.continueJumps = old.continueJumps /\ sc.breakJumps = q
  BY <1>3, <1>5 DEF Scope
<1>7. Awaited(sc) = Awaited(old) \cup {p}
  BY <1>5, <1>6 DEF Awaited
<1>8. d = [c EXCEPT !.scopes = [@ EXCEPT ![n] = sc]]
  BY <1>1, <1>2, <1>3 DEF AwaitBreak
<1> QED
  BY <1>1, <1>6, <1>7, <1>8, AwaitLaid

LEMMA AwaitContinueLaid ==
    ASSUME NEW c \in Compiler, NEW n \in 1 .. Len(c.scopes), NEW p \in Nat,
           c.scopes[n].kind = "Loop", NEW d, d = AwaitContinue(c, n, p)
    PROVE  /\ d \in Compiler /\ Shape(c, d) /\ d.chunk = c.chunk
           /\ d.aborted = c.aborted
           /\ Waiting(d) = Waiting(c) \cup {p}
           /\ \A E, X, t : Laid(c, E, X, t) /\ Takes(c, E, p, Held(c.scopes)[n])
                  => Laid(d, E, X, t) /\ Extends(c, E, d, E)
<1>1. PICK old \in Scope : old = c.scopes[n]
  BY ScopeLengths
<1>2. PICK q : q = Append(old.continueJumps, p)
  OBVIOUS
<1>3. PICK sc : sc = [old EXCEPT !.continueJumps = q]
  OBVIOUS
<1>4. old.continueJumps \in Seq(Nat)
  BY DEF Scope
<1>5. q \in Seq(Nat) /\ Range(q) = Range(old.continueJumps) \cup {p}
  BY <1>2, <1>4, RangeAppend, AppendProperties
<1>6. /\ sc \in Scope /\ sc.kind = old.kind /\ sc.slots = old.slots
      /\ sc.continueJumps = q /\ sc.breakJumps = old.breakJumps
  BY <1>3, <1>5 DEF Scope
<1>7. Awaited(sc) = Awaited(old) \cup {p}
  BY <1>5, <1>6 DEF Awaited
<1>8. d = [c EXCEPT !.scopes = [@ EXCEPT ![n] = sc]]
  BY <1>1, <1>2, <1>3 DEF AwaitContinue
<1>9. sc.kind # "Switch"
  BY <1>1, <1>6
<1> QED
  BY <1>1, <1>6, <1>7, <1>8, <1>9, AwaitLaid

-----------------------------------------------------------------------------
(* Straight-line code: from c to d, n operands are popped and m pushed.    *)

Flow(c, d, n, m) ==
    /\ d \in Compiler /\ KeepsScopes(c, d)
    /\ \A E, X, t : Laid(c, E, X, t) /\ t >= n =>
          \E F : Laid(d, F, X, t - n + m) /\ Extends(c, E, d, F)

LEMMA OpTable ==
    /\ \A op \in BinaryOps : Pops(op) = 2 /\ Pushes(op) = 1
    /\ \A op \in UnaryOps \cup BranchOps : Pops(op) = 1 /\ Pushes(op) = 1
    /\ \A op \in BoolOps \cup {"OP_GET_GLOBAL", "OP_CONST_INT", "OP_READ"} :
          Pops(op) = 0 /\ Pushes(op) = 1
    /\ \A op \in StoreOps \cup {"OP_PRINT_VAL", "OP_POP"} :
          Pops(op) = 1 /\ Pushes(op) = 0
    /\ \A op \in {"OP_PRINT_STR", "OP_JUMP", "OP_HALT"} : Pops(op) = 0 /\ Pushes(op) = 0
    /\ Pops("OP_DUP") = 1 /\ Pushes("OP_DUP") = 2
BY DEF Pops, Pushes, BinaryOps, ArithOps, DivOps, CompareOps, EqualOps, UnaryOps,
       StoreOps, BranchOps, BoolOps

\* What operands index nothing.
FreeOps == BinaryOps \cup UnaryOps \cup BoolOps \cup
               {"OP_READ", "OP_POP", "OP_DUP", "OP_PRINT_VAL"}

LEMMA FreeOpsAre ==
    \A op \in FreeOps :
        /\ op \in OpCode /\ op \notin JumpOps /\ op # "OP_HALT"
        /\ op \notin GlobalOps /\ op # "OP_CONST_INT" /\ op # "OP_PRINT_STR"
BY DEF FreeOps, OpCode, BinaryOps, ArithOps, DivOps, CompareOps, EqualOps, UnaryOps,
       BoolOps, GlobalOps, StoreOps, JumpOps, BranchOps

LEMMA FlowTrans ==
    ASSUME NEW c \in Compiler, NEW d, NEW e, NEW n \in Nat, NEW m \in Nat,
           NEW k \in Nat, NEW l \in Nat, k <= m, Flow(c, d, n, m), Flow(d, e, k, l)
    PROVE  Flow(c, e, n, m - k + l)
<1>1. d \in Compiler /\ e \in Compiler /\ KeepsScopes(c, e)
  BY ScopesKeptTrans DEF Flow
<1>2. ASSUME NEW E, NEW X, NEW t, Laid(c, E, X, t), t >= n
      PROVE  \E G : Laid(e, G, X, t - n + (m - k + l)) /\ Extends(c, E, e, G)
  <2>1. t \in Nat
    BY <1>2, LaidTypes
  <2>2. PICK F : Laid(d, F, X, t - n + m) /\ Extends(c, E, d, F)
    BY <1>2 DEF Flow
  <2>3. PICK u \in Nat : u = t - n + m
    BY <1>2, <2>1
  <2>4. u >= k /\ u - k + l = t - n + (m - k + l)
    BY <1>2, <2>1, <2>3
  <2>5. PICK G : Laid(e, G, X, u - k + l) /\ Extends(d, F, e, G)
    BY <2>2, <2>3, <2>4 DEF Flow
  <2>6. Extends(c, E, e, G)
    BY <1>1, <2>2, <2>5, ExtendsTrans
  <2> QED
    BY <2>4, <2>5, <2>6
<1> QED
  BY <1>1, <1>2 DEF Flow

LEMMA FlowOfGrown ==
    ASSUME NEW c \in Compiler, NEW b \in Compiler, Grown(c, b), NEW d,
           NEW n \in Nat, NEW m \in Nat, Flow(b, d, n, m)
    PROVE  Flow(c, d, n, m)
<1>1. d \in Compiler /\ KeepsScopes(c, d)
  BY ScopesKeptTrans DEF Flow, Grown
<1>2. ASSUME NEW E, NEW X, NEW t, Laid(c, E, X, t), t >= n
      PROVE  \E G : Laid(d, G, X, t - n + m) /\ Extends(c, E, d, G)
  <2>1. Laid(b, E, X, t) /\ Extends(c, E, b, E)
    BY <1>2, GrownLaid
  <2>2. PICK G : Laid(d, G, X, t - n + m) /\ Extends(b, E, d, G)
    BY <1>2, <2>1 DEF Flow
  <2>3. Extends(c, E, d, G)
    BY <1>1, <2>1, <2>2, ExtendsTrans
  <2> QED
    BY <2>2, <2>3
<1> QED
  BY <1>1, <1>2 DEF Flow

LEMMA EmitFlow ==
    ASSUME NEW c \in Compiler, NEW op \in OpCode, NEW operand \in Int, NEW loc \in Nat,
           NEW d, d = Emit(c, op, operand, loc), op # "OP_HALT", op \notin JumpOps,
           Indexed(c, op, operand), NEW n \in Nat, NEW m \in Nat,
           Pops(op) = n, Pushes(op) = m
    PROVE  Flow(c, d, n, m)
<1>1. d \in Compiler /\ KeepsScopes(c, d)
  BY EmitIs
<1>2. ASSUME NEW E, NEW X, NEW t, Laid(c, E, X, t), t >= n
      PROVE  \E F : Laid(d, F, X, t - n + m) /\ Extends(c, E, d, F)
  <2>1. t \in Nat
    BY <1>2, LaidTypes
  <2>2. PICK u \in Nat : u = t - n + m
    BY <1>2, <2>1
  <2>3. \E F : Laid(d, F, X, u) /\ Extends(c, E, d, F)
    BY <1>2, <2>2, EmitLaid
  <2> QED
    BY <2>2, <2>3
<1> QED
  BY <1>1, <1>2 DEF Flow

LEMMA FreeFlow ==
    ASSUME NEW c \in Compiler, NEW op \in FreeOps, NEW loc \in Nat,
           NEW d, d = Emit(c, op, 0, loc), NEW n \in Nat, NEW m \in Nat,
           Pops(op) = n, Pushes(op) = m
    PROVE  Flow(c, d, n, m)
<1>1. /\ op \in OpCode /\ op \notin JumpOps /\ op # "OP_HALT"
      /\ op \notin GlobalOps /\ op # "OP_CONST_INT" /\ op # "OP_PRINT_STR"
  BY FreeOpsAre
<1>2. Indexed(c, op, 0)
  BY <1>1 DEF Indexed
<1> QED
  BY <1>1, <1>2, EmitFlow

LEMMA EmitIntFlow ==
    ASSUME NEW c \in Compiler, NEW v \in CInt, NEW loc \in Nat, NEW d, d = EmitInt(c, v, loc)
    PROVE  Flow(c, d, 0, 1)
<1>1. PICK b \in Compiler, k \in Nat :
          /\ Grown(c, b) /\ k < Len(b.chunk.intConstants)
          /\ d = Emit(b, "OP_CONST_INT", k, loc)
  BY EmitIntIs
<1>2. Indexed(b, "OP_CONST_INT", k)
  BY <1>1 DEF Indexed, InRange, GlobalOps, StoreOps
<1>3. /\ "OP_CONST_INT" \in OpCode /\ "OP_CONST_INT" \notin JumpOps
      /\ Pops("OP_CONST_INT") = 0 /\ Pushes("OP_CONST_INT") = 1
  BY OpTable DEF OpCode, JumpOps, BranchOps
<1>4. Flow(b, d, 0, 1)
  BY <1>1, <1>2, <1>3, EmitFlow
<1> QED
  BY <1>1, <1>4, FlowOfGrown

LEMMA EmitStringFlow ==
    ASSUME NEW c \in Compiler, NEW v \in STRING, NEW loc \in Nat,
           NEW d, d = EmitString(c, v, loc)
    PROVE  Flow(c, d, 0, 0)
<1>1. PICK b \in Compiler, k \in Nat :
          /\ Grown(c, b) /\ k < Len(b.chunk.stringConstants)
          /\ d = Emit(b, "OP_PRINT_STR", k, loc)
  BY EmitStringIs
<1>2. Indexed(b, "OP_PRINT_STR", k)
  BY <1>1 DEF Indexed, InRange, GlobalOps, StoreOps
<1>3. /\ "OP_PRINT_STR" \in OpCode /\ "OP_PRINT_STR" \notin JumpOps
      /\ Pops("OP_PRINT_STR") = 0 /\ Pushes("OP_PRINT_STR") = 0
  BY OpTable DEF OpCode, JumpOps, BranchOps
<1>4. Flow(b, d, 0, 0)
  BY <1>1, <1>2, <1>3, EmitFlow
<1> QED
  BY <1>1, <1>4, FlowOfGrown

LEMMA EmitGlobalFlow ==
    ASSUME NEW c \in Compiler, NEW op \in GlobalOps, NEW v \in STRING, NEW loc \in Nat,
           NEW d, d = EmitGlobal(c, op, v, loc), NEW n \in Nat, NEW m \in Nat,
           Pops(op) = n, Pushes(op) = m
    PROVE  Flow(c, d, n, m)
<1>1. PICK b \in Compiler, k \in Nat :
          /\ Grown(c, b) /\ k < Len(b.chunk.globalNames)
          /\ d = Emit(b, op, k, loc)
  BY EmitGlobalIs
<1>2. /\ op \in OpCode /\ op \notin JumpOps /\ op # "OP_HALT"
      /\ op # "OP_CONST_INT" /\ op # "OP_PRINT_STR"
  BY DEF GlobalOps, StoreOps, OpCode, JumpOps, BranchOps
<1>3. Indexed(b, op, k)
  BY <1>1, <1>2 DEF Indexed, InRange
<1>4. Flow(b, d, n, m)
  BY <1>1, <1>2, <1>3, EmitFlow
<1> QED
  BY <1>1, <1>4, FlowOfGrown

\* A jump that waits for its target.
LEMMA ForwardLaid ==
    ASSUME NEW c \in Compiler, NEW op \in JumpOps, NEW loc \in Nat,
           NEW d, d = EmitForward(c, op, loc)
    PROVE  /\ d \in Compiler /\ KeepsScopes(c, d)
           /\ NextPlace(d) = NextPlace(c) + 1
           /\ \A E, X, t, u :
                 /\ Laid(c, E, X, t) /\ t >= Pops(op)
                 /\ u \in Nat /\ (op # "OP_JUMP" => u = t)
                 => \E F : /\ Laid(d, F, X \cup {NextPlace(c)}, u)
                           /\ Extends(c, E, d, F)
                           /\ Takes(d, F, NextPlace(c), t)
<1>1. /\ op \in OpCode /\ op # "OP_HALT" /\ Indexed(c, op, -1)
      /\ op # "OP_JUMP" => op \in BranchOps
  BY DEF OpCode, JumpOps, BranchOps, Indexed, GlobalOps, StoreOps
<1>2. d = Emit(c, op, -1, loc)
  BY DEF EmitForward
<1>3. /\ d \in Compiler /\ KeepsScopes(c, d) /\ NextPlace(d) = NextPlace(c) + 1
      /\ Emitted(d, NextPlace(c)).op = op
  BY <1>1, <1>2, EmitIs
<1>4. ASSUME NEW E, NEW X, NEW t, NEW u, Laid(c, E, X, t), t >= Pops(op),
             u \in Nat, op # "OP_JUMP" => u = t
      PROVE  \E F : /\ Laid(d, F, X \cup {NextPlace(c)}, u)
                    /\ Extends(c, E, d, F)
                    /\ Takes(d, F, NextPlace(c), t)
  <2>1. NextPlace(c) \in Nat /\ t \in Nat /\ E[NextPlace(c)] = t
    BY <1>4, LaidTypes DEF Known
  <2>2. PICK Y : Y = X \cup {NextPlace(c)}
    OBVIOUS
  <2>3. Laid(c, E, Y, t) /\ NextPlace(c) \in Y
    BY <1>4, <2>2, LaidMore
  <2>4. op # "OP_JUMP" => u = t - Pops(op) + Pushes(op)
    <3>1. op # "OP_JUMP" => Pops(op) = 1 /\ Pushes(op) = 1
      BY <1>1, OpTable
    <3> QED
      BY <1>4, <2>1, <3>1
  <2>5. PICK F : Laid(d, F, Y, u) /\ Extends(c, E, d, F)
    BY <1>1, <1>2, <1>4, <2>3, <2>4, EmitLaid
  <2>6. Takes(d, F, NextPlace(c), t)
    <3>1. NextPlace(c) \in Places(d)
      BY <1>3, <2>1 DEF Places
    <3>2. NextPlace(c) \in 0 .. NextPlace(c)
      BY <2>1
    <3>3. F[NextPlace(c)] = t
      BY <2>1, <2>5, <3>2 DEF Extends
    <3> QED
      BY <1>3, <3>1, <3>3 DEF Takes
  <2> QED
    BY <2>2, <2>5, <2>6
<1> QED
  BY <1>3, <1>4

\* A jump back.
LEMMA BackLaid ==
    ASSUME NEW c \in Compiler, NEW target \in Int, NEW loc \in Nat,
           NEW d, d = Emit(c, "OP_JUMP", target, loc)
    PROVE  /\ d \in Compiler /\ KeepsScopes(c, d)
           /\ \A E, X, t, u :
                 Laid(c, E, X, t) /\ Known(c, E, target, t) /\ u \in Nat
                 => \E F : Laid(d, F, X, u) /\ Extends(c, E, d, F)
<1>1. "OP_JUMP" \in OpCode /\ Indexed(c, "OP_JUMP", target)
  BY DEF OpCode, JumpOps, Indexed, GlobalOps, StoreOps
<1>2. d \in Compiler /\ KeepsScopes(c, d)
  BY <1>1, EmitIs
<1>3. ASSUME NEW E, NEW X, NEW t, NEW u,
             Laid(c, E, X, t), Known(c, E, target, t), u \in Nat
      PROVE  \E F : Laid(d, F, X, u) /\ Extends(c, E, d, F)
  <2>1. t >= Pops("OP_JUMP")
    BY <1>3, LaidTypes, OpTable
  <2> QED
    BY <1>1, <1>3, <2>1, EmitLaid
<1> QED
  BY <1>2, <1>3

-----------------------------------------------------------------------------
(* Expressions: each leaves its value on what the stack held.              *)

LEMMA ExprCases ==
    ASSUME NEW E, NEW e \in ExprOver(E)
    PROVE  /\ e.loc \in Nat
           /\ \/ e.kind = "LITERAL_INT" /\ e.int \in CInt
              \/ e.kind = "LITERAL_BOOL"
              \/ e.kind = "VARIABLE" /\ e.name \in STRING
              \/ e.kind = "READ"
              \/ e.kind \in UnaryKinds /\ e.operand \in E
              \/ e.kind = "BINARY" /\ e.op \in BinOp /\ e.left \in E /\ e.right \in E
              \/ e.kind = "LOGICAL" /\ e.op \in LogOp /\ e.left \in E /\ e.right \in E
<1>1. CASE e \in LiteralIntNode
  BY <1>1 DEF LiteralIntNode, Place
<1>2. CASE e \in LiteralBoolNode
  BY <1>2 DEF LiteralBoolNode, Place
<1>3. CASE e \in VariableNode
  BY <1>3 DEF VariableNode, Place
<1>4. CASE e \in ReadNode
  BY <1>4 DEF ReadNode, Place
<1>5. CASE e \in UnaryNode(E)
  BY <1>5 DEF UnaryNode, Place
<1>6. CASE e \in BinaryNode(E)
  BY <1>6 DEF BinaryNode, Place
<1>7. CASE e \in LogicalNode(E)
  BY <1>7 DEF LogicalNode, Place
<1> QED
  BY <1>1, <1>2, <1>3, <1>4, <1>5, <1>6, <1>7 DEF ExprOver

LEMMA OpCodes ==
    /\ \A op \in BinOp : OpCodeOf[op] \in BinaryOps
    /\ \A op \in LogOp : OpCodeOf[op] \in BranchOps
    /\ \A kind \in UnaryKinds : OpCodeOf[kind] \in UnaryOps
<1>1. \A op \in BinOp : OpCodeOf[op] \in BinaryOps
  BY DEF OpCodeOf, BinOp, BinaryOps, ArithOps, DivOps, CompareOps, EqualOps
<1>2. \A op \in LogOp : OpCodeOf[op] \in BranchOps
  BY DEF OpCodeOf, LogOp, BranchOps
<1>3. \A kind \in UnaryKinds : OpCodeOf[kind] \in UnaryOps
  BY DEF OpCodeOf, UnaryKinds, UnaryOps
<1> QED
  BY <1>1, <1>2, <1>3

ExprsFlow(visit, E) == \A e \in E, c \in Compiler : Flow(c, visit[e][c], 0, 1)

LEMMA UnaryFlow ==
    ASSUME NEW E, NEW visit, ExprsFlow(visit, E), NEW c \in Compiler,
           NEW e, e.kind \in UnaryKinds, e.operand \in E, e.loc \in Nat
    PROVE  Flow(c, CompileUnary(visit, e, c), 0, 1)
<1>1. PICK v : v = visit[e.operand][c]
  OBVIOUS
<1>2. Flow(c, v, 0, 1) /\ v \in Compiler
  BY <1>1 DEF ExprsFlow, Flow
<1>3. PICK op \in UnaryOps : op = OpCodeOf[e.kind]
  BY OpCodes
<1>4. PICK d : d = Emit(v, op, 0, e.loc)
  OBVIOUS
<1>5. op \in FreeOps /\ Pops(op) = 1 /\ Pushes(op) = 1
  BY OpTable DEF FreeOps
<1>6. Flow(v, d, 1, 1)
  BY <1>2, <1>4, <1>5, FreeFlow
<1>7. Flow(c, d, 0, 1 - 1 + 1)
  BY <1>2, <1>6, FlowTrans
<1> QED
  BY <1>1, <1>3, <1>4, <1>7 DEF CompileUnary

LEMMA BinaryFlow ==
    ASSUME NEW E, NEW visit, ExprsFlow(visit, E), NEW c \in Compiler,
           NEW e, e.op \in BinOp, e.left \in E, e.right \in E, e.loc \in Nat
    PROVE  Flow(c, CompileBinary(visit, e, c), 0, 1)
<1>1. PICK l : l = visit[e.left][c]
  OBVIOUS
<1>2. Flow(c, l, 0, 1) /\ l \in Compiler
  BY <1>1 DEF ExprsFlow, Flow
<1>3. PICK r : r = visit[e.right][l]
  OBVIOUS
<1>4. Flow(l, r, 0, 1) /\ r \in Compiler
  BY <1>2, <1>3 DEF ExprsFlow, Flow
<1>5. Flow(c, r, 0, 1 - 0 + 1)
  BY <1>2, <1>4, FlowTrans
<1>6. PICK op \in BinaryOps : op = OpCodeOf[e.op]
  BY OpCodes
<1>7. PICK d : d = Emit(r, op, 0, e.loc)
  OBVIOUS
<1>8. op \in FreeOps /\ Pops(op) = 2 /\ Pushes(op) = 1
  BY OpTable DEF FreeOps
<1>9. Flow(r, d, 2, 1)
  BY <1>4, <1>7, <1>8, FreeFlow
<1>10. Flow(c, r, 0, 2)
  BY <1>5
<1>11. Flow(c, d, 0, 2 - 2 + 1)
  BY <1>9, <1>10, FlowTrans
<1> QED
  BY <1>1, <1>3, <1>6, <1>7, <1>11 DEF CompileBinary

\* The jump over the right operand takes the left one with it.
LEMMA LogicalFlow ==
    ASSUME NEW E, NEW visit, ExprsFlow(visit, E), NEW c \in Compiler,
           NEW e, e.op \in LogOp, e.left \in E, e.right \in E, e.loc \in Nat
    PROVE  Flow(c, CompileLogical(visit, e, c), 0, 1)
<1>1. PICK l : l = visit[e.left][c]
  OBVIOUS
<1>2. Flow(c, l, 0, 1) /\ l \in Compiler
  BY <1>1 DEF ExprsFlow, Flow
<1>3. PICK op \in BranchOps : op = OpCodeOf[e.op]
  BY OpCodes
<1>4. op \in JumpOps /\ op # "OP_JUMP" /\ Pops(op) = 1
  BY OpTable DEF JumpOps, BranchOps
<1>5. PICK left : left = EmitForward(l, op, e.loc)
  OBVIOUS
<1> DEFINE jump == NextPlace(l)
<1>7. /\ left \in Compiler /\ KeepsScopes(l, left) /\ NextPlace(left) = jump + 1
      /\ \A E1, X, t, u :
            Laid(l, E1, X, t) /\ t >= Pops(op) /\ u \in Nat /\ (op # "OP_JUMP" => u = t)
            => \E F : /\ Laid(left, F, X \cup {jump}, u) /\ Extends(l, E1, left, F)
                      /\ Takes(left, F, jump, t)
  BY <1>2, <1>4, <1>5, ForwardLaid
<1>8. jump \in Nat /\ jump = NextPlace(left) - 1
  BY <1>2, <1>7, CompilerIs
<1> HIDE DEF jump
<1>9. PICK popped : popped = Emit(left, "OP_POP", 0, e.loc)
  OBVIOUS
<1>10. Flow(left, popped, 1, 0) /\ popped \in Compiler
  <2>1. "OP_POP" \in FreeOps /\ Pops("OP_POP") = 1 /\ Pushes("OP_POP") = 0
    BY OpTable DEF FreeOps
  <2>2. Flow(left, popped, 1, 0)
    BY <1>7, <1>9, <2>1, FreeFlow
  <2> QED
    BY <2>2 DEF Flow
<1>11. PICK right : right = visit[e.right][popped]
  OBVIOUS
<1>12. Flow(popped, right, 0, 1) /\ right \in Compiler
  BY <1>10, <1>11 DEF ExprsFlow, Flow
<1>13. Flow(left, right, 1, 1)
  <2>1. Flow(left, right, 1, 0 - 0 + 1)
    BY <1>7, <1>10, <1>12, FlowTrans
  <2> QED
    BY <2>1
<1>14. PICK d : d = PatchJumps(right, {jump}, NextPlace(right))
  OBVIOUS
<1>15. NextPlace(right) \in Int
  BY <1>12, CompilerIs
<1>16. d \in Compiler /\ KeepsScopes(c, d)
  <2>1. d \in Compiler /\ KeepsScopes(right, d)
    BY <1>12, <1>14, <1>15, PatchIs
  <2>2. KeepsScopes(c, l) /\ KeepsScopes(l, left) /\ KeepsScopes(left, right)
    BY <1>2, <1>7, <1>13 DEF Flow
  <2> QED
    BY <2>1, <2>2 DEF KeepsScopes
<1>17. ASSUME NEW E0, NEW X, NEW t, Laid(c, E0, X, t), t >= 0
       PROVE  \E F : Laid(d, F, X, t - 0 + 1) /\ Extends(c, E0, d, F)
  <2>1. t \in Nat
    BY <1>17, LaidTypes
  <2>2. PICK u \in Nat : u = t + 1
    BY <2>1
  <2>3. t - 0 + 1 = u /\ u - 1 + 1 = u /\ u >= 1
    BY <2>1, <2>2
  <2>4. PICK E1 : Laid(l, E1, X, u) /\ Extends(c, E0, l, E1)
    BY <1>2, <1>17, <2>3 DEF Flow
  <2>5. PICK E2 : /\ Laid(left, E2, X \cup {jump}, u) /\ Extends(l, E1, left, E2)
                  /\ Takes(left, E2, jump, u)
    BY <1>4, <1>7, <2>3, <2>4
  <2>6. PICK E3 : /\ Laid(right, E3, X \cup {jump}, u) /\ Extends(left, E2, right, E3)
    BY <1>13, <2>3, <2>5 DEF Flow
  <2>7. Takes(right, E3, jump, u)
    BY <1>7, <1>12, <2>5, <2>6, ExtendsKnown
  <2>8. Known(right, E3, NextPlace(right), u)
    BY <1>12, <2>6, LaidTypes
  <2>9. Laid(d, E3, X, u) /\ Extends(right, E3, d, E3)
    <3>1. \A p \in {jump} : Takes(right, E3, p, u)
      BY <2>7
    <3> QED
      BY <1>12, <1>14, <1>15, <2>6, <2>8, <3>1, PatchLaid
  <2>10. Extends(c, E0, d, E3)
    <3>1. Extends(c, E0, left, E2)
      BY <1>2, <1>7, <2>4, <2>5, ExtendsTrans
    <3>2. Extends(c, E0, right, E3)
      BY <1>7, <1>12, <2>6, <3>1, ExtendsTrans
    <3> QED
      BY <1>12, <1>16, <2>9, <3>2, ExtendsTrans
  <2> QED
    BY <2>3, <2>9, <2>10
<1>18. d = CompileLogical(visit, e, c)
  BY <1>1, <1>3, <1>5, <1>8, <1>9, <1>11, <1>14 DEF CompileLogical, PatchJump
<1> QED
  BY <1>16, <1>17, <1>18 DEF Flow

LEMMA ExprNodeFlow ==
    ASSUME NEW E, NEW visit, ExprsFlow(visit, E), NEW c \in Compiler, NEW e \in ExprOver(E)
    PROVE  Flow(c, CompileExprNode(visit, e, c), 0, 1)
<1> DEFINE d == CompileExprNode(visit, e, c)
<1>1. e.loc \in Nat
  BY ExprCases
<1>2. CASE e.kind = "LITERAL_INT" /\ e.int \in CInt
  <2>1. d = EmitInt(c, e.int, e.loc)
    BY <1>2 DEF CompileExprNode, UnaryKinds
  <2> QED
    BY <1>1, <1>2, <2>1, EmitIntFlow
<1>3. CASE e.kind = "LITERAL_BOOL"
  <2>1. PICK op \in BoolOps : d = Emit(c, op, 0, e.loc)
    BY <1>3 DEF CompileExprNode, UnaryKinds, BoolOps
  <2>2. op \in FreeOps /\ Pops(op) = 0 /\ Pushes(op) = 1
    BY OpTable DEF FreeOps
  <2> QED
    BY <1>1, <2>1, <2>2, FreeFlow
<1>4. CASE e.kind = "VARIABLE" /\ e.name \in STRING
  <2>1. d = EmitGlobal(c, "OP_GET_GLOBAL", e.name, e.loc)
    BY <1>4 DEF CompileExprNode, UnaryKinds
  <2>2. /\ "OP_GET_GLOBAL" \in GlobalOps
        /\ Pops("OP_GET_GLOBAL") = 0 /\ Pushes("OP_GET_GLOBAL") = 1
    BY OpTable DEF GlobalOps
  <2>3. PICK v \in STRING : v = e.name
    BY <1>4
  <2>4. PICK r : r = EmitGlobal(c, "OP_GET_GLOBAL", v, e.loc)
    OBVIOUS
  <2>5. Flow(c, r, 0, 1)
    BY <1>1, <2>2, <2>4, EmitGlobalFlow
  <2> QED
    BY <2>1, <2>3, <2>4, <2>5
<1>5. CASE e.kind = "READ"
  <2>1. d = Emit(c, "OP_READ", 0, e.loc)
    BY <1>5 DEF CompileExprNode, UnaryKinds
  <2>2. "OP_READ" \in FreeOps /\ Pops("OP_READ") = 0 /\ Pushes("OP_READ") = 1
    BY OpTable DEF FreeOps
  <2> QED
    BY <1>1, <2>1, <2>2, FreeFlow
<1>6. CASE e.kind \in UnaryKinds /\ e.operand \in E
  <2>1. d = CompileUnary(visit, e, c)
    BY <1>6 DEF CompileExprNode, UnaryKinds
  <2> QED
    BY <1>1, <1>6, <2>1, UnaryFlow
<1>7. CASE e.kind = "BINARY" /\ e.op \in BinOp /\ e.left \in E /\ e.right \in E
  <2>1. d = CompileBinary(visit, e, c)
    BY <1>7 DEF CompileExprNode, UnaryKinds
  <2> QED
    BY <1>1, <1>7, <2>1, BinaryFlow
<1>8. CASE e.kind = "LOGICAL" /\ e.op \in LogOp /\ e.left \in E /\ e.right \in E
  <2>1. d = CompileLogical(visit, e, c)
    BY <1>8 DEF CompileExprNode, UnaryKinds
  <2> QED
    BY <1>1, <1>8, <2>1, LogicalFlow
<1> HIDE DEF d
<1> QED
  BY <1>2, <1>3, <1>4, <1>5, <1>6, <1>7, <1>8, ExprCases

LEMMA ExprFlow ==
    \A e \in Expr, c \in Compiler : Flow(c, CompileExpr(e, c), 0, 1)
<1> DEFINE S == {h \in 0 .. MaxHeight : ExprsFlow(CompileExprUpTo[h], ExprUpTo[h])}
<1>1. 0 \in S
  <2>1. ExprsFlow(CompileExprUpTo[0], ExprUpTo[0])
    BY ExprLevels DEF ExprsFlow
  <2> QED
    BY <2>1, MaxHeightAssumption
<1>2. ASSUME NEW h \in 1 .. MaxHeight, h - 1 \in S
      PROVE  h \in S
  <2>1. h \in Heights /\ h # 0
    BY MaxHeightAssumption DEF Heights
  <2>2. PICK E : E = ExprUpTo[h - 1]
    OBVIOUS
  <2>3. PICK visit : visit = CompileExprUpTo[h - 1]
    OBVIOUS
  <2>4. ExprsFlow(visit, E)
    BY <1>2, <2>2, <2>3
  <2>5. ExprUpTo[h] = ExprOver(E)
    BY <2>1, <2>2, ExprLevels
  <2>6. ASSUME NEW e \in ExprUpTo[h], NEW c \in Compiler
        PROVE  Flow(c, CompileExprUpTo[h][e][c], 0, 1)
    <3>1. CompileExprUpTo[h][e][c] = CompileExprNode(visit, e, c)
      BY <2>1, <2>3, CompileExprLevels, Zenon
    <3>2. Flow(c, CompileExprNode(visit, e, c), 0, 1)
      BY <2>4, <2>5, ExprNodeFlow
    <3> QED
      BY <3>1, <3>2
  <2>7. ExprsFlow(CompileExprUpTo[h], ExprUpTo[h])
    BY <2>6 DEF ExprsFlow
  <2> QED
    BY <2>7
<1>3. \A h \in 0 .. MaxHeight : h \in S
  <2> HIDE DEF S
  <2> QED
    BY <1>1, <1>2, MaxHeightAssumption, InductionTo, Zenon
<1>4. ExprsFlow(CompileExprUpTo[MaxHeight], ExprUpTo[MaxHeight])
  BY <1>3, MaxHeightAssumption
<1> QED
  BY <1>4 DEF ExprsFlow, Expr, CompileExpr

-----------------------------------------------------------------------------
(* Statements: each leaves what the scopes hold, and jumps that wait.      *)

StmtFlow(c, d) ==
    /\ d \in Compiler /\ Shape(c, d)
    /\ \A E, X : Laid(c, E, X \cup Waiting(c), Total(c)) =>
          \E F : Laid(d, F, X \cup Waiting(d), Total(d)) /\ Extends(c, E, d, F)

LEMMA StmtFlowTrans ==
    ASSUME NEW c \in Compiler, NEW d, NEW e, StmtFlow(c, d), StmtFlow(d, e)
    PROVE  StmtFlow(c, e)
<1>1. d \in Compiler /\ e \in Compiler /\ Shape(c, e)
  BY ShapeTrans DEF StmtFlow
<1>2. ASSUME NEW E, NEW X, Laid(c, E, X \cup Waiting(c), Total(c))
      PROVE  \E G : Laid(e, G, X \cup Waiting(e), Total(e)) /\ Extends(c, E, e, G)
  <2>1. PICK F : Laid(d, F, X \cup Waiting(d), Total(d)) /\ Extends(c, E, d, F)
    BY <1>2 DEF StmtFlow
  <2>2. PICK G : Laid(e, G, X \cup Waiting(e), Total(e)) /\ Extends(d, F, e, G)
    BY <2>1 DEF StmtFlow
  <2>3. Extends(c, E, e, G)
    BY <1>1, <2>1, <2>2, ExtendsTrans
  <2> QED
    BY <2>2, <2>3
<1> QED
  BY <1>1, <1>2 DEF StmtFlow

LEMMA StmtFlowSame ==
    ASSUME NEW c \in Compiler
    PROVE  StmtFlow(c, c)
<1>1. Shape(c, c)
  BY DEF Shape
<1>2. \A E : Extends(c, E, c, E)
  BY CompilerIs DEF Extends
<1> QED
  BY <1>1, <1>2 DEF StmtFlow

LEMMA FlowStmt ==
    ASSUME NEW c \in Compiler, NEW d, Flow(c, d, 0, 0)
    PROVE  StmtFlow(c, d)
<1>1. d \in Compiler /\ KeepsScopes(c, d)
  BY DEF Flow
<1>2. Shape(c, d) /\ Total(d) = Total(c) /\ Waiting(d) = Waiting(c)
  BY <1>1, ScopesKept
<1>3. ASSUME NEW E, NEW X, Laid(c, E, X \cup Waiting(c), Total(c))
      PROVE  \E F : Laid(d, F, X \cup Waiting(d), Total(d)) /\ Extends(c, E, d, F)
  <2>1. Total(c) \in Nat
    BY ScopeLengths
  <2>2. Total(c) >= 0 /\ Total(c) - 0 + 0 = Total(c)
    BY <2>1
  <2>3. PICK F : Laid(d, F, X \cup Waiting(c), Total(c)) /\ Extends(c, E, d, F)
    BY <1>3, <2>2 DEF Flow
  <2> QED
    BY <1>2, <2>3
<1> QED
  BY <1>1, <1>2, <1>3 DEF StmtFlow

\* A list of parts, in states that statements do not leave.
LEMMA VisitFlow ==
    ASSUME NEW D \in SUBSET Compiler,
           \A c \in D : \A d : StmtFlow(c, d) => d \in D,
           NEW b \in D, NEW xs, Len(xs) \in Nat, NEW visit,
           \A k \in 1 .. Len(xs) : \A c \in D : StmtFlow(c, visit[xs[k]][c])
    PROVE  StmtFlow(b, Visit(visit, xs, b))
<1>1. \A k \in 1 .. Len(xs) : \A c \in D : visit[xs[k]][c] \in D
  OBVIOUS
<1>2. PICK run \in [0 .. Len(xs) -> D] : IsWalk(run, visit, xs, b)
  BY <1>1, VisitWalks, Zenon
<1> DEFINE S == {k \in 0 .. Len(xs) : StmtFlow(b, run[k])}
<1>3. 0 \in S
  <2>1. run[0] = b
    BY <1>2 DEF IsWalk
  <2> QED
    BY <2>1, StmtFlowSame
<1>4. ASSUME NEW k \in 1 .. Len(xs), k - 1 \in S
      PROVE  k \in S
  <2>1. k \in 0 .. Len(xs) /\ k - 1 \in 0 .. Len(xs)
    OBVIOUS
  <2>2. run[k] = visit[xs[k]][run[k - 1]] /\ run[k - 1] \in D
    BY <1>2, <2>1 DEF IsWalk
  <2>3. StmtFlow(run[k - 1], run[k])
    BY <2>2
  <2>4. StmtFlow(b, run[k - 1])
    BY <1>4
  <2>5. StmtFlow(b, run[k])
    BY <2>3, <2>4, StmtFlowTrans
  <2> QED
    BY <2>1, <2>5
<1>5. \A k \in 0 .. Len(xs) : k \in S
  <2> HIDE DEF S
  <2> QED
    BY <1>3, <1>4, InductionTo, Zenon
<1>6. StmtFlow(b, run[Len(xs)])
  BY <1>5
<1> QED
  BY <1>2, <1>6 DEF IsWalk

StmtsFlow(visit, S) == \A s \in S, c \in Compiler : StmtFlow(c, visit[s][c])

LEMMA ListFlow ==
    ASSUME NEW S, NEW visit, StmtsFlow(visit, S), NEW xs \in Seq(S), NEW c \in Compiler
    PROVE  StmtFlow(c, Visit(visit, xs, c))
<1>1. Len(xs) \in Nat /\ \A k \in 1 .. Len(xs) : xs[k] \in S
  BY LenProperties, ElementOfSeq
<1>2. \A k \in 1 .. Len(xs) : \A b \in Compiler : StmtFlow(b, visit[xs[k]][b])
  BY <1>1 DEF StmtsFlow
<1>3. \A b \in Compiler : \A d : StmtFlow(b, d) => d \in Compiler
  BY DEF StmtFlow
<1> QED
  BY <1>1, <1>2, <1>3, VisitFlow

-----------------------------------------------------------------------------
(* Statements without statements in them.                                  *)

LEMMA StoreFlow ==
    ASSUME NEW c \in Compiler, NEW e \in Expr, NEW op \in StoreOps, NEW s,
           s.name \in STRING, s.loc \in Nat
    PROVE  StmtFlow(c, CompileStore(s, op, e, c))
<1>1. PICK v : v = CompileExpr(e, c)
  OBVIOUS
<1>2. Flow(c, v, 0, 1) /\ v \in Compiler
  BY <1>1, ExprFlow DEF Flow
<1>3. op \in GlobalOps /\ Pops(op) = 1 /\ Pushes(op) = 0
  BY OpTable DEF GlobalOps
<1>4. PICK name \in STRING : name = s.name
  OBVIOUS
<1>5. PICK d : d = EmitGlobal(v, op, name, s.loc)
  OBVIOUS
<1>6. Flow(v, d, 1, 0)
  BY <1>2, <1>3, <1>5, EmitGlobalFlow
<1>7. Flow(c, d, 0, 1 - 1 + 0)
  BY <1>2, <1>6, FlowTrans
<1>8. StmtFlow(c, d)
  BY <1>7, FlowStmt
<1> QED
  BY <1>1, <1>4, <1>5, <1>8 DEF CompileStore

LEMMA PrintFlow ==
    ASSUME NEW c \in Compiler, NEW s, s.loc \in Nat,
           \/ s.isString = TRUE /\ s.stringLiteral \in STRING
           \/ s.isString = FALSE /\ s.expr \in Expr
    PROVE  StmtFlow(c, CompilePrint(s, c))
<1>1. CASE s.isString = TRUE /\ s.stringLiteral \in STRING
  <2>1. PICK v \in STRING : v = s.stringLiteral
    BY <1>1
  <2>2. PICK d : d = EmitString(c, v, s.loc)
    OBVIOUS
  <2>3. StmtFlow(c, d)
    BY <2>2, EmitStringFlow, FlowStmt
  <2> QED
    BY <1>1, <2>1, <2>2, <2>3 DEF CompilePrint
<1>2. CASE s.isString = FALSE /\ s.expr \in Expr
  <2>1. PICK v : v = CompileExpr(s.expr, c)
    OBVIOUS
  <2>2. Flow(c, v, 0, 1) /\ v \in Compiler
    BY <1>2, <2>1, ExprFlow DEF Flow
  <2>3. PICK d : d = Emit(v, "OP_PRINT_VAL", 0, s.loc)
    OBVIOUS
  <2>4. "OP_PRINT_VAL" \in FreeOps /\ Pops("OP_PRINT_VAL") = 1 /\ Pushes("OP_PRINT_VAL") = 0
    BY OpTable DEF FreeOps
  <2>5. Flow(v, d, 1, 0)
    BY <2>2, <2>3, <2>4, FreeFlow
  <2>6. Flow(c, d, 0, 1 - 1 + 0)
    BY <2>2, <2>5, FlowTrans
  <2>7. StmtFlow(c, d)
    BY <2>6, FlowStmt
  <2> QED
    BY <1>2, <2>1, <2>3, <2>7 DEF CompilePrint
<1> QED
  BY <1>1, <1>2

\* The failed assertion of a compiler that goes on all the same.
LEMMA AbortFlow ==
    ASSUME NEW c \in Compiler
    PROVE  StmtFlow(c, Abort(c))
<1>1. PICK d : d = Abort(c)
  OBVIOUS
<1>2. d \in Compiler /\ d.chunk = c.chunk /\ d.scopes = c.scopes
  BY <1>1 DEF Abort, Compiler
<1>3. Shape(c, d) /\ Total(d) = Total(c) /\ Waiting(d) = Waiting(c)
  BY <1>2 DEF Shape, Total, Waiting
<1>4. ASSUME NEW E, NEW X, Laid(c, E, X \cup Waiting(c), Total(c))
      PROVE  Laid(d, E, X \cup Waiting(d), Total(d)) /\ Extends(c, E, d, E)
  <2>1. /\ Extends(c, E, d, E)
        /\ Waits(d, E) => Laid(d, E, X \cup Waiting(c), Total(c))
    BY <1>2, <1>4, SameChunk
  <2>2. Waits(c, E)
    BY <1>4 DEF Laid
  <2>3. Waits(d, E)
    BY <1>2, <2>1, <2>2, WaitsStable
  <2> QED
    BY <1>3, <2>1, <2>3
<1>5. StmtFlow(c, d)
  BY <1>2, <1>3, <1>4 DEF StmtFlow
<1> QED
  BY <1>1, <1>5

\* The way out to scope number target: the pops, and a jump that waits.
LEMMA JumpLaid ==
    ASSUME NEW c \in Compiler, NEW target \in 1 .. Len(c.scopes), NEW loc \in Nat,
           NEW d, d = EmitJump(c, target, loc)
    PROVE  /\ d \in Compiler /\ KeepsScopes(c, d) /\ NextPlace(d) - 1 \in Nat
           /\ \A E, X : Laid(c, E, X, Total(c)) =>
                 \E F : /\ Laid(d, F, X \cup {NextPlace(d) - 1}, Total(c))
                        /\ Extends(c, E, d, F)
                        /\ Takes(d, F, NextPlace(d) - 1, Held(c.scopes)[target])
<1>1. PICK h : h = Held(c.scopes)[target]
  OBVIOUS
<1>2. PICK n : n = Total(c) - h
  OBVIOUS
<1>3. h \in Nat /\ n \in Nat /\ Total(c) = h + n
  <2>1. target \in 0 .. Len(c.scopes)
    OBVIOUS
  <2>2. h \in Nat /\ Total(c) \in Nat
    BY <1>1, <2>1, ScopeLengths
  <2>3. h <= Total(c)
    BY <1>1, <2>1, ScopeLengths, HeldGrows DEF Total
  <2> QED
    BY <1>2, <2>2, <2>3
<1>4. PICK b : b = EmitPops(c, n, loc)
  OBVIOUS
<1>5. b \in Compiler /\ KeepsScopes(c, b)
  BY <1>3, <1>4, EmitPopsIs
<1>6. d = EmitForward(b, "OP_JUMP", loc)
  BY <1>1, <1>2, <1>4 DEF EmitJump, Total
<1>7. "OP_JUMP" \in JumpOps /\ Pops("OP_JUMP") = 0
  BY OpTable DEF JumpOps
<1>8. /\ d \in Compiler /\ KeepsScopes(b, d) /\ NextPlace(d) = NextPlace(b) + 1
      /\ \A E, X, t, u :
            /\ Laid(b, E, X, t) /\ t >= 0
            /\ u \in Nat /\ ("OP_JUMP" # "OP_JUMP" => u = t)
            => \E F : /\ Laid(d, F, X \cup {NextPlace(b)}, u)
                      /\ Extends(b, E, d, F)
                      /\ Takes(d, F, NextPlace(b), t)
  BY <1>5, <1>6, <1>7, ForwardLaid
<1>9. NextPlace(b) = NextPlace(d) - 1 /\ NextPlace(b) \in Nat
  BY <1>5, <1>8, CompilerIs
<1>10. ASSUME NEW E, NEW X, Laid(c, E, X, Total(c))
       PROVE  \E F : /\ Laid(d, F, X \cup {NextPlace(b)}, Total(c))
                     /\ Extends(c, E, d, F)
                     /\ Takes(d, F, NextPlace(b), h)
  <2>1. PICK E1 : Laid(b, E1, X, h) /\ Extends(c, E, b, E1)
    BY <1>3, <1>4, <1>10, EmitPopsLaid
  <2>2. Total(c) \in Nat /\ h >= 0
    BY <1>3
  <2>3. PICK F : /\ Laid(d, F, X \cup {NextPlace(b)}, Total(c))
                 /\ Extends(b, E1, d, F)
                 /\ Takes(d, F, NextPlace(b), h)
    BY <1>8, <2>1, <2>2
  <2>4. Extends(c, E, d, F)
    BY <1>5, <1>8, <2>1, <2>3, ExtendsTrans
  <2> QED
    BY <2>3, <2>4
<1>11. KeepsScopes(c, d)
  BY <1>5, <1>8, ScopesKeptTrans
<1> QED
  BY <1>1, <1>8, <1>9, <1>10, <1>11

LEMMA BreakFlow ==
    ASSUME NEW c \in Compiler, NEW s, s.loc \in Nat
    PROVE  StmtFlow(c, CompileBreak(s, c))
<1>1. CASE c.scopes = << >>
  BY <1>1, AbortFlow DEF CompileBreak
<1>2. CASE c.scopes # << >>
  <2>1. PICK n \in 1 .. Len(c.scopes) : n = Len(c.scopes)
    <3>1. Len(c.scopes) # 0
      BY <1>2, ScopeLengths, EmptySeq
    <3> QED
      BY <3>1, ScopeLengths
  <2>2. PICK b : b = EmitJump(c, n, s.loc)
    OBVIOUS
  <2> DEFINE p == NextPlace(b) - 1
  <2>3. /\ b \in Compiler /\ KeepsScopes(c, b) /\ p \in Nat
        /\ \A E, X : Laid(c, E, X, Total(c)) =>
              \E F : /\ Laid(b, F, X \cup {p}, Total(c))
                     /\ Extends(c, E, b, F)
                     /\ Takes(b, F, p, Held(c.scopes)[n])
    BY <2>2, JumpLaid
  <2>4. PICK d : d = AwaitBreak(b, n, p)
    OBVIOUS
  <2>5. d = CompileBreak(s, c)
    BY <1>2, <2>1, <2>2, <2>4 DEF CompileBreak
  <2> HIDE DEF p
  <2>6. b.scopes = c.scopes /\ n \in 1 .. Len(b.scopes)
    BY <2>3 DEF KeepsScopes
  <2>7. /\ d \in Compiler /\ Shape(b, d)
        /\ Waiting(d) = Waiting(b) \cup {p}
        /\ \A E, X, t : Laid(b, E, X, t) /\ Takes(b, E, p, Held(b.scopes)[n])
              => Laid(d, E, X, t) /\ Extends(b, E, d, E)
    BY <2>3, <2>4, <2>6, AwaitBreakLaid
  <2>8. Shape(c, d) /\ Waiting(b) = Waiting(c)
    BY <2>3, <2>7, ScopesKept, ShapeTrans
  <2>9. Total(d) = Total(c)
    BY <2>7, <2>8, ShapeHeld
  <2>10. ASSUME NEW E, NEW X, Laid(c, E, X \cup Waiting(c), Total(c))
         PROVE  \E F : Laid(d, F, X \cup Waiting(d), Total(d)) /\ Extends(c, E, d, F)
    <3>1. PICK F : /\ Laid(b, F, (X \cup Waiting(c)) \cup {p}, Total(c))
                   /\ Extends(c, E, b, F)
                   /\ Takes(b, F, p, Held(c.scopes)[n])
      BY <2>3, <2>10
    <3>2. (X \cup Waiting(c)) \cup {p} = X \cup Waiting(d)
      BY <2>7, <2>8
    <3>3. Laid(d, F, X \cup Waiting(d), Total(d)) /\ Extends(b, F, d, F)
      BY <2>6, <2>7, <2>9, <3>1, <3>2
    <3>4. Extends(c, E, d, F)
      BY <2>3, <2>7, <3>1, <3>3, ExtendsTrans
    <3> QED
      BY <3>3, <3>4
  <2> QED
    BY <2>5, <2>7, <2>8, <2>10 DEF StmtFlow
<1> QED
  BY <1>1, <1>2

LEMMA MaxIs ==
    ASSUME NEW N \in Nat, NEW T \in SUBSET (1 .. N), T # {}
    PROVE  Max(T) \in T
<1> DEFINE R == {k \in Nat : N - k \in T}
<1>1. R \in SUBSET Nat
  OBVIOUS
<1>2. R # {}
  <2>1. PICK n \in T : TRUE
    OBVIOUS
  <2>2. N - n \in Nat /\ N - (N - n) = n
    BY <2>1
  <2>3. N - n \in R
    BY <2>1, <2>2
  <2> QED
    BY <2>3
<1>3. PICK m \in R : \A k \in R : m <= k
  <2> HIDE DEF R
  <2> QED
    BY <1>1, <1>2, Least, Zenon
<1>4. N - m \in T /\ m \in Nat
  OBVIOUS
<1>5. \A y \in T : N - m >= y
  <2> TAKE y \in T
  <2>1. N - y \in Nat /\ N - (N - y) = y
    OBVIOUS
  <2>2. N - y \in R
    BY <2>1
  <2>3. m <= N - y
    BY <1>3, <2>2
  <2> QED
    BY <1>4, <2>1, <2>3
<1> QED
  BY <1>4, <1>5 DEF Max

LEMMA ContinueFlow ==
    ASSUME NEW c \in Compiler, NEW s, s.loc \in Nat
    PROVE  StmtFlow(c, CompileContinue(s, c))
<1>1. CASE LoopsIn(c.scopes) = {}
  BY <1>1, AbortFlow DEF CompileContinue
<1>2. CASE LoopsIn(c.scopes) # {}
  <2>1. PICK n \in 1 .. Len(c.scopes) : n = Max(LoopsIn(c.scopes)) /\ c.scopes[n].kind = "Loop"
    <3>1. LoopsIn(c.scopes) \in SUBSET (1 .. Len(c.scopes)) /\ Len(c.scopes) \in Nat
      BY CompilerIs, LenProperties DEF LoopsIn
    <3>2. Max(LoopsIn(c.scopes)) \in LoopsIn(c.scopes)
      BY <1>2, <3>1, MaxIs
    <3> QED
      BY <3>1, <3>2 DEF LoopsIn
  <2>2. PICK b : b = EmitJump(c, n, s.loc)
    OBVIOUS
  <2> DEFINE p == NextPlace(b) - 1
  <2>3. /\ b \in Compiler /\ KeepsScopes(c, b) /\ p \in Nat
        /\ \A E, X : Laid(c, E, X, Total(c)) =>
              \E F : /\ Laid(b, F, X \cup {p}, Total(c))
                     /\ Extends(c, E, b, F)
                     /\ Takes(b, F, p, Held(c.scopes)[n])
    BY <2>2, JumpLaid
  <2>4. PICK d : d = AwaitContinue(b, n, p)
    OBVIOUS
  <2>5. d = CompileContinue(s, c)
    BY <1>2, <2>1, <2>2, <2>4 DEF CompileContinue
  <2> HIDE DEF p
  <2>6. b.scopes = c.scopes /\ n \in 1 .. Len(b.scopes) /\ b.scopes[n].kind = "Loop"
    BY <2>1, <2>3 DEF KeepsScopes
  <2>7. /\ d \in Compiler /\ Shape(b, d)
        /\ Waiting(d) = Waiting(b) \cup {p}
        /\ \A E, X, t : Laid(b, E, X, t) /\ Takes(b, E, p, Held(b.scopes)[n])
              => Laid(d, E, X, t) /\ Extends(b, E, d, E)
    BY <2>3, <2>4, <2>6, AwaitContinueLaid
  <2>8. Shape(c, d) /\ Waiting(b) = Waiting(c)
    BY <2>3, <2>7, ScopesKept, ShapeTrans
  <2>9. Total(d) = Total(c)
    BY <2>7, <2>8, ShapeHeld
  <2>10. ASSUME NEW E, NEW X, Laid(c, E, X \cup Waiting(c), Total(c))
         PROVE  \E F : Laid(d, F, X \cup Waiting(d), Total(d)) /\ Extends(c, E, d, F)
    <3>1. PICK F : /\ Laid(b, F, (X \cup Waiting(c)) \cup {p}, Total(c))
                   /\ Extends(c, E, b, F)
                   /\ Takes(b, F, p, Held(c.scopes)[n])
      BY <2>3, <2>10
    <3>2. (X \cup Waiting(c)) \cup {p} = X \cup Waiting(d)
      BY <2>7, <2>8
    <3>3. Laid(d, F, X \cup Waiting(d), Total(d)) /\ Extends(b, F, d, F)
      BY <2>6, <2>7, <2>9, <3>1, <3>2
    <3>4. Extends(c, E, d, F)
      BY <2>3, <2>7, <3>1, <3>3, ExtendsTrans
    <3> QED
      BY <3>3, <3>4
  <2> QED
    BY <2>5, <2>7, <2>8, <2>10 DEF StmtFlow
<1> QED
  BY <1>1, <1>2

-----------------------------------------------------------------------------
(* Conditions, the way out of them, and branches.                          *)

LEMMA PopFlow ==
    ASSUME NEW c \in Compiler, NEW loc \in Nat, NEW d, d = Emit(c, "OP_POP", 0, loc)
    PROVE  Flow(c, d, 1, 0)
<1>1. "OP_POP" \in FreeOps /\ Pops("OP_POP") = 1 /\ Pushes("OP_POP") = 0
  BY OpTable DEF FreeOps
<1> QED
  BY <1>1, FreeFlow

\* A condition that is popped, with a jump where it is not popped yet.
LEMMA ConditionLaid ==
    ASSUME NEW c \in Compiler, NEW s, s.condition \in Expr, s.loc \in Nat,
           NEW d, d = CompileCondition(s, c)
    PROVE  /\ d \in Compiler /\ KeepsScopes(c, d)
           /\ \A E, X, t : Laid(c, E, X, t) =>
                 \E F : /\ Laid(d, F, X \cup {ExitJump(d)}, t) /\ Extends(c, E, d, F)
                        /\ Takes(d, F, ExitJump(d), t + 1)
<1>1. PICK v : v = CompileExpr(s.condition, c)
  OBVIOUS
<1>2. Flow(c, v, 0, 1) /\ v \in Compiler
  BY <1>1, ExprFlow DEF Flow
<1>3. PICK b : b = EmitForward(v, "OP_JUMP_IF_FALSE", s.loc)
  OBVIOUS
<1>4. /\ "OP_JUMP_IF_FALSE" \in JumpOps /\ "OP_JUMP_IF_FALSE" # "OP_JUMP"
      /\ Pops("OP_JUMP_IF_FALSE") = 1
  BY OpTable DEF JumpOps, BranchOps
<1>5. /\ b \in Compiler /\ KeepsScopes(v, b) /\ NextPlace(b) = NextPlace(v) + 1
      /\ \A E, X, t, u :
            /\ Laid(v, E, X, t) /\ t >= Pops("OP_JUMP_IF_FALSE")
            /\ u \in Nat /\ ("OP_JUMP_IF_FALSE" # "OP_JUMP" => u = t)
            => \E F : /\ Laid(b, F, X \cup {NextPlace(v)}, u) /\ Extends(v, E, b, F)
                      /\ Takes(b, F, NextPlace(v), t)
  BY <1>2, <1>3, <1>4, ForwardLaid, ZenonT(60)
<1>6. d = Emit(b, "OP_POP", 0, s.loc)
  BY <1>1, <1>3 DEF CompileCondition
<1>7. Flow(b, d, 1, 0) /\ d \in Compiler
  <2>1. Flow(b, d, 1, 0)
    BY <1>5, <1>6, PopFlow
  <2> QED
    BY <2>1 DEF Flow
<1>8. ExitJump(d) = NextPlace(v)
  <2>1. "OP_POP" \in OpCode
    BY DEF OpCode
  <2>2. NextPlace(d) = NextPlace(b) + 1
    BY <1>5, <1>6, <2>1, EmitIs
  <2> QED
    BY <1>2, <1>5, <2>2, CompilerIs DEF ExitJump
<1>9. KeepsScopes(c, d)
  BY <1>2, <1>5, <1>7 DEF Flow, KeepsScopes
<1>10. ASSUME NEW E, NEW X, NEW t, Laid(c, E, X, t)
       PROVE  \E F : /\ Laid(d, F, X \cup {ExitJump(d)}, t) /\ Extends(c, E, d, F)
                     /\ Takes(d, F, ExitJump(d), t + 1)
  <2>1. t \in Nat
    BY <1>10, LaidTypes
  <2>2. PICK u \in Nat : u = t + 1
    BY <2>1
  <2>3. t >= 0 /\ t - 0 + 1 = u /\ u >= 1 /\ u - 1 + 0 = t
    BY <2>1, <2>2
  <2>4. PICK E1 : Laid(v, E1, X, u) /\ Extends(c, E, v, E1)
    BY <1>2, <1>10, <2>3 DEF Flow
  <2>5. PICK E2 : /\ Laid(b, E2, X \cup {NextPlace(v)}, u) /\ Extends(v, E1, b, E2)
                  /\ Takes(b, E2, NextPlace(v), u)
    BY <1>4, <1>5, <2>3, <2>4
  <2>6. PICK F : Laid(d, F, X \cup {NextPlace(v)}, t) /\ Extends(b, E2, d, F)
    BY <1>7, <2>3, <2>5 DEF Flow
  <2>7. Takes(d, F, NextPlace(v), u)
    BY <1>5, <1>7, <2>5, <2>6, ExtendsKnown
  <2>8. Extends(c, E, d, F)
    <3>1. Extends(c, E, b, E2)
      BY <1>2, <1>5, <2>4, <2>5, ExtendsTrans
    <3> QED
      BY <1>5, <1>7, <2>6, <3>1, ExtendsTrans
  <2> QED
    BY <1>8, <2>2, <2>6, <2>7, <2>8
<1> QED
  BY <1>7, <1>9, <1>10

LEMMA LandExitLaid ==
    ASSUME NEW c \in Compiler, NEW jump, NEW loc \in Nat, NEW d, d = LandExit(c, jump, loc)
    PROVE  /\ d \in Compiler /\ KeepsScopes(c, d)
           /\ \A E, X, Y, t :
                 /\ t \in Nat /\ Laid(c, E, X, t + 1) /\ Takes(c, E, jump, t + 1)
                 /\ X \subseteq Y \cup {jump}
                 => \E F : Laid(d, F, Y, t) /\ Extends(c, E, d, F)
<1>1. PICK b : b = PatchJumps(c, {jump}, NextPlace(c))
  OBVIOUS
<1>2. NextPlace(c) \in Int
  BY CompilerIs
<1>3. b \in Compiler /\ KeepsScopes(c, b)
  BY <1>1, <1>2, PatchIs
<1>4. d = Emit(b, "OP_POP", 0, loc)
  BY <1>1 DEF LandExit, PatchJump
<1>5. Flow(b, d, 1, 0) /\ d \in Compiler
  <2>1. Flow(b, d, 1, 0)
    BY <1>3, <1>4, PopFlow
  <2> QED
    BY <2>1 DEF Flow
<1>6. KeepsScopes(c, d)
  BY <1>3, <1>5 DEF Flow, KeepsScopes
<1>7. ASSUME NEW E, NEW X, NEW Y, NEW t, t \in Nat, Laid(c, E, X, t + 1),
             Takes(c, E, jump, t + 1), X \subseteq Y \cup {jump}
      PROVE  \E F : Laid(d, F, Y, t) /\ Extends(c, E, d, F)
  <2>1. PICK u \in Nat : u = t + 1
    BY <1>7
  <2>2. u >= 1 /\ u - 1 + 0 = t
    BY <1>7, <2>1
  <2>3. Known(c, E, NextPlace(c), u)
    BY <1>7, <2>1, LaidTypes
  <2>4. \A p \in {jump} : Takes(c, E, p, u)
    BY <1>7, <2>1
  <2>5. Laid(b, E, Y, u) /\ Extends(c, E, b, E)
    BY <1>1, <1>2, <1>7, <2>1, <2>3, <2>4, PatchLaid
  <2>6. PICK F : Laid(d, F, Y, t) /\ Extends(b, E, d, F)
    BY <1>5, <2>2, <2>5 DEF Flow
  <2>7. Extends(c, E, d, F)
    BY <1>3, <1>5, <2>5, <2>6, ExtendsTrans
  <2> QED
    BY <2>6, <2>7
<1> QED
  BY <1>5, <1>6, <1>7

LEMMA IfFlow ==
    ASSUME NEW S, NEW visit, StmtsFlow(visit, S), NEW c \in Compiler,
           NEW s, s.condition \in Expr, s.loc \in Nat, s.thenBranch \in S,
           s.elseBranch \in Seq(S)
    PROVE  StmtFlow(c, CompileIf(visit, s, c))
<1>1. PICK cond : cond = CompileCondition(s, c)
  OBVIOUS
<1>2. PICK x : x = ExitJump(cond)
  OBVIOUS
<1>3. /\ cond \in Compiler /\ KeepsScopes(c, cond)
      /\ \A E, X, t : Laid(c, E, X, t) =>
            \E F : /\ Laid(cond, F, X \cup {x}, t) /\ Extends(c, E, cond, F)
                   /\ Takes(cond, F, x, t + 1)
  BY <1>1, <1>2, ConditionLaid
<1>4. PICK b : b = visit[s.thenBranch][cond]
  OBVIOUS
<1>5. StmtFlow(cond, b) /\ b \in Compiler
  BY <1>3, <1>4 DEF StmtsFlow, StmtFlow
<1>6. PICK then : then = EmitForward(b, "OP_JUMP", s.loc)
  OBVIOUS
<1> DEFINE q == NextPlace(b)
<1>7. "OP_JUMP" \in JumpOps /\ Pops("OP_JUMP") = 0
  BY OpTable DEF JumpOps
<1>8. /\ then \in Compiler /\ KeepsScopes(b, then) /\ NextPlace(then) = q + 1
      /\ \A E, X, t, u :
            /\ Laid(b, E, X, t) /\ t >= 0
            /\ u \in Nat /\ ("OP_JUMP" # "OP_JUMP" => u = t)
            => \E F : /\ Laid(then, F, X \cup {q}, u) /\ Extends(b, E, then, F)
                      /\ Takes(then, F, q, t)
  BY <1>5, <1>6, <1>7, ForwardLaid
<1>9. q = NextPlace(then) - 1
  BY <1>5, <1>8, CompilerIs
<1> HIDE DEF q
<1>10. PICK landed : landed = LandExit(then, x, s.loc)
  OBVIOUS
<1>11. /\ landed \in Compiler /\ KeepsScopes(then, landed)
       /\ \A E, X, Y, t :
             /\ t \in Nat /\ Laid(then, E, X, t + 1) /\ Takes(then, E, x, t + 1)
             /\ X \subseteq Y \cup {x}
             => \E F : Laid(landed, F, Y, t) /\ Extends(then, E, landed, F)
  BY <1>8, <1>10, LandExitLaid
<1>12. PICK else : else = Visit(visit, s.elseBranch, landed)
  OBVIOUS
<1>13. StmtFlow(landed, else) /\ else \in Compiler
  <2>1. StmtFlow(landed, else)
    BY <1>11, <1>12, ListFlow
  <2> QED
    BY <2>1 DEF StmtFlow
<1>14. PICK d : d = PatchJumps(else, {q}, NextPlace(else))
  OBVIOUS
<1>15. NextPlace(else) \in Int
  BY <1>13, CompilerIs
<1>16. d \in Compiler /\ KeepsScopes(else, d)
  BY <1>13, <1>14, <1>15, PatchIs
<1>17. PICK T \in Nat : T = Total(c)
  BY ScopeLengths
<1>18. Waiting(cond) = Waiting(c) /\ Total(cond) = T /\ Shape(c, cond)
  BY <1>3, <1>17, ScopesKept
<1>19. Total(b) = T /\ Shape(cond, b)
  BY <1>3, <1>5, <1>18, ShapeHeld DEF StmtFlow
<1>20. Waiting(landed) = Waiting(b) /\ Total(landed) = T /\ Shape(b, landed)
  <2>1. KeepsScopes(b, landed)
    BY <1>8, <1>11, ScopesKeptTrans
  <2> QED
    BY <1>19, <2>1, ScopesKept
<1>21. Total(else) = T /\ Shape(landed, else)
  BY <1>11, <1>13, <1>20, ShapeHeld DEF StmtFlow
<1>22. Waiting(d) = Waiting(else) /\ Total(d) = T /\ Shape(else, d)
  BY <1>16, <1>21, ScopesKept
<1>23. Shape(c, d)
  BY <1>18, <1>19, <1>20, <1>21, <1>22, ShapeTrans
<1>24. ASSUME NEW E, NEW X, Laid(c, E, X \cup Waiting(c), T)
       PROVE  \E F : Laid(d, F, X \cup Waiting(d), T) /\ Extends(c, E, d, F)
  <2>1. PICK E1 : /\ Laid(cond, E1, (X \cup Waiting(c)) \cup {x}, T)
                  /\ Extends(c, E, cond, E1) /\ Takes(cond, E1, x, T + 1)
    BY <1>3, <1>24
  <2>2. PICK X1 : X1 = X \cup {x}
    OBVIOUS
  <2>3. (X \cup Waiting(c)) \cup {x} = X1 \cup Waiting(cond)
    BY <1>18, <2>2
  <2>4. PICK E2 : Laid(b, E2, X1 \cup Waiting(b), T) /\ Extends(cond, E1, b, E2)
    BY <1>5, <1>18, <1>19, <2>1, <2>3 DEF StmtFlow
  <2>5. PICK E3 : /\ Laid(then, E3, (X1 \cup Waiting(b)) \cup {q}, T + 1)
                  /\ Extends(b, E2, then, E3) /\ Takes(then, E3, q, T)
    <3>1. T >= 0 /\ T + 1 \in Nat
      OBVIOUS
    <3> QED
      BY <1>8, <2>4, <3>1
  <2>6. Extends(cond, E1, then, E3)
    BY <1>3, <1>5, <1>8, <2>4, <2>5, ExtendsTrans
  <2>7. Takes(then, E3, x, T + 1)
    BY <1>3, <1>8, <2>1, <2>6, ExtendsKnown
  <2>8. PICK X2 : X2 = X \cup {q}
    OBVIOUS
  <2>9. (X1 \cup Waiting(b)) \cup {q} \subseteq (X2 \cup Waiting(landed)) \cup {x}
    BY <1>20, <2>2, <2>8
  <2>10. PICK E4 : Laid(landed, E4, X2 \cup Waiting(landed), T) /\ Extends(then, E3, landed, E4)
    BY <1>11, <2>5, <2>7, <2>9
  <2>11. PICK E5 : Laid(else, E5, X2 \cup Waiting(else), T) /\ Extends(landed, E4, else, E5)
    BY <1>13, <1>20, <1>21, <2>10 DEF StmtFlow
  <2>12. Extends(then, E3, else, E5)
    BY <1>8, <1>11, <1>13, <2>10, <2>11, ExtendsTrans
  <2>13. Takes(else, E5, q, T)
    BY <1>8, <1>13, <2>5, <2>12, ExtendsKnown
  <2>14. Known(else, E5, NextPlace(else), T)
    BY <1>13, <2>11, LaidTypes
  <2>15. Laid(d, E5, X \cup Waiting(d), T) /\ Extends(else, E5, d, E5)
    <3>1. \A p \in {q} : Takes(else, E5, p, T)
      BY <2>13
    <3>2. PICK Y : Y = X \cup Waiting(d)
      OBVIOUS
    <3>3. PICK Z : Z = X2 \cup Waiting(else)
      OBVIOUS
    <3>4. Z \subseteq Y \cup {q}
      BY <1>22, <2>8, <3>2, <3>3
    <3>5. Laid(else, E5, Z, T)
      BY <2>11, <3>3
    <3>6. Laid(d, E5, Y, T) /\ Extends(else, E5, d, E5)
      BY <1>13, <1>14, <1>15, <2>14, <3>1, <3>4, <3>5, PatchLaid, SMTT(30)
    <3> QED
      BY <3>2, <3>6
  <2>16. Extends(c, E, d, E5)
    <3>1. Extends(c, E, then, E3)
      BY <1>3, <1>8, <2>1, <2>6, ExtendsTrans
    <3>2. Extends(c, E, else, E5)
      BY <1>8, <1>13, <2>12, <3>1, ExtendsTrans
    <3> QED
      BY <1>13, <1>16, <2>15, <3>2, ExtendsTrans
  <2> QED
    BY <2>15, <2>16
<1>25. StmtFlow(c, d)
  BY <1>16, <1>17, <1>22, <1>23, <1>24 DEF StmtFlow
<1>26. d = CompileIf(visit, s, c)
  BY <1>1, <1>2, <1>4, <1>6, <1>9, <1>10, <1>12, <1>14, Zenon DEF CompileIf, PatchJump
<1> QED
  BY <1>25, <1>26

-----------------------------------------------------------------------------
(* Loops.                                                                  *)

\* What comes back from a body: the scope it was given is still innermost.
LEMMA InnerIs ==
    ASSUME NEW c \in Compiler, NEW scope \in {LoopScope, SwitchScope},
           NEW p, p = PushScope(c, scope), NEW b \in Compiler, Shape(p, b)
    PROVE  /\ Len(b.scopes) = Len(c.scopes) + 1 /\ Len(b.scopes) # 0
           /\ Len(b.scopes) \in 1 .. Len(b.scopes)
           /\ InnerScope(b) = b.scopes[Len(b.scopes)]
           /\ InnerScope(b).kind = scope.kind
           /\ Total(b) = Total(c) + scope.slots
<1>1. /\ p \in Compiler /\ Len(p.scopes) = Len(c.scopes) + 1
      /\ p.scopes[Len(c.scopes) + 1] = scope
      /\ Total(p) = Total(c) + scope.slots
  BY PushLaid
<1>2. Len(c.scopes) \in Nat
  BY ScopeLengths
<1>3. Len(b.scopes) = Len(c.scopes) + 1
  BY <1>1 DEF Shape
<1>4. InnerScope(b) = b.scopes[Len(b.scopes)]
  BY DEF InnerScope
<1>5. InnerScope(b).kind = scope.kind
  <2>1. PICK n \in 1 .. Len(p.scopes) : n = Len(c.scopes) + 1
    <3>1. Len(c.scopes) + 1 \in 1 .. Len(c.scopes) + 1
      BY <1>2
    <3> QED
      BY <1>1, <3>1, Zenon
  <2>2. b.scopes[n].kind = p.scopes[n].kind
    BY DEF Shape
  <2> QED
    BY <1>1, <1>3, <1>4, <2>1, <2>2
<1>6. Total(b) = Total(c) + scope.slots
  BY <1>1, ShapeHeld
<1> QED
  BY <1>2, <1>3, <1>4, <1>5, <1>6

\* The innermost scope is left.
Popped(c, d) ==
    /\ Len(d.scopes) = Len(c.scopes) - 1
    /\ \A n \in 1 .. Len(d.scopes) : d.scopes[n] = c.scopes[n]

LEMMA ShapeAround ==
    ASSUME NEW c \in Compiler, NEW scope \in {LoopScope, SwitchScope},
           NEW p, p = PushScope(c, scope), NEW b \in Compiler, Shape(p, b),
           NEW d \in Compiler, Popped(b, d)
    PROVE  Shape(c, d)
<1>1. /\ Len(p.scopes) = Len(c.scopes) + 1
      /\ \A n \in 1 .. Len(c.scopes) : p.scopes[n] = c.scopes[n]
  BY PushLaid, ZenonT(60)
<1>2. Len(c.scopes) \in Nat
  BY ScopeLengths
<1>3. Len(b.scopes) = Len(c.scopes) + 1
  BY <1>1 DEF Shape
<1>4. Len(d.scopes) = Len(c.scopes)
  BY <1>2, <1>3 DEF Popped
<1>5. ASSUME NEW n \in 1 .. Len(c.scopes)
      PROVE  /\ d.scopes[n].kind = c.scopes[n].kind
             /\ d.scopes[n].slots = c.scopes[n].slots
  <2>1. n \in 1 .. Len(p.scopes)
    BY <1>1, <1>2
  <2>2. /\ b.scopes[n].kind = p.scopes[n].kind
        /\ b.scopes[n].slots = p.scopes[n].slots
    BY <2>1 DEF Shape
  <2>3. d.scopes[n] = b.scopes[n] /\ p.scopes[n] = c.scopes[n]
    BY <1>1, <1>4 DEF Popped
  <2> QED
    BY <2>2, <2>3
<1> QED
  BY <1>4, <1>5 DEF Shape

LEMMA ContinuesLaid ==
    ASSUME NEW c \in Compiler, Len(c.scopes) # 0, NEW target \in Int,
           NEW d, d = PatchContinues(c, target)
    PROVE  /\ d \in Compiler /\ KeepsScopes(c, d)
           /\ \A E, X, Y, t :
                 /\ Laid(c, E, X, t) /\ Known(c, E, target, Total(c))
                 /\ X \subseteq Y \cup Range(InnerScope(c).continueJumps)
                 => Laid(d, E, Y, t) /\ Extends(c, E, d, E)
<1>1. PICK P : P = Range(InnerScope(c).continueJumps)
  OBVIOUS
<1>2. d = PatchJumps(c, P, target)
  BY <1>1 DEF PatchContinues
<1>3. d \in Compiler /\ KeepsScopes(c, d)
  BY <1>2, PatchIs
<1>4. ASSUME NEW E, NEW X, NEW Y, NEW t, Laid(c, E, X, t),
             Known(c, E, target, Total(c)), X \subseteq Y \cup P
      PROVE  Laid(d, E, Y, t) /\ Extends(c, E, d, E)
  <2>1. PICK n \in 1 .. Len(c.scopes) : n = Len(c.scopes)
    BY ScopeLengths
  <2>2. WaitsIn(c, E, n)
    BY <1>4 DEF Laid, Waits
  <2>3. \A p \in P : Takes(c, E, p, Total(c))
    BY <1>1, <2>1, <2>2 DEF WaitsIn, Awaited, Total, InnerScope
  <2> QED
    BY <1>2, <1>4, <2>3, PatchLaid
<1> QED
  BY <1>1, <1>3, <1>4

LEMMA BreaksLaid ==
    ASSUME NEW c \in Compiler, Len(c.scopes) # 0, NEW d, d = PatchBreaks(c)
    PROVE  /\ d \in Compiler /\ KeepsScopes(c, d)
           /\ \A E, X, Y :
                 /\ Laid(c, E, X, Total(c))
                 /\ X \subseteq Y \cup Range(InnerScope(c).breakJumps)
                 => Laid(d, E, Y, Total(c)) /\ Extends(c, E, d, E)
<1>1. PICK P : P = Range(InnerScope(c).breakJumps)
  OBVIOUS
<1>2. d = PatchJumps(c, P, NextPlace(c)) /\ NextPlace(c) \in Int
  BY <1>1, CompilerIs DEF PatchBreaks
<1>3. d \in Compiler /\ KeepsScopes(c, d)
  BY <1>2, PatchIs
<1>4. ASSUME NEW E, NEW X, NEW Y, Laid(c, E, X, Total(c)), X \subseteq Y \cup P
      PROVE  Laid(d, E, Y, Total(c)) /\ Extends(c, E, d, E)
  <2>1. PICK n \in 1 .. Len(c.scopes) : n = Len(c.scopes)
    BY ScopeLengths
  <2>2. WaitsIn(c, E, n)
    BY <1>4 DEF Laid, Waits
  <2>3. \A p \in P : Takes(c, E, p, Total(c))
    BY <1>1, <2>1, <2>2 DEF WaitsIn, Awaited, Total, InnerScope
  <2>4. Known(c, E, NextPlace(c), Total(c))
    BY <1>4, LaidTypes
  <2> QED
    BY <1>2, <1>4, <2>3, <2>4, PatchLaid
<1> QED
  BY <1>1, <1>3, <1>4

\* The end of a loop whose sunod jumps have their target.
LEMMA CloseLaid ==
    ASSUME NEW c \in Compiler, Len(c.scopes) # 0, NEW s, s.loc \in Nat, NEW x,
           NEW P, P = Range(InnerScope(c).continueJumps),
           NEW d, d = CloseLoop(s, c, x)
    PROVE  /\ d \in Compiler /\ Popped(c, d)
           /\ \A E, X, Y :
                 /\ Laid(c, E, Y, Total(c) + 1) /\ Takes(c, E, x, Total(c) + 1)
                 /\ Y \subseteq (X \cup {x}) \cup (Waiting(c) \ P)
                 => \E F : Laid(d, F, X \cup Waiting(d), Total(c)) /\ Extends(c, E, d, F)
<1>1. PICK b : b = LandExit(c, x, s.loc)
  OBVIOUS
<1>2. /\ b \in Compiler /\ KeepsScopes(c, b)
      /\ \A E, X, Y, t :
            /\ t \in Nat /\ Laid(c, E, X, t + 1) /\ Takes(c, E, x, t + 1)
            /\ X \subseteq Y \cup {x}
            => \E F : Laid(b, F, Y, t) /\ Extends(c, E, b, F)
  BY <1>1, LandExitLaid
<1>3. b.scopes = c.scopes /\ Total(b) = Total(c) /\ Waiting(b) = Waiting(c)
      /\ InnerScope(b) = InnerScope(c)
  BY <1>2 DEF KeepsScopes, Total, Waiting, InnerScope
<1>4. PICK e : e = PatchBreaks(b)
  OBVIOUS
<1>5. /\ e \in Compiler /\ KeepsScopes(b, e)
      /\ \A E, X, Y :
            /\ Laid(b, E, X, Total(b))
            /\ X \subseteq Y \cup Range(InnerScope(b).breakJumps)
            => Laid(e, E, Y, Total(b)) /\ Extends(b, E, e, E)
  BY <1>2, <1>3, <1>4, BreaksLaid
<1>6. e.scopes = c.scopes /\ Waiting(e) = Waiting(c) /\ InnerScope(e) = InnerScope(c)
  BY <1>3, <1>5 DEF KeepsScopes, Waiting, InnerScope
<1>7. d = PopScope(e)
  BY <1>1, <1>4 DEF CloseLoop
<1>8. /\ d \in Compiler /\ Len(d.scopes) = Len(e.scopes) - 1
      /\ \A n \in 1 .. Len(d.scopes) : d.scopes[n] = e.scopes[n]
      /\ Waiting(e) \subseteq Waiting(d) \cup Awaited(InnerScope(e))
      /\ \A E, X, t : Laid(e, E, X, t) => Laid(d, E, X, t) /\ Extends(e, E, d, E)
  BY <1>5, <1>6, <1>7, PopLaid
<1>10. PICK B : B = Range(InnerScope(c).breakJumps)
  OBVIOUS
<1>11. Waiting(c) \subseteq Waiting(d) \cup (B \cup P)
  BY <1>6, <1>8, <1>10 DEF Awaited
<1>12. ASSUME NEW E, NEW X, NEW Y, Laid(c, E, Y, Total(c) + 1),
              Takes(c, E, x, Total(c) + 1), Y \subseteq (X \cup {x}) \cup (Waiting(c) \ P)
       PROVE  \E F : Laid(d, F, X \cup Waiting(d), Total(c)) /\ Extends(c, E, d, F)
  <2>1. PICK Z : Z = X \cup (Waiting(c) \ P)
    OBVIOUS
  <2>2. Y \subseteq Z \cup {x} /\ Total(c) \in Nat
    BY <1>12, <2>1, ScopeLengths
  <2>3. PICK F : Laid(b, F, Z, Total(c)) /\ Extends(c, E, b, F)
    BY <1>2, <1>12, <2>2
  <2>4. PICK U : U = X \cup Waiting(d)
    OBVIOUS
  <2>5. Z \subseteq U \cup B
    BY <1>11, <2>1, <2>4
  <2>6. Laid(e, F, U, Total(c)) /\ Extends(b, F, e, F)
    BY <1>3, <1>5, <1>10, <2>3, <2>5
  <2>7. Laid(d, F, U, Total(c)) /\ Extends(e, F, d, F)
    BY <1>8, <2>6
  <2>8. Extends(c, E, d, F)
    <3>1. Extends(c, E, e, F)
      BY <1>2, <1>5, <2>3, <2>6, ExtendsTrans
    <3> QED
      BY <1>5, <1>8, <2>7, <3>1, ExtendsTrans
  <2> QED
    BY <2>4, <2>7, <2>8
<1>13. Popped(c, d)
  BY <1>6, <1>8 DEF Popped
<1> QED
  BY <1>8, <1>12, <1>13

LEMMA BodyFlow ==
    ASSUME NEW S, NEW visit, StmtsFlow(visit, S), NEW b \in S, NEW c \in Compiler,
           NEW p, p = PushScope(c, LoopScope), NEW d, d = visit[b][p]
    PROVE  /\ p \in Compiler /\ d \in Compiler /\ StmtFlow(p, d) /\ Shape(p, d)
           /\ Waiting(p) = Waiting(c) /\ Total(p) = Total(c) /\ Total(d) = Total(c)
           /\ Len(d.scopes) # 0 /\ InnerScope(d).kind = "Loop"
           /\ \A E, X, t : Laid(c, E, X, t) => Laid(p, E, X, t) /\ Extends(c, E, p, E)
<1>1. /\ p \in Compiler /\ Waiting(p) = Waiting(c)
      /\ Total(p) = Total(c) + LoopScope.slots
      /\ \A E, X, t : Laid(c, E, X, t) => Laid(p, E, X, t) /\ Extends(c, E, p, E)
  BY PushLaid
<1>2. StmtFlow(p, d)
  BY <1>1 DEF StmtsFlow
<1>3. d \in Compiler /\ Shape(p, d)
  BY <1>2 DEF StmtFlow
<1>4. Len(d.scopes) # 0 /\ InnerScope(d).kind = LoopScope.kind
  BY <1>3, InnerIs
<1>5. LoopScope.slots = 0 /\ LoopScope.kind = "Loop"
  BY DEF LoopScope
<1>6. Total(p) = Total(c)
  BY <1>1, <1>5, ScopeLengths
<1>7. Total(d) = Total(c)
  BY <1>1, <1>3, <1>6, ShapeHeld
<1> QED
  BY <1>1, <1>2, <1>3, <1>4, <1>5, <1>6, <1>7

LEMMA WhileFlow ==
    ASSUME NEW S, NEW visit, StmtsFlow(visit, S), NEW c \in Compiler,
           NEW s, s.condition \in Expr, s.loc \in Nat, s.body \in S
    PROVE  StmtFlow(c, CompileWhile(visit, s, c))
<1>1. PICK start : start = NextPlace(c)
  OBVIOUS
<1>2. start \in Int
  BY <1>1, CompilerIs
<1>3. PICK cond : cond = CompileCondition(s, c)
  OBVIOUS
<1>4. PICK x : x = ExitJump(cond)
  OBVIOUS
<1>5. /\ cond \in Compiler /\ KeepsScopes(c, cond)
      /\ \A E, X, t : Laid(c, E, X, t) =>
            \E F : /\ Laid(cond, F, X \cup {x}, t) /\ Extends(c, E, cond, F)
                   /\ Takes(cond, F, x, t + 1)
  BY <1>3, <1>4, ConditionLaid
<1>6. PICK p : p = PushScope(cond, LoopScope)
  OBVIOUS
<1>7. PICK body : body = visit[s.body][p]
  OBVIOUS
<1>8. /\ p \in Compiler /\ body \in Compiler /\ StmtFlow(p, body) /\ Shape(p, body)
      /\ Waiting(p) = Waiting(cond) /\ Total(p) = Total(cond)
      /\ Total(body) = Total(cond) /\ Len(body.scopes) # 0
      /\ \A E, X, t : Laid(cond, E, X, t) => Laid(p, E, X, t) /\ Extends(cond, E, p, E)
  BY <1>5, <1>6, <1>7, BodyFlow
<1>9. PICK cont : cont = PatchContinues(body, start)
  OBVIOUS
<1>10. PICK P : P = Range(InnerScope(body).continueJumps)
  OBVIOUS
<1>11. /\ cont \in Compiler /\ KeepsScopes(body, cont)
       /\ \A E, X, Y, t :
             /\ Laid(body, E, X, t) /\ Known(body, E, start, Total(body))
             /\ X \subseteq Y \cup P
             => Laid(cont, E, Y, t) /\ Extends(body, E, cont, E)
  BY <1>2, <1>8, <1>9, <1>10, ContinuesLaid
<1>12. PICK back : back = Emit(cont, "OP_JUMP", start, s.loc)
  OBVIOUS
<1>13. /\ back \in Compiler /\ KeepsScopes(cont, back)
       /\ \A E, X, t, u :
             Laid(cont, E, X, t) /\ Known(cont, E, start, t) /\ u \in Nat
             => \E F : Laid(back, F, X, u) /\ Extends(cont, E, back, F)
  BY <1>2, <1>11, <1>12, BackLaid
<1>14. /\ back.scopes = body.scopes /\ Waiting(back) = Waiting(body)
       /\ Total(back) = Total(body) /\ InnerScope(back) = InnerScope(body)
  BY <1>11, <1>13 DEF KeepsScopes, Waiting, Total, InnerScope
<1>15. PICK d : d = CloseLoop(s, back, x)
  OBVIOUS
<1>16. /\ d \in Compiler /\ Popped(back, d)
       /\ \A E, X, Y :
             /\ Laid(back, E, Y, Total(back) + 1) /\ Takes(back, E, x, Total(back) + 1)
             /\ Y \subseteq (X \cup {x}) \cup (Waiting(back) \ P)
             => \E F : Laid(d, F, X \cup Waiting(d), Total(back)) /\ Extends(back, E, d, F)
  <2>1. Len(back.scopes) # 0 /\ P = Range(InnerScope(back).continueJumps)
    BY <1>8, <1>10, <1>14
  <2>2. back \in Compiler
    BY <1>13
  <2>3. s.loc \in Nat
    OBVIOUS
  <2>4. d \in Compiler /\ Popped(back, d)
    BY <1>15, <2>1, <2>2, <2>3, CloseLaid
  <2>5. \A E, X, Y :
            /\ Laid(back, E, Y, Total(back) + 1) /\ Takes(back, E, x, Total(back) + 1)
            /\ Y \subseteq (X \cup {x}) \cup (Waiting(back) \ P)
            => \E F : Laid(d, F, X \cup Waiting(d), Total(back)) /\ Extends(back, E, d, F)
    BY <1>15, <2>1, <2>2, <2>3, CloseLaid, Zenon
  <2> QED
    BY <2>4, <2>5
<1>17. PICK T \in Nat : T = Total(c)
  BY ScopeLengths
<1>18. Waiting(cond) = Waiting(c) /\ Total(cond) = T /\ Shape(c, cond)
  BY <1>5, <1>17, ScopesKept
<1>19. Shape(c, d) /\ Total(d) = T
  <2>1. Shape(cond, d)
    <3>1. Popped(body, d)
      BY <1>14, <1>16 DEF Popped
    <3> QED
      BY <1>5, <1>6, <1>8, <1>16, <3>1, ShapeAround
  <2>2. Shape(c, d)
    BY <1>18, <2>1, ShapeTrans
  <2> QED
    BY <1>16, <1>17, <2>2, ShapeHeld
<1>20. ASSUME NEW E, NEW X, Laid(c, E, X \cup Waiting(c), T)
       PROVE  \E F : Laid(d, F, X \cup Waiting(d), T) /\ Extends(c, E, d, F)
  <2>1. PICK E1 : /\ Laid(cond, E1, (X \cup Waiting(c)) \cup {x}, T)
                  /\ Extends(c, E, cond, E1) /\ Takes(cond, E1, x, T + 1)
    BY <1>5, <1>20
  <2>2. PICK X1 : X1 = X \cup {x}
    OBVIOUS
  <2>3. (X \cup Waiting(c)) \cup {x} = X1 \cup Waiting(p)
    BY <1>8, <1>18, <2>2
  <2>4. Laid(p, E1, X1 \cup Waiting(p), T) /\ Extends(cond, E1, p, E1)
    BY <1>8, <2>1, <2>3
  <2>5. PICK E2 : Laid(body, E2, X1 \cup Waiting(body), T) /\ Extends(p, E1, body, E2)
    BY <1>8, <1>18, <2>4 DEF StmtFlow
  <2>6. Extends(cond, E1, body, E2)
    BY <1>5, <1>8, <2>4, <2>5, ExtendsTrans
  <2>7. Extends(c, E, body, E2)
    BY <1>5, <1>8, <2>1, <2>6, ExtendsTrans
  <2>8. Known(body, E2, start, T)
    BY <1>1, <1>8, <1>20, <2>7, LaidTypes, ExtendsKnown
  <2>9. PICK Y : Y = X1 \cup (Waiting(body) \ P)
    OBVIOUS
  <2>10. Laid(cont, E2, Y, T) /\ Extends(body, E2, cont, E2)
    <3>1. PICK Z : Z = X1 \cup Waiting(body)
      OBVIOUS
    <3>2. Z \subseteq Y \cup P
      BY <2>9, <3>1
    <3>3. Laid(body, E2, Z, T) /\ Known(body, E2, start, Total(body))
      BY <1>8, <1>18, <2>5, <2>8, <3>1
    <3> QED
      BY <1>11, <3>2, <3>3
  <2>11. Known(cont, E2, start, T)
    BY <1>8, <1>11, <2>8, <2>10, ExtendsKnown
  <2>12. PICK E3 : Laid(back, E3, Y, T + 1) /\ Extends(cont, E2, back, E3)
    <3>1. T + 1 \in Nat
      OBVIOUS
    <3> QED
      BY <1>13, <2>10, <2>11, <3>1
  <2>13. Extends(body, E2, back, E3)
    BY <1>8, <1>11, <1>13, <2>10, <2>12, ExtendsTrans
  <2>14. Takes(back, E3, x, T + 1)
    <3>1. Extends(cond, E1, back, E3)
      BY <1>5, <1>8, <1>13, <2>6, <2>13, ExtendsTrans
    <3> QED
      BY <1>5, <1>13, <2>1, <3>1, ExtendsKnown
  <2>15. Y \subseteq (X \cup {x}) \cup (Waiting(back) \ P)
    BY <1>14, <2>2, <2>9
  <2>16. PICK F : Laid(d, F, X \cup Waiting(d), T) /\ Extends(back, E3, d, F)
    <3>1. Total(back) = T
      BY <1>8, <1>14, <1>18
    <3> QED
      BY <1>16, <2>12, <2>14, <2>15, <3>1
  <2>17. Extends(c, E, d, F)
    <3>1. Extends(c, E, back, E3)
      BY <1>8, <1>13, <2>7, <2>13, ExtendsTrans
    <3> QED
      BY <1>13, <1>16, <2>16, <3>1, ExtendsTrans
  <2> QED
    BY <2>16, <2>17
<1>21. StmtFlow(c, d)
  BY <1>16, <1>17, <1>19, <1>20 DEF StmtFlow
<1>22. d = CompileWhile(visit, s, c)
  BY <1>1, <1>3, <1>4, <1>6, <1>7, <1>9, <1>12, <1>15, Zenon DEF CompileWhile
<1> QED
  BY <1>21, <1>22

LEMMA DoWhileFlow ==
    ASSUME NEW S, NEW visit, StmtsFlow(visit, S), NEW c \in Compiler,
           NEW s, s.condition \in Expr, s.loc \in Nat, s.body \in S
    PROVE  StmtFlow(c, CompileDoWhile(visit, s, c))
<1>1. PICK start : start = NextPlace(c)
  OBVIOUS
<1>2. start \in Int
  BY <1>1, CompilerIs
<1>3. PICK p : p = PushScope(c, LoopScope)
  OBVIOUS
<1>4. PICK body : body = visit[s.body][p]
  OBVIOUS
<1>5. /\ p \in Compiler /\ body \in Compiler /\ StmtFlow(p, body) /\ Shape(p, body)
      /\ Waiting(p) = Waiting(c) /\ Total(p) = Total(c)
      /\ Total(body) = Total(c) /\ Len(body.scopes) # 0
      /\ \A E, X, t : Laid(c, E, X, t) => Laid(p, E, X, t) /\ Extends(c, E, p, E)
  BY <1>3, <1>4, BodyFlow
<1>6. PICK cont : cont = PatchContinues(body, NextPlace(body))
  OBVIOUS
<1>7. PICK P : P = Range(InnerScope(body).continueJumps)
  OBVIOUS
<1>8. /\ cont \in Compiler /\ KeepsScopes(body, cont)
      /\ \A E, X, Y, t :
            /\ Laid(body, E, X, t) /\ Known(body, E, NextPlace(body), Total(body))
            /\ X \subseteq Y \cup P
            => Laid(cont, E, Y, t) /\ Extends(body, E, cont, E)
  <2>1. NextPlace(body) \in Int
    BY <1>5, CompilerIs
  <2> QED
    BY <1>5, <1>6, <1>7, <2>1, ContinuesLaid
<1>9. PICK cond : cond = CompileCondition(s, cont)
  OBVIOUS
<1>10. PICK x : x = ExitJump(cond)
  OBVIOUS
<1>11. /\ cond \in Compiler /\ KeepsScopes(cont, cond)
       /\ \A E, X, t : Laid(cont, E, X, t) =>
             \E F : /\ Laid(cond, F, X \cup {x}, t) /\ Extends(cont, E, cond, F)
                    /\ Takes(cond, F, x, t + 1)
  BY <1>8, <1>9, <1>10, ConditionLaid
<1>12. PICK back : back = Emit(cond, "OP_JUMP", start, s.loc)
  OBVIOUS
<1>13. /\ back \in Compiler /\ KeepsScopes(cond, back)
       /\ \A E, X, t, u :
             Laid(cond, E, X, t) /\ Known(cond, E, start, t) /\ u \in Nat
             => \E F : Laid(back, F, X, u) /\ Extends(cond, E, back, F)
  BY <1>2, <1>11, <1>12, BackLaid
<1>14. /\ back.scopes = body.scopes /\ Waiting(back) = Waiting(body)
       /\ Total(back) = Total(body) /\ InnerScope(back) = InnerScope(body)
  BY <1>8, <1>11, <1>13 DEF KeepsScopes, Waiting, Total, InnerScope
<1>15. PICK d : d = CloseLoop(s, back, x)
  OBVIOUS
<1>16. /\ d \in Compiler /\ Popped(back, d)
       /\ \A E, X, Y :
             /\ Laid(back, E, Y, Total(back) + 1) /\ Takes(back, E, x, Total(back) + 1)
             /\ Y \subseteq (X \cup {x}) \cup (Waiting(back) \ P)
             => \E F : Laid(d, F, X \cup Waiting(d), Total(back)) /\ Extends(back, E, d, F)
  <2>1. Len(back.scopes) # 0 /\ P = Range(InnerScope(back).continueJumps)
    BY <1>5, <1>7, <1>14
  <2>2. back \in Compiler
    BY <1>13
  <2>3. s.loc \in Nat
    OBVIOUS
  <2>4. d \in Compiler /\ Popped(back, d)
    BY <1>15, <2>1, <2>2, <2>3, CloseLaid
  <2>5. \A E, X, Y :
            /\ Laid(back, E, Y, Total(back) + 1) /\ Takes(back, E, x, Total(back) + 1)
            /\ Y \subseteq (X \cup {x}) \cup (Waiting(back) \ P)
            => \E F : Laid(d, F, X \cup Waiting(d), Total(back)) /\ Extends(back, E, d, F)
    BY <1>15, <2>1, <2>2, <2>3, CloseLaid, Zenon
  <2> QED
    BY <2>4, <2>5
<1>17. PICK T \in Nat : T = Total(c)
  BY ScopeLengths
<1>18. Shape(c, d) /\ Total(d) = T
  <2>1. Shape(c, d)
    <3>1. Popped(body, d)
      BY <1>14, <1>16 DEF Popped
    <3> QED
      BY <1>3, <1>5, <1>16, <3>1, ShapeAround
  <2> QED
    BY <1>16, <1>17, <2>1, ShapeHeld
<1>19. ASSUME NEW E, NEW X, Laid(c, E, X \cup Waiting(c), T)
       PROVE  \E F : Laid(d, F, X \cup Waiting(d), T) /\ Extends(c, E, d, F)
  <2>1. Laid(p, E, X \cup Waiting(p), T) /\ Extends(c, E, p, E)
    BY <1>5, <1>19
  <2>2. PICK E2 : Laid(body, E2, X \cup Waiting(body), T) /\ Extends(p, E, body, E2)
    BY <1>5, <1>17, <2>1 DEF StmtFlow
  <2>3. Extends(c, E, body, E2)
    BY <1>5, <2>1, <2>2, ExtendsTrans
  <2>4. Known(body, E2, start, T)
    BY <1>1, <1>5, <1>19, <2>3, LaidTypes, ExtendsKnown
  <2>5. PICK Y : Y = X \cup (Waiting(body) \ P)
    OBVIOUS
  <2>6. Laid(cont, E2, Y, T) /\ Extends(body, E2, cont, E2)
    <3>1. PICK Z : Z = X \cup Waiting(body)
      OBVIOUS
    <3>2. Z \subseteq Y \cup P
      BY <2>5, <3>1
    <3>3. Laid(body, E2, Z, T) /\ Known(body, E2, NextPlace(body), Total(body))
      BY <1>5, <1>17, <2>2, <3>1, LaidTypes
    <3> QED
      BY <1>8, <3>2, <3>3
  <2>7. Extends(c, E, cont, E2) /\ Known(cont, E2, start, T)
    <3>1. Extends(c, E, cont, E2)
      BY <1>5, <1>8, <2>3, <2>6, ExtendsTrans
    <3>2. Known(cont, E2, start, T)
      BY <1>5, <1>8, <2>4, <2>6, ExtendsKnown
    <3> QED
      BY <3>1, <3>2
  <2>8. PICK E3 : /\ Laid(cond, E3, Y \cup {x}, T)
                  /\ Extends(cont, E2, cond, E3) /\ Takes(cond, E3, x, T + 1)
    BY <1>11, <2>6
  <2>9. Known(cond, E3, start, T)
    BY <1>8, <1>11, <2>7, <2>8, ExtendsKnown
  <2>10. PICK E4 : Laid(back, E4, Y \cup {x}, T + 1) /\ Extends(cond, E3, back, E4)
    <3>1. T + 1 \in Nat
      OBVIOUS
    <3> QED
      BY <1>13, <2>8, <2>9, <3>1
  <2>11. Takes(back, E4, x, T + 1)
    BY <1>11, <1>13, <2>8, <2>10, ExtendsKnown
  <2>12. Y \cup {x} \subseteq (X \cup {x}) \cup (Waiting(back) \ P)
    BY <1>14, <2>5
  <2>13. PICK F : Laid(d, F, X \cup Waiting(d), T) /\ Extends(back, E4, d, F)
    <3>1. Total(back) = T
      BY <1>5, <1>14, <1>17
    <3> QED
      BY <1>16, <2>10, <2>11, <2>12, <3>1
  <2>14. Extends(c, E, d, F)
    <3>1. Extends(c, E, cond, E3)
      BY <1>8, <1>11, <2>7, <2>8, ExtendsTrans
    <3>2. Extends(c, E, back, E4)
      BY <1>11, <1>13, <2>10, <3>1, ExtendsTrans
    <3> QED
      BY <1>13, <1>16, <2>13, <3>2, ExtendsTrans
  <2> QED
    BY <2>13, <2>14
<1>20. StmtFlow(c, d)
  BY <1>16, <1>17, <1>18, <1>19 DEF StmtFlow
<1>21. d = CompileDoWhile(visit, s, c)
  BY <1>1, <1>3, <1>4, <1>6, <1>9, <1>10, <1>12, <1>15, Zenon DEF CompileDoWhile
<1> QED
  BY <1>20, <1>21

\* The update comes before the body, which jumps back to it.
LEMMA ForFlow ==
    ASSUME NEW S, NEW visit, StmtsFlow(visit, S), NEW c \in Compiler,
           NEW s, s.condition \in Expr, s.loc \in Nat, s.init \in S, s.update \in S,
           s.body \in S
    PROVE  StmtFlow(c, CompileFor(visit, s, c))
<1>1. PICK init : init = visit[s.init][c]
  OBVIOUS
<1>2. StmtFlow(c, init) /\ init \in Compiler /\ Shape(c, init)
  BY <1>1 DEF StmtsFlow, StmtFlow
<1>3. PICK condStart : condStart = NextPlace(init)
  OBVIOUS
<1>4. condStart \in Int
  BY <1>2, <1>3, CompilerIs
<1>5. PICK cond : cond = CompileCondition(s, init)
  OBVIOUS
<1>6. PICK x : x = ExitJump(cond)
  OBVIOUS
<1>7. /\ cond \in Compiler /\ KeepsScopes(init, cond)
      /\ \A E, X, t : Laid(init, E, X, t) =>
            \E F : /\ Laid(cond, F, X \cup {x}, t) /\ Extends(init, E, cond, F)
                   /\ Takes(cond, F, x, t + 1)
  BY <1>2, <1>5, <1>6, ConditionLaid
<1>8. PICK toBody : toBody = EmitForward(cond, "OP_JUMP", s.loc)
  OBVIOUS
<1> DEFINE j == NextPlace(cond)
<1>9. "OP_JUMP" \in JumpOps /\ Pops("OP_JUMP") = 0
  BY OpTable DEF JumpOps
<1>10. /\ toBody \in Compiler /\ KeepsScopes(cond, toBody) /\ NextPlace(toBody) = j + 1
       /\ \A E, X, t, u :
             /\ Laid(cond, E, X, t) /\ t >= 0
             /\ u \in Nat /\ ("OP_JUMP" # "OP_JUMP" => u = t)
             => \E F : /\ Laid(toBody, F, X \cup {j}, u) /\ Extends(cond, E, toBody, F)
                       /\ Takes(toBody, F, j, t)
  BY <1>7, <1>8, <1>9, ForwardLaid
<1>11. PICK updateStart : updateStart = NextPlace(toBody)
  OBVIOUS
<1>12. updateStart \in Int /\ j = updateStart - 1
  BY <1>7, <1>10, <1>11, CompilerIs
<1> HIDE DEF j
<1>13. PICK p : p = PushScope(toBody, LoopScope)
  OBVIOUS
<1>14. PICK update : update = visit[s.update][p]
  OBVIOUS
<1>15. /\ p \in Compiler /\ update \in Compiler /\ StmtFlow(p, update) /\ Shape(p, update)
       /\ Waiting(p) = Waiting(toBody) /\ Total(p) = Total(toBody)
       /\ Total(update) = Total(toBody) /\ Len(update.scopes) # 0
       /\ \A E, X, t : Laid(toBody, E, X, t) => Laid(p, E, X, t) /\ Extends(toBody, E, p, E)
  BY <1>10, <1>13, <1>14, BodyFlow
<1>16. PICK again : again = Emit(update, "OP_JUMP", condStart, s.loc)
  OBVIOUS
<1>17. /\ again \in Compiler /\ KeepsScopes(update, again)
       /\ \A E, X, t, u :
             Laid(update, E, X, t) /\ Known(update, E, condStart, t) /\ u \in Nat
             => \E F : Laid(again, F, X, u) /\ Extends(update, E, again, F)
  BY <1>4, <1>15, <1>16, BackLaid
<1>18. PICK entered : entered = PatchJumps(again, {j}, NextPlace(again))
  OBVIOUS
<1>19. NextPlace(again) \in Int
  BY <1>17, CompilerIs
<1>20. entered \in Compiler /\ KeepsScopes(again, entered)
  BY <1>17, <1>18, <1>19, PatchIs
<1>21. /\ Shape(update, entered) /\ Waiting(entered) = Waiting(update)
       /\ Total(entered) = Total(update)
  <2>1. KeepsScopes(update, entered)
    BY <1>17, <1>20, ScopesKeptTrans
  <2> QED
    BY <2>1, ScopesKept
<1>22. PICK b : b = visit[s.body][entered]
  OBVIOUS
<1>23. StmtFlow(entered, b) /\ b \in Compiler /\ Shape(entered, b)
  BY <1>20, <1>22 DEF StmtsFlow, StmtFlow
<1>24. /\ Shape(p, b) /\ Total(b) = Total(toBody) /\ Len(b.scopes) # 0
  <2>1. Shape(p, b)
    BY <1>15, <1>21, <1>23, ShapeTrans
  <2>2. Total(b) = Total(p)
    BY <1>15, <1>23, <2>1, ShapeHeld
  <2>3. Len(b.scopes) # 0
    BY <1>10, <1>13, <1>23, <2>1, InnerIs
  <2> QED
    BY <1>15, <2>1, <2>2, <2>3
<1>25. PICK body : body = Emit(b, "OP_JUMP", updateStart, s.loc)
  OBVIOUS
<1>26. /\ body \in Compiler /\ KeepsScopes(b, body)
       /\ \A E, X, t, u :
             Laid(b, E, X, t) /\ Known(b, E, updateStart, t) /\ u \in Nat
             => \E F : Laid(body, F, X, u) /\ Extends(b, E, body, F)
  BY <1>12, <1>23, <1>25, BackLaid
<1>27. PICK back : back = PatchContinues(body, updateStart)
  OBVIOUS
<1>28. PICK P : P = Range(InnerScope(body).continueJumps)
  OBVIOUS
<1>29. body.scopes = b.scopes /\ Len(body.scopes) # 0
       /\ Waiting(body) = Waiting(b) /\ Total(body) = Total(b)
  BY <1>24, <1>26 DEF KeepsScopes, Waiting, Total
<1>30. /\ back \in Compiler /\ KeepsScopes(body, back)
       /\ \A E, X, Y, t :
             /\ Laid(body, E, X, t) /\ Known(body, E, updateStart, Total(body))
             /\ X \subseteq Y \cup P
             => Laid(back, E, Y, t) /\ Extends(body, E, back, E)
  BY <1>12, <1>26, <1>27, <1>28, <1>29, ContinuesLaid
<1>31. /\ back.scopes = b.scopes /\ Waiting(back) = Waiting(b)
       /\ Total(back) = Total(b) /\ InnerScope(back) = InnerScope(body)
  BY <1>29, <1>30 DEF KeepsScopes, Waiting, Total, InnerScope
<1>32. PICK d : d = CloseLoop(s, back, x)
  OBVIOUS
<1>33. /\ d \in Compiler /\ Popped(back, d)
       /\ \A E, X, Y :
             /\ Laid(back, E, Y, Total(back) + 1) /\ Takes(back, E, x, Total(back) + 1)
             /\ Y \subseteq (X \cup {x}) \cup (Waiting(back) \ P)
             => \E F : Laid(d, F, X \cup Waiting(d), Total(back)) /\ Extends(back, E, d, F)
  <2>1. Len(back.scopes) # 0 /\ P = Range(InnerScope(back).continueJumps)
    BY <1>24, <1>28, <1>31
  <2>2. back \in Compiler
    BY <1>30
  <2>3. s.loc \in Nat
    OBVIOUS
  <2>4. d \in Compiler /\ Popped(back, d)
    BY <1>32, <2>1, <2>2, <2>3, CloseLaid
  <2>5. \A E, X, Y :
            /\ Laid(back, E, Y, Total(back) + 1) /\ Takes(back, E, x, Total(back) + 1)
            /\ Y \subseteq (X \cup {x}) \cup (Waiting(back) \ P)
            => \E F : Laid(d, F, X \cup Waiting(d), Total(back)) /\ Extends(back, E, d, F)
    BY <1>32, <2>1, <2>2, <2>3, CloseLaid, Zenon
  <2> QED
    BY <2>4, <2>5
<1>34. PICK T \in Nat : T = Total(c)
  BY ScopeLengths
<1>35. Total(init) = T
  BY <1>2, <1>34, ShapeHeld
<1>36. /\ Waiting(cond) = Waiting(init) /\ Total(cond) = T /\ Shape(c, cond)
  BY <1>2, <1>7, <1>35, ScopesKept, ShapeTrans
<1>37. /\ Waiting(toBody) = Waiting(cond) /\ Total(toBody) = T /\ Shape(c, toBody)
  BY <1>10, <1>36, ScopesKept, ShapeTrans
<1>38. Shape(c, d) /\ Total(d) = T
  <2>1. Shape(toBody, d)
    <3>1. Popped(b, d)
      BY <1>31, <1>33 DEF Popped
    <3> QED
      BY <1>10, <1>13, <1>23, <1>24, <1>33, <3>1, ShapeAround
  <2>2. Shape(c, d)
    BY <1>37, <2>1, ShapeTrans
  <2> QED
    BY <1>33, <1>34, <2>2, ShapeHeld
<1>39. ASSUME NEW E, NEW X, Laid(c, E, X \cup Waiting(c), T)
       PROVE  \E F : Laid(d, F, X \cup Waiting(d), T) /\ Extends(c, E, d, F)
  <2>1. PICK E1 : Laid(init, E1, X \cup Waiting(init), T) /\ Extends(c, E, init, E1)
    BY <1>2, <1>34, <1>35, <1>39 DEF StmtFlow
  <2>2. PICK E2 : /\ Laid(cond, E2, (X \cup Waiting(init)) \cup {x}, T)
                  /\ Extends(init, E1, cond, E2) /\ Takes(cond, E2, x, T + 1)
    BY <1>7, <2>1
  <2>3. PICK E3 : /\ Laid(toBody, E3, ((X \cup Waiting(init)) \cup {x}) \cup {j}, T)
                  /\ Extends(cond, E2, toBody, E3) /\ Takes(toBody, E3, j, T)
    <3>1. T >= 0
      OBVIOUS
    <3> QED
      BY <1>10, <2>2, <3>1
  <2>4. PICK X1 : X1 = X \cup {x}
    OBVIOUS
  <2>5. PICK X2 : X2 = X1 \cup {j}
    OBVIOUS
  <2>6. ((X \cup Waiting(init)) \cup {x}) \cup {j} = X2 \cup Waiting(p)
    BY <1>15, <1>36, <1>37, <2>4, <2>5
  <2>7. Laid(p, E3, X2 \cup Waiting(p), T) /\ Extends(toBody, E3, p, E3)
    BY <1>15, <2>3, <2>6
  <2>8. PICK E4 : Laid(update, E4, X2 \cup Waiting(update), T) /\ Extends(p, E3, update, E4)
    BY <1>15, <1>37, <2>7 DEF StmtFlow
  <2>9. Extends(toBody, E3, update, E4)
    BY <1>10, <1>15, <2>7, <2>8, ExtendsTrans
  <2>10. Extends(init, E1, toBody, E3)
    BY <1>2, <1>7, <1>10, <2>2, <2>3, ExtendsTrans
  <2>11. Known(update, E4, condStart, T)
    <3>1. Extends(init, E1, update, E4)
      BY <1>2, <1>10, <1>15, <2>9, <2>10, ExtendsTrans
    <3>2. Known(init, E1, condStart, T)
      BY <1>2, <1>3, <2>1, LaidTypes
    <3> QED
      BY <1>2, <1>15, <3>1, <3>2, ExtendsKnown
  <2>12. PICK E5 : /\ Laid(again, E5, X2 \cup Waiting(update), T)
                   /\ Extends(update, E4, again, E5)
    BY <1>17, <2>8, <2>11
  <2>13. Extends(toBody, E3, again, E5)
    BY <1>10, <1>15, <1>17, <2>9, <2>12, ExtendsTrans
  <2>14. Takes(again, E5, j, T) /\ Known(again, E5, NextPlace(again), T)
    <3>1. Takes(again, E5, j, T)
      BY <1>10, <1>17, <2>3, <2>13, ExtendsKnown
    <3>2. Known(again, E5, NextPlace(again), T)
      BY <1>17, <2>12, LaidTypes
    <3> QED
      BY <3>1, <3>2
  <2>15. /\ Laid(entered, E5, X1 \cup Waiting(entered), T)
         /\ Extends(again, E5, entered, E5)
    <3>1. PICK Y : Y = X1 \cup Waiting(entered)
      OBVIOUS
    <3>2. PICK Z : Z = X2 \cup Waiting(update)
      OBVIOUS
    <3>3. Z \subseteq Y \cup {j}
      BY <1>21, <2>5, <3>1, <3>2
    <3>4. Laid(again, E5, Z, T) /\ \A q \in {j} : Takes(again, E5, q, T)
      BY <2>12, <2>14, <3>2
    <3>5. Laid(entered, E5, Y, T) /\ Extends(again, E5, entered, E5)
      BY <1>17, <1>18, <1>19, <2>14, <3>3, <3>4, PatchLaid
    <3> QED
      BY <3>1, <3>5
  <2>16. Extends(toBody, E3, entered, E5)
    BY <1>10, <1>17, <1>20, <2>13, <2>15, ExtendsTrans
  <2>17. PICK E6 : Laid(b, E6, X1 \cup Waiting(b), T) /\ Extends(entered, E5, b, E6)
    BY <1>15, <1>21, <1>23, <1>24, <1>37, <2>15 DEF StmtFlow
  <2>18. Extends(toBody, E3, b, E6)
    BY <1>10, <1>20, <1>23, <2>16, <2>17, ExtendsTrans
  <2>19. Known(b, E6, updateStart, T)
    <3>1. Known(toBody, E3, updateStart, T)
      BY <1>10, <1>11, <2>3, LaidTypes
    <3> QED
      BY <1>10, <1>23, <2>18, <3>1, ExtendsKnown
  <2>20. PICK E7 : Laid(body, E7, X1 \cup Waiting(b), T + 1) /\ Extends(b, E6, body, E7)
    <3>1. T + 1 \in Nat
      OBVIOUS
    <3> QED
      BY <1>26, <2>17, <2>19, <3>1
  <2>21. Known(body, E7, updateStart, Total(body))
    BY <1>23, <1>24, <1>26, <1>29, <1>37, <2>19, <2>20, ExtendsKnown
  <2>22. PICK Y : Y = X1 \cup (Waiting(b) \ P)
    OBVIOUS
  <2>23. Laid(back, E7, Y, T + 1) /\ Extends(body, E7, back, E7)
    <3>1. PICK Z : Z = X1 \cup Waiting(b)
      OBVIOUS
    <3>2. Z \subseteq Y \cup P /\ Laid(body, E7, Z, T + 1)
      BY <2>20, <2>22, <3>1
    <3> QED
      BY <1>30, <2>21, <3>2
  <2>24. Extends(toBody, E3, back, E7)
    <3>1. Extends(toBody, E3, body, E7)
      BY <1>10, <1>23, <1>26, <2>18, <2>20, ExtendsTrans
    <3> QED
      BY <1>10, <1>26, <1>30, <2>23, <3>1, ExtendsTrans
  <2>25. Takes(back, E7, x, T + 1)
    <3>1. Extends(cond, E2, back, E7)
      BY <1>7, <1>10, <1>30, <2>3, <2>24, ExtendsTrans
    <3> QED
      BY <1>7, <1>30, <2>2, <3>1, ExtendsKnown
  <2>26. Y \subseteq (X \cup {x}) \cup (Waiting(back) \ P)
    BY <1>31, <2>4, <2>22
  <2>27. PICK F : Laid(d, F, X \cup Waiting(d), T) /\ Extends(back, E7, d, F)
    <3>1. Total(back) = T
      BY <1>24, <1>31, <1>37
    <3> QED
      BY <1>33, <2>23, <2>25, <2>26, <3>1
  <2>28. Extends(c, E, d, F)
    <3>1. Extends(c, E, toBody, E3)
      BY <1>2, <1>10, <2>1, <2>10, ExtendsTrans
    <3>2. Extends(c, E, back, E7)
      BY <1>10, <1>30, <2>24, <3>1, ExtendsTrans
    <3> QED
      BY <1>30, <1>33, <2>27, <3>2, ExtendsTrans
  <2> QED
    BY <2>27, <2>28
<1>40. StmtFlow(c, d)
  BY <1>33, <1>34, <1>38, <1>39 DEF StmtFlow
<1>41. d = CompileFor(visit, s, c)
  <2>1. entered = PatchJump(again, updateStart - 1, NextPlace(again))
    BY <1>12, <1>18, Zenon DEF PatchJump
  <2> QED
    BY <1>1, <1>3, <1>5, <1>6, <1>8, <1>11, <1>13, <1>14, <1>16, <1>22, <1>25,
       <1>27, <1>32, <2>1, Zenon DEF CompileFor, ContinueTarget
<1> QED
  BY <1>40, <1>41

-----------------------------------------------------------------------------
(* pili.                                                                   *)

\* The subject is compared with a label: a truth value on top of it.
LEMMA TestFlow ==
    ASSUME NEW c \in Compiler, NEW v \in CInt, NEW loc \in Nat, NEW at \in Nat,
           NEW d, d = Emit(EmitInt(Emit(c, "OP_DUP", 0, loc), v, at), "OP_EQ", 0, loc)
    PROVE  Flow(c, d, 1, 2)
<1>1. PICK a : a = Emit(c, "OP_DUP", 0, loc)
  OBVIOUS
<1>2. PICK b : b = EmitInt(a, v, at)
  OBVIOUS
<1>3. Flow(c, a, 1, 2)
  <2>1. "OP_DUP" \in FreeOps /\ Pops("OP_DUP") = 1 /\ Pushes("OP_DUP") = 2
    BY OpTable DEF FreeOps
  <2> QED
    BY <1>1, <2>1, FreeFlow
<1>4. a \in Compiler
  BY <1>3 DEF Flow
<1>5. Flow(a, b, 0, 1)
  BY <1>2, <1>4, EmitIntFlow
<1>6. b \in Compiler
  BY <1>5 DEF Flow
<1>7. Flow(b, d, 2, 1)
  <2>1. "OP_EQ" \in FreeOps /\ Pops("OP_EQ") = 2 /\ Pushes("OP_EQ") = 1
    BY OpTable DEF FreeOps, BinaryOps, EqualOps
  <2> QED
    BY <1>1, <1>2, <1>6, <2>1, FreeFlow
<1>8. Flow(c, b, 1, 3)
  BY <1>3, <1>5, FlowTrans, 0 <= 2, 2 - 0 + 1 = 3
<1>9. 2 <= 3 /\ 3 - 2 + 1 = 2
  OBVIOUS
<1> QED
  BY <1>7, <1>8, <1>9, FlowTrans

\* A truth value is popped, with a jump where it is not popped yet.
LEMMA SkipLaid ==
    ASSUME NEW v \in Compiler, NEW loc \in Nat,
           NEW d, d = Emit(EmitForward(v, "OP_JUMP_IF_FALSE", loc), "OP_POP", 0, loc)
    PROVE  /\ d \in Compiler /\ KeepsScopes(v, d)
           /\ \A E, X, t : t \in Nat /\ Laid(v, E, X, t + 1) =>
                 \E F : /\ Laid(d, F, X \cup {NextPlace(v)}, t) /\ Extends(v, E, d, F)
                        /\ Takes(d, F, NextPlace(v), t + 1)
<1>3. PICK b : b = EmitForward(v, "OP_JUMP_IF_FALSE", loc)
  OBVIOUS
<1>4. /\ "OP_JUMP_IF_FALSE" \in JumpOps /\ "OP_JUMP_IF_FALSE" # "OP_JUMP"
      /\ Pops("OP_JUMP_IF_FALSE") = 1
  BY OpTable DEF JumpOps, BranchOps
<1>5. /\ b \in Compiler /\ KeepsScopes(v, b)
      /\ \A E, X, t, u :
            /\ Laid(v, E, X, t) /\ t >= Pops("OP_JUMP_IF_FALSE")
            /\ u \in Nat /\ ("OP_JUMP_IF_FALSE" # "OP_JUMP" => u = t)
            => \E F : /\ Laid(b, F, X \cup {NextPlace(v)}, u) /\ Extends(v, E, b, F)
                      /\ Takes(b, F, NextPlace(v), t)
  BY <1>3, <1>4, ForwardLaid
<1>6. d = Emit(b, "OP_POP", 0, loc)
  BY <1>3
<1>7. Flow(b, d, 1, 0)
  BY <1>5, <1>6, PopFlow
<1>8. d \in Compiler /\ KeepsScopes(b, d)
  BY <1>7 DEF Flow
<1>9. KeepsScopes(v, d)
  BY <1>5, <1>8, ScopesKeptTrans
<1>10. ASSUME NEW E, NEW X, NEW t \in Nat, Laid(v, E, X, t + 1)
       PROVE  \E F : /\ Laid(d, F, X \cup {NextPlace(v)}, t) /\ Extends(v, E, d, F)
                     /\ Takes(d, F, NextPlace(v), t + 1)
  <2>1. PICK u \in Nat : u = t + 1
    OBVIOUS
  <2>2. u >= 1 /\ u - 1 + 0 = t
    BY <2>1
  <2>3. PICK E2 : /\ Laid(b, E2, X \cup {NextPlace(v)}, u) /\ Extends(v, E, b, E2)
                  /\ Takes(b, E2, NextPlace(v), u)
    BY <1>4, <1>5, <1>10, <2>1, <2>2
  <2>4. PICK F : Laid(d, F, X \cup {NextPlace(v)}, t) /\ Extends(b, E2, d, F)
    BY <1>7, <2>2, <2>3 DEF Flow
  <2>5. Takes(d, F, NextPlace(v), u)
    BY <1>5, <1>8, <2>3, <2>4, ExtendsKnown
  <2>6. Extends(v, E, d, F)
    BY <1>5, <1>8, <2>3, <2>4, ExtendsTrans
  <2> QED
    BY <2>1, <2>4, <2>5, <2>6
<1> QED
  BY <1>8, <1>9, <1>10

LEMMA CaseFlow ==
    ASSUME NEW S, NEW visit, StmtsFlow(visit, S), NEW c \in Compiler,
           Len(c.scopes) # 0, Total(c) >= 1, NEW s, s.loc \in Nat,
           NEW case, case.value \in CInt, case.loc \in Nat, case.body \in Seq(S)
    PROVE  StmtFlow(c, CompileCase(visit, s, case, c))
<1>1. PICK test : test = Emit(EmitInt(Emit(c, "OP_DUP", 0, s.loc), case.value, case.loc),
                              "OP_EQ", 0, s.loc)
  OBVIOUS
<1>2. Flow(c, test, 1, 2)
  BY <1>1, TestFlow
<1>3. test \in Compiler /\ KeepsScopes(c, test)
  BY <1>2 DEF Flow
<1>4. PICK x : x = NextPlace(test)
  OBVIOUS
<1>5. PICK enter : enter = Emit(EmitForward(test, "OP_JUMP_IF_FALSE", case.loc),
                                "OP_POP", 0, case.loc)
  OBVIOUS
<1>6. /\ enter \in Compiler /\ KeepsScopes(test, enter)
      /\ \A E, X, t : t \in Nat /\ Laid(test, E, X, t + 1) =>
            \E F : /\ Laid(enter, F, X \cup {x}, t) /\ Extends(test, E, enter, F)
                   /\ Takes(enter, F, x, t + 1)
  BY <1>3, <1>4, <1>5, SkipLaid
<1>7. PICK body : body = Visit(visit, case.body, enter)
  OBVIOUS
<1>8. StmtFlow(enter, body)
  BY <1>6, <1>7, ListFlow
<1>9. body \in Compiler /\ Shape(enter, body)
  BY <1>8 DEF StmtFlow
<1>10. PICK leave : leave = EmitForward(body, "OP_JUMP", case.loc)
  OBVIOUS
<1> DEFINE q == NextPlace(body)
<1>11. "OP_JUMP" \in JumpOps /\ Pops("OP_JUMP") = 0
  BY OpTable DEF JumpOps
<1>12. /\ leave \in Compiler /\ KeepsScopes(body, leave) /\ NextPlace(leave) = q + 1
       /\ \A E, X, t, u :
             /\ Laid(body, E, X, t) /\ t >= 0
             /\ u \in Nat /\ ("OP_JUMP" # "OP_JUMP" => u = t)
             => \E F : /\ Laid(leave, F, X \cup {q}, u) /\ Extends(body, E, leave, F)
                       /\ Takes(leave, F, q, t)
  BY <1>9, <1>10, <1>11, ForwardLaid, ZenonT(60)
<1>13. q = NextPlace(leave) - 1 /\ q \in Nat
  BY <1>9, <1>12, CompilerIs
<1> HIDE DEF q
<1>14. PICK T \in Nat : T = Total(c)
  BY ScopeLengths
<1>15. Waiting(enter) = Waiting(c) /\ Total(enter) = T /\ Shape(c, enter)
  <2>1. KeepsScopes(c, enter)
    BY <1>3, <1>6, ScopesKeptTrans
  <2> QED
    BY <1>14, <2>1, ScopesKept
<1>16. Total(body) = T /\ Shape(c, body)
  BY <1>6, <1>9, <1>15, ShapeHeld, ShapeTrans
<1>17. Waiting(leave) = Waiting(body) /\ Total(leave) = T /\ Shape(c, leave)
  BY <1>12, <1>16, ScopesKept, ShapeTrans
<1>18. PICK n \in 1 .. Len(leave.scopes) : n = Len(leave.scopes)
  <2>1. Len(leave.scopes) \in Nat /\ Len(leave.scopes) # 0
    BY <1>12, <1>17, ScopeLengths DEF Shape
  <2> QED
    BY <2>1
<1>19. Held(leave.scopes)[n] = T
  BY <1>17, <1>18 DEF Total
<1>20. PICK noted : noted = AwaitBreak(leave, n, q)
  OBVIOUS
<1>21. /\ noted \in Compiler /\ Shape(leave, noted)
       /\ Waiting(noted) = Waiting(leave) \cup {q}
       /\ \A E, X, t : Laid(leave, E, X, t) /\ Takes(leave, E, q, T)
                => Laid(noted, E, X, t) /\ Extends(leave, E, noted, E)
  BY <1>12, <1>13, <1>19, <1>20, AwaitBreakLaid
<1>22. PICK d : d = LandExit(noted, x, case.loc)
  OBVIOUS
<1>23. /\ d \in Compiler /\ KeepsScopes(noted, d)
       /\ \A E, X, Y, t :
             /\ t \in Nat /\ Laid(noted, E, X, t + 1) /\ Takes(noted, E, x, t + 1)
             /\ X \subseteq Y \cup {x}
             => \E F : Laid(d, F, Y, t) /\ Extends(noted, E, d, F)
  BY <1>21, <1>22, LandExitLaid
<1>24. Waiting(d) = Waiting(body) \cup {q} /\ Shape(c, d)
  <2>1. Waiting(d) = Waiting(noted) /\ Shape(noted, d)
    BY <1>23, ScopesKept
  <2> QED
    BY <1>17, <1>21, <2>1, ShapeTrans
<1>25. Total(d) = T
  BY <1>14, <1>23, <1>24, ShapeHeld
<1>26. ASSUME NEW E, NEW X, Laid(c, E, X \cup Waiting(c), T)
       PROVE  \E F : Laid(d, F, X \cup Waiting(d), T) /\ Extends(c, E, d, F)
  <2>1. T >= 1 /\ T - 1 + 2 = T + 1
    BY <1>14
  <2>2. PICK E1 : Laid(test, E1, X \cup Waiting(c), T + 1) /\ Extends(c, E, test, E1)
    BY <1>2, <1>26, <2>1 DEF Flow
  <2>3. PICK E2 : /\ Laid(enter, E2, (X \cup Waiting(c)) \cup {x}, T)
                  /\ Extends(test, E1, enter, E2) /\ Takes(enter, E2, x, T + 1)
    BY <1>6, <2>2
  <2>4. PICK X1 : X1 = X \cup {x}
    OBVIOUS
  <2>5. (X \cup Waiting(c)) \cup {x} = X1 \cup Waiting(enter)
    BY <1>15, <2>4
  <2>6. PICK E3 : Laid(body, E3, X1 \cup Waiting(body), T) /\ Extends(enter, E2, body, E3)
    BY <1>8, <1>15, <1>16, <2>3, <2>5 DEF StmtFlow
  <2>7. PICK E4 : /\ Laid(leave, E4, (X1 \cup Waiting(body)) \cup {q}, T + 1)
                  /\ Extends(body, E3, leave, E4) /\ Takes(leave, E4, q, T)
    <3>1. T >= 0 /\ T + 1 \in Nat
      OBVIOUS
    <3> QED
      BY <1>12, <2>6, <3>1
  <2>8. /\ Laid(noted, E4, (X1 \cup Waiting(body)) \cup {q}, T + 1)
        /\ Extends(leave, E4, noted, E4)
    BY <1>21, <2>7
  <2>9. Extends(enter, E2, noted, E4)
    <3>1. Extends(enter, E2, leave, E4)
      BY <1>6, <1>9, <1>12, <2>6, <2>7, ExtendsTrans
    <3> QED
      BY <1>6, <1>12, <1>21, <2>8, <3>1, ExtendsTrans
  <2>10. Takes(noted, E4, x, T + 1)
    BY <1>6, <1>21, <2>3, <2>9, ExtendsKnown
  <2>11. (X1 \cup Waiting(body)) \cup {q} \subseteq (X \cup Waiting(d)) \cup {x}
    BY <1>24, <2>4
  <2>12. PICK F : Laid(d, F, X \cup Waiting(d), T) /\ Extends(noted, E4, d, F)
    BY <1>23, <2>8, <2>10, <2>11
  <2>13. Extends(c, E, d, F)
    <3>1. Extends(c, E, enter, E2)
      BY <1>3, <1>6, <2>2, <2>3, ExtendsTrans
    <3>2. Extends(c, E, noted, E4)
      BY <1>6, <1>21, <2>9, <3>1, ExtendsTrans
    <3> QED
      BY <1>21, <1>23, <2>12, <3>2, ExtendsTrans
  <2> QED
    BY <2>12, <2>13
<1>27. StmtFlow(c, d)
  BY <1>14, <1>23, <1>24, <1>25, <1>26 DEF StmtFlow
<1>28. d = CompileCase(visit, s, case, c)
  BY <1>1, <1>4, <1>5, <1>7, <1>10, <1>13, <1>18, <1>20, <1>22, Zenon DEF CompileCase
<1> QED
  BY <1>27, <1>28

LEMMA SwitchFlow ==
    ASSUME NEW S, NEW visit, StmtsFlow(visit, S), NEW c \in Compiler, NEW s,
           s.subject \in Expr, s.loc \in Nat, s.cases \in Seq(CaseNode(S))
    PROVE  StmtFlow(c, CompileSwitch(visit, s, c))
<1>1. PICK v : v = CompileExpr(s.subject, c)
  OBVIOUS
<1>2. Flow(c, v, 0, 1)
  BY <1>1, ExprFlow
<1>3. v \in Compiler /\ KeepsScopes(c, v)
  BY <1>2 DEF Flow
<1>4. PICK p : p = PushScope(v, SwitchScope)
  OBVIOUS
<1>5. PICK T \in Nat : T = Total(c)
  BY ScopeLengths
<1>6. Shape(c, v) /\ Total(v) = T /\ Waiting(v) = Waiting(c)
  BY <1>3, <1>5, ScopesKept
<1>7. SwitchScope \in {LoopScope, SwitchScope} /\ SwitchScope.slots = 1
      /\ SwitchScope.kind = "Switch"
  BY DEF SwitchScope
<1>8. /\ p \in Compiler /\ Waiting(p) = Waiting(c) /\ Total(p) = T + 1
      /\ Len(p.scopes) = Len(v.scopes) + 1
      /\ \A E, X, t : Laid(v, E, X, t) => Laid(p, E, X, t) /\ Extends(v, E, p, E)
  BY <1>3, <1>4, <1>6, <1>7, PushLaid
<1>9. PICK table : table = [case \in Range(s.cases) |->
                               [d \in Compiler |-> CompileCase(visit, s, case, d)]]
  OBVIOUS
<1>10. PICK cases : cases = Visit(table, s.cases, p)
  OBVIOUS
<1>11. StmtFlow(p, cases)
  <2> DEFINE D == {b \in Compiler : Len(b.scopes) # 0 /\ Total(b) >= 1}
  <2>1. D \in SUBSET Compiler
    OBVIOUS
  <2>2. ASSUME NEW b \in D, NEW d, StmtFlow(b, d)
        PROVE  d \in D
    <3>1. d \in Compiler /\ Shape(b, d)
      BY <2>2 DEF StmtFlow
    <3>2. Total(d) = Total(b) /\ Len(d.scopes) = Len(b.scopes)
      BY <3>1, ShapeHeld DEF Shape
    <3> QED
      BY <3>1, <3>2
  <2>3. p \in D
    <3>1. Len(p.scopes) # 0
      BY <1>3, <1>8, ScopeLengths
    <3> QED
      BY <1>8, <3>1
  <2>4. Len(s.cases) \in Nat /\ DOMAIN s.cases = 1 .. Len(s.cases)
        /\ \A k \in 1 .. Len(s.cases) : s.cases[k] \in CaseNode(S)
    OBVIOUS
  <2>5. ASSUME NEW k \in 1 .. Len(s.cases), NEW b \in D
        PROVE  StmtFlow(b, table[s.cases[k]][b])
    <3>1. PICK case : case = s.cases[k]
      OBVIOUS
    <3>2. case \in CaseNode(S)
      BY <2>4, <3>1
    <3>3. case.value \in CInt /\ case.loc \in Nat /\ case.body \in Seq(S)
      BY <3>2 DEF CaseNode, Place
    <3>4. case \in Range(s.cases)
      BY <2>4, <3>1 DEF Range
    <3>5. StmtFlow(b, CompileCase(visit, s, case, b))
      BY <3>3, CaseFlow
    <3> QED
      BY <1>9, <3>1, <3>4, <3>5
  <2> HIDE DEF D
  <2> QED
    BY <1>10, <2>1, <2>2, <2>3, <2>4, <2>5, VisitFlow
<1>12. cases \in Compiler /\ Shape(p, cases)
  BY <1>11 DEF StmtFlow
<1>13. /\ Len(cases.scopes) # 0 /\ InnerScope(cases).kind = "Switch"
       /\ Total(cases) = T + 1 /\ InnerScope(cases) = cases.scopes[Len(cases.scopes)]
       /\ Len(cases.scopes) \in 1 .. Len(cases.scopes)
  BY <1>3, <1>4, <1>6, <1>7, <1>12, InnerIs
<1>14. PICK end : end = PatchBreaks(cases)
  OBVIOUS
<1>15. PICK B : B = Range(InnerScope(cases).breakJumps)
  OBVIOUS
<1>16. /\ end \in Compiler /\ KeepsScopes(cases, end)
       /\ \A E, X, Y :
             /\ Laid(cases, E, X, Total(cases))
             /\ X \subseteq Y \cup B
             => Laid(end, E, Y, Total(cases)) /\ Extends(cases, E, end, E)
  BY <1>12, <1>13, <1>14, <1>15, BreaksLaid
<1>17. end.scopes = cases.scopes /\ InnerScope(end) = InnerScope(cases)
       /\ Waiting(end) = Waiting(cases)
  BY <1>16 DEF KeepsScopes, InnerScope, Waiting
<1>18. PICK out : out = PopScope(end)
  OBVIOUS
<1>19. /\ out \in Compiler /\ Len(out.scopes) = Len(end.scopes) - 1
       /\ \A n \in 1 .. Len(out.scopes) : out.scopes[n] = end.scopes[n]
       /\ Waiting(end) \subseteq Waiting(out) \cup Awaited(InnerScope(end))
       /\ \A E, X, t : Laid(end, E, X, t) => Laid(out, E, X, t) /\ Extends(end, E, out, E)
  BY <1>13, <1>16, <1>17, <1>18, PopLaid
<1>20. PICK d : d = Emit(out, "OP_POP", 0, s.loc)
  OBVIOUS
<1>21. Flow(out, d, 1, 0)
  BY <1>19, <1>20, PopFlow
<1>22. d \in Compiler /\ KeepsScopes(out, d)
  BY <1>21 DEF Flow
<1>23. Waiting(d) = Waiting(out) /\ Shape(out, d)
  BY <1>22, ScopesKept
<1>24. Shape(c, d) /\ Total(d) = T
  <2>1. Popped(cases, out)
    BY <1>17, <1>19 DEF Popped
  <2>2. Shape(v, out)
    BY <1>3, <1>4, <1>7, <1>12, <1>19, <2>1, ShapeAround
  <2>3. Shape(c, d)
    BY <1>6, <1>23, <2>2, ShapeTrans
  <2> QED
    BY <1>5, <1>22, <2>3, ShapeHeld
<1>25. ASSUME NEW E, NEW X, Laid(c, E, X \cup Waiting(c), T)
       PROVE  \E F : Laid(d, F, X \cup Waiting(d), T) /\ Extends(c, E, d, F)
  <2>1. T >= 0 /\ T - 0 + 1 = T + 1 /\ T + 1 >= 1 /\ (T + 1) - 1 + 0 = T
    OBVIOUS
  <2>2. PICK E1 : Laid(v, E1, X \cup Waiting(c), T + 1) /\ Extends(c, E, v, E1)
    BY <1>2, <1>25, <2>1 DEF Flow
  <2>3. Laid(p, E1, X \cup Waiting(p), T + 1) /\ Extends(v, E1, p, E1)
    BY <1>8, <2>2
  <2>4. PICK E2 : /\ Laid(cases, E2, X \cup Waiting(cases), T + 1)
                  /\ Extends(p, E1, cases, E2)
    BY <1>8, <1>11, <1>13, <2>3 DEF StmtFlow
  <2>5. PICK U : U = X \cup Waiting(d)
    OBVIOUS
  <2>6. PICK Z : Z = X \cup Waiting(cases)
    OBVIOUS
  <2>7. Z \subseteq U \cup B
    <3>1. Waits(cases, E2)
      BY <2>4 DEF Laid
    <3>2. InnerScope(cases).continueJumps = << >>
      BY <1>13, <3>1 DEF Waits, WaitsIn
    <3>3. Range(<< >>) = {}
      BY DEF Range
    <3>4. Awaited(InnerScope(cases)) = B
      BY <1>15, <3>2, <3>3 DEF Awaited
    <3>5. Waiting(cases) \subseteq Waiting(out) \cup B
      BY <1>17, <1>19, <3>4
    <3> QED
      BY <1>23, <2>5, <2>6, <3>5
  <2>8. Laid(end, E2, U, T + 1) /\ Extends(cases, E2, end, E2)
    BY <1>13, <1>16, <2>4, <2>6, <2>7
  <2>9. Laid(out, E2, U, T + 1) /\ Extends(end, E2, out, E2)
    BY <1>19, <2>8
  <2>10. PICK F : Laid(d, F, U, T) /\ Extends(out, E2, d, F)
    BY <1>21, <2>1, <2>9 DEF Flow
  <2>11. Extends(c, E, d, F)
    <3>1. Extends(c, E, p, E1)
      BY <1>3, <1>8, <2>2, <2>3, ExtendsTrans
    <3>2. Extends(c, E, cases, E2)
      BY <1>8, <1>12, <2>4, <3>1, ExtendsTrans
    <3>3. Extends(c, E, end, E2)
      BY <1>12, <1>16, <2>8, <3>2, ExtendsTrans
    <3>4. Extends(c, E, out, E2)
      BY <1>16, <1>19, <2>9, <3>3, ExtendsTrans
    <3> QED
      BY <1>19, <1>22, <2>10, <3>4, ExtendsTrans
  <2> QED
    BY <2>5, <2>10, <2>11
<1>26. StmtFlow(c, d)
  BY <1>5, <1>22, <1>24, <1>25 DEF StmtFlow
<1>27. d = CompileSwitch(visit, s, c)
  BY <1>1, <1>4, <1>9, <1>10, <1>14, <1>18, <1>20, Zenon DEF CompileSwitch
<1> QED
  BY <1>26, <1>27

-----------------------------------------------------------------------------
(* Every statement.                                                        *)

\* What a statement over S has, for each of the classes.
HasParts(S, s) ==
    \/ s.kind = "ASSIGN" /\ s.name \in STRING /\ s.value \in Expr
    \/ s.kind = "VAR_DECL" /\ s.name \in STRING /\ s.initializer \in Expr
    \/ /\ s.kind = "PRINT"
       /\ \/ s.isString = FALSE /\ s.expr \in Expr
          \/ s.isString = TRUE /\ s.stringLiteral \in STRING
    \/ s.kind = "BREAK"
    \/ s.kind = "CONTINUE"
    \/ s.kind = "BLOCK" /\ s.statements \in Seq(S)
    \/ /\ s.kind = "IF" /\ s.condition \in Expr
       /\ s.thenBranch \in S /\ s.elseBranch \in Seq(S)
    \/ s.kind \in {"WHILE", "DO_WHILE"} /\ s.condition \in Expr /\ s.body \in S
    \/ /\ s.kind = "FOR" /\ s.init \in S /\ s.condition \in Expr
       /\ s.update \in S /\ s.update.kind = "ASSIGN" /\ s.body \in S
    \/ s.kind = "SWITCH" /\ s.subject \in Expr /\ s.cases \in Seq(CaseNode(S))

LEMMA StmtCases ==
    ASSUME NEW S, NEW s \in StmtOver(S)
    PROVE  s.loc \in Nat /\ HasParts(S, s)
<1>1. CASE s \in AssignNode
  BY <1>1 DEF AssignNode, Place, HasParts
<1>2. CASE s \in VarDeclNode
  BY <1>2 DEF VarDeclNode, Place, HasParts
<1>3. CASE s \in PrintExprNode
  BY <1>3 DEF PrintExprNode, Place, HasParts
<1>4. CASE s \in PrintTextNode
  BY <1>4 DEF PrintTextNode, Place, HasParts
<1>5. CASE s \in JumpNode
  BY <1>5 DEF JumpNode, Place, HasParts
<1>6. CASE s \in BlockNode(S)
  BY <1>6 DEF BlockNode, Place, HasParts
<1>7. CASE s \in IfNode(S)
  BY <1>7 DEF IfNode, Place, HasParts
<1>8. CASE s \in LoopNode(S)
  BY <1>8 DEF LoopNode, Place, HasParts
<1>9. CASE s \in ForNode(S)
  BY <1>9 DEF ForNode, Place, HasParts
<1>10. CASE s \in SwitchNode(S)
  BY <1>10 DEF SwitchNode, Place, HasParts
<1> QED
  BY <1>1, <1>2, <1>3, <1>4, <1>5, <1>6, <1>7, <1>8, <1>9, <1>10 DEF StmtOver

LEMMA StmtNodeFlow ==
    ASSUME NEW S, NEW visit, StmtsFlow(visit, S), NEW c \in Compiler, NEW s \in StmtOver(S)
    PROVE  StmtFlow(c, CompileStmtNode(visit, s, c))
<1> DEFINE d == CompileStmtNode(visit, s, c)
<1>1. s.loc \in Nat
  BY StmtCases
<1>2. CASE s.kind = "ASSIGN" /\ s.name \in STRING /\ s.value \in Expr
  <2>1. d = CompileStore(s, "OP_SET_GLOBAL", s.value, c)
    BY <1>2 DEF CompileStmtNode
  <2>2. "OP_SET_GLOBAL" \in StoreOps
    BY DEF StoreOps
  <2>3. PICK e \in Expr : e = s.value
    BY <1>2
  <2>4. PICK r : r = CompileStore(s, "OP_SET_GLOBAL", e, c)
    OBVIOUS
  <2>5. StmtFlow(c, r)
    BY <1>1, <1>2, <2>2, <2>4, StoreFlow
  <2> QED
    BY <2>1, <2>3, <2>4, <2>5
<1>3. CASE s.kind = "VAR_DECL" /\ s.name \in STRING /\ s.initializer \in Expr
  <2>1. d = CompileStore(s, "OP_DEFINE_GLOBAL", s.initializer, c)
    BY <1>3 DEF CompileStmtNode
  <2>2. "OP_DEFINE_GLOBAL" \in StoreOps
    BY DEF StoreOps
  <2>3. PICK e \in Expr : e = s.initializer
    BY <1>3
  <2>4. PICK r : r = CompileStore(s, "OP_DEFINE_GLOBAL", e, c)
    OBVIOUS
  <2>5. StmtFlow(c, r)
    BY <1>1, <1>3, <2>2, <2>4, StoreFlow
  <2> QED
    BY <2>1, <2>3, <2>4, <2>5
<1>4. CASE /\ s.kind = "PRINT"
           /\ \/ s.isString = FALSE /\ s.expr \in Expr
              \/ s.isString = TRUE /\ s.stringLiteral \in STRING
  <2>1. s.kind = "PRINT"
    BY <1>4
  <2>2. d = CompilePrint(s, c)
    BY <2>1 DEF CompileStmtNode
  <2> QED
    BY <1>1, <1>4, <2>2, PrintFlow
<1>5. CASE s.kind = "BREAK"
  <2>1. d = CompileBreak(s, c)
    BY <1>5 DEF CompileStmtNode
  <2> QED
    BY <1>1, <2>1, BreakFlow
<1>6. CASE s.kind = "CONTINUE"
  <2>1. d = CompileContinue(s, c)
    BY <1>6 DEF CompileStmtNode
  <2> QED
    BY <1>1, <2>1, ContinueFlow
<1>7. CASE s.kind = "BLOCK" /\ s.statements \in Seq(S)
  <2>1. d = Visit(visit, s.statements, c)
    BY <1>7 DEF CompileStmtNode
  <2> QED
    BY <1>7, <2>1, ListFlow
<1>8. CASE /\ s.kind = "IF" /\ s.condition \in Expr
           /\ s.thenBranch \in S /\ s.elseBranch \in Seq(S)
  <2>1. d = CompileIf(visit, s, c)
    BY <1>8 DEF CompileStmtNode
  <2> QED
    BY <1>1, <1>8, <2>1, IfFlow
<1>9. CASE s.kind \in {"WHILE", "DO_WHILE"} /\ s.condition \in Expr /\ s.body \in S
  <2>1. \/ d = CompileWhile(visit, s, c)
        \/ d = CompileDoWhile(visit, s, c)
    BY <1>9 DEF CompileStmtNode
  <2>2. StmtFlow(c, CompileWhile(visit, s, c))
    BY <1>1, <1>9, WhileFlow
  <2>3. StmtFlow(c, CompileDoWhile(visit, s, c))
    BY <1>1, <1>9, DoWhileFlow
  <2> QED
    BY <2>1, <2>2, <2>3
<1>10. CASE /\ s.kind = "FOR" /\ s.init \in S /\ s.condition \in Expr
            /\ s.update \in S /\ s.update.kind = "ASSIGN" /\ s.body \in S
  <2>1. d = CompileFor(visit, s, c)
    BY <1>10 DEF CompileStmtNode
  <2> QED
    BY <1>1, <1>10, <2>1, ForFlow
<1>11. CASE s.kind = "SWITCH" /\ s.subject \in Expr /\ s.cases \in Seq(CaseNode(S))
  <2>1. d = CompileSwitch(visit, s, c)
    BY <1>11 DEF CompileStmtNode
  <2> QED
    BY <1>1, <1>11, <2>1, SwitchFlow
<1> HIDE DEF d
<1>12. HasParts(S, s)
  BY StmtCases
<1> QED
  BY <1>2, <1>3, <1>4, <1>5, <1>6, <1>7, <1>8, <1>9, <1>10, <1>11, <1>12 DEF HasParts

LEMMA StmtsFlowLevels ==
    \A h \in 0 .. MaxHeight : StmtsFlow(CompileStmtUpTo[h], StmtUpTo[h])
<1> DEFINE H == {h \in 0 .. MaxHeight : StmtsFlow(CompileStmtUpTo[h], StmtUpTo[h])}
<1>1. 0 \in H
  <2>1. StmtsFlow(CompileStmtUpTo[0], StmtUpTo[0])
    BY StmtLevels DEF StmtsFlow
  <2> QED
    BY <2>1, MaxHeightAssumption
<1>2. ASSUME NEW h \in 1 .. MaxHeight, h - 1 \in H
      PROVE  h \in H
  <2>1. h \in Heights /\ h # 0
    BY MaxHeightAssumption DEF Heights
  <2>2. PICK S : S = StmtUpTo[h - 1]
    OBVIOUS
  <2>3. PICK visit : visit = CompileStmtUpTo[h - 1]
    OBVIOUS
  <2>4. StmtsFlow(visit, S)
    BY <1>2, <2>2, <2>3
  <2>5. ASSUME NEW s \in StmtUpTo[h], NEW c \in Compiler
        PROVE  StmtFlow(c, CompileStmtUpTo[h][s][c])
    <3>1. CompileStmtUpTo[h][s][c] = CompileStmtNode(visit, s, c)
      BY <2>1, <2>3, CompileStmtLevels, Zenon
    <3>2. s \in StmtOver(S)
      BY <2>1, <2>2, StmtLevels, Zenon
    <3>3. StmtFlow(c, CompileStmtNode(visit, s, c))
      BY <2>4, <3>2, StmtNodeFlow
    <3> QED
      BY <3>1, <3>3
  <2>6. StmtsFlow(CompileStmtUpTo[h], StmtUpTo[h])
    BY <2>5, Zenon DEF StmtsFlow
  <2> QED
    BY <2>6
<1>3. \A h \in 0 .. MaxHeight : h \in H
  <2> HIDE DEF H
  <2> QED
    BY <1>1, <1>2, MaxHeightAssumption, InductionTo, Zenon
<1> QED
  BY <1>3

LEMMA StmtsFlowAll == StmtsFlow(CompileStmtUpTo[MaxHeight], Stmt)
<1>1. StmtsFlow(CompileStmtUpTo[MaxHeight], StmtUpTo[MaxHeight])
  BY StmtsFlowLevels, MaxHeightAssumption
<1> QED
  BY <1>1 DEF Stmt

LEMMA StmtLoc ==
    \A s \in Stmt : s.loc \in Nat
<1>1. CASE MaxHeight = 0
  BY <1>1, StmtLevels DEF Stmt
<1>2. CASE MaxHeight # 0
  <2>1. Stmt = StmtOver(StmtUpTo[MaxHeight - 1])
    BY <1>2, HeightsAre, StmtLevels DEF Stmt
  <2> QED
    BY <2>1, StmtCases
<1> QED
  BY <1>1, <1>2

-----------------------------------------------------------------------------
(* The whole program.                                                      *)

\* Nothing is laid out and nothing waits.
LEMMA NewLaid ==
    /\ NewCompiler \in Compiler /\ NewCompiler.scopes = << >>
    /\ Total(NewCompiler) = 0 /\ Waiting(NewCompiler) = {}
    /\ Laid(NewCompiler, [p \in 0 .. 0 |-> 0], {}, 0)
<1>1. EmptyChunk \in Chunk /\ << >> \in Seq(Scope)
  BY DEF EmptyChunk, Chunk
<1>2. NewCompiler \in Compiler
  BY <1>1 DEF NewCompiler, Compiler
<1>3. PICK c \in Compiler : c = NewCompiler
  BY <1>2
<1>4. c.scopes = << >> /\ Len(c.scopes) = 0 /\ c.chunk.code = << >>
  BY <1>3 DEF NewCompiler, EmptyChunk
<1>5. NextPlace(c) = 0 /\ Places(c) = {}
  <2>1. NextPlace(c) = 0
    BY <1>4, CompilerIs
  <2> QED
    BY <2>1 DEF Places
<1>6. Total(c) = 0
  BY <1>4, HeldIs, CompilerIs DEF Total
<1>7. Waiting(c) = {}
  BY <1>4 DEF Waiting
<1>8. PICK E : E = [p \in 0 .. 0 |-> 0]
  OBVIOUS
<1>9. E \in [0 .. NextPlace(c) -> Nat] /\ E[0] = 0
  BY <1>5, <1>8
<1>10. Waits(c, E)
  BY <1>4 DEF Waits
<1>11. Laid(c, E, {}, 0)
  BY <1>5, <1>9, <1>10 DEF Laid
<1> QED
  BY <1>2, <1>3, <1>4, <1>6, <1>7, <1>8, <1>11

\* compile(): what is emitted is well formed, and there is a depth for each
\* instruction that all the ways to it agree on; nothing is left at OP_HALT.
THEOREM CompileFits ==
    ASSUME NEW tree \in Seq(Stmt)
    PROVE  /\ Compile(tree) \in Compiler
           /\ WellFormed(Compile(tree).chunk)
           /\ \E D \in [Positions(Compile(tree).chunk) -> Int] :
                 Consistent(Compile(tree).chunk, D)
<1>1. PICK c : c = Visit(CompileStmtUpTo[MaxHeight], tree, NewCompiler)
  OBVIOUS
<1>2. StmtFlow(NewCompiler, c)
  BY <1>1, NewLaid, StmtsFlowAll, ListFlow
<1>3. c \in Compiler /\ Shape(NewCompiler, c)
  BY <1>2 DEF StmtFlow
<1>4. PICK E : Laid(c, E, {}, 0)
  <2>1. Len(c.scopes) = 0
    BY <1>3, NewLaid DEF Shape
  <2>2. Total(c) = 0
    BY <1>3, NewLaid, ShapeHeld
  <2>3. Waiting(c) = {}
    BY <2>1 DEF Waiting
  <2>4. {} \cup Waiting(NewCompiler) = {} /\ {} \cup Waiting(c) = {}
    BY <2>3, NewLaid
  <2>5. Laid(NewCompiler, [p \in 0 .. 0 |-> 0], {} \cup Waiting(NewCompiler),
             Total(NewCompiler))
    BY <2>4, NewLaid
  <2>6. \E F : Laid(c, F, {} \cup Waiting(c), Total(c))
    BY <1>2, <2>5 DEF StmtFlow
  <2> QED
    BY <2>2, <2>4, <2>6
<1>5. PICK loc \in Nat : loc = IF tree = << >> THEN 1 ELSE Last(tree).loc
  <2>1. CASE tree = << >>
    BY <2>1
  <2>2. CASE tree # << >>
    <3>1. Last(tree) \in Stmt
      BY <2>2 DEF Last
    <3>2. Last(tree).loc \in Nat
      BY <3>1, StmtLoc
    <3> QED
      BY <2>2, <3>2
  <2> QED
    BY <2>1, <2>2
<1>6. PICK d : d = Emit(c, "OP_HALT", 0, loc)
  OBVIOUS
<1>7. d = Compile(tree)
  BY <1>1, <1>5, <1>6, Zenon DEF Compile
<1>8. "OP_HALT" \in OpCode /\ "OP_HALT" \notin JumpOps /\ "OP_HALT" # "OP_CONST_INT"
      /\ "OP_HALT" # "OP_PRINT_STR" /\ "OP_HALT" \notin GlobalOps
      /\ Pops("OP_HALT") = 0 /\ Pushes("OP_HALT") = 0 /\ 0 \in Int
  BY OpTable DEF OpCode, JumpOps, BranchOps, GlobalOps, StoreOps
<1>9. PICK N \in Nat : N = NextPlace(c)
  BY <1>3, CompilerIs
<1>10. /\ d \in Compiler /\ KeepsPools(c, d) /\ NextPlace(d) = N + 1
       /\ \A p \in 0 .. N - 1 : Emitted(d, p) = Emitted(c, p)
       /\ Emitted(d, N).op = "OP_HALT"
  BY <1>3, <1>6, <1>8, <1>9, EmitIs DEF Places
<1>11. PICK ch : ch = d.chunk
  OBVIOUS
<1>12. /\ Size(ch) = N + 1 /\ Positions(ch) = 0 .. N
       /\ \A p \in 0 .. N : InstrAt(ch, p) = Emitted(d, p)
  <2>1. Size(ch) = N + 1
    BY <1>10, <1>11 DEF NextPlace
  <2>2. Positions(ch) = 0 .. N
    BY <2>1 DEF Positions
  <2>3. \A p \in 0 .. N : InstrAt(ch, p) = Emitted(d, p)
    BY <1>11 DEF Emitted
  <2> QED
    BY <2>1, <2>2, <2>3
<1>13. /\ E \in [0 .. N -> Nat] /\ E[0] = 0 /\ E[N] = 0
       /\ \A p \in 0 .. N - 1 : Settled(c, E, p) /\ Lands(c, E, p)
  BY <1>4, <1>9 DEF Laid, Places
<1>14. InstrAt(ch, N).op = "OP_HALT"
  BY <1>10, <1>12
<1>15. ASSUME NEW p \in 0 .. N - 1
       PROVE  /\ InstrAt(ch, p).op # "OP_HALT"
              /\ Indexed(c, InstrAt(ch, p).op, InstrAt(ch, p).operand)
              /\ E[p] >= Pops(InstrAt(ch, p).op)
              /\ InstrAt(ch, p).op # "OP_JUMP" =>
                    E[p + 1] = DepthAfter(InstrAt(ch, p), E[p])
              /\ InstrAt(ch, p).op \in JumpOps =>
                    /\ InstrAt(ch, p).operand \in 0 .. N
                    /\ E[InstrAt(ch, p).operand] = E[p]
  <2>1. p \in 0 .. N
    OBVIOUS
  <2>2. PICK in : in = Emitted(c, p)
    OBVIOUS
  <2>3. InstrAt(ch, p) = in
    BY <1>10, <1>12, <2>1, <2>2
  <2>4. Settled(c, E, p) /\ Lands(c, E, p)
    BY <1>13
  <2>5. /\ in.op # "OP_HALT" /\ Indexed(c, in.op, in.operand) /\ E[p] >= Pops(in.op)
        /\ in.op # "OP_JUMP" => E[p + 1] = DepthAfter(in, E[p])
    BY <2>2, <2>4 DEF Settled, DepthAfter
  <2>6. in.op \in JumpOps => in.operand \in 0 .. N /\ E[in.operand] = E[p]
    BY <1>9, <2>2, <2>4 DEF Lands, Known
  <2> QED
    BY <2>3, <2>5, <2>6
<1>16. WellFormed(ch)
  <2>1. EndsInHalt(ch)
    <3>1. ch.code # << >>
      BY <1>12 DEF Size
    <3>2. Size(ch) - 1 = N
      BY <1>12
    <3> QED
      BY <1>14, <3>1, <3>2 DEF EndsInHalt
  <2>2. ASSUME NEW p \in Positions(ch)
        PROVE  OperandOK(ch, InstrAt(ch, p))
    <3>1. CASE p = N
      BY <1>8, <1>14, <3>1 DEF OperandOK
    <3>2. CASE p # N
      <4>1. p \in 0 .. N - 1
        BY <1>12, <3>2
      <4>2. PICK in : in = InstrAt(ch, p)
        OBVIOUS
      <4>3. Indexed(c, in.op, in.operand)
            /\ (in.op \in JumpOps => in.operand \in 0 .. N)
        BY <1>15, <4>1, <4>2
      <4>4. in.op \in JumpOps => InRange(in.operand, Size(ch))
        BY <1>12, <4>3 DEF InRange
      <4>5. /\ ch.intConstants = c.chunk.intConstants
            /\ ch.stringConstants = c.chunk.stringConstants
            /\ ch.globalNames = c.chunk.globalNames
        BY <1>10, <1>11 DEF KeepsPools
      <4> QED
        BY <4>2, <4>3, <4>4, <4>5 DEF OperandOK, Indexed
    <3> QED
      BY <3>1, <3>2
  <2> QED
    BY <2>1, <2>2 DEF WellFormed
<1>17. \E D \in [Positions(ch) -> Int] : Consistent(ch, D)
  <2>1. E \in [Positions(ch) -> Int]
    BY <1>12, <1>13
  <2>2. ASSUME NEW p \in Positions(ch)
        PROVE  ConsistentAt(ch, E, p)
    <3>1. CASE p = N
      <4>1. Successors(ch, p) = {}
        BY <1>14, <3>1 DEF Successors
      <4> QED
        BY <1>8, <1>13, <1>14, <3>1, <4>1 DEF ConsistentAt, DepthAfter
    <3>2. CASE p # N
      <4>1. p \in 0 .. N - 1
        BY <1>12, <3>2
      <4>2. PICK in : in = InstrAt(ch, p)
        OBVIOUS
      <4>3. /\ in.op # "OP_HALT" /\ E[p] >= Pops(in.op)
            /\ in.op # "OP_JUMP" => E[p + 1] = DepthAfter(in, E[p])
            /\ in.op \in JumpOps => E[in.operand] = E[p]
        BY <1>15, <4>1, <4>2
      <4>4. E[p] \in Nat
        BY <1>13, <4>1
      <4>5. in.op \in JumpOps => DepthAfter(in, E[p]) = E[p]
        BY <4>4, OpTable DEF DepthAfter, JumpOps
      <4>6. ASSUME NEW j \in Successors(ch, p)
            PROVE  E[j] = DepthAfter(in, E[p])
        <5>1. \/ in.op # "OP_JUMP" /\ j = p + 1
              \/ in.op \in JumpOps /\ j = in.operand
          BY <4>2, <4>3 DEF Successors, JumpOps
        <5> QED
          BY <4>3, <4>5, <5>1
      <4> QED
        BY <4>2, <4>3, <4>6 DEF ConsistentAt
    <3> QED
      BY <3>1, <3>2
  <2> QED
    BY <1>13, <2>1, <2>2 DEF Consistent
<1> QED
  BY <1>7, <1>10, <1>11, <1>16, <1>17
==============================================================================
