--------------------------- MODULE PipelineProofs ----------------------------
(***************************************************************************)
(* A program on its way through the stages: what the compiler hands to the *)
(* machine passes the verifier, the compiler and the analyzer, which know  *)
(* nothing of each other, agree about tigil, sunod and names, and the tree *)
(* walker does the same with slots and with a map.                         *)
(*                                                                         *)
(* The invariants say where the values of the stages come from.  The rest  *)
(* is about pairs of walks over a tree, followed side by side with a       *)
(* relation between their states.  For the compiler and the analyzer,      *)
(* which visit the same nodes in almost the same order, that is Agree, and *)
(* AtHome between the scopes of the one and the depths of the other.  For  *)
(* the two storages it is Alike, between a walker with slots on the        *)
(* resolved tree and one with a map on the tree itself; Fine says of one   *)
(* node that resolving it is what makes the two walks over it alike.       *)
(***************************************************************************)
EXTENDS CompilerProofs, Backends

-----------------------------------------------------------------------------
(* The program on its way.                                                 *)

\* Where the pipeline is: the stages were computed from the program, and the
\* machine has the compiler's chunk.
StagesInv ==
    /\ stage \in {"idle", "refused", "executed"}
    /\ stage # "idle" => /\ program \in Seq(Stmt)
                         /\ analysis = Analyze(program)
                         /\ compiler = Compile(program)
    /\ stage = "executed" => chunk = compiler.chunk /\ ~analysis.hadError
    /\ stage # "executed" => phase = "idle"

PipelineInv == IInv /\ StagesInv

LEMMA PipelineInitInv == PipelineInit => PipelineInv
<1> SUFFICES ASSUME PipelineInit PROVE PipelineInv
  OBVIOUS
<1>1. IInv
  BY InitIInv DEF PipelineInit
<1>2. StagesInv
  BY DEF PipelineInit, Init, StagesInv
<1> QED
  BY <1>1, <1>2 DEF PipelineInv

LEMMA RefuseProgramInv ==
    ASSUME PipelineInv, NEW p \in Programs, RefuseProgram(p)
    PROVE  PipelineInv'
<1>1. IInv'
  BY StutterIInv DEF PipelineInv, RefuseProgram
<1>2. p \in Seq(Stmt)
  BY ProgramsAssumption
<1>3. phase' = phase /\ stage = "idle"
  BY DEF RefuseProgram, Analyzed, vars
<1>4. StagesInv'
  BY <1>2, <1>3 DEF PipelineInv, StagesInv, RefuseProgram, Analyzed
<1> QED
  BY <1>1, <1>4 DEF PipelineInv

LEMMA ExecuteProgramInv ==
    ASSUME PipelineInv, NEW p \in Programs, ExecuteProgram(p)
    PROVE  PipelineInv'
<1>1. p \in Seq(Stmt)
  BY ProgramsAssumption
<1>2. PICK ch : ch = Compile(p).chunk
  OBVIOUS
<1>3. ch \in Chunk
  BY <1>1, <1>2, CompileFits, CompilerIs
<1>4. PICK job : job = [chunk |-> ch, stepLimit |-> MaxSteps]
  OBVIOUS
<1>5. job \in Job /\ job.chunk = ch
  BY <1>3, <1>4, MaxStepsAssumption DEF Job
<1>6. compiler' = Compile(p) /\ compiler'.chunk = ch
  BY <1>2 DEF ExecuteProgram, Analyzed
<1>7. RefuseMalformed(job) \/ BeginVerifyStack(job)
  BY <1>4, <1>6 DEF ExecuteProgram
<1>8. IInv'
  BY <1>5, <1>7, RefuseMalformedIInv, BeginVerifyStackIInv DEF PipelineInv
<1>9. chunk' = ch
  BY <1>5, <1>7 DEF RefuseMalformed, BeginVerifyStack, Enter
<1>10. StagesInv'
  BY <1>1, <1>6, <1>9 DEF StagesInv, ExecuteProgram, Analyzed
<1> QED
  BY <1>8, <1>10 DEF PipelineInv

\* A run is in progress, and its argument stays.
LEMMA MachineStep ==
    ASSUME Verify \/ Execute
    PROVE  phase # "idle" /\ chunk' = chunk
<1>1. CASE Verify
  BY <1>1 DEF Verify, VerifyStep, VerifyReject, VerifyAccept, callVars
<1>2. CASE Execute
  BY <1>2 DEF Execute, Fail, Jump, Branch, Store, Load, Push, Read, PrintStr, PrintVal,
              Binary, Unary, Pop, Dup, Halt, Executing, callVars
<1> QED
  BY <1>1, <1>2

LEMMA MachineInv ==
    ASSUME PipelineInv, Machine
    PROVE  PipelineInv'
<1>1. Verify \/ Execute
  BY DEF Machine
<1>2. IInv'
  BY <1>1, VerifyExecuteIInv DEF PipelineInv
<1>3. phase # "idle" /\ chunk' = chunk
  BY <1>1, MachineStep
<1>4. UNCHANGED <<stage, program, analysis, compiler>>
  BY DEF Machine, stageVars
<1>5. StagesInv'
  BY <1>3, <1>4 DEF PipelineInv, StagesInv
<1> QED
  BY <1>2, <1>5 DEF PipelineInv

LEMMA PipelineNextInv ==
    PipelineInv /\ [PipelineNext]_<<vars, stageVars>> => PipelineInv'
<1> SUFFICES ASSUME PipelineInv, [PipelineNext]_<<vars, stageVars>> PROVE PipelineInv'
  OBVIOUS
<1>1. ASSUME Start PROVE PipelineInv'
  BY <1>1, RefuseProgramInv, ExecuteProgramInv DEF Start
<1>2. ASSUME UNCHANGED <<vars, stageVars>> PROVE PipelineInv'
  <2>1. IInv'
    BY <1>2, StutterIInv DEF PipelineInv
  <2>2. UNCHANGED <<stage, program, analysis, compiler, phase, chunk>>
    BY <1>2 DEF stageVars, vars, callVars
  <2>3. StagesInv'
    BY <2>2 DEF PipelineInv, StagesInv
  <2> QED
    BY <2>1, <2>3 DEF PipelineInv
<1> QED
  BY <1>1, <1>2, MachineInv DEF PipelineNext

\* Every step of the pipeline keeps the invariants of the machine and of the
\* stages.
THEOREM PipelineInvariance == PipelineSpec => []PipelineInv
<1>1. PipelineInit => PipelineInv
  BY PipelineInitInv
<1>2. PipelineInv /\ [PipelineNext]_<<vars, stageVars>> => PipelineInv'
  BY PipelineNextInv
<1> QED
  BY <1>1, <1>2, PTL DEF PipelineSpec

\* A chunk that compile() laid out is well formed and has depths.
LEMMA VerifiesIn == PipelineInv => CompiledVerifies
<1>1. SUFFICES ASSUME PipelineInv, stage = "executed"
               PROVE  WellFormed(chunk) /\ ~RefusedByVerify
  BY DEF CompiledVerifies
<1>2. program \in Seq(Stmt) /\ chunk = Compile(program).chunk
  BY <1>1 DEF PipelineInv, StagesInv
<1>3. WellFormed(chunk) /\ \E D \in AllDepths : Consistent(chunk, D)
  BY <1>2, CompileFits DEF AllDepths
<1>4. RefusalJustified
  BY <1>1 DEF PipelineInv, IInv
<1> QED
  BY <1>3, <1>4 DEF RefusalJustified

\* CompiledVerifies, for every program: the machine never refuses what compile()
\* gave it, wherever tigil and sunod leave pili and loops.
THEOREM CompiledCorrect == PipelineSpec => []CompiledVerifies
BY VerifiesIn, PipelineInvariance, PTL

-----------------------------------------------------------------------------
(* The analyzer's state.                                                   *)

\* A tigil or a sunod was reported.
JumpReported(a) ==
    \E k \in DOMAIN a.diagnostics : a.diagnostics[k].what \in {"break", "continue"}

\* The names that were declared, or reported as undeclared.
Met(a) == Range(a.declared) \cup a.reported

\* What is reported is an error.
Counts(a) == a.reported # {} => a.hadError = TRUE

Balanced(a, b) ==
    b \in Analyzer /\ b.loopDepth = a.loopDepth /\ b.breakDepth = a.breakDepth

\* A step of the analyzer that reports no jump.
Onward(a, b) ==
    /\ Balanced(a, b)
    /\ JumpReported(b) <=> JumpReported(a)
    /\ Met(a) \subseteq Met(b)
    /\ Counts(a) => Counts(b)

LEMMA OnwardSame ==
    ASSUME NEW a \in Analyzer
    PROVE  Onward(a, a)
BY DEF Onward, Balanced

LEMMA OnwardTrans ==
    ASSUME NEW a, NEW b, NEW d, Onward(a, b), Onward(b, d)
    PROVE  Onward(a, d)
BY DEF Onward, Balanced

LEMMA BalancedTrans ==
    ASSUME NEW a, NEW b, NEW d, Balanced(a, b), Balanced(b, d)
    PROVE  Balanced(a, d)
BY DEF Balanced

LEMMA AnalyzerIs ==
    ASSUME NEW a \in Analyzer
    PROVE  /\ a.declared \in Seq(STRING) /\ a.reported \in SUBSET STRING
           /\ a.hadError \in BOOLEAN
           /\ a.diagnostics \in Seq([what : Complaint, loc : Place])
           /\ a.loopDepth \in Int /\ a.breakDepth \in Int
BY DEF Analyzer

SameNames(a, b) == b.declared = a.declared /\ b.reported = a.reported

LEMMA ErrorIs ==
    ASSUME NEW a \in Analyzer, NEW what \in Complaint, NEW loc \in Nat,
           NEW b, b = Error(a, what, loc)
    PROVE  /\ Balanced(a, b) /\ b.hadError = TRUE /\ SameNames(a, b)
           /\ JumpReported(b) <=> JumpReported(a) \/ what \in {"break", "continue"}
<1>1. PICK x : x = [what |-> what, loc |-> loc]
  OBVIOUS
<1>2. PICK T : T = [what : Complaint, loc : Place]
  OBVIOUS
<1>3. x \in T /\ x.what = what
  BY <1>1, <1>2 DEF Place
<1>4. PICK q : q = a.diagnostics
  OBVIOUS
<1>5. q \in Seq(T)
  BY <1>2, <1>4, AnalyzerIs
<1>6. /\ Append(q, x) \in Seq(T) /\ Len(q) \in Nat /\ DOMAIN q = 1 .. Len(q)
      /\ DOMAIN Append(q, x) = 1 .. Len(q) + 1
      /\ \A k \in 1 .. Len(q) : Append(q, x)[k] = q[k]
      /\ Append(q, x)[Len(q) + 1] = x
  BY <1>3, <1>5, AppendProperties, LenProperties
<1>7. PICK r : r = Append(q, x)
  OBVIOUS
<1>8. b = [a EXCEPT !.hadError = TRUE, !.diagnostics = r]
  BY <1>1, <1>4, <1>7 DEF Error
<1>9. /\ b \in Analyzer /\ b.diagnostics = r /\ b.hadError = TRUE
      /\ b.declared = a.declared /\ b.reported = a.reported
      /\ b.loopDepth = a.loopDepth /\ b.breakDepth = a.breakDepth
  <2>1. r \in Seq(T)
    BY <1>6, <1>7
  <2> QED
    BY <1>2, <1>8, <2>1 DEF Analyzer
<1>10. JumpReported(b) <=> JumpReported(a) \/ what \in {"break", "continue"}
  <2>1. JumpReported(b) <=> \E k \in 1 .. Len(q) + 1 : r[k].what \in {"break", "continue"}
    BY <1>6, <1>7, <1>9 DEF JumpReported
  <2>2. JumpReported(a) <=> \E k \in 1 .. Len(q) : q[k].what \in {"break", "continue"}
    BY <1>4, <1>6 DEF JumpReported
  <2>3. Len(q) + 1 \in 1 .. Len(q) + 1 /\ \A k \in 1 .. Len(q) : k \in 1 .. Len(q) + 1
    BY <1>6
  <2>4. \A k \in 1 .. Len(q) + 1 : k \in 1 .. Len(q) \/ k = Len(q) + 1
    BY <1>6
  <2>5. /\ r[Len(q) + 1].what = what
        /\ \A k \in 1 .. Len(q) : r[k].what = q[k].what
    BY <1>3, <1>6, <1>7
  <2> QED
    BY <2>1, <2>2, <2>3, <2>4, <2>5, Zenon
<1> QED
  BY <1>9, <1>10 DEF Balanced, SameNames

\* The complaints about a switch and about names.
LEMMA ErrorOnward ==
    ASSUME NEW a \in Analyzer,
           NEW what \in {"undeclared", "redeclared", "sameCase", "emptyCase"},
           NEW loc \in Nat, NEW b, b = Error(a, what, loc)
    PROVE  Onward(a, b) /\ Counts(b)
<1>2. what \in Complaint /\ what \notin {"break", "continue"}
  BY DEF Complaint
<1>3. Balanced(a, b) /\ b.hadError = TRUE /\ SameNames(a, b)
  BY <1>2, ErrorIs, Zenon
<1>4. JumpReported(b) <=> JumpReported(a) \/ what \in {"break", "continue"}
  BY <1>2, ErrorIs, Zenon
<1> QED
  BY <1>2, <1>3, <1>4 DEF Onward, Met, Counts, SameNames

LEMMA UsedIs ==
    ASSUME NEW a \in Analyzer, NEW name \in STRING, NEW loc \in Nat,
           NEW b, b = Used(a, name, loc)
    PROVE  Onward(a, b) /\ name \in Met(b)
<1>1. CASE name \in Range(a.declared)
  BY <1>1, OnwardSame DEF Used, Met
<1>2. CASE name \notin Range(a.declared) /\ name \in a.reported
  <2>1. b = [a EXCEPT !.hadError = TRUE]
    BY <1>2 DEF Used, ReportUndeclared
  <2>2. /\ b \in Analyzer /\ b.hadError = TRUE /\ b.declared = a.declared
        /\ b.reported = a.reported /\ b.diagnostics = a.diagnostics
        /\ b.loopDepth = a.loopDepth /\ b.breakDepth = a.breakDepth
    BY <2>1 DEF Analyzer
  <2> QED
    BY <1>2, <2>2 DEF Onward, Balanced, JumpReported, Met, Counts
<1>3. CASE name \notin Range(a.declared) /\ name \notin a.reported
  <2>1. PICK d : d = [a EXCEPT !.reported = a.reported \cup {name}]
    OBVIOUS
  <2>2. b = Error(d, "undeclared", loc)
    BY <1>3, <2>1 DEF Used, ReportUndeclared
  <2>3. /\ d \in Analyzer /\ d.declared = a.declared
        /\ d.reported = a.reported \cup {name} /\ d.diagnostics = a.diagnostics
        /\ d.loopDepth = a.loopDepth /\ d.breakDepth = a.breakDepth
    <3>1. a.reported \cup {name} \in SUBSET STRING
      BY AnalyzerIs
    <3> QED
      BY <2>1, <3>1 DEF Analyzer
  <2>5. Onward(d, b) /\ Counts(b)
    BY <2>2, <2>3, ErrorOnward
  <2>6. JumpReported(d) <=> JumpReported(a)
    BY <2>3 DEF JumpReported
  <2>7. Met(d) = Met(a) \cup {name}
    BY <2>3 DEF Met
  <2>8. Balanced(a, b)
    BY <2>3, <2>5 DEF Onward, Balanced
  <2>9. Met(a) \subseteq Met(b) /\ name \in Met(b)
    BY <2>5, <2>7 DEF Onward
  <2> QED
    BY <2>5, <2>6, <2>8, <2>9 DEF Onward
<1> QED
  BY <1>1, <1>2, <1>3

LEMMA DeclaredIs ==
    ASSUME NEW a \in Analyzer, NEW name \in STRING, NEW loc \in Nat,
           NEW b, b = Declared(a, name, loc)
    PROVE  Onward(a, b) /\ name \in Met(b)
<1>1. CASE name \in Range(a.declared)
  <2>1. b = Error(a, "redeclared", loc)
    BY <1>1 DEF Declared
  <2>2. Onward(a, b)
    BY <2>1, ErrorOnward
  <2> QED
    BY <1>1, <2>2 DEF Onward, Met
<1>2. CASE name \notin Range(a.declared)
  <2>1. PICK q : q = a.declared
    OBVIOUS
  <2>2. q \in Seq(STRING)
    BY <2>1, AnalyzerIs
  <2>3. PICK r : r = Append(q, name)
    OBVIOUS
  <2>4. r \in Seq(STRING) /\ Range(r) = Range(q) \cup {name}
    BY <2>2, <2>3, AppendProperties, RangeAppend, ZenonT(60)
  <2>5. b = [a EXCEPT !.declared = r]
    BY <1>2, <2>1, <2>3 DEF Declared
  <2>6. /\ b \in Analyzer /\ b.hadError = a.hadError /\ b.declared = r
        /\ b.reported = a.reported /\ b.diagnostics = a.diagnostics
        /\ b.loopDepth = a.loopDepth /\ b.breakDepth = a.breakDepth
    BY <2>4, <2>5 DEF Analyzer
  <2>7. Met(b) = Met(a) \cup {name}
    BY <2>1, <2>4, <2>6 DEF Met
  <2>8. JumpReported(b) <=> JumpReported(a)
    BY <2>6 DEF JumpReported
  <2>9. Balanced(a, b) /\ (Counts(a) => Counts(b))
    BY <2>6 DEF Balanced, Counts
  <2> QED
    BY <2>7, <2>8, <2>9 DEF Onward
<1> QED
  BY <1>1, <1>2

\* The depths move, and nothing else.
LEMMA InsideIs ==
    ASSUME NEW a \in Analyzer, NEW l \in Int, NEW m \in Int, NEW b, b = Inside(a, l, m)
    PROVE  /\ b \in Analyzer /\ b.loopDepth = a.loopDepth + l
           /\ b.breakDepth = a.breakDepth + m
           /\ JumpReported(b) <=> JumpReported(a)
           /\ Met(b) = Met(a) /\ (Counts(b) <=> Counts(a))
<1>1. PICK x \in Int : x = a.loopDepth + l
  BY AnalyzerIs
<1>2. PICK y \in Int : y = a.breakDepth + m
  BY AnalyzerIs
<1>3. b = [a EXCEPT !.loopDepth = x, !.breakDepth = y]
  BY <1>1, <1>2 DEF Inside
<1>4. /\ b \in Analyzer /\ b.loopDepth = x /\ b.breakDepth = y
      /\ b.hadError = a.hadError /\ b.declared = a.declared
      /\ b.reported = a.reported /\ b.diagnostics = a.diagnostics
  BY <1>3 DEF Analyzer
<1> QED
  BY <1>1, <1>2, <1>4 DEF JumpReported, Met, Counts

-----------------------------------------------------------------------------
(* Lists of parts, once more.                                              *)

\* What every visit keeps.
LEMMA VisitStays ==
    ASSUME NEW D, NEW b \in D, NEW xs, Len(xs) \in Nat, NEW visit,
           \A k \in 1 .. Len(xs) : \A d \in D : visit[xs[k]][d] \in D
    PROVE  Visit(visit, xs, b) \in D
<1>1. PICK run \in [0 .. Len(xs) -> D] : IsWalk(run, visit, xs, b)
  BY VisitWalks
<1>2. PICK n : n = Len(xs)
  OBVIOUS
<1>3. run[n] \in D
  BY <1>2
<1> QED
  BY <1>1, <1>2, <1>3 DEF IsWalk

LEMMA VisitNone ==
    ASSUME NEW b, NEW visit
    PROVE  Visit(visit, << >>, b) = b
<1>1. PICK xs : xs = << >>
  OBVIOUS
<1>2. Len(xs) = 0
  BY <1>1
<1>3. PICK D : D = {b}
  OBVIOUS
<1>4. Visit(visit, xs, b) \in D
  <2>1. \A k \in 1 .. Len(xs) : \A d \in D : visit[xs[k]][d] \in D
    BY <1>2
  <2> QED
    BY <1>2, <1>3, <2>1, VisitStays
<1> QED
  BY <1>1, <1>3, <1>4

LEMMA VisitOne ==
    ASSUME NEW D, NEW b \in D, NEW visit, NEW x, \A d \in D : visit[x][d] \in D
    PROVE  Visit(visit, <<x>>, b) = visit[x][b]
<1>1. PICK xs : xs = <<x>>
  OBVIOUS
<1>2. Len(xs) \in Nat /\ Len(xs) = 1 /\ xs[1] = x
  BY <1>1
<1>3. \A k \in 1 .. Len(xs) : \A d \in D : visit[xs[k]][d] \in D
  <2>1. \A k \in 1 .. Len(xs) : k = 1
    BY <1>2
  <2> QED
    BY <1>2, <2>1, Zenon
<1>4. PICK run \in [0 .. Len(xs) -> D] : IsWalk(run, visit, xs, b)
  BY <1>2, <1>3, VisitWalks, Zenon
<1>5. /\ run[0] = b /\ \A k \in 1 .. 1 : run[k] = visit[xs[k]][run[k - 1]]
      /\ Visit(visit, xs, b) = run[1]
  BY <1>2, <1>4 DEF IsWalk
<1>6. run[1] = visit[xs[1]][run[1 - 1]]
  <2>1. 1 \in 1 .. 1
    OBVIOUS
  <2> QED
    BY <1>5, <2>1
<1>7. 1 - 1 = 0
  OBVIOUS
<1> QED
  BY <1>1, <1>2, <1>5, <1>6, <1>7

LEMMA VisitTwo ==
    ASSUME NEW D, NEW b \in D, NEW visit, NEW x, NEW y,
           \A d \in D : visit[x][d] \in D /\ visit[y][d] \in D
    PROVE  Visit(visit, <<x, y>>, b) = visit[y][visit[x][b]]
<1>1. PICK xs : xs = <<x, y>>
  OBVIOUS
<1>2. Len(xs) \in Nat /\ Len(xs) = 2 /\ xs[1] = x /\ xs[2] = y
  BY <1>1
<1>3. \A k \in 1 .. Len(xs) : \A d \in D : visit[xs[k]][d] \in D
  <2>1. \A k \in 1 .. Len(xs) : k = 1 \/ k = 2
    BY <1>2
  <2> QED
    BY <1>2, <2>1, Zenon
<1>4. PICK run \in [0 .. Len(xs) -> D] : IsWalk(run, visit, xs, b)
  BY <1>2, <1>3, VisitWalks, Zenon
<1>5. /\ run[0] = b /\ \A k \in 1 .. 2 : run[k] = visit[xs[k]][run[k - 1]]
      /\ Visit(visit, xs, b) = run[2]
  BY <1>2, <1>4 DEF IsWalk
<1>6. run[1] = visit[xs[1]][run[1 - 1]] /\ run[2] = visit[xs[2]][run[2 - 1]]
  <2>1. 1 \in 1 .. 2 /\ 2 \in 1 .. 2
    OBVIOUS
  <2> QED
    BY <1>5, <2>1
<1>7. 1 - 1 = 0 /\ 2 - 1 = 1
  OBVIOUS
<1> QED
  BY <1>1, <1>2, <1>5, <1>6, <1>7

-----------------------------------------------------------------------------
(* The analyzer's walks.                                                   *)

ExprsOnward(visit, E) == \A e \in E, a \in Analyzer : Onward(a, visit[e][a])

LEMMA ExprNodeOnward ==
    ASSUME NEW E, NEW visit, ExprsOnward(visit, E), NEW a \in Analyzer,
           NEW e \in ExprOver(E)
    PROVE  Onward(a, AnalyzeExprNode(visit, e, a))
<1> DEFINE b == AnalyzeExprNode(visit, e, a)
<1>1. \A x \in E, d \in Analyzer : visit[x][d] \in Analyzer
  BY DEF ExprsOnward, Onward, Balanced
<1>2. e.loc \in Nat
  BY ExprCases
<1>3. CASE e.kind = "VARIABLE" /\ e.name \in STRING
  <2>1. b = Used(a, e.name, e.loc)
    BY <1>3 DEF AnalyzeExprNode
  <2> QED
    BY <1>2, <1>3, <2>1, UsedIs
<1>4. CASE e.kind \in {"LITERAL_INT", "LITERAL_BOOL", "READ"}
  <2>1. Operands(e) = << >>
    BY <1>4 DEF Operands, UnaryKinds, BinaryKinds
  <2>2. b = a
    BY <1>4, <2>1, VisitNone DEF AnalyzeExprNode
  <2> QED
    BY <2>2, OnwardSame
<1>5. CASE e.kind \in UnaryKinds /\ e.operand \in E
  <2>1. Operands(e) = <<e.operand>> /\ e.kind # "VARIABLE"
    BY <1>5 DEF Operands, UnaryKinds
  <2>2. b = visit[e.operand][a]
    BY <1>1, <1>5, <2>1, VisitOne DEF AnalyzeExprNode
  <2> QED
    BY <1>5, <2>2 DEF ExprsOnward
<1>6. CASE e.kind \in BinaryKinds /\ e.left \in E /\ e.right \in E
  <2>1. Operands(e) = <<e.left, e.right>> /\ e.kind # "VARIABLE"
    BY <1>6 DEF Operands, UnaryKinds, BinaryKinds
  <2>2. b = visit[e.right][visit[e.left][a]]
    BY <1>1, <1>6, <2>1, VisitTwo DEF AnalyzeExprNode
  <2>3. Onward(a, visit[e.left][a]) /\ visit[e.left][a] \in Analyzer
    BY <1>1, <1>6 DEF ExprsOnward
  <2>4. Onward(visit[e.left][a], b)
    BY <1>6, <2>2, <2>3 DEF ExprsOnward
  <2> QED
    BY <2>3, <2>4, OnwardTrans
<1> HIDE DEF b
<1> QED
  BY <1>3, <1>4, <1>5, <1>6, ExprCases DEF BinaryKinds

LEMMA ExprOnward ==
    \A e \in Expr, a \in Analyzer : Onward(a, AnalyzeExpr(e, a))
<1> DEFINE S == {h \in 0 .. MaxHeight : ExprsOnward(AnalyzeExprUpTo[h], ExprUpTo[h])}
<1>1. 0 \in S
  <2>1. ExprsOnward(AnalyzeExprUpTo[0], ExprUpTo[0])
    BY ExprLevels DEF ExprsOnward
  <2> QED
    BY <2>1, MaxHeightAssumption
<1>2. ASSUME NEW h \in 1 .. MaxHeight, h - 1 \in S
      PROVE  h \in S
  <2>1. h \in Heights /\ h # 0
    BY MaxHeightAssumption DEF Heights
  <2>2. PICK E : E = ExprUpTo[h - 1]
    OBVIOUS
  <2>3. PICK visit : visit = AnalyzeExprUpTo[h - 1]
    OBVIOUS
  <2>4. ExprsOnward(visit, E)
    BY <1>2, <2>2, <2>3
  <2>5. ExprUpTo[h] = ExprOver(E)
    BY <2>1, <2>2, ExprLevels
  <2>6. ASSUME NEW e \in ExprUpTo[h], NEW a \in Analyzer
        PROVE  Onward(a, AnalyzeExprUpTo[h][e][a])
    <3>1. AnalyzeExprUpTo[h][e][a] = AnalyzeExprNode(visit, e, a)
      BY <2>1, <2>3, AnalyzeExprLevels, Zenon
    <3>2. Onward(a, AnalyzeExprNode(visit, e, a))
      BY <2>4, <2>5, ExprNodeOnward
    <3> QED
      BY <3>1, <3>2
  <2>7. ExprsOnward(AnalyzeExprUpTo[h], ExprUpTo[h])
    BY <2>6 DEF ExprsOnward
  <2> QED
    BY <2>7
<1>3. \A h \in 0 .. MaxHeight : h \in S
  <2> HIDE DEF S
  <2> QED
    BY <1>1, <1>2, MaxHeightAssumption, InductionTo, Zenon
<1>4. ExprsOnward(AnalyzeExprUpTo[MaxHeight], ExprUpTo[MaxHeight])
  BY <1>3, MaxHeightAssumption
<1> QED
  BY <1>4 DEF ExprsOnward, Expr, AnalyzeExpr

LEMMA LabelOnward ==
    ASSUME NEW a \in Analyzer, NEW cases, NEW k, cases[k].loc \in Nat
    PROVE  Onward(a, AnalyzeLabel(cases, k, a))
<1>1. PICK label : label = cases[k]
  OBVIOUS
<1>2. PICK seen : seen = {cases[j].value : j \in 1 .. k - 1}
  OBVIOUS
<1>3. PICK b : b = IF label.value \in seen THEN Error(a, "sameCase", label.loc) ELSE a
  OBVIOUS
<1>4. Onward(a, b)
  BY <1>1, <1>3, ErrorOnward, OnwardSame
<1>5. b \in Analyzer
  BY <1>4 DEF Onward, Balanced
<1>6. PICK d : d = IF label.body = << >> THEN Error(b, "emptyCase", label.loc) ELSE b
  OBVIOUS
<1>7. Onward(b, d)
  BY <1>1, <1>5, <1>6, ErrorOnward, OnwardSame
<1>8. d = AnalyzeLabel(cases, k, a)
  BY <1>1, <1>2, <1>3, <1>6, Zenon DEF AnalyzeLabel
<1> QED
  BY <1>4, <1>7, <1>8, OnwardTrans

\* The first loop over the cases of a pili.
Labels(cases, a) ==
    Visit([k \in 1 .. Len(cases) |-> [b \in Analyzer |-> AnalyzeLabel(cases, k, b)]],
          [k \in 1 .. Len(cases) |-> k], a)

LEMMA LabelsOnward ==
    ASSUME NEW a \in Analyzer, NEW cases, Len(cases) \in Nat,
           \A k \in 1 .. Len(cases) : cases[k].loc \in Nat
    PROVE  Onward(a, Labels(cases, a))
<1>1. PICK N \in Nat : N = Len(cases)
  OBVIOUS
<1>2. PICK xs : xs = [k \in 1 .. N |-> k]
  OBVIOUS
<1>3. Len(xs) = N /\ Len(xs) \in Nat /\ \A k \in 1 .. N : xs[k] = k
  <2>1. xs \in Seq(Nat) /\ DOMAIN xs = 1 .. N
    BY <1>2
  <2> QED
    BY <1>2, <2>1
<1>4. PICK table : table = [k \in 1 .. N |->
                               [b \in Analyzer |-> AnalyzeLabel(cases, k, b)]]
  OBVIOUS
<1>5. Labels(cases, a) = Visit(table, xs, a)
  BY <1>1, <1>2, <1>4, Zenon DEF Labels
<1>6. PICK D : D = {b \in Analyzer : Onward(a, b)}
  OBVIOUS
<1>7. a \in D
  BY <1>6, OnwardSame
<1>8. ASSUME NEW k \in 1 .. Len(xs), NEW b \in D
      PROVE  table[xs[k]][b] \in D
  <2>1. k \in 1 .. N /\ xs[k] = k /\ b \in Analyzer /\ Onward(a, b)
    BY <1>3, <1>6
  <2>2. table[xs[k]][b] = AnalyzeLabel(cases, k, b)
    BY <1>4, <2>1
  <2>3. Onward(b, AnalyzeLabel(cases, k, b))
    BY <1>1, <2>1, LabelOnward
  <2>4. Onward(a, AnalyzeLabel(cases, k, b))
    BY <2>1, <2>3, OnwardTrans
  <2>5. AnalyzeLabel(cases, k, b) \in Analyzer
    BY <2>3 DEF Onward, Balanced
  <2> QED
    BY <1>6, <2>2, <2>4, <2>5
<1>9. Visit(table, xs, a) \in D
  BY <1>3, <1>7, <1>8, VisitStays, Zenon
<1> QED
  BY <1>5, <1>6, <1>9

-----------------------------------------------------------------------------
(* A statement leaves the analyzer's depths as they were.                  *)

StmtsBalanced(visit, S) == \A s \in S, a \in Analyzer : Balanced(a, visit[s][a])

LEMMA BalancedSame ==
    ASSUME NEW a \in Analyzer
    PROVE  Balanced(a, a)
BY DEF Balanced

LEMMA ListBalanced ==
    ASSUME NEW S, NEW visit, StmtsBalanced(visit, S), NEW xs \in Seq(S),
           NEW a \in Analyzer
    PROVE  Balanced(a, Visit(visit, xs, a))
<1>1. PICK D : D = {b \in Analyzer : Balanced(a, b)}
  OBVIOUS
<1>2. a \in D
  BY <1>1, BalancedSame
<1>3. Len(xs) \in Nat /\ \A k \in 1 .. Len(xs) : xs[k] \in S
  OBVIOUS
<1>4. ASSUME NEW k \in 1 .. Len(xs), NEW b \in D
      PROVE  visit[xs[k]][b] \in D
  <2>1. b \in Analyzer /\ Balanced(a, b)
    BY <1>1
  <2>2. Balanced(b, visit[xs[k]][b])
    BY <1>3, <2>1 DEF StmtsBalanced
  <2>3. visit[xs[k]][b] \in Analyzer
    BY <2>2 DEF Balanced
  <2> QED
    BY <1>1, <2>1, <2>2, <2>3, BalancedTrans
<1>5. Visit(visit, xs, a) \in D
  BY <1>2, <1>3, <1>4, VisitStays, Zenon
<1> QED
  BY <1>1, <1>5

LEMMA BodyBalanced ==
    ASSUME NEW S, NEW visit, StmtsBalanced(visit, S), NEW a \in Analyzer,
           NEW s, s.body \in S
    PROVE  Balanced(a, AnalyzeBody(visit, s, a))
<1>1. PICK b : b = EnterLoop(a)
  OBVIOUS
<1>2. /\ b \in Analyzer /\ b.loopDepth = a.loopDepth + 1
      /\ b.breakDepth = a.breakDepth + 1
  BY <1>1, InsideIs DEF EnterLoop
<1>3. PICK d : d = visit[s.body][b]
  OBVIOUS
<1>4. d \in Analyzer /\ d.loopDepth = b.loopDepth /\ d.breakDepth = b.breakDepth
  BY <1>2, <1>3 DEF StmtsBalanced, Balanced
<1>5. PICK e : e = LeaveLoop(d)
  OBVIOUS
<1>6. -1 \in Int /\ e = Inside(d, -1, -1)
  BY <1>5 DEF LeaveLoop
<1>7. /\ e \in Analyzer /\ e.loopDepth = d.loopDepth + (-1)
      /\ e.breakDepth = d.breakDepth + (-1)
  BY <1>4, <1>6, InsideIs
<1>8. e.loopDepth = a.loopDepth /\ e.breakDepth = a.breakDepth
  BY <1>2, <1>4, <1>7, AnalyzerIs
<1>9. e = AnalyzeBody(visit, s, a)
  BY <1>1, <1>3, <1>5, Zenon DEF AnalyzeBody
<1> QED
  BY <1>7, <1>8, <1>9 DEF Balanced

\* The second loop over the cases of a pili.
Bodies(visit, cases, a) ==
    Visit([case \in Range(cases) |-> [b \in Analyzer |-> Visit(visit, case.body, b)]],
          cases, a)

LEMMA SwitchParts ==
    ASSUME NEW visit, NEW s, NEW a
    PROVE  AnalyzeSwitch(visit, s, a) =
               LeaveSwitch(Bodies(visit, s.cases,
                   EnterSwitch(Labels(s.cases, AnalyzeExpr(s.subject, a)))))
BY Zenon DEF AnalyzeSwitch, Labels, Bodies

LEMMA CasesAre ==
    ASSUME NEW S, NEW cases \in Seq(CaseNode(S))
    PROVE  /\ Len(cases) \in Nat
           /\ \A k \in 1 .. Len(cases) :
                 /\ cases[k] \in Range(cases) /\ cases[k].loc \in Nat
                 /\ cases[k].value \in CInt /\ cases[k].body \in Seq(S)
<1>1. Len(cases) \in Nat /\ DOMAIN cases = 1 .. Len(cases)
      /\ \A k \in 1 .. Len(cases) : cases[k] \in CaseNode(S)
  OBVIOUS
<1>2. ASSUME NEW k \in 1 .. Len(cases)
      PROVE  /\ cases[k] \in Range(cases) /\ cases[k].loc \in Nat
             /\ cases[k].value \in CInt /\ cases[k].body \in Seq(S)
  <2>1. cases[k] \in Range(cases)
    BY <1>1 DEF Range
  <2>2. cases[k] \in CaseNode(S)
    BY <1>1
  <2> QED
    BY <2>1, <2>2 DEF CaseNode, Place
<1> QED
  BY <1>1, <1>2

LEMMA BodiesBalanced ==
    ASSUME NEW S, NEW visit, StmtsBalanced(visit, S), NEW a \in Analyzer,
           NEW cases \in Seq(CaseNode(S))
    PROVE  Balanced(a, Bodies(visit, cases, a))
<1>1. PICK table : table = [case \in Range(cases) |->
                               [b \in Analyzer |-> Visit(visit, case.body, b)]]
  OBVIOUS
<1>2. PICK D : D = {b \in Analyzer : Balanced(a, b)}
  OBVIOUS
<1>3. a \in D
  BY <1>2, BalancedSame
<1>4. Len(cases) \in Nat
  BY CasesAre
<1>5. ASSUME NEW k \in 1 .. Len(cases), NEW b \in D
      PROVE  table[cases[k]][b] \in D
  <2>1. b \in Analyzer /\ Balanced(a, b)
    BY <1>2
  <2>2. cases[k] \in Range(cases) /\ cases[k].body \in Seq(S)
    BY CasesAre
  <2>3. PICK d : d = Visit(visit, cases[k].body, b)
    OBVIOUS
  <2>4. table[cases[k]][b] = d
    BY <1>1, <2>1, <2>2, <2>3
  <2>5. Balanced(b, d)
    BY <2>1, <2>2, <2>3, ListBalanced
  <2>6. d \in Analyzer
    BY <2>5 DEF Balanced
  <2> QED
    BY <1>2, <2>1, <2>4, <2>5, <2>6, BalancedTrans
<1>6. Visit(table, cases, a) \in D
  BY <1>3, <1>4, <1>5, VisitStays, Zenon
<1>7. Bodies(visit, cases, a) = Visit(table, cases, a)
  BY <1>1, Zenon DEF Bodies
<1> QED
  BY <1>2, <1>6, <1>7

LEMMA SwitchBalanced ==
    ASSUME NEW S, NEW visit, StmtsBalanced(visit, S), NEW a \in Analyzer, NEW s,
           s.subject \in Expr, s.cases \in Seq(CaseNode(S))
    PROVE  Balanced(a, AnalyzeSwitch(visit, s, a))
<1>1. PICK v : v = AnalyzeExpr(s.subject, a)
  OBVIOUS
<1>2. Balanced(a, v)
  BY <1>1, ExprOnward DEF Onward
<1>3. PICK l : l = Labels(s.cases, v)
  OBVIOUS
<1>4. v \in Analyzer
  BY <1>2 DEF Balanced
<1>5. Balanced(v, l)
  BY <1>3, <1>4, CasesAre, LabelsOnward DEF Onward
<1>6. PICK b : b = EnterSwitch(l)
  OBVIOUS
<1>7. l \in Analyzer
  BY <1>5 DEF Balanced
<1>8. /\ b \in Analyzer /\ b.loopDepth = l.loopDepth + 0
      /\ b.breakDepth = l.breakDepth + 1
  BY <1>6, <1>7, InsideIs DEF EnterSwitch
<1>9. PICK d : d = Bodies(visit, s.cases, b)
  OBVIOUS
<1>10. Balanced(b, d)
  BY <1>8, <1>9, BodiesBalanced
<1>11. d \in Analyzer /\ d.loopDepth = b.loopDepth /\ d.breakDepth = b.breakDepth
  BY <1>10 DEF Balanced
<1>12. PICK e : e = LeaveSwitch(d)
  OBVIOUS
<1>13. -1 \in Int /\ e = Inside(d, 0, -1)
  BY <1>12 DEF LeaveSwitch
<1>14. /\ e \in Analyzer /\ e.loopDepth = d.loopDepth + 0
       /\ e.breakDepth = d.breakDepth + (-1)
  BY <1>11, <1>13, InsideIs
<1>15. Balanced(l, e)
  BY <1>7, <1>8, <1>11, <1>14, AnalyzerIs DEF Balanced
<1>16. e = AnalyzeSwitch(visit, s, a)
  BY <1>1, <1>3, <1>6, <1>9, <1>12, SwitchParts, Zenon
<1> QED
  BY <1>2, <1>5, <1>15, <1>16, BalancedTrans

LEMMA StmtNodeBalanced ==
    ASSUME NEW S, NEW visit, StmtsBalanced(visit, S), NEW a \in Analyzer,
           NEW s \in StmtOver(S)
    PROVE  Balanced(a, AnalyzeStmtNode(visit, s, a))
<1> DEFINE b == AnalyzeStmtNode(visit, s, a)
<1>1. s.loc \in Nat /\ HasParts(S, s)
  BY StmtCases
<1>2. \A e \in Expr, d \in Analyzer :
          Balanced(d, AnalyzeExpr(e, d)) /\ AnalyzeExpr(e, d) \in Analyzer
  BY ExprOnward DEF Onward, Balanced
<1>3. \A x \in S, d \in Analyzer : Balanced(d, visit[x][d]) /\ visit[x][d] \in Analyzer
  BY DEF StmtsBalanced, Balanced
<1>4. CASE s.kind = "ASSIGN" /\ s.name \in STRING /\ s.value \in Expr
  <2>1. b = Used(AnalyzeExpr(s.value, a), s.name, s.loc)
    BY <1>4 DEF AnalyzeStmtNode
  <2>2. Balanced(AnalyzeExpr(s.value, a), b)
    BY <1>1, <1>2, <1>4, <2>1, UsedIs DEF Onward
  <2> QED
    BY <1>2, <1>4, <2>2, BalancedTrans
<1>5. CASE s.kind = "VAR_DECL" /\ s.name \in STRING /\ s.initializer \in Expr
  <2>1. b = Declared(AnalyzeExpr(s.initializer, a), s.name, s.loc)
    BY <1>5 DEF AnalyzeStmtNode
  <2>2. Balanced(AnalyzeExpr(s.initializer, a), b)
    BY <1>1, <1>2, <1>5, <2>1, DeclaredIs DEF Onward
  <2> QED
    BY <1>2, <1>5, <2>2, BalancedTrans
<1>6. CASE /\ s.kind = "PRINT"
           /\ \/ s.isString = FALSE /\ s.expr \in Expr
              \/ s.isString = TRUE /\ s.stringLiteral \in STRING
  <2>1. s.kind = "PRINT"
    BY <1>6
  <2>2. b = IF s.isString THEN a ELSE AnalyzeExpr(s.expr, a)
    BY <2>1 DEF AnalyzeStmtNode
  <2> QED
    BY <1>2, <1>6, <2>2, BalancedSame
<1>7. CASE s.kind = "BREAK"
  <2>1. b = IF a.breakDepth = 0 THEN Error(a, "break", s.loc) ELSE a
    BY <1>7 DEF AnalyzeStmtNode
  <2>2. "break" \in Complaint
    BY DEF Complaint
  <2>3. Balanced(a, Error(a, "break", s.loc))
    BY <1>1, <2>2, ErrorIs
  <2> QED
    BY <2>1, <2>3, BalancedSame
<1>8. CASE s.kind = "CONTINUE"
  <2>1. b = IF a.loopDepth = 0 THEN Error(a, "continue", s.loc) ELSE a
    BY <1>8 DEF AnalyzeStmtNode
  <2>2. "continue" \in Complaint
    BY DEF Complaint
  <2>3. Balanced(a, Error(a, "continue", s.loc))
    BY <1>1, <2>2, ErrorIs
  <2> QED
    BY <2>1, <2>3, BalancedSame
<1>9. CASE s.kind = "BLOCK" /\ s.statements \in Seq(S)
  <2>1. b = Visit(visit, s.statements, a)
    BY <1>9 DEF AnalyzeStmtNode
  <2> QED
    BY <1>9, <2>1, ListBalanced
<1>10. CASE /\ s.kind = "IF" /\ s.condition \in Expr
            /\ s.thenBranch \in S /\ s.elseBranch \in Seq(S)
  <2>1. PICK c : c = AnalyzeExpr(s.condition, a)
    OBVIOUS
  <2>2. PICK d : d = visit[s.thenBranch][c]
    OBVIOUS
  <2>3. b = Visit(visit, s.elseBranch, d)
    BY <1>10, <2>1, <2>2 DEF AnalyzeStmtNode
  <2>4. /\ Balanced(a, c) /\ c \in Analyzer
        /\ Balanced(c, d) /\ d \in Analyzer
    BY <1>2, <1>3, <1>10, <2>1, <2>2
  <2>5. Balanced(d, b)
    BY <1>10, <2>3, <2>4, ListBalanced
  <2> QED
    BY <2>4, <2>5, BalancedTrans
<1>11. CASE s.kind \in {"WHILE", "DO_WHILE"} /\ s.condition \in Expr /\ s.body \in S
  <2>1. CASE s.kind = "WHILE"
    <3>1. PICK c : c = AnalyzeExpr(s.condition, a)
      OBVIOUS
    <3>2. b = AnalyzeBody(visit, s, c)
      BY <2>1, <3>1 DEF AnalyzeStmtNode
    <3>3. Balanced(a, c) /\ c \in Analyzer
      BY <1>2, <1>11, <3>1
    <3>4. Balanced(c, b)
      BY <1>11, <3>2, <3>3, BodyBalanced
    <3> QED
      BY <3>3, <3>4, BalancedTrans
  <2>2. CASE s.kind = "DO_WHILE"
    <3>1. PICK c : c = AnalyzeBody(visit, s, a)
      OBVIOUS
    <3>2. b = AnalyzeExpr(s.condition, c)
      BY <2>2, <3>1 DEF AnalyzeStmtNode
    <3>3. Balanced(a, c)
      BY <1>11, <3>1, BodyBalanced
    <3>4. c \in Analyzer
      BY <3>3 DEF Balanced
    <3>5. Balanced(c, b)
      BY <1>2, <1>11, <3>2, <3>4
    <3> QED
      BY <3>3, <3>5, BalancedTrans
  <2> QED
    BY <1>11, <2>1, <2>2
<1>12. CASE /\ s.kind = "FOR" /\ s.init \in S /\ s.condition \in Expr
            /\ s.update \in S /\ s.update.kind = "ASSIGN" /\ s.body \in S
  <2>1. PICK i : i = visit[s.init][a]
    OBVIOUS
  <2>2. PICK c : c = AnalyzeExpr(s.condition, i)
    OBVIOUS
  <2>3. PICK u : u = visit[s.update][c]
    OBVIOUS
  <2>4. b = AnalyzeBody(visit, s, u)
    BY <1>12, <2>1, <2>2, <2>3 DEF AnalyzeStmtNode
  <2>5. /\ Balanced(a, i) /\ i \in Analyzer
        /\ Balanced(i, c) /\ c \in Analyzer
        /\ Balanced(c, u) /\ u \in Analyzer
    BY <1>2, <1>3, <1>12, <2>1, <2>2, <2>3
  <2>6. Balanced(u, b)
    BY <1>12, <2>4, <2>5, BodyBalanced
  <2> QED
    BY <2>5, <2>6, BalancedTrans
<1>13. CASE s.kind = "SWITCH" /\ s.subject \in Expr /\ s.cases \in Seq(CaseNode(S))
  <2>1. b = AnalyzeSwitch(visit, s, a)
    BY <1>13 DEF AnalyzeStmtNode
  <2> QED
    BY <1>13, <2>1, SwitchBalanced
<1> HIDE DEF b
<1> QED
  BY <1>1, <1>4, <1>5, <1>6, <1>7, <1>8, <1>9, <1>10, <1>11, <1>12, <1>13 DEF HasParts

LEMMA StmtsBalancedLevels ==
    \A h \in 0 .. MaxHeight : StmtsBalanced(AnalyzeStmtUpTo[h], StmtUpTo[h])
<1> DEFINE H == {h \in 0 .. MaxHeight : StmtsBalanced(AnalyzeStmtUpTo[h], StmtUpTo[h])}
<1>1. 0 \in H
  <2>1. StmtsBalanced(AnalyzeStmtUpTo[0], StmtUpTo[0])
    BY StmtLevels DEF StmtsBalanced
  <2> QED
    BY <2>1, MaxHeightAssumption
<1>2. ASSUME NEW h \in 1 .. MaxHeight, h - 1 \in H
      PROVE  h \in H
  <2>1. h \in Heights /\ h # 0
    BY MaxHeightAssumption DEF Heights
  <2>2. PICK S : S = StmtUpTo[h - 1]
    OBVIOUS
  <2>3. PICK visit : visit = AnalyzeStmtUpTo[h - 1]
    OBVIOUS
  <2>4. StmtsBalanced(visit, S)
    BY <1>2, <2>2, <2>3
  <2>5. ASSUME NEW s \in StmtUpTo[h], NEW a \in Analyzer
        PROVE  Balanced(a, AnalyzeStmtUpTo[h][s][a])
    <3>1. AnalyzeStmtUpTo[h][s][a] = AnalyzeStmtNode(visit, s, a)
      BY <2>1, <2>3, AnalyzeStmtLevels, Zenon
    <3>2. s \in StmtOver(S)
      BY <2>1, <2>2, StmtLevels, Zenon
    <3>3. Balanced(a, AnalyzeStmtNode(visit, s, a))
      BY <2>4, <3>2, StmtNodeBalanced
    <3> QED
      BY <3>1, <3>3
  <2>6. StmtsBalanced(AnalyzeStmtUpTo[h], StmtUpTo[h])
    BY <2>5, Zenon DEF StmtsBalanced
  <2> QED
    BY <2>6
<1>3. \A h \in 0 .. MaxHeight : h \in H
  <2> HIDE DEF H
  <2> QED
    BY <1>1, <1>2, MaxHeightAssumption, InductionTo, Zenon
<1> QED
  BY <1>3

-----------------------------------------------------------------------------
(* The compiler and the analyzer walk over the same tree.                  *)

\* What the compiler does that the analyzer has no counterpart of.
Quiet(c, d) ==
    /\ d \in Compiler /\ d.aborted = c.aborted
    /\ d.chunk.globalNames = c.chunk.globalNames

\* What the analyzer does that the compiler has no counterpart of.
Follows(a, b) ==
    /\ b \in Analyzer
    /\ JumpReported(b) <=> JumpReported(a)
    /\ Met(a) \subseteq Met(b)
    /\ Counts(a) => Counts(b)

\* An assert failed where a jump was reported, and the chunk has no name
\* that the analyzer did not meet.
Agree(c, a) ==
    /\ c \in Compiler /\ a \in Analyzer
    /\ (c.aborted = TRUE) <=> JumpReported(a)
    /\ Range(c.chunk.globalNames) \subseteq Met(a)
    /\ Counts(a)

\* The depths say what the scopes are.
AtHome(c, a) ==
    /\ a.breakDepth >= 0 /\ a.loopDepth >= 0
    /\ a.breakDepth = 0 <=> Len(c.scopes) = 0
    /\ a.loopDepth = 0 <=> LoopsIn(c.scopes) = {}

LEMMA QuietTrans ==
    ASSUME NEW c, NEW d, NEW e, Quiet(c, d), Quiet(d, e)
    PROVE  Quiet(c, e)
BY DEF Quiet

LEMMA FollowsTrans ==
    ASSUME NEW a, NEW b, NEW d, Follows(a, b), Follows(b, d)
    PROVE  Follows(a, d)
BY DEF Follows

LEMMA OnwardFollows ==
    ASSUME NEW a, NEW b, Onward(a, b)
    PROVE  Follows(a, b)
BY DEF Onward, Balanced, Follows

LEMMA InsideFollows ==
    ASSUME NEW a \in Analyzer
    PROVE  /\ Follows(a, EnterLoop(a)) /\ Follows(a, LeaveLoop(a))
           /\ Follows(a, EnterSwitch(a)) /\ Follows(a, LeaveSwitch(a))
<1>1. -1 \in Int /\ 0 \in Int /\ 1 \in Int
  OBVIOUS
<1>2. ASSUME NEW l \in Int, NEW m \in Int
      PROVE  Follows(a, Inside(a, l, m))
  <2>1. PICK b : b = Inside(a, l, m)
    OBVIOUS
  <2>2. /\ b \in Analyzer
        /\ JumpReported(b) <=> JumpReported(a)
        /\ Met(b) = Met(a) /\ (Counts(b) <=> Counts(a))
    BY <2>1, InsideIs
  <2> QED
    BY <2>1, <2>2 DEF Follows
<1> QED
  BY <1>1, <1>2 DEF EnterLoop, LeaveLoop, EnterSwitch, LeaveSwitch

LEMMA AgreeAfter ==
    ASSUME NEW c, NEW a, Agree(c, a), NEW d, Quiet(c, d), NEW b, Follows(a, b)
    PROVE  Agree(d, b)
BY DEF Agree, Quiet, Follows

LEMMA AgreeQuiet ==
    ASSUME NEW c, NEW a, Agree(c, a), NEW d, Quiet(c, d)
    PROVE  Agree(d, a)
BY DEF Agree, Quiet

LEMMA AgreeFollows ==
    ASSUME NEW c, NEW a, Agree(c, a), NEW b, Follows(a, b)
    PROVE  Agree(c, b)
BY DEF Agree, Follows

LEMMA AgreeTypes ==
    ASSUME NEW c, NEW a, Agree(c, a)
    PROVE  c \in Compiler /\ a \in Analyzer
BY DEF Agree

-----------------------------------------------------------------------------
(* The compiler's own operations.                                          *)

LEMMA QuietOps ==
    ASSUME NEW c, NEW d \in Compiler, KeepsPools(c, d), KeepsScopes(c, d)
    PROVE  Quiet(c, d)
BY DEF Quiet, KeepsPools, KeepsScopes

LEMMA QuietEmit ==
    ASSUME NEW c \in Compiler, NEW op \in OpCode, NEW operand \in Int, NEW loc \in Nat,
           NEW d, d = Emit(c, op, operand, loc)
    PROVE  Quiet(c, d) /\ KeepsScopes(c, d)
<1>1. d \in Compiler /\ KeepsPools(c, d) /\ KeepsScopes(c, d)
  BY EmitIs
<1> QED
  BY <1>1, QuietOps

LEMMA QuietPatch ==
    ASSUME NEW c \in Compiler, NEW places, NEW target \in Int,
           NEW d, d = PatchJumps(c, places, target)
    PROVE  Quiet(c, d) /\ KeepsScopes(c, d)
<1>1. d \in Compiler /\ KeepsPools(c, d) /\ KeepsScopes(c, d)
  BY PatchIs
<1> QED
  BY <1>1, QuietOps

LEMMA QuietGrown ==
    ASSUME NEW c, NEW b \in Compiler, Grown(c, b),
           b.chunk.globalNames = c.chunk.globalNames
    PROVE  Quiet(c, b) /\ KeepsScopes(c, b)
BY DEF Quiet, Grown, KeepsScopes

LEMMA QuietInt ==
    ASSUME NEW c \in Compiler, NEW v \in CInt, NEW loc \in Nat, NEW d, d = EmitInt(c, v, loc)
    PROVE  Quiet(c, d) /\ KeepsScopes(c, d)
<1>1. PICK b \in Compiler, k \in Nat :
          /\ Grown(c, b) /\ b.chunk.globalNames = c.chunk.globalNames
          /\ d = Emit(b, "OP_CONST_INT", k, loc)
  BY EmitIntIs
<1>2. "OP_CONST_INT" \in OpCode /\ k \in Int
  BY DEF OpCode
<1>3. Quiet(b, d) /\ KeepsScopes(b, d)
  BY <1>1, <1>2, QuietEmit
<1>4. Quiet(c, b) /\ KeepsScopes(c, b)
  BY <1>1, QuietGrown
<1> QED
  BY <1>3, <1>4, QuietTrans, ScopesKeptTrans

LEMMA QuietString ==
    ASSUME NEW c \in Compiler, NEW v \in STRING, NEW loc \in Nat,
           NEW d, d = EmitString(c, v, loc)
    PROVE  Quiet(c, d) /\ KeepsScopes(c, d)
<1>1. PICK b \in Compiler, k \in Nat :
          /\ Grown(c, b) /\ b.chunk.globalNames = c.chunk.globalNames
          /\ d = Emit(b, "OP_PRINT_STR", k, loc)
  BY EmitStringIs
<1>2. "OP_PRINT_STR" \in OpCode /\ k \in Int
  BY DEF OpCode
<1>3. Quiet(b, d) /\ KeepsScopes(b, d)
  BY <1>1, <1>2, QuietEmit
<1>4. Quiet(c, b) /\ KeepsScopes(c, b)
  BY <1>1, QuietGrown
<1> QED
  BY <1>3, <1>4, QuietTrans, ScopesKeptTrans

\* The analyzer has met the name.
LEMMA GlobalAgree ==
    ASSUME NEW c, NEW a, Agree(c, a), NEW op \in GlobalOps, NEW v \in STRING,
           v \in Met(a), NEW loc \in Nat, NEW d, d = EmitGlobal(c, op, v, loc)
    PROVE  Agree(d, a)
<1>1. c \in Compiler
  BY AgreeTypes
<1>2. PICK b \in Compiler, k \in Nat :
          /\ Grown(c, b) /\ AddsTo(c.chunk.globalNames, v, b.chunk.globalNames)
          /\ d = Emit(b, op, k, loc)
  BY <1>1, EmitGlobalIs
<1>3. Agree(b, a)
  BY <1>2 DEF Agree, Grown, KeepsScopes, AddsTo
<1>4. op \in OpCode /\ k \in Int
  BY DEF OpCode, GlobalOps
<1>5. Quiet(b, d)
  BY <1>2, <1>4, QuietEmit
<1> QED
  BY <1>3, <1>5, AgreeQuiet

LEMMA QuietPush ==
    ASSUME NEW c \in Compiler, NEW scope \in {LoopScope, SwitchScope},
           NEW d, d = PushScope(c, scope)
    PROVE  Quiet(c, d)
<1>1. d \in Compiler /\ d.chunk = c.chunk /\ d.aborted = c.aborted
  BY PushLaid
<1> QED
  BY <1>1 DEF Quiet

LEMMA QuietPop ==
    ASSUME NEW c \in Compiler, Len(c.scopes) # 0, NEW d, d = PopScope(c)
    PROVE  Quiet(c, d)
<1>1. d \in Compiler /\ d.chunk = c.chunk /\ d.aborted = c.aborted
  BY PopLaid
<1> QED
  BY <1>1 DEF Quiet

LEMMA QuietJump ==
    ASSUME NEW c \in Compiler, NEW target \in 1 .. Len(c.scopes), NEW loc \in Nat,
           NEW d, d = EmitJump(c, target, loc)
    PROVE  Quiet(c, d) /\ KeepsScopes(c, d) /\ NextPlace(d) - 1 \in Nat
<1>1. PICK h : h = Held(c.scopes)[target]
  OBVIOUS
<1>2. PICK n : n = Total(c) - h
  OBVIOUS
<1>3. n \in Nat
  <2>1. target \in 0 .. Len(c.scopes)
    OBVIOUS
  <2>2. h \in Nat /\ Total(c) \in Nat
    BY <1>1, <2>1, ScopeLengths
  <2>3. h <= Total(c)
    BY <1>1, <2>1, ScopeLengths, HeldGrows DEF Total
  <2> QED
    BY <1>2, <2>2, <2>3
<1>4. PICK b : b = EmitPops(c, n, loc)
  OBVIOUS
<1>5. b \in Compiler /\ KeepsPools(c, b) /\ KeepsScopes(c, b)
  BY <1>3, <1>4, EmitPopsIs
<1>6. d = Emit(b, "OP_JUMP", -1, loc)
  BY <1>1, <1>2, <1>4 DEF EmitJump, EmitForward, Total
<1>7. "OP_JUMP" \in OpCode
  BY DEF OpCode, JumpOps
<1>8. Quiet(b, d) /\ KeepsScopes(b, d)
  <2>1. PICK x \in Int : x = -1
    OBVIOUS
  <2> QED
    BY <1>5, <1>6, <1>7, <2>1, QuietEmit
<1>9. Quiet(c, b)
  BY <1>5, QuietOps
<1>10. NextPlace(d) - 1 \in Nat
  BY JumpLaid
<1> QED
  BY <1>5, <1>8, <1>9, <1>10, QuietTrans, ScopesKeptTrans

LEMMA QuietLand ==
    ASSUME NEW c \in Compiler, NEW jump, NEW loc \in Nat, NEW d, d = LandExit(c, jump, loc)
    PROVE  Quiet(c, d) /\ KeepsScopes(c, d)
<1>1. PICK b : b = PatchJumps(c, {jump}, NextPlace(c))
  OBVIOUS
<1>2. NextPlace(c) \in Int
  BY CompilerIs
<1>3. Quiet(c, b) /\ KeepsScopes(c, b)
  BY <1>1, <1>2, QuietPatch
<1>4. d = Emit(b, "OP_POP", 0, loc)
  BY <1>1 DEF LandExit, PatchJump
<1>5. "OP_POP" \in OpCode /\ 0 \in Int /\ b \in Compiler
  BY <1>3 DEF OpCode, Quiet
<1>6. Quiet(b, d) /\ KeepsScopes(b, d)
  BY <1>4, <1>5, QuietEmit
<1> QED
  BY <1>3, <1>6, QuietTrans, ScopesKeptTrans

LEMMA QuietContinues ==
    ASSUME NEW c \in Compiler, NEW target \in Int, NEW d, d = PatchContinues(c, target)
    PROVE  Quiet(c, d) /\ KeepsScopes(c, d)
<1>1. d = PatchJumps(c, Range(InnerScope(c).continueJumps), target)
  BY DEF PatchContinues
<1> QED
  BY <1>1, QuietPatch, Zenon

LEMMA QuietBreaks ==
    ASSUME NEW c \in Compiler, NEW d, d = PatchBreaks(c)
    PROVE  Quiet(c, d) /\ KeepsScopes(c, d)
<1>1. d = PatchJumps(c, Range(InnerScope(c).breakJumps), NextPlace(c))
  BY DEF PatchBreaks
<1>2. NextPlace(c) \in Int
  BY CompilerIs
<1> QED
  BY <1>1, <1>2, QuietPatch, Zenon

LEMMA QuietClose ==
    ASSUME NEW c \in Compiler, Len(c.scopes) # 0, NEW s, s.loc \in Nat, NEW x,
           NEW d, d = CloseLoop(s, c, x)
    PROVE  Quiet(c, d)
<1>1. PICK loc \in Nat : loc = s.loc
  OBVIOUS
<1>2. PICK l : l = LandExit(c, x, loc)
  OBVIOUS
<1>3. Quiet(c, l) /\ KeepsScopes(c, l)
  BY <1>2, QuietLand
<1>4. PICK b : b = PatchBreaks(l)
  OBVIOUS
<1>5. l \in Compiler
  BY <1>3 DEF Quiet
<1>6. Quiet(l, b) /\ KeepsScopes(l, b)
  BY <1>4, <1>5, QuietBreaks
<1>7. d = PopScope(b)
  BY <1>1, <1>2, <1>4 DEF CloseLoop
<1>8. b \in Compiler /\ Len(b.scopes) # 0
  BY <1>3, <1>6 DEF Quiet, KeepsScopes
<1>9. Quiet(b, d)
  BY <1>7, <1>8, QuietPop
<1> QED
  BY <1>3, <1>6, <1>9, QuietTrans

-----------------------------------------------------------------------------
(* The scopes and the depths.                                              *)

LEMMA LoopsKept ==
    ASSUME NEW c \in Compiler, NEW d \in Compiler, Shape(c, d)
    PROVE  LoopsIn(d.scopes) = LoopsIn(c.scopes)
<1>1. c.scopes \in Seq(Scope) /\ d.scopes \in Seq(Scope)
  BY CompilerIs
<1>2. DOMAIN c.scopes = 1 .. Len(c.scopes) /\ DOMAIN d.scopes = 1 .. Len(d.scopes)
  BY <1>1
<1> QED
  BY <1>2 DEF LoopsIn, Shape

LEMMA AtHomeKept ==
    ASSUME NEW c \in Compiler, NEW d \in Compiler, Shape(c, d),
           NEW a, NEW b, Balanced(a, b), AtHome(c, a)
    PROVE  AtHome(d, b)
<1>1. LoopsIn(d.scopes) = LoopsIn(c.scopes)
  BY LoopsKept
<1>2. Len(d.scopes) = Len(c.scopes)
  BY DEF Shape
<1> QED
  BY <1>1, <1>2 DEF AtHome, Balanced

LEMMA LoopsPushed ==
    ASSUME NEW c \in Compiler, NEW scope \in {LoopScope, SwitchScope},
           NEW d, d = PushScope(c, scope)
    PROVE  /\ Len(d.scopes) # 0
           /\ scope.kind = "Loop" => LoopsIn(d.scopes) # {}
           /\ scope.kind = "Switch" =>
                 (LoopsIn(d.scopes) = {} <=> LoopsIn(c.scopes) = {})
<1>1. PICK N \in Nat : N = Len(c.scopes)
  BY ScopeLengths
<1>2. /\ d \in Compiler /\ Len(d.scopes) = N + 1 /\ d.scopes[N + 1] = scope
      /\ \A n \in 1 .. N : d.scopes[n] = c.scopes[n]
  BY <1>1, PushLaid
<1>3. c.scopes \in Seq(Scope) /\ d.scopes \in Seq(Scope)
  BY <1>2, CompilerIs
<1>4. DOMAIN c.scopes = 1 .. N /\ DOMAIN d.scopes = 1 .. N + 1
  BY <1>1, <1>2, <1>3
<1>5. Len(d.scopes) # 0
  BY <1>2
<1>6. scope.kind = "Loop" => N + 1 \in LoopsIn(d.scopes)
  BY <1>2, <1>4 DEF LoopsIn
<1>7. ASSUME scope.kind = "Switch"
      PROVE  LoopsIn(d.scopes) = LoopsIn(c.scopes)
  BY <1>2, <1>4, <1>7 DEF LoopsIn
<1> QED
  BY <1>5, <1>6, <1>7

LEMMA AtHomeInLoop ==
    ASSUME NEW c \in Compiler, NEW a \in Analyzer, AtHome(c, a)
    PROVE  AtHome(PushScope(c, LoopScope), EnterLoop(a))
<1>1. PICK d : d = PushScope(c, LoopScope)
  OBVIOUS
<1>2. PICK b : b = EnterLoop(a)
  OBVIOUS
<1>3. LoopScope.kind = "Loop"
  BY DEF LoopScope
<1>4. Len(d.scopes) # 0 /\ LoopsIn(d.scopes) # {}
  BY <1>1, <1>3, LoopsPushed
<1>5. b.loopDepth = a.loopDepth + 1 /\ b.breakDepth = a.breakDepth + 1
  BY <1>2, InsideIs DEF EnterLoop
<1>6. b.loopDepth > 0 /\ b.breakDepth > 0
  BY <1>5, AnalyzerIs DEF AtHome
<1>7. AtHome(d, b)
  BY <1>4, <1>5, <1>6, AnalyzerIs DEF AtHome
<1> QED
  BY <1>1, <1>2, <1>7

LEMMA AtHomeInSwitch ==
    ASSUME NEW c \in Compiler, NEW a \in Analyzer, AtHome(c, a)
    PROVE  AtHome(PushScope(c, SwitchScope), EnterSwitch(a))
<1>1. PICK d : d = PushScope(c, SwitchScope)
  OBVIOUS
<1>2. PICK b : b = EnterSwitch(a)
  OBVIOUS
<1>3. SwitchScope.kind = "Switch"
  BY DEF SwitchScope
<1>4. Len(d.scopes) # 0 /\ (LoopsIn(d.scopes) = {} <=> LoopsIn(c.scopes) = {})
  BY <1>1, <1>3, LoopsPushed
<1>5. b.loopDepth = a.loopDepth + 0 /\ b.breakDepth = a.breakDepth + 1
  BY <1>2, InsideIs DEF EnterSwitch
<1>6. b.loopDepth = a.loopDepth /\ b.breakDepth > 0 /\ a.loopDepth >= 0
  BY <1>5, AnalyzerIs DEF AtHome
<1>7. AtHome(d, b)
  BY <1>4, <1>5, <1>6, AnalyzerIs DEF AtHome
<1> QED
  BY <1>1, <1>2, <1>7

-----------------------------------------------------------------------------
(* Expressions.                                                            *)

ExprsAgree(cv, av, E) ==
    \A e \in E, c \in Compiler, a \in Analyzer :
        Agree(c, a) => Agree(cv[e][c], av[e][a])

LEMMA LogicalAgree ==
    ASSUME NEW E, NEW cv, NEW av, ExprsAgree(cv, av, E), NEW c, NEW a, Agree(c, a),
           NEW e, e.op \in LogOp, e.left \in E, e.right \in E, e.loc \in Nat
    PROVE  Agree(CompileLogical(cv, e, c), av[e.right][av[e.left][a]])
<1>1. PICK x : x = cv[e.left][c]
  OBVIOUS
<1>2. PICK y : y = av[e.left][a]
  OBVIOUS
<1>3. Agree(x, y)
  BY <1>1, <1>2, AgreeTypes DEF ExprsAgree
<1>4. PICK op : op = OpCodeOf[e.op]
  OBVIOUS
<1>5. op \in OpCode
  BY <1>4, OpCodes DEF OpCode, JumpOps
<1>6. PICK left : left = EmitForward(x, op, e.loc)
  OBVIOUS
<1>7. Quiet(x, left)
  <2>1. PICK m \in Int : m = -1
    OBVIOUS
  <2>2. left = Emit(x, op, m, e.loc)
    BY <1>6, <2>1 DEF EmitForward
  <2> QED
    BY <1>3, <1>5, <2>2, QuietEmit, AgreeTypes
<1>8. PICK p : p = Emit(left, "OP_POP", 0, e.loc)
  OBVIOUS
<1>9. left \in Compiler /\ "OP_POP" \in OpCode /\ 0 \in Int
  BY <1>7 DEF Quiet, OpCode
<1>10. Quiet(left, p)
  BY <1>8, <1>9, QuietEmit
<1>11. Agree(p, y)
  BY <1>3, <1>7, <1>10, QuietTrans, AgreeQuiet
<1>12. PICK right : right = cv[e.right][p]
  OBVIOUS
<1>13. Agree(right, av[e.right][y])
  BY <1>11, <1>12, AgreeTypes DEF ExprsAgree
<1>14. PICK d : d = PatchJumps(right, {NextPlace(left) - 1}, NextPlace(right))
  OBVIOUS
<1>15. right \in Compiler /\ NextPlace(right) \in Int
  BY <1>13, AgreeTypes, CompilerIs
<1>16. Quiet(right, d)
  BY <1>14, <1>15, QuietPatch
<1>17. d = CompileLogical(cv, e, c)
  BY <1>1, <1>4, <1>6, <1>8, <1>12, <1>14, Zenon DEF CompileLogical, PatchJump
<1> QED
  BY <1>2, <1>13, <1>16, <1>17, AgreeQuiet

LEMMA ExprNodeAgree ==
    ASSUME NEW E, NEW cv, NEW av, ExprsAgree(cv, av, E), ExprsOnward(av, E),
           NEW c, NEW a, Agree(c, a), NEW e \in ExprOver(E)
    PROVE  Agree(CompileExprNode(cv, e, c), AnalyzeExprNode(av, e, a))
<1> SUFFICES ASSUME NEW d, d = CompileExprNode(cv, e, c),
                    NEW b, b = AnalyzeExprNode(av, e, a)
             PROVE  Agree(d, b)
  OBVIOUS
<1>1. c \in Compiler /\ a \in Analyzer
  BY AgreeTypes
<1>2. \A x \in E, y \in Analyzer : av[x][y] \in Analyzer
  BY DEF ExprsOnward, Onward, Balanced
<1>3. e.loc \in Nat
  BY ExprCases
<1>4. CASE e.kind = "VARIABLE" /\ e.name \in STRING
  <2>1. d = EmitGlobal(c, "OP_GET_GLOBAL", e.name, e.loc)
    BY <1>4 DEF CompileExprNode, UnaryKinds
  <2>2. b = Used(a, e.name, e.loc)
    BY <1>4 DEF AnalyzeExprNode
  <2>3. Onward(a, b) /\ e.name \in Met(b)
    BY <1>1, <1>3, <1>4, <2>2, UsedIs
  <2>4. Agree(c, b)
    BY <2>3, OnwardFollows, AgreeFollows
  <2>5. "OP_GET_GLOBAL" \in GlobalOps
    BY DEF GlobalOps
  <2> QED
    BY <1>3, <1>4, <2>1, <2>3, <2>4, <2>5, GlobalAgree
<1>5. CASE e.kind = "LITERAL_INT" /\ e.int \in CInt
  <2>1. Operands(e) = << >> /\ e.kind # "VARIABLE"
    BY <1>5 DEF Operands, UnaryKinds, BinaryKinds
  <2>2. b = a
    BY <2>1, VisitNone DEF AnalyzeExprNode
  <2>3. d = EmitInt(c, e.int, e.loc)
    BY <1>5 DEF CompileExprNode, UnaryKinds
  <2>4. Quiet(c, d)
    BY <1>1, <1>3, <1>5, <2>3, QuietInt
  <2> QED
    BY <2>2, <2>4, AgreeQuiet
<1>6. CASE e.kind \in {"LITERAL_BOOL", "READ"}
  <2>1. Operands(e) = << >> /\ e.kind # "VARIABLE"
    BY <1>6 DEF Operands, UnaryKinds, BinaryKinds
  <2>2. b = a
    BY <2>1, VisitNone DEF AnalyzeExprNode
  <2>3. PICK op \in {"OP_TRUE", "OP_FALSE", "OP_READ"} : d = Emit(c, op, 0, e.loc)
    BY <1>6 DEF CompileExprNode, UnaryKinds
  <2>4. op \in OpCode /\ 0 \in Int
    BY DEF OpCode, BoolOps
  <2>5. Quiet(c, d)
    BY <1>1, <1>3, <2>3, <2>4, QuietEmit
  <2> QED
    BY <2>2, <2>5, AgreeQuiet
<1>7. CASE e.kind \in UnaryKinds /\ e.operand \in E
  <2>1. Operands(e) = <<e.operand>> /\ e.kind # "VARIABLE"
    BY <1>7 DEF Operands, UnaryKinds
  <2>2. b = av[e.operand][a]
    BY <1>1, <1>2, <1>7, <2>1, VisitOne DEF AnalyzeExprNode
  <2>3. PICK x : x = cv[e.operand][c]
    OBVIOUS
  <2>4. d = Emit(x, OpCodeOf[e.kind], 0, e.loc)
    BY <1>7, <2>3 DEF CompileExprNode, CompileUnary, UnaryKinds
  <2>5. Agree(x, b)
    BY <1>1, <1>7, <2>2, <2>3 DEF ExprsAgree
  <2>6. OpCodeOf[e.kind] \in OpCode /\ 0 \in Int
    BY <1>7, OpCodes DEF OpCode
  <2>7. Quiet(x, d)
    BY <1>3, <2>4, <2>5, <2>6, AgreeTypes, QuietEmit
  <2> QED
    BY <2>5, <2>7, AgreeQuiet
<1>8. ASSUME e.kind \in BinaryKinds, e.left \in E, e.right \in E
      PROVE  b = av[e.right][av[e.left][a]]
  <2>1. Operands(e) = <<e.left, e.right>> /\ e.kind # "VARIABLE"
    BY <1>8 DEF Operands, UnaryKinds, BinaryKinds
  <2> QED
    BY <1>1, <1>2, <1>8, <2>1, VisitTwo DEF AnalyzeExprNode
<1>9. CASE e.kind = "BINARY" /\ e.op \in BinOp /\ e.left \in E /\ e.right \in E
  <2>1. b = av[e.right][av[e.left][a]]
    BY <1>8, <1>9 DEF BinaryKinds
  <2>2. PICK x : x = cv[e.left][c]
    OBVIOUS
  <2>3. PICK y : y = av[e.left][a]
    OBVIOUS
  <2>4. Agree(x, y)
    BY <1>1, <1>9, <2>2, <2>3 DEF ExprsAgree
  <2>5. PICK z : z = cv[e.right][x]
    OBVIOUS
  <2>6. Agree(z, b)
    BY <1>9, <2>1, <2>3, <2>4, <2>5, AgreeTypes DEF ExprsAgree
  <2>7. d = Emit(z, OpCodeOf[e.op], 0, e.loc)
    BY <1>9, <2>2, <2>5 DEF CompileExprNode, CompileBinary, UnaryKinds
  <2>8. OpCodeOf[e.op] \in OpCode /\ 0 \in Int
    BY <1>9, OpCodes DEF OpCode
  <2>9. Quiet(z, d)
    BY <1>3, <2>6, <2>7, <2>8, AgreeTypes, QuietEmit
  <2> QED
    BY <2>6, <2>9, AgreeQuiet
<1>10. CASE e.kind = "LOGICAL" /\ e.op \in LogOp /\ e.left \in E /\ e.right \in E
  <2>1. b = av[e.right][av[e.left][a]]
    BY <1>8, <1>10 DEF BinaryKinds
  <2>2. d = CompileLogical(cv, e, c)
    BY <1>10 DEF CompileExprNode, UnaryKinds
  <2>3. Agree(CompileLogical(cv, e, c), av[e.right][av[e.left][a]])
    BY <1>3, <1>10, LogicalAgree
  <2> QED
    BY <2>1, <2>2, <2>3
<1> QED
  BY <1>4, <1>5, <1>6, <1>7, <1>9, <1>10, ExprCases

LEMMA ExprAgree ==
    \A e \in Expr, c \in Compiler, a \in Analyzer :
        Agree(c, a) => Agree(CompileExpr(e, c), AnalyzeExpr(e, a))
<1> DEFINE S == {h \in 0 .. MaxHeight :
                     /\ ExprsAgree(CompileExprUpTo[h], AnalyzeExprUpTo[h], ExprUpTo[h])
                     /\ ExprsOnward(AnalyzeExprUpTo[h], ExprUpTo[h])}
<1>1. 0 \in S
  <2>1. ExprsAgree(CompileExprUpTo[0], AnalyzeExprUpTo[0], ExprUpTo[0])
    BY ExprLevels DEF ExprsAgree
  <2>2. ExprsOnward(AnalyzeExprUpTo[0], ExprUpTo[0])
    BY ExprLevels DEF ExprsOnward
  <2> QED
    BY <2>1, <2>2, MaxHeightAssumption
<1>2. ASSUME NEW h \in 1 .. MaxHeight, h - 1 \in S
      PROVE  h \in S
  <2>1. h \in Heights /\ h # 0
    BY MaxHeightAssumption DEF Heights
  <2>2. PICK E : E = ExprUpTo[h - 1]
    OBVIOUS
  <2>3. PICK cv : cv = CompileExprUpTo[h - 1]
    OBVIOUS
  <2>4. PICK av : av = AnalyzeExprUpTo[h - 1]
    OBVIOUS
  <2>5. ExprsAgree(cv, av, E) /\ ExprsOnward(av, E)
    BY <1>2, <2>2, <2>3, <2>4
  <2>6. ExprUpTo[h] = ExprOver(E)
    BY <2>1, <2>2, ExprLevels
  <2>7. ASSUME NEW e \in ExprUpTo[h], NEW a \in Analyzer
        PROVE  AnalyzeExprUpTo[h][e][a] = AnalyzeExprNode(av, e, a)
    BY <2>1, <2>4, AnalyzeExprLevels, Zenon
  <2>8. ASSUME NEW e \in ExprUpTo[h], NEW c \in Compiler
        PROVE  CompileExprUpTo[h][e][c] = CompileExprNode(cv, e, c)
    BY <2>1, <2>3, CompileExprLevels, Zenon
  <2>9. ExprsOnward(AnalyzeExprUpTo[h], ExprUpTo[h])
    BY <2>5, <2>6, <2>7, ExprNodeOnward DEF ExprsOnward
  <2>10. ASSUME NEW e \in ExprUpTo[h], NEW c \in Compiler, NEW a \in Analyzer, Agree(c, a)
         PROVE  Agree(CompileExprUpTo[h][e][c], AnalyzeExprUpTo[h][e][a])
    <3>1. Agree(CompileExprNode(cv, e, c), AnalyzeExprNode(av, e, a))
      BY <2>5, <2>6, <2>10, ExprNodeAgree
    <3> QED
      BY <2>7, <2>8, <3>1
  <2>11. ExprsAgree(CompileExprUpTo[h], AnalyzeExprUpTo[h], ExprUpTo[h])
    BY <2>10, Zenon DEF ExprsAgree
  <2> QED
    BY <2>9, <2>11
<1>3. \A h \in 0 .. MaxHeight : h \in S
  <2> HIDE DEF S
  <2> QED
    BY <1>1, <1>2, MaxHeightAssumption, InductionTo, Zenon
<1>4. ExprsAgree(CompileExprUpTo[MaxHeight], AnalyzeExprUpTo[MaxHeight], ExprUpTo[MaxHeight])
  BY <1>3, MaxHeightAssumption
<1> QED
  BY <1>4 DEF ExprsAgree, Expr, CompileExpr, AnalyzeExpr

-----------------------------------------------------------------------------
(* Lists.                                                                  *)

\* Visits of two lists of one length, whose states stay in a relation R.
LEMMA VisitInStep ==
    ASSUME NEW C, NEW A, NEW R \in SUBSET (C \X A), NEW c \in C, NEW a \in A,
           <<c, a>> \in R, NEW xs, Len(xs) \in Nat,
           NEW ys, Len(ys) = Len(xs), NEW cv, NEW av,
           \A k \in 1 .. Len(xs) : \A x \in C, y \in A :
               <<x, y>> \in R => <<cv[xs[k]][x], av[ys[k]][y]>> \in R
    PROVE  <<Visit(cv, xs, c), Visit(av, ys, a)>> \in R
<1>1. PICK N \in Nat : N = Len(xs)
  OBVIOUS
<1>2. PICK D : D = {x \in C : \E y \in A : <<x, y>> \in R}
  OBVIOUS
<1>3. PICK B : B = {y \in A : \E x \in C : <<x, y>> \in R}
  OBVIOUS
<1>4. c \in D /\ a \in B
  BY <1>2, <1>3
<1>5. ASSUME NEW k \in 1 .. Len(xs), NEW x \in D
      PROVE  cv[xs[k]][x] \in D
  <2>1. PICK y \in A : x \in C /\ <<x, y>> \in R
    BY <1>2
  <2>2. <<cv[xs[k]][x], av[ys[k]][y]>> \in R
    BY <2>1
  <2>3. cv[xs[k]][x] \in C /\ av[ys[k]][y] \in A
    BY <2>2
  <2> QED
    BY <1>2, <2>2, <2>3
<1>6. ASSUME NEW k \in 1 .. Len(xs), NEW y \in B
      PROVE  av[ys[k]][y] \in B
  <2>1. PICK x \in C : y \in A /\ <<x, y>> \in R
    BY <1>3
  <2>2. <<cv[xs[k]][x], av[ys[k]][y]>> \in R
    BY <2>1
  <2>3. cv[xs[k]][x] \in C /\ av[ys[k]][y] \in A
    BY <2>2
  <2> QED
    BY <1>3, <2>2, <2>3
<1>7. PICK f \in [0 .. Len(xs) -> D] : IsWalk(f, cv, xs, c)
  BY <1>4, <1>5, VisitWalks, Zenon
<1>8. PICK g \in [0 .. Len(ys) -> B] : IsWalk(g, av, ys, a)
  <2>1. \A k \in 1 .. Len(ys) : \A y \in B : av[ys[k]][y] \in B
    BY <1>6
  <2>2. Len(ys) \in Nat
    OBVIOUS
  <2> QED
    BY <1>4, <2>1, <2>2, VisitWalks, Zenon
<1>9. /\ f[0] = c /\ \A k \in 1 .. N : f[k] = cv[xs[k]][f[k - 1]]
      /\ Visit(cv, xs, c) = f[N]
  BY <1>1, <1>7 DEF IsWalk
<1>10. /\ g[0] = a /\ \A k \in 1 .. N : g[k] = av[ys[k]][g[k - 1]]
       /\ Visit(av, ys, a) = g[N]
  BY <1>1, <1>8 DEF IsWalk
<1> DEFINE S == {k \in 0 .. N : <<f[k], g[k]>> \in R}
<1>11. 0 \in S
  BY <1>9, <1>10
<1>12. ASSUME NEW k \in 1 .. N, k - 1 \in S
       PROVE  k \in S
  <2>1. <<f[k - 1], g[k - 1]>> \in R
    BY <1>12
  <2>2. f[k - 1] \in C /\ g[k - 1] \in A
    BY <2>1
  <2>3. <<cv[xs[k]][f[k - 1]], av[ys[k]][g[k - 1]]>> \in R
    BY <1>1, <2>1, <2>2
  <2>4. <<f[k], g[k]>> \in R
    BY <1>9, <1>10, <2>3
  <2> QED
    BY <2>4
<1>13. \A k \in 0 .. N : k \in S
  <2> HIDE DEF S
  <2> QED
    BY <1>11, <1>12, InductionTo, Zenon
<1>14. <<f[N], g[N]>> \in R
  <2>1. N \in S
    BY <1>13
  <2> QED
    BY <2>1
<1> QED
  BY <1>9, <1>10, <1>14

\* Two visits of one list, whose states stay in a relation R.
LEMMA VisitTogether ==
    ASSUME NEW C, NEW A, NEW R \in SUBSET (C \X A), NEW c \in C, NEW a \in A,
           <<c, a>> \in R, NEW xs, Len(xs) \in Nat, NEW cv, NEW av,
           \A k \in 1 .. Len(xs) : \A x \in C, y \in A :
               <<x, y>> \in R => <<cv[xs[k]][x], av[xs[k]][y]>> \in R
    PROVE  <<Visit(cv, xs, c), Visit(av, xs, a)>> \in R
BY VisitInStep, Zenon

-----------------------------------------------------------------------------
(* Statements.                                                             *)

\* The update of a loop is laid out inside it and analyzed outside; it is an
\* assignment, for which the depths do not matter.
StmtsAgree(cv, av, S) ==
    \A s \in S, c \in Compiler, a \in Analyzer :
        Agree(c, a) /\ (s.kind = "ASSIGN" \/ AtHome(c, a))
            => Agree(cv[s][c], av[s][a])

\* All that is known of the two walks over the statements S.
Lockstep(cv, av, S) ==
    StmtsAgree(cv, av, S) /\ StmtsFlow(cv, S) /\ StmtsBalanced(av, S)

LEMMA LockstepOne ==
    ASSUME NEW S, NEW cv, NEW av, Lockstep(cv, av, S), NEW s \in S,
           NEW c, NEW a, Agree(c, a), AtHome(c, a),
           NEW d, d = cv[s][c], NEW b, b = av[s][a]
    PROVE  /\ Agree(d, b) /\ AtHome(d, b) /\ Shape(c, d) /\ Balanced(a, b)
           /\ d \in Compiler /\ b \in Analyzer
<1>1. c \in Compiler /\ a \in Analyzer
  BY AgreeTypes
<1>2. Agree(d, b)
  BY <1>1 DEF Lockstep, StmtsAgree
<1>3. d \in Compiler /\ Shape(c, d)
  BY <1>1 DEF Lockstep, StmtsFlow, StmtFlow
<1>4. Balanced(a, b)
  BY <1>1 DEF Lockstep, StmtsBalanced
<1>5. b \in Analyzer
  BY <1>2, AgreeTypes
<1> QED
  BY <1>1, <1>2, <1>3, <1>4, <1>5, AtHomeKept

LEMMA ListAgree ==
    ASSUME NEW S, NEW cv, NEW av, Lockstep(cv, av, S), NEW xs \in Seq(S),
           NEW c, NEW a, Agree(c, a), AtHome(c, a)
    PROVE  Agree(Visit(cv, xs, c), Visit(av, xs, a))
<1>1. PICK R : R = {p \in Compiler \X Analyzer : Agree(p[1], p[2]) /\ AtHome(p[1], p[2])}
  OBVIOUS
<1>2. R \in SUBSET (Compiler \X Analyzer)
  BY <1>1
<1>3. \A x \in Compiler, y \in Analyzer : <<x, y>> \in R <=> Agree(x, y) /\ AtHome(x, y)
  BY <1>1
<1>4. c \in Compiler /\ a \in Analyzer
  BY AgreeTypes
<1>5. <<c, a>> \in R
  BY <1>3, <1>4
<1>6. Len(xs) \in Nat /\ \A k \in 1 .. Len(xs) : xs[k] \in S
  OBVIOUS
<1>7. ASSUME NEW k \in 1 .. Len(xs), NEW x \in Compiler, NEW y \in Analyzer, <<x, y>> \in R
      PROVE  <<cv[xs[k]][x], av[xs[k]][y]>> \in R
  <2>1. Agree(x, y) /\ AtHome(x, y) /\ xs[k] \in S
    BY <1>3, <1>6, <1>7
  <2>2. PICK u : u = cv[xs[k]][x]
    OBVIOUS
  <2>3. PICK v : v = av[xs[k]][y]
    OBVIOUS
  <2>4. Agree(u, v) /\ AtHome(u, v) /\ u \in Compiler /\ v \in Analyzer
    BY <2>1, <2>2, <2>3, LockstepOne
  <2> QED
    BY <1>3, <2>2, <2>3, <2>4
<1>8. PICK d : d = Visit(cv, xs, c)
  OBVIOUS
<1>9. PICK b : b = Visit(av, xs, a)
  OBVIOUS
<1>10. <<d, b>> \in R
  <2>1. <<Visit(cv, xs, c), Visit(av, xs, a)>> \in R
    BY <1>2, <1>4, <1>5, <1>6, <1>7, VisitTogether, Zenon
  <2> QED
    BY <1>8, <1>9, <2>1
<1>11. d \in Compiler /\ b \in Analyzer
  BY <1>2, <1>10
<1> QED
  BY <1>3, <1>8, <1>9, <1>10, <1>11

LEMMA StoreAgree ==
    ASSUME NEW c, NEW a, Agree(c, a), NEW e \in Expr, NEW op \in StoreOps, NEW s,
           s.name \in STRING, s.loc \in Nat, NEW v, v = AnalyzeExpr(e, a),
           NEW b, b = Used(v, s.name, s.loc) \/ b = Declared(v, s.name, s.loc)
    PROVE  Agree(CompileStore(s, op, e, c), b)
<1>1. PICK x : x = CompileExpr(e, c)
  OBVIOUS
<1>2. Agree(x, v) /\ v \in Analyzer
  BY <1>1, ExprAgree, AgreeTypes
<1>3. Onward(v, b) /\ s.name \in Met(b)
  BY <1>2, UsedIs, DeclaredIs
<1>4. Agree(x, b)
  BY <1>2, <1>3, OnwardFollows, AgreeFollows
<1>5. PICK d : d = EmitGlobal(x, op, s.name, s.loc)
  OBVIOUS
<1>6. op \in GlobalOps
  BY DEF GlobalOps
<1>7. Agree(d, b)
  BY <1>3, <1>4, <1>5, <1>6, GlobalAgree
<1> QED
  BY <1>1, <1>5, <1>7 DEF CompileStore

LEMMA PrintAgree ==
    ASSUME NEW c, NEW a, Agree(c, a), NEW s, s.loc \in Nat,
           \/ s.isString = TRUE /\ s.stringLiteral \in STRING
           \/ s.isString = FALSE /\ s.expr \in Expr
    PROVE  Agree(CompilePrint(s, c), IF s.isString THEN a ELSE AnalyzeExpr(s.expr, a))
<1>1. CASE s.isString = TRUE /\ s.stringLiteral \in STRING
  <2>1. PICK d : d = EmitString(c, s.stringLiteral, s.loc)
    OBVIOUS
  <2>2. Quiet(c, d)
    BY <1>1, <2>1, QuietString, AgreeTypes
  <2>3. Agree(d, a)
    BY <2>2, AgreeQuiet
  <2> QED
    BY <1>1, <2>1, <2>3 DEF CompilePrint
<1>2. CASE s.isString = FALSE /\ s.expr \in Expr
  <2>1. PICK x : x = CompileExpr(s.expr, c)
    OBVIOUS
  <2>2. PICK b : b = AnalyzeExpr(s.expr, a)
    OBVIOUS
  <2>3. Agree(x, b)
    BY <1>2, <2>1, <2>2, ExprAgree, AgreeTypes
  <2>4. PICK d : d = Emit(x, "OP_PRINT_VAL", 0, s.loc)
    OBVIOUS
  <2>5. "OP_PRINT_VAL" \in OpCode /\ 0 \in Int
    BY DEF OpCode
  <2>6. Quiet(x, d)
    BY <2>3, <2>4, <2>5, QuietEmit, AgreeTypes
  <2>7. Agree(d, b)
    BY <2>3, <2>6, AgreeQuiet
  <2> QED
    BY <1>2, <2>1, <2>2, <2>4, <2>7 DEF CompilePrint
<1> QED
  BY <1>1, <1>2

\* The assert fails where the analyzer reports the jump.
LEMMA AbortAgree ==
    ASSUME NEW c, NEW a, Agree(c, a), NEW what \in {"break", "continue"},
           NEW loc \in Nat
    PROVE  Agree(Abort(c), Error(a, what, loc))
<1>1. PICK d : d = Abort(c)
  OBVIOUS
<1>2. PICK b : b = Error(a, what, loc)
  OBVIOUS
<1>3. c \in Compiler /\ a \in Analyzer
  BY AgreeTypes
<1>4. d = [c EXCEPT !.aborted = TRUE]
  BY <1>1 DEF Abort
<1>5. d \in Compiler /\ d.aborted = TRUE /\ d.chunk = c.chunk
  BY <1>3, <1>4 DEF Compiler
<1>6. what \in Complaint
  BY DEF Complaint
<1>7. /\ Balanced(a, b) /\ b.hadError = TRUE /\ SameNames(a, b)
      /\ JumpReported(b) <=> JumpReported(a) \/ what \in {"break", "continue"}
  BY <1>2, <1>3, <1>6, ErrorIs
<1>8. JumpReported(b)
  BY <1>7
<1>9. Met(b) = Met(a) /\ Counts(b) /\ b \in Analyzer
  BY <1>7 DEF Met, Counts, SameNames, Balanced
<1>10. Agree(d, b)
  BY <1>5, <1>8, <1>9 DEF Agree
<1> QED
  BY <1>1, <1>2, <1>10

LEMMA BreakAgree ==
    ASSUME NEW c, NEW a, Agree(c, a), AtHome(c, a), NEW s, s.loc \in Nat
    PROVE  Agree(CompileBreak(s, c), IF a.breakDepth = 0 THEN Error(a, "break", s.loc) ELSE a)
<1>1. c \in Compiler /\ c.scopes \in Seq(Scope) /\ Len(c.scopes) \in Nat
  BY AgreeTypes, ScopeLengths
<1>2. CASE Len(c.scopes) = 0
  <2>1. a.breakDepth = 0 /\ c.scopes = << >>
    BY <1>1, <1>2 DEF AtHome
  <2>2. CompileBreak(s, c) = Abort(c)
    BY <2>1 DEF CompileBreak
  <2>3. Agree(Abort(c), Error(a, "break", s.loc))
    BY AbortAgree
  <2> QED
    BY <2>1, <2>2, <2>3
<1>3. CASE Len(c.scopes) # 0
  <2>1. a.breakDepth # 0 /\ c.scopes # << >>
    BY <1>1, <1>3 DEF AtHome
  <2>2. PICK n \in 1 .. Len(c.scopes) : n = Len(c.scopes)
    BY <1>1, <1>3
  <2>3. PICK e : e = EmitJump(c, n, s.loc)
    OBVIOUS
  <2>4. Quiet(c, e) /\ KeepsScopes(c, e) /\ NextPlace(e) - 1 \in Nat
    BY <1>1, <2>3, QuietJump
  <2>5. PICK d : d = AwaitBreak(e, n, NextPlace(e) - 1)
    OBVIOUS
  <2>6. e \in Compiler /\ n \in 1 .. Len(e.scopes)
    BY <2>4 DEF Quiet, KeepsScopes
  <2>7. d \in Compiler /\ d.chunk = e.chunk /\ d.aborted = e.aborted
    BY <2>4, <2>5, <2>6, AwaitBreakLaid
  <2>8. Quiet(e, d)
    BY <2>7 DEF Quiet
  <2>9. Agree(d, a)
    BY <2>4, <2>8, QuietTrans, AgreeQuiet
  <2>10. CompileBreak(s, c) = d
    BY <2>1, <2>2, <2>3, <2>5 DEF CompileBreak
  <2> QED
    BY <2>1, <2>9, <2>10
<1> QED
  BY <1>2, <1>3

LEMMA ContinueAgree ==
    ASSUME NEW c, NEW a, Agree(c, a), AtHome(c, a), NEW s, s.loc \in Nat
    PROVE  Agree(CompileContinue(s, c),
                 IF a.loopDepth = 0 THEN Error(a, "continue", s.loc) ELSE a)
<1>1. c \in Compiler /\ c.scopes \in Seq(Scope) /\ Len(c.scopes) \in Nat
  BY AgreeTypes, ScopeLengths
<1>2. PICK Ls : Ls = LoopsIn(c.scopes)
  OBVIOUS
<1>3. CASE Ls = {}
  <2>1. a.loopDepth = 0
    BY <1>2, <1>3 DEF AtHome
  <2>2. CompileContinue(s, c) = Abort(c)
    BY <1>2, <1>3 DEF CompileContinue
  <2>3. Agree(Abort(c), Error(a, "continue", s.loc))
    BY AbortAgree
  <2> QED
    BY <2>1, <2>2, <2>3
<1>4. CASE Ls # {}
  <2>1. a.loopDepth # 0
    BY <1>2, <1>4 DEF AtHome
  <2>2. Ls \in SUBSET (1 .. Len(c.scopes)) /\ \A m \in Ls : c.scopes[m].kind = "Loop"
    BY <1>1, <1>2 DEF LoopsIn
  <2>3. PICK n \in Ls : n = Max(Ls)
    BY <1>1, <1>4, <2>2, MaxIs
  <2>4. n \in 1 .. Len(c.scopes) /\ c.scopes[n].kind = "Loop"
    BY <2>2
  <2>5. PICK e : e = EmitJump(c, n, s.loc)
    OBVIOUS
  <2>6. Quiet(c, e) /\ KeepsScopes(c, e) /\ NextPlace(e) - 1 \in Nat
    BY <1>1, <2>4, <2>5, QuietJump
  <2>7. PICK d : d = AwaitContinue(e, n, NextPlace(e) - 1)
    OBVIOUS
  <2>8. e \in Compiler /\ n \in 1 .. Len(e.scopes) /\ e.scopes[n].kind = "Loop"
    BY <2>4, <2>6 DEF Quiet, KeepsScopes
  <2>9. d \in Compiler /\ d.chunk = e.chunk /\ d.aborted = e.aborted
    BY <2>6, <2>7, <2>8, AwaitContinueLaid
  <2>10. Quiet(e, d)
    BY <2>9 DEF Quiet
  <2>11. Agree(d, a)
    BY <2>6, <2>10, QuietTrans, AgreeQuiet
  <2>12. CompileContinue(s, c) = d
    BY <1>2, <1>4, <2>3, <2>5, <2>7 DEF CompileContinue
  <2> QED
    BY <2>1, <2>11, <2>12
<1> QED
  BY <1>3, <1>4

LEMMA ConditionAgree ==
    ASSUME NEW c, NEW a, Agree(c, a), NEW s, s.condition \in Expr, s.loc \in Nat,
           NEW d, d = CompileCondition(s, c), NEW b, b = AnalyzeExpr(s.condition, a)
    PROVE  /\ Agree(d, b) /\ Shape(c, d) /\ Balanced(a, b)
           /\ d \in Compiler /\ b \in Analyzer
<1>1. c \in Compiler /\ a \in Analyzer
  BY AgreeTypes
<1>2. PICK x : x = CompileExpr(s.condition, c)
  OBVIOUS
<1>3. Agree(x, b)
  BY <1>1, <1>2, ExprAgree
<1>4. PICK m \in Int : m = -1
  OBVIOUS
<1>5. PICK y : y = Emit(x, "OP_JUMP_IF_FALSE", m, s.loc)
  OBVIOUS
<1>6. "OP_JUMP_IF_FALSE" \in OpCode /\ "OP_POP" \in OpCode /\ 0 \in Int
  BY DEF OpCode, JumpOps, BranchOps
<1>7. Quiet(x, y)
  BY <1>3, <1>5, <1>6, QuietEmit, AgreeTypes
<1>8. d = Emit(y, "OP_POP", 0, s.loc)
  BY <1>2, <1>4, <1>5 DEF CompileCondition, EmitForward
<1>9. y \in Compiler
  BY <1>7 DEF Quiet
<1>10. Quiet(y, d)
  BY <1>6, <1>8, <1>9, QuietEmit
<1>11. Agree(d, b)
  BY <1>3, <1>7, <1>10, QuietTrans, AgreeQuiet
<1>12. d \in Compiler /\ KeepsScopes(c, d)
  BY <1>1, ConditionLaid
<1>13. Balanced(a, b)
  BY <1>1, ExprOnward DEF Onward
<1> QED
  BY <1>11, <1>12, <1>13, AgreeTypes, ScopesKept

LEMMA IfAgree ==
    ASSUME NEW S, NEW cv, NEW av, Lockstep(cv, av, S), NEW c, NEW a, Agree(c, a),
           AtHome(c, a), NEW s, s.condition \in Expr, s.loc \in Nat, s.thenBranch \in S,
           s.elseBranch \in Seq(S)
    PROVE  Agree(CompileIf(cv, s, c),
                 Visit(av, s.elseBranch, av[s.thenBranch][AnalyzeExpr(s.condition, a)]))
<1>1. c \in Compiler /\ a \in Analyzer
  BY AgreeTypes
<1>2. PICK cond : cond = CompileCondition(s, c)
  OBVIOUS
<1>3. PICK b : b = AnalyzeExpr(s.condition, a)
  OBVIOUS
<1>4. /\ Agree(cond, b) /\ Shape(c, cond) /\ Balanced(a, b)
      /\ cond \in Compiler /\ b \in Analyzer
  BY <1>2, <1>3, ConditionAgree
<1>5. AtHome(cond, b)
  BY <1>1, <1>4, AtHomeKept
<1>6. PICK t : t = cv[s.thenBranch][cond]
  OBVIOUS
<1>7. PICK e : e = av[s.thenBranch][b]
  OBVIOUS
<1>8. Agree(t, e) /\ AtHome(t, e) /\ t \in Compiler /\ e \in Analyzer
  BY <1>4, <1>5, <1>6, <1>7, LockstepOne
<1>9. PICK m \in Int : m = -1
  OBVIOUS
<1>10. PICK then : then = Emit(t, "OP_JUMP", m, s.loc)
  OBVIOUS
<1>11. "OP_JUMP" \in OpCode
  BY DEF OpCode, JumpOps
<1>12. Quiet(t, then) /\ KeepsScopes(t, then)
  BY <1>8, <1>10, <1>11, QuietEmit
<1>13. PICK landed : landed = LandExit(then, ExitJump(cond), s.loc)
  OBVIOUS
<1>14. then \in Compiler
  BY <1>12 DEF Quiet
<1>15. Quiet(then, landed) /\ KeepsScopes(then, landed)
  BY <1>13, <1>14, QuietLand
<1>16. landed \in Compiler /\ Agree(landed, e) /\ Shape(t, landed)
  BY <1>8, <1>12, <1>15, QuietTrans, ScopesKeptTrans, ScopesKept, AgreeQuiet, AgreeTypes
<1>17. AtHome(landed, e)
  BY <1>8, <1>16, BalancedSame, AtHomeKept
<1>18. PICK else : else = Visit(cv, s.elseBranch, landed)
  OBVIOUS
<1>19. PICK f : f = Visit(av, s.elseBranch, e)
  OBVIOUS
<1>20. Agree(else, f)
  BY <1>16, <1>17, <1>18, <1>19, ListAgree
<1>21. PICK d : d = PatchJumps(else, {NextPlace(then) - 1}, NextPlace(else))
  OBVIOUS
<1>22. else \in Compiler /\ NextPlace(else) \in Int
  BY <1>20, AgreeTypes, CompilerIs
<1>23. Quiet(else, d)
  BY <1>21, <1>22, QuietPatch
<1>24. Agree(d, f)
  BY <1>20, <1>23, AgreeQuiet
<1>25. then = EmitForward(t, "OP_JUMP", s.loc)
  BY <1>9, <1>10 DEF EmitForward
<1>26. d = CompileIf(cv, s, c)
  BY <1>2, <1>6, <1>13, <1>18, <1>21, <1>25, Zenon DEF CompileIf, PatchJump
<1> QED
  BY <1>3, <1>7, <1>19, <1>24, <1>26

-----------------------------------------------------------------------------
(* Loops.                                                                  *)

\* The body of a loop, in a state whose scopes are those of c and the loop's.
LEMMA LoopBodyAgree ==
    ASSUME NEW S, NEW cv, NEW av, Lockstep(cv, av, S), NEW x \in S,
           NEW c \in Compiler, NEW a, AtHome(c, a),
           NEW p, p = PushScope(c, LoopScope),
           NEW q, Agree(q, a), Shape(p, q), NEW d, d = cv[x][q],
           NEW s, s.body = x, NEW b, b = AnalyzeBody(av, s, a)
    PROVE  Agree(d, b) /\ d \in Compiler /\ Len(d.scopes) # 0
<1>1. q \in Compiler /\ a \in Analyzer
  BY AgreeTypes
<1>2. PICK e : e = EnterLoop(a)
  OBVIOUS
<1>3. Follows(a, e) /\ e \in Analyzer
  BY <1>1, <1>2, InsideFollows DEF Follows
<1>4. LoopScope \in {LoopScope, SwitchScope}
  OBVIOUS
<1>5. p \in Compiler /\ Len(p.scopes) # 0
  BY <1>4, QuietPush, LoopsPushed DEF Quiet
<1>6. AtHome(p, e)
  BY <1>1, <1>2, AtHomeInLoop
<1>7. Agree(q, e)
  BY <1>3, AgreeFollows
<1>8. AtHome(q, e)
  BY <1>1, <1>3, <1>5, <1>6, BalancedSame, AtHomeKept
<1>9. PICK f : f = av[x][e]
  OBVIOUS
<1>10. Agree(d, f) /\ d \in Compiler /\ f \in Analyzer /\ Shape(q, d)
  BY <1>7, <1>8, <1>9, LockstepOne
<1>11. Len(d.scopes) # 0
  BY <1>5, <1>10 DEF Shape
<1>12. b = LeaveLoop(f)
  BY <1>2, <1>9 DEF AnalyzeBody
<1>13. Follows(f, b)
  BY <1>10, <1>12, InsideFollows
<1>14. Agree(d, b)
  BY <1>10, <1>13, AgreeFollows
<1> QED
  BY <1>10, <1>11, <1>14

LEMMA WhileAgree ==
    ASSUME NEW S, NEW cv, NEW av, Lockstep(cv, av, S), NEW c, NEW a, Agree(c, a),
           AtHome(c, a), NEW s, s.condition \in Expr, s.loc \in Nat, s.body \in S
    PROVE  Agree(CompileWhile(cv, s, c), AnalyzeBody(av, s, AnalyzeExpr(s.condition, a)))
<1>1. c \in Compiler /\ a \in Analyzer
  BY AgreeTypes
<1>2. PICK start \in Int : start = NextPlace(c)
  BY <1>1, CompilerIs
<1>3. PICK cond : cond = CompileCondition(s, c)
  OBVIOUS
<1>4. PICK v : v = AnalyzeExpr(s.condition, a)
  OBVIOUS
<1>5. /\ Agree(cond, v) /\ Shape(c, cond) /\ Balanced(a, v)
      /\ cond \in Compiler /\ v \in Analyzer
  BY <1>3, <1>4, ConditionAgree
<1>6. AtHome(cond, v)
  BY <1>1, <1>5, AtHomeKept
<1>7. PICK p : p = PushScope(cond, LoopScope)
  OBVIOUS
<1>8. LoopScope \in {LoopScope, SwitchScope}
  OBVIOUS
<1>9. Quiet(cond, p)
  BY <1>5, <1>7, <1>8, QuietPush
<1>10. Agree(p, v) /\ Shape(p, p)
  BY <1>5, <1>9, AgreeQuiet DEF Shape
<1>11. PICK x \in S : x = s.body
  OBVIOUS
<1>12. PICK body : body = cv[x][p]
  OBVIOUS
<1>13. PICK b : b = AnalyzeBody(av, s, v)
  OBVIOUS
<1>14. Agree(body, b) /\ body \in Compiler /\ Len(body.scopes) # 0
  BY <1>5, <1>6, <1>7, <1>10, <1>11, <1>12, <1>13, LoopBodyAgree
<1>15. PICK y : y = PatchContinues(body, start)
  OBVIOUS
<1>16. Quiet(body, y) /\ KeepsScopes(body, y)
  BY <1>14, <1>15, QuietContinues
<1>17. PICK back : back = Emit(y, "OP_JUMP", start, s.loc)
  OBVIOUS
<1>18. "OP_JUMP" \in OpCode /\ y \in Compiler
  BY <1>16 DEF OpCode, JumpOps, Quiet
<1>19. Quiet(y, back) /\ KeepsScopes(y, back)
  BY <1>17, <1>18, QuietEmit
<1>20. back \in Compiler /\ Len(back.scopes) # 0
  BY <1>14, <1>16, <1>19 DEF Quiet, KeepsScopes
<1>21. PICK d : d = CloseLoop(s, back, ExitJump(cond))
  OBVIOUS
<1>22. Quiet(back, d)
  BY <1>20, <1>21, QuietClose
<1>23. Agree(d, b)
  BY <1>14, <1>16, <1>19, <1>22, AgreeQuiet
<1>24. d = CompileWhile(cv, s, c)
  BY <1>2, <1>3, <1>7, <1>11, <1>12, <1>15, <1>17, <1>21, Zenon DEF CompileWhile
<1> QED
  BY <1>4, <1>13, <1>23, <1>24

LEMMA DoWhileAgree ==
    ASSUME NEW S, NEW cv, NEW av, Lockstep(cv, av, S), NEW c, NEW a, Agree(c, a),
           AtHome(c, a), NEW s, s.condition \in Expr, s.loc \in Nat, s.body \in S
    PROVE  Agree(CompileDoWhile(cv, s, c), AnalyzeExpr(s.condition, AnalyzeBody(av, s, a)))
<1>1. c \in Compiler /\ a \in Analyzer
  BY AgreeTypes
<1>2. PICK start \in Int : start = NextPlace(c)
  BY <1>1, CompilerIs
<1>3. PICK p : p = PushScope(c, LoopScope)
  OBVIOUS
<1>4. LoopScope \in {LoopScope, SwitchScope}
  OBVIOUS
<1>5. Quiet(c, p)
  BY <1>1, <1>3, <1>4, QuietPush
<1>6. Agree(p, a) /\ Shape(p, p)
  BY <1>5, AgreeQuiet DEF Shape
<1>7. PICK x \in S : x = s.body
  OBVIOUS
<1>8. PICK body : body = cv[x][p]
  OBVIOUS
<1>9. PICK b : b = AnalyzeBody(av, s, a)
  OBVIOUS
<1>10. Agree(body, b) /\ body \in Compiler /\ Len(body.scopes) # 0
  BY <1>1, <1>3, <1>6, <1>7, <1>8, <1>9, LoopBodyAgree
<1>11. PICK y : y = PatchContinues(body, NextPlace(body))
  OBVIOUS
<1>12. NextPlace(body) \in Int
  BY <1>10, CompilerIs
<1>13. Quiet(body, y) /\ KeepsScopes(body, y)
  BY <1>10, <1>11, <1>12, QuietContinues
<1>14. PICK cond : cond = CompileCondition(s, y)
  OBVIOUS
<1>15. PICK v : v = AnalyzeExpr(s.condition, b)
  OBVIOUS
<1>16. Agree(y, b)
  BY <1>10, <1>13, AgreeQuiet
<1>17. Agree(cond, v) /\ Shape(y, cond) /\ cond \in Compiler
  BY <1>14, <1>15, <1>16, ConditionAgree
<1>18. PICK back : back = Emit(cond, "OP_JUMP", start, s.loc)
  OBVIOUS
<1>19. "OP_JUMP" \in OpCode
  BY DEF OpCode, JumpOps
<1>20. Quiet(cond, back) /\ KeepsScopes(cond, back)
  BY <1>17, <1>18, <1>19, QuietEmit
<1>21. back \in Compiler /\ Len(back.scopes) # 0
  BY <1>10, <1>13, <1>17, <1>20 DEF Quiet, KeepsScopes, Shape
<1>22. PICK d : d = CloseLoop(s, back, ExitJump(cond))
  OBVIOUS
<1>23. Quiet(back, d)
  BY <1>21, <1>22, QuietClose
<1>24. Agree(d, v)
  BY <1>17, <1>20, <1>23, AgreeQuiet
<1>25. d = CompileDoWhile(cv, s, c)
  BY <1>2, <1>3, <1>7, <1>8, <1>11, <1>14, <1>18, <1>22, Zenon DEF CompileDoWhile
<1> QED
  BY <1>9, <1>15, <1>24, <1>25

\* The update is compiled in the scope of the loop, and analyzed before it.
LEMMA ForAgree ==
    ASSUME NEW S, NEW cv, NEW av, Lockstep(cv, av, S), NEW c, NEW a, Agree(c, a),
           AtHome(c, a), NEW s, s.condition \in Expr, s.loc \in Nat, s.init \in S,
           s.update \in S, s.update.kind = "ASSIGN", s.body \in S
    PROVE  Agree(CompileFor(cv, s, c),
                 AnalyzeBody(av, s, av[s.update][AnalyzeExpr(s.condition, av[s.init][a])]))
<1>1. c \in Compiler /\ a \in Analyzer
  BY AgreeTypes
<1>2. PICK init : init = cv[s.init][c]
  OBVIOUS
<1>3. PICK i : i = av[s.init][a]
  OBVIOUS
<1>4. Agree(init, i) /\ AtHome(init, i) /\ init \in Compiler /\ i \in Analyzer
  BY <1>2, <1>3, LockstepOne
<1>5. PICK condStart \in Int : condStart = NextPlace(init)
  BY <1>4, CompilerIs
<1>6. PICK cond : cond = CompileCondition(s, init)
  OBVIOUS
<1>7. PICK v : v = AnalyzeExpr(s.condition, i)
  OBVIOUS
<1>8. /\ Agree(cond, v) /\ Shape(init, cond) /\ Balanced(i, v)
      /\ cond \in Compiler /\ v \in Analyzer
  BY <1>4, <1>6, <1>7, ConditionAgree
<1>9. AtHome(cond, v)
  BY <1>4, <1>8, AtHomeKept
<1>10. PICK m \in Int : m = -1
  OBVIOUS
<1>11. PICK toBody : toBody = Emit(cond, "OP_JUMP", m, s.loc)
  OBVIOUS
<1>12. "OP_JUMP" \in OpCode
  BY DEF OpCode, JumpOps
<1>13. Quiet(cond, toBody) /\ KeepsScopes(cond, toBody)
  BY <1>8, <1>11, <1>12, QuietEmit
<1>14. toBody \in Compiler /\ Shape(cond, toBody)
  BY <1>13, ScopesKept DEF Quiet
<1>15. PICK updateStart \in Int : updateStart = NextPlace(toBody)
  BY <1>14, CompilerIs
<1>16. PICK p : p = PushScope(toBody, LoopScope)
  OBVIOUS
<1>17. LoopScope \in {LoopScope, SwitchScope}
  OBVIOUS
<1>18. Quiet(toBody, p) /\ p \in Compiler
  BY <1>14, <1>16, <1>17, QuietPush DEF Quiet
<1>19. Agree(p, v)
  BY <1>8, <1>13, <1>18, QuietTrans, AgreeQuiet
<1>20. PICK update : update = cv[s.update][p]
  OBVIOUS
<1>21. PICK u : u = av[s.update][v]
  OBVIOUS
<1>22. Agree(update, u)
  BY <1>8, <1>18, <1>19, <1>20, <1>21 DEF Lockstep, StmtsAgree
<1>23. update \in Compiler /\ u \in Analyzer
  BY <1>22, AgreeTypes
<1>24. Shape(p, update) /\ Balanced(v, u)
  BY <1>8, <1>18, <1>20, <1>21 DEF Lockstep, StmtsFlow, StmtFlow, StmtsBalanced
<1>25. AtHome(toBody, u)
  BY <1>8, <1>9, <1>14, <1>24, AtHomeKept
<1>26. PICK again : again = Emit(update, "OP_JUMP", condStart, s.loc)
  OBVIOUS
<1>27. Quiet(update, again) /\ KeepsScopes(update, again)
  BY <1>12, <1>23, <1>26, QuietEmit
<1>28. PICK entered : entered = PatchJumps(again, {updateStart - 1}, NextPlace(again))
  OBVIOUS
<1>29. again \in Compiler /\ NextPlace(again) \in Int
  BY <1>27, CompilerIs DEF Quiet
<1>30. Quiet(again, entered) /\ KeepsScopes(again, entered)
  BY <1>28, <1>29, QuietPatch
<1>31. entered \in Compiler /\ Shape(p, entered) /\ Agree(entered, u)
  <2>1. Agree(entered, u)
    BY <1>22, <1>27, <1>30, QuietTrans, AgreeQuiet
  <2>2. Shape(update, entered)
    BY <1>27, <1>30, ScopesKeptTrans, ScopesKept
  <2> QED
    BY <1>24, <2>1, <2>2, ShapeTrans, AgreeTypes
<1>32. PICK x \in S : x = s.body
  OBVIOUS
<1>33. PICK d1 : d1 = cv[x][entered]
  OBVIOUS
<1>34. PICK b : b = AnalyzeBody(av, s, u)
  OBVIOUS
<1>35. Agree(d1, b) /\ d1 \in Compiler /\ Len(d1.scopes) # 0
  BY <1>14, <1>16, <1>25, <1>31, <1>32, <1>33, <1>34, LoopBodyAgree
<1>36. PICK body : body = Emit(d1, "OP_JUMP", updateStart, s.loc)
  OBVIOUS
<1>37. Quiet(d1, body) /\ KeepsScopes(d1, body)
  BY <1>12, <1>35, <1>36, QuietEmit
<1>38. PICK y : y = PatchContinues(body, updateStart)
  OBVIOUS
<1>39. body \in Compiler
  BY <1>37 DEF Quiet
<1>40. Quiet(body, y) /\ KeepsScopes(body, y)
  BY <1>38, <1>39, QuietContinues
<1>41. y \in Compiler /\ Len(y.scopes) # 0
  BY <1>35, <1>37, <1>40 DEF Quiet, KeepsScopes
<1>42. PICK d : d = CloseLoop(s, y, ExitJump(cond))
  OBVIOUS
<1>43. Quiet(y, d)
  BY <1>41, <1>42, QuietClose
<1>44. Agree(d, b)
  BY <1>35, <1>37, <1>40, <1>43, QuietTrans, AgreeQuiet
<1>45. toBody = EmitForward(cond, "OP_JUMP", s.loc)
  BY <1>10, <1>11 DEF EmitForward
<1>46. d = CompileFor(cv, s, c)
  BY <1>2, <1>5, <1>6, <1>15, <1>16, <1>20, <1>26, <1>28, <1>32, <1>33, <1>36, <1>38,
     <1>42, <1>45, Zenon DEF CompileFor, PatchJump, ContinueTarget
<1> QED
  BY <1>3, <1>7, <1>21, <1>34, <1>44, <1>46

-----------------------------------------------------------------------------
(* pili.                                                                   *)

LEMMA CaseAgree ==
    ASSUME NEW S, NEW cv, NEW av, Lockstep(cv, av, S), NEW c, NEW a, Agree(c, a),
           AtHome(c, a), Len(c.scopes) # 0, NEW s, s.loc \in Nat,
           NEW case, case.value \in CInt, case.loc \in Nat, case.body \in Seq(S)
    PROVE  Agree(CompileCase(cv, s, case, c), Visit(av, case.body, a))
<1>1. c \in Compiler /\ a \in Analyzer
  BY AgreeTypes
<1>2. /\ "OP_DUP" \in OpCode /\ "OP_EQ" \in OpCode /\ "OP_POP" \in OpCode
      /\ "OP_JUMP" \in OpCode /\ "OP_JUMP_IF_FALSE" \in OpCode /\ 0 \in Int
  BY DEF OpCode, JumpOps, BranchOps, BinaryOps, EqualOps
<1>3. PICK m \in Int : m = -1
  OBVIOUS
<1>4. PICK dup : dup = Emit(c, "OP_DUP", 0, s.loc)
  OBVIOUS
<1>5. Quiet(c, dup) /\ KeepsScopes(c, dup)
  BY <1>1, <1>2, <1>4, QuietEmit
<1>6. PICK int : int = EmitInt(dup, case.value, case.loc)
  OBVIOUS
<1>7. Quiet(dup, int) /\ KeepsScopes(dup, int)
  BY <1>5, <1>6, QuietInt, SMTT(30) DEF Quiet
<1>8. PICK test : test = Emit(int, "OP_EQ", 0, s.loc)
  OBVIOUS
<1>9. Quiet(int, test) /\ KeepsScopes(int, test)
  BY <1>2, <1>7, <1>8, QuietEmit DEF Quiet
<1>10. PICK skip : skip = Emit(test, "OP_JUMP_IF_FALSE", m, case.loc)
  OBVIOUS
<1>11. Quiet(test, skip) /\ KeepsScopes(test, skip)
  BY <1>2, <1>9, <1>10, QuietEmit DEF Quiet
<1>12. PICK p : p = Emit(skip, "OP_POP", 0, case.loc)
  OBVIOUS
<1>13. Quiet(skip, p) /\ KeepsScopes(skip, p)
  BY <1>2, <1>11, <1>12, QuietEmit DEF Quiet
<1>14. Quiet(c, p) /\ KeepsScopes(c, p)
  <2>1. Quiet(c, test) /\ KeepsScopes(c, test)
    BY <1>5, <1>7, <1>9, QuietTrans, ScopesKeptTrans
  <2> QED
    BY <1>11, <1>13, <2>1, QuietTrans, ScopesKeptTrans
<1>15. p \in Compiler /\ Agree(p, a) /\ Shape(c, p)
  BY <1>14, AgreeQuiet, AgreeTypes, ScopesKept
<1>16. AtHome(p, a)
  BY <1>1, <1>15, BalancedSame, AtHomeKept
<1>17. PICK body : body = Visit(cv, case.body, p)
  OBVIOUS
<1>18. PICK b : b = Visit(av, case.body, a)
  OBVIOUS
<1>19. Agree(body, b)
  BY <1>15, <1>16, <1>17, <1>18, ListAgree
<1>20. body \in Compiler /\ Shape(p, body)
  <2>1. StmtFlow(p, body)
    BY <1>15, <1>17, ListFlow DEF Lockstep
  <2> QED
    BY <2>1 DEF StmtFlow
<1>21. PICK leave : leave = Emit(body, "OP_JUMP", m, case.loc)
  OBVIOUS
<1>22. Quiet(body, leave) /\ KeepsScopes(body, leave)
  BY <1>2, <1>20, <1>21, QuietEmit
<1>23. leave \in Compiler /\ Len(leave.scopes) # 0
  BY <1>15, <1>20, <1>22 DEF Quiet, KeepsScopes, Shape
<1>24. PICK n \in 1 .. Len(leave.scopes) : n = Len(leave.scopes)
  BY <1>23, ScopeLengths
<1>25. NextPlace(leave) - 1 \in Nat
  <2>1. NextPlace(leave) = NextPlace(body) + 1
    BY <1>2, <1>20, <1>21, EmitIs
  <2> QED
    BY <1>20, <2>1, CompilerIs
<1>26. PICK noted : noted = AwaitBreak(leave, n, NextPlace(leave) - 1)
  OBVIOUS
<1>27. noted \in Compiler /\ noted.chunk = leave.chunk /\ noted.aborted = leave.aborted
  BY <1>23, <1>25, <1>26, AwaitBreakLaid
<1>28. Quiet(leave, noted)
  BY <1>27 DEF Quiet
<1>29. PICK d : d = LandExit(noted, NextPlace(test), case.loc)
  OBVIOUS
<1>30. Quiet(noted, d)
  BY <1>27, <1>29, QuietLand
<1>31. Agree(d, b)
  BY <1>19, <1>22, <1>28, <1>30, QuietTrans, AgreeQuiet
<1>32. skip = EmitForward(test, "OP_JUMP_IF_FALSE", case.loc)
       /\ leave = EmitForward(body, "OP_JUMP", case.loc)
  BY <1>3, <1>10, <1>21 DEF EmitForward
<1>33. d = CompileCase(cv, s, case, c)
  BY <1>4, <1>6, <1>8, <1>12, <1>17, <1>24, <1>26, <1>29, <1>32, Zenon DEF CompileCase
<1> QED
  BY <1>18, <1>31, <1>33

\* The loop over the cases.
CompileCases(cv, s, c) ==
    Visit([case \in Range(s.cases) |-> [d \in Compiler |-> CompileCase(cv, s, case, d)]],
          s.cases, c)

LEMMA CasesAgree ==
    ASSUME NEW S, NEW cv, NEW av, Lockstep(cv, av, S), NEW c, NEW a, Agree(c, a),
           AtHome(c, a), Len(c.scopes) # 0, Total(c) >= 1, NEW s, s.loc \in Nat,
           s.cases \in Seq(CaseNode(S)), NEW d, d = CompileCases(cv, s, c)
    PROVE  Agree(d, Bodies(av, s.cases, a)) /\ Shape(c, d)
<1>1. PICK xs \in Seq(CaseNode(S)) : xs = s.cases
  OBVIOUS
<1>2. PICK ct : ct = [case \in Range(xs) |->
                         [x \in Compiler |-> CompileCase(cv, s, case, x)]]
  OBVIOUS
<1>3. PICK at : at = [case \in Range(xs) |-> [y \in Analyzer |-> Visit(av, case.body, y)]]
  OBVIOUS
<1>4. PICK b : b = Bodies(av, xs, a)
  OBVIOUS
<1>5. d = Visit(ct, xs, c) /\ b = Visit(at, xs, a)
  BY <1>1, <1>2, <1>3, <1>4, Zenon DEF CompileCases, Bodies
<1>6. PICK R : R = {p \in Compiler \X Analyzer :
                       Agree(p[1], p[2]) /\ Shape(c, p[1]) /\ Balanced(a, p[2])}
  OBVIOUS
<1>7. R \in SUBSET (Compiler \X Analyzer)
  BY <1>6
<1>8. \A x \in Compiler, y \in Analyzer :
          <<x, y>> \in R <=> Agree(x, y) /\ Shape(c, x) /\ Balanced(a, y)
  BY <1>6
<1>9. c \in Compiler /\ a \in Analyzer
  BY AgreeTypes
<1>10. Shape(c, c)
  BY DEF Shape
<1>11. <<c, a>> \in R
  BY <1>8, <1>9, <1>10, BalancedSame
<1>12. Len(xs) \in Nat
  BY CasesAre
<1>13. ASSUME NEW k \in 1 .. Len(xs), NEW x \in Compiler, NEW y \in Analyzer,
              <<x, y>> \in R
       PROVE  <<ct[xs[k]][x], at[xs[k]][y]>> \in R
  <2>1. /\ xs[k] \in Range(xs) /\ xs[k].loc \in Nat
        /\ xs[k].value \in CInt /\ xs[k].body \in Seq(S)
    BY CasesAre
  <2>2. Agree(x, y) /\ Shape(c, x) /\ Balanced(a, y)
    BY <1>8, <1>13
  <2>3. PICK u : u = CompileCase(cv, s, xs[k], x)
    OBVIOUS
  <2>4. PICK v : v = Visit(av, xs[k].body, y)
    OBVIOUS
  <2>5. ct[xs[k]][x] = u /\ at[xs[k]][y] = v
    BY <1>2, <1>3, <2>1, <2>3, <2>4
  <2>6. AtHome(x, y)
    BY <1>9, <2>2, AtHomeKept
  <2>7. Len(x.scopes) # 0 /\ Total(x) >= 1
    BY <1>9, <2>2, ShapeHeld DEF Shape
  <2>8. Agree(u, v)
    BY <2>1, <2>2, <2>3, <2>4, <2>6, <2>7, CaseAgree
  <2>9. Shape(x, u)
    <3>1. StmtFlow(x, u)
      BY <2>1, <2>3, <2>7, CaseFlow DEF Lockstep
    <3> QED
      BY <3>1 DEF StmtFlow
  <2>10. Balanced(y, v)
    BY <2>1, <2>4, ListBalanced DEF Lockstep
  <2>11. Shape(c, u) /\ Balanced(a, v)
    BY <2>2, <2>9, <2>10, ShapeTrans, BalancedTrans
  <2>12. <<u, v>> \in R
    BY <1>8, <2>8, <2>11, AgreeTypes
  <2> QED
    BY <2>5, <2>12
<1>14. <<Visit(ct, xs, c), Visit(at, xs, a)>> \in R
  BY <1>7, <1>9, <1>11, <1>12, <1>13, VisitTogether, Zenon
<1>15. <<d, b>> \in R
  BY <1>5, <1>14
<1>16. d \in Compiler /\ b \in Analyzer
  BY <1>7, <1>15
<1> QED
  BY <1>1, <1>4, <1>8, <1>15, <1>16

LEMMA SwitchAgree ==
    ASSUME NEW S, NEW cv, NEW av, Lockstep(cv, av, S), NEW c, NEW a, Agree(c, a),
           AtHome(c, a), NEW s, s.subject \in Expr, s.loc \in Nat,
           s.cases \in Seq(CaseNode(S))
    PROVE  Agree(CompileSwitch(cv, s, c), AnalyzeSwitch(av, s, a))
<1>1. c \in Compiler /\ a \in Analyzer
  BY AgreeTypes
<1>2. PICK x : x = CompileExpr(s.subject, c)
  OBVIOUS
<1>3. PICK v : v = AnalyzeExpr(s.subject, a)
  OBVIOUS
<1>4. Agree(x, v) /\ x \in Compiler /\ v \in Analyzer
  BY <1>1, <1>2, <1>3, ExprAgree, AgreeTypes
<1>5. Shape(c, x) /\ Balanced(a, v)
  <2>1. Flow(c, x, 0, 1)
    BY <1>1, <1>2, ExprFlow
  <2>2. Shape(c, x)
    BY <2>1, ScopesKept DEF Flow
  <2> QED
    BY <1>1, <1>3, <2>2, ExprOnward DEF Onward
<1>6. PICK l : l = Labels(s.cases, v)
  OBVIOUS
<1>7. Onward(v, l)
  BY <1>4, <1>6, CasesAre, LabelsOnward
<1>8. Agree(x, l) /\ Balanced(v, l) /\ l \in Analyzer
  BY <1>4, <1>7, OnwardFollows, AgreeFollows DEF Onward, Balanced
<1>9. AtHome(x, l)
  BY <1>1, <1>4, <1>5, <1>8, BalancedTrans, AtHomeKept
<1>10. PICK p : p = PushScope(x, SwitchScope)
  OBVIOUS
<1>11. PICK e : e = EnterSwitch(l)
  OBVIOUS
<1>12. SwitchScope \in {LoopScope, SwitchScope} /\ SwitchScope.slots = 1
  BY DEF SwitchScope
<1>13. Quiet(x, p) /\ Len(p.scopes) # 0 /\ p \in Compiler
  BY <1>4, <1>10, <1>12, QuietPush, LoopsPushed DEF Quiet
<1>14. Total(p) >= 1
  <2>1. Total(p) = Total(x) + SwitchScope.slots
    BY <1>4, <1>10, <1>12, PushLaid
  <2> QED
    BY <1>4, <1>12, <2>1, ScopeLengths
<1>15. Follows(l, e)
  BY <1>8, <1>11, InsideFollows
<1>16. Agree(p, e)
  BY <1>8, <1>13, <1>15, AgreeAfter
<1>17. AtHome(p, e)
  BY <1>4, <1>8, <1>9, <1>10, <1>11, AtHomeInSwitch
<1>18. PICK cases : cases = CompileCases(cv, s, p)
  OBVIOUS
<1>19. PICK b : b = Bodies(av, s.cases, e)
  OBVIOUS
<1>20. Agree(cases, b) /\ Shape(p, cases)
  BY <1>13, <1>14, <1>16, <1>17, <1>18, <1>19, CasesAgree
<1>21. cases \in Compiler /\ b \in Analyzer
  BY <1>20, AgreeTypes
<1>22. PICK y : y = PatchBreaks(cases)
  OBVIOUS
<1>23. Quiet(cases, y) /\ KeepsScopes(cases, y)
  BY <1>21, <1>22, QuietBreaks
<1>24. PICK z : z = PopScope(y)
  OBVIOUS
<1>25. y \in Compiler /\ Len(y.scopes) # 0
  BY <1>13, <1>20, <1>23 DEF Quiet, KeepsScopes, Shape
<1>26. Quiet(y, z)
  BY <1>24, <1>25, QuietPop
<1>27. PICK d : d = Emit(z, "OP_POP", 0, s.loc)
  OBVIOUS
<1>28. "OP_POP" \in OpCode /\ 0 \in Int /\ z \in Compiler
  BY <1>26 DEF OpCode, Quiet
<1>29. Quiet(z, d)
  BY <1>27, <1>28, QuietEmit
<1>30. Agree(d, b)
  BY <1>20, <1>23, <1>26, <1>29, QuietTrans, AgreeQuiet
<1>31. PICK f : f = LeaveSwitch(b)
  OBVIOUS
<1>32. Agree(d, f)
  BY <1>21, <1>30, <1>31, InsideFollows, AgreeFollows
<1>33. d = CompileSwitch(cv, s, c)
  BY <1>2, <1>10, <1>18, <1>22, <1>24, <1>27, Zenon DEF CompileSwitch, CompileCases
<1>34. f = AnalyzeSwitch(av, s, a)
  BY <1>3, <1>6, <1>11, <1>19, <1>31, SwitchParts, Zenon
<1> QED
  BY <1>32, <1>33, <1>34

-----------------------------------------------------------------------------
(* Every statement.                                                        *)

LEMMA StmtNodeAgree ==
    ASSUME NEW S, NEW cv, NEW av, Lockstep(cv, av, S), NEW s \in StmtOver(S),
           NEW c, NEW a, Agree(c, a), s.kind = "ASSIGN" \/ AtHome(c, a)
    PROVE  Agree(CompileStmtNode(cv, s, c), AnalyzeStmtNode(av, s, a))
<1> SUFFICES ASSUME NEW d, d = CompileStmtNode(cv, s, c),
                    NEW b, b = AnalyzeStmtNode(av, s, a)
             PROVE  Agree(d, b)
  OBVIOUS
<1>1. s.loc \in Nat /\ HasParts(S, s)
  BY StmtCases
<1>2. "OP_SET_GLOBAL" \in StoreOps /\ "OP_DEFINE_GLOBAL" \in StoreOps
  BY DEF StoreOps
<1>3. CASE s.kind = "ASSIGN" /\ s.name \in STRING /\ s.value \in Expr
  <2>1. d = CompileStore(s, "OP_SET_GLOBAL", s.value, c)
    BY <1>3 DEF CompileStmtNode
  <2>2. b = Used(AnalyzeExpr(s.value, a), s.name, s.loc)
    BY <1>3 DEF AnalyzeStmtNode
  <2> QED
    BY <1>1, <1>2, <1>3, <2>1, <2>2, StoreAgree
<1>4. CASE s.kind = "VAR_DECL" /\ s.name \in STRING /\ s.initializer \in Expr
  <2>1. d = CompileStore(s, "OP_DEFINE_GLOBAL", s.initializer, c)
    BY <1>4 DEF CompileStmtNode
  <2>2. b = Declared(AnalyzeExpr(s.initializer, a), s.name, s.loc)
    BY <1>4 DEF AnalyzeStmtNode
  <2> QED
    BY <1>1, <1>2, <1>4, <2>1, <2>2, StoreAgree
<1>5. CASE /\ s.kind = "PRINT"
           /\ \/ s.isString = FALSE /\ s.expr \in Expr
              \/ s.isString = TRUE /\ s.stringLiteral \in STRING
  <2>1. s.kind = "PRINT"
    BY <1>5
  <2>2. d = CompilePrint(s, c)
    BY <2>1 DEF CompileStmtNode
  <2>3. b = IF s.isString THEN a ELSE AnalyzeExpr(s.expr, a)
    BY <2>1 DEF AnalyzeStmtNode
  <2> QED
    BY <1>1, <1>5, <2>2, <2>3, PrintAgree
<1>6. CASE s.kind = "BREAK"
  <2>1. d = CompileBreak(s, c)
    BY <1>6 DEF CompileStmtNode
  <2>2. b = IF a.breakDepth = 0 THEN Error(a, "break", s.loc) ELSE a
    BY <1>6 DEF AnalyzeStmtNode
  <2> QED
    BY <1>1, <1>6, <2>1, <2>2, BreakAgree
<1>7. CASE s.kind = "CONTINUE"
  <2>1. d = CompileContinue(s, c)
    BY <1>7 DEF CompileStmtNode
  <2>2. b = IF a.loopDepth = 0 THEN Error(a, "continue", s.loc) ELSE a
    BY <1>7 DEF AnalyzeStmtNode
  <2> QED
    BY <1>1, <1>7, <2>1, <2>2, ContinueAgree
<1>8. CASE s.kind = "BLOCK" /\ s.statements \in Seq(S)
  <2>1. d = Visit(cv, s.statements, c)
    BY <1>8 DEF CompileStmtNode
  <2>2. b = Visit(av, s.statements, a)
    BY <1>8 DEF AnalyzeStmtNode
  <2> QED
    BY <1>8, <2>1, <2>2, ListAgree
<1>9. CASE /\ s.kind = "IF" /\ s.condition \in Expr
           /\ s.thenBranch \in S /\ s.elseBranch \in Seq(S)
  <2>1. d = CompileIf(cv, s, c)
    BY <1>9 DEF CompileStmtNode
  <2>2. b = Visit(av, s.elseBranch, av[s.thenBranch][AnalyzeExpr(s.condition, a)])
    BY <1>9 DEF AnalyzeStmtNode
  <2> QED
    BY <1>1, <1>9, <2>1, <2>2, IfAgree
<1>10. CASE s.kind \in {"WHILE", "DO_WHILE"} /\ s.condition \in Expr /\ s.body \in S
  <2>1. CASE s.kind = "WHILE"
    <3>1. d = CompileWhile(cv, s, c)
      BY <2>1 DEF CompileStmtNode
    <3>2. b = AnalyzeBody(av, s, AnalyzeExpr(s.condition, a))
      BY <2>1 DEF AnalyzeStmtNode
    <3> QED
      BY <1>1, <1>10, <2>1, <3>1, <3>2, WhileAgree
  <2>2. CASE s.kind = "DO_WHILE"
    <3>1. d = CompileDoWhile(cv, s, c)
      BY <2>2 DEF CompileStmtNode
    <3>2. b = AnalyzeExpr(s.condition, AnalyzeBody(av, s, a))
      BY <2>2 DEF AnalyzeStmtNode
    <3> QED
      BY <1>1, <1>10, <2>2, <3>1, <3>2, DoWhileAgree
  <2> QED
    BY <1>10, <2>1, <2>2
<1>11. CASE /\ s.kind = "FOR" /\ s.init \in S /\ s.condition \in Expr
            /\ s.update \in S /\ s.update.kind = "ASSIGN" /\ s.body \in S
  <2>1. d = CompileFor(cv, s, c)
    BY <1>11 DEF CompileStmtNode
  <2>2. b = AnalyzeBody(av, s,
                av[s.update][AnalyzeExpr(s.condition, av[s.init][a])])
    BY <1>11 DEF AnalyzeStmtNode
  <2> QED
    BY <1>1, <1>11, <2>1, <2>2, ForAgree
<1>12. CASE s.kind = "SWITCH" /\ s.subject \in Expr /\ s.cases \in Seq(CaseNode(S))
  <2>1. d = CompileSwitch(cv, s, c)
    BY <1>12 DEF CompileStmtNode
  <2>2. b = AnalyzeSwitch(av, s, a)
    BY <1>12 DEF AnalyzeStmtNode
  <2> QED
    BY <1>1, <1>12, <2>1, <2>2, SwitchAgree
<1> QED
  BY <1>1, <1>3, <1>4, <1>5, <1>6, <1>7, <1>8, <1>9, <1>10, <1>11, <1>12 DEF HasParts

LEMMA LockstepAll ==
    Lockstep(CompileStmtUpTo[MaxHeight], AnalyzeStmtUpTo[MaxHeight], Stmt)
<1> DEFINE H == {h \in 0 .. MaxHeight :
                     StmtsAgree(CompileStmtUpTo[h], AnalyzeStmtUpTo[h], StmtUpTo[h])}
<1>1. 0 \in H
  <2>1. StmtsAgree(CompileStmtUpTo[0], AnalyzeStmtUpTo[0], StmtUpTo[0])
    BY StmtLevels DEF StmtsAgree
  <2> QED
    BY <2>1, MaxHeightAssumption
<1>2. ASSUME NEW h \in 1 .. MaxHeight, h - 1 \in H
      PROVE  h \in H
  <2>1. h \in Heights /\ h # 0 /\ h - 1 \in 0 .. MaxHeight
    BY MaxHeightAssumption DEF Heights
  <2>2. PICK S : S = StmtUpTo[h - 1]
    OBVIOUS
  <2>3. PICK cv : cv = CompileStmtUpTo[h - 1]
    OBVIOUS
  <2>4. PICK av : av = AnalyzeStmtUpTo[h - 1]
    OBVIOUS
  <2>5. Lockstep(cv, av, S)
    <3>1. StmtsAgree(cv, av, S)
      BY <1>2, <2>2, <2>3, <2>4
    <3>2. StmtsFlow(cv, S) /\ StmtsBalanced(av, S)
      BY <2>1, <2>2, <2>3, <2>4, StmtsFlowLevels, StmtsBalancedLevels
    <3> QED
      BY <3>1, <3>2 DEF Lockstep
  <2>6. ASSUME NEW s \in StmtUpTo[h], NEW c \in Compiler, NEW a \in Analyzer,
               Agree(c, a), s.kind = "ASSIGN" \/ AtHome(c, a)
        PROVE  Agree(CompileStmtUpTo[h][s][c], AnalyzeStmtUpTo[h][s][a])
    <3>1. CompileStmtUpTo[h][s][c] = CompileStmtNode(cv, s, c)
      BY <2>1, <2>3, CompileStmtLevels, Zenon
    <3>2. AnalyzeStmtUpTo[h][s][a] = AnalyzeStmtNode(av, s, a)
      BY <2>1, <2>4, AnalyzeStmtLevels, Zenon
    <3>3. s \in StmtOver(S)
      BY <2>1, <2>2, StmtLevels, Zenon
    <3>4. Agree(CompileStmtNode(cv, s, c), AnalyzeStmtNode(av, s, a))
      BY <2>5, <2>6, <3>3, StmtNodeAgree
    <3> QED
      BY <3>1, <3>2, <3>4
  <2>7. StmtsAgree(CompileStmtUpTo[h], AnalyzeStmtUpTo[h], StmtUpTo[h])
    BY <2>6, Zenon DEF StmtsAgree
  <2> QED
    BY <2>7
<1>3. \A h \in 0 .. MaxHeight : h \in H
  <2> HIDE DEF H
  <2> QED
    BY <1>1, <1>2, MaxHeightAssumption, InductionTo, Zenon
<1>4. StmtsAgree(CompileStmtUpTo[MaxHeight], AnalyzeStmtUpTo[MaxHeight],
                 StmtUpTo[MaxHeight])
  BY <1>3, MaxHeightAssumption
<1>5. StmtsFlow(CompileStmtUpTo[MaxHeight], StmtUpTo[MaxHeight])
      /\ StmtsBalanced(AnalyzeStmtUpTo[MaxHeight], StmtUpTo[MaxHeight])
  BY MaxHeightAssumption, StmtsFlowLevels, StmtsBalancedLevels
<1> QED
  BY <1>4, <1>5 DEF Lockstep, Stmt

-----------------------------------------------------------------------------
(* The whole program.                                                      *)

LEMMA NewAgree == Agree(NewCompiler, NewAnalyzer) /\ AtHome(NewCompiler, NewAnalyzer)
<1>1. PICK c \in Compiler : c = NewCompiler
  BY NewLaid
<1>2. /\ c.scopes = << >> /\ Len(c.scopes) = 0 /\ c.aborted = FALSE
      /\ c.chunk.globalNames = << >>
  BY <1>1 DEF NewCompiler, EmptyChunk
<1>3. LoopsIn(c.scopes) = {} /\ Range(c.chunk.globalNames) = {}
  BY <1>2 DEF LoopsIn, Range
<1>4. PICK a : a = NewAnalyzer
  OBVIOUS
<1>5. /\ a.declared = << >> /\ a.reported = {} /\ a.diagnostics = << >>
      /\ a.loopDepth = 0 /\ a.breakDepth = 0
  BY <1>4 DEF NewAnalyzer
<1>6. a \in Analyzer
  BY <1>4 DEF NewAnalyzer, Analyzer
<1>7. ~JumpReported(a) /\ Counts(a)
  BY <1>5 DEF JumpReported, Counts
<1>8. Agree(c, a)
  BY <1>2, <1>3, <1>6, <1>7 DEF Agree
<1>9. AtHome(c, a)
  BY <1>2, <1>3, <1>5 DEF AtHome
<1> QED
  BY <1>1, <1>4, <1>8, <1>9

\* What the compiler and the analyzer make of a program agrees.
THEOREM StagesAgree ==
    ASSUME NEW tree \in Seq(Stmt)
    PROVE  Agree(Compile(tree), Analyze(tree))
<1>1. PICK c : c = Visit(CompileStmtUpTo[MaxHeight], tree, NewCompiler)
  OBVIOUS
<1>2. PICK a : a = Analyze(tree)
  OBVIOUS
<1>3. Agree(c, a)
  BY <1>1, <1>2, NewAgree, LockstepAll, ListAgree DEF Analyze
<1>4. PICK loc \in Nat : loc = IF tree = << >> THEN 1 ELSE Last(tree).loc
  <2>1. CASE tree = << >>
    BY <2>1
  <2>2. CASE tree # << >>
    <3>1. Last(tree) \in Stmt
      BY <2>2 DEF Last
    <3>2. Last(tree).loc \in Nat
      BY <3>1, StmtLoc
    <3> QED
      BY <2>2, <3>2
  <2> QED
    BY <2>1, <2>2
<1>5. PICK d : d = Emit(c, "OP_HALT", 0, loc)
  OBVIOUS
<1>6. "OP_HALT" \in OpCode /\ 0 \in Int
  BY DEF OpCode
<1>7. Quiet(c, d)
  BY <1>3, <1>5, <1>6, AgreeTypes, QuietEmit
<1>8. d = Compile(tree)
  BY <1>1, <1>4, <1>5, Zenon DEF Compile
<1> QED
  BY <1>2, <1>3, <1>7, <1>8, AgreeQuiet

\* Of one program, the walks agree on whether a jump has nowhere to go.
LEMMA AssertsIn == PipelineInv => JumpErrorsExact
<1>1. SUFFICES ASSUME PipelineInv, stage # "idle"
               PROVE  compiler.aborted <=> JumpReported(analysis)
  BY DEF JumpErrorsExact, JumpReported
<1>2. program \in Seq(Stmt) /\ analysis = Analyze(program) /\ compiler = Compile(program)
  BY <1>1 DEF PipelineInv, StagesInv
<1>3. PICK c : c = compiler
  OBVIOUS
<1>4. PICK a : a = analysis
  OBVIOUS
<1>5. Agree(c, a)
  BY <1>2, <1>3, <1>4, StagesAgree
<1>6. c.aborted \in BOOLEAN
  BY <1>5, AgreeTypes, CompilerIs
<1> QED
  BY <1>3, <1>4, <1>5, <1>6 DEF Agree

\* JumpErrorsExact, for every program: the asserts of the compiler fail where
\* the analyzer reports a tigil or a sunod, and nowhere else.
THEOREM AssertsGuarded == PipelineSpec => []JumpErrorsExact
BY AssertsIn, PipelineInvariance, PTL

\* An accepted program has no name that was reported.
LEMMA NamesIn == PipelineInv => GlobalsDeclared
<1>1. SUFFICES ASSUME PipelineInv, stage = "executed"
               PROVE  Range(chunk.globalNames) \subseteq Range(analysis.declared)
  BY DEF GlobalsDeclared
<1>2. /\ program \in Seq(Stmt) /\ analysis = Analyze(program)
      /\ compiler = Compile(program) /\ chunk = compiler.chunk /\ ~analysis.hadError
  BY <1>1 DEF PipelineInv, StagesInv
<1>3. PICK c : c = compiler
  OBVIOUS
<1>4. PICK a : a = analysis
  OBVIOUS
<1>5. Agree(c, a)
  BY <1>2, <1>3, <1>4, StagesAgree, Zenon
<1>6. Range(c.chunk.globalNames) \subseteq Met(a) /\ Counts(a)
  BY <1>5 DEF Agree
<1>7. a.reported = {}
  BY <1>2, <1>4, <1>6 DEF Counts
<1> QED
  BY <1>2, <1>3, <1>4, <1>6, <1>7 DEF Met

\* GlobalsDeclared, for every program: what the machine is given names only
\* globals that the analyzer has seen declared.
THEOREM NamesDeclared == PipelineSpec => []GlobalsDeclared
BY NamesIn, PipelineInvariance, PTL

-----------------------------------------------------------------------------
(* The two walks of the tree walker, level by level.                       *)

\* resolveExpr: the function on a level calls the one on the level below.
LEMMA ResolveExprLevels ==
    \A h \in Heights : h # 0 =>
        \A n \in ExprUpTo[h], x \in Seq(STRING) :
            ResolveExprUpTo[h][n][x] = ResolveExprNode(ResolveExprUpTo[h - 1], n, x)
<1> DEFINE At(f, h) ==
        [n \in ExprUpTo[h] |-> [x \in Seq(STRING) |-> ResolveExprNode(f[h - 1], n, x)]]
<1> DEFINE Is(f, m) == f = [h \in 0 .. m |-> At(f, h)]
<1> DEFINE S == {m \in Nat : \E f : Is(f, m)}
<1>1. \A f, g : At(f, 0) = At(g, 0)
  BY ExprLevels
<1>2. \A f, g, h : f[h - 1] = g[h - 1] => At(f, h) = At(g, h)
  OBVIOUS
<1> HIDE DEF At
<1>3. 0 \in S
  <2> DEFINE g == [h \in 0 .. 0 |-> At(<< >>, h)]
  <2>1. \A h \in 0 .. 0 : At(<< >>, h) = At(g, h)
    <3>1. \A h \in 0 .. 0 : h = 0
      OBVIOUS
    <3> QED
      BY <1>1, <3>1, Zenon
  <2>2. Is(g, 0)
    BY <2>1
  <2> HIDE DEF g
  <2> QED
    BY <2>2
<1>4. ASSUME NEW m \in Nat, m \in S
      PROVE  m + 1 \in S
  <2>1. PICK f : Is(f, m)
    BY <1>4
  <2> DEFINE g == [h \in 0 .. m + 1 |-> IF h <= m THEN f[h] ELSE At(f, h)]
  <2>2. \A h \in 0 .. m + 1 : g[h] = At(f, h)
    BY <2>1
  <2>3. ASSUME NEW h \in 0 .. m + 1, h # 0
        PROVE  g[h - 1] = f[h - 1]
    BY <2>3
  <2> HIDE DEF g
  <2>4. \A h \in 0 .. m + 1 : At(f, h) = At(g, h)
    <3> TAKE h \in 0 .. m + 1
    <3>1. CASE h = 0
      BY <1>1, <3>1, Zenon
    <3>2. CASE h # 0
      BY <1>2, <2>3, <3>2, Zenon
    <3> QED
      BY <3>1, <3>2
  <2>5. Is(g, m + 1)
    <3>1. g = [h \in 0 .. m + 1 |-> At(f, h)]
      BY <2>2 DEF g
    <3> QED
      BY <2>4, <3>1
  <2> QED
    BY <2>5
<1> HIDE DEF S
<1>5. MaxHeight \in S
  BY <1>3, <1>4, Induction, MaxHeightAssumption
<1>6. PICK f : Is(f, MaxHeight)
  BY <1>5 DEF S
<1>7. ResolveExprUpTo = [h \in Heights |-> At(ResolveExprUpTo, h)]
  BY <1>6, Zenon DEF ResolveExprUpTo, Heights, At
<1>8. \A h \in Heights : ResolveExprUpTo[h] = At(ResolveExprUpTo, h)
  BY <1>7, Zenon
<1>9. ASSUME NEW h \in Heights, NEW n \in ExprUpTo[h], NEW x \in Seq(STRING)
      PROVE  ResolveExprUpTo[h][n][x] = ResolveExprNode(ResolveExprUpTo[h - 1], n, x)
  <2>1. ResolveExprUpTo[h][n]
           = [y \in Seq(STRING) |-> ResolveExprNode(ResolveExprUpTo[h - 1], n, y)]
    BY <1>8, Zenon DEF At
  <2> QED
    BY <2>1, Zenon
<1> QED
  BY <1>9, Zenon

\* resolveStmt: the function on a level calls the one on the level below.
LEMMA ResolveStmtLevels ==
    \A h \in Heights : h # 0 =>
        \A n \in StmtUpTo[h], x \in Seq(STRING) :
            ResolveStmtUpTo[h][n][x] = ResolveStmtNode(ResolveStmtUpTo[h - 1], n, x)
<1> DEFINE At(f, h) ==
        [n \in StmtUpTo[h] |-> [x \in Seq(STRING) |-> ResolveStmtNode(f[h - 1], n, x)]]
<1> DEFINE Is(f, m) == f = [h \in 0 .. m |-> At(f, h)]
<1> DEFINE S == {m \in Nat : \E f : Is(f, m)}
<1>1. \A f, g : At(f, 0) = At(g, 0)
  BY StmtLevels
<1>2. \A f, g, h : f[h - 1] = g[h - 1] => At(f, h) = At(g, h)
  OBVIOUS
<1> HIDE DEF At
<1>3. 0 \in S
  <2> DEFINE g == [h \in 0 .. 0 |-> At(<< >>, h)]
  <2>1. \A h \in 0 .. 0 : At(<< >>, h) = At(g, h)
    <3>1. \A h \in 0 .. 0 : h = 0
      OBVIOUS
    <3> QED
      BY <1>1, <3>1, Zenon
  <2>2. Is(g, 0)
    BY <2>1
  <2> HIDE DEF g
  <2> QED
    BY <2>2
<1>4. ASSUME NEW m \in Nat, m \in S
      PROVE  m + 1 \in S
  <2>1. PICK f : Is(f, m)
    BY <1>4
  <2> DEFINE g == [h \in 0 .. m + 1 |-> IF h <= m THEN f[h] ELSE At(f, h)]
  <2>2. \A h \in 0 .. m + 1 : g[h] = At(f, h)
    BY <2>1
  <2>3. ASSUME NEW h \in 0 .. m + 1, h # 0
        PROVE  g[h - 1] = f[h - 1]
    BY <2>3
  <2> HIDE DEF g
  <2>4. \A h \in 0 .. m + 1 : At(f, h) = At(g, h)
    <3> TAKE h \in 0 .. m + 1
    <3>1. CASE h = 0
      BY <1>1, <3>1, Zenon
    <3>2. CASE h # 0
      BY <1>2, <2>3, <3>2, Zenon
    <3> QED
      BY <3>1, <3>2
  <2>5. Is(g, m + 1)
    <3>1. g = [h \in 0 .. m + 1 |-> At(f, h)]
      BY <2>2 DEF g
    <3> QED
      BY <2>4, <3>1
  <2> QED
    BY <2>5
<1> HIDE DEF S
<1>5. MaxHeight \in S
  BY <1>3, <1>4, Induction, MaxHeightAssumption
<1>6. PICK f : Is(f, MaxHeight)
  BY <1>5 DEF S
<1>7. ResolveStmtUpTo = [h \in Heights |-> At(ResolveStmtUpTo, h)]
  BY <1>6, Zenon DEF ResolveStmtUpTo, Heights, At
<1>8. \A h \in Heights : ResolveStmtUpTo[h] = At(ResolveStmtUpTo, h)
  BY <1>7, Zenon
<1>9. ASSUME NEW h \in Heights, NEW n \in StmtUpTo[h], NEW x \in Seq(STRING)
      PROVE  ResolveStmtUpTo[h][n][x] = ResolveStmtNode(ResolveStmtUpTo[h - 1], n, x)
  <2>1. ResolveStmtUpTo[h][n]
           = [y \in Seq(STRING) |-> ResolveStmtNode(ResolveStmtUpTo[h - 1], n, y)]
    BY <1>8, Zenon DEF At
  <2> QED
    BY <2>1, Zenon
<1> QED
  BY <1>9, Zenon

\* eval: the function on a level calls the one on the level below.
LEMMA EvalLevels ==
    \A h \in Heights : h # 0 =>
        \A n \in ExprUpTo[h], x \in Walker :
            EvalUpTo[h][n][x] = EvalNode(EvalUpTo[h - 1], n, x)
<1> DEFINE At(f, h) ==
        [n \in ExprUpTo[h] |-> [x \in Walker |-> EvalNode(f[h - 1], n, x)]]
<1> DEFINE Is(f, m) == f = [h \in 0 .. m |-> At(f, h)]
<1> DEFINE S == {m \in Nat : \E f : Is(f, m)}
<1>1. \A f, g : At(f, 0) = At(g, 0)
  BY ExprLevels
<1>2. \A f, g, h : f[h - 1] = g[h - 1] => At(f, h) = At(g, h)
  OBVIOUS
<1> HIDE DEF At
<1>3. 0 \in S
  <2> DEFINE g == [h \in 0 .. 0 |-> At(<< >>, h)]
  <2>1. \A h \in 0 .. 0 : At(<< >>, h) = At(g, h)
    <3>1. \A h \in 0 .. 0 : h = 0
      OBVIOUS
    <3> QED
      BY <1>1, <3>1, Zenon
  <2>2. Is(g, 0)
    BY <2>1
  <2> HIDE DEF g
  <2> QED
    BY <2>2
<1>4. ASSUME NEW m \in Nat, m \in S
      PROVE  m + 1 \in S
  <2>1. PICK f : Is(f, m)
    BY <1>4
  <2> DEFINE g == [h \in 0 .. m + 1 |-> IF h <= m THEN f[h] ELSE At(f, h)]
  <2>2. \A h \in 0 .. m + 1 : g[h] = At(f, h)
    BY <2>1
  <2>3. ASSUME NEW h \in 0 .. m + 1, h # 0
        PROVE  g[h - 1] = f[h - 1]
    BY <2>3
  <2> HIDE DEF g
  <2>4. \A h \in 0 .. m + 1 : At(f, h) = At(g, h)
    <3> TAKE h \in 0 .. m + 1
    <3>1. CASE h = 0
      BY <1>1, <3>1, Zenon
    <3>2. CASE h # 0
      BY <1>2, <2>3, <3>2, Zenon
    <3> QED
      BY <3>1, <3>2
  <2>5. Is(g, m + 1)
    <3>1. g = [h \in 0 .. m + 1 |-> At(f, h)]
      BY <2>2 DEF g
    <3> QED
      BY <2>4, <3>1
  <2> QED
    BY <2>5
<1> HIDE DEF S
<1>5. MaxHeight \in S
  BY <1>3, <1>4, Induction, MaxHeightAssumption
<1>6. PICK f : Is(f, MaxHeight)
  BY <1>5 DEF S
<1>7. EvalUpTo = [h \in Heights |-> At(EvalUpTo, h)]
  BY <1>6, Zenon DEF EvalUpTo, Heights, At
<1>8. \A h \in Heights : EvalUpTo[h] = At(EvalUpTo, h)
  BY <1>7, Zenon
<1>9. ASSUME NEW h \in Heights, NEW n \in ExprUpTo[h], NEW x \in Walker
      PROVE  EvalUpTo[h][n][x] = EvalNode(EvalUpTo[h - 1], n, x)
  <2>1. EvalUpTo[h][n]
           = [y \in Walker |-> EvalNode(EvalUpTo[h - 1], n, y)]
    BY <1>8, Zenon DEF At
  <2> QED
    BY <2>1, Zenon
<1> QED
  BY <1>9, Zenon

\* exec: the function on a level calls the one on the level below.
LEMMA ExecLevels ==
    \A h \in Heights : h # 0 =>
        \A n \in StmtUpTo[h], x \in Walker :
            ExecUpTo[h][n][x] = ExecNode(ExecUpTo[h - 1], n, x)
<1> DEFINE At(f, h) ==
        [n \in StmtUpTo[h] |-> [x \in Walker |-> ExecNode(f[h - 1], n, x)]]
<1> DEFINE Is(f, m) == f = [h \in 0 .. m |-> At(f, h)]
<1> DEFINE S == {m \in Nat : \E f : Is(f, m)}
<1>1. \A f, g : At(f, 0) = At(g, 0)
  BY StmtLevels
<1>2. \A f, g, h : f[h - 1] = g[h - 1] => At(f, h) = At(g, h)
  OBVIOUS
<1> HIDE DEF At
<1>3. 0 \in S
  <2> DEFINE g == [h \in 0 .. 0 |-> At(<< >>, h)]
  <2>1. \A h \in 0 .. 0 : At(<< >>, h) = At(g, h)
    <3>1. \A h \in 0 .. 0 : h = 0
      OBVIOUS
    <3> QED
      BY <1>1, <3>1, Zenon
  <2>2. Is(g, 0)
    BY <2>1
  <2> HIDE DEF g
  <2> QED
    BY <2>2
<1>4. ASSUME NEW m \in Nat, m \in S
      PROVE  m + 1 \in S
  <2>1. PICK f : Is(f, m)
    BY <1>4
  <2> DEFINE g == [h \in 0 .. m + 1 |-> IF h <= m THEN f[h] ELSE At(f, h)]
  <2>2. \A h \in 0 .. m + 1 : g[h] = At(f, h)
    BY <2>1
  <2>3. ASSUME NEW h \in 0 .. m + 1, h # 0
        PROVE  g[h - 1] = f[h - 1]
    BY <2>3
  <2> HIDE DEF g
  <2>4. \A h \in 0 .. m + 1 : At(f, h) = At(g, h)
    <3> TAKE h \in 0 .. m + 1
    <3>1. CASE h = 0
      BY <1>1, <3>1, Zenon
    <3>2. CASE h # 0
      BY <1>2, <2>3, <3>2, Zenon
    <3> QED
      BY <3>1, <3>2
  <2>5. Is(g, m + 1)
    <3>1. g = [h \in 0 .. m + 1 |-> At(f, h)]
      BY <2>2 DEF g
    <3> QED
      BY <2>4, <3>1
  <2> QED
    BY <2>5
<1> HIDE DEF S
<1>5. MaxHeight \in S
  BY <1>3, <1>4, Induction, MaxHeightAssumption
<1>6. PICK f : Is(f, MaxHeight)
  BY <1>5 DEF S
<1>7. ExecUpTo = [h \in Heights |-> At(ExecUpTo, h)]
  BY <1>6, Zenon DEF ExecUpTo, Heights, At
<1>8. \A h \in Heights : ExecUpTo[h] = At(ExecUpTo, h)
  BY <1>7, Zenon
<1>9. ASSUME NEW h \in Heights, NEW n \in StmtUpTo[h], NEW x \in Walker
      PROVE  ExecUpTo[h][n][x] = ExecNode(ExecUpTo[h - 1], n, x)
  <2>1. ExecUpTo[h][n]
           = [y \in Walker |-> ExecNode(ExecUpTo[h - 1], n, y)]
    BY <1>8, Zenon DEF At
  <2> QED
    BY <2>1, Zenon
<1> QED
  BY <1>9, Zenon

-----------------------------------------------------------------------------
(* Names and their slots.                                                  *)

\* Names that have a slot each.
Distinct(ns) ==
    /\ ns \in Seq(STRING)
    /\ \A j, k \in 1 .. Len(ns) : ns[j] = ns[k] => j = k

\* More names, with the slots that they had.
Begins(ns, F) == Len(ns) <= Len(F) /\ \A k \in 1 .. Len(ns) : F[k] = ns[k]

\* What begins the beginning of F begins F.
LEMMA BeginsTrans ==
    ASSUME NEW ns, NEW ms, NEW F, Distinct(ns), Distinct(ms), Distinct(F),
           Begins(ns, ms), Begins(ms, F)
    PROVE  Begins(ns, F)
<1>1. Len(ns) \in Nat /\ Len(ms) \in Nat /\ Len(F) \in Nat
  BY DEF Distinct
<1> QED
  BY <1>1 DEF Begins

\* Behind ns stands n as well.
Behind(ns, n, ms) ==
    /\ Len(ms) = Len(ns) + 1 /\ ms[Len(ns) + 1] = n
    /\ \A k \in 1 .. Len(ns) : ms[k] = ns[k]

\* What Append does, in words the solvers need not unfold.
LEMMA AppendIs ==
    ASSUME NEW T, NEW ns \in Seq(T), NEW n \in T
    PROVE  Append(ns, n) \in Seq(T) /\ Behind(ns, n, Append(ns, n))
BY AppendProperties DEF Behind

\* Meeting a name keeps the names one of each and the slots they had.
LEMMA MeetingIs ==
    ASSUME NEW ns, Distinct(ns), NEW n \in STRING, NEW ms, ms = Meeting(ns, n)
    PROVE  Distinct(ms) /\ Begins(ns, ms) /\ \E k \in 1 .. Len(ms) : ms[k] = n
<1>1. ns \in Seq(STRING) /\ Len(ns) \in Nat /\ DOMAIN ns = 1 .. Len(ns)
  BY DEF Distinct
<1>2. CASE n \in Range(ns)
  <2>1. ms = ns
    BY <1>2 DEF Meeting
  <2>2. \E k \in 1 .. Len(ns) : ns[k] = n
    BY <1>1, <1>2 DEF Range
  <2>3. Begins(ns, ms)
    BY <1>1, <2>1 DEF Begins
  <2> QED
    BY <2>1, <2>2, <2>3
<1>3. CASE n \notin Range(ns)
  <2>1. ms = Append(ns, n)
    BY <1>3 DEF Meeting
  <2>2. /\ ms \in Seq(STRING) /\ Len(ms) = Len(ns) + 1
        /\ ms[Len(ns) + 1] = n
        /\ \A k \in 1 .. Len(ns) : ms[k] = ns[k]
    <3>1. ms \in Seq(STRING) /\ Behind(ns, n, ms)
      BY <1>1, <2>1, AppendIs, Zenon
    <3> QED
      BY <3>1 DEF Behind
  <2>3. \A k \in 1 .. Len(ns) : ns[k] # n
    BY <1>1, <1>3 DEF Range
  <2>4. \A j, k \in 1 .. Len(ms) : ms[j] = ms[k] => j = k
    <3> TAKE j, k \in 1 .. Len(ms)
    <3>1. j \in 1 .. Len(ns) \/ j = Len(ns) + 1
      BY <1>1, <2>2
    <3>2. k \in 1 .. Len(ns) \/ k = Len(ns) + 1
      BY <1>1, <2>2
    <3> QED
      BY <2>2, <2>3, <3>1, <3>2 DEF Distinct
  <2>5. Distinct(ms)
    BY <2>2, <2>4 DEF Distinct
  <2>6. Len(ns) + 1 \in 1 .. Len(ms)
    BY <1>1, <2>2
  <2>7. Begins(ns, ms)
    <3>1. Len(ns) <= Len(ms)
      BY <1>1, <2>2
    <3> QED
      BY <2>2, <3>1 DEF Begins
  <2> QED
    BY <2>2, <2>5, <2>6, <2>7
<1> QED
  BY <1>2, <1>3

\* The slot of a name is the one place where it is.
Slot(F, n, k) == k + 1 \in 1 .. Len(F) /\ F[k + 1] = n

\* A name that was met has a slot, and it is the place of the name.
LEMMA SlotFound ==
    ASSUME NEW ns, Distinct(ns), NEW n \in STRING, NEW ms, ms = Meeting(ns, n)
    PROVE  SlotIn(ms, n) \in Int /\ Slot(ms, n, SlotIn(ms, n))
<1>1. Distinct(ms) /\ \E k \in 1 .. Len(ms) : ms[k] = n
  BY MeetingIs
<1>2. DOMAIN ms = 1 .. Len(ms) /\ Len(ms) \in Nat
  BY <1>1, LenProperties DEF Distinct
<1>3. PICK k \in 1 .. Len(ms) : k = CHOOSE j \in DOMAIN ms : ms[j] = n
  BY <1>1, <1>2
<1>4. ms[k] = n
  BY <1>1, <1>2, <1>3
<1>5. PICK j \in Int : j = k - 1
  BY <1>2
<1>6. SlotIn(ms, n) = j
  BY <1>3, <1>5 DEF SlotIn
<1>7. j + 1 = k
  BY <1>2, <1>5
<1> QED
  BY <1>4, <1>6, <1>7 DEF Slot

\* Names met later leave the slot of a name where it is.
LEMMA SlotKept ==
    ASSUME NEW ns, NEW F, Distinct(ns), Distinct(F), Begins(ns, F), NEW n, NEW k \in Int,
           Slot(ns, n, k)
    PROVE  Slot(F, n, k)
<1>1. Len(ns) \in Nat /\ Len(F) \in Nat
  BY DEF Distinct
<1> QED
  BY <1>1 DEF Begins, Slot

-----------------------------------------------------------------------------
(* Two walkers that differ in their storage alone.                         *)

SameRun(w, v) ==
    /\ w.input = v.input /\ w.events = v.events /\ w.nodes = v.nodes
    /\ w.value = v.value /\ w.flow = v.flow /\ w.fault = v.fault

SameStore(w, u) ==
    /\ u.storage = w.storage /\ u.slotOf = w.slotOf /\ u.bySlot = w.bySlot
    /\ u.definedSlot = w.definedSlot /\ u.byName = w.byName

\* What byName holds is what the slots hold, by the names F of the slots.
Stored(w, v, F) ==
    /\ w.slotOf = F /\ Len(w.bySlot) = Len(F) /\ Len(w.definedSlot) = Len(F)
    /\ \A entry \in v.byName : \E k \in 1 .. Len(F) :
          w.definedSlot[k] = TRUE /\ entry = [name |-> F[k], value |-> w.bySlot[k]]
    /\ \A k \in 1 .. Len(F) :
          w.definedSlot[k] = TRUE => [name |-> F[k], value |-> w.bySlot[k]] \in v.byName

Alike(w, v, F) ==
    /\ w \in Walker /\ v \in Walker
    /\ w.storage = "Slots" /\ v.storage = "Map"
    /\ SameRun(w, v) /\ Stored(w, v, F)

\* The types of the members of a walker.
LEMMA WalkerIs ==
    ASSUME NEW w \in Walker
    PROVE  /\ w.slotOf \in Seq(STRING) /\ w.bySlot \in Seq(Value)
           /\ w.definedSlot \in Seq(BOOLEAN) /\ w.byName \in SUBSET Entry
           /\ w.input \in Seq(CInt) /\ w.events \in Seq(Event) /\ w.nodes \in Nat
           /\ w.value \in Value /\ w.flow \in {"Normal", "Break", "Continue"}
           /\ w.fault \in [reason : WalkFault, loc : Place]
BY DEF Walker

\* What walkers that are alike have in common.
LEMMA AlikeIs ==
    ASSUME NEW w, NEW v, NEW F, Alike(w, v, F)
    PROVE  /\ w \in Walker /\ v \in Walker /\ SameRun(w, v)
           /\ w.input = v.input /\ w.value = v.value /\ w.value \in Value
           /\ w.flow = v.flow /\ w.fault = v.fault /\ (Sound(w) <=> Sound(v))
BY WalkerIs DEF Alike, SameRun, Sound

\* The same change to both runs, with the stores left alone, keeps them alike.
LEMMA AlikeKept ==
    ASSUME NEW w, NEW v, NEW F, Alike(w, v, F), NEW x \in Walker, NEW y \in Walker,
           SameStore(w, x), SameStore(v, y), SameRun(x, y)
    PROVE  Alike(x, y, F)
BY DEF Alike, SameStore, Stored

\* A fault changes nothing that is stored.
LEMMA ThrowIs ==
    ASSUME NEW w \in Walker, NEW why \in WalkFault, NEW l \in Nat
    PROVE  Throw(w, why, l) \in Walker /\ SameStore(w, Throw(w, why, l))
BY DEF Throw, Walker, SameStore, Place

\* A value changes nothing that is stored.
LEMMA YieldIs ==
    ASSUME NEW w \in Walker, NEW x \in Value
    PROVE  Yield(w, x) \in Walker /\ SameStore(w, Yield(w, x))
BY DEF Yield, Walker, SameStore

\* A flow changes nothing that is stored.
LEMMA FlowingIs ==
    ASSUME NEW w \in Walker, NEW f \in {"Normal", "Break", "Continue"}
    PROVE  Flowing(w, f) \in Walker /\ SameStore(w, Flowing(w, f))
BY DEF Flowing, Walker, SameStore

\* An event changes nothing that is stored.
LEMMA HappenedIs ==
    ASSUME NEW w \in Walker, NEW e \in Event
    PROVE  Happened(w, e) \in Walker /\ SameStore(w, Happened(w, e))
<1>1. PICK es \in Seq(Event) : es = Append(w.events, e)
  BY WalkerIs, AppendProperties
<1>2. Happened(w, e) = [w EXCEPT !.events = es]
  BY <1>1 DEF Happened
<1> QED
  BY <1>2 DEF Walker, SameStore

\* Both throw.
LEMMA AlikeThrow ==
    ASSUME NEW w, NEW v, NEW F, Alike(w, v, F), NEW why \in WalkFault, NEW l \in Nat
    PROVE  Alike(Throw(w, why, l), Throw(v, why, l), F)
<1>1. w \in Walker /\ v \in Walker /\ SameRun(w, v)
  BY AlikeIs
<1>2. SameRun(Throw(w, why, l), Throw(v, why, l))
  BY <1>1 DEF SameRun, Throw, Walker
<1> QED
  BY <1>1, <1>2, ThrowIs, AlikeKept

\* Both yield.
LEMMA AlikeYield ==
    ASSUME NEW w, NEW v, NEW F, Alike(w, v, F), NEW x \in Value
    PROVE  Alike(Yield(w, x), Yield(v, x), F)
<1>1. w \in Walker /\ v \in Walker /\ SameRun(w, v)
  BY AlikeIs
<1>2. SameRun(Yield(w, x), Yield(v, x))
  BY <1>1 DEF SameRun, Yield, Walker
<1> QED
  BY <1>1, <1>2, YieldIs, AlikeKept

\* Both flow.
LEMMA AlikeFlowing ==
    ASSUME NEW w, NEW v, NEW F, Alike(w, v, F), NEW f \in {"Normal", "Break", "Continue"}
    PROVE  Alike(Flowing(w, f), Flowing(v, f), F)
<1>1. w \in Walker /\ v \in Walker /\ SameRun(w, v)
  BY AlikeIs
<1>2. SameRun(Flowing(w, f), Flowing(v, f))
  BY <1>1 DEF SameRun, Flowing, Walker
<1> QED
  BY <1>1, <1>2, FlowingIs, AlikeKept

\* The same happens in both.
LEMMA AlikeHappened ==
    ASSUME NEW w, NEW v, NEW F, Alike(w, v, F), NEW e \in Event
    PROVE  Alike(Happened(w, e), Happened(v, e), F)
<1>1. w \in Walker /\ v \in Walker /\ SameRun(w, v)
  BY AlikeIs
<1>2. SameRun(Happened(w, e), Happened(v, e))
  BY <1>1 DEF SameRun, Happened, Walker
<1> QED
  BY <1>1, <1>2, HappenedIs, AlikeKept

\* Both count the node, or both have run out.
LEMMA AlikeVisited ==
    ASSUME NEW w, NEW v, NEW F, Alike(w, v, F)
    PROVE  Alike(Visited(w), Visited(v), F)
<1>1. w \in Walker /\ v \in Walker /\ SameRun(w, v) /\ (Sound(w) <=> Sound(v))
  BY AlikeIs
<1>2. w.nodes = v.nodes /\ w.nodes \in Nat
  BY <1>1, WalkerIs DEF SameRun
<1>3. CASE ~Sound(w)
  BY <1>1, <1>3 DEF Visited
<1>4. CASE Sound(w) /\ w.nodes = MaxNodes
  <2>1. Visited(w) = Throw(w, "fuel", 0) /\ Visited(v) = Throw(v, "fuel", 0)
    BY <1>1, <1>2, <1>4 DEF Visited
  <2>2. PICK why \in WalkFault, l \in Nat : why = "fuel" /\ l = 0
    BY DEF WalkFault
  <2>3. Alike(Throw(w, why, l), Throw(v, why, l), F)
    BY AlikeThrow
  <2> QED
    BY <2>1, <2>2, <2>3
<1>5. CASE Sound(w) /\ w.nodes # MaxNodes
  <2>1. PICK n \in Nat : n = w.nodes + 1
    BY <1>2
  <2>2. PICK x : x = [w EXCEPT !.nodes = n]
    OBVIOUS
  <2>3. PICK y : y = [v EXCEPT !.nodes = n]
    OBVIOUS
  <2>4. x \in Walker /\ SameStore(w, x)
    BY <1>1, <2>2 DEF Walker, SameStore
  <2>5. y \in Walker /\ SameStore(v, y)
    BY <1>1, <2>3 DEF Walker, SameStore
  <2>6. SameRun(x, y)
    BY <1>1, <2>2, <2>3 DEF SameRun, Walker
  <2>7. Visited(w) = x /\ Visited(v) = y
    BY <1>1, <1>2, <1>5, <2>1, <2>2, <2>3 DEF Visited
  <2>8. Alike(x, y, F)
    BY <2>4, <2>5, <2>6, AlikeKept
  <2> QED
    BY <2>7, <2>8
<1> QED
  BY <1>3, <1>4, <1>5

-----------------------------------------------------------------------------
(* What evaluating does with values, whatever the walker is.               *)

\* One value for every walker, or one fault.
YieldsOne(op, x, y, l) == \E u \in Value : \A w : Combined(w, op, x, y, l) = Yield(w, u)
ThrowsOne(op, x, y, l) ==
    \E why \in WalkFault : \A w : Combined(w, op, x, y, l) = Throw(w, why, l)

\* A sum, difference or product fits for every walker or for none.
LEMMA ComputedIs ==
    ASSUME NEW op, NEW x, NEW y, NEW l, NEW n \in Int,
           \A w : Combined(w, op, x, y, l) = Computed(w, n, l)
    PROVE  YieldsOne(op, x, y, l) \/ ThrowsOne(op, x, y, l)
<1>1. CASE Fit(n)
  <2>1. PICK u \in Value : u = MakeInt(n)
    BY ValueLemma
  <2>2. \A w : Combined(w, op, x, y, l) = Yield(w, u)
    BY <1>1, <2>1, Zenon DEF Computed
  <2> QED
    BY <2>2 DEF YieldsOne
<1>2. CASE ~Fit(n)
  <2>1. PICK why \in WalkFault : why = "overflow"
    BY DEF WalkFault
  <2>2. \A w : Combined(w, op, x, y, l) = Throw(w, why, l)
    BY <1>2, <2>1, Zenon DEF Computed
  <2> QED
    BY <2>2 DEF ThrowsOne
<1> QED
  BY <1>1, <1>2

\* Nor does a quotient or a remainder depend on the walker.
LEMMA DividedIs ==
    ASSUME NEW op, NEW x, NEW y, NEW l, NEW a \in Int, NEW c \in Int,
           \A w : Combined(w, op, x, y, l) = Divided(w, op, a, c, l)
    PROVE  YieldsOne(op, x, y, l) \/ ThrowsOne(op, x, y, l)
<1>1. CASE c = 0
  <2>1. PICK why \in WalkFault : why = "zero"
    BY DEF WalkFault
  <2>2. \A w : Combined(w, op, x, y, l) = Throw(w, why, l)
    BY <1>1, <2>1, Zenon DEF Divided
  <2> QED
    BY <2>2 DEF ThrowsOne
<1>2. CASE c # 0 /\ QuotientOverflows(a, c)
  <2>1. PICK why \in WalkFault : why = IF op = "DIV" THEN "overflow" ELSE "remainder"
    BY DEF WalkFault
  <2>2. \A w : Combined(w, op, x, y, l) = Throw(w, why, l)
    BY <1>2, <2>1, Zenon DEF Divided
  <2> QED
    BY <2>2 DEF ThrowsOne
<1>3. CASE c # 0 /\ ~QuotientOverflows(a, c)
  <2>1. PICK n \in Int : n = IF op = "DIV" THEN TruncDiv(a, c) ELSE TruncMod(a, c)
    BY <1>3, TruncTypes
  <2>2. PICK u \in Value : u = MakeInt(n)
    BY ValueLemma
  <2>3. \A w : Combined(w, op, x, y, l) = Yield(w, u)
    BY <1>3, <2>1, <2>2, Zenon DEF Divided
  <2> QED
    BY <2>3 DEF YieldsOne
<1> QED
  BY <1>1, <1>2, <1>3

\* Nor does a comparison.
LEMMA ComparedIs ==
    ASSUME NEW op, NEW x, NEW y, NEW l, NEW b \in BOOLEAN,
           \A w : Combined(w, op, x, y, l) = Yield(w, MakeBool(b))
    PROVE  YieldsOne(op, x, y, l)
<1>1. PICK u \in Value : u = MakeBool(b)
  BY ValueLemma
<1> QED
  BY <1>1 DEF YieldsOne

\* What a binary operator makes of two values depends on them alone.
LEMMA CombinedIs ==
    ASSUME NEW op \in BinOp, NEW x \in Value, NEW y \in Value, NEW l
    PROVE  YieldsOne(op, x, y, l) \/ ThrowsOne(op, x, y, l)
<1>1. PICK a \in Int, c \in Int : a = x.i /\ c = y.i
  BY DEF Value
<1>2. ASSUME NEW b \in BOOLEAN, \A w : Combined(w, op, x, y, l) = Yield(w, MakeBool(b))
      PROVE  YieldsOne(op, x, y, l)
  BY <1>2, ComparedIs, Zenon
<1>3. CASE op = "EQ"
  <2>1. PICK b \in BOOLEAN : b = RawEq(x, y)
    BY DEF RawEq
  <2>2. \A w : Combined(w, op, x, y, l) = Yield(w, MakeBool(b))
    BY <1>3, <2>1, Zenon DEF Combined
  <2> QED
    BY <1>2, <2>2
<1>4. CASE op = "NEQ"
  <2>1. PICK b \in BOOLEAN : b = ~RawEq(x, y)
    BY DEF RawEq
  <2>2. \A w : Combined(w, op, x, y, l) = Yield(w, MakeBool(b))
    BY <1>4, <2>1 DEF Combined
  <2> QED
    BY <1>2, <2>2
<1>5. CASE op \notin {"EQ", "NEQ"} /\ (~IsInt(x) \/ ~IsInt(y))
  <2>1. PICK why \in WalkFault : why = "type"
    BY DEF WalkFault
  <2>2. \A w : Combined(w, op, x, y, l) = Throw(w, why, l)
    BY <1>5, <2>1 DEF Combined
  <2> QED
    BY <2>2 DEF ThrowsOne
<1>6. CASE op \notin {"EQ", "NEQ"} /\ IsInt(x) /\ IsInt(y)
  <2>1. CASE op = "GT"
    <3>1. PICK b \in BOOLEAN : b = (a > c)
      <4>1. PICK t : t = (a > c)
        OBVIOUS
      <4>2. t \in BOOLEAN
        BY <4>1
      <4> QED
        BY <4>1, <4>2
    <3>2. \A w : Combined(w, op, x, y, l) = Yield(w, MakeBool(b))
      BY <1>1, <1>6, <2>1, <3>1 DEF Combined
    <3> QED
      BY <1>2, <3>2
  <2>2. CASE op = "LT"
    <3>1. PICK b \in BOOLEAN : b = (a < c)
      <4>1. PICK t : t = (a < c)
        OBVIOUS
      <4>2. t \in BOOLEAN
        BY <4>1
      <4> QED
        BY <4>1, <4>2
    <3>2. \A w : Combined(w, op, x, y, l) = Yield(w, MakeBool(b))
      BY <1>1, <1>6, <2>2, <3>1 DEF Combined
    <3> QED
      BY <1>2, <3>2
  <2>3. CASE op = "GE"
    <3>1. PICK b \in BOOLEAN : b = (a >= c)
      <4>1. PICK t : t = (a >= c)
        OBVIOUS
      <4>2. t \in BOOLEAN
        BY <4>1
      <4> QED
        BY <4>1, <4>2
    <3>2. \A w : Combined(w, op, x, y, l) = Yield(w, MakeBool(b))
      BY <1>1, <1>6, <2>3, <3>1 DEF Combined
    <3> QED
      BY <1>2, <3>2
  <2>4. CASE op = "LE"
    <3>1. PICK b \in BOOLEAN : b = (a <= c)
      <4>1. PICK t : t = (a <= c)
        OBVIOUS
      <4>2. t \in BOOLEAN
        BY <4>1
      <4> QED
        BY <4>1, <4>2
    <3>2. \A w : Combined(w, op, x, y, l) = Yield(w, MakeBool(b))
      BY <1>1, <1>6, <2>4, <3>1 DEF Combined
    <3> QED
      BY <1>2, <3>2
  <2>5. CASE op \in {"DIV", "MOD"}
    <3>1. \A w : Combined(w, op, x, y, l) = Divided(w, op, a, c, l)
      BY <1>1, <1>6, <2>5 DEF Combined
    <3> QED
      BY <3>1, DividedIs, Zenon
  <2>6. CASE op \in {"ADD", "SUB", "MUL"}
    <3>1. PICK n \in Int : n = CASE op = "ADD" -> a + c [] op = "SUB" -> a - c
                                 [] op = "MUL" -> a * c
      BY <2>6
    <3>2. \A w : Combined(w, op, x, y, l) = Computed(w, n, l)
      BY <1>1, <1>6, <2>6, <3>1 DEF Combined
    <3> QED
      BY <3>2, ComputedIs, Zenon
  <2> QED
    BY <1>6, <2>1, <2>2, <2>3, <2>4, <2>5, <2>6 DEF BinOp
<1> QED
  BY <1>3, <1>4, <1>5, <1>6

\* A binary operator keeps them alike.
LEMMA AlikeCombined ==
    ASSUME NEW w, NEW v, NEW F, Alike(w, v, F), NEW op \in BinOp, NEW x \in Value,
           NEW y \in Value, NEW l \in Nat
    PROVE  Alike(Combined(w, op, x, y, l), Combined(v, op, x, y, l), F)
<1>1. CASE YieldsOne(op, x, y, l)
  <2>1. PICK u \in Value : \A z : Combined(z, op, x, y, l) = Yield(z, u)
    BY <1>1 DEF YieldsOne
  <2>2. Alike(Yield(w, u), Yield(v, u), F)
    BY AlikeYield
  <2> QED
    BY <2>1, <2>2
<1>2. CASE ThrowsOne(op, x, y, l)
  <2>1. PICK why \in WalkFault : \A z : Combined(z, op, x, y, l) = Throw(z, why, l)
    BY <1>2 DEF ThrowsOne
  <2>2. Alike(Throw(w, why, l), Throw(v, why, l), F)
    BY AlikeThrow
  <2> QED
    BY <2>1, <2>2
<1> QED
  BY <1>1, <1>2, CombinedIs

\* So does a negation,
LEMMA AlikeNegated ==
    ASSUME NEW w, NEW v, NEW F, Alike(w, v, F), NEW l \in Nat
    PROVE  Alike(Negated(w, l), Negated(v, l), F)
<1>1. w.value = v.value /\ w.value \in Value
  BY AlikeIs
<1>2. CASE ~IsInt(w.value)
  <2>1. PICK why \in WalkFault : why = "type"
    BY DEF WalkFault
  <2>2. Negated(w, l) = Throw(w, why, l) /\ Negated(v, l) = Throw(v, why, l)
    BY <1>1, <1>2, <2>1 DEF Negated
  <2> QED
    BY <2>2, AlikeThrow
<1>3. CASE IsInt(w.value) /\ w.value.i = IntMin
  <2>1. PICK why \in WalkFault : why = "overflow"
    BY DEF WalkFault
  <2>2. Negated(w, l) = Throw(w, why, l) /\ Negated(v, l) = Throw(v, why, l)
    BY <1>1, <1>3, <2>1 DEF Negated
  <2> QED
    BY <2>2, AlikeThrow
<1>4. CASE IsInt(w.value) /\ w.value.i # IntMin
  <2>1. PICK n \in Int : n = -w.value.i
    BY <1>1 DEF Value
  <2>2. PICK u \in Value : u = MakeInt(n)
    BY ValueLemma
  <2>3. Negated(w, l) = Yield(w, u) /\ Negated(v, l) = Yield(v, u)
    BY <1>1, <1>4, <2>1, <2>2 DEF Negated
  <2> QED
    BY <2>3, AlikeYield
<1> QED
  BY <1>2, <1>3, <1>4

\* and a read: both take the same integer or find none.
LEMMA AlikeReadInt ==
    ASSUME NEW w, NEW v, NEW F, Alike(w, v, F), NEW l \in Nat
    PROVE  Alike(ReadInt(w, l), ReadInt(v, l), F)
<1>1. w \in Walker /\ v \in Walker /\ SameRun(w, v) /\ w.input = v.input
  BY AlikeIs
<1>2. w.input \in Seq(CInt)
  BY <1>1, WalkerIs
<1>3. CASE w.input = << >>
  <2>1. PICK why \in WalkFault : why = "input"
    BY DEF WalkFault
  <2>2. ReadInt(w, l) = Throw(w, why, l) /\ ReadInt(v, l) = Throw(v, why, l)
    BY <1>1, <1>3, <2>1 DEF ReadInt
  <2> QED
    BY <2>2, AlikeThrow
<1>4. CASE w.input # << >>
  <2>1. PICK rest \in Seq(CInt) : rest = Tail(w.input)
    BY <1>2, <1>4, HeadTailProperties
  <2>2. PICK n \in Int : n = Head(w.input)
    <3>1. Head(w.input) \in CInt
      BY <1>2, <1>4, HeadTailProperties
    <3> QED
      BY <3>1, IntMaxAssumption DEF CInt, IntMin
  <2>3. PICK u \in Value : u = MakeInt(n)
    BY ValueLemma
  <2>4. PICK x : x = [w EXCEPT !.input = rest]
    OBVIOUS
  <2>5. PICK y : y = [v EXCEPT !.input = rest]
    OBVIOUS
  <2>6. x \in Walker /\ SameStore(w, x)
    BY <1>1, <2>4 DEF Walker, SameStore
  <2>7. y \in Walker /\ SameStore(v, y)
    BY <1>1, <2>5 DEF Walker, SameStore
  <2>8. SameRun(x, y)
    BY <1>1, <2>4, <2>5 DEF SameRun, Walker
  <2>9. Alike(x, y, F)
    BY <2>6, <2>7, <2>8, AlikeKept
  <2>10. Alike(Yield(x, u), Yield(y, u), F)
    BY <2>9, AlikeYield
  <2>11. IntRead \in Event
    BY DEF Event
  <2>12. Alike(Happened(Yield(x, u), IntRead), Happened(Yield(y, u), IntRead), F)
    BY <2>10, <2>11, AlikeHappened
  <2>13. /\ ReadInt(w, l) = Happened(Yield(x, u), IntRead)
         /\ ReadInt(v, l) = Happened(Yield(y, u), IntRead)
    BY <1>1, <1>4, <2>1, <2>2, <2>3, <2>4, <2>5 DEF ReadInt
  <2> QED
    BY <2>12, <2>13
<1> QED
  BY <1>3, <1>4

-----------------------------------------------------------------------------
(* load and store.                                                         *)

\* What byName holds of a name is what its slot holds, or nothing.
LEMMA EntriesAre ==
    ASSUME NEW w, NEW v, NEW F, Alike(w, v, F), Distinct(F), NEW n, NEW k \in Int,
           Slot(F, n, k)
    PROVE  /\ EntriesOf(v, n) = IF w.definedSlot[k + 1] = TRUE
                                THEN {[name |-> n, value |-> w.bySlot[k + 1]]} ELSE {}
           /\ w.bySlot[k + 1] \in Value /\ w.definedSlot[k + 1] \in BOOLEAN
           /\ DOMAIN w.bySlot = 1 .. Len(F) /\ DOMAIN w.definedSlot = 1 .. Len(F)
<1>1. w \in Walker /\ Stored(w, v, F)
  BY DEF Alike
<1>2. /\ w.bySlot \in Seq(Value) /\ w.definedSlot \in Seq(BOOLEAN)
      /\ Len(w.bySlot) = Len(F) /\ Len(w.definedSlot) = Len(F)
  BY <1>1, WalkerIs DEF Stored
<1>3. DOMAIN w.bySlot = 1 .. Len(F) /\ DOMAIN w.definedSlot = 1 .. Len(F)
  BY <1>2, LenProperties
<1>4. PICK p \in 1 .. Len(F) : p = k + 1 /\ F[p] = n
  BY DEF Slot
<1>5. w.bySlot[p] \in Value /\ w.definedSlot[p] \in BOOLEAN
  BY <1>2, <1>4, ElementOfSeq
<1>6. PICK cell : cell = [name |-> n, value |-> w.bySlot[p]]
  OBVIOUS
<1>7. cell.name = n
  BY <1>6
<1>8. ASSUME NEW entry \in v.byName, entry.name = n
      PROVE  w.definedSlot[p] = TRUE /\ entry = cell
  <2>1. PICK j \in 1 .. Len(F) :
            w.definedSlot[j] = TRUE /\ entry = [name |-> F[j], value |-> w.bySlot[j]]
    BY <1>1 DEF Stored
  <2>2. F[j] = n
    BY <1>8, <2>1
  <2>3. j = p
    BY <1>4, <2>2 DEF Distinct
  <2> QED
    BY <1>6, <2>1, <2>2, <2>3
<1>9. w.definedSlot[p] = TRUE => cell \in v.byName
  BY <1>1, <1>4, <1>6 DEF Stored
<1>10. EntriesOf(v, n) = IF w.definedSlot[p] = TRUE THEN {cell} ELSE {}
  BY <1>7, <1>8, <1>9 DEF EntriesOf
<1> QED
  BY <1>3, <1>4, <1>5, <1>6, <1>10

\* The slot of a name holds what the map holds under it, or neither holds it.
LEMMA AlikeLoad ==
    ASSUME NEW w, NEW v, NEW F, Alike(w, v, F), Distinct(F), NEW d, NEW e,
           d.slot \in Int, Slot(F, e.name, d.slot), d.loc = e.loc, e.loc \in Nat
    PROVE  Alike(LoadVariable(w, d), LoadVariable(v, e), F)
<1>1. w.storage = "Slots" /\ v.storage = "Map"
  BY DEF Alike
<1>2. PICK k \in Int : k = d.slot
  OBVIOUS
<1>3. PICK l \in Nat : l = e.loc
  OBVIOUS
<1>4. /\ EntriesOf(v, e.name) = IF w.definedSlot[k + 1] = TRUE
                                THEN {[name |-> e.name, value |-> w.bySlot[k + 1]]} ELSE {}
      /\ w.bySlot[k + 1] \in Value /\ w.definedSlot[k + 1] \in BOOLEAN
      /\ DOMAIN w.bySlot = 1 .. Len(F) /\ DOMAIN w.definedSlot = 1 .. Len(F)
  <2>1. PICK n : n = e.name
    OBVIOUS
  <2>2. Slot(F, n, k)
    BY <1>2, <2>1
  <2>3. /\ EntriesOf(v, n) = IF w.definedSlot[k + 1] = TRUE
                             THEN {[name |-> n, value |-> w.bySlot[k + 1]]} ELSE {}
        /\ w.bySlot[k + 1] \in Value /\ w.definedSlot[k + 1] \in BOOLEAN
        /\ DOMAIN w.bySlot = 1 .. Len(F) /\ DOMAIN w.definedSlot = 1 .. Len(F)
    BY <2>2, EntriesAre
  <2> QED
    BY <2>1, <2>3
<1>5. k + 1 \in DOMAIN w.definedSlot
  BY <1>2, <1>4 DEF Slot
<1>6. CASE w.definedSlot[k + 1] = TRUE
  <2>1. PICK u \in Value : u = w.bySlot[k + 1]
    BY <1>4
  <2>2. LoadVariable(w, d) = Yield(w, u)
    BY <1>1, <1>2, <1>5, <1>6, <2>1 DEF LoadVariable
  <2>3. PICK cell : cell = [name |-> e.name, value |-> u]
    OBVIOUS
  <2>4. EntriesOf(v, e.name) = {cell} /\ cell.value = u
    BY <1>4, <1>6, <2>1, <2>3
  <2>5. (CHOOSE entry \in EntriesOf(v, e.name) : TRUE) = cell
    BY <2>4
  <2>6. LoadVariable(v, e) = Yield(v, u)
    BY <1>1, <2>4, <2>5 DEF LoadVariable
  <2> QED
    BY <2>2, <2>6, AlikeYield
<1>7. CASE w.definedSlot[k + 1] # TRUE
  <2>1. PICK why \in WalkFault : why = "undefined"
    BY DEF WalkFault
  <2>2. w.definedSlot[k + 1] = FALSE
    BY <1>4, <1>7
  <2>3. LoadVariable(w, d) = Throw(w, why, l)
    BY <1>1, <1>2, <1>3, <2>1, <2>2 DEF LoadVariable
  <2>4. LoadVariable(v, e) = Throw(v, why, l)
    BY <1>1, <1>3, <1>4, <1>7, <2>1 DEF LoadVariable
  <2> QED
    BY <2>3, <2>4, AlikeThrow
<1> QED
  BY <1>6, <1>7

\* A store to the slot of a name is a store to its entry, and to no other.
LEMMA AlikeStore ==
    ASSUME NEW w, NEW v, NEW F, Alike(w, v, F), Distinct(F), NEW d, NEW s,
           d.slot \in Int, Slot(F, s.name, d.slot), s.name \in STRING
    PROVE  Alike(StoreVariable(w, d), StoreVariable(v, s), F)
<1>1. /\ w.storage = "Slots" /\ v.storage = "Map" /\ w \in Walker /\ v \in Walker
      /\ SameRun(w, v) /\ Stored(w, v, F)
  BY DEF Alike
<1>2. PICK u \in Value : u = w.value /\ u = v.value
  BY AlikeIs
<1>3. PICK n \in STRING : n = s.name
  OBVIOUS
<1>4. PICK k \in 1 .. Len(F) : k = d.slot + 1 /\ F[k] = n
  BY <1>3 DEF Slot
<1>5. /\ w.bySlot \in Seq(Value) /\ w.definedSlot \in Seq(BOOLEAN)
      /\ Len(w.bySlot) = Len(F) /\ Len(w.definedSlot) = Len(F)
      /\ v.byName \in SUBSET Entry
  BY <1>1, WalkerIs DEF Stored
<1>6. DOMAIN w.bySlot = 1 .. Len(F) /\ DOMAIN w.definedSlot = 1 .. Len(F)
  BY <1>5, LenProperties
<1>7. PICK cell \in Entry : cell = [name |-> n, value |-> u]
  BY DEF Entry
<1>8. PICK bs : bs = [w.bySlot EXCEPT ![k] = u]
  OBVIOUS
<1>9. PICK ds : ds = [w.definedSlot EXCEPT ![k] = TRUE]
  OBVIOUS
<1>10. PICK N \in Nat : N = Len(F)
  BY DEF Distinct
<1>11. bs \in Seq(Value) /\ Len(bs) = N /\ ds \in Seq(BOOLEAN) /\ Len(ds) = N
  BY <1>4, <1>5, <1>8, <1>9, <1>10, ExceptSeq
<1>12. \A j \in 1 .. N : /\ bs[j] = IF j = k THEN u ELSE w.bySlot[j]
                         /\ ds[j] = IF j = k THEN TRUE ELSE w.definedSlot[j]
  BY <1>6, <1>8, <1>9, <1>10
<1>13. PICK es : es = (v.byName \ EntriesOf(v, n)) \cup {cell}
  OBVIOUS
<1>14. PICK x : x = [w EXCEPT !.bySlot = bs, !.definedSlot = ds]
  OBVIOUS
<1>15. PICK y : y = [v EXCEPT !.byName = es]
  OBVIOUS
<1>16. x = StoreVariable(w, d)
  <2>1. d.slot + 1 \in DOMAIN w.bySlot
    BY <1>4, <1>6
  <2> QED
    BY <1>1, <1>2, <1>4, <1>8, <1>9, <1>14, <2>1 DEF StoreVariable, Walker
<1>17. y = StoreVariable(v, s)
  BY <1>1, <1>2, <1>3, <1>7, <1>13, <1>15 DEF StoreVariable
<1>18. x \in Walker /\ y \in Walker
  <2>1. x \in Walker
    BY <1>1, <1>11, <1>14 DEF Walker
  <2>2. es \in SUBSET Entry
    BY <1>5, <1>13
  <2>3. y \in Walker
    BY <1>1, <1>15, <2>2 DEF Walker
  <2> QED
    BY <2>1, <2>3
<1>19. SameRun(x, y)
  BY <1>1, <1>14, <1>15 DEF SameRun, Walker
<1>20. /\ x.storage = "Slots" /\ y.storage = "Map" /\ x.slotOf = w.slotOf
       /\ x.bySlot = bs /\ x.definedSlot = ds /\ y.byName = es
  BY <1>1, <1>14, <1>15 DEF Walker
<1>21. cell.name = n
  BY <1>7
<1>22. ASSUME NEW entry \in es
       PROVE  \E j \in 1 .. N : ds[j] = TRUE /\ entry = [name |-> F[j], value |-> bs[j]]
  <2>1. CASE entry = cell
    <3>1. ds[k] = TRUE /\ bs[k] = u
      BY <1>10, <1>12
    <3> QED
      BY <1>4, <1>7, <1>10, <2>1, <3>1
  <2>2. CASE entry \in v.byName /\ entry.name # n
    <3>1. PICK j \in 1 .. N :
              w.definedSlot[j] = TRUE /\ entry = [name |-> F[j], value |-> w.bySlot[j]]
      BY <1>1, <1>10, <2>2 DEF Stored
    <3>2. j # k
      BY <1>4, <2>2, <3>1
    <3>3. ds[j] = TRUE /\ bs[j] = w.bySlot[j]
      BY <1>12, <3>1, <3>2
    <3> QED
      BY <3>1, <3>3
  <2> QED
    BY <1>13, <2>1, <2>2 DEF EntriesOf
<1>23. ASSUME NEW j \in 1 .. N, ds[j] = TRUE
       PROVE  [name |-> F[j], value |-> bs[j]] \in es
  <2>1. CASE j = k
    <3>1. bs[j] = u
      BY <1>12, <2>1
    <3> QED
      BY <1>4, <1>7, <1>13, <2>1, <3>1
  <2>2. CASE j # k
    <3>1. bs[j] = w.bySlot[j] /\ w.definedSlot[j] = TRUE
      BY <1>12, <1>23, <2>2
    <3>2. PICK entry : entry = [name |-> F[j], value |-> bs[j]]
      OBVIOUS
    <3>3. entry \in v.byName
      BY <1>1, <1>10, <3>1, <3>2 DEF Stored
    <3>4. F[j] # n
      BY <1>4, <1>10, <2>2 DEF Distinct
    <3>5. entry.name # n
      BY <3>2, <3>4
    <3> QED
      BY <1>13, <3>2, <3>3, <3>5 DEF EntriesOf
  <2> QED
    BY <2>1, <2>2
<1>24. x.slotOf = F
  BY <1>1, <1>20 DEF Stored
<1>25. Stored(x, y, F)
  BY <1>10, <1>11, <1>20, <1>22, <1>23, <1>24 DEF Stored
<1>26. Alike(x, y, F)
  BY <1>18, <1>19, <1>20, <1>25 DEF Alike
<1> QED
  BY <1>16, <1>17, <1>26

-----------------------------------------------------------------------------
(* What resolving a node promises: the resolved node runs with slots as    *)
(* the node runs with names, whatever names are met later.                 *)

Matches(visit, x, y, F) ==
    \A w, v : Alike(w, v, F) => Alike(visit[x][w], visit[y][v], F)

Fine(visit, S, y, names, r) ==
    /\ r.node \in S /\ Distinct(r.names) /\ Begins(names, r.names)
    /\ \A F : Distinct(F) /\ Begins(r.names, F) => Matches(visit, r.node, y, F)

\* The walk over a tree ev, and rv that resolves it.
ExprsAlike(rv, ev, E) ==
    \A e \in E : \A names : Distinct(names) => Fine(ev, E, e, names, rv[e][names])

\* The parts of Fine.
LEMMA FineIs ==
    ASSUME NEW visit, NEW S, NEW y, NEW names, NEW r, Fine(visit, S, y, names, r)
    PROVE  r.node \in S /\ Distinct(r.names) /\ Begins(names, r.names)
BY DEF Fine

\* What Fine says of one run.
LEMMA FineRuns ==
    ASSUME NEW visit, NEW S, NEW y, NEW names, NEW r, Fine(visit, S, y, names, r),
           NEW F, Distinct(F), Begins(r.names, F), NEW w, NEW v, Alike(w, v, F)
    PROVE  Alike(visit[r.node][w], visit[y][v], F)
BY DEF Fine, Matches

\* Names begin with themselves.
LEMMA BeginsSame ==
    ASSUME NEW ns, Distinct(ns)
    PROVE  Begins(ns, ns)
<1>1. Len(ns) \in Nat
  BY DEF Distinct
<1> QED
  BY <1>1 DEF Begins

\* Resolving a node that names a variable gives it the slot of the name.
LEMMA NameSlotIs ==
    ASSUME NEW names, Distinct(names), NEW e, e.name \in STRING, "slot" \in DOMAIN e,
           NEW r, r = NameSlot(e, names)
    PROVE  /\ Distinct(r.names) /\ Begins(names, r.names)
           /\ r.node = [e EXCEPT !.slot = r.node.slot] /\ r.node.slot \in Int
           /\ Slot(r.names, e.name, r.node.slot)
<1>1. PICK n \in STRING : n = e.name
  OBVIOUS
<1>2. PICK ms : ms = Meeting(names, n)
  OBVIOUS
<1>3. Distinct(ms) /\ Begins(names, ms)
  BY <1>2, MeetingIs
<1>4. PICK k \in Int : k = SlotIn(ms, n) /\ Slot(ms, n, k)
  BY <1>2, SlotFound
<1>5. r = Resolved([e EXCEPT !.slot = k], ms)
  BY <1>1, <1>2, <1>4 DEF NameSlot
<1>6. PICK d : d = [e EXCEPT !.slot = k]
  OBVIOUS
<1>7. d.slot = k
  BY <1>6
<1>8. r.node = d /\ r.names = ms
  BY <1>5, <1>6 DEF Resolved
<1> QED
  BY <1>1, <1>3, <1>4, <1>6, <1>7, <1>8

-----------------------------------------------------------------------------
(* Expressions.                                                            *)

\* The visit to a node comes before its kind matters.
LEMMA FineStart ==
    ASSUME NEW ev, NEW d, NEW e, NEW F, NEW w, NEW v, Alike(w, v, F),
           \A x, y : Alike(x, y, F) /\ Sound(x) /\ Sound(y)
                        => Alike(EvalKind(ev, d, x), EvalKind(ev, e, y), F)
    PROVE  Alike(EvalNode(ev, d, w), EvalNode(ev, e, v), F)
<1>1. PICK x : x = Visited(w)
  OBVIOUS
<1>2. PICK y : y = Visited(v)
  OBVIOUS
<1>3. Alike(x, y, F)
  BY <1>1, <1>2, AlikeVisited
<1>4. Sound(x) <=> Sound(y)
  BY <1>3, AlikeIs
<1>5. EvalNode(ev, d, w) = IF Sound(x) THEN EvalKind(ev, d, x) ELSE x
  BY <1>1 DEF EvalNode
<1>6. EvalNode(ev, e, v) = IF Sound(y) THEN EvalKind(ev, e, y) ELSE y
  BY <1>2 DEF EvalNode
<1> QED
  BY <1>3, <1>4, <1>5, <1>6

\* What ExprsAlike says of the node r.node that e is resolved to.
NodeFine(ev, E, e, names, r) ==
    /\ r.node \in ExprOver(E) /\ Distinct(r.names) /\ Begins(names, r.names)
    /\ \A F : Distinct(F) /\ Begins(r.names, F) =>
          \A w, v : Alike(w, v, F) /\ Sound(w) /\ Sound(v)
                       => Alike(EvalKind(ev, r.node, w), EvalKind(ev, e, v), F)

\* A literal and a read have nothing to resolve.
LEMMA LeafFine ==
    ASSUME NEW E, NEW ev, NEW names, Distinct(names),
           NEW e \in LiteralIntNode \cup LiteralBoolNode \cup ReadNode,
           NEW r, r = Resolved(e, names)
    PROVE  NodeFine(ev, E, e, names, r)
<1>1. r.node = e /\ r.names = names
  BY DEF Resolved
<1>2. e \in ExprOver(E)
  BY DEF ExprOver
<1>3. ASSUME NEW F, NEW w, NEW v, Alike(w, v, F)
      PROVE  Alike(EvalKind(ev, e, w), EvalKind(ev, e, v), F)
  <2>1. CASE e \in LiteralIntNode
    <3>1. e.kind = "LITERAL_INT" /\ e.int \in Int
      BY <2>1, IntMaxAssumption DEF LiteralIntNode, CInt, IntMin
    <3>2. PICK u \in Value : u = MakeInt(e.int)
      BY <3>1, ValueLemma
    <3>3. EvalKind(ev, e, w) = Yield(w, u) /\ EvalKind(ev, e, v) = Yield(v, u)
      BY <3>1, <3>2 DEF EvalKind, UnaryKinds
    <3> QED
      BY <1>3, <3>3, AlikeYield
  <2>2. CASE e \in LiteralBoolNode
    <3>1. e.kind = "LITERAL_BOOL" /\ e.bool \in BOOLEAN
      BY <2>2 DEF LiteralBoolNode
    <3>2. PICK u \in Value : u = MakeBool(e.bool)
      BY <3>1, ValueLemma
    <3>3. EvalKind(ev, e, w) = Yield(w, u) /\ EvalKind(ev, e, v) = Yield(v, u)
      BY <3>1, <3>2 DEF EvalKind, UnaryKinds
    <3> QED
      BY <1>3, <3>3, AlikeYield
  <2>3. CASE e \in ReadNode
    <3>1. e.kind = "READ"
      BY <2>3 DEF ReadNode
    <3>2. PICK l \in Nat : l = e.loc
      BY <2>3 DEF ReadNode, Place
    <3>3. EvalKind(ev, e, w) = ReadInt(w, l) /\ EvalKind(ev, e, v) = ReadInt(v, l)
      BY <3>1, <3>2 DEF EvalKind, UnaryKinds
    <3> QED
      BY <1>3, <3>3, AlikeReadInt
  <2> QED
    BY <2>1, <2>2, <2>3
<1>4. Begins(names, names)
  BY BeginsSame
<1> QED
  BY <1>1, <1>2, <1>3, <1>4 DEF NodeFine

\* A variable is looked up in the slot it was given.
LEMMA VariableFine ==
    ASSUME NEW E, NEW ev, NEW names, Distinct(names), NEW e \in VariableNode,
           NEW r, r = NameSlot(e, names)
    PROVE  NodeFine(ev, E, e, names, r)
<1>1. /\ e.name \in STRING /\ "slot" \in DOMAIN e /\ e.loc \in Nat
      /\ e.kind = "VARIABLE"
  BY DEF VariableNode, Place
<1>2. /\ Distinct(r.names) /\ Begins(names, r.names)
      /\ r.node = [e EXCEPT !.slot = r.node.slot] /\ r.node.slot \in Int
      /\ Slot(r.names, e.name, r.node.slot)
  BY <1>1, NameSlotIs
<1>3. PICK k \in Int : k = r.node.slot
  BY <1>2
<1>4. PICK d : d = r.node
  OBVIOUS
<1>5. d = [e EXCEPT !.slot = k]
  BY <1>2, <1>3, <1>4
<1>6. /\ d \in VariableNode /\ d.kind = "VARIABLE" /\ d.slot = k
      /\ d.loc = e.loc /\ d.name = e.name
  BY <1>1, <1>5 DEF VariableNode
<1>7. d \in ExprOver(E)
  BY <1>6 DEF ExprOver
<1>8. ASSUME NEW F, Distinct(F), Begins(r.names, F), NEW w, NEW v, Alike(w, v, F)
      PROVE  Alike(EvalKind(ev, d, w), EvalKind(ev, e, v), F)
  <2>1. Slot(F, e.name, k)
    BY <1>2, <1>3, <1>8, SlotKept
  <2>2. Alike(LoadVariable(w, d), LoadVariable(v, e), F)
    BY <1>1, <1>6, <1>8, <2>1, AlikeLoad
  <2>3. EvalKind(ev, d, w) = LoadVariable(w, d) /\ EvalKind(ev, e, v) = LoadVariable(v, e)
    BY <1>1, <1>6 DEF EvalKind, UnaryKinds
  <2> QED
    BY <2>2, <2>3
<1> QED
  BY <1>2, <1>4, <1>7, <1>8 DEF NodeFine

\* An operator with one operand,
LEMMA UnaryFine ==
    ASSUME NEW E, NEW rv, NEW ev, ExprsAlike(rv, ev, E), NEW names, Distinct(names),
           NEW e \in UnaryNode(E), NEW r, r = ResolveUnary(rv, e, names)
    PROVE  NodeFine(ev, E, e, names, r)
<1>1. e.kind \in UnaryKinds /\ e.loc \in Nat /\ e.operand \in E
  BY DEF UnaryNode, Place
<1>2. PICK x : x = rv[e.operand][names]
  OBVIOUS
<1>3. Fine(ev, E, e.operand, names, x)
  BY <1>1, <1>2 DEF ExprsAlike
<1>4. x.node \in E /\ Distinct(x.names) /\ Begins(names, x.names)
  BY <1>3, FineIs
<1>5. PICK d : d = [e EXCEPT !.operand = x.node]
  OBVIOUS
<1>6. r.node = d /\ r.names = x.names
  BY <1>2, <1>5 DEF ResolveUnary, Resolved
<1>7. /\ d \in UnaryNode(E) /\ d.kind = e.kind /\ d.loc = e.loc
      /\ d.operand = x.node
  BY <1>4, <1>5 DEF UnaryNode
<1>8. d \in ExprOver(E)
  BY <1>7 DEF ExprOver
<1>9. ASSUME NEW F, Distinct(F), Begins(r.names, F), NEW w, NEW v, Alike(w, v, F)
      PROVE  Alike(EvalKind(ev, d, w), EvalKind(ev, e, v), F)
  <2>1. PICK p : p = ev[d.operand][w]
    OBVIOUS
  <2>2. PICK q : q = ev[e.operand][v]
    OBVIOUS
  <2>3. Alike(ev[x.node][w], ev[e.operand][v], F)
    BY <1>3, <1>6, <1>9, FineRuns
  <2>4. Alike(p, q, F)
    BY <1>7, <2>1, <2>2, <2>3
  <2>5. p.value = q.value /\ p.value \in Value /\ (Sound(p) <=> Sound(q))
    BY <2>4, AlikeIs
  <2>6. PICK l \in Nat : l = e.loc /\ l = d.loc
    BY <1>1, <1>7
  <2>7. EvalKind(ev, d, w) = EvalUnary(ev, d, w) /\ EvalKind(ev, e, v) = EvalUnary(ev, e, v)
    BY <1>1, <1>7 DEF EvalKind, UnaryKinds
  <2>8. CASE ~Sound(p)
    <3>1. EvalUnary(ev, d, w) = p /\ EvalUnary(ev, e, v) = q
      BY <2>1, <2>2, <2>5, <2>8 DEF EvalUnary
    <3> QED
      BY <2>4, <2>7, <3>1
  <2>9. CASE Sound(p) /\ e.kind = "UNARY_NEG"
    <3>1. EvalUnary(ev, d, w) = Negated(p, l) /\ EvalUnary(ev, e, v) = Negated(q, l)
      BY <1>7, <2>1, <2>2, <2>5, <2>6, <2>9 DEF EvalUnary
    <3> QED
      BY <2>4, <2>7, <3>1, AlikeNegated
  <2>10. CASE Sound(p) /\ e.kind # "UNARY_NEG"
    <3>1. Truth(p.value) \in BOOLEAN
      BY <2>5 DEF Truth, Value
    <3>2. PICK u \in Value : u = MakeBool(~Truth(p.value))
      BY <3>1, ValueLemma
    <3>3. EvalUnary(ev, d, w) = Yield(p, u) /\ EvalUnary(ev, e, v) = Yield(q, u)
      BY <1>7, <2>1, <2>2, <2>5, <2>10, <3>2 DEF EvalUnary
    <3> QED
      BY <2>4, <2>7, <3>3, AlikeYield
  <2> QED
    BY <2>8, <2>9, <2>10
<1> QED
  BY <1>4, <1>6, <1>8, <1>9 DEF NodeFine

\* Two operands, resolved one after the other.
PairOf(ev, E, e, names, r, x, y) ==
    /\ Fine(ev, E, e.left, names, x) /\ Fine(ev, E, e.right, x.names, y)
    /\ Begins(names, y.names)
    /\ r.node = [e EXCEPT !.left = x.node, !.right = y.node]
    /\ r.names = y.names

\* The second operand is resolved with the names of the first.
LEMMA PairIs ==
    ASSUME NEW E, NEW rv, NEW ev, ExprsAlike(rv, ev, E), NEW names, Distinct(names),
           NEW e, e.left \in E, e.right \in E, NEW r, r = ResolvePair(rv, e, names)
    PROVE  \E x, y : PairOf(ev, E, e, names, r, x, y)
<1>1. PICK x : x = rv[e.left][names]
  OBVIOUS
<1>2. Fine(ev, E, e.left, names, x)
  BY <1>1 DEF ExprsAlike
<1>3. Distinct(x.names) /\ Begins(names, x.names)
  BY <1>2, FineIs
<1>4. PICK y : y = rv[e.right][x.names]
  OBVIOUS
<1>5. Fine(ev, E, e.right, x.names, y)
  BY <1>3, <1>4 DEF ExprsAlike
<1>6. Distinct(y.names) /\ Begins(x.names, y.names)
  BY <1>5, FineIs
<1>7. Begins(names, y.names)
  BY <1>3, <1>6, BeginsTrans, Zenon
<1>8. r = Resolved([e EXCEPT !.left = x.node, !.right = y.node], y.names)
  BY <1>1, <1>4, Zenon DEF ResolvePair
<1>9. r.node = [e EXCEPT !.left = x.node, !.right = y.node] /\ r.names = y.names
  BY <1>8 DEF Resolved
<1> QED
  BY <1>2, <1>5, <1>7, <1>9 DEF PairOf

\* with two,
LEMMA BinaryFine ==
    ASSUME NEW E, NEW rv, NEW ev, ExprsAlike(rv, ev, E), NEW names, Distinct(names),
           NEW e \in BinaryNode(E), NEW r, r = ResolvePair(rv, e, names)
    PROVE  NodeFine(ev, E, e, names, r)
<1>1. /\ e.kind = "BINARY" /\ e.loc \in Nat /\ e.op \in BinOp /\ e.left \in E
      /\ e.right \in E
  BY DEF BinaryNode, Place
<1>2. PICK x, y :
          /\ Fine(ev, E, e.left, names, x) /\ Fine(ev, E, e.right, x.names, y)
          /\ Begins(names, y.names)
          /\ r.node = [e EXCEPT !.left = x.node, !.right = y.node]
          /\ r.names = y.names
  <2>1. \E x, y : PairOf(ev, E, e, names, r, x, y)
    BY <1>1, PairIs, Zenon
  <2> QED
    BY <2>1, Zenon DEF PairOf
<1>3. /\ x.node \in E /\ Distinct(x.names)
      /\ y.node \in E /\ Distinct(y.names) /\ Begins(x.names, y.names)
  BY <1>2, FineIs
<1>4. PICK d : d = r.node
  OBVIOUS
<1>5. /\ d \in BinaryNode(E) /\ d.kind = "BINARY" /\ d.loc = e.loc /\ d.op = e.op
      /\ d.left = x.node /\ d.right = y.node
  BY <1>1, <1>2, <1>3, <1>4 DEF BinaryNode
<1>6. d \in ExprOver(E)
  BY <1>5 DEF ExprOver
<1>7. ASSUME NEW F, Distinct(F), Begins(r.names, F), NEW w, NEW v, Alike(w, v, F)
      PROVE  Alike(EvalKind(ev, d, w), EvalKind(ev, e, v), F)
  <2>1. Begins(y.names, F) /\ Begins(x.names, F)
    BY <1>2, <1>3, <1>7, BeginsTrans
  <2>2. PICK p : p = ev[x.node][w]
    OBVIOUS
  <2>3. PICK q : q = ev[e.left][v]
    OBVIOUS
  <2>4. Alike(p, q, F)
    BY <1>2, <1>7, <2>1, <2>2, <2>3, FineRuns
  <2>5. PICK p2 : p2 = ev[y.node][p]
    OBVIOUS
  <2>6. PICK q2 : q2 = ev[e.right][q]
    OBVIOUS
  <2>7. Alike(p2, q2, F)
    BY <1>2, <1>7, <2>1, <2>4, <2>5, <2>6, FineRuns
  <2>8. /\ p.value = q.value /\ p.value \in Value
        /\ p2.value = q2.value /\ p2.value \in Value /\ (Sound(p2) <=> Sound(q2))
    BY <2>4, <2>7, AlikeIs
  <2>9. PICK a \in Value, c \in Value :
            a = p.value /\ a = q.value /\ c = p2.value /\ c = q2.value
    BY <2>8
  <2>10. PICK l \in Nat : l = e.loc /\ l = d.loc
    BY <1>1, <1>5
  <2>11. EvalKind(ev, d, w) = EvalBinary(ev, d, w) /\ EvalKind(ev, e, v) = EvalBinary(ev, e, v)
    BY <1>1, <1>5 DEF EvalKind, UnaryKinds
  <2>12. EvalBinary(ev, d, w) = IF Sound(p2) THEN Combined(p2, e.op, a, c, l) ELSE p2
    BY <1>5, <2>2, <2>5, <2>9, <2>10 DEF EvalBinary
  <2>13. EvalBinary(ev, e, v) = IF Sound(q2) THEN Combined(q2, e.op, a, c, l) ELSE q2
    BY <2>3, <2>6, <2>9, <2>10 DEF EvalBinary
  <2>14. Alike(Combined(p2, e.op, a, c, l), Combined(q2, e.op, a, c, l), F)
    BY <1>1, <2>7, AlikeCombined
  <2> QED
    BY <2>7, <2>8, <2>11, <2>12, <2>13, <2>14
<1> QED
  BY <1>2, <1>3, <1>4, <1>6, <1>7 DEF NodeFine

\* or with a second that may be left out.
LEMMA LogicalFine ==
    ASSUME NEW E, NEW rv, NEW ev, ExprsAlike(rv, ev, E), NEW names, Distinct(names),
           NEW e \in LogicalNode(E), NEW r, r = ResolveLogical(rv, e, names)
    PROVE  NodeFine(ev, E, e, names, r)
<1>1. e.kind = "LOGICAL" /\ e.op \in LogOp /\ e.left \in E /\ e.right \in E
  BY DEF LogicalNode
<1>2. r = ResolvePair(rv, e, names)
  BY DEF ResolveLogical
<1>3. PICK x, y :
          /\ Fine(ev, E, e.left, names, x) /\ Fine(ev, E, e.right, x.names, y)
          /\ Begins(names, y.names)
          /\ r.node = [e EXCEPT !.left = x.node, !.right = y.node]
          /\ r.names = y.names
  <2>1. \E x, y : PairOf(ev, E, e, names, r, x, y)
    BY <1>1, <1>2, PairIs, Zenon
  <2> QED
    BY <2>1, Zenon DEF PairOf
<1>4. /\ x.node \in E /\ Distinct(x.names)
      /\ y.node \in E /\ Distinct(y.names) /\ Begins(x.names, y.names)
  BY <1>3, FineIs
<1>5. PICK d : d = r.node
  OBVIOUS
<1>6. /\ d \in LogicalNode(E) /\ d.kind = "LOGICAL" /\ d.op = e.op
      /\ d.left = x.node /\ d.right = y.node
  BY <1>1, <1>3, <1>4, <1>5 DEF LogicalNode
<1>7. d \in ExprOver(E)
  BY <1>6 DEF ExprOver
<1>8. ASSUME NEW F, Distinct(F), Begins(r.names, F), NEW w, NEW v, Alike(w, v, F)
      PROVE  Alike(EvalKind(ev, d, w), EvalKind(ev, e, v), F)
  <2>1. Begins(y.names, F) /\ Begins(x.names, F)
    BY <1>3, <1>4, <1>8, BeginsTrans
  <2>2. PICK p : p = ev[x.node][w]
    OBVIOUS
  <2>3. PICK q : q = ev[e.left][v]
    OBVIOUS
  <2>4. Alike(p, q, F)
    BY <1>3, <1>8, <2>1, <2>2, <2>3, FineRuns
  <2>5. Alike(ev[y.node][p], ev[e.right][q], F)
    BY <1>3, <1>8, <2>1, <2>4, FineRuns
  <2>6. p.value = q.value /\ (Sound(p) <=> Sound(q))
    BY <2>4, AlikeIs
  <2>7. EvalKind(ev, d, w) = EvalLogical(ev, d, w) /\ EvalKind(ev, e, v) = EvalLogical(ev, e, v)
    BY <1>1, <1>6 DEF EvalKind, UnaryKinds
  <2>8. EvalLogical(ev, d, w) = IF ~Sound(p) \/ Truth(p.value) = (e.op = "OR") THEN p
                                ELSE ev[y.node][p]
    BY <1>6, <2>2, Zenon DEF EvalLogical
  <2>9. EvalLogical(ev, e, v) = IF ~Sound(q) \/ Truth(q.value) = (e.op = "OR") THEN q
                                ELSE ev[e.right][q]
    BY <2>3, Zenon DEF EvalLogical
  <2>10. PICK shortcut : shortcut = (Truth(p.value) = (e.op = "OR"))
    OBVIOUS
  <2>11. CASE ~Sound(p) \/ Truth(p.value) = (e.op = "OR")
    <3>1. EvalLogical(ev, d, w) = p /\ EvalLogical(ev, e, v) = q
      BY <2>6, <2>8, <2>9, <2>11
    <3> QED
      BY <2>4, <2>7, <3>1
  <2>12. CASE ~(~Sound(p) \/ Truth(p.value) = (e.op = "OR"))
    <3>1. EvalLogical(ev, d, w) = ev[y.node][p] /\ EvalLogical(ev, e, v) = ev[e.right][q]
      BY <2>6, <2>8, <2>9, <2>12
    <3> QED
      BY <2>5, <2>7, <3>1
  <2> QED
    BY <2>11, <2>12
<1> QED
  BY <1>3, <1>4, <1>5, <1>7, <1>8 DEF NodeFine

\* Every kind of expression, if its operands are.
LEMMA ExprNodeFine ==
    ASSUME NEW E, NEW rv, NEW ev, ExprsAlike(rv, ev, E), NEW names, Distinct(names),
           NEW e \in ExprOver(E), NEW r, r = ResolveExprNode(rv, e, names)
    PROVE  NodeFine(ev, E, e, names, r)
<1>1. CASE e \in LiteralIntNode \cup LiteralBoolNode \cup ReadNode
  <2>1. e.kind \in {"LITERAL_INT", "LITERAL_BOOL", "READ"}
    BY <1>1 DEF LiteralIntNode, LiteralBoolNode, ReadNode
  <2>2. r = Resolved(e, names)
    BY <2>1 DEF ResolveExprNode, UnaryKinds
  <2> QED
    BY <1>1, <2>2, LeafFine
<1>2. CASE e \in VariableNode
  <2>1. r = NameSlot(e, names)
    BY <1>2 DEF ResolveExprNode, VariableNode, UnaryKinds
  <2> QED
    BY <1>2, <2>1, VariableFine
<1>3. CASE e \in UnaryNode(E)
  <2>1. r = ResolveUnary(rv, e, names)
    BY <1>3 DEF ResolveExprNode, UnaryNode, UnaryKinds
  <2> QED
    BY <1>3, <2>1, UnaryFine
<1>4. CASE e \in BinaryNode(E)
  <2>1. r = ResolvePair(rv, e, names)
    BY <1>4 DEF ResolveExprNode, BinaryNode, UnaryKinds
  <2> QED
    BY <1>4, <2>1, BinaryFine
<1>5. CASE e \in LogicalNode(E)
  <2>1. r = ResolveLogical(rv, e, names)
    BY <1>5 DEF ResolveExprNode, LogicalNode, UnaryKinds
  <2> QED
    BY <1>5, <2>1, LogicalFine
<1> QED
  BY <1>1, <1>2, <1>3, <1>4, <1>5 DEF ExprOver

\* Every expression, by its height.
LEMMA ExprsAlikeAll == ExprsAlike(ResolveExprUpTo[MaxHeight], EvalUpTo[MaxHeight], Expr)
<1> DEFINE S == {h \in 0 .. MaxHeight :
                     ExprsAlike(ResolveExprUpTo[h], EvalUpTo[h], ExprUpTo[h])}
<1>1. 0 \in S
  BY ExprLevels, MaxHeightAssumption DEF ExprsAlike
<1>2. ASSUME NEW h \in 1 .. MaxHeight, h - 1 \in S
      PROVE  h \in S
  <2>1. h \in Heights /\ h # 0
    BY MaxHeightAssumption DEF Heights
  <2>2. PICK E : E = ExprUpTo[h - 1]
    OBVIOUS
  <2>3. PICK rv : rv = ResolveExprUpTo[h - 1]
    OBVIOUS
  <2>4. PICK ev : ev = EvalUpTo[h - 1]
    OBVIOUS
  <2>5. ExprsAlike(rv, ev, E)
    BY <1>2, <2>2, <2>3, <2>4
  <2>6. PICK D : D = ExprUpTo[h] /\ D = ExprOver(E)
    BY <2>1, <2>2, ExprLevels
  <2>7. PICK rh : rh = ResolveExprUpTo[h]
    OBVIOUS
  <2>8. PICK eh : eh = EvalUpTo[h]
    OBVIOUS
  <2>9. ASSUME NEW e \in D, NEW names \in Seq(STRING)
        PROVE  rh[e][names] = ResolveExprNode(rv, e, names)
    BY <2>1, <2>3, <2>6, <2>7, ResolveExprLevels, Zenon
  <2>10. ASSUME NEW e \in D, NEW w \in Walker
         PROVE  eh[e][w] = EvalNode(ev, e, w)
    BY <2>1, <2>4, <2>6, <2>8, EvalLevels, Zenon
  <2>11. ASSUME NEW e \in D, NEW names, Distinct(names)
         PROVE  Fine(eh, D, e, names, rh[e][names])
    <3>1. PICK r : r = rh[e][names]
      OBVIOUS
    <3>2. r = ResolveExprNode(rv, e, names)
      BY <2>9, <2>11, <3>1 DEF Distinct
    <3>3. NodeFine(ev, E, e, names, r)
      BY <2>5, <2>6, <2>11, <3>2, ExprNodeFine
    <3>4. r.node \in D /\ Distinct(r.names) /\ Begins(names, r.names)
      BY <2>6, <3>3 DEF NodeFine
    <3>5. ASSUME NEW F, Distinct(F), Begins(r.names, F), NEW w, NEW v, Alike(w, v, F)
          PROVE  Alike(eh[r.node][w], eh[e][v], F)
      <4>1. w \in Walker /\ v \in Walker
        BY <3>5, AlikeIs
      <4>2. \A x, y : Alike(x, y, F) /\ Sound(x) /\ Sound(y)
                         => Alike(EvalKind(ev, r.node, x), EvalKind(ev, e, y), F)
        BY <3>3, <3>5 DEF NodeFine
      <4>3. Alike(EvalNode(ev, r.node, w), EvalNode(ev, e, v), F)
        BY <3>5, <4>2, FineStart
      <4>4. eh[r.node][w] = EvalNode(ev, r.node, w)
        BY <2>10, <3>4, <4>1
      <4>5. eh[e][v] = EvalNode(ev, e, v)
        BY <2>10, <4>1
      <4> QED
        BY <4>3, <4>4, <4>5
    <3>6. Fine(eh, D, e, names, r)
      BY <3>4, <3>5 DEF Fine, Matches
    <3> QED
      BY <3>1, <3>6
  <2>12. ExprsAlike(rh, eh, D)
    BY <2>11 DEF ExprsAlike
  <2>13. ExprsAlike(ResolveExprUpTo[h], EvalUpTo[h], ExprUpTo[h])
    BY <2>6, <2>7, <2>8, <2>12, Zenon
  <2> QED
    BY <2>13
<1>3. \A h \in 0 .. MaxHeight : h \in S
  <2> HIDE DEF S
  <2> QED
    BY <1>1, <1>2, MaxHeightAssumption, InductionTo, Zenon
<1>4. MaxHeight \in S
  BY <1>3, MaxHeightAssumption
<1> QED
  BY <1>4 DEF Expr

\* The same of one expression.
LEMMA ExprFine ==
    ASSUME NEW e \in Expr, NEW names, Distinct(names)
    PROVE  Fine(EvalUpTo[MaxHeight], Expr, e, names, ResolveExpr(e, names))
BY ExprsAlikeAll DEF ExprsAlike, ResolveExpr

-----------------------------------------------------------------------------
(* Lists of statements.                                                    *)

ListsMatch(visit, ys, xs, F) ==
    Len(ys) = Len(xs) /\ \A k \in 1 .. Len(xs) : Matches(visit, ys[k], xs[k], F)

\* A list that matches another runs as it does.
LEMMA ExecAllAlike ==
    ASSUME NEW visit, NEW xs, Len(xs) \in Nat, NEW ys, NEW F, ListsMatch(visit, ys, xs, F),
           DOMAIN xs = 1 .. Len(xs), DOMAIN ys = 1 .. Len(ys),
           NEW w, NEW v, Alike(w, v, F)
    PROVE  Alike(ExecAll(visit, ys, w), ExecAll(visit, xs, v), F)
<1>1. PICK cv : cv = [s \in Range(ys) |-> [u \in Walker |->
                         IF Sound(u) /\ u.flow = "Normal" THEN visit[s][u] ELSE u]]
  OBVIOUS
<1>2. PICK av : av = [s \in Range(xs) |-> [u \in Walker |->
                         IF Sound(u) /\ u.flow = "Normal" THEN visit[s][u] ELSE u]]
  OBVIOUS
<1>3. PICK c : c = Flowing(w, "Normal")
  OBVIOUS
<1>4. PICK a : a = Flowing(v, "Normal")
  OBVIOUS
<1>5. Alike(c, a, F)
  BY <1>3, <1>4, AlikeFlowing
<1>6. ExecAll(visit, ys, w) = Visit(cv, ys, c) /\ ExecAll(visit, xs, v) = Visit(av, xs, a)
  BY <1>1, <1>2, <1>3, <1>4 DEF ExecAll
<1>7. PICK R : R = {p \in Walker \X Walker : Alike(p[1], p[2], F)}
  OBVIOUS
<1>8. \A x \in Walker, y \in Walker : <<x, y>> \in R <=> Alike(x, y, F)
  BY <1>7
<1>9. R \in SUBSET (Walker \X Walker)
  BY <1>7
<1>10. c \in Walker /\ a \in Walker /\ <<c, a>> \in R
  BY <1>5, <1>8, AlikeIs
<1>11. Len(ys) = Len(xs) /\ Len(ys) \in Nat
  BY DEF ListsMatch
<1>12. ASSUME NEW k \in 1 .. Len(ys), NEW x \in Walker, NEW y \in Walker, <<x, y>> \in R
       PROVE  <<cv[ys[k]][x], av[xs[k]][y]>> \in R
  <2>1. k \in 1 .. Len(xs)
    BY <1>11
  <2>2. ys[k] \in Range(ys) /\ xs[k] \in Range(xs)
    BY <2>1 DEF Range
  <2>3. Alike(x, y, F)
    BY <1>8, <1>12
  <2>4. x.flow = y.flow /\ (Sound(x) <=> Sound(y))
    BY <2>3, AlikeIs
  <2>5. Alike(visit[ys[k]][x], visit[xs[k]][y], F)
    BY <2>1, <2>3 DEF ListsMatch, Matches
  <2>6. cv[ys[k]][x] = IF Sound(x) /\ x.flow = "Normal" THEN visit[ys[k]][x] ELSE x
    BY <1>1, <2>2
  <2>7. av[xs[k]][y] = IF Sound(y) /\ y.flow = "Normal" THEN visit[xs[k]][y] ELSE y
    BY <1>2, <2>2
  <2>8. Alike(cv[ys[k]][x], av[xs[k]][y], F)
    BY <2>3, <2>4, <2>5, <2>6, <2>7
  <2>9. cv[ys[k]][x] \in Walker /\ av[xs[k]][y] \in Walker
    BY <2>8, AlikeIs
  <2> QED
    BY <1>8, <2>8, <2>9
<1>13. <<Visit(cv, ys, c), Visit(av, xs, a)>> \in R
  BY <1>9, <1>10, <1>11, <1>12, VisitInStep, Zenon
<1>14. Visit(cv, ys, c) \in Walker /\ Visit(av, xs, a) \in Walker
  BY <1>9, <1>13
<1> QED
  BY <1>6, <1>8, <1>13, <1>14

\* The names met before and after each part of a list.
MetIn(met, visit, xs, names, r) ==
    /\ met[0] = names /\ r.names = met[Len(xs)]
    /\ \A k \in 0 .. Len(xs) : Distinct(met[k]) /\ Begins(met[k], r.names)
    /\ \A k \in 1 .. Len(xs) : met[k] = visit[xs[k]][met[k - 1]].names
    /\ r.node = [k \in 1 .. Len(xs) |-> visit[xs[k]][met[k - 1]].node]

\* What ResolveList computes: the names met so far go from part to part.
LEMMA ListIs ==
    ASSUME NEW visit, NEW xs, Len(xs) \in Nat, NEW names, Distinct(names),
           \A k \in 1 .. Len(xs) : \A ns : Distinct(ns) =>
              /\ Distinct(visit[xs[k]][ns].names)
              /\ Begins(ns, visit[xs[k]][ns].names),
           NEW r, r = ResolveList(visit, xs, names)
    PROVE  \E met : MetIn(met, visit, xs, names, r)
<1> DEFINE N == Len(xs)
<1>1. PICK D : D = {ns \in Seq(STRING) : Distinct(ns)}
  OBVIOUS
<1>2. \A ns : ns \in D <=> Distinct(ns)
  BY <1>1 DEF Distinct
<1> DEFINE G == [p \in (1 .. N) \X D |-> visit[xs[p[1]]][p[2]].names]
<1>3. G \in [(1 .. N) \X D -> D]
  BY <1>2
<1>4. \A k \in 1 .. N : \A d \in D : G[<<k, d>>] = visit[xs[k]][d].names
  OBVIOUS
<1> HIDE DEF G
<1>5. names \in D
  BY <1>2
<1>6. PICK f \in [0 .. N -> D] : IsLoop(f, N, names, G)
  BY <1>3, <1>5, Loop, Zenon
<1>7. \A k \in 0 .. N : k # 0 => G[<<k, f[k - 1]>>] = visit[xs[k]][f[k - 1]].names
  <2> TAKE k \in 0 .. N
  <2> HAVE k # 0
  <2>1. k \in 1 .. N /\ k - 1 \in 0 .. N
    OBVIOUS
  <2>2. f[k - 1] \in D
    BY <2>1
  <2> QED
    BY <1>4, <2>1, <2>2
<1>8. f = [k \in 0 .. N |-> IF k = 0 THEN names ELSE visit[xs[k]][f[k - 1]].names]
  BY <1>6, <1>7, Zenon DEF IsLoop
<1> DEFINE A(v) == v = [k \in 0 .. N |-> IF k = 0 THEN names
                                         ELSE visit[xs[k]][v[k - 1]].names]
<1> DEFINE w == CHOOSE v : A(v)
<1>9. A(w)
  BY <1>8, Zenon
<1>10. r = Resolved([k \in 1 .. N |-> visit[xs[k]][w[k - 1]].node], w[N])
  BY Zenon DEF ResolveList
<1> HIDE DEF w
<1>11. w[0] = names /\ \A k \in 1 .. N : w[k] = visit[xs[k]][w[k - 1]].names
  <2>1. 0 \in 0 .. N /\ \A k \in 1 .. N : k \in 0 .. N /\ k # 0
    OBVIOUS
  <2> QED
    BY <1>9, <2>1, Zenon
<1>12. r.names = w[N] /\ r.node = [k \in 1 .. N |-> visit[xs[k]][w[k - 1]].node]
  BY <1>10 DEF Resolved
<1> DEFINE S == {m \in 0 .. N : Distinct(w[m]) /\ \A j \in 0 .. m :
                                   Distinct(w[j]) /\ Begins(w[j], w[m])}
<1>13. 0 \in S
  <2>1. Begins(w[0], w[0])
    BY <1>11, BeginsSame
  <2>2. \A j \in 0 .. 0 : j = 0
    OBVIOUS
  <2> QED
    BY <1>11, <2>1, <2>2
<1>14. ASSUME NEW m \in 1 .. N, m - 1 \in S
       PROVE  m \in S
  <2>1. Distinct(w[m - 1]) /\ \A j \in 0 .. m - 1 : Distinct(w[j]) /\ Begins(w[j], w[m - 1])
    BY <1>14
  <2>2. Distinct(w[m]) /\ Begins(w[m - 1], w[m])
    BY <1>11, <2>1
  <2>3. ASSUME NEW j \in 0 .. m
        PROVE  Distinct(w[j]) /\ Begins(w[j], w[m])
    <3>1. CASE j = m
      BY <2>2, <3>1, BeginsSame
    <3>2. CASE j \in 0 .. m - 1
      <4>1. Distinct(w[j]) /\ Begins(w[j], w[m - 1])
        BY <2>1, <3>2
      <4> QED
        BY <2>1, <2>2, <4>1, BeginsTrans
    <3> QED
      BY <3>1, <3>2
  <2> QED
    BY <2>2, <2>3
<1>15. \A m \in 0 .. N : m \in S
  <2> HIDE DEF S
  <2> QED
    BY <1>13, <1>14, InductionTo, Zenon
<1>16. \A k \in 0 .. N : Distinct(w[k]) /\ Begins(w[k], w[N])
  <2>1. N \in S
    BY <1>15
  <2> QED
    BY <2>1
<1>17. MetIn(w, visit, xs, names, r)
  BY <1>11, <1>12, <1>16 DEF MetIn
<1> QED
  BY <1>17

\* The walk over statements xv, and rv that resolves them.
StmtsAlike(rv, xv, S) ==
    \A s \in S : \A names : Distinct(names) =>
        Fine(xv, S, s, names, rv[s][names]) /\ rv[s][names].node.kind = s.kind

ListFine(xv, S, xs, names, r) ==
    /\ r.node \in Seq(S) /\ Distinct(r.names) /\ Begins(names, r.names)
    /\ \A F : Distinct(F) /\ Begins(r.names, F) => ListsMatch(xv, r.node, xs, F)

\* What StmtsAlike says of one statement.
LEMMA StmtsAlikeIs ==
    ASSUME NEW rv, NEW xv, NEW S, StmtsAlike(rv, xv, S), NEW s \in S,
           NEW names, Distinct(names), NEW r, r = rv[s][names]
    PROVE  Fine(xv, S, s, names, r) /\ r.node.kind = s.kind
BY DEF StmtsAlike

\* Sequences as functions.
LEMMA SeqOver ==
    ASSUME NEW S, NEW xs \in Seq(S)
    PROVE  /\ Len(xs) \in Nat /\ DOMAIN xs = 1 .. Len(xs)
           /\ \A k \in 1 .. Len(xs) : xs[k] \in S
BY LenProperties, ElementOfSeq

\* Functions as sequences.
LEMMA ListOver ==
    ASSUME NEW S, NEW n \in Nat, NEW f, DOMAIN f = 1 .. n, f = [k \in 1 .. n |-> f[k]],
           \A k \in 1 .. n : f[k] \in S
    PROVE  f \in Seq(S) /\ Len(f) = n
<1>1. f \in [1 .. n -> S]
  OBVIOUS
<1> QED
  BY <1>1

\* A list of statements, if each is.
LEMMA ListsFine ==
    ASSUME NEW rv, NEW xv, NEW S, StmtsAlike(rv, xv, S), NEW xs \in Seq(S),
           NEW names, Distinct(names), NEW r, r = ResolveList(rv, xs, names)
    PROVE  ListFine(xv, S, xs, names, r)
<1>1. PICK N \in Nat : N = Len(xs)
  BY SeqOver
<1>2. \A k \in 1 .. N : xs[k] \in S
  BY <1>1, SeqOver
<1>3. ASSUME NEW k \in 1 .. N, NEW ns, Distinct(ns)
      PROVE  /\ Fine(xv, S, xs[k], ns, rv[xs[k]][ns])
             /\ Distinct(rv[xs[k]][ns].names) /\ Begins(ns, rv[xs[k]][ns].names)
  <2>1. PICK x : x = rv[xs[k]][ns]
    OBVIOUS
  <2>2. Fine(xv, S, xs[k], ns, x)
    BY <1>2, <1>3, <2>1 DEF StmtsAlike
  <2>3. Distinct(x.names) /\ Begins(ns, x.names)
    BY <2>2, FineIs
  <2> QED
    BY <2>1, <2>2, <2>3
<1>4. \E met : MetIn(met, rv, xs, names, r)
  <2>1. \A k \in 1 .. Len(xs) : \A ns : Distinct(ns) =>
              /\ Distinct(rv[xs[k]][ns].names)
              /\ Begins(ns, rv[xs[k]][ns].names)
    BY <1>1, <1>3
  <2>2. Len(xs) \in Nat
    BY <1>1
  <2> QED
    BY <2>1, <2>2, ListIs, Zenon
<1>5. PICK met : MetIn(met, rv, xs, names, r)
  BY <1>4
<1>6. /\ met[0] = names /\ r.names = met[N]
      /\ \A k \in 0 .. N : Distinct(met[k]) /\ Begins(met[k], r.names)
      /\ \A k \in 1 .. N : met[k] = rv[xs[k]][met[k - 1]].names
      /\ r.node = [k \in 1 .. N |-> rv[xs[k]][met[k - 1]].node]
  BY <1>1, <1>5, Zenon DEF MetIn
<1>7. ASSUME NEW k \in 1 .. N
      PROVE  \E x : /\ Fine(xv, S, xs[k], met[k - 1], x) /\ x.names = met[k]
                    /\ r.node[k] = x.node
  <2>1. Distinct(met[k - 1])
    BY <1>6
  <2>2. PICK x : x = rv[xs[k]][met[k - 1]]
    OBVIOUS
  <2>3. Fine(xv, S, xs[k], met[k - 1], x)
    BY <1>3, <2>1, <2>2
  <2>4. x.names = met[k] /\ r.node[k] = x.node
    BY <1>6, <2>2
  <2> QED
    BY <2>3, <2>4
<1>8. r.node \in Seq(S) /\ Len(r.node) = N
  <2>1. DOMAIN r.node = 1 .. N /\ r.node = [k \in 1 .. N |-> r.node[k]]
    BY <1>6
  <2>2. \A k \in 1 .. N : r.node[k] \in S
    BY <1>7, FineIs
  <2>3. PICK f : f = r.node
    OBVIOUS
  <2>4. f \in Seq(S) /\ Len(f) = N
    BY <2>1, <2>2, <2>3, ListOver
  <2> QED
    BY <2>3, <2>4
<1>9. Distinct(r.names) /\ Begins(names, r.names)
  <2>1. 0 \in 0 .. N /\ N \in 0 .. N
    OBVIOUS
  <2> QED
    BY <1>6, <2>1
<1>10. ASSUME NEW F, Distinct(F), Begins(r.names, F), NEW k \in 1 .. N
       PROVE  Matches(xv, r.node[k], xs[k], F)
  <2>1. PICK x : /\ Fine(xv, S, xs[k], met[k - 1], x) /\ x.names = met[k]
                 /\ r.node[k] = x.node
    BY <1>7
  <2>2. k \in 0 .. N
    OBVIOUS
  <2>3. Distinct(met[k]) /\ Begins(met[k], r.names)
    BY <1>6, <2>2
  <2>4. Begins(x.names, F)
    BY <1>9, <1>10, <2>1, <2>3, BeginsTrans
  <2> QED
    BY <1>10, <2>1, <2>4 DEF Fine
<1> QED
  BY <1>1, <1>8, <1>9, <1>10 DEF ListFine, ListsMatch

\* What ListFine says of one run.
LEMMA ListFineRuns ==
    ASSUME NEW xv, NEW S, NEW xs \in Seq(S), NEW names, NEW r, ListFine(xv, S, xs, names, r),
           NEW F, Distinct(F), Begins(r.names, F), NEW w, NEW v, Alike(w, v, F)
    PROVE  Alike(ExecAll(xv, r.node, w), ExecAll(xv, xs, v), F)
<1>1. PICK ys \in Seq(S) : ys = r.node
  BY DEF ListFine
<1>2. ListsMatch(xv, ys, xs, F)
  BY <1>1 DEF ListFine
<1>3. /\ Len(xs) \in Nat /\ DOMAIN xs = 1 .. Len(xs) /\ DOMAIN ys = 1 .. Len(ys)
  BY SeqOver
<1>4. Alike(ExecAll(xv, ys, w), ExecAll(xv, xs, v), F)
  BY <1>2, <1>3, ExecAllAlike
<1> QED
  BY <1>1, <1>4

\* A condition or a value in a statement.
LEMMA EvalFine ==
    ASSUME NEW e \in Expr, NEW names, Distinct(names), NEW x, x = ResolveExpr(e, names)
    PROVE  /\ x.node \in Expr /\ Distinct(x.names) /\ Begins(names, x.names)
           /\ \A F : Distinct(F) /\ Begins(x.names, F) =>
                 \A w, v : Alike(w, v, F) => Alike(Eval(x.node, w), Eval(e, v), F)
<1>1. Fine(EvalUpTo[MaxHeight], Expr, e, names, x)
  BY ExprFine
<1>2. x.node \in Expr /\ Distinct(x.names) /\ Begins(names, x.names)
  BY <1>1, FineIs
<1>3. ASSUME NEW F, Distinct(F), Begins(x.names, F), NEW w, NEW v, Alike(w, v, F)
      PROVE  Alike(Eval(x.node, w), Eval(e, v), F)
  BY <1>1, <1>3, FineRuns DEF Eval
<1> QED
  BY <1>2, <1>3

-----------------------------------------------------------------------------
(* Loops.                                                                  *)

\* What turns leaves after n turns at most.
TurnsIn(turns, visit, s, update) ==
    /\ \A v \in Walker : turns[0][v] = Throw(v, "fuel", 0)
    /\ \A n \in 1 .. MaxNodes + 1 : \A v \in Walker :
          turns[n][v] = Turn(visit, s, update, turns[n - 1], v)
    /\ \A v : WhileHolds(visit, s, update, v) = turns[MaxNodes + 1][v]

\* The turns of a loop are defined, one by the one before.
LEMMA TurnsAre ==
    ASSUME NEW visit, NEW s, NEW update
    PROVE  \E turns : TurnsIn(turns, visit, s, update)
<1> DEFINE N == MaxNodes + 1
<1> DEFINE At(f, n) == [v \in Walker |-> IF n = 0 THEN Throw(v, "fuel", 0)
                                         ELSE Turn(visit, s, update, f[n - 1], v)]
<1> DEFINE Is(f, m) == f = [n \in 0 .. m |-> At(f, n)]
<1> DEFINE S == {m \in Nat : \E f : Is(f, m)}
<1>1. \A f, g : At(f, 0) = At(g, 0)
  OBVIOUS
<1>2. \A f, g, n : f[n - 1] = g[n - 1] => At(f, n) = At(g, n)
  OBVIOUS
<1>3. N \in Nat
  BY MaxNodesAssumption
<1>4. \A f, v, n : /\ v \in Walker => At(f, 0)[v] = Throw(v, "fuel", 0)
                   /\ v \in Walker /\ n # 0
                         => At(f, n)[v] = Turn(visit, s, update, f[n - 1], v)
  OBVIOUS
<1>5. \E w : /\ \A f : Is(f, N) => Is(w, N)
             /\ \A v : WhileHolds(visit, s, update, v) = w[N][v]
  <2> DEFINE w == CHOOSE f : Is(f, N)
  <2>1. \A f : Is(f, N) => Is(w, N)
    BY Zenon
  <2>2. \A v : WhileHolds(visit, s, update, v) = w[N][v]
    BY Zenon DEF WhileHolds
  <2> HIDE DEF w
  <2> QED
    BY <2>1, <2>2
<1> HIDE DEF At, N
<1>6. 0 \in S
  <2> DEFINE g == [n \in 0 .. 0 |-> At(<< >>, n)]
  <2>1. \A n \in 0 .. 0 : At(<< >>, n) = At(g, n)
    <3>1. \A n \in 0 .. 0 : n = 0
      OBVIOUS
    <3> QED
      BY <1>1, <3>1, Zenon
  <2>2. Is(g, 0)
    BY <2>1
  <2> HIDE DEF g
  <2> QED
    BY <2>2
<1>7. ASSUME NEW m \in Nat, m \in S
      PROVE  m + 1 \in S
  <2>1. PICK f : Is(f, m)
    BY <1>7
  <2> DEFINE g == [n \in 0 .. m + 1 |-> IF n <= m THEN f[n] ELSE At(f, n)]
  <2>2. \A n \in 0 .. m + 1 : g[n] = At(f, n)
    BY <2>1
  <2>3. ASSUME NEW n \in 0 .. m + 1, n # 0
        PROVE  g[n - 1] = f[n - 1]
    BY <2>3
  <2> HIDE DEF g
  <2>4. \A n \in 0 .. m + 1 : At(f, n) = At(g, n)
    <3> TAKE n \in 0 .. m + 1
    <3>1. CASE n = 0
      BY <1>1, <3>1, Zenon
    <3>2. CASE n # 0
      BY <1>2, <2>3, <3>2, Zenon
    <3> QED
      BY <3>1, <3>2
  <2>5. Is(g, m + 1)
    <3>1. g = [n \in 0 .. m + 1 |-> At(f, n)]
      BY <2>2 DEF g
    <3> QED
      BY <2>4, <3>1
  <2> QED
    BY <2>5
<1> HIDE DEF S
<1>8. N \in S
  BY <1>3, <1>6, <1>7, Induction
<1>9. PICK f : Is(f, N)
  BY <1>8 DEF S
<1>10. PICK w : Is(w, N) /\ \A v : WhileHolds(visit, s, update, v) = w[N][v]
  BY <1>5, <1>9
<1>11. \A n \in 0 .. N : w[n] = At(w, n)
  BY <1>10, Zenon
<1>12. 0 \in 0 .. N /\ \A n \in 1 .. N : n \in 0 .. N /\ n # 0
  BY <1>3
<1>13. \A v \in Walker : w[0][v] = Throw(v, "fuel", 0)
  BY <1>4, <1>11, <1>12, Zenon
<1>14. \A n \in 1 .. N : \A v \in Walker : w[n][v] = Turn(visit, s, update, w[n - 1], v)
  BY <1>4, <1>11, <1>12, Zenon
<1> QED
  BY <1>10, <1>13, <1>14 DEF TurnsIn, N

\* Two loops whose conditions, bodies and updates are alike.
LEMMA TurnAlike ==
    ASSUME NEW visit, NEW d, NEW s, NEW F, NEW S, NEW ds \in Seq(S), NEW ss \in Seq(S),
           ListsMatch(visit, ds, ss, F), Matches(visit, d.body, s.body, F),
           \A x, y : Alike(x, y, F) => Alike(Eval(d.condition, x), Eval(s.condition, y), F),
           NEW f, NEW g, \A x, y : Alike(x, y, F) => Alike(f[x], g[y], F),
           NEW w, NEW v, Alike(w, v, F)
    PROVE  Alike(Turn(visit, d, ds, f, w), Turn(visit, s, ss, g, v), F)
<1>1. PICK c : c = Eval(d.condition, w)
  OBVIOUS
<1>2. PICK a : a = Eval(s.condition, v)
  OBVIOUS
<1>3. Alike(c, a, F)
  BY <1>1, <1>2
<1>4. c.value = a.value /\ (Sound(c) <=> Sound(a))
  BY <1>3, AlikeIs
<1>5. PICK x : x = visit[d.body][c]
  OBVIOUS
<1>6. PICK y : y = visit[s.body][a]
  OBVIOUS
<1>7. Alike(x, y, F)
  BY <1>3, <1>5, <1>6 DEF Matches
<1>8. x.flow = y.flow /\ (Sound(x) <=> Sound(y))
  BY <1>7, AlikeIs
<1>9. PICK p : p = ExecAll(visit, ds, x)
  OBVIOUS
<1>10. PICK q : q = ExecAll(visit, ss, y)
  OBVIOUS
<1>11. Alike(p, q, F)
  <2>1. /\ Len(ss) \in Nat /\ DOMAIN ss = 1 .. Len(ss) /\ DOMAIN ds = 1 .. Len(ds)
    BY SeqOver
  <2> QED
    BY <1>7, <1>9, <1>10, <2>1, ExecAllAlike
<1>12. Alike(f[p], g[q], F)
  BY <1>11
<1>13. Turn(visit, d, ds, f, w) =
           IF ~Sound(c) \/ ~Truth(c.value) THEN Flowing(c, "Normal")
           ELSE IF ~Sound(x) \/ LeavesLoop(x.flow) THEN Flowing(x, "Normal")
           ELSE f[p]
  BY <1>1, <1>5, <1>9, Zenon DEF Turn
<1>14. Turn(visit, s, ss, g, v) =
           IF ~Sound(a) \/ ~Truth(a.value) THEN Flowing(a, "Normal")
           ELSE IF ~Sound(y) \/ LeavesLoop(y.flow) THEN Flowing(y, "Normal")
           ELSE g[q]
  BY <1>2, <1>6, <1>10, Zenon DEF Turn
<1>15. Alike(Flowing(c, "Normal"), Flowing(a, "Normal"), F)
  BY <1>3, AlikeFlowing
<1>16. Alike(Flowing(x, "Normal"), Flowing(y, "Normal"), F)
  BY <1>7, AlikeFlowing
<1>17. CASE ~Sound(c) \/ ~Truth(c.value)
  BY <1>4, <1>13, <1>14, <1>15, <1>17, Zenon
<1>18. CASE ~(~Sound(c) \/ ~Truth(c.value)) /\ (~Sound(x) \/ LeavesLoop(x.flow))
  BY <1>4, <1>8, <1>13, <1>14, <1>16, <1>18, Zenon
<1>19. CASE ~(~Sound(c) \/ ~Truth(c.value)) /\ ~(~Sound(x) \/ LeavesLoop(x.flow))
  BY <1>4, <1>8, <1>12, <1>13, <1>14, <1>19, Zenon
<1> QED
  BY <1>17, <1>18, <1>19

\* A loop, by the turns left to it.
LEMMA WhileAlike ==
    ASSUME NEW visit, NEW d, NEW s, NEW F, NEW S, NEW ds \in Seq(S), NEW ss \in Seq(S),
           ListsMatch(visit, ds, ss, F), Matches(visit, d.body, s.body, F),
           \A x, y : Alike(x, y, F) => Alike(Eval(d.condition, x), Eval(s.condition, y), F),
           NEW w, NEW v, Alike(w, v, F)
    PROVE  Alike(WhileHolds(visit, d, ds, w), WhileHolds(visit, s, ss, v), F)
<1>1. PICK f : TurnsIn(f, visit, d, ds)
  BY TurnsAre, Zenon
<1>2. PICK g : TurnsIn(g, visit, s, ss)
  BY TurnsAre, Zenon
<1>3. PICK N \in Nat : N = MaxNodes + 1
  BY MaxNodesAssumption
<1>4. /\ \A x \in Walker : f[0][x] = Throw(x, "fuel", 0) /\ g[0][x] = Throw(x, "fuel", 0)
      /\ \A n \in 1 .. N : \A x \in Walker : f[n][x] = Turn(visit, d, ds, f[n - 1], x)
      /\ \A n \in 1 .. N : \A x \in Walker : g[n][x] = Turn(visit, s, ss, g[n - 1], x)
      /\ WhileHolds(visit, d, ds, w) = f[N][w] /\ WhileHolds(visit, s, ss, v) = g[N][v]
  BY <1>1, <1>2, <1>3 DEF TurnsIn
<1> DEFINE T == {n \in 0 .. N : \A x, y : Alike(x, y, F) => Alike(f[n][x], g[n][y], F)}
<1>5. 0 \in T
  <2>1. ASSUME NEW x, NEW y, Alike(x, y, F)
        PROVE  Alike(f[0][x], g[0][y], F)
    <3>1. x \in Walker /\ y \in Walker
      BY <2>1, AlikeIs
    <3>2. PICK why \in WalkFault, l \in Nat : why = "fuel" /\ l = 0
      BY DEF WalkFault
    <3>3. Alike(Throw(x, why, l), Throw(y, why, l), F)
      BY <2>1, AlikeThrow
    <3> QED
      BY <1>4, <3>1, <3>2, <3>3
  <2> QED
    BY <2>1
<1>6. ASSUME NEW n \in 1 .. N, n - 1 \in T
      PROVE  n \in T
  <2>1. \A x, y : Alike(x, y, F) => Alike(f[n - 1][x], g[n - 1][y], F)
    BY <1>6
  <2>2. PICK p : p = f[n - 1]
    OBVIOUS
  <2>3. PICK q : q = g[n - 1]
    OBVIOUS
  <2>4. \A x, y : Alike(x, y, F) => Alike(p[x], q[y], F)
    BY <2>1, <2>2, <2>3
  <2>5. ASSUME NEW x, NEW y, Alike(x, y, F)
        PROVE  Alike(f[n][x], g[n][y], F)
    <3>1. x \in Walker /\ y \in Walker
      BY <2>5, AlikeIs
    <3>2. f[n][x] = Turn(visit, d, ds, p, x) /\ g[n][y] = Turn(visit, s, ss, q, y)
      BY <1>4, <2>2, <2>3, <3>1
    <3>3. Alike(Turn(visit, d, ds, p, x), Turn(visit, s, ss, q, y), F)
      BY <2>4, <2>5, TurnAlike, Zenon
    <3> QED
      BY <3>2, <3>3
  <2> QED
    BY <2>5
<1>7. \A n \in 0 .. N : n \in T
  <2> HIDE DEF T
  <2> QED
    BY <1>5, <1>6, InductionTo, Zenon
<1>8. Alike(f[N][w], g[N][v], F)
  <2>1. N \in T
    BY <1>7
  <2> QED
    BY <2>1
<1> QED
  BY <1>4, <1>8

-----------------------------------------------------------------------------
(* Statements.                                                             *)

\* What StmtsAlike says of the node r.node that s is resolved to.
StmtFine(xv, S, s, names, r) ==
    /\ r.node \in StmtOver(S) /\ r.node.kind = s.kind
    /\ Distinct(r.names) /\ Begins(names, r.names)
    /\ \A F : Distinct(F) /\ Begins(r.names, F) =>
          \A w, v : Alike(w, v, F) => Alike(ExecKind(xv, r.node, w), ExecKind(xv, s, v), F)

\* A value is computed and stored.
LEMMA StoreRuns ==
    ASSUME NEW F, Distinct(F), NEW d, NEW s, d.slot \in Int, Slot(F, s.name, d.slot),
           s.name \in STRING, NEW x, NEW e, NEW w, NEW v,
           Alike(Eval(x, w), Eval(e, v), F)
    PROVE  Alike(ExecStore(d, x, w), ExecStore(s, e, v), F)
<1>1. PICK p : p = Eval(x, w)
  OBVIOUS
<1>2. PICK q : q = Eval(e, v)
  OBVIOUS
<1>3. Alike(p, q, F)
  BY <1>1, <1>2
<1>4. Sound(p) <=> Sound(q)
  BY <1>3, AlikeIs
<1>5. Alike(StoreVariable(p, d), StoreVariable(q, s), F)
  BY <1>3, AlikeStore
<1>6. ExecStore(d, x, w) = IF Sound(p) THEN StoreVariable(p, d) ELSE p
  BY <1>1 DEF ExecStore
<1>7. ExecStore(s, e, v) = IF Sound(q) THEN StoreVariable(q, s) ELSE q
  BY <1>2 DEF ExecStore
<1> QED
  BY <1>3, <1>4, <1>5, <1>6, <1>7

\* An assignment is resolved and runs alike.
LEMMA AssignFine ==
    ASSUME NEW xv, NEW S, NEW names, Distinct(names), NEW s \in AssignNode,
           NEW r, r = ResolveAssign(s, names)
    PROVE  StmtFine(xv, S, s, names, r)
<1>1. s.kind = "ASSIGN" /\ s.name \in STRING /\ s.value \in Expr /\ s.loc \in Nat
  BY DEF AssignNode, Place
<1>2. PICK x : x = ResolveExpr(s.value, names)
  OBVIOUS
<1>3. /\ x.node \in Expr /\ Distinct(x.names) /\ Begins(names, x.names)
      /\ \A F : Distinct(F) /\ Begins(x.names, F) =>
            \A w, v : Alike(w, v, F) => Alike(Eval(x.node, w), Eval(s.value, v), F)
  BY <1>1, <1>2, EvalFine
<1>4. PICK t : t = [s EXCEPT !.value = x.node]
  OBVIOUS
<1>5. t \in AssignNode /\ t.name = s.name /\ t.value = x.node /\ "slot" \in DOMAIN t
  BY <1>3, <1>4 DEF AssignNode
<1>6. r = NameSlot(t, x.names)
  BY <1>2, <1>4 DEF ResolveAssign
<1>7. /\ Distinct(r.names) /\ Begins(x.names, r.names)
      /\ r.node = [t EXCEPT !.slot = r.node.slot] /\ r.node.slot \in Int
      /\ Slot(r.names, s.name, r.node.slot)
  BY <1>1, <1>3, <1>5, <1>6, NameSlotIs
<1>8. PICK k \in Int : k = r.node.slot
  BY <1>7
<1>9. PICK d : d = r.node
  OBVIOUS
<1>10. d = [t EXCEPT !.slot = k]
  BY <1>7, <1>8, <1>9
<1>11. d \in AssignNode /\ d.kind = "ASSIGN" /\ d.slot = k /\ d.value = x.node
  BY <1>5, <1>10 DEF AssignNode
<1>12. d \in StmtOver(S)
  BY <1>11 DEF StmtOver
<1>13. Begins(names, r.names)
  BY <1>3, <1>7, BeginsTrans
<1>14. ASSUME NEW F, Distinct(F), Begins(r.names, F), NEW w, NEW v, Alike(w, v, F)
       PROVE  Alike(ExecKind(xv, d, w), ExecKind(xv, s, v), F)
  <2>1. Slot(F, s.name, k)
    BY <1>7, <1>8, <1>14, SlotKept
  <2>2. Begins(x.names, F)
    BY <1>3, <1>7, <1>14, BeginsTrans
  <2>3. Alike(Eval(x.node, w), Eval(s.value, v), F)
    BY <1>3, <1>14, <2>2
  <2>4. Alike(ExecStore(d, x.node, w), ExecStore(s, s.value, v), F)
    BY <1>1, <1>11, <1>14, <2>1, <2>3, StoreRuns
  <2>5. /\ ExecKind(xv, d, w) = ExecStore(d, x.node, w)
        /\ ExecKind(xv, s, v) = ExecStore(s, s.value, v)
    BY <1>1, <1>11 DEF ExecKind
  <2> QED
    BY <2>4, <2>5
<1> QED
  BY <1>1, <1>7, <1>9, <1>11, <1>12, <1>13, <1>14 DEF StmtFine

\* So does a declaration,
LEMMA VarDeclFine ==
    ASSUME NEW xv, NEW S, NEW names, Distinct(names), NEW s \in VarDeclNode,
           NEW r, r = ResolveVarDecl(s, names)
    PROVE  StmtFine(xv, S, s, names, r)
<1>1. s.kind = "VAR_DECL" /\ s.name \in STRING /\ s.initializer \in Expr /\ s.loc \in Nat
  BY DEF VarDeclNode, Place
<1>2. PICK x : x = ResolveExpr(s.initializer, names)
  OBVIOUS
<1>3. /\ x.node \in Expr /\ Distinct(x.names) /\ Begins(names, x.names)
      /\ \A F : Distinct(F) /\ Begins(x.names, F) =>
            \A w, v : Alike(w, v, F) => Alike(Eval(x.node, w), Eval(s.initializer, v), F)
  BY <1>1, <1>2, EvalFine
<1>4. PICK t : t = [s EXCEPT !.initializer = x.node]
  OBVIOUS
<1>5. /\ t \in VarDeclNode /\ t.name = s.name /\ t.initializer = x.node
      /\ "slot" \in DOMAIN t
  BY <1>3, <1>4 DEF VarDeclNode
<1>6. r = NameSlot(t, x.names)
  BY <1>2, <1>4 DEF ResolveVarDecl
<1>7. /\ Distinct(r.names) /\ Begins(x.names, r.names)
      /\ r.node = [t EXCEPT !.slot = r.node.slot] /\ r.node.slot \in Int
      /\ Slot(r.names, s.name, r.node.slot)
  BY <1>1, <1>3, <1>5, <1>6, NameSlotIs
<1>8. PICK k \in Int : k = r.node.slot
  BY <1>7
<1>9. PICK d : d = r.node
  OBVIOUS
<1>10. d = [t EXCEPT !.slot = k]
  BY <1>7, <1>8, <1>9
<1>11. d \in VarDeclNode /\ d.kind = "VAR_DECL" /\ d.slot = k /\ d.initializer = x.node
  BY <1>5, <1>10 DEF VarDeclNode
<1>12. d \in StmtOver(S)
  BY <1>11 DEF StmtOver
<1>13. Begins(names, r.names)
  BY <1>3, <1>7, BeginsTrans
<1>14. ASSUME NEW F, Distinct(F), Begins(r.names, F), NEW w, NEW v, Alike(w, v, F)
       PROVE  Alike(ExecKind(xv, d, w), ExecKind(xv, s, v), F)
  <2>1. Slot(F, s.name, k)
    BY <1>7, <1>8, <1>14, SlotKept
  <2>2. Begins(x.names, F)
    BY <1>3, <1>7, <1>14, BeginsTrans
  <2>3. Alike(Eval(x.node, w), Eval(s.initializer, v), F)
    BY <1>3, <1>14, <2>2
  <2>4. Alike(ExecStore(d, x.node, w), ExecStore(s, s.initializer, v), F)
    BY <1>1, <1>11, <1>14, <2>1, <2>3, StoreRuns
  <2>5. /\ ExecKind(xv, d, w) = ExecStore(d, x.node, w)
        /\ ExecKind(xv, s, v) = ExecStore(s, s.initializer, v)
    BY <1>1, <1>11 DEF ExecKind
  <2> QED
    BY <2>4, <2>5
<1> QED
  BY <1>1, <1>7, <1>9, <1>11, <1>12, <1>13, <1>14 DEF StmtFine

\* a string that is printed,
LEMMA PrintTextFine ==
    ASSUME NEW xv, NEW S, NEW names, Distinct(names), NEW s \in PrintTextNode,
           NEW r, r = ResolvePrint(s, names)
    PROVE  StmtFine(xv, S, s, names, r)
<1>1. s.kind = "PRINT" /\ s.isString = TRUE /\ s.stringLiteral \in STRING
  BY DEF PrintTextNode
<1>2. r = Resolved(s, names)
  BY <1>1 DEF ResolvePrint
<1>3. r.node = s /\ r.names = names
  BY <1>2 DEF Resolved
<1>4. s \in StmtOver(S)
  BY DEF StmtOver
<1>5. PICK event \in Event : event = TextWritten(s.stringLiteral)
  BY <1>1 DEF Event, TextWritten
<1>6. ASSUME NEW F, NEW w, NEW v, Alike(w, v, F)
      PROVE  Alike(ExecKind(xv, s, w), ExecKind(xv, s, v), F)
  <2>1. /\ ExecKind(xv, s, w) = Happened(w, event)
        /\ ExecKind(xv, s, v) = Happened(v, event)
    BY <1>1, <1>5 DEF ExecKind, ExecPrint
  <2> QED
    BY <1>6, <2>1, AlikeHappened
<1>7. Begins(names, names)
  BY BeginsSame
<1> QED
  BY <1>3, <1>4, <1>6, <1>7 DEF StmtFine

\* a value that is printed,
LEMMA PrintExprFine ==
    ASSUME NEW xv, NEW S, NEW names, Distinct(names), NEW s \in PrintExprNode,
           NEW r, r = ResolvePrint(s, names)
    PROVE  StmtFine(xv, S, s, names, r)
<1>1. s.kind = "PRINT" /\ s.isString = FALSE /\ s.expr \in Expr
  BY DEF PrintExprNode
<1>2. PICK x : x = ResolveExpr(s.expr, names)
  OBVIOUS
<1>3. /\ x.node \in Expr /\ Distinct(x.names) /\ Begins(names, x.names)
      /\ \A F : Distinct(F) /\ Begins(x.names, F) =>
            \A w, v : Alike(w, v, F) => Alike(Eval(x.node, w), Eval(s.expr, v), F)
  BY <1>1, <1>2, EvalFine
<1>4. PICK d : d = [s EXCEPT !.expr = x.node]
  OBVIOUS
<1>5. r.node = d /\ r.names = x.names
  BY <1>1, <1>2, <1>4 DEF ResolvePrint, Resolved
<1>6. d \in PrintExprNode /\ d.kind = "PRINT" /\ d.isString = FALSE /\ d.expr = x.node
  BY <1>3, <1>4 DEF PrintExprNode
<1>7. d \in StmtOver(S)
  BY <1>6 DEF StmtOver
<1>8. ASSUME NEW F, Distinct(F), Begins(r.names, F), NEW w, NEW v, Alike(w, v, F)
      PROVE  Alike(ExecKind(xv, d, w), ExecKind(xv, s, v), F)
  <2>1. PICK p : p = Eval(x.node, w)
    OBVIOUS
  <2>2. PICK q : q = Eval(s.expr, v)
    OBVIOUS
  <2>3. Alike(p, q, F)
    BY <1>3, <1>5, <1>8, <2>1, <2>2
  <2>4. p.value = q.value /\ p.value \in Value /\ (Sound(p) <=> Sound(q))
    BY <2>3, AlikeIs
  <2>5. PICK event \in Event : event = ValueWritten(p.value)
    BY <2>4 DEF Event, ValueWritten
  <2>6. Alike(Happened(p, event), Happened(q, event), F)
    BY <2>3, AlikeHappened
  <2>7. ExecKind(xv, d, w) = IF Sound(p) THEN Happened(p, event) ELSE p
    BY <1>6, <2>1, <2>5 DEF ExecKind, ExecPrint
  <2>8. ExecKind(xv, s, v) = IF Sound(q) THEN Happened(q, event) ELSE q
    BY <1>1, <2>2, <2>4, <2>5 DEF ExecKind, ExecPrint
  <2> QED
    BY <2>3, <2>4, <2>6, <2>7, <2>8
<1> QED
  BY <1>1, <1>3, <1>5, <1>6, <1>7, <1>8 DEF StmtFine

\* tigil or sunod,
LEMMA JumpFine ==
    ASSUME NEW xv, NEW S, NEW names, Distinct(names), NEW s \in JumpNode,
           NEW r, r = Resolved(s, names)
    PROVE  StmtFine(xv, S, s, names, r)
<1>1. s.kind \in {"BREAK", "CONTINUE"}
  BY DEF JumpNode
<1>2. r.node = s /\ r.names = names
  BY DEF Resolved
<1>3. s \in StmtOver(S)
  BY DEF StmtOver
<1>4. PICK f \in {"Normal", "Break", "Continue"} :
          f = IF s.kind = "BREAK" THEN "Break" ELSE "Continue"
  OBVIOUS
<1>5. ASSUME NEW F, NEW w, NEW v, Alike(w, v, F)
      PROVE  Alike(ExecKind(xv, s, w), ExecKind(xv, s, v), F)
  <2>1. ExecKind(xv, s, w) = Flowing(w, f) /\ ExecKind(xv, s, v) = Flowing(v, f)
    BY <1>1, <1>4 DEF ExecKind
  <2> QED
    BY <1>5, <2>1, AlikeFlowing
<1>6. Begins(names, names)
  BY BeginsSame
<1> QED
  BY <1>2, <1>3, <1>5, <1>6 DEF StmtFine

\* a block, if its statements do,
LEMMA BlockFine ==
    ASSUME NEW rv, NEW xv, NEW S, StmtsAlike(rv, xv, S), NEW names, Distinct(names),
           NEW s \in BlockNode(S), NEW r, r = ResolveBlock(rv, s, names)
    PROVE  StmtFine(xv, S, s, names, r)
<1>1. s.kind = "BLOCK" /\ s.statements \in Seq(S)
  BY DEF BlockNode
<1>2. PICK x : x = ResolveList(rv, s.statements, names)
  OBVIOUS
<1>3. ListFine(xv, S, s.statements, names, x)
  BY <1>1, <1>2, ListsFine
<1>4. x.node \in Seq(S) /\ Distinct(x.names) /\ Begins(names, x.names)
  BY <1>3 DEF ListFine
<1>5. PICK d : d = [s EXCEPT !.statements = x.node]
  OBVIOUS
<1>6. r.node = d /\ r.names = x.names
  BY <1>2, <1>5 DEF ResolveBlock, Resolved
<1>7. d \in BlockNode(S) /\ d.kind = "BLOCK" /\ d.statements = x.node
  BY <1>4, <1>5 DEF BlockNode
<1>8. d \in StmtOver(S)
  BY <1>7 DEF StmtOver
<1>9. ASSUME NEW F, Distinct(F), Begins(r.names, F), NEW w, NEW v, Alike(w, v, F)
      PROVE  Alike(ExecKind(xv, d, w), ExecKind(xv, s, v), F)
  <2>1. Alike(ExecAll(xv, x.node, w), ExecAll(xv, s.statements, v), F)
    BY <1>1, <1>3, <1>6, <1>9, ListFineRuns
  <2>2. /\ ExecKind(xv, d, w) = ExecAll(xv, x.node, w)
        /\ ExecKind(xv, s, v) = ExecAll(xv, s.statements, v)
    BY <1>1, <1>7 DEF ExecKind
  <2> QED
    BY <2>1, <2>2
<1> QED
  BY <1>1, <1>4, <1>6, <1>7, <1>8, <1>9 DEF StmtFine

\* kung, with or without kundi,
LEMMA IfFine ==
    ASSUME NEW rv, NEW xv, NEW S, StmtsAlike(rv, xv, S), NEW names, Distinct(names),
           NEW s \in IfNode(S), NEW r, r = ResolveIf(rv, s, names)
    PROVE  StmtFine(xv, S, s, names, r)
<1>1. /\ s.kind = "IF" /\ s.condition \in Expr /\ s.thenBranch \in S
      /\ s.elseBranch \in Seq(S)
  BY DEF IfNode
<1>2. PICK c : c = ResolveExpr(s.condition, names)
  OBVIOUS
<1>3. /\ c.node \in Expr /\ Distinct(c.names) /\ Begins(names, c.names)
      /\ \A F : Distinct(F) /\ Begins(c.names, F) =>
            \A w, v : Alike(w, v, F) => Alike(Eval(c.node, w), Eval(s.condition, v), F)
  BY <1>1, <1>2, EvalFine
<1>4. PICK t : t = rv[s.thenBranch][c.names]
  OBVIOUS
<1>5. Fine(xv, S, s.thenBranch, c.names, t)
  BY <1>1, <1>3, <1>4, StmtsAlikeIs
<1>6. t.node \in S /\ Distinct(t.names) /\ Begins(c.names, t.names)
  BY <1>5, FineIs
<1>7. PICK x : x = ResolveList(rv, s.elseBranch, t.names)
  OBVIOUS
<1>8. ListFine(xv, S, s.elseBranch, t.names, x)
  BY <1>1, <1>6, <1>7, ListsFine
<1>9. x.node \in Seq(S) /\ Distinct(x.names) /\ Begins(t.names, x.names)
  BY <1>8 DEF ListFine
<1>10. PICK d : d = [s EXCEPT !.condition = c.node, !.thenBranch = t.node,
                              !.elseBranch = x.node]
  BY Zenon
<1>11. r.node = d /\ r.names = x.names
  BY <1>2, <1>4, <1>7, <1>10 DEF ResolveIf, Resolved
<1>12. /\ d \in IfNode(S) /\ d.kind = "IF" /\ d.condition = c.node
       /\ d.thenBranch = t.node /\ d.elseBranch = x.node
  BY <1>3, <1>6, <1>9, <1>10 DEF IfNode
<1>13. d \in StmtOver(S)
  BY <1>12 DEF StmtOver
<1>14. Begins(c.names, x.names) /\ Begins(names, x.names)
  <2>1. Begins(c.names, x.names)
    BY <1>3, <1>6, <1>9, BeginsTrans
  <2> QED
    BY <1>3, <1>9, <2>1, BeginsTrans
<1>15. ASSUME NEW F, Distinct(F), Begins(r.names, F), NEW w, NEW v, Alike(w, v, F)
       PROVE  Alike(ExecKind(xv, d, w), ExecKind(xv, s, v), F)
  <2>1. Begins(c.names, F) /\ Begins(t.names, F) /\ Begins(x.names, F)
    BY <1>3, <1>6, <1>9, <1>11, <1>14, <1>15, BeginsTrans
  <2>2. PICK p : p = Eval(c.node, w)
    OBVIOUS
  <2>3. PICK q : q = Eval(s.condition, v)
    OBVIOUS
  <2>4. Alike(p, q, F)
    BY <1>3, <1>15, <2>1, <2>2, <2>3
  <2>5. p.value = q.value /\ (Sound(p) <=> Sound(q))
    BY <2>4, AlikeIs
  <2>6. Alike(xv[t.node][p], xv[s.thenBranch][q], F)
    BY <1>5, <1>15, <2>1, <2>4, FineRuns
  <2>7. Alike(ExecAll(xv, x.node, p), ExecAll(xv, s.elseBranch, q), F)
    BY <1>1, <1>8, <1>15, <2>1, <2>4, ListFineRuns
  <2>8. ExecKind(xv, d, w) = ExecIf(xv, d, w) /\ ExecKind(xv, s, v) = ExecIf(xv, s, v)
    BY <1>1, <1>12 DEF ExecKind
  <2>9. ExecIf(xv, d, w) = IF Sound(p) /\ Truth(p.value) THEN xv[t.node][p]
                           ELSE ExecAll(xv, x.node, p)
    BY <1>12, <2>2 DEF ExecIf
  <2>10. ExecIf(xv, s, v) = IF Sound(q) /\ Truth(q.value) THEN xv[s.thenBranch][q]
                            ELSE ExecAll(xv, s.elseBranch, q)
    BY <2>3 DEF ExecIf
  <2>11. CASE Sound(p) /\ Truth(p.value)
    BY <2>5, <2>6, <2>8, <2>9, <2>10, <2>11, Zenon
  <2>12. CASE ~(Sound(p) /\ Truth(p.value))
    BY <2>5, <2>7, <2>8, <2>9, <2>10, <2>12, Zenon
  <2> QED
    BY <2>11, <2>12
<1> QED
  BY <1>1, <1>9, <1>11, <1>12, <1>13, <1>14, <1>15 DEF StmtFine

\* The update of a loop as a list: none or one.
LEMMA SmallSeqs ==
    ASSUME NEW S
    PROVE  << >> \in Seq(S) /\ \A x \in S : <<x>> \in Seq(S)
OBVIOUS

\* No update matches none,
LEMMA NoneMatch ==
    ASSUME NEW visit, NEW F
    PROVE  ListsMatch(visit, << >>, << >>, F)
BY DEF ListsMatch

\* and one matches its like.
LEMMA OneMatches ==
    ASSUME NEW visit, NEW x, NEW y, NEW F, Matches(visit, x, y, F)
    PROVE  ListsMatch(visit, <<x>>, <<y>>, F)
<1>1. PICK xs : xs = <<x>>
  OBVIOUS
<1>2. PICK ys : ys = <<y>>
  OBVIOUS
<1>3. Len(xs) = 1 /\ Len(ys) = 1 /\ xs[1] = x /\ ys[1] = y
  BY <1>1, <1>2
<1>4. \A k \in 1 .. 1 : k = 1
  OBVIOUS
<1>5. \A k \in 1 .. Len(ys) : Matches(visit, xs[k], ys[k], F)
  BY <1>3, <1>4
<1> QED
  BY <1>1, <1>2, <1>3, <1>5 DEF ListsMatch

\* A loop without an update.
LEMMA SimpleLoop ==
    ASSUME NEW xv, NEW S, NEW d, NEW s, NEW F, Matches(xv, d.body, s.body, F),
           \A x, y : Alike(x, y, F) => Alike(Eval(d.condition, x), Eval(s.condition, y), F),
           NEW w, NEW v, Alike(w, v, F)
    PROVE  Alike(WhileHolds(xv, d, << >>, w), WhileHolds(xv, s, << >>, v), F)
<1>1. PICK ds \in Seq(S) : ds = << >>
  BY SmallSeqs, Zenon
<1>2. ListsMatch(xv, ds, ds, F)
  BY <1>1, NoneMatch
<1>3. Alike(WhileHolds(xv, d, ds, w), WhileHolds(xv, s, ds, v), F)
  BY <1>2, WhileAlike, Zenon
<1> QED
  BY <1>1, <1>3

\* habang,
LEMMA WhileFine ==
    ASSUME NEW rv, NEW xv, NEW S, StmtsAlike(rv, xv, S), NEW names, Distinct(names),
           NEW s \in LoopNode(S), s.kind = "WHILE", NEW r, r = ResolveWhile(rv, s, names)
    PROVE  StmtFine(xv, S, s, names, r)
<1>1. s.condition \in Expr /\ s.body \in S
  BY DEF LoopNode
<1>2. PICK c : c = ResolveExpr(s.condition, names)
  OBVIOUS
<1>3. /\ c.node \in Expr /\ Distinct(c.names) /\ Begins(names, c.names)
      /\ \A F : Distinct(F) /\ Begins(c.names, F) =>
            \A w, v : Alike(w, v, F) => Alike(Eval(c.node, w), Eval(s.condition, v), F)
  BY <1>1, <1>2, EvalFine
<1>4. PICK b : b = rv[s.body][c.names]
  OBVIOUS
<1>5. Fine(xv, S, s.body, c.names, b)
  BY <1>1, <1>3, <1>4, StmtsAlikeIs
<1>6. b.node \in S /\ Distinct(b.names) /\ Begins(c.names, b.names)
  BY <1>5, FineIs
<1>7. PICK d : d = [s EXCEPT !.condition = c.node, !.body = b.node]
  OBVIOUS
<1>8. r.node = d /\ r.names = b.names
  BY <1>2, <1>4, <1>7 DEF ResolveWhile, Resolved
<1>9. /\ d \in LoopNode(S) /\ d.kind = "WHILE" /\ d.condition = c.node
      /\ d.body = b.node
  BY <1>3, <1>6, <1>7 DEF LoopNode
<1>10. d \in StmtOver(S)
  BY <1>9 DEF StmtOver
<1>11. Begins(names, b.names)
  BY <1>3, <1>6, BeginsTrans
<1>12. ASSUME NEW F, Distinct(F), Begins(r.names, F), NEW w, NEW v, Alike(w, v, F)
       PROVE  Alike(ExecKind(xv, d, w), ExecKind(xv, s, v), F)
  <2>1. Begins(b.names, F) /\ Begins(c.names, F)
    BY <1>3, <1>6, <1>8, <1>12, BeginsTrans
  <2>2. Matches(xv, d.body, s.body, F)
    BY <1>5, <1>9, <1>12, <2>1 DEF Fine
  <2>3. \A x, y : Alike(x, y, F) => Alike(Eval(d.condition, x), Eval(s.condition, y), F)
    BY <1>3, <1>9, <1>12, <2>1
  <2>4. Alike(WhileHolds(xv, d, << >>, w), WhileHolds(xv, s, << >>, v), F)
    BY <1>12, <2>2, <2>3, SimpleLoop
  <2>5. /\ ExecKind(xv, d, w) = WhileHolds(xv, d, << >>, w)
        /\ ExecKind(xv, s, v) = WhileHolds(xv, s, << >>, v)
    BY <1>9 DEF ExecKind
  <2> QED
    BY <2>4, <2>5
<1> QED
  BY <1>6, <1>8, <1>9, <1>10, <1>11, <1>12 DEF StmtFine

\* gawin, whose body runs before the first turn,
LEMMA DoWhileFine ==
    ASSUME NEW rv, NEW xv, NEW S, StmtsAlike(rv, xv, S), NEW names, Distinct(names),
           NEW s \in LoopNode(S), s.kind = "DO_WHILE",
           NEW r, r = ResolveDoWhile(rv, s, names)
    PROVE  StmtFine(xv, S, s, names, r)
<1>1. s.condition \in Expr /\ s.body \in S
  BY DEF LoopNode
<1>2. PICK b : b = rv[s.body][names]
  OBVIOUS
<1>3. Fine(xv, S, s.body, names, b)
  BY <1>1, <1>2, StmtsAlikeIs
<1>4. b.node \in S /\ Distinct(b.names) /\ Begins(names, b.names)
  BY <1>3, FineIs
<1>5. PICK c : c = ResolveExpr(s.condition, b.names)
  OBVIOUS
<1>6. /\ c.node \in Expr /\ Distinct(c.names) /\ Begins(b.names, c.names)
      /\ \A F : Distinct(F) /\ Begins(c.names, F) =>
            \A w, v : Alike(w, v, F) => Alike(Eval(c.node, w), Eval(s.condition, v), F)
  BY <1>1, <1>4, <1>5, EvalFine
<1>7. PICK d : d = [s EXCEPT !.condition = c.node, !.body = b.node]
  OBVIOUS
<1>8. r.node = d /\ r.names = c.names
  BY <1>2, <1>5, <1>7 DEF ResolveDoWhile, Resolved
<1>9. /\ d \in LoopNode(S) /\ d.kind = "DO_WHILE" /\ d.condition = c.node
      /\ d.body = b.node
  BY <1>4, <1>6, <1>7 DEF LoopNode
<1>10. d \in StmtOver(S)
  BY <1>9 DEF StmtOver
<1>11. Begins(names, c.names)
  BY <1>4, <1>6, BeginsTrans
<1>12. ASSUME NEW F, Distinct(F), Begins(r.names, F), NEW w, NEW v, Alike(w, v, F)
       PROVE  Alike(ExecKind(xv, d, w), ExecKind(xv, s, v), F)
  <2>1. Begins(c.names, F) /\ Begins(b.names, F)
    BY <1>4, <1>6, <1>8, <1>12, BeginsTrans
  <2>2. Matches(xv, d.body, s.body, F)
    BY <1>3, <1>9, <1>12, <2>1 DEF Fine
  <2>3. \A x, y : Alike(x, y, F) => Alike(Eval(d.condition, x), Eval(s.condition, y), F)
    BY <1>6, <1>9, <1>12, <2>1
  <2>4. PICK p : p = xv[d.body][w]
    OBVIOUS
  <2>5. PICK q : q = xv[s.body][v]
    OBVIOUS
  <2>6. Alike(p, q, F)
    BY <1>12, <2>2, <2>4, <2>5 DEF Matches
  <2>7. p.flow = q.flow /\ (Sound(p) <=> Sound(q))
    BY <2>6, AlikeIs
  <2>8. Alike(WhileHolds(xv, d, << >>, p), WhileHolds(xv, s, << >>, q), F)
    BY <2>2, <2>3, <2>6, SimpleLoop
  <2>9. Alike(Flowing(p, "Normal"), Flowing(q, "Normal"), F)
    BY <2>6, AlikeFlowing
  <2>10. ExecKind(xv, d, w) = ExecDoWhile(xv, d, w) /\ ExecKind(xv, s, v) = ExecDoWhile(xv, s, v)
    BY <1>9 DEF ExecKind
  <2>11. ExecDoWhile(xv, d, w) = IF ~Sound(p) \/ LeavesLoop(p.flow) THEN Flowing(p, "Normal")
                                 ELSE WhileHolds(xv, d, << >>, p)
    BY <2>4, Zenon DEF ExecDoWhile
  <2>12. ExecDoWhile(xv, s, v) = IF ~Sound(q) \/ LeavesLoop(q.flow) THEN Flowing(q, "Normal")
                                 ELSE WhileHolds(xv, s, << >>, q)
    BY <2>5, Zenon DEF ExecDoWhile
  <2>13. CASE ~Sound(p) \/ LeavesLoop(p.flow)
    BY <2>7, <2>9, <2>10, <2>11, <2>12, <2>13, Zenon
  <2>14. CASE ~(~Sound(p) \/ LeavesLoop(p.flow))
    BY <2>7, <2>8, <2>10, <2>11, <2>12, <2>14, Zenon
  <2> QED
    BY <2>13, <2>14
<1> QED
  BY <1>6, <1>8, <1>9, <1>10, <1>11, <1>12 DEF StmtFine

\* para, with its assignment before the first turn and its update after each,
LEMMA ForFine ==
    ASSUME NEW rv, NEW xv, NEW S, StmtsAlike(rv, xv, S), NEW names, Distinct(names),
           NEW s \in ForNode(S), NEW r, r = ResolveFor(rv, s, names)
    PROVE  StmtFine(xv, S, s, names, r)
<1>1. /\ s.kind = "FOR" /\ s.init \in S /\ s.condition \in Expr /\ s.update \in S
      /\ s.update.kind = "ASSIGN" /\ s.body \in S
  BY DEF ForNode
<1>2. PICK i : i = rv[s.init][names]
  OBVIOUS
<1>3. Fine(xv, S, s.init, names, i)
  BY <1>1, <1>2, StmtsAlikeIs
<1>4. i.node \in S /\ Distinct(i.names) /\ Begins(names, i.names)
  BY <1>3, FineIs
<1>5. PICK c : c = ResolveExpr(s.condition, i.names)
  OBVIOUS
<1>6. /\ c.node \in Expr /\ Distinct(c.names) /\ Begins(i.names, c.names)
      /\ \A F : Distinct(F) /\ Begins(c.names, F) =>
            \A w, v : Alike(w, v, F) => Alike(Eval(c.node, w), Eval(s.condition, v), F)
  BY <1>1, <1>4, <1>5, EvalFine
<1>7. PICK u : u = rv[s.update][c.names]
  OBVIOUS
<1>8. Fine(xv, S, s.update, c.names, u) /\ u.node.kind = "ASSIGN"
  BY <1>1, <1>6, <1>7, StmtsAlikeIs
<1>9. u.node \in S /\ Distinct(u.names) /\ Begins(c.names, u.names)
  BY <1>8, FineIs
<1>10. PICK b : b = rv[s.body][u.names]
  OBVIOUS
<1>11. Fine(xv, S, s.body, u.names, b)
  BY <1>1, <1>9, <1>10, StmtsAlikeIs
<1>12. b.node \in S /\ Distinct(b.names) /\ Begins(u.names, b.names)
  BY <1>11, FineIs
<1>13. PICK d : d = [s EXCEPT !.init = i.node, !.condition = c.node,
                              !.update = u.node, !.body = b.node]
  BY Zenon
<1>14. r.node = d /\ r.names = b.names
  BY <1>2, <1>5, <1>7, <1>10, <1>13, Zenon DEF ResolveFor, Resolved
<1>15. /\ d \in ForNode(S) /\ d.kind = "FOR" /\ d.init = i.node
       /\ d.condition = c.node /\ d.update = u.node /\ d.body = b.node
  BY <1>4, <1>6, <1>8, <1>9, <1>12, <1>13 DEF ForNode
<1>16. d \in StmtOver(S)
  BY <1>15 DEF StmtOver
<1>17. Begins(c.names, b.names) /\ Begins(i.names, b.names) /\ Begins(names, b.names)
  <2>1. Begins(c.names, b.names)
    BY <1>6, <1>9, <1>12, BeginsTrans
  <2>2. Begins(i.names, b.names)
    BY <1>4, <1>6, <1>12, <2>1, BeginsTrans
  <2> QED
    BY <1>4, <1>12, <2>1, <2>2, BeginsTrans
<1>18. ASSUME NEW F, Distinct(F), Begins(r.names, F), NEW w, NEW v, Alike(w, v, F)
       PROVE  Alike(ExecKind(xv, d, w), ExecKind(xv, s, v), F)
  <2>1. Begins(b.names, F) /\ Begins(u.names, F) /\ Begins(c.names, F) /\ Begins(i.names, F)
    BY <1>4, <1>6, <1>9, <1>12, <1>14, <1>17, <1>18, BeginsTrans
  <2>2. Matches(xv, d.body, s.body, F)
    BY <1>11, <1>15, <1>18, <2>1 DEF Fine
  <2>3. \A x, y : Alike(x, y, F) => Alike(Eval(d.condition, x), Eval(s.condition, y), F)
    BY <1>6, <1>15, <1>18, <2>1
  <2>4. PICK p : p = xv[d.init][w]
    OBVIOUS
  <2>5. PICK q : q = xv[s.init][v]
    OBVIOUS
  <2>6. Alike(p, q, F)
    BY <1>3, <1>15, <1>18, <2>1, <2>4, <2>5, FineRuns
  <2>7. PICK ds \in Seq(S) : ds = <<d.update>>
    BY <1>9, <1>15, SmallSeqs, Zenon
  <2>8. PICK ss \in Seq(S) : ss = <<s.update>>
    BY <1>1, SmallSeqs, Zenon
  <2>9. ListsMatch(xv, ds, ss, F)
    <3>1. Matches(xv, u.node, s.update, F)
      BY <1>8, <1>18, <2>1 DEF Fine
    <3> QED
      BY <1>15, <2>7, <2>8, <3>1, OneMatches
  <2>10. Alike(WhileHolds(xv, d, ds, p), WhileHolds(xv, s, ss, q), F)
    BY <2>2, <2>3, <2>6, <2>9, WhileAlike, Zenon
  <2>11. ExecKind(xv, d, w) = WhileHolds(xv, d, ds, p)
    BY <1>15, <2>4, <2>7 DEF ExecKind
  <2>12. ExecKind(xv, s, v) = WhileHolds(xv, s, ss, q)
    BY <1>1, <2>5, <2>8 DEF ExecKind
  <2> QED
    BY <2>10, <2>11, <2>12
<1> QED
  BY <1>1, <1>12, <1>14, <1>15, <1>16, <1>17, <1>18 DEF StmtFine

\* The same labels, and bodies that are alike.
CasesMatch(visit, ys, xs, F) ==
    /\ Len(ys) = Len(xs)
    /\ \A k \in 1 .. Len(xs) : ys[k].value = xs[k].value
    /\ \A k \in 1 .. Len(xs) : \A w, v : Alike(w, v, F) =>
          Alike(ExecAll(visit, ys[k].body, w), ExecAll(visit, xs[k].body, v), F)

CasesFine(visit, S, xs, names, r) ==
    /\ r.node \in Seq(CaseNode(S)) /\ Distinct(r.names) /\ Begins(names, r.names)
    /\ \A F : Distinct(F) /\ Begins(r.names, F) => CasesMatch(visit, r.node, xs, F)

CaseFine(visit, S, case, names, r) ==
    /\ r.node \in CaseNode(S) /\ r.node.value = case.value
    /\ Distinct(r.names) /\ Begins(names, r.names)
    /\ \A F : Distinct(F) /\ Begins(r.names, F) => \A w, v : Alike(w, v, F) =>
          Alike(ExecAll(visit, r.node.body, w), ExecAll(visit, case.body, v), F)

\* One case of pili keeps its label and runs alike.
LEMMA CaseIsFine ==
    ASSUME NEW rv, NEW xv, NEW S, StmtsAlike(rv, xv, S), NEW names, Distinct(names),
           NEW case \in CaseNode(S), NEW r, r = ResolveCase(rv, case, names)
    PROVE  CaseFine(xv, S, case, names, r)
<1>1. case.body \in Seq(S)
  BY DEF CaseNode
<1>2. PICK x : x = ResolveList(rv, case.body, names)
  OBVIOUS
<1>3. ListFine(xv, S, case.body, names, x)
  BY <1>1, <1>2, ListsFine
<1>4. x.node \in Seq(S) /\ Distinct(x.names) /\ Begins(names, x.names)
  BY <1>3 DEF ListFine
<1>5. PICK d : d = [case EXCEPT !.body = x.node]
  OBVIOUS
<1>6. r.node = d /\ r.names = x.names
  BY <1>2, <1>5 DEF ResolveCase, Resolved
<1>7. d \in CaseNode(S) /\ d.value = case.value /\ d.body = x.node
  BY <1>4, <1>5 DEF CaseNode
<1>8. ASSUME NEW F, Distinct(F), Begins(r.names, F), NEW w, NEW v, Alike(w, v, F)
      PROVE  Alike(ExecAll(xv, d.body, w), ExecAll(xv, case.body, v), F)
  BY <1>1, <1>3, <1>6, <1>7, <1>8, ListFineRuns
<1> QED
  BY <1>4, <1>6, <1>7, <1>8 DEF CaseFine

\* So do all the cases, each with the names of those before it.
LEMMA CasesAreFine ==
    ASSUME NEW rv, NEW xv, NEW S, StmtsAlike(rv, xv, S), NEW names, Distinct(names),
           NEW xs \in Seq(CaseNode(S)), NEW rc,
           rc = [case \in Range(xs) |-> [ns \in Seq(STRING) |-> ResolveCase(rv, case, ns)]],
           NEW r, r = ResolveList(rc, xs, names)
    PROVE  CasesFine(xv, S, xs, names, r)
<1>1. PICK N \in Nat : N = Len(xs)
  BY SeqOver
<1>2. PICK C : C = CaseNode(S)
  OBVIOUS
<1>3. \A k \in 1 .. N : xs[k] \in C /\ xs[k] \in Range(xs)
  BY <1>1, <1>2, SeqOver DEF Range
<1>4. ASSUME NEW k \in 1 .. N, NEW ns, Distinct(ns)
      PROVE  /\ CaseFine(xv, S, xs[k], ns, rc[xs[k]][ns])
             /\ Distinct(rc[xs[k]][ns].names) /\ Begins(ns, rc[xs[k]][ns].names)
  <2>1. PICK x : x = rc[xs[k]][ns]
    OBVIOUS
  <2>2. ns \in Seq(STRING)
    BY <1>4 DEF Distinct
  <2>3. x = ResolveCase(rv, xs[k], ns)
    BY <1>3, <2>1, <2>2
  <2>4. CaseFine(xv, S, xs[k], ns, x)
    BY <1>2, <1>3, <1>4, <2>3, CaseIsFine
  <2>5. Distinct(x.names) /\ Begins(ns, x.names)
    BY <2>4 DEF CaseFine
  <2> QED
    BY <2>1, <2>4, <2>5
<1>5. \E met : MetIn(met, rc, xs, names, r)
  <2>1. \A k \in 1 .. Len(xs) : \A ns : Distinct(ns) =>
              /\ Distinct(rc[xs[k]][ns].names)
              /\ Begins(ns, rc[xs[k]][ns].names)
    BY <1>1, <1>4
  <2>2. Len(xs) \in Nat
    BY <1>1
  <2> QED
    BY <2>1, <2>2, ListIs, Zenon
<1>6. PICK met : MetIn(met, rc, xs, names, r)
  BY <1>5
<1>7. /\ met[0] = names /\ r.names = met[N]
      /\ \A k \in 0 .. N : Distinct(met[k]) /\ Begins(met[k], r.names)
      /\ \A k \in 1 .. N : met[k] = rc[xs[k]][met[k - 1]].names
      /\ r.node = [k \in 1 .. N |-> rc[xs[k]][met[k - 1]].node]
  BY <1>1, <1>6, Zenon DEF MetIn
<1>8. ASSUME NEW k \in 1 .. N
      PROVE  \E x : /\ CaseFine(xv, S, xs[k], met[k - 1], x) /\ x.names = met[k]
                    /\ r.node[k] = x.node
  <2>1. Distinct(met[k - 1])
    BY <1>7
  <2>2. PICK x : x = rc[xs[k]][met[k - 1]]
    OBVIOUS
  <2>3. CaseFine(xv, S, xs[k], met[k - 1], x)
    BY <1>4, <2>1, <2>2
  <2>4. x.names = met[k] /\ r.node[k] = x.node
    BY <1>7, <2>2
  <2> QED
    BY <2>3, <2>4
<1>9. r.node \in Seq(C) /\ Len(r.node) = N
  <2>1. DOMAIN r.node = 1 .. N /\ r.node = [k \in 1 .. N |-> r.node[k]]
    BY <1>7
  <2>2. \A k \in 1 .. N : r.node[k] \in C
    BY <1>2, <1>8 DEF CaseFine
  <2>3. PICK f : f = r.node
    OBVIOUS
  <2>4. f \in Seq(C) /\ Len(f) = N
    BY <2>1, <2>2, <2>3, ListOver
  <2> QED
    BY <2>3, <2>4
<1>10. Distinct(r.names) /\ Begins(names, r.names)
  <2>1. 0 \in 0 .. N /\ N \in 0 .. N
    OBVIOUS
  <2> QED
    BY <1>7, <2>1
<1>11. ASSUME NEW k \in 1 .. N
       PROVE  r.node[k].value = xs[k].value
  BY <1>8 DEF CaseFine
<1>12. ASSUME NEW F, Distinct(F), Begins(r.names, F), NEW k \in 1 .. N,
              NEW w, NEW v, Alike(w, v, F)
       PROVE  Alike(ExecAll(xv, r.node[k].body, w), ExecAll(xv, xs[k].body, v), F)
  <2>1. PICK x : /\ CaseFine(xv, S, xs[k], met[k - 1], x) /\ x.names = met[k]
                 /\ r.node[k] = x.node
    BY <1>8
  <2>2. k \in 0 .. N
    OBVIOUS
  <2>3. Distinct(met[k]) /\ Begins(met[k], r.names)
    BY <1>7, <2>2
  <2>4. Begins(x.names, F)
    BY <1>10, <1>12, <2>1, <2>3, BeginsTrans
  <2>5. Alike(ExecAll(xv, x.node.body, w), ExecAll(xv, xs[k].body, v), F)
    BY <1>12, <2>1, <2>4 DEF CaseFine
  <2> QED
    BY <2>1, <2>5
<1>13. ASSUME NEW F, Distinct(F), Begins(r.names, F)
       PROVE  CasesMatch(xv, r.node, xs, F)
  BY <1>1, <1>9, <1>11, <1>12, <1>13 DEF CasesMatch
<1> QED
  BY <1>2, <1>9, <1>10, <1>13 DEF CasesFine

\* The first case is one of the cases.
LEMMA MinIs ==
    ASSUME NEW T \in SUBSET Nat, T # {}
    PROVE  Min(T) \in T
<1>1. \E m \in T : \A k \in T : m <= k
  BY Least
<1> QED
  BY <1>1 DEF Min

\* pili: the same case matches, and its list runs alike.
LEMMA SwitchFine ==
    ASSUME NEW rv, NEW xv, NEW S, StmtsAlike(rv, xv, S), NEW names, Distinct(names),
           NEW s \in SwitchNode(S), NEW r, r = ResolveSwitch(rv, s, names)
    PROVE  StmtFine(xv, S, s, names, r)
<1>1. s.kind = "SWITCH" /\ s.subject \in Expr /\ s.cases \in Seq(CaseNode(S))
  BY DEF SwitchNode
<1>2. PICK c : c = ResolveExpr(s.subject, names)
  OBVIOUS
<1>3. /\ c.node \in Expr /\ Distinct(c.names) /\ Begins(names, c.names)
      /\ \A F : Distinct(F) /\ Begins(c.names, F) =>
            \A w, v : Alike(w, v, F) => Alike(Eval(c.node, w), Eval(s.subject, v), F)
  BY <1>1, <1>2, EvalFine
<1>4. PICK xs : xs = s.cases
  OBVIOUS
<1>5. PICK rc : rc = [case \in Range(xs) |->
                         [ns \in Seq(STRING) |-> ResolveCase(rv, case, ns)]]
  OBVIOUS
<1>6. PICK z : z = ResolveList(rc, xs, c.names)
  OBVIOUS
<1>7. CasesFine(xv, S, xs, c.names, z)
  BY <1>1, <1>3, <1>4, <1>5, <1>6, CasesAreFine
<1>8. z.node \in Seq(CaseNode(S)) /\ Distinct(z.names) /\ Begins(c.names, z.names)
  BY <1>7 DEF CasesFine
<1>9. PICK d : d = [s EXCEPT !.subject = c.node, !.cases = z.node]
  OBVIOUS
<1>10. r.node = d /\ r.names = z.names
  <2>1. r = Resolved(d, z.names)
    BY <1>2, <1>4, <1>5, <1>6, <1>9, Zenon DEF ResolveSwitch
  <2> QED
    BY <2>1 DEF Resolved
<1>11. PICK ys : ys = z.node
  OBVIOUS
<1>12. d \in SwitchNode(S) /\ d.kind = "SWITCH" /\ d.subject = c.node /\ d.cases = ys
  BY <1>3, <1>8, <1>9, <1>11 DEF SwitchNode
<1>13. d \in StmtOver(S)
  BY <1>12 DEF StmtOver
<1>14. Begins(names, z.names)
  BY <1>3, <1>8, BeginsTrans
<1>15. ASSUME NEW F, Distinct(F), Begins(r.names, F), NEW w, NEW v, Alike(w, v, F)
       PROVE  Alike(ExecKind(xv, d, w), ExecKind(xv, s, v), F)
  <2>1. Begins(z.names, F) /\ Begins(c.names, F)
    BY <1>3, <1>8, <1>10, <1>15, BeginsTrans
  <2>2. CasesMatch(xv, ys, xs, F)
    BY <1>7, <1>11, <1>15, <2>1, Zenon DEF CasesFine
  <2>3. PICK N \in Nat : N = Len(xs) /\ N = Len(ys) /\ DOMAIN xs = 1 .. N /\ DOMAIN ys = 1 .. N
    <3>1. Len(xs) \in Nat /\ DOMAIN xs = 1 .. Len(xs)
      BY <1>1, <1>4, SeqOver
    <3>2. DOMAIN ys = 1 .. Len(ys)
      BY <1>8, <1>11, SeqOver
    <3>3. Len(ys) = Len(xs)
      BY <2>2 DEF CasesMatch
    <3> QED
      BY <3>1, <3>2, <3>3, Zenon
  <2>4. PICK p : p = Eval(c.node, w)
    OBVIOUS
  <2>5. PICK q : q = Eval(s.subject, v)
    OBVIOUS
  <2>6. Alike(p, q, F)
    BY <1>3, <1>15, <2>1, <2>4, <2>5
  <2>7. p.value = q.value /\ (Sound(p) <=> Sound(q))
    BY <2>6, AlikeIs
  <2>8. PICK u : u = p.value /\ u = q.value
    BY <2>7
  <2>9. PICK T : T = {k \in 1 .. N : RawEq(u, MakeInt(xs[k].value))}
    OBVIOUS
  <2>10. Matching(s, u) = T
    BY <1>4, <2>3, <2>9 DEF Matching
  <2>11. Matching(d, u) = T
    <3>1. Matching(d, u) = {k \in 1 .. N : RawEq(u, MakeInt(ys[k].value))}
      BY <1>12, <2>3 DEF Matching
    <3>2. \A k \in 1 .. N : ys[k].value = xs[k].value
      BY <2>2, <2>3 DEF CasesMatch
    <3> QED
      BY <2>9, <3>1, <3>2
  <2>12. PICK m : m = Min(T)
    OBVIOUS
  <2>13. PICK a : a = ExecAll(xv, ys[m].body, p)
    OBVIOUS
  <2>14. PICK b : b = ExecAll(xv, xs[m].body, q)
    OBVIOUS
  <2>15. ExecKind(xv, d, w) = IF ~Sound(p) \/ T = {} THEN Flowing(p, "Normal")
                              ELSE Flowing(a, IF a.flow = "Break" THEN "Normal" ELSE a.flow)
    <3>1. ExecKind(xv, d, w) = ExecSwitch(xv, d, w)
      BY <1>12 DEF ExecKind
    <3> QED
      BY <1>12, <2>4, <2>8, <2>11, <2>12, <2>13, <3>1, Zenon DEF ExecSwitch
  <2>16. ExecKind(xv, s, v) = IF ~Sound(q) \/ T = {} THEN Flowing(q, "Normal")
                              ELSE Flowing(b, IF b.flow = "Break" THEN "Normal" ELSE b.flow)
    <3>1. ExecKind(xv, s, v) = ExecSwitch(xv, s, v)
      BY <1>1 DEF ExecKind
    <3> QED
      BY <1>4, <2>5, <2>8, <2>10, <2>12, <2>14, <3>1, Zenon DEF ExecSwitch
  <2>17. CASE ~Sound(p) \/ T = {}
    <3>1. ExecKind(xv, d, w) = Flowing(p, "Normal") /\ ExecKind(xv, s, v) = Flowing(q, "Normal")
      BY <2>7, <2>15, <2>16, <2>17
    <3> QED
      BY <2>6, <3>1, AlikeFlowing
  <2>18. CASE Sound(p) /\ T # {}
    <3>1. T \in SUBSET Nat
      BY <2>9
    <3>2. m \in 1 .. N
      BY <2>9, <2>12, <2>18, <3>1, MinIs
    <3>3. Alike(a, b, F)
      BY <2>2, <2>3, <2>6, <2>13, <2>14, <3>2 DEF CasesMatch
    <3>4. a.flow = b.flow /\ a.flow \in {"Normal", "Break", "Continue"}
      BY <3>3, AlikeIs, WalkerIs
    <3>5. PICK f \in {"Normal", "Break", "Continue"} :
              /\ f = IF a.flow = "Break" THEN "Normal" ELSE a.flow
              /\ f = IF b.flow = "Break" THEN "Normal" ELSE b.flow
      BY <3>4
    <3>6. ExecKind(xv, d, w) = Flowing(a, f) /\ ExecKind(xv, s, v) = Flowing(b, f)
      BY <2>7, <2>15, <2>16, <2>18, <3>5
    <3> QED
      BY <3>3, <3>6, AlikeFlowing
  <2> QED
    BY <2>17, <2>18
<1> QED
  BY <1>1, <1>8, <1>10, <1>12, <1>13, <1>14, <1>15 DEF StmtFine

-----------------------------------------------------------------------------
(* Every statement.                                                        *)

\* The visit to a statement comes before its kind matters.
LEMMA ExecStart ==
    ASSUME NEW xv, NEW d, NEW s, NEW F, NEW w, NEW v, Alike(w, v, F),
           \A x, y : Alike(x, y, F) => Alike(ExecKind(xv, d, x), ExecKind(xv, s, y), F)
    PROVE  Alike(ExecNode(xv, d, w), ExecNode(xv, s, v), F)
<1>1. PICK x : x = Visited(w)
  OBVIOUS
<1>2. PICK y : y = Visited(v)
  OBVIOUS
<1>3. Alike(x, y, F)
  BY <1>1, <1>2, AlikeVisited
<1>4. Sound(x) <=> Sound(y)
  BY <1>3, AlikeIs
<1>5. Alike(Flowing(x, "Normal"), Flowing(y, "Normal"), F)
  BY <1>3, AlikeFlowing
<1>6. Alike(ExecKind(xv, d, Flowing(x, "Normal")), ExecKind(xv, s, Flowing(y, "Normal")), F)
  BY <1>5
<1>7. ExecNode(xv, d, w) = IF Sound(x) THEN ExecKind(xv, d, Flowing(x, "Normal")) ELSE x
  BY <1>1 DEF ExecNode
<1>8. ExecNode(xv, s, v) = IF Sound(y) THEN ExecKind(xv, s, Flowing(y, "Normal")) ELSE y
  BY <1>2 DEF ExecNode
<1> QED
  BY <1>3, <1>4, <1>6, <1>7, <1>8

\* Every kind of statement, if the parts are.
LEMMA StmtNodeFine ==
    ASSUME NEW rv, NEW xv, NEW S, StmtsAlike(rv, xv, S), NEW names, Distinct(names),
           NEW s \in StmtOver(S), NEW r, r = ResolveStmtNode(rv, s, names)
    PROVE  StmtFine(xv, S, s, names, r)
<1>1. CASE s \in AssignNode
  <2>1. r = ResolveAssign(s, names)
    BY <1>1 DEF ResolveStmtNode, AssignNode
  <2> QED
    BY <1>1, <2>1, AssignFine
<1>2. CASE s \in VarDeclNode
  <2>1. r = ResolveVarDecl(s, names)
    BY <1>2 DEF ResolveStmtNode, VarDeclNode
  <2> QED
    BY <1>2, <2>1, VarDeclFine
<1>3. CASE s \in PrintExprNode
  <2>1. r = ResolvePrint(s, names)
    BY <1>3 DEF ResolveStmtNode, PrintExprNode
  <2> QED
    BY <1>3, <2>1, PrintExprFine
<1>4. CASE s \in PrintTextNode
  <2>1. r = ResolvePrint(s, names)
    BY <1>4 DEF ResolveStmtNode, PrintTextNode
  <2> QED
    BY <1>4, <2>1, PrintTextFine
<1>5. CASE s \in JumpNode
  <2>1. r = Resolved(s, names)
    BY <1>5 DEF ResolveStmtNode, JumpNode
  <2> QED
    BY <1>5, <2>1, JumpFine
<1>6. CASE s \in BlockNode(S)
  <2>1. r = ResolveBlock(rv, s, names)
    BY <1>6 DEF ResolveStmtNode, BlockNode
  <2> QED
    BY <1>6, <2>1, BlockFine
<1>7. CASE s \in IfNode(S)
  <2>1. r = ResolveIf(rv, s, names)
    BY <1>7 DEF ResolveStmtNode, IfNode
  <2> QED
    BY <1>7, <2>1, IfFine
<1>8. CASE s \in LoopNode(S) /\ s.kind = "WHILE"
  <2>1. r = ResolveWhile(rv, s, names)
    BY <1>8 DEF ResolveStmtNode
  <2> QED
    BY <1>8, <2>1, WhileFine
<1>9. CASE s \in LoopNode(S) /\ s.kind = "DO_WHILE"
  <2>1. r = ResolveDoWhile(rv, s, names)
    BY <1>9 DEF ResolveStmtNode
  <2> QED
    BY <1>9, <2>1, DoWhileFine
<1>10. CASE s \in ForNode(S)
  <2>1. r = ResolveFor(rv, s, names)
    BY <1>10 DEF ResolveStmtNode, ForNode
  <2> QED
    BY <1>10, <2>1, ForFine
<1>11. CASE s \in SwitchNode(S)
  <2>1. r = ResolveSwitch(rv, s, names)
    BY <1>11 DEF ResolveStmtNode, SwitchNode
  <2> QED
    BY <1>11, <2>1, SwitchFine
<1>12. s \in LoopNode(S) => s.kind = "WHILE" \/ s.kind = "DO_WHILE"
  BY DEF LoopNode
<1> QED
  BY <1>1, <1>2, <1>3, <1>4, <1>5, <1>6, <1>7, <1>8, <1>9, <1>10, <1>11, <1>12
  DEF StmtOver

\* Every statement, by its height.
LEMMA StmtsAlikeAll == StmtsAlike(ResolveStmtUpTo[MaxHeight], ExecUpTo[MaxHeight], Stmt)
<1> DEFINE H == {h \in 0 .. MaxHeight :
                     StmtsAlike(ResolveStmtUpTo[h], ExecUpTo[h], StmtUpTo[h])}
<1>1. 0 \in H
  BY StmtLevels, MaxHeightAssumption DEF StmtsAlike
<1>2. ASSUME NEW h \in 1 .. MaxHeight, h - 1 \in H
      PROVE  h \in H
  <2>1. h \in Heights /\ h # 0
    BY MaxHeightAssumption DEF Heights
  <2>2. PICK S : S = StmtUpTo[h - 1]
    OBVIOUS
  <2>3. PICK rv : rv = ResolveStmtUpTo[h - 1]
    OBVIOUS
  <2>4. PICK xv : xv = ExecUpTo[h - 1]
    OBVIOUS
  <2>5. StmtsAlike(rv, xv, S)
    BY <1>2, <2>2, <2>3, <2>4
  <2>6. PICK D : D = StmtUpTo[h] /\ D = StmtOver(S)
    BY <2>1, <2>2, StmtLevels
  <2>7. PICK rh : rh = ResolveStmtUpTo[h]
    OBVIOUS
  <2>8. PICK xh : xh = ExecUpTo[h]
    OBVIOUS
  <2>9. ASSUME NEW s \in D, NEW names \in Seq(STRING)
        PROVE  rh[s][names] = ResolveStmtNode(rv, s, names)
    BY <2>1, <2>3, <2>6, <2>7, ResolveStmtLevels, Zenon
  <2>10. ASSUME NEW s \in D, NEW w \in Walker
         PROVE  xh[s][w] = ExecNode(xv, s, w)
    BY <2>1, <2>4, <2>6, <2>8, ExecLevels, Zenon
  <2>11. ASSUME NEW s \in D, NEW names, Distinct(names)
         PROVE  Fine(xh, D, s, names, rh[s][names]) /\ rh[s][names].node.kind = s.kind
    <3>1. PICK r : r = rh[s][names]
      OBVIOUS
    <3>2. r = ResolveStmtNode(rv, s, names)
      BY <2>9, <2>11, <3>1 DEF Distinct
    <3>3. StmtFine(xv, S, s, names, r)
      BY <2>5, <2>6, <2>11, <3>2, StmtNodeFine
    <3>4. /\ r.node \in D /\ Distinct(r.names) /\ Begins(names, r.names)
          /\ r.node.kind = s.kind
      BY <2>6, <3>3 DEF StmtFine
    <3>5. ASSUME NEW F, Distinct(F), Begins(r.names, F), NEW w, NEW v, Alike(w, v, F)
          PROVE  Alike(xh[r.node][w], xh[s][v], F)
      <4>1. w \in Walker /\ v \in Walker
        BY <3>5, AlikeIs
      <4>2. \A x, y : Alike(x, y, F)
                         => Alike(ExecKind(xv, r.node, x), ExecKind(xv, s, y), F)
        BY <3>3, <3>5 DEF StmtFine
      <4>3. Alike(ExecNode(xv, r.node, w), ExecNode(xv, s, v), F)
        BY <3>5, <4>2, ExecStart
      <4>4. xh[r.node][w] = ExecNode(xv, r.node, w)
        BY <2>10, <3>4, <4>1
      <4>5. xh[s][v] = ExecNode(xv, s, v)
        BY <2>10, <4>1
      <4> QED
        BY <4>3, <4>4, <4>5
    <3>6. Fine(xh, D, s, names, r)
      BY <3>4, <3>5 DEF Fine, Matches
    <3> QED
      BY <3>1, <3>4, <3>6
  <2>12. StmtsAlike(rh, xh, D)
    BY <2>11 DEF StmtsAlike
  <2>13. StmtsAlike(ResolveStmtUpTo[h], ExecUpTo[h], StmtUpTo[h])
    BY <2>6, <2>7, <2>8, <2>12, Zenon
  <2> QED
    BY <2>13
<1>3. \A h \in 0 .. MaxHeight : h \in H
  <2> HIDE DEF H
  <2> QED
    BY <1>1, <1>2, MaxHeightAssumption, InductionTo, Zenon
<1>4. MaxHeight \in H
  BY <1>3, MaxHeightAssumption
<1> QED
  BY <1>4 DEF Stmt

-----------------------------------------------------------------------------
(* The whole run.                                                          *)

IsNew(w, storage, names, reads) ==
    /\ w \in Walker /\ w.storage = storage /\ w.slotOf = names
    /\ Len(w.bySlot) = Len(names) /\ Len(w.definedSlot) = Len(names)
    /\ \A k \in 1 .. Len(names) : w.definedSlot[k] = FALSE
    /\ w.byName = {} /\ w.input = reads /\ w.events = << >> /\ w.nodes = 0
    /\ w.value = MakeInt(0) /\ w.flow = "Normal" /\ w.fault = NoFault

\* What a walker holds at the beginning.
LEMMA NewIs ==
    ASSUME NEW storage \in {"Slots", "Map"}, NEW names \in Seq(STRING),
           NEW reads \in Seq(CInt)
    PROVE  IsNew(NewWalker(storage, names, reads), storage, names, reads)
<1>0. PICK w : w = NewWalker(storage, names, reads)
  OBVIOUS
<1>1. Len(names) \in Nat /\ DOMAIN names = 1 .. Len(names)
  OBVIOUS
<1>2. PICK zero \in Value : zero = MakeInt(0)
  BY ValueLemma
<1>3. PICK b : b = [k \in DOMAIN names |-> zero]
  OBVIOUS
<1>4. b \in Seq(Value) /\ Len(b) = Len(names)
  BY <1>1, <1>3
<1>5. PICK d : d = [k \in DOMAIN names |-> FALSE]
  OBVIOUS
<1>6. d \in Seq(BOOLEAN) /\ Len(d) = Len(names) /\ \A k \in 1 .. Len(names) : d[k] = FALSE
  BY <1>1, <1>5
<1>7. NoFault \in [reason : WalkFault, loc : Place]
  BY DEF NoFault, WalkFault, Place
<1>8. << >> \in Seq(Event)
  OBVIOUS
<1>9. w = [storage |-> storage, slotOf |-> names, bySlot |-> b, definedSlot |-> d,
           byName |-> {}, input |-> reads, events |-> << >>, nodes |-> 0,
           value |-> zero, flow |-> "Normal", fault |-> NoFault]
  BY <1>0, <1>2, <1>3, <1>5 DEF NewWalker
<1>10. w \in Walker
  BY <1>4, <1>6, <1>7, <1>8, <1>9 DEF Walker
<1> QED
  BY <1>0, <1>2, <1>4, <1>6, <1>9, <1>10 DEF IsNew

\* At the beginning nothing is stored and nothing has happened.
LEMMA NewAlike ==
    ASSUME NEW F \in Seq(STRING), NEW reads \in Seq(CInt)
    PROVE  Alike(NewWalker("Slots", F, reads), NewWalker("Map", << >>, reads), F)
<1>1. PICK w : w = NewWalker("Slots", F, reads)
  OBVIOUS
<1>2. PICK v : v = NewWalker("Map", << >>, reads)
  OBVIOUS
<1>3. "Slots" \in {"Slots", "Map"} /\ "Map" \in {"Slots", "Map"} /\ << >> \in Seq(STRING)
  OBVIOUS
<1>4. IsNew(w, "Slots", F, reads)
  BY <1>1, <1>3, NewIs, Zenon
<1>5. IsNew(v, "Map", << >>, reads)
  BY <1>2, <1>3, NewIs, Zenon
<1>6. SameRun(w, v)
  BY <1>4, <1>5 DEF SameRun, IsNew
<1>7. Stored(w, v, F)
  BY <1>4, <1>5 DEF Stored, IsNew
<1>8. w \in Walker /\ v \in Walker /\ w.storage = "Slots" /\ v.storage = "Map"
  BY <1>4, <1>5 DEF IsNew
<1> QED
  BY <1>1, <1>2, <1>6, <1>7, <1>8 DEF Alike

\* A program that matches another runs as it does.
LEMMA VisitAlike ==
    ASSUME NEW visit, NEW xs, Len(xs) \in Nat, NEW ys, NEW F, ListsMatch(visit, ys, xs, F),
           NEW w, NEW v, Alike(w, v, F)
    PROVE  Alike(Visit(visit, ys, w), Visit(visit, xs, v), F)
<1>1. PICK R : R = {p \in Walker \X Walker : Alike(p[1], p[2], F)}
  OBVIOUS
<1>2. \A x \in Walker, y \in Walker : <<x, y>> \in R <=> Alike(x, y, F)
  BY <1>1
<1>3. R \in SUBSET (Walker \X Walker)
  BY <1>1
<1>4. w \in Walker /\ v \in Walker /\ <<w, v>> \in R
  BY <1>2, AlikeIs
<1>5. Len(ys) = Len(xs) /\ Len(ys) \in Nat
  BY DEF ListsMatch
<1>6. ASSUME NEW k \in 1 .. Len(ys), NEW x \in Walker, NEW y \in Walker, <<x, y>> \in R
      PROVE  <<visit[ys[k]][x], visit[xs[k]][y]>> \in R
  <2>1. k \in 1 .. Len(xs)
    BY <1>5
  <2>2. Alike(x, y, F)
    BY <1>2, <1>6
  <2>3. Alike(visit[ys[k]][x], visit[xs[k]][y], F)
    BY <2>1, <2>2 DEF ListsMatch, Matches
  <2>4. visit[ys[k]][x] \in Walker /\ visit[xs[k]][y] \in Walker
    BY <2>3, AlikeIs
  <2> QED
    BY <1>2, <2>3, <2>4
<1>7. <<Visit(visit, ys, w), Visit(visit, xs, v)>> \in R
  BY <1>3, <1>4, <1>5, <1>6, VisitInStep, Zenon
<1>8. Visit(visit, ys, w) \in Walker /\ Visit(visit, xs, v) \in Walker
  BY <1>3, <1>7
<1> QED
  BY <1>2, <1>7, <1>8

\* A whole run with slots is alike to the one with a map.
LEMMA WalksAlike ==
    ASSUME NEW tree \in Seq(Stmt), NEW reads \in Seq(CInt)
    PROVE  \E F : Distinct(F) /\ Alike(Walk(tree, "Slots", reads), Walk(tree, "Map", reads), F)
<1>1. Distinct(<< >>)
  BY DEF Distinct
<1>2. PICK rv : rv = ResolveStmtUpTo[MaxHeight]
  OBVIOUS
<1>3. PICK xv : xv = ExecUpTo[MaxHeight]
  OBVIOUS
<1>4. StmtsAlike(rv, xv, Stmt)
  BY <1>2, <1>3, StmtsAlikeAll
<1>5. PICK r : r = ResolveList(rv, tree, << >>)
  OBVIOUS
<1>6. ListFine(xv, Stmt, tree, << >>, r)
  BY <1>1, <1>4, <1>5, ListsFine
<1>7. PICK F : F = r.names
  OBVIOUS
<1>8. Distinct(F) /\ F \in Seq(STRING)
  BY <1>6, <1>7 DEF ListFine, Distinct
<1>9. ListsMatch(xv, r.node, tree, F)
  BY <1>6, <1>7, <1>8, BeginsSame DEF ListFine
<1>10. PICK w : w = NewWalker("Slots", F, reads)
  OBVIOUS
<1>11. PICK v : v = NewWalker("Map", << >>, reads)
  OBVIOUS
<1>12. Alike(w, v, F)
  BY <1>8, <1>10, <1>11, NewAlike
<1>13. Len(tree) \in Nat
  OBVIOUS
<1>14. Alike(Visit(xv, r.node, w), Visit(xv, tree, v), F)
  BY <1>9, <1>12, <1>13, VisitAlike, Zenon
<1>15. Walk(tree, "Slots", reads) = Visit(xv, r.node, w)
  BY <1>2, <1>3, <1>5, <1>7, <1>10 DEF Walk
<1>16. Walk(tree, "Map", reads) = Visit(xv, tree, v)
  BY <1>3, <1>11 DEF Walk, Resolved
<1> QED
  BY <1>8, <1>14, <1>15, <1>16

\* What StoragesAgree says of two walkers.
SameWalk(s, m) ==
    /\ s.fault = m.fault /\ s.events = m.events /\ s.nodes = m.nodes
    /\ m.byName = {[name |-> s.slotOf[k], value |-> s.bySlot[k]] :
                      k \in {j \in DOMAIN s.slotOf : s.definedSlot[j]}}

\* Walkers that are alike are what StoragesAgree asks for.
LEMMA AlikeSame ==
    ASSUME NEW w, NEW v, NEW F, Distinct(F), Alike(w, v, F)
    PROVE  SameWalk(w, v)
<1>1. SameRun(w, v) /\ Stored(w, v, F) /\ w \in Walker
  BY DEF Alike
<1>2. w.fault = v.fault /\ w.events = v.events /\ w.nodes = v.nodes
  BY <1>1 DEF SameRun
<1>3. w.slotOf = F /\ DOMAIN F = 1 .. Len(F)
  BY <1>1 DEF Stored, Distinct
<1>4. \A k \in 1 .. Len(F) : w.definedSlot[k] \in BOOLEAN
  <2>1. w.definedSlot \in Seq(BOOLEAN) /\ Len(w.definedSlot) = Len(F)
    BY <1>1, WalkerIs DEF Stored
  <2> QED
    BY <2>1
<1>5. PICK K : K = {j \in DOMAIN w.slotOf : w.definedSlot[j]}
  OBVIOUS
<1>6. \A k : k \in K <=> k \in 1 .. Len(F) /\ w.definedSlot[k] = TRUE
  BY <1>3, <1>4, <1>5
<1>7. PICK M : M = {[name |-> w.slotOf[k], value |-> w.bySlot[k]] : k \in K}
  OBVIOUS
<1>8. ASSUME NEW entry \in v.byName
      PROVE  entry \in M
  <2>1. PICK k \in 1 .. Len(F) :
            w.definedSlot[k] = TRUE /\ entry = [name |-> F[k], value |-> w.bySlot[k]]
    BY <1>1 DEF Stored
  <2>2. k \in K
    BY <1>6, <2>1
  <2> QED
    BY <1>3, <1>7, <2>1, <2>2
<1>9. ASSUME NEW entry \in M
      PROVE  entry \in v.byName
  <2>1. PICK k \in K : entry = [name |-> w.slotOf[k], value |-> w.bySlot[k]]
    BY <1>7
  <2>2. k \in 1 .. Len(F) /\ w.definedSlot[k] = TRUE
    BY <1>6
  <2> QED
    BY <1>1, <1>3, <2>1, <2>2 DEF Stored
<1>10. v.byName = M
  BY <1>8, <1>9
<1> QED
  BY <1>2, <1>5, <1>7, <1>10 DEF SameWalk

-----------------------------------------------------------------------------
(* The three backends side by side.                                        *)

\* Both tree walkers ran the program that was let through, on what the
\* machine was given to read.
WalksInv ==
    /\ given \in Seq(CInt)
    /\ stage # "executed" => given = input
    /\ stage = "executed" => walked = [s \in {"Slots", "Map"} |-> Walk(program, s, given)]

BackendsInv == PipelineInv /\ WalksInv

\* A step with the tree walkers beside it is a step of the pipeline.
LEMMA BackendsStep == BackendsNext => PipelineNext
BY DEF BackendsNext, StartAll, MachineAll, Refuse, ExecuteAll, PipelineNext, Start

\* At the beginning the machine has everything still to read.
LEMMA BackendsInitInv == BackendsInit => BackendsInv
<1> SUFFICES ASSUME BackendsInit PROVE BackendsInv
  OBVIOUS
<1>1. PipelineInv
  BY PipelineInitInv DEF BackendsInit
<1>2. input \in Seq(CInt)
  BY <1>1 DEF PipelineInv, IInv, TypeOK
<1>3. given = input /\ stage = "idle"
  BY DEF BackendsInit, PipelineInit
<1>4. WalksInv
  BY <1>2, <1>3 DEF WalksInv
<1> QED
  BY <1>1, <1>4 DEF BackendsInv

\* Only the step that starts a program makes the walkers run.
LEMMA BackendsNextInv ==
    BackendsInv /\ [BackendsNext]_<<vars, stageVars, walkVars>> => BackendsInv'
<1> SUFFICES ASSUME BackendsInv, [BackendsNext]_<<vars, stageVars, walkVars>>
             PROVE  BackendsInv'
  OBVIOUS
<1>1. [PipelineNext]_<<vars, stageVars>>
  BY BackendsStep
<1>2. PipelineInv'
  BY <1>1, PipelineNextInv DEF BackendsInv
<1>3. given \in Seq(CInt)
  BY DEF BackendsInv, WalksInv
<1>4. ASSUME NEW p \in Programs, Refuse(p) PROVE WalksInv'
  <2>1. stage = "idle" /\ stage' = "refused" /\ input' = input /\ given' = given
    BY <1>4 DEF Refuse, RefuseProgram, Analyzed, vars, execVars, walkVars
  <2> QED
    BY <1>3, <2>1 DEF BackendsInv, WalksInv
<1>5. ASSUME NEW p \in Programs, ExecuteAll(p) PROVE WalksInv'
  <2>1. stage = "idle" /\ stage' = "executed" /\ program' = p
    BY <1>5 DEF ExecuteAll, ExecuteProgram, Analyzed
  <2>2. given = input
    BY <2>1 DEF BackendsInv, WalksInv
  <2>3. walked' = [s \in {"Slots", "Map"} |-> Walk(p, s, given)] /\ given' = given
    BY <1>5, <2>2 DEF ExecuteAll, Walks
  <2> QED
    BY <1>3, <2>1, <2>3 DEF WalksInv
<1>6. ASSUME MachineAll PROVE WalksInv'
  <2>1. phase # "idle"
    BY <1>6, MachineStep DEF MachineAll, Machine
  <2>2. stage = "executed"
    BY <2>1 DEF BackendsInv, PipelineInv, StagesInv
  <2>3. UNCHANGED <<stage, program, given, walked>>
    BY <1>6 DEF MachineAll, Machine, stageVars, walkVars
  <2> QED
    BY <2>2, <2>3 DEF BackendsInv, WalksInv
<1>7. ASSUME UNCHANGED <<vars, stageVars, walkVars>> PROVE WalksInv'
  <2>1. UNCHANGED <<stage, program, given, walked, input>>
    BY <1>7 DEF vars, execVars, stageVars, walkVars
  <2> QED
    BY <2>1 DEF BackendsInv, WalksInv
<1>8. WalksInv'
  BY <1>4, <1>5, <1>6, <1>7 DEF BackendsNext, StartAll
<1> QED
  BY <1>2, <1>8 DEF BackendsInv

\* The invariant of the stages, and where the tree walkers come from.
THEOREM BackendsInvariance == BackendsSpec => []BackendsInv
<1>1. BackendsInit => BackendsInv
  BY BackendsInitInv
<1>2. BackendsInv /\ [BackendsNext]_<<vars, stageVars, walkVars>> => BackendsInv'
  BY BackendsNextInv
<1> QED
  BY <1>1, <1>2, PTL DEF BackendsSpec

\* The tree walkers beside it take nothing away from the pipeline and add
\* nothing: its initial states and its steps are those of Pipeline.
THEOREM BackendsRefine == BackendsSpec => PipelineSpec
<1>1. BackendsInit => PipelineInit
  BY DEF BackendsInit
<1>2. [BackendsNext]_<<vars, stageVars, walkVars>> => [PipelineNext]_<<vars, stageVars>>
  BY BackendsStep
<1> QED
  BY <1>1, <1>2, PTL DEF BackendsSpec, PipelineSpec

\* What holds in the pipeline holds with the tree walkers beside it.
THEOREM BackendsStages ==
    BackendsSpec => [](CompiledVerifies /\ JumpErrorsExact /\ GlobalsDeclared)
<1>1. BackendsInv => CompiledVerifies /\ JumpErrorsExact /\ GlobalsDeclared
  BY VerifiesIn, AssertsIn, NamesIn DEF BackendsInv
<1> QED
  BY <1>1, BackendsInvariance, PTL

\* StoragesAgree, for every program and every input: with slots the tree
\* walker prints, reads, fails and stores as with a map, so that no slot is left
\* unresolved and no two names share one.
THEOREM StoragesAlways == BackendsSpec => []StoragesAgree
<1>1. BackendsInv => StoragesAgree
  <2>1. SUFFICES ASSUME BackendsInv, stage = "executed"
                 PROVE  SameWalk(walked["Slots"], walked["Map"])
    BY DEF StoragesAgree, SameWalk
  <2>2. /\ program \in Seq(Stmt) /\ given \in Seq(CInt)
        /\ walked = [s \in {"Slots", "Map"} |-> Walk(program, s, given)]
    BY <2>1 DEF BackendsInv, PipelineInv, StagesInv, WalksInv
  <2>3. PICK w : w = Walk(program, "Slots", given)
    OBVIOUS
  <2>4. PICK v : v = Walk(program, "Map", given)
    OBVIOUS
  <2>5. PICK F : Distinct(F) /\ Alike(w, v, F)
    BY <2>2, <2>3, <2>4, WalksAlike
  <2>6. SameWalk(w, v)
    BY <2>5, AlikeSame
  <2>7. walked["Slots"] = w /\ walked["Map"] = v
    BY <2>2, <2>3, <2>4
  <2> QED
    BY <2>6, <2>7
<1> QED
  BY <1>1, BackendsInvariance, PTL
==============================================================================
