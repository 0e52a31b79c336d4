------------------------------ MODULE Compiler ------------------------------
(***************************************************************************)
(* BytecodeCompiler (compiler.h, compiler.cpp) with the chunk's builders   *)
(* (opcode.cpp).  The compiler is a function of the tree: c is its state,  *)
(* [chunk, scopes, aborted], which every operator takes and returns.  The  *)
(* members breakJumps and continueJumps of a scope hold the places of      *)
(* jumps that wait for their targets; aborted says that an assert failed.  *)
(* An operator for a class of nodes takes the function that compiles their *)
(* parts, of which visit[s][c] compiles s in the state c.                  *)
(***************************************************************************)
EXTENDS Bytecode, TreeSets, SequencesExt

Scope == [kind : {"Loop", "Switch"}, slots : Nat, breakJumps : Seq(Nat),
          continueJumps : Seq(Nat)]

Compiler == [chunk : Chunk, scopes : Seq(Scope), aborted : BOOLEAN]

NewCompiler == [chunk |-> EmptyChunk, scopes |-> << >>, aborted |-> FALSE]

-----------------------------------------------------------------------------
(* The chunk's builders.  A pool holds an entry once.                      *)

Interned(pool, x) == IF x \in Range(pool) THEN pool ELSE Append(pool, x)
IndexIn(pool, x)  == (CHOOSE k \in DOMAIN pool : pool[k] = x) - 1

NextPlace(c) == Size(c.chunk)     \* here()

Emit(c, op, operand, loc) ==
    [c EXCEPT !.chunk.code =
        Append(@, [op |-> op, operand |-> operand, loc |-> loc])]

EmitInt(c, v, loc) ==
    LET pool == Interned(c.chunk.intConstants, v)
    IN  Emit([c EXCEPT !.chunk.intConstants = pool], "OP_CONST_INT",
             IndexIn(pool, v), loc)

EmitString(c, s, loc) ==
    LET pool == Interned(c.chunk.stringConstants, s)
    IN  Emit([c EXCEPT !.chunk.stringConstants = pool], "OP_PRINT_STR",
             IndexIn(pool, s), loc)

EmitGlobal(c, op, name, loc) ==
    LET pool == Interned(c.chunk.globalNames, name)
    IN  Emit([c EXCEPT !.chunk.globalNames = pool], op, IndexIn(pool, name), loc)

\* A jump whose target is not known yet.
EmitForward(c, op, loc) == Emit(c, op, -1, loc)

\* The code with the jumps at these places leading to target.
Patched(code, places, target) ==
    [k \in DOMAIN code |-> IF k - 1 \in places
                           THEN [code[k] EXCEPT !.operand = target] ELSE code[k]]

PatchJumps(c, places, target) ==
    [c EXCEPT !.chunk.code = Patched(@, places, target)]

PatchJump(c, place, target) == PatchJumps(c, {place}, target)

-----------------------------------------------------------------------------
(* Scopes.                                                                 *)

LoopScope   == [kind |-> "Loop", slots |-> 0, breakJumps |-> << >>,
                continueJumps |-> << >>]
SwitchScope == [kind |-> "Switch", slots |-> 1, breakJumps |-> << >>,
                continueJumps |-> << >>]

PushScope(c, scope) == [c EXCEPT !.scopes = Append(@, scope)]
PopScope(c)         == [c EXCEPT !.scopes = SubSeq(@, 1, Len(@) - 1)]
InnerScope(c)       == c.scopes[Len(c.scopes)]

\* The operands that the first n scopes hold on the stack.
Held(scopes) ==
    LET held[n \in 0 .. Len(scopes)] ==
            IF n = 0 THEN 0 ELSE held[n - 1] + scopes[n].slots
    IN  held

\* A plausible slip: the operands of the scopes that are left stay.
EmitJumpKeeping(c, target, loc) == EmitForward(c, "OP_JUMP", loc)

\* What the scopes inside scope number target hold is popped first.
EmitPops(c, n, loc) ==
    [c EXCEPT !.chunk.code =
        @ \o [k \in 1 .. n |-> [op |-> "OP_POP", operand |-> 0, loc |-> loc]]]

EmitJump(c, target, loc) ==
    LET held == Held(c.scopes)
    IN  EmitForward(EmitPops(c, held[Len(c.scopes)] - held[target], loc),
                    "OP_JUMP", loc)

Abort(c) == [c EXCEPT !.aborted = TRUE]

AwaitBreak(c, n, place)    == [c EXCEPT !.scopes[n].breakJumps = Append(@, place)]
AwaitContinue(c, n, place) == [c EXCEPT !.scopes[n].continueJumps = Append(@, place)]

CompileBreak(s, c) ==
    IF c.scopes = << >> THEN Abort(c)
    ELSE LET target == Len(c.scopes)
             d == EmitJump(c, target, s.loc)
         IN  AwaitBreak(d, target, NextPlace(d) - 1)

LoopsIn(scopes) == {n \in DOMAIN scopes : scopes[n].kind = "Loop"}

CompileContinue(s, c) ==
    IF LoopsIn(c.scopes) = {} THEN Abort(c)
    ELSE LET loop == Max(LoopsIn(c.scopes))
             d == EmitJump(c, loop, s.loc)
         IN  AwaitContinue(d, loop, NextPlace(d) - 1)

-----------------------------------------------------------------------------
(* Expressions, in post-order.                                             *)

OpCodeOf ==
    [ADD |-> "OP_ADD", SUB |-> "OP_SUB", MUL |-> "OP_MUL", DIV |-> "OP_DIV",
     MOD |-> "OP_MOD", GT |-> "OP_GT", GE |-> "OP_GE", LT |-> "OP_LT",
     LE |-> "OP_LE", EQ |-> "OP_EQ", NEQ |-> "OP_NEQ",
     AND |-> "OP_JUMP_IF_FALSE", OR |-> "OP_JUMP_IF_TRUE",
     UNARY_NEG |-> "OP_NEG", UNARY_NOT |-> "OP_NOT"]

CompileUnary(visit, e, c) == Emit(visit[e.operand][c], OpCodeOf[e.kind], 0, e.loc)

CompileBinary(visit, e, c) ==
    Emit(visit[e.right][visit[e.left][c]], OpCodeOf[e.op], 0, e.loc)

\* The left operand stays as the result when the jump is taken.
CompileLogical(visit, e, c) ==
    LET left  == EmitForward(visit[e.left][c], OpCodeOf[e.op], e.loc)
        jump  == NextPlace(left) - 1
        right == visit[e.right][Emit(left, "OP_POP", 0, e.loc)]
    IN  PatchJump(right, jump, NextPlace(right))

CompileExprNode(visit, e, c) ==
    CASE e.kind = "LITERAL_INT"  -> EmitInt(c, e.int, e.loc)
      [] e.kind = "LITERAL_BOOL" ->
            Emit(c, IF e.bool THEN "OP_TRUE" ELSE "OP_FALSE", 0, e.loc)
      [] e.kind = "VARIABLE" -> EmitGlobal(c, "OP_GET_GLOBAL", e.name, e.loc)
      [] e.kind = "READ"     -> Emit(c, "OP_READ", 0, e.loc)
      [] e.kind \in UnaryKinds -> CompileUnary(visit, e, c)
      [] e.kind = "BINARY"   -> CompileBinary(visit, e, c)
      [] e.kind = "LOGICAL"  -> CompileLogical(visit, e, c)

CompileExprUpTo[h \in Heights] ==
    [e \in ExprUpTo[h] |->
        [c \in Compiler |-> CompileExprNode(CompileExprUpTo[h - 1], e, c)]]

CompileExpr(e, c) == CompileExprUpTo[MaxHeight][e][c]

-----------------------------------------------------------------------------
(* Statements.                                                             *)

CompileStore(s, op, e, c) == EmitGlobal(CompileExpr(e, c), op, s.name, s.loc)

CompilePrint(s, c) ==
    IF s.isString THEN EmitString(c, s.stringLiteral, s.loc)
    ELSE Emit(CompileExpr(s.expr, c), "OP_PRINT_VAL", 0, s.loc)

\* A condition, the jump out when it is false, and the pop when it is true.
CompileCondition(s, c) ==
    Emit(EmitForward(CompileExpr(s.condition, c), "OP_JUMP_IF_FALSE", s.loc),
         "OP_POP", 0, s.loc)
ExitJump(c) == NextPlace(c) - 2      \* in the state CompileCondition returns

\* The place such a jump leads to: the condition is popped there too.
LandExit(c, jump, loc) ==
    Emit(PatchJump(c, jump, NextPlace(c)), "OP_POP", 0, loc)

CompileIf(visit, s, c) ==
    LET cond   == CompileCondition(s, c)
        then   == EmitForward(visit[s.thenBranch][cond], "OP_JUMP", s.loc)
        toEnd  == NextPlace(then) - 1
        landed == LandExit(then, ExitJump(cond), s.loc)
        else   == Visit(visit, s.elseBranch, landed)
    IN  PatchJump(else, toEnd, NextPlace(else))

PatchContinues(c, target) ==
    PatchJumps(c, Range(InnerScope(c).continueJumps), target)
PatchBreaks(c) == PatchJumps(c, Range(InnerScope(c).breakJumps), NextPlace(c))

\* tigil leaves the loop behind the pop of the condition.
CloseLoop(s, c, exitJump) == PopScope(PatchBreaks(LandExit(c, exitJump, s.loc)))

CompileWhile(visit, s, c) ==
    LET start == NextPlace(c)
        cond  == CompileCondition(s, c)
        body  == visit[s.body][PushScope(cond, LoopScope)]
        back  == Emit(PatchContinues(body, start), "OP_JUMP", start, s.loc)
    IN  CloseLoop(s, back, ExitJump(cond))

CompileDoWhile(visit, s, c) ==
    LET start == NextPlace(c)
        body  == visit[s.body][PushScope(c, LoopScope)]
        cond  == CompileCondition(s, PatchContinues(body, NextPlace(body)))
        back  == Emit(cond, "OP_JUMP", start, s.loc)
    IN  CloseLoop(s, back, ExitJump(cond))

\* A plausible slip: sunod goes to the condition, as it does in habang.
ContinueAtCondition(condStart, updateStart) == condStart

ContinueTarget(condStart, updateStart) == updateStart

\* The update is laid out before the body, which jumps back to it.
CompileFor(visit, s, c) ==
    LET init        == visit[s.init][c]
        condStart   == NextPlace(init)
        cond        == CompileCondition(s, init)
        toBody      == EmitForward(cond, "OP_JUMP", s.loc)
        updateStart == NextPlace(toBody)
        update      == visit[s.update][PushScope(toBody, LoopScope)]
        again       == Emit(update, "OP_JUMP", condStart, s.loc)
        entered     == PatchJump(again, updateStart - 1, NextPlace(again))
        body        == Emit(visit[s.body][entered], "OP_JUMP", updateStart, s.loc)
    IN  CloseLoop(s, PatchContinues(body, ContinueTarget(condStart, updateStart)),
                  ExitJump(cond))

\* One case: its body, then the jump to the end, which is collected like
\* a break (both lead to the end of the switch).
CompileCase(visit, s, case, c) ==
    LET test   == Emit(EmitInt(Emit(c, "OP_DUP", 0, s.loc), case.value, case.loc),
                       "OP_EQ", 0, s.loc)
        skip   == NextPlace(test)
        body   == Visit(visit, case.body,
                        Emit(EmitForward(test, "OP_JUMP_IF_FALSE", case.loc),
                             "OP_POP", 0, case.loc))
        leave  == EmitForward(body, "OP_JUMP", case.loc)
        noted  == AwaitBreak(leave, Len(leave.scopes), NextPlace(leave) - 1)
    IN  LandExit(noted, skip, case.loc)

CompileSwitch(visit, s, c) ==
    LET subject == PushScope(CompileExpr(s.subject, c), SwitchScope)
        cases   == Visit([case \in Range(s.cases) |->
                             [d \in Compiler |-> CompileCase(visit, s, case, d)]],
                         s.cases, subject)
    IN  Emit(PopScope(PatchBreaks(cases)), "OP_POP", 0, s.loc)

CompileStmtNode(visit, s, c) ==
    CASE s.kind = "ASSIGN"   -> CompileStore(s, "OP_SET_GLOBAL", s.value, c)
      [] s.kind = "VAR_DECL" ->
            CompileStore(s, "OP_DEFINE_GLOBAL", s.initializer, c)
      [] s.kind = "BLOCK"    -> Visit(visit, s.statements, c)
      [] s.kind = "PRINT"    -> CompilePrint(s, c)
      [] s.kind = "BREAK"    -> CompileBreak(s, c)
      [] s.kind = "CONTINUE" -> CompileContinue(s, c)
      [] s.kind = "IF"       -> CompileIf(visit, s, c)
      [] s.kind = "FOR"      -> CompileFor(visit, s, c)
      [] s.kind = "WHILE"    -> CompileWhile(visit, s, c)
      [] s.kind = "DO_WHILE" -> CompileDoWhile(visit, s, c)
      [] s.kind = "SWITCH"   -> CompileSwitch(visit, s, c)

CompileStmtUpTo[h \in Heights] ==
    [s \in StmtUpTo[h] |->
        [c \in Compiler |-> CompileStmtNode(CompileStmtUpTo[h - 1], s, c)]]

\* The last instruction carries the place of the last statement.
Compile(program) ==
    LET c == Visit(CompileStmtUpTo[MaxHeight], program, NewCompiler)
    IN  Emit(c, "OP_HALT", 0, IF program = << >> THEN 1 ELSE Last(program).loc)
=============================================================================
