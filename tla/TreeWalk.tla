------------------------------ MODULE TreeWalk ------------------------------
(***************************************************************************)
(* TreeWalker (treewalk.h, treewalk.cpp), which executes the tree itself.  *)
(* w is its state; besides the members it holds the value or the flow the  *)
(* last call returned, and the Fault that was thrown, if any: every call   *)
(* on a faulted state returns it unchanged, as an exception passes through *)
(* its callers.  events is what the program does to the two streams, in    *)
(* order: lines written and integers read.  visit resolves, evaluates or   *)
(* executes the parts of a node, as in Compiler.                           *)
(*                                                                         *)
(* MaxNodes is a bound of the model: an endless program is cut off by a    *)
(* fault of its own, "fuel".                                               *)
(***************************************************************************)
EXTENDS TreeSets, SequencesExt

CONSTANT MaxNodes

ASSUME MaxNodesAssumption == MaxNodes \in Nat

\* One event: a line that holds a value or a string, or an integer read.
ValueWritten(v) == [kind |-> "value", value |-> v]
TextWritten(s)  == [kind |-> "text", text |-> s]
IntRead         == [kind |-> "read"]

Event == [kind : {"value"}, value : Value] \cup [kind : {"text"}, text : STRING]
         \cup {IntRead}

\* An entry of byName, which holds no two with one name.
Entry == [name : STRING, value : Value]

\* "unresolved" stands for a slot that was never resolved, "fuel" for MaxNodes.
WalkFault == {"none", "undefined", "input", "type", "overflow", "zero", "remainder",
              "unresolved", "fuel"}

\* slotOf holds the names in the order of their slots.
Walker ==
    [storage : {"Slots", "Map"}, slotOf : Seq(STRING), bySlot : Seq(Value),
     definedSlot : Seq(BOOLEAN), byName : SUBSET Entry, input : Seq(CInt),
     events : Seq(Event), nodes : Nat, value : Value,
     flow : {"Normal", "Break", "Continue"}, fault : [reason : WalkFault, loc : Place]]

NoFault == [reason |-> "none", loc |-> 0]

NewWalker(storage, names, input) ==
    [storage |-> storage, slotOf |-> names,
     bySlot |-> [k \in DOMAIN names |-> MakeInt(0)],
     definedSlot |-> [k \in DOMAIN names |-> FALSE],
     byName |-> {}, input |-> input, events |-> << >>, nodes |-> 0,
     value |-> MakeInt(0), flow |-> "Normal", fault |-> NoFault]

Sound(w)           == w.fault = NoFault
Throw(w, why, l)   == [w EXCEPT !.fault = [reason |-> why, loc |-> l]]
Yield(w, v)        == [w EXCEPT !.value = v]
Flowing(w, f)      == [w EXCEPT !.flow = f]
Happened(w, event) == [w EXCEPT !.events = Append(@, event)]

\* ++nodes
Visited(w) == IF ~Sound(w) THEN w
              ELSE IF w.nodes = MaxNodes THEN Throw(w, "fuel", 0)
              ELSE [w EXCEPT !.nodes = @ + 1]

-----------------------------------------------------------------------------
(* resolve, resolveExpr, resolveStmt: every occurrence of a name gets the  *)
(* index of the name's first occurrence.  Resolving a node yields the node *)
(* with its slots and the names met so far.                                *)

Resolved(node, names) == [node |-> node, names |-> names]

Meeting(names, n) == IF n \in Range(names) THEN names ELSE Append(names, n)
SlotIn(names, n)  == (CHOOSE k \in DOMAIN names : names[k] = n) - 1

NameSlot(node, names) ==
    LET met == Meeting(names, node.name)
    IN  Resolved([node EXCEPT !.slot = SlotIn(met, node.name)], met)

ResolveUnary(visit, e, names) ==
    LET x == visit[e.operand][names] IN Resolved([e EXCEPT !.operand = x.node], x.names)

ResolvePair(visit, e, names) ==
    LET x == visit[e.left][names]
        y == visit[e.right][x.names]
    IN  Resolved([e EXCEPT !.left = x.node, !.right = y.node], y.names)

\* A plausible slip: the right operand of a logical operator is skipped.
ResolveLogicalLeft(visit, e, names) ==
    LET x == visit[e.left][names] IN Resolved([e EXCEPT !.left = x.node], x.names)

ResolveLogical(visit, e, names) == ResolvePair(visit, e, names)

ResolveExprNode(visit, e, names) ==
    CASE e.kind = "VARIABLE"   -> NameSlot(e, names)
      [] e.kind = "LOGICAL"    -> ResolveLogical(visit, e, names)
      [] e.kind \in UnaryKinds -> ResolveUnary(visit, e, names)
      [] e.kind = "BINARY"     -> ResolvePair(visit, e, names)
      [] OTHER                 -> Resolved(e, names)

ResolveExprUpTo[h \in Heights] ==
    [e \in ExprUpTo[h] |-> [names \in Seq(STRING) |->
        ResolveExprNode(ResolveExprUpTo[h - 1], e, names)]]

ResolveExpr(e, names) == ResolveExprUpTo[MaxHeight][e][names]

ResolveList(visit, xs, names) ==
    LET met[k \in 0 .. Len(xs)] ==
            IF k = 0 THEN names ELSE visit[xs[k]][met[k - 1]].names
    IN  Resolved([k \in 1 .. Len(xs) |-> visit[xs[k]][met[k - 1]].node], met[Len(xs)])

ResolvePrint(s, names) ==
    LET x == ResolveExpr(s.expr, names)
    IN  IF s.isString THEN Resolved(s, names)
        ELSE Resolved([s EXCEPT !.expr = x.node], x.names)

ResolveVarDecl(s, names) ==
    LET x == ResolveExpr(s.initializer, names)
    IN  NameSlot([s EXCEPT !.initializer = x.node], x.names)

ResolveAssign(s, names) ==
    LET x == ResolveExpr(s.value, names)
    IN  NameSlot([s EXCEPT !.value = x.node], x.names)

ResolveBlock(visit, s, names) ==
    LET xs == ResolveList(visit, s.statements, names)
    IN  Resolved([s EXCEPT !.statements = xs.node], xs.names)

ResolveIf(visit, s, names) ==
    LET cond == ResolveExpr(s.condition, names)
        then == visit[s.thenBranch][cond.names]
        else == ResolveList(visit, s.elseBranch, then.names)
    IN  Resolved([s EXCEPT !.condition = cond.node, !.thenBranch = then.node,
                           !.elseBranch = else.node], else.names)

ResolveWhile(visit, s, names) ==
    LET cond == ResolveExpr(s.condition, names)
        body == visit[s.body][cond.names]
    IN  Resolved([s EXCEPT !.condition = cond.node, !.body = body.node], body.names)

ResolveDoWhile(visit, s, names) ==
    LET body == visit[s.body][names]
        cond == ResolveExpr(s.condition, body.names)
    IN  Resolved([s EXCEPT !.condition = cond.node, !.body = body.node], cond.names)

ResolveFor(visit, s, names) ==
    LET init   == visit[s.init][names]
        cond   == ResolveExpr(s.condition, init.names)
        update == visit[s.update][cond.names]
        body   == visit[s.body][update.names]
    IN  Resolved([s EXCEPT !.init = init.node, !.condition = cond.node,
                           !.update = update.node, !.body = body.node], body.names)

ResolveCase(visit, case, names) ==
    LET xs == ResolveList(visit, case.body, names)
    IN  Resolved([case EXCEPT !.body = xs.node], xs.names)

ResolveSwitch(visit, s, names) ==
    LET subject == ResolveExpr(s.subject, names)
        cases   == ResolveList([case \in Range(s.cases) |-> [ns \in Seq(STRING) |->
                                   ResolveCase(visit, case, ns)]],
                               s.cases, subject.names)
    IN  Resolved([s EXCEPT !.subject = subject.node, !.cases = cases.node], cases.names)

ResolveStmtNode(visit, s, names) ==
    CASE s.kind = "IF"       -> ResolveIf(visit, s, names)
      [] s.kind = "FOR"      -> ResolveFor(visit, s, names)
      [] s.kind = "WHILE"    -> ResolveWhile(visit, s, names)
      [] s.kind = "DO_WHILE" -> ResolveDoWhile(visit, s, names)
      [] s.kind = "SWITCH"   -> ResolveSwitch(visit, s, names)
      [] s.kind = "BLOCK"    -> ResolveBlock(visit, s, names)
      [] s.kind = "VAR_DECL" -> ResolveVarDecl(s, names)
      [] s.kind = "ASSIGN"   -> ResolveAssign(s, names)
      [] s.kind = "PRINT"    -> ResolvePrint(s, names)
      [] OTHER               -> Resolved(s, names)

ResolveStmtUpTo[h \in Heights] ==
    [s \in StmtUpTo[h] |-> [names \in Seq(STRING) |->
        ResolveStmtNode(ResolveStmtUpTo[h - 1], s, names)]]

-----------------------------------------------------------------------------
(* load and store.                                                         *)

EntriesOf(w, n) == {entry \in w.byName : entry.name = n}

LoadVariable(w, e) ==
    IF w.storage = "Slots"
    THEN IF e.slot + 1 \in DOMAIN w.definedSlot /\ w.definedSlot[e.slot + 1]
         THEN Yield(w, w.bySlot[e.slot + 1])
         ELSE Throw(w, "undefined", e.loc)
    ELSE IF EntriesOf(w, e.name) = {} THEN Throw(w, "undefined", e.loc)
         ELSE Yield(w, (CHOOSE entry \in EntriesOf(w, e.name) : TRUE).value)

\* Indexing bySlot with a slot that was never resolved is undefined.
StoreVariable(w, s) ==
    IF w.storage = "Slots"
    THEN IF s.slot + 1 \notin DOMAIN w.bySlot THEN Throw(w, "unresolved", s.loc)
         ELSE [w EXCEPT !.bySlot[s.slot + 1] = w.value, !.definedSlot[s.slot + 1] = TRUE]
    ELSE [w EXCEPT !.byName = (@ \ EntriesOf(w, s.name))
                                 \cup {[name |-> s.name, value |-> w.value]}]

-----------------------------------------------------------------------------
(* eval.                                                                   *)

ReadInt(w, l) ==
    IF w.input = << >> THEN Throw(w, "input", l)
    ELSE Happened(Yield([w EXCEPT !.input = Tail(@)], MakeInt(Head(w.input))),
                  IntRead)

Negated(w, l) ==
    IF ~IsInt(w.value) THEN Throw(w, "type", l)
    ELSE IF w.value.i = IntMin THEN Throw(w, "overflow", l)
    ELSE Yield(w, MakeInt(-w.value.i))

Computed(w, n, l) == IF Fit(n) THEN Yield(w, MakeInt(n)) ELSE Throw(w, "overflow", l)

\* IntMin % -1 is refused, which the virtual machine answers with 0; the
\* fault has a reason of its own here to tell this case apart.
Divided(w, op, a, c, l) ==
    IF c = 0 THEN Throw(w, "zero", l)
    ELSE IF QuotientOverflows(a, c)
         THEN Throw(w, IF op = "DIV" THEN "overflow" ELSE "remainder", l)
    ELSE Yield(w, MakeInt(IF op = "DIV" THEN TruncDiv(a, c) ELSE TruncMod(a, c)))

Combined(w, op, x, y, l) ==
    LET a == x.i
        c == y.i
    IN  IF op = "EQ" THEN Yield(w, MakeBool(RawEq(x, y)))
        ELSE IF op = "NEQ" THEN Yield(w, MakeBool(~RawEq(x, y)))
        ELSE IF ~IsInt(x) \/ ~IsInt(y) THEN Throw(w, "type", l)
        ELSE CASE op = "GT" -> Yield(w, MakeBool(a > c))
               [] op = "LT" -> Yield(w, MakeBool(a < c))
               [] op = "GE" -> Yield(w, MakeBool(a >= c))
               [] op = "LE" -> Yield(w, MakeBool(a <= c))
               [] op \in {"DIV", "MOD"} -> Divided(w, op, a, c, l)
               [] op = "ADD" -> Computed(w, a + c, l)
               [] op = "SUB" -> Computed(w, a - c, l)
               [] op = "MUL" -> Computed(w, a * c, l)

EvalBinary(visit, e, w) ==
    LET x == visit[e.left][w]
        y == visit[e.right][x]
    IN  IF Sound(y) THEN Combined(y, e.op, x.value, y.value, e.loc) ELSE y

EvalLogical(visit, e, w) ==
    LET x == visit[e.left][w]
        shortcut == Truth(x.value) = (e.op = "OR")
    IN  IF ~Sound(x) \/ shortcut THEN x ELSE visit[e.right][x]

EvalUnary(visit, e, w) ==
    LET x == visit[e.operand][w]
    IN  IF ~Sound(x) THEN x
        ELSE IF e.kind = "UNARY_NEG" THEN Negated(x, e.loc)
        ELSE Yield(x, MakeBool(~Truth(x.value)))

EvalKind(visit, e, w) ==
    CASE e.kind = "LITERAL_INT"  -> Yield(w, MakeInt(e.int))
      [] e.kind = "LITERAL_BOOL" -> Yield(w, MakeBool(e.bool))
      [] e.kind = "VARIABLE"     -> LoadVariable(w, e)
      [] e.kind = "READ"         -> ReadInt(w, e.loc)
      [] e.kind \in UnaryKinds   -> EvalUnary(visit, e, w)
      [] e.kind = "LOGICAL"      -> EvalLogical(visit, e, w)
      [] e.kind = "BINARY"       -> EvalBinary(visit, e, w)

EvalNode(visit, e, before) ==
    LET w == Visited(before) IN IF Sound(w) THEN EvalKind(visit, e, w) ELSE w

EvalUpTo[h \in Heights] ==
    [e \in ExprUpTo[h] |-> [w \in Walker |-> EvalNode(EvalUpTo[h - 1], e, w)]]

Eval(e, w) == EvalUpTo[MaxHeight][e][w]

-----------------------------------------------------------------------------
(* exec.                                                                   *)

\* Statements one after the other, until one does not end normally.
ExecAll(visit, ss, w) ==
    Visit([s \in Range(ss) |-> [v \in Walker |->
              IF Sound(v) /\ v.flow = "Normal" THEN visit[s][v] ELSE v]],
          ss, Flowing(w, "Normal"))

\* A plausible slip: sunod ends the loop as well.
LeavesOnAny(flow) == flow # "Normal"

LeavesLoop(flow) == flow = "Break"

\* The condition, the body and the update (none but in para), then the rest.
Turn(visit, s, update, rest, w) ==
    LET cond == Eval(s.condition, w)
        body == visit[s.body][cond]
    IN  IF ~Sound(cond) \/ ~Truth(cond.value) THEN Flowing(cond, "Normal")
        ELSE IF ~Sound(body) \/ LeavesLoop(body.flow) THEN Flowing(body, "Normal")
        ELSE rest[ExecAll(visit, update, body)]

\* Every turn visits a node, so that MaxNodes turns are all there can be.
WhileHolds(visit, s, update, w) ==
    LET turns[n \in 0 .. MaxNodes + 1] ==
            [v \in Walker |-> IF n = 0 THEN Throw(v, "fuel", 0)
                              ELSE Turn(visit, s, update, turns[n - 1], v)]
    IN  turns[MaxNodes + 1][w]

ExecDoWhile(visit, s, w) ==
    LET body == visit[s.body][w]
    IN  IF ~Sound(body) \/ LeavesLoop(body.flow) THEN Flowing(body, "Normal")
        ELSE WhileHolds(visit, s, << >>, body)

\* Only the first case that matches; tigil ends the pili, sunod passes on.
Matching(s, v) == {k \in DOMAIN s.cases : RawEq(v, MakeInt(s.cases[k].value))}

ExecSwitch(visit, s, w) ==
    LET subject == Eval(s.subject, w)
        matches == Matching(s, subject.value)
        body    == ExecAll(visit, s.cases[Min(matches)].body, subject)
    IN  IF ~Sound(subject) \/ matches = {} THEN Flowing(subject, "Normal")
        ELSE Flowing(body, IF body.flow = "Break" THEN "Normal" ELSE body.flow)

ExecIf(visit, s, w) ==
    LET cond == Eval(s.condition, w)
    IN  IF Sound(cond) /\ Truth(cond.value) THEN visit[s.thenBranch][cond]
        ELSE ExecAll(visit, s.elseBranch, cond)

ExecStore(s, e, w) ==
    LET v == Eval(e, w) IN IF Sound(v) THEN StoreVariable(v, s) ELSE v

ExecPrint(s, w) ==
    IF s.isString THEN Happened(w, TextWritten(s.stringLiteral))
    ELSE LET v == Eval(s.expr, w)
         IN  IF Sound(v) THEN Happened(v, ValueWritten(v.value)) ELSE v

ExecKind(visit, s, w) ==
    CASE s.kind = "VAR_DECL" -> ExecStore(s, s.initializer, w)
      [] s.kind = "ASSIGN"   -> ExecStore(s, s.value, w)
      [] s.kind = "PRINT"    -> ExecPrint(s, w)
      [] s.kind = "BLOCK"    -> ExecAll(visit, s.statements, w)
      [] s.kind = "IF"       -> ExecIf(visit, s, w)
      [] s.kind = "WHILE"    -> WhileHolds(visit, s, << >>, w)
      [] s.kind = "FOR"      -> WhileHolds(visit, s, <<s.update>>, visit[s.init][w])
      [] s.kind = "DO_WHILE" -> ExecDoWhile(visit, s, w)
      [] s.kind = "SWITCH"   -> ExecSwitch(visit, s, w)
      [] s.kind = "BREAK"    -> Flowing(w, "Break")
      [] s.kind = "CONTINUE" -> Flowing(w, "Continue")

ExecNode(visit, s, before) ==
    LET w == Visited(before)
    IN  IF Sound(w) THEN ExecKind(visit, s, Flowing(w, "Normal")) ELSE w

ExecUpTo[h \in Heights] ==
    [s \in StmtUpTo[h] |-> [w \in Walker |-> ExecNode(ExecUpTo[h - 1], s, w)]]

\* run: at the top level the flow of a statement is ignored.
Walk(program, storage, input) ==
    LET resolved == IF storage = "Slots"
                    THEN ResolveList(ResolveStmtUpTo[MaxHeight], program, << >>)
                    ELSE Resolved(program, << >>)
    IN  Visit(ExecUpTo[MaxHeight], resolved.node,
              NewWalker(storage, resolved.names, input))
=============================================================================
