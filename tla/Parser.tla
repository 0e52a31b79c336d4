------------------------------- MODULE Parser -------------------------------
(***************************************************************************)
(* Parser (parser.h, parser.cpp): recursive descent with one token of      *)
(* lookahead (two for a negative literal) and recovery after an error.     *)
(*                                                                         *)
(* The C++ call stack is a stack of goals: what the active functions still *)
(* have to do, innermost last.  A function replaces the goal to parse it   *)
(* by the goals of its body: tokens to consume, rules to call, a node to   *)
(* build from the values on the value stack.  The destructor of a          *)
(* DepthCheck is the goal to leave its counter, so that an exception,      *)
(* which removes the goals one by one, runs it too.                        *)
(*                                                                         *)
(* A place in the source is the index of a token, and whether it is the    *)
(* token itself or the column after it.                                    *)
(***************************************************************************)
EXTENDS Value, Token, Syntax, Tree, FiniteSets, SequencesExt

CONSTANTS
    Inputs,             \* the token sequences the lexer may return
    MAX_NESTING_DEPTH,
    MAX_EXPR_DEPTH,
    MAX_ELSE_CHAIN

ASSUME InputsAssumption ==
    Inputs \in Seq(Seq(Token)) /\ \A ts \in Range(Inputs) : TokenSequence(ts)

ASSUME LimitsAssumption ==
    /\ MAX_NESTING_DEPTH \in Nat \ {0}
    /\ MAX_EXPR_DEPTH \in Nat \ {0}
    /\ MAX_ELSE_CHAIN \in Nat \ {0}

VARIABLES
    source,        \* which of the inputs is parsed
    tokens,        \* its tokens
    phase,         \* top (the loop of parseProgram), parse, unwind, sync or done
    current,       \* the token that peek() looks at
    goals,         \* what the active functions still have to do
    values,        \* names, nodes and lists that wait for their node
    depth,         \* nestingDepth, elseChainDepth, exprDepth
    before,        \* locationBefore
    error,         \* the exception in flight
    diagnostics,
    program        \* stmts of parseProgram

parserVars == <<source, tokens, phase, current, goals, values, depth, before, error,
                diagnostics, program>>

Counter == {"nesting", "elseChain", "expr"}
Limit   == [nesting |-> MAX_NESTING_DEPTH, elseChain |-> MAX_ELSE_CHAIN,
            expr |-> MAX_EXPR_DEPTH]

-----------------------------------------------------------------------------
(* The token helpers.                                                      *)

Peek     == tokens[current].type
AtEnd    == Peek = "END_OF_FILE"
Check(t) == ~AtEnd /\ Peek = t
CheckNext(t) == ~AtEnd /\ current + 1 <= Len(tokens) /\ tokens[current + 1].type = t

\* The position after advance() at position p.
Advanced(p) == IF tokens[p].type = "END_OF_FILE" THEN p ELSE p + 1

At(what, p)    == [what |-> what, at |-> p, after |-> FALSE]
After(what, p) == [what |-> what, at |-> p, after |-> TRUE]

\* A missing ';' or '}' is reported behind the token before it.
\* Plausible slips: it is reported at that token; a missing ')' is treated so, too.
MissingAtPrevious(t) ==
    At(t, IF t \in {"SEMICOLON", "RIGHT_BRACE"} THEN current - 1 ELSE current)
MissingBehind(t) ==
    IF t \in {"SEMICOLON", "RIGHT_BRACE", "RIGHT_PAREN"} THEN After(t, current - 1)
    ELSE At(t, current)
Missing(t) ==
    IF t \in {"SEMICOLON", "RIGHT_BRACE"}
    THEN After(t, IF current > 1 THEN current - 1 ELSE current)
    ELSE At(t, current)

NoError == At("none", 1)

-----------------------------------------------------------------------------
(* Goals.                                                                  *)

Take(t)        == [do |-> "take", arg |-> t, loc |-> 0]
Parse(rule, l) == [do |-> "parse", arg |-> rule, loc |-> l]
Repeat(level)  == [do |-> "repeat", arg |-> level, loc |-> 0]
Build(node, l) == [do |-> "build", arg |-> node, loc |-> l]
Leave(c)       == [do |-> "leave", arg |-> c, loc |-> 0]

Expression == Parse("expression", 0)
Block      == Parse("requireBlock", 0)
List       == Build("LIST", 0)
Item       == Build("ITEM", 0)

Goal == Last(goals)
Rest == Front(goals)
Pushed(gs) == Rest \o Reverse(gs)

Parsing(rule) == phase = "parse" /\ goals # << >> /\ Goal.do = "parse" /\ Goal.arg = rule

\* The function goes on: n tokens are consumed and gs is what it has to do.
Expand(n, gs) ==
    /\ current' = current + n
    /\ goals' = Pushed(gs)
    /\ UNCHANGED <<source, tokens, phase, values, depth, before, error, diagnostics,
                   program>>

\* The function has consumed n tokens and returns v.
Return(n, v) ==
    /\ current' = current + n
    /\ goals' = Rest
    /\ values' = Append(values, v)
    /\ UNCHANGED <<source, tokens, phase, depth, before, error, diagnostics, program>>

\* throw CompileError, after n tokens were consumed; d are the counters.
Raise(n, place, d) ==
    /\ phase' = "unwind"
    /\ current' = current + n
    /\ error' = place
    /\ depth' = d
    /\ UNCHANGED <<source, tokens, goals, values, before, diagnostics, program>>
Throw(n, place) == Raise(n, place, depth)

\* DepthCheck: the destructor does not run for a constructor that throws,
\* so the constructor itself takes the increment back.
Entered(d, c)    == [d EXCEPT ![c] = @ + 1]
Left(d, c)       == [d EXCEPT ![c] = @ - 1]
\* A plausible slip: the constructor throws with the counter incremented.
CounterKept(c)   == Entered(depth, c)
AfterRefusal(c)  == Left(Entered(depth, c), c)

\* A plausible slip: the limit itself is refused.
AllowsBelow(c) == Entered(depth, c)[c] < Limit[c]
Allows(c)      == Entered(depth, c)[c] <= Limit[c]

Guarded(c, n, l, gs) ==
    IF Allows(c)
    THEN /\ current' = current + n
         /\ goals' = Pushed(gs \o <<Leave(c)>>)
         /\ depth' = Entered(depth, c)
         /\ UNCHANGED <<source, tokens, phase, values, before, error, diagnostics,
                        program>>
    ELSE Raise(n, At(c, l), AfterRefusal(c))

-----------------------------------------------------------------------------
(* The bodies of the statement functions, behind the first keyword.        *)

VarDecl(l) == <<Take("IDENTIFIER"), Take("EQUAL"), Expression, Take("SEMICOLON"),
                Build("VAR_DECL", l)>>
AssignNoSemi(l) == <<Take("IDENTIFIER"), Take("EQUAL"), Expression, Build("ASSIGN", l)>>
Assign(l)  == AssignNoSemi(l) \o <<Take("SEMICOLON")>>
InParens(g) == <<Take("LEFT_PAREN"), g, Take("RIGHT_PAREN")>>
If(l)      == InParens(Expression) \o <<Block, List, Parse("else", 0), Build("IF", l)>>
While(l)   == InParens(Expression) \o <<Block, Build("WHILE", l)>>
DoWhile(l) == <<Block, Take("HABANG")>> \o InParens(Expression)
              \o <<Take("SEMICOLON"), Build("DO_WHILE", l)>>
For(l)     == <<Take("LEFT_PAREN"), Parse("init", 0), Expression, Take("SEMICOLON"),
                Parse("update", 0), Take("RIGHT_PAREN"), Block, Build("FOR", l)>>
Switch(l)  == InParens(Expression) \o <<Parse("switchBody", l)>>
Jump(node, l) == <<Take("SEMICOLON"), Build(node, l)>>
Printing(l) == InParens(Parse("printed", l)) \o <<Take("SEMICOLON")>>
Reading(l) == InParens(Take("IDENTIFIER")) \o <<Take("SEMICOLON"), Build("READ_INTO", l)>>

Cases      == <<Take("LEFT_BRACE"), List, Parse("cases", 0), Take("RIGHT_BRACE")>>
Statements == <<Take("LEFT_BRACE"), List, Parse("statements", 0), Take("RIGHT_BRACE"),
                Build("BLOCK", current)>>

Sentence(t, l) ==
    CASE t = "ITAKDA" -> VarDecl(l)
      [] t = "KUNG"   -> If(l)
      [] t = "HABANG" -> While(l)
      [] t = "GAWIN"  -> DoWhile(l)
      [] t = "PARA"   -> For(l)
      [] t = "PILI"   -> Switch(l)
      [] t = "TIGIL"  -> Jump("BREAK", l)
      [] t = "SUNOD"  -> Jump("CONTINUE", l)
      [] t \in {"BASAHIN", "KUNIN"}   -> Reading(l)
      [] t \in {"ISULAT", "IPAKITA"} -> Printing(l)

\* startsStatement: the keywords that Sentence tells apart.
StatementStarts == {"ITAKDA", "KUNG", "HABANG", "PARA", "PILI", "ISULAT", "IPAKITA",
                    "TIGIL", "SUNOD", "GAWIN", "BASAHIN", "KUNIN"}

EnterBlock == Guarded("nesting", 0, current, Statements)

-----------------------------------------------------------------------------
(* The statement functions.                                                *)

\* A plausible slip: a stray '}' is taken for an empty block, unconsumed.
StatementOrBrace ==
    /\ Parsing("statement")
    /\ \/ /\ Peek \in StatementStarts
          /\ Expand(1, Sentence(Peek, current))
       \/ Check("RIGHT_BRACE") /\ Return(0, BlockStmt(<< >>, current))

Statement ==
    /\ Parsing("statement")
    /\ \/ /\ Peek \in StatementStarts
          /\ Expand(1, Sentence(Peek, current))
       \/ Check("LEFT_BRACE") /\ EnterBlock
       \/ Check("IDENTIFIER") /\ Expand(0, Assign(current))
       \/ /\ Peek \notin StatementStarts \cup {"LEFT_BRACE", "IDENTIFIER"}
          /\ Throw(0, At("statement", current))

RequireBlock ==
    /\ Parsing("requireBlock")
    /\ \/ Check("LEFT_BRACE") /\ EnterBlock
       \/ ~Check("LEFT_BRACE") /\ Throw(0, At("LEFT_BRACE", current))

\* The loop over the statements of a block or, up to the next kaso, a case.
StatementList ==
    /\ Parsing("statements") \/ Parsing("caseBody")
    /\ LET ends == {"RIGHT_BRACE", "END_OF_FILE"}
                   \cup IF Goal.arg = "caseBody" THEN {"KASO"} ELSE {}
       IN  \/ Peek \in ends /\ Expand(0, << >>)
           \/ Peek \notin ends /\ Expand(0, <<Parse("statement", 0), Item, Goal>>)

\* An else branch is an element of a list of at most one.
ElseBranch ==
    /\ Parsing("else")
    /\ \/ ~Check("KUNG_HINDI") /\ Expand(0, << >>)
       \/ /\ Check("KUNG_HINDI")
          /\ \/ CheckNext("KUNG")
                /\ Guarded("elseChain", 2, current + 1, If(current + 1) \o <<Item>>)
             \/ ~CheckNext("KUNG") /\ Expand(1, <<Block, Item>>)

ForInit ==
    /\ Parsing("init")
    /\ \/ Check("ITAKDA") /\ Expand(1, VarDecl(current))
       \/ ~Check("ITAKDA") /\ Expand(0, Assign(current))

ForUpdate ==
    /\ Parsing("update")
    /\ Expand(0, AssignNoSemi(current))

SwitchBody ==
    /\ Parsing("switchBody")
    /\ Guarded("nesting", 0, Goal.loc, Cases \o <<Build("SWITCH", Goal.loc)>>)

SwitchCases ==
    /\ Parsing("cases")
    /\ \/ ~Check("KASO") /\ Expand(0, << >>)
       \/ /\ Check("KASO")
          /\ Expand(1, <<Parse("label", 0), Take("COLON"), List, Parse("caseBody", 0),
                         Build("CASE", 0), Item, Goal>>)

Printed ==
    /\ Parsing("printed")
    /\ \/ /\ Check("STRING")
          /\ Return(1, PrintString(tokens[current].content, Goal.loc))
       \/ ~Check("STRING") /\ Expand(0, <<Expression, Build("PRINT", Goal.loc)>>)

-----------------------------------------------------------------------------
(* Literals.                                                               *)

\* A plausible slip: the digits are read first and the sign applied after.
FitsUnsigned(i, negative) == i \in CInt
FitsSigned(i, negative) == (IF negative THEN -i ELSE i) \in CInt

\* parseIntLiteral on the number that n tokens end with; l is the node's place.
IntLiteral(n, negative, l) ==
    LET number == tokens[current + n - 1].int
    IN  IF FitsSigned(number, negative)
        THEN Return(n, LiteralInt(IF negative THEN -number ELSE number, l))
        ELSE Throw(n, At("number", current + n - 1))

\* A plausible slip: the sign is consumed and forgotten.
SwitchLabelUnsigned ==
    /\ Parsing("label")
    /\ LET n == IF Check("MINUS") THEN 1 ELSE 0
       IN  IF tokens[current + n].type = "NUMBER"
           THEN IntLiteral(n + 1, FALSE, current + n)
           ELSE Throw(n, At("NUMBER", current + n))

SwitchLabel ==
    /\ Parsing("label")
    /\ LET n == IF Check("MINUS") THEN 1 ELSE 0
       IN  IF tokens[current + n].type = "NUMBER"
           THEN IntLiteral(n + 1, n = 1, current + n)
           ELSE Throw(n, At("NUMBER", current + n))

-----------------------------------------------------------------------------
(* The expression functions.  A level parses its operand and repeats as    *)
(* long as one of its operators follows; the node stands at the operator.  *)

RelationalOps == {"GREATER", "LESS", "GREATER_EQUAL", "LESS_EQUAL", "EQUAL_EQUAL",
                  "NOT_EQUAL"}

Operators ==
    [logicalOr |-> {"O"}, logicalAnd |-> {"AT"}, relational |-> RelationalOps,
     term |-> {"PLUS", "MINUS"}, factor |-> {"STAR", "SLASH", "PERCENT"}]

Operand ==
    [logicalOr |-> "logicalAnd", logicalAnd |-> "logicalNot", relational |-> "term",
     term |-> "factor", factor |-> "unary"]

Level == DOMAIN Operand

ExpressionRule ==
    /\ Parsing("expression")
    /\ Guarded("expr", 0, current, <<Parse("logicalOr", 0)>>)

BinaryLevel ==
    \E level \in Level :
        /\ Parsing(level)
        /\ Expand(0, <<Parse(Operand[level], 0), Repeat(level)>>)

\* A plausible slip: the right operand takes the rest of the chain.
NextOperandRight(level) ==
    <<Parse(Operand[level], 0), Repeat(level), Build(Peek, current)>>
\* A plausible slip: the node stands at the token behind its operator.
NextOperandBehind(level) ==
    <<Parse(Operand[level], 0), Build(Peek, current + 1), Repeat(level)>>
NextOperand(level) ==
    <<Parse(Operand[level], 0), Build(Peek, current), Repeat(level)>>

RepeatLevel ==
    /\ phase = "parse" /\ goals # << >> /\ Goal.do = "repeat"
    /\ \/ Peek \in Operators[Goal.arg] /\ Expand(1, NextOperand(Goal.arg))
       \/ Peek \notin Operators[Goal.arg] /\ Expand(0, << >>)

\* A plausible slip: hindi is left unguarded.
LogicalNotFree ==
    /\ Parsing("logicalNot")
    /\ \/ /\ Check("HINDI")
          /\ Expand(1, <<Parse("logicalNot", 0), Build("HINDI", current)>>)
       \/ ~Check("HINDI") /\ Expand(0, <<Parse("relational", 0)>>)

LogicalNot ==
    /\ Parsing("logicalNot")
    /\ \/ /\ Check("HINDI")
          /\ Guarded("expr", 1, current, <<Parse("logicalNot", 0),
                                           Build("HINDI", current)>>)
       \/ ~Check("HINDI") /\ Expand(0, <<Parse("relational", 0)>>)

Unary ==
    /\ Parsing("unary")
    /\ \/ /\ Check("MINUS") /\ CheckNext("NUMBER")
          /\ IntLiteral(2, TRUE, current)
       \/ /\ Check("MINUS") /\ ~CheckNext("NUMBER")
          /\ Guarded("expr", 1, current, <<Parse("unary", 0), Build("NEGATE", current)>>)
       \/ ~Check("MINUS") /\ Expand(0, <<Parse("primary", 0)>>)

Primary ==
    /\ Parsing("primary")
    /\ \/ Check("NUMBER") /\ IntLiteral(1, FALSE, current)
       \/ Check("TOTOO") /\ Return(1, LiteralBool(TRUE, current))
       \/ Check("MALI") /\ Return(1, LiteralBool(FALSE, current))
       \/ /\ Peek \in {"BASAHIN", "KUNIN"}
          /\ Expand(1, <<Take("LEFT_PAREN"), Take("RIGHT_PAREN"), Build("READ", current)>>)
       \/ Check("IDENTIFIER") /\ Return(1, Variable(tokens[current].name, current))
       \/ Check("LEFT_PAREN") /\ Expand(1, <<Expression, Take("RIGHT_PAREN")>>)
       \/ /\ Peek \notin {"NUMBER", "TOTOO", "MALI", "BASAHIN", "KUNIN", "IDENTIFIER",
                          "LEFT_PAREN"}
          /\ Throw(0, At("expression", current))

-----------------------------------------------------------------------------
(* Goals that are not rules.                                               *)

\* consume(); of a name its place is kept, of a symbol nothing.
Consume ==
    /\ phase = "parse" /\ goals # << >> /\ Goal.do = "take"
    /\ \/ Check(Goal.arg) /\ Goal.arg = "IDENTIFIER" /\ Return(1, current)
       \/ Check(Goal.arg) /\ Goal.arg # "IDENTIFIER" /\ Expand(1, << >>)
       \/ ~Check(Goal.arg) /\ Throw(0, Missing(Goal.arg))

BinOp == [PLUS |-> "ADD", MINUS |-> "SUB", STAR |-> "MUL", PERCENT |-> "MOD",
          SLASH |-> "DIV", GREATER |-> "GT", GREATER_EQUAL |-> "GE", LESS |-> "LT",
          LESS_EQUAL |-> "LE", EQUAL_EQUAL |-> "EQ", NOT_EQUAL |-> "NEQ"]
LogOp == [O |-> "OR", AT |-> "AND"]

\* How many values a node takes.
Arity(node) ==
    CASE node \in {"LIST", "READ", "BREAK", "CONTINUE"} -> 0
      [] node \in {"HINDI", "NEGATE", "PRINT", "BLOCK", "READ_INTO"} -> 1
      [] node \in DOMAIN BinOp \cup DOMAIN LogOp
                  \cup {"ITEM", "VAR_DECL", "ASSIGN", "WHILE", "DO_WHILE", "CASE",
                        "SWITCH"} -> 2
      [] node = "IF" -> 3
      [] node = "FOR" -> 4

NameAt(p) == tokens[p].name

\* The node made of the values a, oldest first.
Node(node, l, a) ==
    CASE node = "LIST"      -> << >>
      [] node = "ITEM"      -> Append(a[1], a[2])
      [] node = "READ"      -> ReadExpr(l)
      [] node = "HINDI"     -> UnaryNot(a[1], l)
      [] node = "NEGATE"    -> UnaryNeg(a[1], l)
      [] node \in DOMAIN BinOp -> BinaryExpr(BinOp[node], a[1], a[2], l)
      [] node \in DOMAIN LogOp -> LogicalExpr(LogOp[node], a[1], a[2], l)
      [] node = "BREAK"     -> BreakStmt(l)
      [] node = "CONTINUE"  -> ContinueStmt(l)
      [] node = "PRINT"     -> PrintExpr(a[1], l)
      [] node = "BLOCK"     -> BlockStmt(a[1], l)
      [] node = "READ_INTO" -> AssignStmt(NameAt(a[1]), ReadExpr(l), a[1])
      [] node = "VAR_DECL"  -> VarDeclStmt(NameAt(a[1]), a[2], l)
      [] node = "ASSIGN"    -> AssignStmt(NameAt(a[1]), a[2], l)
      [] node = "WHILE"     -> WhileStmt(a[1], a[2], l)
      [] node = "DO_WHILE"  -> DoWhileStmt(a[1], a[2], l)
      [] node = "CASE"      -> SwitchCase(a[1].int, a[2], a[1].loc)
      [] node = "SWITCH"    -> SwitchStmt(a[1], a[2], l)
      [] node = "IF"        -> IfStmt(a[1], a[2], a[3], l)
      [] node = "FOR"       -> ForStmt(a[1], a[2], a[3], a[4], l)

Make ==
    /\ phase = "parse" /\ goals # << >> /\ Goal.do = "build"
    /\ LET kept == Len(values) - Arity(Goal.arg)
       IN  values' = Append(SubSeq(values, 1, kept),
                            Node(Goal.arg, Goal.loc, SubSeq(values, kept + 1, Len(values))))
    /\ goals' = Rest
    /\ UNCHANGED <<source, tokens, phase, current, depth, before, error, diagnostics,
                   program>>

\* ~DepthCheck(), when a function returns and when an exception passes.
Release ==
    /\ phase \in {"parse", "unwind"} /\ goals # << >> /\ Goal.do = "leave"
    /\ depth' = Left(depth, Goal.arg)
    /\ goals' = Rest
    /\ UNCHANGED <<source, tokens, phase, current, values, before, error, diagnostics,
                   program>>

-----------------------------------------------------------------------------
(* parseProgram and the recovery from an error.                            *)

BeginStatement ==
    /\ phase = "top" /\ ~AtEnd
    /\ phase' = "parse"
    /\ before' = current
    /\ goals' = <<Parse("statement", 0)>>
    /\ UNCHANGED <<source, tokens, current, values, depth, error, diagnostics, program>>

EndStatement ==
    /\ phase = "parse" /\ goals = << >>
    /\ phase' = "top"
    /\ program' = Append(program, Last(values))
    /\ values' = << >>
    /\ UNCHANGED <<source, tokens, current, goals, depth, before, error, diagnostics>>

\* The exception leaves a function that holds no DepthCheck.
Unwind ==
    /\ phase = "unwind" /\ goals # << >> /\ Goal.do # "leave"
    /\ goals' = Rest
    /\ UNCHANGED <<source, tokens, phase, current, values, depth, before, error,
                   diagnostics, program>>

\* synchronize() skips the token it starts at unless it begins a statement.
\* A plausible slip: it never does.
SyncStartHere == current
SyncStart == IF Peek \in StatementStarts THEN current ELSE Advanced(current)

Catch ==
    /\ phase = "unwind" /\ goals = << >>
    /\ phase' = "sync"
    /\ diagnostics' = Append(diagnostics, error)
    /\ current' = SyncStart
    /\ values' = << >>
    /\ error' = NoError
    /\ UNCHANGED <<source, tokens, goals, depth, before, program>>

\* A plausible slip: the end is not one of the places to stop at, and
\* advance() does not move there.
StopsAtCode(p) == tokens[p - 1].type = "SEMICOLON" \/ tokens[p].type \in StatementStarts
StopsAt(p) ==
    \/ tokens[p].type = "END_OF_FILE"
    \/ tokens[p - 1].type = "SEMICOLON"
    \/ tokens[p].type \in StatementStarts

Synchronize ==
    /\ phase = "sync" /\ ~StopsAt(current)
    /\ current' = Advanced(current)
    /\ UNCHANGED <<source, tokens, phase, goals, values, depth, before, error,
                   diagnostics, program>>

ResumeAt == IF current = before THEN Advanced(before) ELSE current

Resume ==
    /\ phase = "sync" /\ StopsAt(current)
    /\ phase' = "top"
    /\ current' = ResumeAt
    /\ UNCHANGED <<source, tokens, goals, values, depth, before, error, diagnostics,
                   program>>

Finish ==
    /\ phase = "top" /\ AtEnd
    /\ phase' = "done"
    /\ UNCHANGED <<source, tokens, current, goals, values, depth, before, error,
                   diagnostics, program>>

-----------------------------------------------------------------------------
ParserInit ==
    /\ source \in DOMAIN Inputs /\ tokens = Inputs[source]
    /\ phase = "top" /\ current = 1 /\ before = 1
    /\ goals = << >> /\ values = << >>
    /\ depth = [c \in Counter |-> 0]
    /\ error = NoError /\ diagnostics = << >> /\ program = << >>

StatementRules ==
    \/ Statement \/ RequireBlock \/ StatementList \/ ElseBranch \/ ForInit
    \/ ForUpdate \/ SwitchBody \/ SwitchCases \/ SwitchLabel \/ Printed

ExpressionRules ==
    ExpressionRule \/ BinaryLevel \/ RepeatLevel \/ LogicalNot \/ Unary \/ Primary

ParserNext ==
    \/ BeginStatement \/ EndStatement \/ Finish
    \/ StatementRules \/ ExpressionRules
    \/ Consume \/ Make \/ Release
    \/ Unwind \/ Catch \/ Synchronize \/ Resume

ParserSpec ==
    ParserInit /\ [][ParserNext]_parserVars /\ WF_parserVars(ParserNext)

-----------------------------------------------------------------------------
(* Properties.                                                             *)

Rule == {"statement", "requireBlock", "statements", "caseBody", "else", "init", "update",
         "switchBody", "cases", "printed", "label", "expression", "logicalNot", "unary",
         "primary"} \cup Level

NodeName == DOMAIN BinOp \cup DOMAIN LogOp
            \cup {"LIST", "ITEM", "READ", "HINDI", "NEGATE", "PRINT", "BLOCK", "BREAK",
                  "CONTINUE", "READ_INTO", "VAR_DECL", "ASSIGN", "WHILE", "DO_WHILE",
                  "CASE", "SWITCH", "IF", "FOR"}

PlainGoal == [do : {"take"}, arg : TokenType, loc : Nat]
             \cup [do : {"build"}, arg : NodeName, loc : Nat]
             \cup [do : {"parse"}, arg : Rule, loc : Nat]
             \cup [do : {"repeat"}, arg : Level, loc : Nat]
Guard     == {Leave(c) : c \in Counter}
Complaint == TokenType \cup Counter \cup {"statement", "expression", "number", "none"}
Place     == [what : Complaint, at : Nat, after : BOOLEAN]

\* Types; peek() and the tokens of an error are inside the token sequence, and
\* so is the token before its own that synchronize() looks at.
ParserTypeOK ==
    /\ source \in DOMAIN Inputs /\ tokens = Inputs[source]
    /\ phase \in {"top", "parse", "unwind", "sync", "done"}
    /\ current \in DOMAIN tokens /\ before \in DOMAIN tokens
    /\ goals \in Seq(PlainGoal \cup Guard)
    /\ depth \in [Counter -> Nat]
    /\ error \in Place /\ diagnostics \in Seq(Place)
    /\ phase = "sync" => current > 1

Guards(c) == {k \in DOMAIN goals : goals[k] = Leave(c)}

\* Each counter is the number of the DepthChecks alive and never past its
\* limit: after any failure, refusal included, the next statement finds it 0.
GuardsBalanced ==
    \A c \in Counter : depth[c] = Cardinality(Guards(c)) /\ depth[c] <= Limit[c]

\* The recursion of the parser is bounded by the limits (parser.h:13): a level
\* of depth takes a constant number of active functions, however long the
\* chains and lists that loops read.
GoalsPerLevel == 19
RecursionBounded ==
    Len(goals) <= GoalsPerLevel * (1 + depth["nesting"] + depth["elseChain"] + depth["expr"])

\* Whatever a turn of parseProgram's loop ends with, it has consumed a token,
\* and synchronize() has seen to that: the fallback behind it (parser.cpp:40) is
\* never needed, and no token is skipped by it.
EveryTurnConsumes ==
    [][phase # "top" /\ phase' = "top" => current > before /\ current' = current]_parserVars

\* parseProgram returns for every token sequence (parser.cpp:32).
Terminates == <>(phase = "done")

Behind(d, e) == d.at > e.at \/ (d.at = e.at /\ d.after /\ ~e.after)

\* Diagnostics are in the order of the text and none is reported twice.
ReportsInOrder ==
    \A k \in 2 .. Len(diagnostics) : Behind(diagnostics[k], diagnostics[k - 1])

\* consume() computes the column behind a token from the length of its lexeme
\* (parser.cpp:87), which is wrong behind a string that spans lines.
AnchorOnOneLine ==
    \A k \in DOMAIN diagnostics :
        diagnostics[k].after => tokens[diagnostics[k].at].type # "STRING"

TokenOf(op) == CHOOSE t \in DOMAIN BinOp : BinOp[t] = op

StandsAt(n) ==
    CASE n.kind = "BINARY"  -> {TokenOf(n.op)}
      [] n.kind = "LOGICAL" -> IF n.op = "OR" THEN {"O"} ELSE {"AT"}
      [] n.kind = "UNARY_NOT" -> {"HINDI"}
      [] n.kind = "UNARY_NEG" -> {"MINUS"}
      [] n.kind = "LITERAL_INT"  -> {"NUMBER", "MINUS"}
      [] n.kind = "LITERAL_BOOL" -> {"TOTOO", "MALI"}
      [] n.kind \in {"VARIABLE", "ASSIGN"} -> {"IDENTIFIER"}
      [] n.kind = "READ"     -> {"BASAHIN", "KUNIN"}
      [] n.kind = "PRINT"    -> {"ISULAT", "IPAKITA"}
      [] n.kind = "VAR_DECL" -> {"ITAKDA"}
      [] n.kind = "BLOCK"    -> {"LEFT_BRACE"}
      [] n.kind = "IF"       -> {"KUNG"}
      [] n.kind = "WHILE"    -> {"HABANG"}
      [] n.kind = "DO_WHILE" -> {"GAWIN"}
      [] n.kind = "FOR"      -> {"PARA"}
      [] n.kind = "SWITCH"   -> {"PILI"}
      [] n.kind = "CASE"     -> {"NUMBER"}
      [] n.kind = "BREAK"    -> {"TIGIL"}
      [] n.kind = "CONTINUE" -> {"SUNOD"}

\* A node has the line and column of the token that makes it what it is,
\* where a fault of the running program will be reported.
PlacesTrue ==
    phase = "done" /\ diagnostics = << >>
        => \A n \in Nodes(Range(program), Len(tokens)) : tokens[n.loc].type \in StandsAt(n)
=============================================================================
