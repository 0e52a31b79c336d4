# A TLA+ model of filc

filc compiles and runs a small imperative language with Filipino keywords
(`kung`, `habang`, `para`, `gawin`, `pili`, `tigil`, `sunod`, `isulat`,
`basahin`). A source file goes through a lexer, a recursive-descent parser and
a semantic analyzer, and is then executed by one of three backends: a bytecode
compiler with a stack machine, or a tree walker that keeps variables in slots
or in a map. Everything runs on one thread. What is hard about the program is
not interleaving but agreement: a parser that recovers from any error must count
its nesting right and never stand still, the verifier must predict what the
machine does, the analyzer must guard what the compiler assumes, jumps that are
patched later must meet the right stack, and three backends must do the same.

Paths below are relative to the repository's `src/`.

## Inventory

| Component | State it keeps | Operations | Modelled in |
|---|---|---|---|
| Lexer (`lexer.h/.cpp`) | offset, line, start of the line, place of the token | `scanTokens` | `Lexer` |
| Parser (`parser.h/.cpp`) | position, three nesting counters, diagnostics; the C++ call stack | `parseProgram`, every rule, `synchronize` | `Parser`, `Tree`, `Grammar` |
| Diagnostic reporter (`diagnostic.h/.cpp`) | none | `report` | `Diagnostic` |
| Values (`value.h`, arithmetic in `vm.cpp`) | none | `truth`, `rawEq`, `fit`, division | `Value` |
| Bytecode (`opcode.h/.cpp`) | `Chunk`: code, int and string pools, global names | `emit`, `addIntConstant`, `addStringConstant`, `globalSlot`, `patchJump`, `verify` | `Bytecode`, `Compiler` |
| Stack verifier (`opcode.cpp`, `verifyStack`) | `depth` per instruction, worklist `work` | one pass over the reachable code | `VM` |
| Virtual machine (`vm.h/.cpp`) | operand stack, diagnostics, counters; per call `ip`, globals, `defined` | `setStepLimit`, `run` | `VM` |
| Compiler (`compiler.h/.cpp`) | chunk, scopes with waiting jumps | `compile` | `Compiler` |
| Semantic analyzer (`semantic.h/.cpp`) | declared and reported names, loop and break depth, diagnostics | `analyze` | `Semantic` |
| Tree walker (`treewalk.h/.cpp`) | slots or map, slot of each name, node count | `run` (`resolve`, `exec`, `eval`) | `TreeWalk` |
| Driver (`main.cpp`, `wika.h/.cpp`) | options, stage times | `main`, `frontEnd`, `caR` | `Driver`; the stages of `caR` behind the parser in `Pipeline` and `Backends` |
| Printers (`ast_printer`, `disasm`, `debug`) | none | formatting | no: they change no state and nothing reads what they write |

How they interact: the lexer hands a sequence of tokens to the parser, which
relies on its last one being `END_OF_FILE`, and on no other. The parser hands its
tree to the analyzer, which only reads it. The slot-based walker writes slot
numbers into it (`resolve`) and relies on them later without a check. The compiler
asserts what the analyzer is supposed to have checked (`compiler.cpp:74`, `:85`),
and in a build without asserts indexes `scopes` regardless. `VM::run` calls
`Chunk::verify` first and then indexes pools, globals and code by operands with no
check of its own. Every stage reports places, and the reporter finds them again in
the text. `main` decides which stages run, twice: `frontEnd` for what is printed,
`caR` for what is executed. Programs touch the outside only through an output and
an input stream.

What makes each component correct:

* **Lexer.** Its tokens are the longest lexemes of the text, all of them, in order,
  each with its line and column; it refuses a text exactly where no lexeme begins.
* **Parser.** It accepts exactly the grammar within the limits, and its tree is the
  one the text was written from. After an error it goes on with every counter back
  where it was, consumes a token in every turn, and reports nothing twice. Its
  recursion is bounded by the limits whatever the text.
* **Reporter.** The caret stands under the character that was meant.
* **Verifier.** It accepts a chunk exactly if some assignment of stack depths to
  instructions is consistent, in whatever order its worklist is served; it ends.
* **Virtual machine.** On an accepted chunk the operand stack has the predicted
  height at every instruction, so its defensive checks never fire, its indexing
  is in range and it halts with an empty stack; all integers stay in `int`; one
  diagnostic per failure; an exact step limit; nothing leaks into the next call.
* **Compiler.** Every program the analyzer accepts compiles to a chunk the
  verifier accepts, whatever jumps leave whatever scopes.
* **Analyzer.** It reports a misplaced `tigil` or `sunod` exactly when the
  compiler would have nowhere to send it.
* **Tree walker.** Both storages give the same run; `resolve` visits every node
  that `exec` and `eval` will index by.
* **All backends.** The same lines and reads in the same order, the same verdict,
  the same error at the same place.
* **Driver.** Exactly the stages asked for run, up to the first that refuses, which
  alone reports; the exit code tells what happened; the times are this run's.

The hazards of `PROJECT.json` list, line by line, where each of these could go
wrong. There is no concurrency, nothing is persisted, and no message can be lost;
so the hazards are long sequences of legal steps, state left behind by a failure,
numbers at their limits, and two computations of the same thing that must agree.

## Modules

### Front end

* **`Token`** – the token types of `common.h`. Of a lexeme the parser needs a name, a
  number or a string; a number is any natural, whatever `int` can hold.
* **`Lexer`** – `scanTokens` character by character. `scanning` names the function
  that is reading; `BeginToken` marks the place as `scanTokens` does, and each case
  of `scanToken` is an action or a disjunct of one. Characters are one of each class
  that the lexer tells apart. The properties compare with the text alone: `IsPlace`
  counts line breaks, `Types` gives the lexemes of the language.
* **`Diagnostic`** – the reporter on the text the lexer reads: line found again,
  carriage return dropped, tabs expanded, place of the caret.
* **`Parser`** – the C++ call stack is a stack of goals. A function replaces the goal
  to parse it by the goals of its body: tokens to consume, rules to call, a node to
  build from the value stack. The destructor of a `DepthCheck` is a goal to leave its
  counter (`Release`), so that an exception, which removes the goals one by one
  (`Unwind`), runs it too, and a constructor that throws does not. `Catch`,
  `Synchronize` and `Resume` are the rest of `parseProgram`'s loop. A place is the index
  of a token, and whether the token itself or the column behind it is meant.
* **`Tree`** – the parts of a node (`Parts`), the nodes up to a number of levels below
  some roots (`Nodes`), and the shape of a node that every later stage takes for granted
  (`Shaped`): `treewalk.cpp`, `compiler.cpp` and `semantic.cpp` cast by `kind` and follow
  each pointer without a test.
* **`Grammar`** – what the parser promises, stated without it: the text of a tree with
  no parenthesis but the necessary ones (`ProgramText`) and the guards a tree needs
  (`WithinLimits`). It is recursive over the tree and so checked by TLC only.
* **`Driver`** – `main`, `frontEnd` and `caR` for all combinations of options. What a
  stage does (pass, refuse, throw an exception of the library) is chosen at the start.
  Times are numbers that tell the stages apart.

### Execution

* **`Value`** – values, truth, equality, `fit` and the truncating division for an
  `int` of parameterised width (`IntMax`; `IntMin == -IntMax - 1`). TLA+'s `\div`
  and `%` round toward minus infinity, so the C++ operators are defined on
  absolute values. Intermediate results are `int64_t` in the code and exact here.
* **`Bytecode`** – instruction set, `Chunk`, the form check of `verify` and the
  tables of `verifyStack`: what an instruction pops, pushes, and what may follow
  it. `Consistent(c, D)` is the reference definition: `D` assigns depths that
  agree along every edge.
* **`VM`** – one VM object as a state machine. `RefuseMalformed` and
  `BeginVerifyStack` are the entry of `run`, one `VerifyStep` is one iteration of
  the worklist loop (taken last in, first out, as in the code), and there is one
  action per group of cases of the interpreter's `switch`. `Fail` is every early
  return; `Fault` gives the conditions in the code's order, and `StackOnFault`
  records that operands are popped before they are examined. `runs` counts calls.
* **`Syntax`** – the node classes of `ast.h` as records, made by their constructors.
* **`TreeSets`** – the same classes as sets, by the height of a tree: a node over
  expressions `E` or statements `S` has its parts in `E` or `S` (`ExprOver`,
  `StmtOver`), and a tree of `h` levels is a node over those of `h - 1`. `Stmt` has the
  trees of at most `MaxHeight` levels of expressions and of statements. Every tree has a
  height, so a result for every `MaxHeight` is one for every tree. `Visit` is the loop
  over a list of parts.
* **`Compiler`, `Semantic`, `TreeWalk`** – deterministic functions over the tree.
  Each operator takes the component's state (a record with the class's members)
  and returns the next. The recursion of the code is a function of the height: the
  function for one level calls the one for the level below (`CompileStmtUpTo`,
  `AnalyzeStmtUpTo`, `ResolveStmtUpTo`, `ExecUpTo`), and an operator for a class of nodes
  is given the function for its parts. `TreeWalk` loops as the program does, so the turns
  of a loop are a function of the turns that are left (`WhileHolds`); each visits a node,
  so `MaxNodes` bounds them. It turns exceptions into a `fault` field that every later
  call passes through, and `events` records what reaches the two streams.
* **`Language`** – the abstract specification: a program means a sequence of events
  and an ending; a run shows the events one by one in this order and then ends that
  way, unless a step limit cuts it off.
* **`Pipeline`** – `caR` behind the parser with the bytecode backend: analyze, refuse or
  go on, compile, then let the machine of `VM` verify and execute step by step. It
  extends `VM`; `Machine` is `VM`'s own actions with the driver's variables unchanged.
* **`Backends`** – `Pipeline` with the tree walks beside it, with both storages, computed
  in the step that starts the program. `L == INSTANCE Language WITH ...` maps the
  machine's output, consumed input and phase to the abstract state.

### Proofs and instances

* **`VMProofs`** – theorems about `VM`: verifier and stack, calls and their answers,
  arithmetic.
* **`CompilerProofs`** – what `Compile` emits, for every tree.
* **`PipelineProofs`** – theorems about `Pipeline`: compiler and machine first, then
  compiler and analyzer; then, about `Backends`, the two storages of the tree walker.
* **`LexerProofs`** – theorems about `Lexer`: places and gaps first, then lexemes, then
  the reporter on the lexer's tokens.
* **`ParserProofs`, `TreeProofs`** – theorems about `Parser`: its run, after lemmas about
  stacks of goals, and what it reports; then the trees it builds.
* **`Induction`** – induction over the natural numbers and definitions by it, for the
  loops of the reporter, the levels of a tree and the loops over lists.
* **`DriverProofs`** – theorems about `Driver`.
* **`MC*`** – the instances below.

From the analyzer on, a place in the source (line and column) is one number, `loc`;
it is kept because properties compare where errors are reported. Message texts, the
length of an underline, the execution trace and the prompt are left out: nothing reads
them back. The input stream is external: a sequence of integers that `in >> x`
delivers before it fails.

Definitions introduced by "A plausible slip" are wrong on purpose: they say how a
definition next to them could be wrong in the code, and putting one in its place
makes a property fail. No specification uses them.

## Runs

| Run | Question | Bounds and why they are enough |
|---|---|---|
| `lexer` | Are the tokens the text, each in its place, and does the caret stand under it? | 13,989 texts: all of up to 3 characters with one of each class; longer ones (up to 6) over the characters of names, of strings and comments with line breaks, and of tabs and carriage returns. The lexer looks two characters ahead, so three show every decision; a string that spans two lines with a token behind it takes six. |
| `parser` | Is the tree the text's, is the limit exact, and does recovery work? | 13,954 token sequences: texts of every operator on every other, of each statement in each other up to three levels; those texts with each token missing, cut off behind it, replaced or preceded by each of 12 others; every sequence of up to 3 of those 12, alone and behind `isulat(`; long chains of what nests. Limits 2 (blocks), 4 (expressions) and 1 (else-if), `IntMax` 3: the smallest that let each guard be entered, nested in another, and refused. |
| `syntaxTests` | Does the parser report what the repository's tests expect? | Six of the seven files `test/invalid/invalid_syntax_*.txt` as token sequences, of `numberExceedsLimit.txt` its lines 1 and 2; the limits of `parser.h`, `IntMax` 7. The seventh, `exceedsNestingLimit.txt`, and the rest of that file are the runs `nesting` and `minimum`. |
| `verifier` | Does execution follow the verifier, and is the verdict exact? | Every chunk of up to 4 instructions over pushes, a binary operator, `DUP`, stores in and out of range, jumps in both directions and out of range. Four instructions hold a diamond whose arms differ in depth and a loop. `VerdictExact` compares with *every* assignment of depths. |
| `arithmetic` | Do results stay in `int`, is division C++'s? | All operators on all pairs of 3-bit ints and booleans, both branches on every value read. Three bits have every boundary case: both extremes, 0, ±1, and divisors that do not divide. |
| `reuse` | What survives from one call to the next? | Three calls on one object, seven programs that end in every way (success, refusal by form, refusal by depth, type error with operands left, undefined global, exhausted input, endless loop), limits just below, at and above their length. Two calls would show a leak; the third shows a leak out of a call that leaked. |
| `backends` | Do analyzer, compiler, verifier, machine and tree walkers agree? | Some 800 programs on four inputs: each pair of simple statements in each loop and branch, each of those again in each loop, `pili` in `pili` in a loop, and all operators over operands that read, fail or are undefined. 60 instructions are enough for about nine in ten of the executed programs to end by themselves; the rest loop forever or nearly. `MaxNodes` only cuts off walks whose instructions exceed that limit anyway. `MaxHeight` 5 is the height of the highest of these trees. |
| `driver` | Which stages run, what is reported, and what does the exit code tell? | Every command line of up to 3 arguments, with every set of refusals that differs in its first member, and an exception in any stage or none. Three arguments hold two options and a file; options do not interact beyond pairs. |

What the properties say, where the name does not:

* `lexer`: `TokensAreTheText` is two statements, each by itself about the whole text:
  every token has the line, column and characters of some place of the text
  (`PlacesTrue`), and between one token and the next there is nothing but blanks and
  comments (`NothingSkipped`). `MaximalMunch` says that no token could have been
  longer, `RefusalExact` that no lexeme starts where the lexer refuses.
  `CaretUnderPlace` composes lexer and reporter.
* `parser`: `RoundTrip` (writing the tree gives the text back: precedence,
  associativity, extent), `LimitsExact` (refused exactly if a limit of `parser.h` or the
  range of `int` is exceeded), `NothingLost` (no accepted token is dropped or read
  twice), `PlacesTrue` (every node stands at the token that makes it what it is),
  `GuardsBalanced`, `RecursionBounded`, `EveryTurnConsumes`, `ReportsInOrder` and
  `AnchorOnOneLine` (the column behind a token is computed from its length only where
  that is right).
* `backends`: `CompiledVerifies` (an accepted program's chunk is never refused),
  `JumpErrorsExact` (analyzer and compiler's asserts agree both ways),
  `GlobalsDeclared` (both meet the same names), `StoragesAgree` (the two storages, node
  count included), `BackendsAgree` (verdict, place, input left and every global) and
  `ImplementsLanguage` (refinement: every line and read, in order, at every step and
  not only at the end).
* `driver`: `StagesExact` (both copies of the front end, and nothing printed or run of a
  refused program), `ExitTells`, `TimesOfThisRun`.

Four runs end in a violation; each states what the repository says of the program.

| Run | What the repository says | What the code does |
|---|---|---|
| `boundary` | `test/valid/boundary_int.txt` expects 3.5 for `7/2` (line 4), -9 for `-7/2` (line 5) and 2 for `-7%3` (line 7) | 3, -3 and -1, as `test/valid/arithmetic.txt:7`, `:8` and `:13` expect |
| `nesting` | `test/invalid/invalid_syntax_exceedsNestingLimit.txt:15` expects one error, of the sixth block | a second follows it: recovery goes on at the `isulat` inside, outside every block, and the first `}` is then no statement (`parser.cpp:180`) |
| `minimum` | `test/invalid/invalid_syntax_numberExceedsLimit.txt:5-6` expects `-2147483648` to be refused | it is read as the smallest `int` |
| `measures` | `src/main.cpp:154` names the execution without the wait for input; `src/wika.h:18-19`: instructions for the bytecode only, nodes for the tree walkers only | the first is computed before the program has run and is always 0; `--time-csv` prints both counts for the bytecode, none for the walkers |

One difference between the backends is known and stated in the model: `IntMin % -1`
is 0 in the machine (`vm.cpp:252`) and an overflow error in the tree walker
(`treewalk.cpp:136`). The repository nowhere promises one or the other, so
`Language` leaves open what happens from there on, and `BackendsAgree` excludes
exactly that fault: no property covers this hazard.

`boundary` runs the whole file, and the last state of its trace holds all six lines;
lines 2, 3 and 6 of the file are as it expects. In `measures` every row of an executed
program differs in both columns, so that its trace shows both. In `nesting` the first error is the one
expected. Another file, `missingTokens.txt`, does list the error that follows from one
(lines 19 and 20), and `syntaxTests` checks that.

The next-state relations may stop (a caller need not call again, a program ends),
so deadlock is not checked.

**Fairness.** Three specifications assume weak fairness, each for one reason: a call in
progress is ordinary single-threaded code that goes on. `LexerSpec` and `ParserSpec`
assume it of their whole next-state relation, which is one call; under it `LexerEnds` and
`Terminates` hold, the latter because every turn consumes a token. `Spec` of `VM` assumes
it of `Verify \/ Execute` and nothing else, as nobody has to make another call. Under it
`VerifyTerminates` holds for all jumps, and `LimitedRunTerminates` for every positive
limit; without a limit a program may run forever, and the model lets it. A read that
blocks forever is outside the model: the input either delivers or fails. `Pipeline` and
`Backends` state no fairness: their properties are all safety.

## Proofs

About `VM` everything is proved for every width of `int`, every set of chunks, limits and
inputs and every number of calls. Assumptions: `IntMax` is a positive natural, the
jobs are pairs of a chunk and an integer, the inputs are sequences of ints,
`MaxRuns` is a natural.

`TypeOK` is not inductive alone: that a jump leads to a natural number, or that a
pushed constant is a value, holds only because the chunk was verified. The inductive
invariant `IInv` of `VMProofs` therefore joins

* `TypeOK`;
* `VerifierInv` – while a call is active its chunk is well formed, everything in the
  worklist is marked, and every marked instruction *not* waiting agrees with its
  successors (`EdgesChecked`). When the worklist is empty this is consistency;
* `StackMatchesVerifier` – the stack is as high as the depth computed here. One edge
  of a consistent assignment carries it to the next instruction;
* `DepthsForced` – any consistent assignment has the depths marked so far. This is
  what makes a refusal justified, hence `RefusalJustified`;
* `CleanHalt`.

There is one lemma per action (`JumpIInv`, `VerifyStepIInv`, ...); instructions that
fall through share `StepIInv`. From `Invariance` follow `TypeCorrect`, `StackSafe`,
`ChecksNeverFire`, `OperandsSafe`, `HaltsClean` and `VerdictCorrect`.

The second part of `VMProofs` first sorts all actions into four kinds of step (`StepKinds`), as far as
the answer and the counters see them, and proves `AnswerCorrect` and `BudgetCorrect`.
The latter needs `BudgetInv`: before the end the limit is not exceeded, and before
execution nothing is counted.

Its third part proves that truncating division is division with a remainder of
the dividend's sign (`TruncLemma`) and that it stays in range but for `IntMin / -1`
(`QuotientFits`), and from these `DivisionCorrect` and `IntsAlwaysFit`, with the
invariant that stack, globals and output hold ints only (`FitInv`).

About `Parser` everything is proved for every sequence of inputs with the end marked
once, all positive limits and every width of `int`. The invariant `ParserInv` joins

* `ParserTypeOK` – every index into the tokens is in range;
* `Balanced` – each counter is the number of its guards on the stack, and the stack is
  `Bounded`: `Height` says how many goals a goal can leave in its place before the next
  guard, and a goal's position plus its height is at most 18 for each guard below it and
  18 more. A lemma for the body of each rule shows that it keeps to the rule's height,
  which is possible only because every cycle of rules passes a guard;
* `InLimits` – no counter exceeds its limit;
* `TurnInv` – until a turn has consumed a token, the goal is the statement itself or the
  token it looked at; so an error there is at a token that starts no statement, and
  `synchronize` steps over it.

Rules are sorted into three kinds of step first (`Kinds`): a function goes on, it enters a
guard, or it throws. From `ParserAlways` follow `ParserTypeCorrect`,
`GuardsAlwaysBalanced`, `RecursionAlwaysBounded` (at most 19 active functions for each
guard) and `TurnsConsume`. What is bounded is the parser's own recursion: a chain of
operators is read by a loop and makes a tree as deep as the chain is long, along which
the later stages recurse, with no limit.

The second part of `ParserProofs` is about what is reported. That the place of an error may be computed
from the length of the token before it is right only where that token ends on the line
it begins on, which a string need not. `ReportInv` therefore says which token can stand
behind the parser when it reports:

* `StackFits` – no goal waits for a string. A goal that ends a printed value waits for
  the parenthesis, so the place behind a value is never reported; and the place
  `switchBody` remembers is not behind the reader;
* `BehindString` – directly behind a string the goal is to take that parenthesis, and
  `FirstGoal` – before a turn has consumed a token, its first function is alone;
* `Settled` – the last report is in front of the token a turn begins with, or at it if that
  token can start a statement; between turns the same holds of the next token, unless it
  is the end;
* `ErrorFits` – an error on its way to the handler has a place between these.

The two properties, `ReportsInOrder` and `AnchorOnOneLine`, are its last conjuncts, as
neither is inductive without the others. TLC checked the conjunction on the instance of
`parser` first. From it follow `ReportsAlwaysInOrder` and `AnchorsOnOneLine`.

`TreeProofs` is about the trees. The code makes a node of the last values on the stack and
looks at none of them; that a body is a block, say, follows from the order of the calls
in a function alone. So every value has a *sort* (an expression, a statement, a block, the
list of a `pili`, the name of an assignment, ...), and a goal turns the sorts on the stack into
others (`Turns`): `Yields` says which sorts a rule or a node takes and which one it
leaves. `TreeInv` says

* the goals that are left turn the sorts of the values into one statement (`Typed`), and
  each value is of its sort (`Matches`). There is one lemma for the body of each rule, which
  shows that the body turns what the rule turns (`Runs`);
* every goal that is still to make a node is at a token the node may stand at (`Placed`).
  Assigning in `para` is the exception: its place is taken before its name has been
  seen, so the goal is right only if the name is next (`Awaits`), and where it is not
  the error is thrown before a node is made;
* every finished statement is `Good`: it belongs to a set of nodes, closed under parts,
  each of which is well shaped and stands right (`Sound`). A set in place of an induction
  over trees: a new node joins the sets of its parts.

`TreesPlaced` follows, and `TreesAlwaysShaped`, which quantifies over trees of any depth and
has no run: a model checker meets a missing part as an evaluation error in `Nodes`.
The levels of a tree are a recursive function, `Levels`, which is unfolded by `Loop` of
`Induction`.

About `Lexer` everything is proved for every set of texts, letters, digits and keywords
under `CharactersAssumption`: letters and digits are told apart from each other, from
blanks and from marks, and a keyword has a type of its own. `LexerInv` of `LexerProofs`
joins `LexerTypeOK` with

* `PlaceInv` – the reader knows its line and the offset where it starts, and has behind
  it a gap, a comment that is not over, or the token it is in;
* `AllInText` – every token stands at its place, with nothing but a gap before it;
* `EndInv` – a text that was accepted has been read to its end, and one that was refused
  has nothing but a gap between the last token and the place refused.

The hardest step is a string that spans lines: its token keeps the line it began on
while the reader counts on, so `Breaks`, the number of line breaks before an offset, is
an operator of the invariant. `TextAlways` follows. The second part adds what is being
read: the piece since the token began is one of a number, a name or an open string
(`ReadInv`), all tokens are longest (`AllLongest`), and where the text was refused no
lexeme begins (`RefusedInv`). Lemmas say for each class of first character which pieces
of a text are lexemes; from them follow `MunchAlways` and `RefusalAlways`.

The third part of `LexerProofs` is `CaretAlways`: the line the reporter finds is the token's, and
its caret stands under it, for every text. Lexer and reporter count lines independently:
the lexer keeps a counter, the reporter searches the text anew for each report
(`FindBreak`, `LineOffset`). `LineOffsetLemma` shows that the search for line `n` ends where
the lexer's invariant places the start of that line. `CaretLemma` shows that tabs
widened before the caret widen the printed line by as much. The end token has no
characters and may stand behind the last one, hence the small invariant `EndEmpty`.

The three loops of the reporter are recursive functions in `Diagnostic`. `Induction` argues
over the natural numbers with sets, without an operator as a parameter: `Least` gives
the least member of a set of naturals, `Induction` says that a set that has 0 and with
each number the next has all of them, `InductionTo` the same up to a bound, and `Loop` that a
function defined step by step up to a bound exists, so that the definition of one may be
unfolded.

About `Compiler`, `Semantic` and `Pipeline` everything is proved for every set of
programs over `Stmt`, every height of their trees, every width of `int`, all positive
step limits and all inputs. `TreesAlwaysShaped` is what justifies the assumption that a
program is a sequence over `Stmt`. An argument about a tree is one about its height: what
holds of the parts of a node and of `CompileStmtNode` over them holds of every level
(`InductionTo`). Lists are visited one by one (`IsWalk`, `VisitStays`, `VisitTogether`).

`CompileFits` says of `Compile` alone that the chunk is well formed and has a consistent
assignment of depths. Such an assignment `E` is laid along with the code, in a state that is
seldom finished. So `Laid(c, E, X, t)` says that what has been emitted fits `E` but for the
targets of the jumps in `X`, that `t` is the depth behind it, and of each jump that waits
in a scope that it takes along what the scopes up to that one hold (`Waits`): no more,
which is what the pops before `tigil` and `sunod` are for, and no less. One lemma for each
way to emit or patch (`EmitLaid`, `PatchLaid`, ...) keeps it. From these

* `Flow(c, d, n, m)` – an expression, from the state `c` to `d`, is straight-line code that
  takes `n` operands and leaves `m`. A short circuit jumps over the right operand with the
  left one still there, so both ways end with one;
* `StmtFlow(c, d)` – a statement leaves the scopes as they were but for jumps that wait in
  them, and the operands that they hold (`Total`). The body of a loop is given a scope more
  and its jumps have their targets once that scope is left (`CloseLaid`); `para` has
  its update laid out before its body, so two jumps are open while the update is compiled.

The operator for every class of nodes has a lemma with one of these as its conclusion, for
any function on its parts that has it; `StmtsFlowAll` is the induction. `PipelineInv` adds to
`IInv` where the values of a pipeline come from (`StagesInv`), and `CompiledCorrect` follows
from it with `RefusalJustified`: a verifier that is right about what it refuses refuses
nothing that has an assignment.

The compiler and the analyzer know nothing of each other; one keeps scopes, the other two
counters. They are followed side by side, with the relation `Agree` (an assert has failed if
and only if a jump was reported, and each global was declared or reported) and `AtHome` (the
counters are positive exactly where there is a scope, or a loop among the scopes). `Agree` is
not enough by itself, because what a `tigil` does to it depends on where it stands, and `AtHome` is
kept only because a statement leaves scopes (`StmtFlow`) and counters (`Balanced`) as it
found them. The walks differ in three places: the analyzer looks at all labels of a `pili`
before its bodies, it looks at the update of `para` outside the loop and the compiler inside,
and they take the condition of `gawin` in different states; steps that the other walk has no
counterpart of are `Quiet` or `Follows`, and an update is an assignment, for which the depths
do not matter. `StagesAgree` is the result for a program, `AssertsGuarded` and
`NamesDeclared` the two properties. That no name of an accepted program was reported needs
one conjunct more, `Counts`: a name is reported once, but every report is an error.

The last part of `PipelineProofs` is about `Backends`, for every such program, every input
and every `MaxNodes`. `BackendsInv` adds to `PipelineInv` that both tree walkers ran the
program that was let through, on what the machine was given to read. A step of `Backends`
is one of `Pipeline`, so `Backends` implements it (`BackendsRefine`), and what holds there
holds here (`BackendsStages`).

`StoragesAlways` needs an argument about two walks over two trees: with slots the walker
runs on the tree that `resolve` has been over, with a map on the tree itself. `Alike(w, v, F)`
relates their states by the names `F` in the order of their slots: both runs are the same
so far (`SameRun`: events, input left, nodes, value, flow, fault), and the map holds exactly
what the defined slots hold (`Stored`). Two facts about `resolve` make it invariant.

* A name has one slot and a slot one name (`Distinct`), so a store to a slot is a store to
  one entry and leaves the others alone (`AlikeStore`).
* Slots are given while the tree is still being resolved, and the walk begins behind that.
  So the names met later must not move a slot: they only come behind those met before
  (`Begins`), and `Fine` says of a resolved node that it runs like the original for *every*
  `F` that begins with the names met up to it.

A slot that `resolve` leaves out would be -1, which no `F` gives to a name; that every
operand and branch is visited is therefore part of what `Fine` says. Each class of nodes has
a lemma that it is `Fine` if its parts are (`LogicalFine`, `SwitchFine`, ...);
`ExprsAlikeAll` and `StmtsAlikeAll` are the inductions on the height, and `WhileAlike` the
one on the turns of a loop. Lists of two lengths cannot arise: `VisitInStep` follows the two
visits of a list and of the list it was resolved to.

About `Driver` everything is proved for every command line, every set of refusals, an
exception in any stage or none, and every wait. `WayInv` of `DriverProofs` says for each
place of `main` what has been run: before stage `s` exactly the stages before it, none
of which has refused or thrown (`ReachedAt`); behind the last one that runs, all up to it
(`EndedAt`). That two copies of the front end serve three modes is one lemma, `NextLemma`:
wherever `main` goes after a stage, that is the stage asked for next. `StagesAlways` and
`ExitAlways` follow; `TimesAlways` adds `ClockInv`, which fixes each time by the stages
run so far.

Model-checked only:

* the liveness properties: fairness is out of the prover's reach;
* what `Parser` promises about the tree it builds beyond its shape and its places
  (`RoundTrip`, `LimitsExact`, `NothingLost`): `Grammar` reads the tree back with
  operators that are declared `RECURSIVE`, and the prover has no arithmetic in a module
  that reaches one;
* what relates the tree walks to the machine (`BackendsAgree`, `ImplementsLanguage`): the
  walk is computed in one step and the machine takes many, so a proof has to relate each
  position in the code to a place in the middle of the recursion over the tree, which
  neither model has a name for. `Language` has no fairness, so `ImplementsLanguage` is
  safety only: that a run ends is `LimitedRunTerminates` of `VM`;
* `AsTested`, which is about the repository's test programs and no others.

## Not modelled

* The printers (`--ast`, `--bytecode`, the execution trace): they format for a reader.
* The wording of messages, the length of an underline, the usage text.
* `declaredVariables` and `declarationLine` of the analyzer.
* Reuse of one `TreeWalker`, `BytecodeCompiler` or `SemanticAnalyzer` object: `caR`
  makes a new one for each program.
* Pool sizes, line and instruction numbers beyond `int`, memory exhaustion (but for the
  exception it leaves `main` with, in `Driver`) and the depth of the C++ call stack in
  the stages behind the parser.
* One composition of all stages. The trees that `MCBackends` gives to the later ones are
  in `Stmt`, as `ProgramsAssumption` says, which TLC evaluates; that those of `Parser` have
  all that `Stmt` asks for, but for places that are pairs and names that are values, is
  `TreesAlwaysShaped`. `Driver` composes the stages by what they may answer.
