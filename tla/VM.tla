--------------------------------- MODULE VM ---------------------------------
(***************************************************************************)
(* One VM object (vm.h, vm.cpp): its caller sets a step limit and calls    *)
(* run(chunk), any number of times.  A call clears what the last one left, *)
(* checks the chunk (Chunk::verify and Chunk::verifyStack, opcode.cpp), and *)
(* executes it one instruction at a time until OP_HALT or a failure.       *)
(*                                                                         *)
(* The stream operators are external: input is the sequence of integers    *)
(* that in >> x will deliver before it fails (bad text, a number out of    *)
(* range or the end of the file); a failed stream stays failed.  Trace,    *)
(* prompt and the clock around a read change nothing else and are left out.*)
(***************************************************************************)
EXTENDS Bytecode

CONSTANTS
    Jobs,       \* the calls: records [chunk, stepLimit]
    Inputs,     \* what the input stream may deliver: a set of sequences
    MaxRuns     \* bound: calls of run on one object

Job == [chunk : Chunk, stepLimit : Int]

ASSUME JobsAssumption    == Jobs \subseteq Job
ASSUME InputsAssumption  == Inputs \subseteq Seq(CInt)
ASSUME MaxRunsAssumption == MaxRuns \in Nat

VARIABLES
    runs,        \* number of calls so far, bounded by MaxRuns
    phase,       \* where the current call is
    chunk,       \* its argument
    stepLimit,   \* member, set by setStepLimit
    depth,       \* verifyStack's local; kept for the properties afterwards
    work,        \* verifyStack's local: the worklist, used last in first out
    ip, globals, defined, steps,            \* locals of run
    stack, retired, diagnostics,            \* members
    input, output,                          \* the two streams
    ok           \* the value run returned

callVars == <<runs, chunk, stepLimit>>
execVars == <<ip, globals, defined, steps, stack, retired, input, output>>
vars     == <<callVars, phase, depth, work, execVars, diagnostics, ok>>

-----------------------------------------------------------------------------
(* Lines of output and diagnostics.                                        *)

\* The words that stand for the two truth values, and the empty text.
Words        == {"totoo", "mali", ""}
Text         == STRING \cup Words
Line         == [kind : {"int", "text"}, n : Int, s : Text]
IntLine(n)   == [kind |-> "int", n |-> n, s |-> ""]
TextLine(s)  == [kind |-> "text", n |-> 0, s |-> s]

\* printValue followed by a newline.
Printed(v) ==
    IF v.type = "VT_BOOL" THEN TextLine(IF v.b THEN "totoo" ELSE "mali")
    ELSE IntLine(v.i)

Reason == {"bytecode", "ip", "steps", "underflow", "type", "zero",
           "overflow", "undefined", "input"}

\* loc 0 is the default ErrorLoc of a diagnostic that names no instruction.
Diagnostic == [stage : {"Internal", "Runtime"}, reason : Reason, loc : Nat]

InternalReason == {"bytecode", "ip", "steps"}

MakeDiagnostic(r, l) ==
    [stage  |-> IF r \in InternalReason THEN "Internal" ELSE "Runtime",
     reason |-> r,
     loc    |-> IF r \in {"bytecode", "ip"} THEN 0 ELSE l]

-----------------------------------------------------------------------------
(* The call.  What a member holds on entry is cleared, the locals start    *)
(* afresh; a chunk whose form is wrong is refused at once.                 *)

\* Plausible slips: members that survive into the next call.
StackKept       == stack
DiagnosticsKept == diagnostics
RetiredKept     == retired

StackAtEntry       == << >>
DiagnosticsAtEntry == << >>
RetiredAtEntry     == 0

InitialDepth(c) == [i \in Positions(c) |-> IF i = 0 THEN 0 ELSE Unvisited]

Init ==
    /\ runs = 0 /\ phase = "idle" /\ chunk = EmptyChunk /\ stepLimit = 0
    /\ depth = InitialDepth(EmptyChunk) /\ work = << >>
    /\ ip = 0 /\ globals = << >> /\ defined = << >> /\ steps = 0
    /\ stack = << >> /\ retired = 0 /\ diagnostics = << >>
    /\ input \in Inputs /\ output = << >>
    /\ ok = FALSE

Enter(job) ==
    /\ phase \in {"idle", "done"}
    /\ runs < MaxRuns
    /\ runs' = runs + 1
    /\ chunk' = job.chunk
    /\ stepLimit' = job.stepLimit
    /\ stack' = StackAtEntry
    /\ retired' = RetiredAtEntry
    /\ depth' = InitialDepth(job.chunk)
    /\ ip' = 0
    /\ globals' = [s \in Slots(job.chunk) |-> MakeInt(0)]
    /\ defined' = [s \in Slots(job.chunk) |-> FALSE]
    /\ steps' = 0
    /\ UNCHANGED <<input, output>>

RefuseMalformed(job) ==
    /\ Enter(job)
    /\ ~WellFormed(job.chunk)
    /\ work' = << >>
    /\ diagnostics' = Append(DiagnosticsAtEntry, MakeDiagnostic("bytecode", 0))
    /\ ok' = FALSE
    /\ phase' = "done"

BeginVerifyStack(job) ==
    /\ Enter(job)
    /\ WellFormed(job.chunk)
    /\ work' = <<0>>
    /\ diagnostics' = DiagnosticsAtEntry
    /\ phase' = "verify"
    /\ UNCHANGED ok

-----------------------------------------------------------------------------
(* verifyStack: one iteration of its loop per step.                        *)

Current   == work[Len(work)]
Rest      == SubSeq(work, 1, Len(work) - 1)
DepthHere == depth[Current]
InstrHere == InstrAt(chunk, Current)
DepthNext == DepthAfter(InstrHere, DepthHere)

\* A plausible slip: a target reached before is not compared again.
ClashesNever(j) == FALSE

\* visit: the target was reached before, with another depth.
Clashes(j) == depth[j] # Unvisited /\ depth[j] # DepthNext

\* Plausible slips: one of the rules is forgotten.
ObjectsNotToUnderflow ==
    \/ InstrHere.op = "OP_HALT" /\ DepthNext # 0
    \/ \E j \in Successors(chunk, Current) : Clashes(j)
ObjectsNotToLeftovers ==
    \/ DepthHere < Pops(InstrHere.op)
    \/ \E j \in Successors(chunk, Current) : Clashes(j)

Objects ==
    \/ DepthHere < Pops(InstrHere.op)
    \/ InstrHere.op = "OP_HALT" /\ DepthNext # 0
    \/ \E j \in Successors(chunk, Current) : Clashes(j)

\* visit: the target is reached for the first time.
Fresh(j) == j \in Successors(chunk, Current) /\ depth[j] = Unvisited

Marked == [j \in DOMAIN depth |-> IF Fresh(j) THEN DepthNext ELSE depth[j]]

\* A plausible slip: a jump enters its target again, reached before or not.
PushedAgain ==
    IF \/ InstrHere.op = "OP_JUMP"
       \/ InstrHere.op \in BranchOps /\ Fresh(InstrHere.operand)
    THEN <<InstrHere.operand>> ELSE << >>

PushedTarget ==
    IF InstrHere.op \in JumpOps /\ Fresh(InstrHere.operand)
    THEN <<InstrHere.operand>> ELSE << >>

\* A plausible slip: where a conditional jump falls through is not followed.
PushedNextUnlessBranch ==
    IF Fresh(Current + 1) /\ InstrHere.op \notin JumpOps
    THEN <<Current + 1>> ELSE << >>

\* A target that is also the next instruction has just been marked.
PushedNext ==
    IF Fresh(Current + 1) /\ PushedTarget # <<Current + 1>>
    THEN <<Current + 1>> ELSE << >>

VerifyStep ==
    /\ phase = "verify" /\ work # << >> /\ ~Objects
    /\ depth' = Marked
    /\ work' = Rest \o (PushedTarget \o PushedNext)
    /\ UNCHANGED <<callVars, phase, execVars, diagnostics, ok>>

VerifyReject ==
    /\ phase = "verify" /\ work # << >> /\ Objects
    /\ diagnostics' = Append(diagnostics, MakeDiagnostic("bytecode", 0))
    /\ ok' = FALSE
    /\ phase' = "done"
    /\ UNCHANGED <<callVars, depth, work, execVars>>

VerifyAccept ==
    /\ phase = "verify" /\ work = << >>
    /\ phase' = "run"
    /\ UNCHANGED <<callVars, depth, work, execVars, diagnostics, ok>>

-----------------------------------------------------------------------------
(* Execution: what stops an instruction, in the order the code asks.       *)

Here  == InstrAt(chunk, ip)
Top   == stack[Len(stack)]
Under == stack[Len(stack) - 1]
Drop(n) == SubSeq(stack, 1, Len(stack) - n)

\* The argument of needs(n, instr), written beside every case of the switch.
Needs(op) ==
    IF op \in BinaryOps THEN 2
    ELSE IF op \in UnaryOps \cup StoreOps \cup BranchOps \cup
                   {"OP_PRINT_VAL", "OP_POP", "OP_DUP"} THEN 1
    ELSE 0

\* requireNumbers and requireNumber
OperandsAreNumbers(op) ==
    /\ op \in ArithOps \cup DivOps \cup CompareOps => IsInt(Under) /\ IsInt(Top)
    /\ op = "OP_NEG" => IsInt(Top)

Exact(op, a, b) ==
    CASE op = "OP_ADD" -> a + b
      [] op = "OP_SUB" -> a - b
      [] op = "OP_MUL" -> a * b
      [] op = "OP_DIV" -> TruncDiv(a, b)
      [] op = "OP_MOD" -> TruncMod(a, b)

\* Plausible slip: the one quotient that does not fit is forgotten.
OverflowsButForDiv(op) ==
    \/ op \in ArithOps /\ ~Fit(Exact(op, Under.i, Top.i))
    \/ op = "OP_NEG" /\ Top.i = IntMin

Overflows(op) ==
    \/ op \in ArithOps /\ ~Fit(Exact(op, Under.i, Top.i))
    \/ op = "OP_DIV" /\ QuotientOverflows(Under.i, Top.i)
    \/ op = "OP_NEG" /\ Top.i = IntMin

RuntimeFault(in) ==
    IF Len(stack) < Needs(in.op) THEN "underflow"
    ELSE IF ~OperandsAreNumbers(in.op) THEN "type"
    ELSE IF in.op \in DivOps /\ Top.i = 0 THEN "zero"
    ELSE IF Overflows(in.op) THEN "overflow"
    ELSE IF in.op = "OP_GET_GLOBAL" /\ ~defined[in.operand] THEN "undefined"
    ELSE IF in.op = "OP_READ" /\ input = << >> THEN "input"
    ELSE "none"

OverBudget == stepLimit > 0 /\ steps + 1 > stepLimit

Fault ==
    IF ip >= Size(chunk) THEN "ip"
    ELSE IF OverBudget THEN "steps"
    ELSE RuntimeFault(Here)

\* The operands are popped before they are examined.
StackOnFault ==
    IF Fault \in {"type", "zero", "overflow"} THEN Drop(Needs(Here.op))
    ELSE stack

\* Plausible slip: counted at the end of the loop, which a jump skips.
CountedButForJumps ==
    IF Here.op = "OP_JUMP" THEN UNCHANGED <<retired, steps>>
    ELSE /\ retired' = retired + 1
         /\ steps' = IF stepLimit > 0 THEN steps + 1 ELSE steps

Counted ==
    /\ retired' = retired + 1
    /\ steps' = IF stepLimit > 0 THEN steps + 1 ELSE steps

Fail ==
    /\ phase = "run" /\ Fault # "none"
    /\ diagnostics' = Append(diagnostics, MakeDiagnostic(Fault,
                                 IF Fault = "ip" THEN 0 ELSE Here.loc))
    /\ stack' = StackOnFault
    /\ IF Fault = "ip" THEN UNCHANGED <<retired, steps>> ELSE Counted
    /\ ok' = FALSE
    /\ phase' = "done"
    /\ UNCHANGED <<callVars, depth, work, ip, globals, defined, input, output>>

-----------------------------------------------------------------------------
(* Execution: the instructions.                                            *)

Executing(ops) ==
    /\ phase = "run" /\ Fault = "none" /\ Here.op \in ops
    /\ Counted
    /\ UNCHANGED <<callVars, depth, work, diagnostics>>

Continue == phase' = phase /\ ok' = ok
Advance  == ip' = ip + 1 /\ Continue

Jump ==
    /\ Executing({"OP_JUMP"})
    /\ ip' = Here.operand
    /\ Continue
    /\ UNCHANGED <<stack, globals, defined, input, output>>

Taken == Truth(Top) = (Here.op = "OP_JUMP_IF_TRUE")

\* Both conditional jumps leave the condition on the stack.
Branch ==
    /\ Executing(BranchOps)
    /\ ip' = IF Taken THEN Here.operand ELSE ip + 1
    /\ Continue
    /\ UNCHANGED <<stack, globals, defined, input, output>>

\* OP_DEFINE_GLOBAL and OP_SET_GLOBAL do the same.
Store ==
    /\ Executing(StoreOps)
    /\ globals' = [globals EXCEPT ![Here.operand] = Top]
    /\ defined' = [defined EXCEPT ![Here.operand] = TRUE]
    /\ stack' = Drop(1)
    /\ Advance
    /\ UNCHANGED <<input, output>>

Load ==
    /\ Executing({"OP_GET_GLOBAL"})
    /\ stack' = Append(stack, globals[Here.operand])
    /\ Advance
    /\ UNCHANGED <<globals, defined, input, output>>

ConstantPushed(in) ==
    IF in.op = "OP_CONST_INT" THEN MakeInt(chunk.intConstants[in.operand + 1])
    ELSE MakeBool(in.op = "OP_TRUE")

Push ==
    /\ Executing(BoolOps \cup {"OP_CONST_INT"})
    /\ stack' = Append(stack, ConstantPushed(Here))
    /\ Advance
    /\ UNCHANGED <<globals, defined, input, output>>

Read ==
    /\ Executing({"OP_READ"})
    /\ stack' = Append(stack, MakeInt(Head(input)))
    /\ input' = Tail(input)
    /\ Advance
    /\ UNCHANGED <<globals, defined, output>>

PrintStr ==
    /\ Executing({"OP_PRINT_STR"})
    /\ output' = Append(output,
                        TextLine(chunk.stringConstants[Here.operand + 1]))
    /\ Advance
    /\ UNCHANGED <<stack, globals, defined, input>>

PrintVal ==
    /\ Executing({"OP_PRINT_VAL"})
    /\ output' = Append(output, Printed(Top))
    /\ stack' = Drop(1)
    /\ Advance
    /\ UNCHANGED <<globals, defined, input>>

Compare(op, a, b) ==
    \/ op = "OP_GT" /\ a > b
    \/ op = "OP_GE" /\ a >= b
    \/ op = "OP_LT" /\ a < b
    \/ op = "OP_LE" /\ a <= b

BinaryResult(op, l, r) ==
    IF op \in ArithOps \cup DivOps THEN MakeInt(Exact(op, l.i, r.i))
    ELSE IF op \in CompareOps THEN MakeBool(Compare(op, l.i, r.i))
    ELSE MakeBool(RawEq(l, r) = (op = "OP_EQ"))

Binary ==
    /\ Executing(BinaryOps)
    /\ stack' = Append(Drop(2), BinaryResult(Here.op, Under, Top))
    /\ Advance
    /\ UNCHANGED <<globals, defined, input, output>>

UnaryResult(op, v) == IF op = "OP_NEG" THEN MakeInt(-v.i) ELSE MakeBool(~Truth(v))

Unary ==
    /\ Executing(UnaryOps)
    /\ stack' = Append(Drop(1), UnaryResult(Here.op, Top))
    /\ Advance
    /\ UNCHANGED <<globals, defined, input, output>>

Pop ==
    /\ Executing({"OP_POP"})
    /\ stack' = Drop(1)
    /\ Advance
    /\ UNCHANGED <<globals, defined, input, output>>

Dup ==
    /\ Executing({"OP_DUP"})
    /\ stack' = Append(stack, Top)
    /\ Advance
    /\ UNCHANGED <<globals, defined, input, output>>

Halt ==
    /\ Executing({"OP_HALT"})
    /\ ok' = TRUE
    /\ phase' = "done"
    /\ UNCHANGED <<ip, stack, globals, defined, input, output>>

-----------------------------------------------------------------------------
Call    == \E job \in Jobs : RefuseMalformed(job) \/ BeginVerifyStack(job)
Verify  == VerifyStep \/ VerifyReject \/ VerifyAccept
Execute == \/ Fail \/ Jump \/ Branch \/ Store \/ Load \/ Push \/ Read
           \/ PrintStr \/ PrintVal \/ Binary \/ Unary \/ Pop \/ Dup \/ Halt

Next == Call \/ Verify \/ Execute

\* A call in progress goes on; nobody has to make another one.
Fairness == WF_vars(Verify \/ Execute)

Spec == Init /\ [][Next]_vars /\ Fairness
-----------------------------------------------------------------------------
(* Properties.                                                             *)

\* The type invariant.
TypeOK ==
    /\ runs \in 0 .. MaxRuns
    /\ phase \in {"idle", "verify", "run", "done"}
    /\ chunk \in Chunk
    /\ stepLimit \in Int
    /\ depth \in [Positions(chunk) -> Nat \cup {Unvisited}]
    /\ work \in Seq(Positions(chunk))
    /\ ip \in Nat
    /\ globals \in [Slots(chunk) -> Value]
    /\ defined \in [Slots(chunk) -> BOOLEAN]
    /\ steps \in Nat
    /\ stack \in Seq(Value)
    /\ retired \in Nat
    /\ diagnostics \in Seq(Diagnostic)
    /\ input \in Seq(CInt)
    /\ output \in Seq(Line)
    /\ ok \in BOOLEAN

(***************************************************************************)
(* Execution follows the verifier: at every instruction that is about to   *)
(* be executed the operand stack is as high as verifyStack computed,       *)
(* whatever path led there, and nothing of an earlier call is under it.    *)
(***************************************************************************)
StackMatchesVerifier ==
    phase = "run" => /\ ip \in Positions(chunk)
                     /\ depth[ip] # Unvisited
                     /\ Len(stack) = depth[ip]

(***************************************************************************)
(* The defensive checks of run() never fire on a chunk that verify()       *)
(* accepted: ip stays inside the code and needs() always finds enough.     *)
(***************************************************************************)
NoInternalFault == phase = "run" => Fault \notin {"ip", "underflow"}

(***************************************************************************)
(* run() indexes the pools, the globals and the code with the operand and  *)
(* no check of its own: every operand it comes to is in range.             *)
(***************************************************************************)
OperandsInRange ==
    phase = "run" /\ ip \in Positions(chunk) =>
      /\ Here.op = "OP_CONST_INT" => Here.operand + 1 \in DOMAIN chunk.intConstants
      /\ Here.op = "OP_PRINT_STR" => Here.operand + 1 \in DOMAIN chunk.stringConstants
      /\ Here.op \in GlobalOps => Here.operand \in DOMAIN globals
      /\ Here.op \in JumpOps => Here.operand \in Positions(chunk)

\* A successful run leaves nothing on the operand stack (OP_HALT checks
\* nothing itself: only verifyStack's rule for it ensures this).
CleanHalt == phase = "done" /\ ok => stack = << >>

(***************************************************************************)
(* The verifier's verdict is exact.  What it accepts has a consistent      *)
(* assignment of stack depths, namely the one it computed; when it refuses *)
(* a well formed chunk there is no such assignment at all, so the order of *)
(* its worklist is immaterial.  Depths stay below Size(chunk): the depth   *)
(* at an instruction grows by at most one at each one before it.           *)
(***************************************************************************)
RefusedByVerify ==
    /\ phase = "done"
    /\ diagnostics # << >>
    /\ diagnostics[1].reason = "bytecode"

VerdictExact ==
    /\ phase = "run" => WellFormed(chunk) /\ Consistent(chunk, depth)
    /\ RefusedByVerify /\ WellFormed(chunk) =>
         ~\E D \in [Positions(chunk) -> Unvisited .. Size(chunk) - 1] :
            Consistent(chunk, D)

(***************************************************************************)
(* Every integer the program can get hold of or show is an int: the 64-bit *)
(* results are never stored without having been found to fit.              *)
(***************************************************************************)
IntsFit ==
    /\ \A k \in DOMAIN stack : stack[k].i \in CInt
    /\ \A s \in DOMAIN globals : globals[s].i \in CInt
    /\ \A k \in DOMAIN output : output[k].n \in CInt

(***************************************************************************)
(* The caller can rely on either of the two answers: run() returned false  *)
(* exactly when there is a diagnostic, there is never more than one, and   *)
(* none is left from an earlier call.                                      *)
(***************************************************************************)
OneDiagnosticPerFailure ==
    /\ phase = "done" => (ok <=> diagnostics = << >>)
    /\ phase \in {"idle", "verify", "run"} => diagnostics = << >>
    /\ Len(diagnostics) <= 1

(***************************************************************************)
(* With a limit L > 0 exactly L instructions may execute: the one that     *)
(* would be number L + 1 is counted in retired but stopped, and only then  *)
(* is the limit reported.  Without a limit it is never reported.           *)
(***************************************************************************)
StoppedByLimit ==
    phase = "done" /\ diagnostics # << >> /\ diagnostics[1].reason = "steps"

BudgetExact ==
    /\ stepLimit > 0 => retired = steps /\ retired <= stepLimit + 1
    /\ StoppedByLimit <=> stepLimit > 0 /\ retired = stepLimit + 1

(***************************************************************************)
(* Integer division and remainder as C++ defines them: the quotient is     *)
(* truncated, so the remainder is smaller than the divisor and has the     *)
(* sign of the dividend.                                                   *)
(***************************************************************************)
IsRemainder(a, b, r) == Abs(r) < Abs(b) /\ (r # 0 => (r < 0) = (a < 0))

DivisionTruncates ==
    [][ phase = "run" /\ Fault = "none" /\ Here.op \in DivOps =>
        LET a == Under.i
            b == Top.i
            result == stack'[Len(stack')].i
        IN  IF Here.op = "OP_DIV" THEN IsRemainder(a, b, a - result * b)
            ELSE /\ IsRemainder(a, b, result)
                 /\ \E q \in -Abs(a) .. Abs(a) : a = q * b + result ]_vars

\* The verifier always ends, with whatever jumps: it enters no instruction
\* into its worklist twice.
VerifyTerminates == phase = "verify" ~> phase # "verify"

\* A step limit bounds every run, a program that loops forever included.
LimitedRunTerminates == phase = "run" /\ stepLimit > 0 ~> phase = "done"
=============================================================================
