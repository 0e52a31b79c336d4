------------------------------ MODULE Pipeline ------------------------------
(***************************************************************************)
(* One source program through the stages of caR (wika.cpp) behind the      *)
(* parser, as far as the bytecode backend has them: the analyzer, the      *)
(* compiler and the virtual machine.  Analysis and compilation are         *)
(* computed in the step that starts the program; the virtual machine then  *)
(* takes its own steps.                                                    *)
(***************************************************************************)
EXTENDS VM, Compiler, Semantic

CONSTANTS
    Programs,    \* the trees the parser may return
    MaxSteps     \* opts.maxSteps; a bound of the model too, so positive

ASSUME ProgramsAssumption == Programs \subseteq Seq(Stmt)
ASSUME MaxStepsAssumption == MaxSteps \in Nat \ {0}

VARIABLES
    stage,       \* idle, refused (a semantic error) or executed
    program,     \* the tree
    analysis,    \* the analyzer after the walk over it
    compiler     \* the compiler after it, chunk included

stageVars == <<stage, program, analysis, compiler>>

\* What the variables hold before any program.
NoProgram == << >>

PipelineInit ==
    /\ Init
    /\ stage = "idle" /\ program = NoProgram
    /\ analysis = NewAnalyzer /\ compiler = NewCompiler

\* The lexer and the parser returned p.  The compiler is called for an
\* accepted program only; what it would do with a refused one is kept for
\* JumpErrorsExact.
Analyzed(p) ==
    /\ stage = "idle"
    /\ program' = p
    /\ analysis' = Analyze(p)
    /\ compiler' = Compile(p)

RefuseProgram(p) ==
    /\ Analyzed(p)
    /\ analysis'.hadError
    /\ stage' = "refused"
    /\ UNCHANGED vars

ExecuteProgram(p) ==
    /\ Analyzed(p)
    /\ ~analysis'.hadError
    /\ stage' = "executed"
    /\ LET job == [chunk |-> compiler'.chunk, stepLimit |-> MaxSteps]
       IN  RefuseMalformed(job) \/ BeginVerifyStack(job)

Start     == \E p \in Programs : RefuseProgram(p) \/ ExecuteProgram(p)
Machine   == (Verify \/ Execute) /\ UNCHANGED stageVars

PipelineNext == Start \/ Machine

PipelineSpec == PipelineInit /\ [][PipelineNext]_<<vars, stageVars>>
-----------------------------------------------------------------------------
(* Properties.                                                             *)

(***************************************************************************)
(* What compile() emits for a program the analyzer let through always      *)
(* passes the verifier: the chunk is well formed, each way to each         *)
(* instruction (tigil and sunod out of nested pili and loops included)     *)
(* leads there with the same depth, and nothing is left at the end.        *)
(***************************************************************************)
CompiledVerifies ==
    stage = "executed" => WellFormed(chunk) /\ ~RefusedByVerify

(***************************************************************************)
(* The analyzer guards the compiler's asserts (compiler.cpp:74 and :85)    *)
(* exactly: it reports a misplaced tigil or sunod if and only if one of    *)
(* them would fail, so that it neither lets one through nor refuses a      *)
(* jump that has somewhere to go.                                          *)
(***************************************************************************)
JumpErrorsExact ==
    stage # "idle" =>
      (compiler.aborted <=>
         \E k \in DOMAIN analysis.diagnostics :
            analysis.diagnostics[k].what \in {"break", "continue"})

(***************************************************************************)
(* Every global the compiled program names was declared: the analyzer      *)
(* and the compiler meet the same names, in whatever branch or operand.    *)
(***************************************************************************)
GlobalsDeclared ==
    stage = "executed" =>
      Range(chunk.globalNames) \subseteq Range(analysis.declared)
=============================================================================
