------------------------------- MODULE Driver -------------------------------
(***************************************************************************)
(* The command line (main.cpp) and compile-and-run (wika.cpp).  main reads *)
(* its arguments one by one, then takes one of three ways: --tokens lexes, *)
(* --ast and --bytecode run frontEnd and print, and everything else is a   *)
(* run by caR, which repeats the stages of frontEnd and executes.          *)
(*                                                                         *)
(* What a stage does is decided at the start: it refuses the program, it   *)
(* throws an exception of its own (no memory), or it passes.               *)
(***************************************************************************)
EXTENDS Integers, Sequences, SequencesExt

CONSTANTS
    CommandLines,      \* the sequences of arguments
    Files,             \* the arguments that name a file there is
    Refusing,          \* the sets of stages that may refuse
    Throwing,          \* the stages one of which may throw; "none" does not
    ReadTimes          \* how long the program may wait in basahin()

FrontEnd == <<"lexer", "parser", "semantic">>
Stage    == {"lexer", "parser", "semantic", "compiler", "exec"}
Options  == {"--tokens", "--ast", "--bytecode", "--trace", "--time", "--time-csv",
             "--treewalk", "--treewalk-map", "--help", "--tulong"}
Backend  == {"Bytecode", "TreeWalkSlots", "TreeWalkMap"}

\* Arguments with a dash that main does not know.
Unknown == {"-x"}

ASSUME DriverAssumption ==
    /\ Refusing \subseteq SUBSET {"lexer", "parser", "semantic", "exec"}
    /\ Throwing \subseteq Stage \cup {"none"}
    /\ ReadTimes \subseteq Nat
    /\ Files \cap (Options \cup Unknown \cup {""}) = {}

\* What each stage takes, by the clock; the wait for input is part of exec.
StageMs == [lexer |-> 1, parser |-> 2, semantic |-> 3, compiler |-> 4, exec |-> 9]
Instructions == 50
Nodes        == 30

VARIABLES
    args,          \* the arguments still to read
    options,       \* the flags given
    backend, path,
    refuses, throws, readTime,     \* what the stages do
    at,            \* where main is
    ran,           \* the stages entered, in order
    out,           \* what is written to the standard output
    reported,      \* the stages whose diagnostics are reported
    stopped,       \* the stages caR says that it stopped at
    time,          \* StageTime
    trueExecMs,
    times,         \* what --time and --time-csv have printed
    exit

driverVars == <<args, options, backend, path, refuses, throws, readTime, at, ran, out,
                reported, stopped, time, trueExecMs, times, exit>>

given   == <<args, options, backend, path>>
decided == <<refuses, throws, readTime>>

\* The exit code of a process that std::terminate ends, and no code yet.
Aborted == 134
Running == -1

NoTime == [lexer |-> 0, parser |-> 0, semantic |-> 0, compiler |-> 0, exec |-> 0,
           read |-> 0, instructions |-> 0, nodes |-> 0]

Mode == IF "--tokens" \in options THEN "tokens"
        ELSE IF options \cap {"--ast", "--bytecode"} # {} THEN "inspect"
        ELSE "run"

-----------------------------------------------------------------------------
(* The arguments.                                                          *)

Exit(code) ==
    /\ at' = "exit"
    /\ exit' = code
    /\ UNCHANGED <<given, decided, ran, reported, stopped, time, trueExecMs, times>>

Usage(code) == Exit(code) /\ out' = Append(out, "usage")

Reading ==
    /\ args' = Tail(args)
    /\ UNCHANGED <<decided, at, ran, out, reported, stopped, time, trueExecMs, times, exit>>

ReadFlag ==
    /\ at = "args" /\ args # << >>
    /\ Head(args) \in Options \ {"--treewalk", "--treewalk-map", "--help", "--tulong"}
    /\ options' = options \cup {Head(args)}
    /\ UNCHANGED <<backend, path>>
    /\ Reading

ReadBackend ==
    /\ at = "args" /\ args # << >>
    /\ Head(args) \in {"--treewalk", "--treewalk-map"}
    /\ backend' = IF Head(args) = "--treewalk" THEN "TreeWalkSlots" ELSE "TreeWalkMap"
    /\ UNCHANGED <<options, path>>
    /\ Reading

ReadHelp ==
    /\ at = "args" /\ args # << >> /\ Head(args) \in {"--help", "--tulong"}
    /\ Usage(0)

ReadUnknown ==
    /\ at = "args" /\ args # << >> /\ Head(args) \in Unknown
    /\ Usage(2)

ReadPath ==
    /\ at = "args" /\ args # << >> /\ Head(args) \notin Options \cup Unknown
    /\ path' = Head(args)
    /\ UNCHANGED <<options, backend>>
    /\ Reading

\* A path, which may be the empty argument, and a file of that name.
Open ==
    /\ at = "args" /\ args = << >>
    /\ \/ path = "" /\ Usage(2)
       \/ path \notin Files \cup {""} /\ Exit(2) /\ UNCHANGED out
       \/ /\ path \in Files
          /\ at' = "lexer"
          /\ trueExecMs' = time.exec - time.read
          /\ UNCHANGED <<given, decided, ran, out, reported, stopped, time, times, exit>>

-----------------------------------------------------------------------------
(* The stages.                                                             *)

\* Where main goes after a stage has passed.
After(stage) ==
    CASE stage = "lexer" -> IF Mode = "tokens" THEN "print" ELSE "parser"
      [] stage = "parser" -> "semantic"
      [] stage = "semantic" -> IF Mode = "inspect" THEN "print"
                               ELSE IF backend = "Bytecode" THEN "compiler" ELSE "exec"
      [] stage = "compiler" -> IF Mode = "inspect" THEN "disassemble" ELSE "exec"
      [] stage = "exec" -> "report"

\* A stage that refuses ends main; --tokens returns 0 even so, and a run
\* prints its times first.
\* A plausible slip: frontEnd goes on after the syntax errors it has reported.
AfterRefusalOn ==
    CASE Mode = "tokens" -> "return"
      [] Mode = "inspect" -> IF at = "parser" THEN "semantic" ELSE "failed"
      [] OTHER -> "report"
AfterRefusal ==
    CASE Mode = "tokens" -> "return" [] Mode = "inspect" -> "failed" [] OTHER -> "report"

\* StageTime: a lexer that throws is not timed, an execution that fails is.
\* A plausible slip: the wait is not taken over from the tree walker.
Clocked(stage) == [time EXCEPT ![stage] = StageMs[stage]]
Executed(read, instructions, nodes) ==
    [Clocked("exec") EXCEPT !.read = read, !.instructions = instructions, !.nodes = nodes]

ExecTimeNoWait ==
    IF backend = "Bytecode" THEN Executed(readTime, Instructions, 0)
    ELSE Executed(0, 0, Nodes)
ExecTime ==
    IF backend = "Bytecode" THEN Executed(readTime, Instructions, 0)
    ELSE Executed(readTime, 0, Nodes)
Timed(stage) ==
    IF Mode # "run" \/ (stage = "lexer" /\ "lexer" \in refuses) THEN time
    ELSE IF stage = "exec" THEN ExecTime ELSE Clocked(stage)

Enter(stage) == at = stage /\ ran' = Append(ran, stage)

RunStage ==
    \E stage \in Stage :
        /\ Enter(stage) /\ throws # stage
        /\ time' = Timed(stage)
        /\ IF stage \in refuses
           THEN /\ reported' = Append(reported, stage)
                /\ stopped' = IF Mode = "run" /\ stage \in {"parser", "semantic"}
                              THEN Append(stopped, stage) ELSE stopped
                /\ at' = AfterRefusal
           ELSE /\ at' = After(stage)
                /\ UNCHANGED <<reported, stopped>>
        /\ out' = IF stage = "exec" THEN Append(out, "program") ELSE out
        /\ UNCHANGED <<given, decided, trueExecMs, times, exit>>

\* Only caR is called inside a try block for every exception; elsewhere an
\* exception that is no CompileError ends the process.
\* A plausible slip: caR's is taken for a program that has failed.
ThrowCodeFailed == IF Mode = "run" THEN 1 ELSE Aborted
ThrowCode       == IF Mode = "run" THEN 3 ELSE Aborted
ThrowStage ==
    \E stage \in Stage :
        /\ Enter(stage) /\ throws = stage
        /\ at' = "exit" /\ exit' = ThrowCode
        /\ out' = IF stage = "exec" THEN Append(out, "program") ELSE out
        /\ UNCHANGED <<given, decided, reported, stopped, time, trueExecMs, times>>

-----------------------------------------------------------------------------
(* What main prints, and its exit codes.                                   *)

\* --ast comes before --bytecode; what is printed is compiled in between.
Show ==
    /\ at = "print"
    /\ out' = out \o IF Mode = "tokens" THEN <<"tokens">>
                     ELSE IF "--ast" \in options THEN <<"ast">> ELSE << >>
    /\ at' = IF Mode = "inspect" /\ "--bytecode" \in options THEN "compiler" ELSE "return"
    /\ UNCHANGED <<given, decided, ran, reported, stopped, time, trueExecMs, times, exit>>

Disassemble ==
    /\ at = "disassemble"
    /\ out' = Append(out, "bytecode")
    /\ at' = "return"
    /\ UNCHANGED <<given, decided, ran, reported, stopped, time, trueExecMs, times, exit>>

\* The columns that --time-csv separates by commas, and what is in each.
CsvLine ==
    <<<<path>>, <<backend>>, <<time.lexer, time.lexer>>, <<time.parser>>,
      <<time.semantic>> \o IF backend = "Bytecode" THEN <<time.compiler>> ELSE << >>,
      <<trueExecMs>>, <<time.read>>,
      IF backend = "Bytecode" THEN <<time.instructions, time.nodes>> ELSE << >>>>

TimeTable ==
    [trueexec |-> trueExecMs, exec |-> time.exec, read |-> time.read,
     lexer |-> time.lexer, parser |-> time.parser, semantic |-> time.semantic,
     compiler |-> IF backend = "Bytecode" THEN time.compiler ELSE 0,
     steps |-> IF backend = "Bytecode" THEN time.instructions ELSE time.nodes]

ReportTimes ==
    /\ at = "report"
    /\ times' = [table |-> IF "--time" \in options THEN <<TimeTable>> ELSE << >>,
                 csv |-> IF "--time-csv" \in options THEN CsvLine ELSE << >>]
    /\ at' = IF reported = << >> THEN "return" ELSE "failed"
    /\ UNCHANGED <<given, decided, ran, out, reported, stopped, time, trueExecMs, exit>>

Return == at = "return" /\ Exit(0) /\ UNCHANGED out
Fail   == at = "failed" /\ Exit(1) /\ UNCHANGED out

-----------------------------------------------------------------------------
DriverInit ==
    /\ args \in CommandLines
    /\ options = {} /\ backend = "Bytecode" /\ path = ""
    /\ refuses \in Refusing /\ throws \in Throwing /\ readTime \in ReadTimes
    /\ at = "args" /\ ran = << >> /\ out = << >>
    /\ reported = << >> /\ stopped = << >>
    /\ time = NoTime /\ trueExecMs = 0
    /\ times = [table |-> << >>, csv |-> << >>]
    /\ exit = Running

ReadArgs == ReadFlag \/ ReadBackend \/ ReadHelp \/ ReadUnknown \/ ReadPath \/ Open
DriverNext == \/ ReadArgs \/ RunStage \/ ThrowStage
              \/ Show \/ Disassemble \/ ReportTimes \/ Return \/ Fail
DriverSpec == DriverInit /\ [][DriverNext]_driverVars
-----------------------------------------------------------------------------
(* Properties.                                                             *)

\* The stages that the arguments ask for.
Pipeline ==
    CASE Mode = "tokens"  -> <<"lexer">>
      [] Mode = "inspect" -> FrontEnd \o IF "--bytecode" \in options THEN <<"compiler">>
                                         ELSE << >>
      [] Mode = "run"     -> FrontEnd \o IF backend = "Bytecode" THEN <<"compiler", "exec">>
                                         ELSE <<"exec">>

Stops(stage) == stage \in refuses \cup {throws}

\* main's frontEnd and caR are two copies of the same stages: whichever way
\* main takes, exactly the first stage that refuses the program reports it, and
\* nothing is run or printed of a program that one before has refused.
StagesExact ==
    at = "exit" /\ ran # << >> =>
        LET n == Len(ran)
        IN  /\ n <= Len(Pipeline) /\ ran = SubSeq(Pipeline, 1, n)
            /\ \A k \in 1 .. n - 1 : ~Stops(ran[k])
            /\ n = Len(Pipeline) \/ Stops(ran[n])
            /\ reported = IF ran[n] \in refuses /\ throws # ran[n] THEN <<ran[n]>> ELSE << >>
            /\ Range(out) \cap {"ast", "bytecode", "program"} # {} =>
                  Range(FrontEnd) \cap refuses = {}

\* What the caller of filc can tell from the exit code: 1 for a program at
\* fault, 3 for a compiler at fault, 2 for no program at all.
ExitTells ==
    at = "exit" =>
        /\ exit = 0 => \/ "usage" \in Range(out) \/ Mode = "tokens"
                       \/ ran = Pipeline /\ reported = << >>
        /\ exit = 2 => ran = << >>
        /\ exit = 1 <=> reported # << >> /\ Mode # "tokens"
        /\ exit \in {3, Aborted} <=> ran # << >> /\ Last(ran) = throws
        /\ exit = Aborted => "program" \notin Range(out)

\* The times of --time are those of the stages that this run has been through;
\* the wait for input is there whichever backend has waited.
TimesOfThisRun ==
    \A k \in DOMAIN times.table :
        LET t == times.table[k]
        IN  /\ \A s \in Range(FrontEnd) \cup {"compiler", "exec"} :
                  t[s] = IF s \in Range(ran) /\ reported # <<"lexer">> THEN StageMs[s] ELSE 0
            /\ t.read = IF "exec" \in Range(ran) THEN readTime ELSE 0
            /\ t.steps > 0 <=> "exec" \in Range(ran)

\* What the code says of two columns that --time-csv prints of an executed
\* program.  main.cpp:154 names the sixth the execution without the wait for
\* input.  The eighth counts: wika.h:18-19 has instructions for the bytecode
\* only and nodes for the tree walkers only.
MeasuresAsDeclared ==
    times.csv # << >> /\ "exec" \in Range(ran) =>
        /\ times.csv[6] = <<time.exec - time.read>>
        /\ times.csv[8] = IF backend = "Bytecode" THEN <<time.instructions>>
                                                  ELSE <<time.nodes>>
=============================================================================
