---------------------------- MODULE DriverProofs ----------------------------
(***************************************************************************)
(* Theorems about the Driver module, for every command line, every way the *)
(* stages may end and every wait for input.                                *)
(***************************************************************************)
EXTENDS Driver, SequenceTheorems, TLAPS

-----------------------------------------------------------------------------
(* The stages that are run.                                                *)

\* The stages before a stage, and with it.
Before(s) ==
    CASE s = "lexer"    -> << >>
      [] s = "parser"   -> <<"lexer">>
      [] s = "semantic" -> <<"lexer", "parser">>
      [] s = "compiler" -> <<"lexer", "parser", "semantic">>
      [] s = "exec"     -> IF backend = "Bytecode"
                           THEN <<"lexer", "parser", "semantic", "compiler">>
                           ELSE <<"lexer", "parser", "semantic">>
Earlier(s) ==
    CASE s = "lexer"    -> {}
      [] s = "parser"   -> {"lexer"}
      [] s = "semantic" -> {"lexer", "parser"}
      [] s = "compiler" -> {"lexer", "parser", "semantic"}
      [] s = "exec"     -> IF backend = "Bytecode"
                           THEN {"lexer", "parser", "semantic", "compiler"}
                           ELSE {"lexer", "parser", "semantic"}
Through(s) == Append(Before(s), s)

\* The stages that the arguments ask for, and the last of them.
Asked(s) ==
    CASE s = "lexer"    -> TRUE
      [] s \in {"parser", "semantic"} -> Mode # "tokens"
      [] s = "compiler" -> \/ Mode = "inspect" /\ "--bytecode" \in options
                           \/ Mode = "run" /\ backend = "Bytecode"
      [] s = "exec"     -> Mode = "run"
Final(s) ==
    CASE s = "lexer"    -> Mode = "tokens"
      [] s = "parser"   -> FALSE
      [] s = "semantic" -> Mode = "inspect" /\ "--bytecode" \notin options
      [] s = "compiler" -> Mode = "inspect"
      [] s = "exec"     -> TRUE

Modes == {"tokens", "inspect", "run"}

LEMMA PrefixLemma ==
    ASSUME NEW S, NEW r \in Seq(S), NEW p \in Seq(S), Len(r) <= Len(p),
           \A k \in 1 .. Len(r) : r[k] = p[k]
    PROVE  r = SubSeq(p, 1, Len(r)) /\ (Len(r) = Len(p) => r = p)
<1>1. Len(r) \in Nat /\ Len(p) \in Nat /\ \A k \in 1 .. Len(r) : p[k] \in S
  BY LenProperties, ElementOfSeq
<1>2. PICK n \in Int : n = Len(r)
  BY <1>1
<1>3. /\ SubSeq(p, 1, n) \in Seq(S) /\ Len(SubSeq(p, 1, n)) = n
      /\ \A k \in 1 .. n : SubSeq(p, 1, n)[k] = p[k]
  BY <1>1, <1>2, SubSeqProperties
<1> QED
  BY <1>2, <1>3, SeqEqual

LEMMA TupleLemma ==
    /\ << >> \in Seq(Stage) /\ <<"lexer">> \in Seq(Stage)
    /\ <<"lexer", "parser">> \in Seq(Stage)
    /\ <<"lexer", "parser", "semantic">> \in Seq(Stage)
    /\ <<"lexer", "parser", "semantic", "compiler">> \in Seq(Stage)
    /\ \A s \in Stage : <<s>> \in Seq(Stage)
BY DEF Stage

LEMMA ThroughLemma ==
    ASSUME backend \in Backend, NEW s \in Stage
    PROVE  Through(s) =
               CASE s = "lexer"    -> <<"lexer">>
                 [] s = "parser"   -> <<"lexer", "parser">>
                 [] s = "semantic" -> <<"lexer", "parser", "semantic">>
                 [] s = "compiler" -> <<"lexer", "parser", "semantic", "compiler">>
                 [] s = "exec"     ->
                       IF backend = "Bytecode"
                       THEN <<"lexer", "parser", "semantic", "compiler", "exec">>
                       ELSE <<"lexer", "parser", "semantic", "exec">>
<1>1. CASE s = "lexer"
  <2>1. Through(s) = << >> \o <<"lexer">>
    BY <1>1, TupleLemma, AppendIsConcat DEF Through, Before
  <2> QED
    BY <1>1, <2>1
<1>2. CASE s = "parser"
  <2>1. Through(s) = <<"lexer">> \o <<"parser">>
    BY <1>2, TupleLemma, AppendIsConcat DEF Through, Before
  <2> QED
    BY <1>2, <2>1
<1>3. CASE s = "semantic"
  <2>1. Through(s) = <<"lexer", "parser">> \o <<"semantic">>
    BY <1>3, TupleLemma, AppendIsConcat DEF Through, Before
  <2> QED
    BY <1>3, <2>1
<1>4. CASE s = "compiler"
  <2>1. Through(s) = <<"lexer", "parser", "semantic">> \o <<"compiler">>
    BY <1>4, TupleLemma, AppendIsConcat DEF Through, Before
  <2> QED
    BY <1>4, <2>1
<1>5. CASE s = "exec" /\ backend = "Bytecode"
  <2>1. Through(s) = <<"lexer", "parser", "semantic", "compiler">> \o <<"exec">>
    BY <1>5, TupleLemma, AppendIsConcat DEF Through, Before
  <2> QED
    BY <1>5, <2>1
<1>6. CASE s = "exec" /\ backend # "Bytecode"
  <2>1. Through(s) = <<"lexer", "parser", "semantic">> \o <<"exec">>
    BY <1>6, TupleLemma, AppendIsConcat DEF Through, Before
  <2> QED
    BY <1>6, <2>1
<1> QED
  BY <1>1, <1>2, <1>3, <1>4, <1>5, <1>6 DEF Stage

LEMMA PipelineLemma ==
    Pipeline = CASE Mode = "tokens"  -> <<"lexer">>
                 [] Mode = "inspect" -> IF "--bytecode" \in options
                                        THEN <<"lexer", "parser", "semantic", "compiler">>
                                        ELSE <<"lexer", "parser", "semantic">>
                 [] Mode = "run"     ->
                       IF backend = "Bytecode"
                       THEN <<"lexer", "parser", "semantic", "compiler", "exec">>
                       ELSE <<"lexer", "parser", "semantic", "exec">>
BY DEF Pipeline, FrontEnd

LEMMA ModesLemma == Mode \in Modes
BY DEF Mode, Modes

\* The stages by number.
StageAt(k) ==
    CASE k = 1 -> "lexer" [] k = 2 -> "parser" [] k = 3 -> "semantic"
      [] k = 4 -> IF Mode = "run" /\ backend # "Bytecode" THEN "exec" ELSE "compiler"
      [] k = 5 -> "exec"
Turn(s) ==
    CASE s = "lexer" -> 1 [] s = "parser" -> 2 [] s = "semantic" -> 3
      [] s = "compiler" -> 4 [] s = "exec" -> IF backend = "Bytecode" THEN 5 ELSE 4
Turns ==
    CASE Mode = "tokens"  -> 1
      [] Mode = "inspect" -> IF "--bytecode" \in options THEN 4 ELSE 3
      [] Mode = "run"     -> IF backend = "Bytecode" THEN 5 ELSE 4

LEMMA StagesLemma ==
    ASSUME backend \in Backend, NEW s \in Stage
    PROVE  /\ Len(Through(s)) >= 1 /\ Through(s) # << >> /\ Last(Through(s)) = s
           /\ Through(s)[Len(Through(s))] = s
           /\ Range(Through(s)) = Earlier(s) \cup {s}
           /\ \A k \in 1 .. Len(Through(s)) - 1 : Through(s)[k] \in Earlier(s)
           /\ Len(Through(s)) = Turn(s)
           /\ Asked(s) => \A k \in 1 .. Turn(s) : Through(s)[k] = StageAt(k)
<1>1. CASE s = "lexer"
  <2>1. PICK r : r = <<"lexer">>
    OBVIOUS
  <2>2. Through(s) = r /\ Earlier(s) = {}
    BY <1>1, <2>1, ThroughLemma DEF Earlier
  <2>3. Len(r) >= 1 /\ r # << >> /\ r[Len(r)] = "lexer"
    BY <2>1
  <2>4. Range(r) = {} \cup {"lexer"}
    BY <2>1 DEF Range
  <2>5. \A k \in 1 .. Len(r) - 1 : r[k] \in {}
    BY <2>1
  <2>6. Len(r) = 1 /\ Turn(s) = 1
    BY <1>1, <2>1 DEF Turn
  <2>7. Asked(s) => \A k \in 1 .. 1 : r[k] = StageAt(k)
    BY <1>1, <2>1 DEF StageAt, Asked
  <2> QED
    BY <1>1, <2>2, <2>3, <2>4, <2>5, <2>6, <2>7, Zenon DEF Last
<1>2. CASE s = "parser"
  <2>1. PICK r : r = <<"lexer", "parser">>
    OBVIOUS
  <2>2. Through(s) = r /\ Earlier(s) = {"lexer"}
    BY <1>2, <2>1, ThroughLemma DEF Earlier
  <2>3. Len(r) >= 1 /\ r # << >> /\ r[Len(r)] = "parser"
    BY <2>1
  <2>4. Range(r) = {"lexer"} \cup {"parser"}
    BY <2>1 DEF Range
  <2>5. \A k \in 1 .. Len(r) - 1 : r[k] \in {"lexer"}
    BY <2>1
  <2>6. Len(r) = 2 /\ Turn(s) = 2
    BY <1>2, <2>1 DEF Turn
  <2>7. Asked(s) => \A k \in 1 .. 2 : r[k] = StageAt(k)
    BY <1>2, <2>1 DEF StageAt, Asked
  <2> QED
    BY <1>2, <2>2, <2>3, <2>4, <2>5, <2>6, <2>7, Zenon DEF Last
<1>3. CASE s = "semantic"
  <2>1. PICK r : r = <<"lexer", "parser", "semantic">>
    OBVIOUS
  <2>2. Through(s) = r /\ Earlier(s) = {"lexer", "parser"}
    BY <1>3, <2>1, ThroughLemma DEF Earlier
  <2>3. Len(r) >= 1 /\ r # << >> /\ r[Len(r)] = "semantic"
    BY <2>1
  <2>4. Range(r) = {"lexer", "parser"} \cup {"semantic"}
    BY <2>1 DEF Range
  <2>5. \A k \in 1 .. Len(r) - 1 : r[k] \in {"lexer", "parser"}
    BY <2>1
  <2>6. Len(r) = 3 /\ Turn(s) = 3
    BY <1>3, <2>1 DEF Turn
  <2>7. Asked(s) => \A k \in 1 .. 3 : r[k] = StageAt(k)
    BY <1>3, <2>1 DEF StageAt, Asked
  <2> QED
    BY <1>3, <2>2, <2>3, <2>4, <2>5, <2>6, <2>7, Zenon DEF Last
<1>4. CASE s = "compiler"
  <2>1. PICK r : r = <<"lexer", "parser", "semantic", "compiler">>
    OBVIOUS
  <2>2. Through(s) = r /\ Earlier(s) = {"lexer", "parser", "semantic"}
    BY <1>4, <2>1, ThroughLemma DEF Earlier
  <2>3. Len(r) >= 1 /\ r # << >> /\ r[Len(r)] = "compiler"
    BY <2>1
  <2>4. Range(r) = {"lexer", "parser", "semantic"} \cup {"compiler"}
    BY <2>1 DEF Range
  <2>5. \A k \in 1 .. Len(r) - 1 : r[k] \in {"lexer", "parser", "semantic"}
    BY <2>1
  <2>6. Len(r) = 4 /\ Turn(s) = 4
    BY <1>4, <2>1 DEF Turn
  <2>7. Asked(s) => \A k \in 1 .. 4 : r[k] = StageAt(k)
    BY <1>4, <2>1 DEF StageAt, Asked
  <2> QED
    BY <1>4, <2>2, <2>3, <2>4, <2>5, <2>6, <2>7, Zenon DEF Last
<1>5. CASE s = "exec" /\ backend = "Bytecode"
  <2>1. PICK r : r = <<"lexer", "parser", "semantic", "compiler", "exec">>
    OBVIOUS
  <2>2. Through(s) = r /\ Earlier(s) = {"lexer", "parser", "semantic", "compiler"}
    BY <1>5, <2>1, ThroughLemma DEF Earlier
  <2>3. Len(r) >= 1 /\ r # << >> /\ r[Len(r)] = "exec"
    BY <2>1
  <2>4. Range(r) = {"lexer", "parser", "semantic", "compiler"} \cup {"exec"}
    BY <2>1 DEF Range
  <2>5. \A k \in 1 .. Len(r) - 1 : r[k] \in {"lexer", "parser", "semantic", "compiler"}
    BY <2>1
  <2>6. Len(r) = 5 /\ Turn(s) = 5
    BY <1>5, <2>1 DEF Turn
  <2>7. Asked(s) => \A k \in 1 .. 5 : r[k] = StageAt(k)
    BY <1>5, <2>1 DEF StageAt, Asked
  <2> QED
    BY <1>5, <2>2, <2>3, <2>4, <2>5, <2>6, <2>7, Zenon DEF Last
<1>6. CASE s = "exec" /\ backend # "Bytecode"
  <2>1. PICK r : r = <<"lexer", "parser", "semantic", "exec">>
    OBVIOUS
  <2>2. Through(s) = r /\ Earlier(s) = {"lexer", "parser", "semantic"}
    BY <1>6, <2>1, ThroughLemma DEF Earlier
  <2>3. Len(r) >= 1 /\ r # << >> /\ r[Len(r)] = "exec"
    BY <2>1
  <2>4. Range(r) = {"lexer", "parser", "semantic"} \cup {"exec"}
    BY <2>1 DEF Range
  <2>5. \A k \in 1 .. Len(r) - 1 : r[k] \in {"lexer", "parser", "semantic"}
    BY <2>1
  <2>6. Len(r) = 4 /\ Turn(s) = 4
    BY <1>6, <2>1 DEF Turn
  <2>7. Asked(s) => \A k \in 1 .. 4 : r[k] = StageAt(k)
    BY <1>6, <2>1 DEF StageAt, Asked
  <2> QED
    BY <1>6, <2>2, <2>3, <2>4, <2>5, <2>6, <2>7, Zenon DEF Last
<1> QED
  BY <1>1, <1>2, <1>3, <1>4, <1>5, <1>6 DEF Stage

LEMMA PipelineAt ==
    /\ Len(Pipeline) = Turns /\ Turns \in 1 .. 5
    /\ \A k \in 1 .. Turns : Pipeline[k] = StageAt(k)
<1>1. CASE Mode = "tokens"
  <2>1. PICK p : p = <<"lexer">>
    OBVIOUS
  <2>2. Pipeline = p /\ Turns = 1
    BY <1>1, <2>1, PipelineLemma DEF Turns
  <2>3. Len(p) = 1 /\ \A k \in 1 .. 1 : p[k] = StageAt(k)
    BY <1>1, <2>1 DEF StageAt
  <2> QED
    BY <2>2, <2>3
<1>2. CASE Mode = "inspect" /\ "--bytecode" \notin options
  <2>1. PICK p : p = <<"lexer", "parser", "semantic">>
    OBVIOUS
  <2>2. Pipeline = p /\ Turns = 3
    BY <1>2, <2>1, PipelineLemma DEF Turns
  <2>3. Len(p) = 3 /\ \A k \in 1 .. 3 : p[k] = StageAt(k)
    BY <1>2, <2>1 DEF StageAt
  <2> QED
    BY <2>2, <2>3
<1>3. CASE Mode = "inspect" /\ "--bytecode" \in options
  <2>1. PICK p : p = <<"lexer", "parser", "semantic", "compiler">>
    OBVIOUS
  <2>2. Pipeline = p /\ Turns = 4
    BY <1>3, <2>1, PipelineLemma DEF Turns
  <2>3. Len(p) = 4 /\ \A k \in 1 .. 4 : p[k] = StageAt(k)
    BY <1>3, <2>1 DEF StageAt
  <2> QED
    BY <2>2, <2>3
<1>4. CASE Mode = "run" /\ backend # "Bytecode"
  <2>1. PICK p : p = <<"lexer", "parser", "semantic", "exec">>
    OBVIOUS
  <2>2. Pipeline = p /\ Turns = 4
    BY <1>4, <2>1, PipelineLemma DEF Turns
  <2>3. Len(p) = 4 /\ \A k \in 1 .. 4 : p[k] = StageAt(k)
    BY <1>4, <2>1 DEF StageAt
  <2> QED
    BY <2>2, <2>3
<1>5. CASE Mode = "run" /\ backend = "Bytecode"
  <2>1. PICK p : p = <<"lexer", "parser", "semantic", "compiler", "exec">>
    OBVIOUS
  <2>2. Pipeline = p /\ Turns = 5
    BY <1>5, <2>1, PipelineLemma DEF Turns
  <2>3. Len(p) = 5 /\ \A k \in 1 .. 5 : p[k] = StageAt(k)
    BY <1>5, <2>1 DEF StageAt
  <2> QED
    BY <2>2, <2>3
<1> QED
  BY <1>1, <1>2, <1>3, <1>4, <1>5, ModesLemma DEF Modes

\* The stages run are the first of those asked for.
LEMMA WayLemma ==
    ASSUME backend \in Backend, NEW s \in Stage, Asked(s)
    PROVE  /\ Len(Through(s)) <= Len(Pipeline)
           /\ Through(s) = SubSeq(Pipeline, 1, Len(Through(s)))
           /\ Final(s) => Through(s) = Pipeline
<1>1. Turn(s) \in 1 .. Turns /\ (Final(s) => Turn(s) = Turns)
  <2>1. CASE s = "lexer"
    BY <2>1, ModesLemma DEF Turn, Turns, Asked, Final, Modes
  <2>2. CASE s = "parser"
    BY <2>2, ModesLemma DEF Turn, Turns, Asked, Final, Modes
  <2>3. CASE s = "semantic"
    BY <2>3, ModesLemma DEF Turn, Turns, Asked, Final, Modes
  <2>4. CASE s = "compiler"
    BY <2>4, ModesLemma DEF Turn, Turns, Asked, Final, Modes
  <2>5. CASE s = "exec"
    BY <2>5, ModesLemma DEF Turn, Turns, Asked, Final, Modes
  <2> QED
    BY <2>1, <2>2, <2>3, <2>4, <2>5 DEF Stage
<1>2. Len(Through(s)) = Turn(s) /\ Len(Pipeline) = Turns /\ Turns \in 1 .. 5
  BY StagesLemma, PipelineAt
<1>3. \A k \in 1 .. Turn(s) : Through(s)[k] = Pipeline[k]
  BY <1>1, <1>2, StagesLemma, PipelineAt
<1>4. Through(s) \in Seq(Stage) /\ Pipeline \in Seq(Stage)
  <2>1. Before(s) \in Seq(Stage)
    BY TupleLemma, Zenon DEF Before, Stage
  <2>2. Through(s) \in Seq(Stage)
    BY <2>1, AppendProperties DEF Through
  <2>3. /\ <<"compiler">> \in Seq(Stage) /\ <<"exec">> \in Seq(Stage)
        /\ <<"compiler", "exec">> \in Seq(Stage)
    BY DEF Stage
  <2>4. FrontEnd \in Seq(Stage)
    BY TupleLemma DEF FrontEnd
  <2>5. Pipeline \in Seq(Stage)
    BY <2>3, <2>4, TupleLemma, ConcatProperties, ModesLemma DEF Pipeline, Modes
  <2> QED
    BY <2>2, <2>5
<1>5. Turn(s) <= Turns
  BY <1>1, <1>2
<1> QED
  BY <1>1, <1>2, <1>3, <1>4, <1>5, PrefixLemma

-----------------------------------------------------------------------------
(* The invariant.                                                          *)

Output == {"usage", "program", "tokens", "ast", "bytecode"}

NoStop(stages) == \A s \in stages : ~Stops(s)

\* All stages before s have passed.
ReachedAt(s) ==
    Asked(s) /\ ran = Before(s) /\ NoStop(Earlier(s)) /\ reported = << >>

\* Stage s has passed, and all before it.
PassedAt(s) ==
    /\ Asked(s) /\ ran = Through(s) /\ NoStop(Earlier(s)) /\ ~Stops(s)
    /\ reported = << >>

\* Stage s is the last one that is run.
EndedAt(s) ==
    /\ Asked(s) /\ ran = Through(s) /\ NoStop(Earlier(s)) /\ (Stops(s) \/ Final(s))
    /\ reported = IF s \in refuses /\ throws # s THEN <<s>> ELSE << >>

Ended == \E s \in Stage : EndedAt(s) /\ throws # s

TypeInv ==
    /\ at \in Stage \cup {"args", "print", "disassemble", "report", "return", "failed",
                          "exit"}
    /\ backend \in Backend /\ out \in Seq(Output)
    /\ refuses \subseteq {"lexer", "parser", "semantic", "exec"}
    /\ throws \in Stage \cup {"none"}
    /\ readTime \in Nat

PlaceInv ==
    /\ at = "args" => ran = << >> /\ reported = << >> /\ out = << >>
    /\ \A s \in Stage : at = s => ReachedAt(s)
    /\ at = "print" =>
          Mode # "run" /\ PassedAt(IF Mode = "tokens" THEN "lexer" ELSE "semantic")
    /\ at = "disassemble" => Mode = "inspect" /\ PassedAt("compiler")
    /\ at = "report" => Mode = "run" /\ Ended
    /\ at = "return" => Ended /\ (Mode = "tokens" \/ reported = << >>)
    /\ at = "failed" => Ended /\ Mode # "tokens" /\ reported # << >>
    /\ at = "exit" =>
          (ran = << >> /\ reported = << >>) \/ \E s \in Stage : EndedAt(s)

OutInv ==
    /\ Range(out) \cap {"ast", "bytecode", "program"} # {} =>
          Range(FrontEnd) \cap refuses = {}
    /\ Mode # "run" => "program" \notin Range(out)

WayInv == TypeInv /\ PlaceInv /\ OutInv /\ ExitTells

LEMMA OutLemma ==
    ASSUME out \in Seq(Output), NEW e \in Output
    PROVE  Append(out, e) \in Seq(Output) /\ Range(Append(out, e)) = Range(out) \cup {e}
<1>1. <<e>> \in Seq(Output) /\ Range(<<e>>) = {e}
  BY DEF Range
<1>2. Append(out, e) = out \o <<e>>
  BY AppendIsConcat
<1>3. out \o <<e>> \in Seq(Output) /\ Range(out \o <<e>>) = Range(out) \cup Range(<<e>>)
  BY <1>1, ConcatProperties, RangeConcatenation, ZenonT(60)
<1> QED
  BY <1>1, <1>2, <1>3, Zenon

LEMMA EmptyLemma == Range(<< >>) = {} /\ << >> \in Seq(Output)
<1>1. << >> \in Seq(Output) /\ Len(<< >>) = 0
  OBVIOUS
<1>2. Range(<< >>) = {<< >>[i] : i \in 1 .. Len(<< >>)}
  BY <1>1, RangeEquality, Zenon
<1>3. 1 .. Len(<< >>) = {}
  BY <1>1
<1> QED
  BY <1>1, <1>2, <1>3, Zenon

LEMMA FrontEndRange == Range(FrontEnd) = {"lexer", "parser", "semantic"}
BY DEF FrontEnd, Range

LEMMA InitWay ==
    ASSUME DriverInit
    PROVE  WayInv
<1>1. out = << >> /\ Range(out) = {} /\ out \in Seq(Output)
  BY EmptyLemma, Zenon DEF DriverInit
<1>2. TypeInv
  <2>1. /\ refuses \subseteq {"lexer", "parser", "semantic", "exec"}
        /\ throws \in Stage \cup {"none"} /\ readTime \in Nat
    BY DriverAssumption DEF DriverInit
  <2> QED
    BY <1>1, <2>1 DEF DriverInit, TypeInv, Backend
<1>3. PlaceInv
  BY DEF DriverInit, PlaceInv, Stage
<1>4. OutInv
  BY <1>1 DEF OutInv
<1>5. ExitTells
  BY DEF DriverInit, ExitTells
<1> QED
  BY <1>2, <1>3, <1>4, <1>5 DEF WayInv

\* The arguments: nothing is run.
LEMMA ArgsWay ==
    ASSUME WayInv, ReadFlag \/ ReadBackend \/ ReadPath
    PROVE  WayInv'
<1>1. /\ at = "args" /\ at' = "args" /\ ran' = ran /\ out' = out
      /\ reported' = reported /\ refuses' = refuses /\ throws' = throws
      /\ readTime' = readTime /\ backend' \in Backend
  BY DEF ReadFlag, ReadBackend, ReadPath, Reading, decided, WayInv, TypeInv, Backend
<1>2. TypeInv'
  BY <1>1 DEF WayInv, TypeInv
<1>3. PlaceInv'
  BY <1>1 DEF WayInv, PlaceInv, Stage
<1>4. out = << >> /\ Range(out) = {}
  BY <1>1, EmptyLemma, Zenon DEF WayInv, PlaceInv
<1>5. OutInv'
  BY <1>1, <1>4 DEF OutInv
<1>6. ExitTells'
  BY <1>1 DEF ExitTells
<1> QED
  BY <1>2, <1>3, <1>5, <1>6 DEF WayInv

\* What the arguments and the stages are is not changed by what is run.
LEMMA SameLemma ==
    ASSUME UNCHANGED <<options, backend, refuses, throws>>
    PROVE  /\ Mode' = Mode /\ Pipeline' = Pipeline
           /\ \A s : /\ (Asked(s) <=> Asked(s)') /\ (Final(s) <=> Final(s)')
                     /\ Through(s)' = Through(s) /\ Before(s)' = Before(s)
                     /\ Earlier(s)' = Earlier(s) /\ (Stops(s) <=> Stops(s)')
                     /\ (NoStop(Earlier(s)) <=> NoStop(Earlier(s))')
<1>1. Mode' = Mode
  BY DEF Mode
<1>2. Pipeline' = Pipeline
  BY <1>1, Zenon DEF Pipeline
<1>3. ASSUME NEW s
      PROVE  /\ (Asked(s) <=> Asked(s)') /\ (Final(s) <=> Final(s)')
             /\ Through(s)' = Through(s) /\ Before(s)' = Before(s)
             /\ Earlier(s)' = Earlier(s) /\ (Stops(s) <=> Stops(s)')
  <2>1. (Asked(s) <=> Asked(s)') /\ (Final(s) <=> Final(s)')
    BY <1>1 DEF Asked, Final
  <2>2. Before(s)' = Before(s) /\ Earlier(s)' = Earlier(s)
    BY DEF Before, Earlier
  <2>3. Stops(s) <=> Stops(s)'
    BY DEF Stops
  <2> QED
    BY <2>1, <2>2, <2>3, Zenon DEF Through
<1>4. \A s : NoStop(Earlier(s)) <=> NoStop(Earlier(s))'
  BY <1>3, Zenon DEF NoStop
<1> QED
  BY <1>1, <1>2, <1>3, <1>4, Zenon

\* A stage that has passed is before the next one.
LEMMA NextLemma ==
    ASSUME backend \in Backend, NEW s \in Stage, Asked(s), After(s) \in Stage
    PROVE  /\ Asked(After(s)) /\ Before(After(s)) = Through(s)
           /\ Earlier(After(s)) = Earlier(s) \cup {s}
<1>1. CASE s = "lexer"
  <2>1. After(s) = "parser" /\ Mode # "tokens"
    BY <1>1 DEF After, Stage
  <2> QED
    BY <1>1, <2>1, ThroughLemma DEF Asked, Before, Earlier
<1>2. CASE s = "parser"
  <2>1. After(s) = "semantic" /\ Mode # "tokens"
    BY <1>2 DEF After, Asked
  <2> QED
    BY <1>2, <2>1, ThroughLemma DEF Asked, Before, Earlier
<1>3. CASE s = "semantic" /\ backend = "Bytecode"
  <2>1. After(s) = "compiler" /\ Mode = "run"
    BY <1>3, ModesLemma DEF After, Asked, Stage, Modes
  <2> QED
    BY <1>3, <2>1, ThroughLemma DEF Asked, Before, Earlier
<1>4. CASE s = "semantic" /\ backend # "Bytecode"
  <2>1. After(s) = "exec" /\ Mode = "run"
    BY <1>4, ModesLemma DEF After, Asked, Stage, Modes
  <2> QED
    BY <1>4, <2>1, ThroughLemma DEF Asked, Before, Earlier
<1>5. CASE s = "compiler"
  <2>1. After(s) = "exec" /\ Mode = "run" /\ backend = "Bytecode"
    BY <1>5, ModesLemma DEF After, Asked, Stage, Modes
  <2> QED
    BY <1>5, <2>1, ThroughLemma DEF Asked, Before, Earlier
<1>6. s # "exec"
  BY DEF After, Stage
<1> QED
  BY <1>1, <1>2, <1>3, <1>4, <1>5, <1>6 DEF Stage

\* The program is not run: the arguments are refused, or ask for help.
LEMMA RefuseArgs ==
    ASSUME WayInv, at = "args", NEW code \in {0, 2}, Exit(code),
           out' = out \/ out' = Append(out, "usage"), code = 0 => out' # out
    PROVE  WayInv'
<1>1. /\ at' = "exit" /\ exit' = code /\ ran' = << >> /\ reported' = << >>
      /\ backend' = backend /\ refuses' = refuses /\ throws' = throws
      /\ readTime' = readTime
  BY DEF Exit, given, decided, WayInv, PlaceInv
<1>2. out = << >> /\ out \in Seq(Output) /\ Range(out) = {} /\ "usage" \in Output
  BY EmptyLemma, Zenon DEF WayInv, PlaceInv, Output
<1>3. /\ out' \in Seq(Output) /\ Range(out') \subseteq {"usage"}
      /\ code = 0 => "usage" \in Range(out')
  BY <1>2, OutLemma
<1>4. TypeInv'
  BY <1>1, <1>3 DEF WayInv, TypeInv
<1>5. PlaceInv'
  BY <1>1 DEF PlaceInv, Stage
<1>6. OutInv'
  BY <1>3 DEF OutInv
<1>7. ExitTells'
  BY <1>1, <1>3 DEF ExitTells, Aborted
<1> QED
  BY <1>4, <1>5, <1>6, <1>7 DEF WayInv

LEMMA OpenWay ==
    ASSUME WayInv, ReadHelp \/ ReadUnknown \/ Open
    PROVE  WayInv'
<1>1. at = "args" /\ out = << >> /\ Append(out, "usage") # out
  <2>1. at = "args"
    BY DEF ReadHelp, ReadUnknown, Open
  <2>2. out = << >>
    BY <2>1 DEF WayInv, PlaceInv
  <2>3. out \in Seq(Output) /\ "usage" \in Output
    BY DEF WayInv, TypeInv, Output
  <2>4. "usage" \in Range(Append(out, "usage")) /\ Range(out) = {}
    BY <2>2, <2>3, OutLemma, EmptyLemma
  <2>5. ASSUME Append(out, "usage") = out
        PROVE  FALSE
    <3>1. Range(Append(out, "usage")) = Range(out)
      BY <2>5, Zenon
    <3> QED
      BY <2>4, <3>1, Zenon
  <2> QED
    BY <2>1, <2>2, <2>5
<1>2. CASE \E code \in {0, 2} :
              /\ Exit(code) /\ (out' = out \/ out' = Append(out, "usage"))
              /\ code = 0 => out' # out
  BY <1>1, <1>2, RefuseArgs, Zenon
<1>3. CASE at' = "lexer" /\ UNCHANGED <<given, decided, ran, out, reported, exit>>
  <2>1. UNCHANGED <<options, backend, refuses, throws, readTime>>
    BY <1>3 DEF given, decided
  <2>2. TypeInv'
    BY <1>3, <2>1 DEF WayInv, TypeInv, Stage
  <2>3. ReachedAt("lexer")'
    BY <1>1, <1>3 DEF ReachedAt, Asked, Before, Earlier, NoStop, WayInv, PlaceInv
  <2>4. PlaceInv'
    BY <1>3, <2>3, Zenon DEF PlaceInv
  <2>5. OutInv'
    BY <1>1, <1>3, EmptyLemma DEF OutInv
  <2>6. ExitTells'
    BY <1>3 DEF ExitTells
  <2> QED
    BY <2>2, <2>4, <2>5, <2>6 DEF WayInv
<1>4. CASE ReadHelp
  BY <1>1, <1>2, <1>4 DEF ReadHelp, Usage
<1>5. CASE ReadUnknown
  BY <1>1, <1>2, <1>5 DEF ReadUnknown, Usage
<1>6. CASE Open
  <2>1. CASE Usage(2)
    BY <1>1, <1>2, <2>1 DEF Usage
  <2>2. CASE Exit(2) /\ UNCHANGED out
    BY <1>1, <1>2, <2>2
  <2>3. CASE at' = "lexer" /\ UNCHANGED <<given, decided, ran, out, reported, exit>>
    BY <1>3, <2>3
  <2> QED
    BY <1>6, <2>1, <2>2, <2>3 DEF Open
<1> QED
  BY <1>4, <1>5, <1>6

-----------------------------------------------------------------------------
(* The stages: what is common to one that throws and one that does not.    *)

LEMMA EnterWay ==
    ASSUME WayInv, NEW stage \in Stage, Enter(stage), UNCHANGED <<given, decided>>,
           out' = IF stage = "exec" THEN Append(out, "program") ELSE out
    PROVE  /\ UNCHANGED <<options, backend, refuses, throws, readTime>>
           /\ Asked(stage)' /\ ran' = Through(stage)' /\ NoStop(Earlier(stage))'
           /\ Asked(stage) /\ ran' = Through(stage) /\ NoStop(Earlier(stage))
           /\ reported = << >> /\ out' \in Seq(Output) /\ OutInv'
<1>1. UNCHANGED <<options, backend, refuses, throws, readTime>>
  BY DEF given, decided
<1>2. /\ Asked(stage) /\ ran = Before(stage) /\ NoStop(Earlier(stage))
      /\ reported = << >>
  BY DEF Enter, WayInv, PlaceInv, ReachedAt
<1>3. ran' = Through(stage)
  BY <1>2, Zenon DEF Enter, Through
<1>4. Asked(stage)' /\ ran' = Through(stage)' /\ NoStop(Earlier(stage))'
  BY <1>1, <1>2, <1>3, SameLemma, Zenon
<1>5. "program" \in Output /\ out \in Seq(Output)
  BY DEF Output, WayInv, TypeInv
<1>6. /\ out' \in Seq(Output)
      /\ Range(out') = Range(out) \cup IF stage = "exec" THEN {"program"} ELSE {}
  <2>1. CASE stage = "exec"
    BY <1>5, <2>1, OutLemma, Zenon
  <2>2. CASE stage # "exec"
    BY <1>5, <2>2, Zenon
  <2> QED
    BY <2>1, <2>2
<1>7. OutInv'
  <2>1. CASE stage = "exec"
    <3>1. Mode' = "run"
      BY <1>4, <2>1 DEF Asked
    <3>2. {"lexer", "parser", "semantic"} \cap refuses' = {}
      <4>1. {"lexer", "parser", "semantic"} \subseteq Earlier(stage)
        BY <2>1 DEF Earlier
      <4> QED
        BY <1>1, <1>2, <4>1 DEF NoStop, Stops
    <3> QED
      BY <3>1, <3>2, FrontEndRange DEF OutInv
  <2>2. CASE stage # "exec"
    BY <1>1, <1>6, <2>2, SameLemma DEF OutInv, WayInv
  <2> QED
    BY <2>1, <2>2
<1> QED
  BY <1>1, <1>2, <1>3, <1>4, <1>6, <1>7

\* What a stage leaves after a refusal, and after it has passed.
LEMMA RefuseWay ==
    ASSUME WayInv, NEW stage \in Stage, Enter(stage), UNCHANGED <<given, decided>>,
           out' = IF stage = "exec" THEN Append(out, "program") ELSE out,
           throws # stage, stage \in refuses, reported' = Append(reported, stage),
           at' = AfterRefusal
    PROVE  WayInv'
<1>1. /\ UNCHANGED <<options, backend, refuses, throws, readTime>>
      /\ Asked(stage)' /\ ran' = Through(stage)' /\ NoStop(Earlier(stage))'
      /\ reported = << >> /\ out' \in Seq(Output) /\ OutInv'
  BY EnterWay, Zenon
<1>2. Mode' = Mode /\ Mode \in Modes
  BY <1>1, SameLemma, ModesLemma, Zenon
<1>3. reported' = <<stage>> /\ reported' # << >>
  <2>1. Append(<< >>, stage) = << >> \o <<stage>>
    BY TupleLemma, AppendIsConcat
  <2> QED
    BY <1>1, <2>1
<1>4. Stops(stage)' /\ stage \in refuses' /\ throws' # stage
  BY <1>1 DEF Stops
<1>5. EndedAt(stage)'
  BY <1>1, <1>3, <1>4, Zenon DEF EndedAt
<1>6. Ended'
  BY <1>4, <1>5, Zenon DEF Ended
<1>7. at' = CASE Mode' = "tokens" -> "return" [] Mode' = "inspect" -> "failed"
              [] Mode' = "run" -> "report"
  BY <1>2 DEF AfterRefusal, Modes
<1>8. TypeInv'
  BY <1>1, <1>2, <1>7 DEF WayInv, TypeInv, Modes
<1>9. at' \in {"return", "failed", "report"}
  BY <1>2, <1>7 DEF Modes
<1>10. /\ at' = "return" => Mode' = "tokens"
       /\ at' = "failed" => Mode' = "inspect"
       /\ at' = "report" => Mode' = "run"
  BY <1>2, <1>7 DEF Modes
<1>11. PlaceInv'
  BY <1>3, <1>6, <1>9, <1>10 DEF PlaceInv, Stage
<1>12. ExitTells'
  BY <1>9 DEF ExitTells
<1> QED
  BY <1>1, <1>8, <1>11, <1>12 DEF WayInv

LEMMA PassWay ==
    ASSUME WayInv, NEW stage \in Stage, Enter(stage), UNCHANGED <<given, decided>>,
           out' = IF stage = "exec" THEN Append(out, "program") ELSE out,
           throws # stage, stage \notin refuses, reported' = reported,
           at' = After(stage)
    PROVE  WayInv'
<1>1. /\ UNCHANGED <<options, backend, refuses, throws, readTime>>
      /\ Asked(stage)' /\ ran' = Through(stage)' /\ NoStop(Earlier(stage))'
      /\ Asked(stage) /\ ran' = Through(stage) /\ NoStop(Earlier(stage))
      /\ reported = << >> /\ out' \in Seq(Output) /\ OutInv'
  BY EnterWay, Zenon
<1>2. Mode' = Mode /\ Mode \in Modes
  BY <1>1, SameLemma, ModesLemma, Zenon
<1>3. ~Stops(stage) /\ ~Stops(stage)' /\ reported' = << >>
  BY <1>1 DEF Stops
<1>4. PassedAt(stage)'
  BY <1>1, <1>3, Zenon DEF PassedAt
<1>5. CASE stage = "exec"
  <2>1. at' = "report" /\ Mode' = "run"
    BY <1>1, <1>5 DEF After, Asked
  <2>2. Final(stage)'
    BY <1>5 DEF Final
  <2>3. Ended'
    BY <1>1, <1>3, <1>4, <2>2 DEF Ended, EndedAt, PassedAt
  <2>4. PlaceInv'
    BY <2>1, <2>3 DEF PlaceInv, Stage
  <2>5. TypeInv' /\ ExitTells'
    BY <1>1, <2>1 DEF TypeInv, WayInv, ExitTells
  <2> QED
    BY <1>1, <2>4, <2>5 DEF WayInv
<1>6. CASE stage = "compiler" /\ Mode = "inspect"
  <2>1. at' = "disassemble"
    BY <1>6 DEF After
  <2>2. PlaceInv'
    BY <1>2, <1>4, <1>6, <2>1 DEF PlaceInv, Stage
  <2>3. TypeInv' /\ ExitTells'
    BY <1>1, <2>1 DEF TypeInv, WayInv, ExitTells
  <2> QED
    BY <1>1, <2>2, <2>3 DEF WayInv
<1>7. CASE \/ stage = "lexer" /\ Mode = "tokens"
           \/ stage = "semantic" /\ Mode = "inspect"
  <2>1. at' = "print"
    BY <1>7 DEF After
  <2>2. PlaceInv'
    BY <1>2, <1>4, <1>7, <2>1 DEF PlaceInv, Stage
  <2>3. TypeInv' /\ ExitTells'
    BY <1>1, <2>1 DEF TypeInv, WayInv, ExitTells
  <2> QED
    BY <1>1, <2>2, <2>3 DEF WayInv
<1>8. CASE After(stage) \in Stage
  <2>1. PICK next \in Stage : next = After(stage)
    BY <1>8
  <2>2. /\ Asked(next) /\ Before(next) = Through(stage)
        /\ Earlier(next) = Earlier(stage) \cup {stage}
    BY <1>1, <2>1, NextLemma DEF WayInv, TypeInv
  <2>3. NoStop(Earlier(next))
    BY <1>1, <1>3, <2>2 DEF NoStop
  <2>4. Asked(next)' /\ ran' = Before(next)' /\ NoStop(Earlier(next))'
    <3>1. /\ (Asked(next) <=> Asked(next)') /\ Before(next)' = Before(next)
          /\ (NoStop(Earlier(next)) <=> NoStop(Earlier(next))')
      BY <1>1, SameLemma, Zenon
    <3> QED
      BY <1>1, <2>2, <2>3, <3>1, Zenon
  <2>5. at' = next /\ ReachedAt(next)'
    BY <1>3, <2>1, <2>4, Zenon DEF ReachedAt
  <2>6. PlaceInv'
    BY <2>5 DEF PlaceInv, Stage
  <2>7. TypeInv' /\ ExitTells'
    BY <1>1, <2>5 DEF TypeInv, WayInv, ExitTells, Stage
  <2> QED
    BY <1>1, <2>6, <2>7 DEF WayInv
<1>9. \/ stage = "exec" \/ After(stage) \in Stage
      \/ stage = "compiler" /\ Mode = "inspect"
      \/ stage = "lexer" /\ Mode = "tokens"
      \/ stage = "semantic" /\ Mode = "inspect"
  <2>1. stage = "lexer" /\ Mode # "tokens" => After(stage) = "parser"
    BY DEF After
  <2>2. stage = "parser" => After(stage) = "semantic"
    BY DEF After
  <2>3. stage = "semantic" /\ Mode # "inspect" => After(stage) \in {"compiler", "exec"}
    BY DEF After
  <2>4. stage = "compiler" /\ Mode # "inspect" => After(stage) = "exec"
    BY DEF After
  <2> QED
    BY <2>1, <2>2, <2>3, <2>4 DEF Stage
<1> QED
  BY <1>5, <1>6, <1>7, <1>8, <1>9, Zenon

LEMMA RunWay ==
    ASSUME WayInv, RunStage
    PROVE  WayInv'
<1>1. PICK stage \in Stage :
        /\ Enter(stage) /\ throws # stage
        /\ IF stage \in refuses
           THEN reported' = Append(reported, stage) /\ at' = AfterRefusal
           ELSE at' = After(stage) /\ reported' = reported
        /\ out' = IF stage = "exec" THEN Append(out, "program") ELSE out
        /\ UNCHANGED <<given, decided>>
  BY DEF RunStage
<1>2. CASE stage \in refuses
  BY <1>1, <1>2, RefuseWay, Zenon
<1>3. CASE stage \notin refuses
  BY <1>1, <1>3, PassWay, Zenon
<1> QED
  BY <1>2, <1>3

LEMMA ThrowWay ==
    ASSUME WayInv, ThrowStage
    PROVE  WayInv'
<1>1. PICK stage \in Stage :
        /\ Enter(stage) /\ throws = stage
        /\ at' = "exit" /\ exit' = ThrowCode
        /\ out' = IF stage = "exec" THEN Append(out, "program") ELSE out
        /\ UNCHANGED <<given, decided>> /\ reported' = reported
  BY DEF ThrowStage
<1>2. /\ UNCHANGED <<options, backend, refuses, throws, readTime>>
      /\ Asked(stage)' /\ ran' = Through(stage)' /\ NoStop(Earlier(stage))'
      /\ reported = << >> /\ out' \in Seq(Output) /\ OutInv'
  BY <1>1, EnterWay, Zenon
<1>3. Mode' = Mode /\ Mode \in Modes
  BY <1>2, SameLemma, ModesLemma, Zenon
<1>4. throws' = stage /\ Stops(stage)' /\ reported' = << >>
  BY <1>1, <1>2 DEF Stops
<1>5. EndedAt(stage)'
  BY <1>2, <1>4 DEF EndedAt
<1>6. TypeInv'
  BY <1>1, <1>2 DEF WayInv, TypeInv
<1>7. PlaceInv'
  BY <1>1, <1>5 DEF PlaceInv, Stage
<1>8. ran' # << >> /\ Last(ran') = stage
  <2>1. Through(stage) # << >> /\ Last(Through(stage)) = stage
    BY StagesLemma, Zenon DEF WayInv, TypeInv
  <2>2. ran' = Through(stage)
    BY <1>2, SameLemma, Zenon
  <2> QED
    BY <2>1, <2>2, Zenon
<1>9. exit' = 3 \/ (exit' = Aborted /\ "program" \notin Range(out'))
  <2>1. Mode' = "run" => exit' = 3
    BY <1>1, <1>3, Zenon DEF ThrowCode
  <2>2. Mode' # "run" => exit' = Aborted
    BY <1>1, <1>3, Zenon DEF ThrowCode
  <2>3. Mode' # "run" => "program" \notin Range(out')
    BY <1>2, Zenon DEF OutInv
  <2> QED
    BY <2>1, <2>2, <2>3, Zenon
<1>10. ExitTells'
  BY <1>4, <1>8, <1>9 DEF ExitTells, Aborted
<1> QED
  BY <1>2, <1>6, <1>7, <1>10 DEF WayInv

-----------------------------------------------------------------------------
(* Printing, and the end.                                                  *)

LEMMA ShowWay ==
    ASSUME WayInv, Show
    PROVE  WayInv'
<1>1. /\ UNCHANGED <<options, backend, refuses, throws, readTime>>
      /\ UNCHANGED <<ran, reported, exit>> /\ at = "print"
  BY DEF Show, given, decided
<1>2. Mode' = Mode /\ Mode \in {"tokens", "inspect"}
  BY <1>1, SameLemma, ModesLemma DEF WayInv, PlaceInv, Modes
<1>3. out' \in Seq(Output) /\ Range(out') \subseteq Range(out) \cup {"tokens", "ast"}
  <2>1. {"tokens", "ast"} \subseteq Output /\ out \in Seq(Output)
    BY DEF Output, WayInv, TypeInv
  <2>2. out' = out \o <<"tokens">> \/ out' = out \o <<"ast">> \/ out' = out \o << >>
    BY DEF Show
  <2>3. /\ Append(out, "tokens") = out \o <<"tokens">>
        /\ Append(out, "ast") = out \o <<"ast">>
        /\ out \o << >> = out
    BY <2>1, AppendIsConcat, ConcatEmptySeq
  <2> QED
    BY <2>1, <2>2, <2>3, OutLemma
<1>4. PICK s \in {"lexer", "semantic"} :
        PassedAt(s) /\ s = IF Mode = "tokens" THEN "lexer" ELSE "semantic"
  BY <1>1 DEF WayInv, PlaceInv
<1>5. PassedAt(s)'
  BY <1>1, <1>4, SameLemma, Zenon DEF PassedAt
<1>6. CASE Mode = "tokens"
  <2>1. at' = "return" /\ out' = out \o <<"tokens">>
    BY <1>6 DEF Show
  <2>2. Range(out') = Range(out) \cup {"tokens"}
    <3>1. "tokens" \in Output /\ out \in Seq(Output)
      BY DEF Output, WayInv, TypeInv
    <3>2. Append(out, "tokens") = out \o <<"tokens">>
      BY <3>1, AppendIsConcat
    <3> QED
      BY <2>1, <3>1, <3>2, OutLemma, Zenon
  <2>3. OutInv'
    BY <1>1, <1>2, <2>2 DEF OutInv, WayInv
  <2>4. EndedAt("lexer")' /\ throws' # "lexer"
    BY <1>2, <1>4, <1>5, <1>6 DEF PassedAt, EndedAt, Final, Stops
  <2>5. PlaceInv'
    BY <1>2, <1>6, <2>1, <2>4 DEF PlaceInv, Ended, Stage
  <2>6. TypeInv' /\ ExitTells'
    BY <1>1, <1>3, <2>1 DEF WayInv, TypeInv, ExitTells
  <2> QED
    BY <2>3, <2>5, <2>6 DEF WayInv
<1>7. CASE Mode = "inspect"
  <2>1. PassedAt("semantic") /\ PassedAt("semantic")'
    BY <1>4, <1>5, <1>7
  <2>2. {"lexer", "parser", "semantic"} \cap refuses' = {}
    BY <1>1, <2>1 DEF PassedAt, Earlier, NoStop, Stops
  <2>3. OutInv'
    BY <1>1, <1>2, <1>3, <1>7, <2>2, FrontEndRange DEF OutInv, WayInv
  <2>4. CASE "--bytecode" \in options
    <3>1. at' = "compiler"
      BY <1>7, <2>4 DEF Show
    <3>2. /\ Asked("compiler") /\ Before("compiler") = Through("semantic")
          /\ Earlier("compiler") = Earlier("semantic") \cup {"semantic"}
      BY <1>7, <2>4, ThroughLemma DEF Asked, Before, Earlier, WayInv, TypeInv, Stage
    <3>3. /\ Asked("compiler")' /\ Before("compiler")' = Through("semantic")'
          /\ Earlier("compiler")' = Earlier("semantic")' \cup {"semantic"}
      BY <1>1, <3>2, SameLemma, Zenon
    <3>4. ReachedAt("compiler")'
      BY <2>1, <3>3 DEF PassedAt, ReachedAt, NoStop
    <3>5. PlaceInv'
      BY <3>1, <3>4 DEF PlaceInv, Stage
    <3>6. TypeInv' /\ ExitTells'
      BY <1>1, <1>3, <3>1 DEF WayInv, TypeInv, ExitTells, Stage
    <3> QED
      BY <2>3, <3>5, <3>6 DEF WayInv
  <2>5. CASE "--bytecode" \notin options
    <3>1. at' = "return"
      BY <1>7, <2>5 DEF Show
    <3>2. EndedAt("semantic")' /\ throws' # "semantic"
      BY <1>1, <1>2, <1>7, <2>1, <2>5 DEF PassedAt, EndedAt, Final, Stops
    <3>3. PlaceInv'
      BY <2>1, <3>1, <3>2 DEF PlaceInv, Ended, Stage, PassedAt
    <3>4. TypeInv' /\ ExitTells'
      BY <1>1, <1>3, <3>1 DEF WayInv, TypeInv, ExitTells
    <3> QED
      BY <2>3, <3>3, <3>4 DEF WayInv
  <2> QED
    BY <2>4, <2>5
<1> QED
  BY <1>2, <1>6, <1>7

LEMMA DisassembleWay ==
    ASSUME WayInv, Disassemble
    PROVE  WayInv'
<1>1. /\ UNCHANGED <<options, backend, refuses, throws, readTime>>
      /\ UNCHANGED <<ran, reported, exit>> /\ at = "disassemble" /\ at' = "return"
      /\ out' = Append(out, "bytecode")
  BY DEF Disassemble, given, decided
<1>2. Mode' = Mode /\ Mode = "inspect" /\ PassedAt("compiler")
  BY <1>1, SameLemma DEF WayInv, PlaceInv
<1>3. out' \in Seq(Output) /\ Range(out') = Range(out) \cup {"bytecode"}
  <2>1. "bytecode" \in Output /\ out \in Seq(Output)
    BY DEF Output, WayInv, TypeInv
  <2> QED
    BY <1>1, <2>1, OutLemma, Zenon
<1>4. PassedAt("compiler")'
  BY <1>1, <1>2, SameLemma, Zenon DEF PassedAt
<1>5. OutInv'
  <2>1. {"lexer", "parser", "semantic"} \cap refuses' = {}
    BY <1>1, <1>2 DEF PassedAt, Earlier, NoStop, Stops
  <2> QED
    BY <1>1, <1>2, <1>3, <2>1, FrontEndRange DEF OutInv, WayInv
<1>6. EndedAt("compiler")' /\ throws' # "compiler" /\ reported' = << >>
  BY <1>2, <1>4 DEF PassedAt, EndedAt, Final, Stops
<1>7. PlaceInv'
  BY <1>1, <1>6 DEF PlaceInv, Ended, Stage
<1>8. TypeInv' /\ ExitTells'
  BY <1>1, <1>3 DEF WayInv, TypeInv, ExitTells
<1> QED
  BY <1>5, <1>7, <1>8 DEF WayInv

LEMMA ReportWay ==
    ASSUME WayInv, ReportTimes
    PROVE  WayInv'
<1>1. /\ UNCHANGED <<options, backend, refuses, throws, readTime>>
      /\ UNCHANGED <<ran, out, reported, exit>> /\ at = "report"
      /\ at' = IF reported = << >> THEN "return" ELSE "failed"
  BY DEF ReportTimes, given, decided
<1>2. Mode' = Mode /\ Mode = "run" /\ Ended
  BY <1>1, SameLemma DEF WayInv, PlaceInv
<1>3. Ended'
  BY <1>1, <1>2, SameLemma, Zenon DEF Ended, EndedAt
<1>4. PlaceInv'
  BY <1>1, <1>2, <1>3 DEF PlaceInv, Stage
<1>5. OutInv' /\ TypeInv' /\ ExitTells'
  BY <1>1, <1>2 DEF WayInv, TypeInv, ExitTells, OutInv
<1> QED
  BY <1>4, <1>5 DEF WayInv

LEMMA EndWay ==
    ASSUME WayInv, Return \/ Fail
    PROVE  WayInv'
<1>1. /\ UNCHANGED <<options, backend, refuses, throws, readTime>>
      /\ UNCHANGED <<ran, out, reported>> /\ at' = "exit"
      /\ \/ at = "return" /\ exit' = 0
         \/ at = "failed" /\ exit' = 1
  BY DEF Return, Fail, Exit, given, decided
<1>2. Mode' = Mode /\ Pipeline' = Pipeline
  BY <1>1, SameLemma, Zenon
<1>3. PICK s \in Stage : EndedAt(s) /\ throws # s
  BY <1>1 DEF WayInv, PlaceInv, Ended
<1>4. EndedAt(s)'
  BY <1>1, <1>3, SameLemma, Zenon DEF EndedAt
<1>5. /\ ran = Through(s) /\ ran # << >> /\ Last(ran) = s
      /\ reported = << >> => ran = Pipeline
  <2>1. Through(s) # << >> /\ Last(Through(s)) = s /\ (Final(s) => Through(s) = Pipeline)
    BY <1>3, StagesLemma, WayLemma, Zenon DEF EndedAt, WayInv, TypeInv
  <2>2. reported = << >> => Final(s)
    <3>1. <<s>> # << >>
      OBVIOUS
    <3>2. s \in refuses \/ throws = s => reported = <<s>>
      BY <1>3 DEF EndedAt
    <3> QED
      BY <1>3, <3>1, <3>2 DEF EndedAt, Stops
  <2> QED
    BY <1>3, <2>1, <2>2, Zenon DEF EndedAt
<1>6. /\ exit' = 0 => Mode = "tokens" \/ reported = << >>
      /\ exit' = 1 <=> (reported # << >> /\ Mode # "tokens")
      /\ exit' \in {0, 1}
  BY <1>1 DEF WayInv, PlaceInv
<1>7. ExitTells'
  <2>1. exit' = 0 => Mode' = "tokens" \/ (ran' = Pipeline' /\ reported' = << >>)
    BY <1>1, <1>2, <1>5, <1>6, Zenon
  <2>2. exit' = 1 <=> (reported' # << >> /\ Mode' # "tokens")
    BY <1>1, <1>2, <1>6, Zenon
  <2>3. throws' # Last(ran')
    BY <1>1, <1>3, <1>5, Zenon
  <2>4. exit' # 2 /\ exit' # 3 /\ exit' # Aborted
    BY <1>6 DEF Aborted
  <2> QED
    BY <2>1, <2>2, <2>3, <2>4, Zenon DEF ExitTells
<1>8. PlaceInv'
  BY <1>1, <1>4 DEF PlaceInv, Stage
<1>9. OutInv' /\ TypeInv'
  BY <1>1, <1>2 DEF WayInv, TypeInv, OutInv
<1> QED
  BY <1>7, <1>8, <1>9 DEF WayInv

-----------------------------------------------------------------------------
(* The theorems.                                                           *)

LEMMA WayStep ==
    ASSUME WayInv, [DriverNext]_driverVars
    PROVE  WayInv'
<1>1. CASE ReadFlag \/ ReadBackend \/ ReadPath
  BY <1>1, ArgsWay, Zenon
<1>2. CASE ReadHelp \/ ReadUnknown \/ Open
  BY <1>2, OpenWay, Zenon
<1>3. CASE RunStage
  BY <1>3, RunWay, Zenon
<1>4. CASE ThrowStage
  BY <1>4, ThrowWay, Zenon
<1>5. CASE Show
  BY <1>5, ShowWay, Zenon
<1>6. CASE Disassemble
  BY <1>6, DisassembleWay, Zenon
<1>7. CASE ReportTimes
  BY <1>7, ReportWay, Zenon
<1>8. CASE Return \/ Fail
  BY <1>8, EndWay, Zenon
<1>9. CASE UNCHANGED driverVars
  <2>1. UNCHANGED <<at, ran, out, reported, exit, readTime>>
    BY <1>9 DEF driverVars
  <2>2. UNCHANGED <<options, backend, refuses, throws>>
    BY <1>9 DEF driverVars
  <2>3. Mode' = Mode /\ Pipeline' = Pipeline
    BY <2>2, SameLemma, Zenon
  <2>4. \A s : /\ (ReachedAt(s) <=> ReachedAt(s)') /\ (PassedAt(s) <=> PassedAt(s)')
               /\ (EndedAt(s) <=> EndedAt(s)')
    BY <2>1, <2>2, SameLemma, Zenon DEF ReachedAt, PassedAt, EndedAt
  <2>5. Ended <=> Ended'
    BY <2>2, <2>4, Zenon DEF Ended
  <2>6. PlaceInv'
    <3>1. PlaceInv
      BY DEF WayInv
    <3> QED
      BY <2>1, <2>3, <2>4, <2>5, <3>1, Zenon DEF PlaceInv
  <2>7. TypeInv' /\ OutInv' /\ ExitTells'
    BY <2>1, <2>2, <2>3 DEF WayInv, TypeInv, OutInv, ExitTells
  <2> QED
    BY <2>6, <2>7 DEF WayInv
<1> QED
  BY <1>1, <1>2, <1>3, <1>4, <1>5, <1>6, <1>7, <1>8, <1>9, Zenon DEF DriverNext, ReadArgs

LEMMA WayAlways == DriverSpec => []WayInv
<1>1. DriverInit => WayInv
  BY InitWay, Zenon
<1>2. WayInv /\ [DriverNext]_driverVars => WayInv'
  BY WayStep, Zenon
<1> QED
  BY <1>1, <1>2, PTL DEF DriverSpec

\* Whichever way main takes and whatever the stages do, the stages that have run
\* are the first of those asked for, only the last can have refused or thrown,
\* and no program that the front end refuses is run or printed (main.cpp
\* frontEnd, wika.cpp caR).
THEOREM StagesAlways == DriverSpec => []StagesExact
<1>1. ASSUME WayInv
      PROVE  StagesExact
  <2>1. SUFFICES ASSUME at = "exit", ran # << >>
                 PROVE  LET n == Len(ran)
                        IN  /\ n <= Len(Pipeline) /\ ran = SubSeq(Pipeline, 1, n)
                            /\ \A k \in 1 .. n - 1 : ~Stops(ran[k])
                            /\ n = Len(Pipeline) \/ Stops(ran[n])
                            /\ reported = IF ran[n] \in refuses /\ throws # ran[n]
                                          THEN <<ran[n]>> ELSE << >>
                            /\ Range(out) \cap {"ast", "bytecode", "program"} # {} =>
                                  Range(FrontEnd) \cap refuses = {}
    BY DEF StagesExact
  <2>2. PICK s \in Stage : EndedAt(s)
    BY <1>1, <2>1 DEF WayInv, PlaceInv
  <2>3. ran = Through(s) /\ Asked(s) /\ NoStop(Earlier(s)) /\ backend \in Backend
    BY <1>1, <2>2 DEF EndedAt, WayInv, TypeInv
  <2>4. /\ Len(ran) <= Len(Pipeline) /\ ran = SubSeq(Pipeline, 1, Len(ran))
        /\ Final(s) => ran = Pipeline
    BY <2>3, WayLemma, Zenon
  <2>5. ran[Len(ran)] = s /\ \A k \in 1 .. Len(ran) - 1 : ran[k] \in Earlier(s)
    BY <2>3, StagesLemma, Zenon
  <2>6. \A k \in 1 .. Len(ran) - 1 : ~Stops(ran[k])
    BY <2>3, <2>5, Zenon DEF NoStop
  <2>7. Len(ran) = Len(Pipeline) \/ Stops(ran[Len(ran)])
    BY <2>2, <2>4, <2>5, Zenon DEF EndedAt
  <2>8. reported = IF ran[Len(ran)] \in refuses /\ throws # ran[Len(ran)]
                   THEN <<ran[Len(ran)]>> ELSE << >>
    BY <2>2, <2>5, Zenon DEF EndedAt
  <2> QED
    BY <1>1, <2>4, <2>6, <2>7, <2>8, Zenon DEF WayInv, OutInv
<1> QED
  BY <1>1, WayAlways, PTL

\* What the exit code says: 0 only for help, --tokens or a program that every
\* stage has passed, 1 for a program at fault, 2 for none, 3 or an abort for an
\* exception of the compiler's own (main.cpp main).
THEOREM ExitAlways == DriverSpec => []ExitTells
<1>1. WayInv => ExitTells
  BY DEF WayInv
<1> QED
  BY <1>1, WayAlways, PTL

-----------------------------------------------------------------------------
(* The times.                                                              *)

ClockOf(s) == IF s \in Range(ran) /\ reported # <<"lexer">> THEN StageMs[s] ELSE 0

Times == [lexer : Nat, parser : Nat, semantic : Nat, compiler : Nat, exec : Nat,
          read : Nat, instructions : Nat, nodes : Nat]

Clock ==
    /\ time \in Times
    /\ time.lexer = ClockOf("lexer") /\ time.parser = ClockOf("parser")
    /\ time.semantic = ClockOf("semantic") /\ time.compiler = ClockOf("compiler")
    /\ time.exec = ClockOf("exec")
    /\ time.read = IF "exec" \in Range(ran) THEN readTime ELSE 0
    /\ time.instructions =
          IF "exec" \in Range(ran) /\ backend = "Bytecode" THEN Instructions ELSE 0
    /\ time.nodes = IF "exec" \in Range(ran) /\ backend # "Bytecode" THEN Nodes ELSE 0

ClockInv ==
    /\ at = "args" => time = NoTime
    /\ at \in Stage \cup {"report"} /\ Mode = "run" => Clock
    /\ at \notin {"return", "failed", "exit"} => times.table = << >>
    /\ TimesOfThisRun

TimeInv == WayInv /\ ClockInv

LEMMA InitClock ==
    ASSUME DriverInit
    PROVE  ClockInv
<1>1. times.table = << >> /\ DOMAIN times.table = {}
  <2>1. times.table = << >>
    BY DEF DriverInit
  <2>2. << >> \in Seq(Output) /\ DOMAIN << >> = 1 .. Len(<< >>)
    BY EmptyLemma, LenProperties, Zenon
  <2>3. 1 .. Len(<< >>) = {}
    OBVIOUS
  <2> QED
    BY <2>1, <2>2, <2>3, Zenon
<1> QED
  BY <1>1 DEF DriverInit, ClockInv, TimesOfThisRun, Stage

\* The clock is not read.
LEMMA NoClock ==
    ASSUME ClockInv, times' = times,
           at' \in Stage \cup {"report"} => Mode' # "run",
           \/ times.table = << >>
           \/ UNCHANGED <<ran, reported, readTime>>,
           at' = "args" => time' = NoTime,
           at \in {"return", "failed", "exit"} => at' \in {"return", "failed", "exit"}
    PROVE  ClockInv'
<1>1. TimesOfThisRun'
  BY DEF ClockInv, TimesOfThisRun
<1> QED
  BY <1>1 DEF ClockInv

LEMMA OpenClock ==
    ASSUME TimeInv, ReadArgs
    PROVE  ClockInv'
<1>1. /\ at = "args" /\ ran = << >> /\ reported = << >> /\ time = NoTime
      /\ times.table = << >>
  BY DEF ReadArgs, ReadFlag, ReadBackend, ReadHelp, ReadUnknown, ReadPath, Open, Stage,
         TimeInv, WayInv, PlaceInv, ClockInv
<1>2. times' = times /\ time' = time /\ ran' = ran /\ reported' = reported
  BY DEF ReadArgs, ReadFlag, ReadBackend, ReadHelp, ReadUnknown, ReadPath, Open, Usage,
         Exit, Reading
<1>3. CASE at' \in {"args", "exit"}
  <2>1. at' \in Stage \cup {"report"} => Mode' # "run"
    BY <1>3 DEF Stage
  <2> QED
    BY <1>1, <1>2, <2>1, NoClock DEF TimeInv
<1>4. CASE at' = "lexer"
  <2>1. Range(ran') = {} /\ reported' # <<"lexer">>
    <3>1. << >> # <<"lexer">>
      OBVIOUS
    <3> QED
      BY <1>1, <1>2, <3>1, EmptyLemma, Zenon
  <2>2. Clock'
    BY <1>1, <1>2, <2>1 DEF Clock, ClockOf, NoTime, Times
  <2>3. TimesOfThisRun' /\ times'.table = << >>
    BY <1>1, <1>2 DEF TimesOfThisRun
  <2> QED
    BY <1>4, <2>2, <2>3 DEF ClockInv
<1>5. at' \in {"args", "exit", "lexer"}
  BY <1>1 DEF ReadArgs, ReadFlag, ReadBackend, ReadHelp, ReadUnknown, ReadPath, Open, Usage,
              Exit, Reading
<1> QED
  BY <1>3, <1>4, <1>5

LEMMA BeforeLemma ==
    ASSUME backend \in Backend, NEW s \in Stage
    PROVE  Range(Before(s)) = Earlier(s)
<1>1. CASE s = "lexer"
  BY <1>1, EmptyLemma, Zenon DEF Before, Earlier
<1>2. CASE s = "parser"
  BY <1>2 DEF Before, Earlier, Range
<1>3. CASE s = "semantic"
  BY <1>3 DEF Before, Earlier, Range
<1>4. CASE s = "compiler"
  BY <1>4 DEF Before, Earlier, Range
<1>5. CASE s = "exec" /\ backend = "Bytecode"
  BY <1>5 DEF Before, Earlier, Range
<1>6. CASE s = "exec" /\ backend # "Bytecode"
  BY <1>6 DEF Before, Earlier, Range
<1> QED
  BY <1>1, <1>2, <1>3, <1>4, <1>5, <1>6 DEF Stage

\* A stage that main has entered is timed, but for a lexer that throws.
LEMMA RunClock ==
    ASSUME TimeInv, RunStage
    PROVE  ClockInv'
<1>1. PICK stage \in Stage :
        /\ Enter(stage) /\ throws # stage /\ time' = Timed(stage)
        /\ IF stage \in refuses
           THEN reported' = Append(reported, stage) /\ at' = AfterRefusal
           ELSE at' = After(stage) /\ reported' = reported
        /\ out' = IF stage = "exec" THEN Append(out, "program") ELSE out
        /\ UNCHANGED <<given, decided>> /\ times' = times
  BY DEF RunStage
<1>2. /\ UNCHANGED <<options, backend, refuses, throws, readTime>>
      /\ Asked(stage) /\ ran' = Through(stage) /\ NoStop(Earlier(stage))
      /\ reported = << >> /\ ran = Before(stage)
  <2>1. WayInv
    BY DEF TimeInv
  <2>2. /\ UNCHANGED <<options, backend, refuses, throws, readTime>>
        /\ Asked(stage) /\ ran' = Through(stage) /\ NoStop(Earlier(stage))
        /\ reported = << >>
    BY <1>1, <2>1, EnterWay, Zenon
  <2>3. ran = Before(stage)
    BY <1>1, <2>1 DEF Enter, WayInv, PlaceInv, ReachedAt
  <2> QED
    BY <2>2, <2>3
<1>3. Mode' = Mode /\ times.table = << >> /\ TimesOfThisRun'
  <2>1. at \notin {"return", "failed", "exit"}
    BY <1>1 DEF Enter, Stage
  <2>2. times.table = << >>
    BY <2>1 DEF TimeInv, ClockInv
  <2> QED
    BY <1>1, <1>2, <2>2, SameLemma DEF TimesOfThisRun
<1>4. Range(ran) = Earlier(stage) /\ Range(ran') = Earlier(stage) \cup {stage}
  <2>1. Range(Before(stage)) = Earlier(stage)
    BY BeforeLemma DEF TimeInv, WayInv, TypeInv
  <2>2. Range(Through(stage)) = Earlier(stage) \cup {stage}
    BY StagesLemma DEF TimeInv, WayInv, TypeInv
  <2> QED
    BY <1>2, <2>1, <2>2, Zenon
<1>5. ASSUME Mode = "run"
      PROVE  Clock'
  <2>1. Clock /\ reported # <<"lexer">>
    <3>1. << >> # <<"lexer">>
      OBVIOUS
    <3> QED
      BY <1>1, <1>2, <1>5, <3>1 DEF TimeInv, ClockInv, Enter
  <2>2. stage = "lexer" \/ reported' # <<"lexer">>
    <3>1. CASE stage \in refuses
      <4>1. Append(<< >>, stage) = << >> \o <<stage>>
        BY TupleLemma, AppendIsConcat
      <4>2. reported' = <<stage>>
        BY <1>1, <1>2, <3>1, <4>1
      <4> QED
        BY <4>2
    <3>2. CASE stage \notin refuses
      BY <1>1, <2>1, <3>2
    <3> QED
      BY <3>1, <3>2
  <2>3. CASE stage = "lexer" /\ "lexer" \in refuses
    <3>1. time' = time
      BY <1>1, <2>3, Zenon DEF Timed
    <3>2. Range(ran) = {} /\ Range(ran') = {"lexer"}
      BY <1>4, <2>3 DEF Earlier
    <3>3. reported' = <<"lexer">>
      <4>1. Append(<< >>, stage) = << >> \o <<stage>>
        BY TupleLemma, AppendIsConcat
      <4> QED
        BY <1>1, <1>2, <2>3, <4>1
    <3> QED
      BY <1>2, <2>1, <3>1, <3>2, <3>3 DEF Clock, ClockOf
  <2>4. CASE stage = "lexer" /\ "lexer" \notin refuses
    <3>1. time' = [time EXCEPT !.lexer = 1]
      BY <1>1, <1>5, <2>4 DEF Timed, Clocked, StageMs
    <3>2. Range(ran) = {} /\ Range(ran') = {"lexer"}
      BY <1>4, <2>4 DEF Earlier
    <3>3. reported' # <<"lexer">>
      BY <1>1, <2>1, <2>4
    <3> QED
      BY <1>2, <2>1, <3>1, <3>2, <3>3 DEF Clock, ClockOf, Times, StageMs
  <2>5. CASE stage = "parser"
    <3>1. time' = [time EXCEPT !.parser = 2]
      BY <1>1, <1>5, <2>5 DEF Timed, Clocked, StageMs
    <3>2. Range(ran) = {"lexer"}
      BY <1>4, <2>5 DEF Earlier
    <3>3. Range(ran') = Range(ran) \cup {"parser"}
      BY <1>4, <2>5
    <3> QED
      BY <1>2, <2>1, <2>2, <2>5, <3>1, <3>2, <3>3 DEF Clock, ClockOf, Times, StageMs
  <2>6. CASE stage = "semantic"
    <3>1. time' = [time EXCEPT !.semantic = 3]
      BY <1>1, <1>5, <2>6 DEF Timed, Clocked, StageMs
    <3>2. Range(ran) = {"lexer", "parser"}
      BY <1>4, <2>6 DEF Earlier
    <3>3. Range(ran') = Range(ran) \cup {"semantic"}
      BY <1>4, <2>6
    <3> QED
      BY <1>2, <2>1, <2>2, <2>6, <3>1, <3>2, <3>3 DEF Clock, ClockOf, Times, StageMs
  <2>7. CASE stage = "compiler"
    <3>1. time' = [time EXCEPT !.compiler = 4]
      BY <1>1, <1>5, <2>7 DEF Timed, Clocked, StageMs
    <3>2. Range(ran) = {"lexer", "parser", "semantic"}
      BY <1>4, <2>7 DEF Earlier
    <3>3. Range(ran') = Range(ran) \cup {"compiler"}
      BY <1>4, <2>7
    <3> QED
      BY <1>2, <2>1, <2>2, <2>7, <3>1, <3>2, <3>3 DEF Clock, ClockOf, Times, StageMs
  <2>8. CASE stage = "exec"
    <3>1. "exec" \notin Range(ran)
      BY <1>4, <2>8 DEF Earlier
    <3>2. Range(ran') = Range(ran) \cup {"exec"}
      BY <1>4, <2>8
    <3>3. readTime \in Nat
      BY DEF TimeInv, WayInv, TypeInv
    <3>4. time' = IF backend = "Bytecode"
                  THEN [time EXCEPT !.exec = 9, !.read = readTime,
                                    !.instructions = Instructions, !.nodes = 0]
                  ELSE [time EXCEPT !.exec = 9, !.read = readTime, !.instructions = 0,
                                    !.nodes = Nodes]
      BY <1>1, <1>5, <2>8 DEF Timed, ExecTime, Executed, Clocked, StageMs
    <3>5. CASE backend = "Bytecode"
      BY <1>2, <2>1, <2>2, <2>8, <3>1, <3>2, <3>3, <3>4, <3>5
         DEF Clock, ClockOf, Times, StageMs, Instructions
    <3>6. CASE backend # "Bytecode"
      BY <1>2, <2>1, <2>2, <2>8, <3>1, <3>2, <3>3, <3>4, <3>6
         DEF Clock, ClockOf, Times, StageMs, Nodes
    <3> QED
      BY <3>5, <3>6
  <2> QED
    BY <2>3, <2>4, <2>5, <2>6, <2>7, <2>8 DEF Stage
<1>6. times'.table = << >>
  BY <1>1, <1>3
<1>7. at' # "args"
  BY <1>1 DEF AfterRefusal, After, Stage
<1> QED
  BY <1>3, <1>5, <1>6, <1>7 DEF ClockInv

LEMMA ReportClock ==
    ASSUME TimeInv, ReportTimes
    PROVE  ClockInv'
<1>1. /\ UNCHANGED <<options, backend, refuses, throws, readTime>>
      /\ UNCHANGED <<ran, reported>> /\ at' \in {"return", "failed"}
      /\ times'.table = <<TimeTable>> \/ times'.table = << >>
  <2>1. at' \in {"return", "failed"}
    BY DEF ReportTimes
  <2>2. times'.table = <<TimeTable>> \/ times'.table = << >>
    BY DEF ReportTimes
  <2> QED
    BY <2>1, <2>2 DEF ReportTimes, given, decided
<1>2. at = "report" /\ Mode = "run" /\ Ended /\ Clock
  BY DEF ReportTimes, TimeInv, WayInv, PlaceInv, ClockInv
<1>3. backend # "Bytecode" => "compiler" \notin Range(ran)
  <2>1. PICK s \in Stage : EndedAt(s)
    BY <1>2 DEF Ended
  <2>2. Asked(s) /\ ran = Through(s) /\ Range(ran) = Earlier(s) \cup {s}
    BY <2>1, StagesLemma, Zenon DEF EndedAt, TimeInv, WayInv, TypeInv
  <2> QED
    BY <1>2, <2>2 DEF Asked, Earlier, Stage
<1>4. PICK t : t = TimeTable
  OBVIOUS
<1>5. /\ t.lexer = ClockOf("lexer") /\ t.parser = ClockOf("parser")
      /\ t.semantic = ClockOf("semantic") /\ t.compiler = ClockOf("compiler")
      /\ t.exec = ClockOf("exec")
      /\ t.read = IF "exec" \in Range(ran) THEN readTime ELSE 0
      /\ t.steps > 0 <=> "exec" \in Range(ran)
  <2>1. /\ t.lexer = time.lexer /\ t.parser = time.parser /\ t.semantic = time.semantic
        /\ t.exec = time.exec /\ t.read = time.read
        /\ t.compiler = IF backend = "Bytecode" THEN time.compiler ELSE 0
        /\ t.steps = IF backend = "Bytecode" THEN time.instructions ELSE time.nodes
    BY <1>4 DEF TimeTable
  <2>2. t.compiler = ClockOf("compiler")
    BY <1>2, <1>3, <2>1 DEF Clock, ClockOf
  <2>3. t.steps > 0 <=> "exec" \in Range(ran)
    BY <1>2, <2>1 DEF Clock, Instructions, Nodes
  <2> QED
    BY <1>2, <2>1, <2>2, <2>3 DEF Clock
<1>6. TimesOfThisRun'
  <2>1. CASE times'.table = << >>
    BY <2>1 DEF TimesOfThisRun
  <2>2. CASE times'.table = <<t>>
    <3>1. \A k \in DOMAIN times'.table : times'.table[k] = t
      BY <2>2
    <3>2. \A s \in Range(FrontEnd) \cup {"compiler", "exec"} :
              t[s] = IF s \in Range(ran) /\ reported # <<"lexer">> THEN StageMs[s] ELSE 0
      BY <1>5, FrontEndRange DEF ClockOf
    <3> QED
      BY <1>1, <1>5, <3>1, <3>2 DEF TimesOfThisRun
  <2> QED
    BY <1>1, <1>4, <2>1, <2>2
<1> QED
  BY <1>1, <1>6 DEF ClockInv, Stage

LEMMA ClockStep ==
    ASSUME TimeInv, [DriverNext]_driverVars
    PROVE  ClockInv'
<1>1. CASE ReadArgs
  BY <1>1, OpenClock, Zenon
<1>2. CASE RunStage
  BY <1>2, RunClock, Zenon
<1>3. CASE ReportTimes
  BY <1>3, ReportClock, Zenon
<1>4. CASE ThrowStage
  <2>1. times' = times /\ at' = "exit" /\ at \in Stage
    BY <1>4 DEF ThrowStage, Enter
  <2>2. times.table = << >>
    BY <2>1 DEF TimeInv, ClockInv, Stage
  <2> QED
    BY <2>1, <2>2, NoClock DEF TimeInv, Stage
<1>5. CASE Show
  <2>1. times' = times /\ at = "print"
    BY <1>5 DEF Show
  <2>2. times.table = << >> /\ Mode # "run"
    BY <2>1 DEF TimeInv, ClockInv, WayInv, PlaceInv
  <2>3. at' \in {"compiler", "return"} /\ Mode' = Mode
    BY <1>5, SameLemma DEF Show, given, decided
  <2> QED
    BY <2>1, <2>2, <2>3, NoClock DEF TimeInv
<1>6. CASE Disassemble
  <2>1. times' = times /\ at = "disassemble" /\ at' = "return"
    BY <1>6 DEF Disassemble
  <2>2. times.table = << >>
    BY <2>1 DEF TimeInv, ClockInv
  <2> QED
    BY <2>1, <2>2, NoClock DEF TimeInv, Stage
<1>7. CASE Return \/ Fail
  <2>1. times' = times /\ at' = "exit" /\ UNCHANGED <<ran, reported, readTime>>
    BY <1>7 DEF Return, Fail, Exit, decided
  <2> QED
    BY <2>1, NoClock DEF TimeInv, Stage
<1>8. CASE UNCHANGED driverVars
  <2>1. /\ UNCHANGED <<at, ran, reported, readTime, time, times, backend>>
        /\ UNCHANGED <<options, backend, refuses, throws>>
    BY <1>8 DEF driverVars
  <2>2. Mode' = Mode
    BY <2>1, SameLemma, Zenon
  <2>3. Clock <=> Clock'
    BY <2>1 DEF Clock, ClockOf
  <2>4. TimesOfThisRun <=> TimesOfThisRun'
    BY <2>1 DEF TimesOfThisRun
  <2> QED
    BY <2>1, <2>2, <2>3, <2>4 DEF TimeInv, ClockInv
<1> QED
  BY <1>1, <1>2, <1>3, <1>4, <1>5, <1>6, <1>7, <1>8, Zenon DEF DriverNext

\* The times printed are those of the stages this run has been through, and the
\* wait for input is among them whichever backend has waited (wika.cpp caR,
\* main.cpp printTime), for every command line, outcome and wait.
THEOREM TimesAlways == DriverSpec => []TimesOfThisRun
<1>1. DriverInit => TimeInv
  BY InitWay, InitClock, Zenon DEF TimeInv
<1>2. TimeInv /\ [DriverNext]_driverVars => TimeInv'
  <2>1. ASSUME TimeInv, [DriverNext]_driverVars
        PROVE  TimeInv'
    <3>1. WayInv' /\ ClockInv'
      BY <2>1, WayStep, ClockStep, Zenon DEF TimeInv
    <3> QED
      BY <3>1, Zenon DEF TimeInv
  <2> QED
    BY <2>1
<1>3. TimeInv => TimesOfThisRun
  BY DEF TimeInv, ClockInv
<1> QED
  BY <1>1, <1>2, <1>3, PTL DEF DriverSpec
=============================================================================
