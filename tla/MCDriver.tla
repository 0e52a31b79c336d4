------------------------------ MODULE MCDriver ------------------------------
(***************************************************************************)
(* Every sequence of up to MaxArguments arguments, and every way the       *)
(* stages can end: one of them throws, and the set of those that refuse.   *)
(***************************************************************************)
EXTENDS Driver

MaxArguments == 3

MCFiles     == {"program.txt"}
MCArguments == (Options \ {"--tulong", "--trace"}) \cup Unknown \cup MCFiles
               \cup {"", "missing"}
MCCommandLines ==
    BoundedSeq(MCArguments, MaxArguments)
    \cup {<<"--trace", "--tulong">>, <<"program.txt", "--treewalk", "--time", "--time-csv">>}
MCRefusing  == {{}, {"exec"}, {"lexer"}, {"parser", "exec"}, {"semantic", "exec"},
                {"parser", "semantic"}, {"lexer", "parser", "semantic", "exec"}}
MCThrowing  == Stage \cup {"none"}
MCReadTimes == {0, 5}
=============================================================================
