---------------------------- MODULE MCArithmetic ----------------------------
(* Every operator on every pair of values: programs of two pushes, one      *)
(* operator, a print and a halt, with ints as narrow as IntMax makes them.  *)
EXTENDS VM

\* The instructions of a program, each with its number as its place.
Code(seq) == [k \in 1 .. Len(seq) |->
                 [op |-> seq[k][1], operand |-> seq[k][2], loc |-> k]]

\* The pool holds every int, in order: the constant v is number v - IntMin.
Pool == [k \in 1 .. IntMax - IntMin + 1 |-> IntMin + k - 1]

Pushes1 == {<<"OP_CONST_INT", v - IntMin>> : v \in CInt}
           \cup {<<"OP_TRUE", 0>>, <<"OP_FALSE", 0>>}

PrintHalt == <<<<"OP_PRINT_VAL", 0>>, <<"OP_HALT", 0>>>>

BinaryCodes == {<<l, r, <<op, 0>>>> \o PrintHalt :
                   l \in Pushes1, r \in Pushes1, op \in BinaryOps}
UnaryCodes  == {<<v, <<op, 0>>>> \o PrintHalt : v \in Pushes1, op \in UnaryOps}

\* basahin(), a global in between, and a branch on the value read.
ReadCodes ==
    {<< <<"OP_READ", 0>>, <<"OP_DEFINE_GLOBAL", 0>>, <<"OP_GET_GLOBAL", g>>,
        <<branch, 5>>, <<"OP_PRINT_STR", 0>>, <<"OP_DUP", 0>>,
        <<"OP_PRINT_VAL", 0>>, <<"OP_POP", 0>>, <<"OP_JUMP", 9>>,
        <<"OP_HALT", 0>> >> : g \in {0, 1}, branch \in BranchOps}

MCJobs ==
    {[chunk |-> [code |-> Code(c), intConstants |-> Pool,
                 stringConstants |-> <<"hello">>, globalNames |-> <<"x", "y">>],
      stepLimit |-> 0] : c \in BinaryCodes \cup UnaryCodes \cup ReadCodes}

MCInputs == {<< >>} \cup {<<v>> : v \in CInt}
=============================================================================
