------------------------------ MODULE MCReuse -------------------------------
(* One VM object called several times, with every kind of program and of    *)
(* ending: success, refusal, runtime failure with operands left on the      *)
(* stack, an endless loop stopped by the limit, input that runs out.        *)
EXTENDS VM

Code(seq) == [k \in 1 .. Len(seq) |->
                 [op |-> seq[k][1], operand |-> seq[k][2], loc |-> k]]

ChunkOf(seq) ==
    [code |-> Code(seq), intConstants |-> <<1>>, stringConstants |-> <<"hi">>,
     globalNames |-> <<"x">>]

\* Fails with two operands under the offending one.
FailsDeep == << <<"OP_CONST_INT", 0>>, <<"OP_TRUE", 0>>, <<"OP_TRUE", 0>>,
                <<"OP_NEG", 0>>, <<"OP_ADD", 0>>, <<"OP_ADD", 0>>,
                <<"OP_POP", 0>>, <<"OP_HALT", 0>> >>

\* Stores what it reads, prints it back.
Echo == << <<"OP_READ", 0>>, <<"OP_SET_GLOBAL", 0>>, <<"OP_GET_GLOBAL", 0>>,
           <<"OP_PRINT_VAL", 0>>, <<"OP_HALT", 0>> >>

\* Uses a global that an earlier call may have defined.
Undefined == << <<"OP_GET_GLOBAL", 0>>, <<"OP_PRINT_VAL", 0>>,
                <<"OP_HALT", 0>> >>

\* habang (totoo) ...
Forever == << <<"OP_TRUE", 0>>, <<"OP_JUMP_IF_FALSE", 4>>, <<"OP_POP", 0>>,
              <<"OP_JUMP", 0>>, <<"OP_POP", 0>>, <<"OP_HALT", 0>> >>

\* Well formed, but one path reaches OP_HALT with an operand left.
Unbalanced == << <<"OP_TRUE", 0>>, <<"OP_JUMP_IF_TRUE", 3>>, <<"OP_POP", 0>>,
                 <<"OP_HALT", 0>> >>

\* Loops in the verifier's worklist: a jump to itself behind a branch.
Tight == << <<"OP_JUMP", 0>>, <<"OP_HALT", 0>> >>

NoHalt == << <<"OP_TRUE", 0>>, <<"OP_POP", 0>> >>

MCJobs ==
    {[chunk |-> ChunkOf(s), stepLimit |-> l] :
        s \in {FailsDeep, Echo, Undefined, Unbalanced, NoHalt}, l \in {0, 4, 5}}
    \cup {[chunk |-> ChunkOf(s), stepLimit |-> l] :
        s \in {Forever, Tight}, l \in {1, 6}}

MCInputs == {<< >>, <<1>>, <<0, 1>>}
=============================================================================
