----------------------------- MODULE MCVerifier -----------------------------
(* Every chunk of up to MaxSize instructions over a small instruction set,  *)
(* with operands in and just out of range, ending in OP_HALT or not.        *)
EXTENDS VM

CONSTANT MaxSize    \* bound: instructions in a chunk

I(op, operand) == [op |-> op, operand |-> operand, loc |-> 1]

Instructions ==
    {I(op, 0) : op \in {"OP_TRUE", "OP_EQ", "OP_DUP", "OP_HALT"}}
    \cup {I("OP_SET_GLOBAL", slot) : slot \in {0, 1}}
    \cup {I("OP_JUMP", t) : t \in -1 .. MaxSize}
    \cup {I("OP_JUMP_IF_FALSE", t) : t \in 0 .. MaxSize - 1}

Codes == UNION {[1 .. n -> Instructions] : n \in 1 .. MaxSize}

ChunkOf(code) ==
    [code |-> code, intConstants |-> << >>, stringConstants |-> << >>,
     globalNames |-> <<"x">>]

MCJobs ==
    {[chunk |-> ChunkOf(c), stepLimit |-> MaxSize + 1] :
        c \in {d \in Codes : d[Len(d)].op \in {"OP_HALT", "OP_DUP"}}}
    \cup {[chunk |-> EmptyChunk, stepLimit |-> 0]}

MCInputs == {<< >>}
=============================================================================
