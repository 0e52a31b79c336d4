------------------------------ MODULE Bytecode ------------------------------
(***************************************************************************)
(* The instruction set, the chunk and the verifier's view of them          *)
(* (opcode.h, opcode.cpp).  Instructions are numbered from 0, as in the    *)
(* code.  loc stands for the line and column an instruction carries.       *)
(***************************************************************************)
EXTENDS Value, Sequences

ArithOps   == {"OP_ADD", "OP_SUB", "OP_MUL"}
DivOps     == {"OP_DIV", "OP_MOD"}
CompareOps == {"OP_GT", "OP_GE", "OP_LT", "OP_LE"}
EqualOps   == {"OP_EQ", "OP_NEQ"}
BinaryOps  == ArithOps \cup DivOps \cup CompareOps \cup EqualOps
UnaryOps   == {"OP_NEG", "OP_NOT"}
BoolOps    == {"OP_TRUE", "OP_FALSE"}
StoreOps   == {"OP_DEFINE_GLOBAL", "OP_SET_GLOBAL"}
GlobalOps  == StoreOps \cup {"OP_GET_GLOBAL"}
BranchOps  == {"OP_JUMP_IF_FALSE", "OP_JUMP_IF_TRUE"}
JumpOps    == BranchOps \cup {"OP_JUMP"}

OpCode ==
    BinaryOps \cup UnaryOps \cup BoolOps \cup GlobalOps \cup JumpOps \cup
    {"OP_PRINT_VAL", "OP_PRINT_STR", "OP_READ", "OP_CONST_INT", "OP_POP",
     "OP_DUP", "OP_HALT"}

Instr == [op : OpCode, operand : Int, loc : Nat]

Chunk == [code : Seq(Instr), intConstants : Seq(CInt),
          stringConstants : Seq(STRING), globalNames : Seq(STRING)]

EmptyChunk == [code |-> << >>, intConstants |-> << >>,
               stringConstants |-> << >>, globalNames |-> << >>]

Size(c)       == Len(c.code)
Positions(c)  == 0 .. Size(c) - 1
InstrAt(c, i) == c.code[i + 1]
Slots(c)      == 0 .. Len(c.globalNames) - 1

-----------------------------------------------------------------------------
(* Chunk::verify, first half: the code ends in OP_HALT and every operand   *)
(* that indexes something is in range.  An unpatched jump is still -1.     *)

EndsInHalt(c) == c.code # << >> /\ InstrAt(c, Size(c) - 1).op = "OP_HALT"

InRange(idx, size) == idx >= 0 /\ idx < size

\* A plausible slip: <= instead of <, for the global slots.
OperandOKOffByOne(c, in) ==
    /\ in.op \in JumpOps      => InRange(in.operand, Size(c))
    /\ in.op = "OP_CONST_INT" => InRange(in.operand, Len(c.intConstants))
    /\ in.op = "OP_PRINT_STR" => InRange(in.operand, Len(c.stringConstants))
    /\ in.op \in GlobalOps    => InRange(in.operand, Len(c.globalNames) + 1)

OperandOK(c, in) ==
    /\ in.op \in JumpOps      => InRange(in.operand, Size(c))
    /\ in.op = "OP_CONST_INT" => InRange(in.operand, Len(c.intConstants))
    /\ in.op = "OP_PRINT_STR" => InRange(in.operand, Len(c.stringConstants))
    /\ in.op \in GlobalOps    => InRange(in.operand, Len(c.globalNames))

WellFormed(c) ==
    /\ EndsInHalt(c)
    /\ \A i \in Positions(c) : OperandOK(c, InstrAt(c, i))

-----------------------------------------------------------------------------
(* Chunk::verifyStack: the table of pops and pushes and the successors.    *)

\* A plausible slip: OP_DUP only reads the top, so "it pops nothing".
PopsDupNothing(op) ==
    IF op \in BinaryOps THEN 2
    ELSE IF op \in UnaryOps \cup StoreOps \cup BranchOps \cup
                   {"OP_PRINT_VAL", "OP_POP"} THEN 1
    ELSE 0

Pops(op) ==
    IF op \in BinaryOps THEN 2
    ELSE IF op \in UnaryOps \cup StoreOps \cup BranchOps \cup
                   {"OP_PRINT_VAL", "OP_POP", "OP_DUP"} THEN 1
    ELSE 0

Pushes(op) ==
    IF op = "OP_DUP" THEN 2
    ELSE IF op \in BinaryOps \cup UnaryOps \cup BoolOps \cup BranchOps \cup
                   {"OP_GET_GLOBAL", "OP_CONST_INT", "OP_READ"} THEN 1
    ELSE 0

DepthAfter(in, d) == d - Pops(in.op) + Pushes(in.op)

Successors(c, i) ==
    LET in == InstrAt(c, i)
        candidates == IF in.op = "OP_HALT" THEN {}
                      ELSE IF in.op = "OP_JUMP" THEN {in.operand}
                      ELSE IF in.op \in BranchOps THEN {in.operand, i + 1}
                      ELSE {i + 1}
    IN  candidates \cap Positions(c)

(***************************************************************************)
(* What verifyStack is looking for, stated without an algorithm: one       *)
(* stack depth per instruction, or -1 where nothing constrains it, such    *)
(* that every instruction finds what it pops, leaves the depth its         *)
(* successors assume, and OP_HALT leaves nothing.                          *)
(***************************************************************************)
Unvisited == -1

ConsistentAt(c, D, i) ==
    LET in == InstrAt(c, i) IN
    /\ D[i] >= Pops(in.op)
    /\ in.op = "OP_HALT" => DepthAfter(in, D[i]) = 0
    /\ \A j \in Successors(c, i) : D[j] = DepthAfter(in, D[i])

Consistent(c, D) ==
    /\ D[0] = 0
    /\ \A i \in Positions(c) : D[i] # Unvisited => ConsistentAt(c, D, i)
=============================================================================
