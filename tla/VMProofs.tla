------------------------------ MODULE VMProofs ------------------------------
(***************************************************************************)
(* Theorems about the VM module, for every int width, every set of chunks, *)
(* limits and inputs, and any number of calls.                             *)
(*                                                                         *)
(* Everything rests on one inductive invariant, IInv.  TypeOK alone is not *)
(* inductive: that a jump leads to a natural number, or a constant's index *)
(* to an int, is so only because the chunk being executed was verified.    *)
(***************************************************************************)
EXTENDS VM, SequenceTheorems, TLAPS

Reached(j) == depth[j] # Unvisited
Elements(s) == {s[k] : k \in DOMAIN s}
Pending    == Elements(work)

\* What the verifier has established so far: every instruction that was
\* visited and is not waiting in the worklist agrees with its successors.
EdgesChecked ==
    \A i \in Positions(chunk) :
        Reached(i) /\ i \notin Pending => ConsistentAt(chunk, depth, i)

VerifierInv ==
    phase \in {"verify", "run"} =>
        /\ WellFormed(chunk)
        /\ depth[0] = 0
        /\ \A j \in Pending : Reached(j)
        /\ EdgesChecked
        /\ diagnostics = << >>
        /\ phase = "run" => work = << >>
        /\ phase = "verify" => ip = 0 /\ stack = << >>

\* The depths the verifier assigns are forced: every consistent assignment
\* has them.  So a refusal means that there is none.
AllDepths == [Positions(chunk) -> Int]

DepthsForced ==
    phase \in {"verify", "run"} =>
        \A D \in AllDepths : Consistent(chunk, D) =>
            \A i \in Positions(chunk) : Reached(i) => D[i] = depth[i]

RefusalJustified ==
    RefusedByVerify /\ WellFormed(chunk) =>
        \A D \in AllDepths : ~Consistent(chunk, D)

IInv ==
    /\ TypeOK
    /\ VerifierInv
    /\ StackMatchesVerifier
    /\ DepthsForced
    /\ RefusalJustified
    /\ CleanHalt

-----------------------------------------------------------------------------
(* Sequences.                                                              *)

\* The value stack after n pops.
LEMMA PopLemma ==
    ASSUME NEW S, NEW s \in Seq(S), NEW n \in 0 .. Len(s)
    PROVE  /\ SubSeq(s, 1, Len(s) - n) \in Seq(S)
           /\ Len(SubSeq(s, 1, Len(s) - n)) = Len(s) - n
<1>1. \A i \in 1 .. Len(s) - n : s[i] \in S
  BY ElementOfSeq, LenProperties
<1>2. Len(s) \in Nat /\ Len(s) - n \in Int
  BY LenProperties
<1> QED
  BY <1>1, <1>2, SubSeqProperties

\* What a concatenation holds.
LEMMA ConcatLemma ==
    ASSUME NEW S, NEW s \in Seq(S), NEW t \in Seq(S)
    PROVE  /\ s \o t \in Seq(S)
           /\ Elements(s \o t) = Elements(s) \cup Elements(t)
<1> DEFINE r == s \o t
<1>1. /\ r \in Seq(S)
      /\ Len(r) = Len(s) + Len(t)
      /\ \A i \in 1 .. Len(s) + Len(t) :
            r[i] = IF i <= Len(s) THEN s[i] ELSE t[i - Len(s)]
  BY ConcatProperties
<1> HIDE DEF r
<1>2. /\ Len(s) \in Nat /\ DOMAIN s = 1 .. Len(s)
      /\ Len(t) \in Nat /\ DOMAIN t = 1 .. Len(t)
      /\ DOMAIN r = 1 .. Len(s) + Len(t)
  BY <1>1, LenProperties
<1>3. ASSUME NEW i \in DOMAIN s PROVE i \in DOMAIN r /\ r[i] = s[i]
  BY <1>1, <1>2
<1>4. ASSUME NEW i \in DOMAIN t
      PROVE  Len(s) + i \in DOMAIN r /\ r[Len(s) + i] = t[i]
  BY <1>1, <1>2
<1>5. ASSUME NEW m \in DOMAIN r, m > Len(s)
      PROVE  m - Len(s) \in DOMAIN t /\ r[m] = t[m - Len(s)]
  BY <1>1, <1>2, <1>5
<1>6. ASSUME NEW m \in DOMAIN r, ~(m > Len(s))
      PROVE  m \in DOMAIN s /\ r[m] = s[m]
  BY <1>1, <1>2, <1>6
<1>7. Elements(r) = Elements(s) \cup Elements(t)
  BY <1>3, <1>4, <1>5, <1>6 DEF Elements
<1> QED
  BY <1>1, <1>7 DEF r

\* What is left of the worklist after a pop.
LEMMA RestLemma ==
    ASSUME NEW S, NEW w \in Seq(S), w # << >>
    PROVE  LET f == SubSeq(w, 1, Len(w) - 1) IN
           /\ f \in Seq(S)
           /\ Elements(f) \subseteq Elements(w)
           /\ Elements(w) \subseteq Elements(f) \cup {w[Len(w)]}
<1> DEFINE f == SubSeq(w, 1, Len(w) - 1)
<1>1. Len(w) \in Nat \ {0} /\ DOMAIN w = 1 .. Len(w)
  BY EmptySeq, LenProperties
<1>2. /\ f \in Seq(S)
      /\ Len(f) = Len(w) - 1
  BY <1>1, PopLemma, 1 \in 0 .. Len(w)
<1>3. \A i \in 1 .. Len(w) - 1 : f[i] = w[i]
  <2>1. \A i \in 1 .. Len(w) - 1 : w[i] \in S
    BY <1>1, ElementOfSeq
  <2> QED
    BY <1>1, <2>1, SubSeqProperties
<1>4. DOMAIN f = 1 .. Len(w) - 1
  BY <1>2, LenProperties
<1> HIDE DEF f
<1>5. ASSUME NEW k \in DOMAIN w, w[k] # w[Len(w)]
      PROVE  k \in DOMAIN f /\ f[k] = w[k]
  BY <1>1, <1>3, <1>4, <1>5
<1>6. \A i \in DOMAIN f : i \in DOMAIN w /\ f[i] = w[i]
  BY <1>1, <1>3, <1>4
<1>7. /\ Elements(f) \subseteq Elements(w)
      /\ Elements(w) \subseteq Elements(f) \cup {w[Len(w)]}
  BY <1>5, <1>6 DEF Elements
<1> QED
  BY <1>2, <1>7 DEF f

-----------------------------------------------------------------------------
(* The instruction tables.                                                 *)

\* What a chunk of the right type is made of.
LEMMA ChunkTypes ==
    ASSUME NEW c \in Chunk
    PROVE  /\ Size(c) \in Nat
           /\ \A i \in Positions(c) : InstrAt(c, i) \in Instr
           /\ \A s \in Slots(c) : s \in Nat
           /\ c.intConstants \in Seq(CInt)
           /\ c.stringConstants \in Seq(STRING)
           /\ Len(c.globalNames) \in Nat
<1>1. /\ c.code \in Seq(Instr)
      /\ c.intConstants \in Seq(CInt)
      /\ c.stringConstants \in Seq(STRING)
      /\ c.globalNames \in Seq(STRING)
  BY DEF Chunk
<1>2. /\ Size(c) \in Nat
      /\ Len(c.globalNames) \in Nat
  BY <1>1, LenProperties DEF Size
<1>3. ASSUME NEW i \in Positions(c)
      PROVE  InstrAt(c, i) \in Instr
  <2>1. i + 1 \in 1 .. Len(c.code)
    BY <1>2 DEF Positions, Size
  <2> QED
    BY <1>1, <2>1, ElementOfSeq DEF InstrAt
<1> QED
  BY <1>1, <1>2, <1>3 DEF Slots

LEMMA TableTypes ==
    ASSUME NEW op
    PROVE  /\ Pops(op) \in 0 .. 2
           /\ Pushes(op) \in 0 .. 2
           /\ Needs(op) = Pops(op)
BY DEF Pops, Pushes, Needs

\* The ranges an instruction of a well formed chunk may rely on.
LEMMA OperandLemma ==
    ASSUME NEW c \in Chunk, WellFormed(c), NEW i \in Positions(c)
    PROVE  LET in == InstrAt(c, i) IN
           /\ in \in Instr
           /\ in.op \in JumpOps => in.operand \in Positions(c)
           /\ in.op = "OP_CONST_INT" => in.operand + 1 \in 1 .. Len(c.intConstants)
           /\ in.op = "OP_PRINT_STR" => in.operand + 1 \in 1 .. Len(c.stringConstants)
           /\ in.op \in GlobalOps => in.operand \in Slots(c)
<1> DEFINE in == InstrAt(c, i)
<1>1. in \in Instr /\ in.operand \in Int
  BY ChunkTypes DEF Instr
<1>2. OperandOK(c, in)
  BY DEF WellFormed
<1>3. /\ Len(c.intConstants) \in Nat
      /\ Len(c.stringConstants) \in Nat
      /\ Len(c.globalNames) \in Nat
      /\ Size(c) \in Nat
  BY ChunkTypes, LenProperties
<1> HIDE DEF in
<1>4. /\ in.op \in JumpOps => in.operand \in Positions(c)
      /\ in.op = "OP_CONST_INT" => in.operand + 1 \in 1 .. Len(c.intConstants)
      /\ in.op = "OP_PRINT_STR" => in.operand + 1 \in 1 .. Len(c.stringConstants)
      /\ in.op \in GlobalOps => in.operand \in Slots(c)
  BY <1>1, <1>2, <1>3 DEF OperandOK, InRange, Positions, Slots
<1> QED
  BY <1>1, <1>4 DEF in

\* No instruction but OP_HALT ends the code, so execution can fall through.
LEMMA SuccessorLemma ==
    ASSUME NEW c \in Chunk, WellFormed(c), NEW i \in Positions(c)
    PROVE  LET in == InstrAt(c, i) IN
           /\ in.op = "OP_HALT" => Successors(c, i) = {}
           /\ in.op \in JumpOps => in.operand \in Successors(c, i)
           /\ in.op \notin {"OP_HALT", "OP_JUMP"} => i + 1 \in Successors(c, i)
           /\ Successors(c, i) \subseteq {in.operand, i + 1} \cap Positions(c)
           /\ in.op \notin JumpOps => Successors(c, i) \subseteq {i + 1}
<1>1. Size(c) \in Nat
  BY ChunkTypes
<1>2. i # Size(c) - 1 => i + 1 \in Positions(c)
  BY <1>1 DEF Positions
<1>3. InstrAt(c, i).op # "OP_HALT" => i # Size(c) - 1
  BY DEF WellFormed, EndsInHalt
<1>4. InstrAt(c, i).op \in JumpOps => InstrAt(c, i).operand \in Positions(c)
  BY OperandLemma
<1> QED
  BY <1>2, <1>3, <1>4 DEF Successors, JumpOps, BranchOps

-----------------------------------------------------------------------------
(* Init and the call.                                                      *)

LEMMA ValueLemma ==
    /\ \A v \in Int : MakeInt(v) \in Value
    /\ \A v \in BOOLEAN : MakeBool(v) \in Value
BY DEF MakeInt, MakeBool, Value, ValueType

LEMMA EmptyChunkLemma ==
    /\ EmptyChunk \in Chunk
    /\ Positions(EmptyChunk) = {}
    /\ Slots(EmptyChunk) = {}
<1>1. << >> \in Seq(Instr) /\ << >> \in Seq(CInt) /\ << >> \in Seq(STRING)
  BY EmptySeq
<1>2. Len(EmptyChunk.code) = 0 /\ Len(EmptyChunk.globalNames) = 0
  BY EmptySeq DEF EmptyChunk
<1> QED
  BY <1>1, <1>2 DEF EmptyChunk, Chunk, Positions, Slots, Size

LEMMA InitIInv == Init => IInv
<1> SUFFICES ASSUME Init PROVE IInv
  OBVIOUS
<1>1. depth \in [Positions(chunk) -> Nat \cup {Unvisited}]
  BY EmptyChunkLemma DEF Init, InitialDepth
<1>2. /\ globals \in [Slots(chunk) -> Value]
      /\ defined \in [Slots(chunk) -> BOOLEAN]
  BY EmptyChunkLemma DEF Init
<1>3. /\ work \in Seq(Positions(chunk)) /\ stack \in Seq(Value)
      /\ diagnostics \in Seq(Diagnostic) /\ output \in Seq(Line)
  BY EmptySeq DEF Init
<1>4. input \in Seq(CInt)
  BY InputsAssumption DEF Init
<1>5. runs \in 0 .. MaxRuns
  BY MaxRunsAssumption DEF Init
<1>6. TypeOK
  <2>1. ok \in BOOLEAN
    BY DEF Init
  <2> QED
    BY <1>1, <1>2, <1>3, <1>4, <1>5, <2>1, EmptyChunkLemma DEF TypeOK, Init
<1>7. phase = "idle"
  BY DEF Init
<1>8. VerifierInv /\ StackMatchesVerifier /\ DepthsForced
  BY <1>7 DEF VerifierInv, StackMatchesVerifier, DepthsForced
<1>9. RefusalJustified /\ CleanHalt
  BY <1>7 DEF RefusalJustified, RefusedByVerify, CleanHalt
<1> QED
  BY <1>6, <1>8, <1>9 DEF IInv

LEMMA DiagnosticLemma ==
    ASSUME NEW r \in Reason, NEW l \in Nat
    PROVE  MakeDiagnostic(r, l) \in Diagnostic /\ MakeDiagnostic(r, l).reason = r
BY DEF MakeDiagnostic, Diagnostic

\* What a call sets has the right types.
LEMMA EnterTypes ==
    ASSUME TypeOK, NEW job \in Job, Enter(job)
    PROVE  /\ runs' \in 0 .. MaxRuns
           /\ chunk' = job.chunk /\ chunk' \in Chunk
           /\ stepLimit' \in Int
           /\ depth' \in [Positions(chunk') -> Nat \cup {Unvisited}]
           /\ ip' = 0 /\ steps' = 0 /\ retired' = 0
           /\ globals' \in [Slots(chunk') -> Value]
           /\ defined' \in [Slots(chunk') -> BOOLEAN]
           /\ stack' = << >> /\ stack' \in Seq(Value)
           /\ input' \in Seq(CInt) /\ output' \in Seq(Line)
<1>1. job \in Job /\ job.chunk \in Chunk /\ job.stepLimit \in Int
  BY DEF Job
<1>2. InitialDepth(job.chunk) \in [Positions(job.chunk) -> Nat \cup {Unvisited}]
  BY DEF InitialDepth
<1>3. << >> \in Seq(Value)
  BY EmptySeq
<1>4. runs' \in 0 .. MaxRuns
  BY MaxRunsAssumption DEF Enter, TypeOK
<1>5. MakeInt(0) \in Value
  BY ValueLemma
<1>6. /\ chunk' = job.chunk /\ stepLimit' = job.stepLimit
      /\ depth' = InitialDepth(job.chunk)
      /\ ip' = 0 /\ steps' = 0 /\ retired' = 0 /\ stack' = << >>
      /\ globals' = [s \in Slots(job.chunk) |-> MakeInt(0)]
      /\ defined' = [s \in Slots(job.chunk) |-> FALSE]
      /\ input' = input /\ output' = output
  BY DEF Enter, StackAtEntry, RetiredAtEntry
<1>7. /\ globals' \in [Slots(job.chunk) -> Value]
      /\ defined' \in [Slots(job.chunk) -> BOOLEAN]
  BY <1>5, <1>6
<1>8. input' \in Seq(CInt) /\ output' \in Seq(Line)
  BY <1>6 DEF TypeOK
<1> QED
  BY <1>1, <1>2, <1>3, <1>4, <1>6, <1>7, <1>8

LEMMA RefuseMalformedIInv ==
    ASSUME IInv, NEW job \in Job, RefuseMalformed(job)
    PROVE  IInv'
<1>1. TypeOK'
  <2>1. work' \in Seq(Positions(chunk'))
    BY EmptySeq DEF RefuseMalformed
  <2>2. diagnostics' \in Seq(Diagnostic)
    BY DiagnosticLemma, 0 \in Nat DEF RefuseMalformed, DiagnosticsAtEntry, Reason
  <2>3. phase' = "done" /\ ok' = FALSE /\ Enter(job) /\ TypeOK
    BY DEF RefuseMalformed, IInv
  <2>4. ok' \in BOOLEAN
    BY <2>3
  <2> QED
    BY <2>1, <2>2, <2>3, <2>4, EnterTypes DEF TypeOK
<1>2. ~WellFormed(chunk') /\ phase' = "done" /\ ok' = FALSE
  BY DEF RefuseMalformed, Enter
<1> QED
  BY <1>1, <1>2 DEF IInv, VerifierInv, StackMatchesVerifier, DepthsForced,
                    RefusalJustified, CleanHalt

LEMMA BeginVerifyStackIInv ==
    ASSUME IInv, NEW job \in Job, BeginVerifyStack(job)
    PROVE  IInv'
<1> DEFINE c == job.chunk
<1>1. /\ chunk' = c /\ c \in Chunk /\ WellFormed(c)
      /\ phase' = "verify" /\ work' = <<0>>
      /\ depth' = InitialDepth(c)
      /\ ip' = 0 /\ stack' = << >>
      /\ diagnostics' = << >>
  BY EnterTypes DEF IInv, BeginVerifyStack, Enter, DiagnosticsAtEntry
<1>2. 0 \in Positions(c)
  <2>1. c.code \in Seq(Instr) /\ c.code # << >>
    BY <1>1 DEF WellFormed, EndsInHalt, Chunk
  <2>2. Len(c.code) \in Nat \ {0}
    BY <2>1, EmptySeq
  <2> QED
    BY <2>2 DEF Positions, Size
<1>3. /\ depth'[0] = 0
      /\ \A i \in Positions(c) : depth'[i] # Unvisited => i = 0
  BY <1>1, <1>2 DEF InitialDepth
<1>4. Pending' = {0}
  BY <1>1 DEF Pending, Elements
<1>5. TypeOK'
  <2>1. work' \in Seq(Positions(chunk'))
    BY <1>1, <1>2
  <2>2. diagnostics' \in Seq(Diagnostic)
    BY <1>1, EmptySeq
  <2>3. ok' \in BOOLEAN
    BY DEF IInv, TypeOK, BeginVerifyStack
  <2> QED
    BY <1>1, <2>1, <2>2, <2>3, EnterTypes DEF IInv, TypeOK, BeginVerifyStack
<1>6. VerifierInv'
  <2>1. \A j \in Pending' : depth'[j] # Unvisited
    BY <1>3, <1>4 DEF Unvisited
  <2>2. EdgesChecked'
    BY <1>1, <1>3, <1>4 DEF EdgesChecked, Reached
  <2> QED
    BY <1>1, <1>3, <2>1, <2>2 DEF VerifierInv, Reached
<1>7. DepthsForced'
  BY <1>1, <1>2, <1>3 DEF DepthsForced, Consistent, Reached
<1> QED
  BY <1>1, <1>5, <1>6, <1>7
  DEF IInv, StackMatchesVerifier, RefusalJustified, RefusedByVerify, CleanHalt

-----------------------------------------------------------------------------
(* The verifier.                                                           *)

\* The instruction the verifier is looking at.
LEMMA CurrentLemma ==
    ASSUME IInv, phase = "verify", work # << >>
    PROVE  /\ chunk \in Chunk /\ WellFormed(chunk)
           /\ Current \in Positions(chunk)
           /\ InstrHere \in Instr
           /\ DepthHere \in Nat
           /\ DepthNext \in Int
<1>1. chunk \in Chunk /\ WellFormed(chunk)
  BY DEF IInv, TypeOK, VerifierInv
<1>2. Len(work) \in 1 .. Len(work) /\ DOMAIN work = 1 .. Len(work)
  BY EmptySeq, LenProperties DEF IInv, TypeOK
<1>3. Current \in Positions(chunk)
  BY <1>2, ElementOfSeq DEF IInv, TypeOK, Current
<1>4. InstrHere \in Instr
  BY <1>1, <1>3, ChunkTypes DEF InstrHere
<1>5. DepthHere \in Nat
  BY <1>2, <1>3
  DEF IInv, TypeOK, VerifierInv, Reached, Pending, Elements, DepthHere, Current
<1>6. DepthNext \in Int
  BY <1>4, <1>5, TableTypes DEF DepthNext, DepthAfter
<1> QED
  BY <1>1, <1>3, <1>4, <1>5, <1>6

\* Exactly the targets reached for the first time are pushed.
LEMMA PushedLemma ==
    ASSUME IInv, phase = "verify", work # << >>
    PROVE  /\ PushedTarget \o PushedNext \in Seq(Positions(chunk))
           /\ Elements(PushedTarget \o PushedNext) =
                 {j \in Positions(chunk) : Fresh(j)}
<1>1. \A j : Fresh(j) => j \in Positions(chunk)
  BY DEF Fresh, Successors
<1>2. ASSUME NEW j, Fresh(j)
      PROVE  \/ j = Current + 1
             \/ InstrHere.op \in JumpOps /\ j = InstrHere.operand
  BY <1>2, CurrentLemma, SuccessorLemma DEF Fresh, InstrHere
<1>3. /\ PushedTarget \in Seq(Positions(chunk))
      /\ \A j \in Elements(PushedTarget) : Fresh(j)
  BY <1>1 DEF PushedTarget, Elements
<1>4. /\ PushedNext \in Seq(Positions(chunk))
      /\ \A j \in Elements(PushedNext) : Fresh(j)
  BY <1>1 DEF PushedNext, Elements
<1>5. ASSUME NEW j, Fresh(j)
      PROVE  j \in Elements(PushedTarget) \cup Elements(PushedNext)
  <2>1. CASE InstrHere.op \in JumpOps /\ j = InstrHere.operand
    <3>1. PushedTarget = <<j>>
      BY <2>1, <1>5 DEF PushedTarget
    <3> QED BY <3>1 DEF Elements
  <2>2. CASE j = Current + 1 /\ PushedTarget = <<Current + 1>>
    BY <2>2 DEF Elements
  <2>3. CASE j = Current + 1 /\ PushedTarget # <<Current + 1>>
    <3>1. PushedNext = <<j>>
      BY <2>3, <1>5 DEF PushedNext
    <3> QED BY <3>1 DEF Elements
  <2> QED BY <2>1, <2>2, <2>3, <1>2, <1>5
<1>6. PushedTarget \in Seq(Positions(chunk)) /\ PushedNext \in Seq(Positions(chunk))
  BY <1>3, <1>4
<1>7. /\ PushedTarget \o PushedNext \in Seq(Positions(chunk))
      /\ Elements(PushedTarget \o PushedNext) =
            Elements(PushedTarget) \cup Elements(PushedNext)
  BY <1>6, ConcatLemma
<1> QED
  BY <1>1, <1>3, <1>4, <1>5, <1>7

\* The new depths: those of the fresh targets are set, no other changes.
LEMMA MarkedLemma ==
    ASSUME IInv, phase = "verify", work # << >>, ~Objects
    PROVE  /\ DepthNext \in Nat
           /\ Marked \in [Positions(chunk) -> Nat \cup {Unvisited}]
           /\ \A j \in Positions(chunk) : Fresh(j) => Marked[j] = DepthNext
           /\ \A j \in Positions(chunk) : ~Fresh(j) => Marked[j] = depth[j]
           /\ \A j \in Successors(chunk, Current) : Marked[j] = DepthNext
<1>1. depth \in [Positions(chunk) -> Nat \cup {Unvisited}]
  BY DEF IInv, TypeOK
<1>2. DepthNext \in Nat
  BY CurrentLemma, TableTypes DEF Objects, DepthNext, DepthAfter
<1>3. Marked \in [Positions(chunk) -> Nat \cup {Unvisited}]
  BY <1>1, <1>2 DEF Marked
<1>4. \A j \in Positions(chunk) :
         Marked[j] = IF Fresh(j) THEN DepthNext ELSE depth[j]
  BY <1>1 DEF Marked
<1>5. ASSUME NEW j \in Successors(chunk, Current)
      PROVE  Marked[j] = DepthNext
  <2>1. j \in Positions(chunk)
    BY DEF Successors
  <2>2. ~Clashes(j)
    BY DEF Objects
  <2> QED
    BY <2>1, <2>2, <1>4 DEF Clashes, Fresh
<1> QED
  BY <1>2, <1>3, <1>4, <1>5

\* The instruction just taken from the worklist agrees with its successors.
LEMMA CurrentConsistent ==
    ASSUME IInv, phase = "verify", work # << >>, ~Objects
    PROVE  ConsistentAt(chunk, Marked, Current)
<1>1. Current \in Positions(chunk) /\ DepthHere \in Nat /\ InstrHere \in Instr
  BY CurrentLemma
<1>2. Marked[Current] = DepthHere
  BY <1>1, MarkedLemma DEF Fresh, DepthHere, Unvisited
<1>3. DepthHere >= Pops(InstrHere.op)
  BY <1>1, TableTypes DEF Objects
<1>4. InstrHere.op = "OP_HALT" => DepthNext = 0
  BY DEF Objects
<1>5. \A j \in Successors(chunk, Current) : Marked[j] = DepthNext
  BY MarkedLemma
<1> QED
  BY <1>2, <1>3, <1>4, <1>5 DEF ConsistentAt, InstrHere, DepthNext

\* An edge that agreed before still does: its ends do not change.
LEMMA ConsistentStable ==
    ASSUME IInv, phase = "verify", work # << >>, ~Objects,
           NEW i \in Positions(chunk), Reached(i), ConsistentAt(chunk, depth, i)
    PROVE  ConsistentAt(chunk, Marked, i)
<1> DEFINE in == InstrAt(chunk, i)
<1>1. chunk \in Chunk /\ WellFormed(chunk)
  BY CurrentLemma
<1>2. depth[i] \in Nat
  BY DEF IInv, TypeOK, Reached
<1>3. Marked[i] = depth[i]
  BY MarkedLemma DEF Fresh, Reached
<1>4. depth[i] >= Pops(in.op)
  BY DEF ConsistentAt
<1>5. DepthAfter(in, depth[i]) \in Nat
  BY <1>2, <1>4, TableTypes DEF DepthAfter
<1>6. ASSUME NEW j \in Successors(chunk, i)
      PROVE  Marked[j] = DepthAfter(in, depth[i])
  <2>1. j \in Positions(chunk) /\ depth[j] = DepthAfter(in, depth[i])
    BY DEF ConsistentAt, Successors
  <2>2. ~Fresh(j)
    BY <2>1, <1>5 DEF Fresh, Unvisited
  <2> QED
    BY <2>1, <2>2, MarkedLemma
<1>7. in.op = "OP_HALT" => DepthAfter(in, depth[i]) = 0
  BY DEF ConsistentAt
<1> HIDE DEF in
<1> QED
  BY <1>3, <1>4, <1>6, <1>7 DEF ConsistentAt, in

LEMMA VerifyStepIInv ==
    ASSUME IInv, VerifyStep
    PROVE  IInv'
<1> DEFINE pushed == PushedTarget \o PushedNext
<1>1. /\ phase = "verify" /\ phase' = "verify" /\ work # << >> /\ ~Objects
      /\ depth' = Marked
      /\ work' = Rest \o pushed
      /\ chunk' = chunk /\ ip' = ip /\ stack' = stack
      /\ ok' = ok /\ diagnostics' = diagnostics
  BY DEF VerifyStep, callVars, execVars
<1>2. /\ TypeOK /\ VerifierInv /\ DepthsForced
      /\ WellFormed(chunk) /\ chunk \in Chunk
      /\ work \in Seq(Positions(chunk))
      /\ Current \in Positions(chunk)
  BY <1>1, CurrentLemma DEF IInv, TypeOK
<1>3. /\ Rest \in Seq(Positions(chunk))
      /\ Elements(Rest) \subseteq Pending
      /\ Pending \subseteq Elements(Rest) \cup {Current}
      /\ Pending \subseteq Positions(chunk)
  <2>1. work # << >>
    BY <1>1
  <2>2. /\ SubSeq(work, 1, Len(work) - 1) \in Seq(Positions(chunk))
        /\ Elements(SubSeq(work, 1, Len(work) - 1)) \subseteq Elements(work)
        /\ Elements(work) \subseteq
              Elements(SubSeq(work, 1, Len(work) - 1)) \cup {work[Len(work)]}
    BY <2>1, <1>2, RestLemma
  <2>3. Elements(work) \subseteq Positions(chunk)
    BY <1>2, LenProperties, ElementOfSeq DEF Elements
  <2> QED
    BY <2>2, <2>3 DEF Rest, Current, Pending
<1>4. /\ pushed \in Seq(Positions(chunk))
      /\ Elements(pushed) = {j \in Positions(chunk) : Fresh(j)}
  BY <1>1, PushedLemma
<1> HIDE DEF pushed
<1>5. /\ work' \in Seq(Positions(chunk))
      /\ Elements(work') = Elements(Rest) \cup {j \in Positions(chunk) : Fresh(j)}
  <2>1. /\ Rest \o pushed \in Seq(Positions(chunk))
        /\ Elements(Rest \o pushed) = Elements(Rest) \cup Elements(pushed)
    BY <1>3, <1>4, ConcatLemma
  <2> QED
    BY <2>1, <1>1, <1>4
<1>6. Pending' = Elements(Rest) \cup {j \in Positions(chunk) : Fresh(j)}
  BY <1>5 DEF Pending
<1>7. /\ DepthNext \in Nat
      /\ depth' \in [Positions(chunk) -> Nat \cup {Unvisited}]
      /\ \A j \in Positions(chunk) : Fresh(j) => depth'[j] = DepthNext
      /\ \A j \in Positions(chunk) : ~Fresh(j) => depth'[j] = depth[j]
  BY <1>1, MarkedLemma
<1>8. TypeOK'
  BY <1>1, <1>2, <1>5, <1>7 DEF TypeOK, VerifyStep, callVars, execVars
<1>9. depth'[0] = 0
  <2>1. depth[0] = 0
    BY <1>1, <1>2 DEF VerifierInv
  <2>2. 0 \in Positions(chunk)
    BY <1>2, ChunkTypes DEF Positions
  <2>3. ~Fresh(0)
    BY <2>1 DEF Fresh, Unvisited
  <2> QED
    BY <2>1, <2>2, <2>3, <1>7
<1>10. ASSUME NEW j \in Pending' PROVE depth'[j] # Unvisited
  <2>1. CASE Fresh(j)
    BY <2>1, <1>7 DEF Fresh, Successors, Unvisited
  <2>2. CASE ~Fresh(j)
    <3>1. j \in Pending /\ j \in Positions(chunk)
      BY <2>2, <1>3, <1>6
    <3> QED
      BY <2>2, <3>1, <1>1, <1>2, <1>7 DEF VerifierInv, Reached
  <2> QED BY <2>1, <2>2
<1>11. ASSUME NEW i \in Positions(chunk), depth'[i] # Unvisited, i \notin Pending'
       PROVE  ConsistentAt(chunk, depth', i)
  <2>1. CASE i = Current
    BY <2>1, <1>1, CurrentConsistent
  <2>2. CASE i # Current
    <3>1. ~Fresh(i) /\ i \notin Pending
      BY <2>2, <1>3, <1>6, <1>11
    <3>2. Reached(i)
      BY <3>1, <1>7, <1>11 DEF Reached
    <3>3. ConsistentAt(chunk, depth, i)
      BY <3>1, <3>2, <1>1, <1>2 DEF VerifierInv, EdgesChecked
    <3> QED
      BY <3>2, <3>3, <1>1, ConsistentStable
  <2> QED BY <2>1, <2>2
<1>12. VerifierInv'
  <2>1. EdgesChecked'
    BY <1>1, <1>11 DEF EdgesChecked, Reached
  <2>2. ip' = 0 /\ stack' = << >> /\ diagnostics' = << >>
    BY <1>1, <1>2 DEF VerifierInv
  <2>3. \A j \in Pending' : Reached(j)'
    BY <1>10 DEF Reached
  <2>4. WellFormed(chunk)'
    BY <1>1, <1>2
  <2> QED
    BY <1>1, <1>9, <2>1, <2>2, <2>3, <2>4 DEF VerifierInv
<1>13. DepthsForced'
  <2>1. ASSUME NEW D \in AllDepths, Consistent(chunk, D),
               NEW i \in Positions(chunk), depth'[i] # Unvisited
        PROVE  D[i] = depth'[i]
    <3>1. \A j \in Positions(chunk) : Reached(j) => D[j] = depth[j]
      BY <2>1, <1>1, <1>2 DEF DepthsForced
    <3>2. CASE ~Fresh(i)
      BY <3>1, <3>2, <2>1, <1>7 DEF Reached
    <3>3. CASE Fresh(i)
      <4>1. D[Current] = DepthHere /\ DepthHere # Unvisited
        BY <3>1, <1>1, <1>2, CurrentLemma DEF Reached, DepthHere, Unvisited
      <4>2. ConsistentAt(chunk, D, Current)
        BY <4>1, <2>1, <1>2 DEF Consistent
      <4>3. D[i] = DepthNext
        BY <4>1, <4>2, <3>3 DEF ConsistentAt, Fresh, DepthNext, InstrHere
      <4> QED
        BY <4>3, <3>3, <1>7
    <3> QED BY <3>2, <3>3
  <2> QED
    BY <2>1, <1>1 DEF DepthsForced, AllDepths, Reached
<1>14. StackMatchesVerifier' /\ RefusalJustified' /\ CleanHalt'
  BY <1>1 DEF StackMatchesVerifier, RefusalJustified, RefusedByVerify, CleanHalt
<1> QED
  BY <1>8, <1>12, <1>13, <1>14 DEF IInv

LEMMA VerifyRejectIInv ==
    ASSUME IInv, VerifyReject
    PROVE  IInv'
<1>1. /\ phase = "verify" /\ phase' = "done" /\ work # << >> /\ Objects
      /\ chunk' = chunk /\ depth' = depth /\ work' = work
      /\ ok' = FALSE
      /\ diagnostics' = Append(diagnostics, MakeDiagnostic("bytecode", 0))
  BY DEF VerifyReject, callVars, execVars
<1>2. /\ TypeOK /\ DepthsForced /\ VerifierInv
      /\ Current \in Positions(chunk) /\ DepthHere \in Nat
  BY <1>1, CurrentLemma DEF IInv
<1>3. TypeOK'
  <2>1. diagnostics' \in Seq(Diagnostic)
    BY <1>1, <1>2, DiagnosticLemma, 0 \in Nat DEF TypeOK, Reason
  <2>2. ok' \in BOOLEAN
    BY <1>1
  <2> QED
    BY <1>1, <1>2, <2>1, <2>2 DEF TypeOK, VerifyReject, callVars, execVars
<1>4. ASSUME NEW D \in AllDepths, Consistent(chunk, D)
      PROVE  FALSE
  <2>1. \A j \in Positions(chunk) : Reached(j) => D[j] = depth[j]
    BY <1>1, <1>2, <1>4 DEF DepthsForced
  <2>2. D[Current] = DepthHere /\ DepthHere # Unvisited
    BY <2>1, <1>2 DEF Reached, DepthHere, Unvisited
  <2>3. ConsistentAt(chunk, D, Current)
    BY <2>2, <1>2, <1>4 DEF Consistent
  <2>4. /\ DepthHere >= Pops(InstrHere.op)
        /\ InstrHere.op = "OP_HALT" => DepthNext = 0
        /\ \A j \in Successors(chunk, Current) : D[j] = DepthNext
    BY <2>2, <2>3 DEF ConsistentAt, InstrHere, DepthNext
  <2>5. \A j \in Successors(chunk, Current) : ~Clashes(j)
    BY <2>1, <2>4 DEF Clashes, Reached, Successors
  <2>6. Pops(InstrHere.op) \in Int
    BY TableTypes
  <2> QED
    BY <2>4, <2>5, <2>6, <1>1, <1>2 DEF Objects
<1>5. RefusalJustified'
  BY <1>1, <1>4 DEF RefusalJustified, AllDepths
<1>6. VerifierInv' /\ StackMatchesVerifier' /\ DepthsForced' /\ CleanHalt'
  BY <1>1 DEF VerifierInv, StackMatchesVerifier, DepthsForced, CleanHalt
<1> QED
  BY <1>3, <1>5, <1>6 DEF IInv

LEMMA VerifyAcceptIInv ==
    ASSUME IInv, VerifyAccept
    PROVE  IInv'
<1>1. /\ phase = "verify" /\ phase' = "run" /\ work = << >>
      /\ chunk' = chunk /\ depth' = depth /\ work' = work
      /\ ip' = ip /\ stack' = stack /\ ok' = ok /\ diagnostics' = diagnostics
  BY DEF VerifyAccept, callVars, execVars
<1>2. TypeOK /\ VerifierInv /\ DepthsForced /\ ip = 0 /\ stack = << >>
  BY <1>1 DEF IInv, VerifierInv
<1>3. TypeOK'
  BY <1>1, <1>2 DEF TypeOK, VerifyAccept, callVars, execVars
<1>4. VerifierInv'
  <2>1. EdgesChecked' /\ (\A j \in Pending' : Reached(j)')
    BY <1>1, <1>2 DEF VerifierInv, EdgesChecked, Reached, Pending
  <2> QED
    BY <2>1, <1>1, <1>2 DEF VerifierInv
<1>5. StackMatchesVerifier'
  <2>1. depth[0] = 0 /\ WellFormed(chunk) /\ chunk \in Chunk
    BY <1>1, <1>2 DEF VerifierInv, TypeOK
  <2>2. chunk.code \in Seq(Instr) /\ chunk.code # << >>
    BY <2>1 DEF WellFormed, EndsInHalt, Chunk
  <2>3. 0 \in Positions(chunk)
    BY <2>2, EmptySeq DEF Positions, Size
  <2> QED
    BY <1>1, <1>2, <2>1, <2>3, EmptySeq DEF StackMatchesVerifier, Unvisited
<1>6. DepthsForced'
  BY <1>1, <1>2 DEF DepthsForced, AllDepths, Reached
<1>7. RefusalJustified' /\ CleanHalt'
  BY <1>1 DEF RefusalJustified, RefusedByVerify, CleanHalt
<1> QED
  BY <1>3, <1>4, <1>5, <1>6, <1>7 DEF IInv

-----------------------------------------------------------------------------
(* Execution.                                                              *)

\* A verified chunk has a consistent assignment of depths: the verifier's.
LEMMA RunConsistent ==
    ASSUME IInv, phase = "run"
    PROVE  /\ chunk \in Chunk /\ WellFormed(chunk)
           /\ Consistent(chunk, depth)
<1>1. chunk \in Chunk /\ WellFormed(chunk) /\ depth[0] = 0 /\ EdgesChecked /\ work = << >>
  BY DEF IInv, TypeOK, VerifierInv
<1>2. Pending = {}
  BY <1>1 DEF Pending, Elements
<1> QED
  BY <1>1, <1>2 DEF EdgesChecked, Consistent, Reached

\* What the instruction about to be executed can rely on.
LEMMA RunFacts ==
    ASSUME IInv, phase = "run"
    PROVE  /\ ip \in Positions(chunk)
           /\ Here \in Instr
           /\ stack \in Seq(Value) /\ Len(stack) \in Nat
           /\ Len(stack) = depth[ip]
           /\ ConsistentAt(chunk, depth, ip)
           /\ Len(stack) >= Needs(Here.op)
           /\ Fault \notin {"ip", "underflow"}
<1>1. chunk \in Chunk /\ WellFormed(chunk) /\ Consistent(chunk, depth)
  BY RunConsistent
<1>2. ip \in Positions(chunk) /\ depth[ip] # Unvisited /\ Len(stack) = depth[ip]
  BY DEF IInv, StackMatchesVerifier
<1>3. stack \in Seq(Value) /\ Len(stack) \in Nat
  BY LenProperties DEF IInv, TypeOK
<1>4. Here \in Instr
  BY <1>1, <1>2, ChunkTypes DEF Here
<1>5. ConsistentAt(chunk, depth, ip)
  BY <1>1, <1>2 DEF Consistent
<1>6. Len(stack) >= Needs(Here.op)
  BY <1>2, <1>5, TableTypes DEF ConsistentAt, Here
<1>7. ~(ip >= Size(chunk)) /\ ~(Len(stack) < Needs(Here.op))
  <2>1. ip < Size(chunk) /\ ip \in Int /\ Size(chunk) \in Int
    BY <1>1, <1>2, ChunkTypes DEF Positions
  <2>2. Needs(Here.op) \in Int
    BY TableTypes
  <2> QED BY <1>3, <1>6, <2>1, <2>2
<1>8. Fault \notin {"ip", "underflow"}
  BY <1>7 DEF Fault, RuntimeFault
<1> QED
  BY <1>2, <1>3, <1>4, <1>5, <1>6, <1>8

\* The operands of an instruction that needs them.
LEMMA OperandTypes ==
    ASSUME IInv, phase = "run"
    PROVE  /\ Needs(Here.op) >= 1 =>
                 /\ Top \in Value
                 /\ Drop(1) \in Seq(Value) /\ Len(Drop(1)) = Len(stack) - 1
           /\ Needs(Here.op) = 2 =>
                 /\ Under \in Value
                 /\ Drop(2) \in Seq(Value) /\ Len(Drop(2)) = Len(stack) - 2
<1>1. /\ stack \in Seq(Value) /\ Len(stack) \in Nat
      /\ Len(stack) >= Needs(Here.op) /\ Needs(Here.op) \in Int
  BY RunFacts, TableTypes
<1>2. ASSUME Needs(Here.op) >= 1
      PROVE  /\ Top \in Value
             /\ Drop(1) \in Seq(Value) /\ Len(Drop(1)) = Len(stack) - 1
  <2>1. Len(stack) \in 1 .. Len(stack) /\ 1 \in 0 .. Len(stack)
    BY <1>1, <1>2
  <2> QED
    BY <1>1, <2>1, ElementOfSeq, PopLemma DEF Top, Drop
<1>3. ASSUME Needs(Here.op) = 2
      PROVE  /\ Under \in Value
             /\ Drop(2) \in Seq(Value) /\ Len(Drop(2)) = Len(stack) - 2
  <2>1. Len(stack) - 1 \in 1 .. Len(stack) /\ 2 \in 0 .. Len(stack)
    BY <1>1, <1>3
  <2> QED
    BY <1>1, <2>1, ElementOfSeq, PopLemma DEF Under, Drop
<1> QED
  BY <1>2, <1>3

LEMMA CountedTypes ==
    ASSUME TypeOK, Counted
    PROVE  retired' \in Nat /\ steps' \in Nat
BY DEF TypeOK, Counted

\* An instruction that leaves the stack as high as its successor assumes,
\* and everything of its type, preserves the invariant.
LEMMA StepIInv ==
    ASSUME IInv, NEW ops, Executing(ops), Continue,
           ip' \in Successors(chunk, ip),
           stack' \in Seq(Value),
           Len(stack') = DepthAfter(Here, Len(stack)),
           globals' \in [Slots(chunk) -> Value],
           defined' \in [Slots(chunk) -> BOOLEAN],
           input' \in Seq(CInt),
           output' \in Seq(Line)
    PROVE  IInv'
<1>1. /\ phase = "run" /\ phase' = "run" /\ ok' = ok /\ Counted
      /\ runs' = runs /\ chunk' = chunk /\ stepLimit' = stepLimit
      /\ depth' = depth /\ work' = work /\ diagnostics' = diagnostics
  BY DEF Executing, Continue, callVars
<1>2. TypeOK /\ VerifierInv /\ DepthsForced
  BY DEF IInv
<1>3. /\ chunk \in Chunk /\ Size(chunk) \in Nat /\ ip' \in Positions(chunk) /\ ip' \in Nat
  BY <1>2, ChunkTypes DEF TypeOK, Successors, Positions
<1>4. TypeOK'
  BY <1>1, <1>2, <1>3, CountedTypes DEF TypeOK
<1>5. VerifierInv'
  <2>1. EdgesChecked' /\ (\A j \in Pending' : Reached(j)')
    BY <1>1, <1>2 DEF VerifierInv, EdgesChecked, Reached, Pending
  <2> QED
    BY <2>1, <1>1, <1>2 DEF VerifierInv
<1>6. StackMatchesVerifier'
  <2>1. depth[ip'] = DepthAfter(Here, Len(stack))
    BY <1>1, RunFacts DEF ConsistentAt, Here
  <2>2. Len(stack') \in Nat
    BY LenProperties
  <2> QED
    BY <1>1, <1>3, <2>1, <2>2 DEF StackMatchesVerifier, Unvisited
<1>7. DepthsForced'
  BY <1>1, <1>2 DEF DepthsForced, AllDepths, Reached
<1>8. RefusalJustified' /\ CleanHalt'
  BY <1>1 DEF RefusalJustified, RefusedByVerify, CleanHalt
<1> QED
  BY <1>4, <1>5, <1>6, <1>7, <1>8 DEF IInv

\* The state an instruction starts from, typed.
LEMMA RunTypes ==
    ASSUME IInv, phase = "run"
    PROVE  /\ chunk \in Chunk
           /\ globals \in [Slots(chunk) -> Value]
           /\ defined \in [Slots(chunk) -> BOOLEAN]
           /\ stack \in Seq(Value)
           /\ input \in Seq(CInt)
           /\ output \in Seq(Line)
BY DEF IInv, TypeOK

\* Execution falls through to an instruction of the chunk.
LEMMA FallThrough ==
    ASSUME IInv, phase = "run", Here.op \notin {"OP_HALT", "OP_JUMP"}
    PROVE  ip + 1 \in Successors(chunk, ip)
BY RunConsistent, RunFacts, SuccessorLemma DEF Here

LEMMA JumpIInv ==
    ASSUME IInv, Jump
    PROVE  IInv'
<1>1. /\ Executing({"OP_JUMP"}) /\ phase = "run" /\ Here.op = "OP_JUMP"
      /\ ip' = Here.operand /\ Continue
      /\ stack' = stack /\ globals' = globals /\ defined' = defined
      /\ input' = input /\ output' = output
  BY DEF Jump, Executing
<1>2. ip' \in Successors(chunk, ip)
  BY <1>1, RunConsistent, RunFacts, SuccessorLemma DEF Here, JumpOps
<1>3. Len(stack') = DepthAfter(Here, Len(stack))
  BY <1>1, RunFacts DEF DepthAfter, Pops, Pushes, BinaryOps, ArithOps, DivOps,
     CompareOps, EqualOps, UnaryOps, StoreOps, BranchOps, BoolOps
<1> QED
  BY <1>1, <1>2, <1>3, RunTypes, StepIInv

LEMMA BranchIInv ==
    ASSUME IInv, Branch
    PROVE  IInv'
<1>1. /\ Executing(BranchOps) /\ phase = "run" /\ Here.op \in BranchOps
      /\ ip' = IF Taken THEN Here.operand ELSE ip + 1
      /\ Continue
      /\ stack' = stack /\ globals' = globals /\ defined' = defined
      /\ input' = input /\ output' = output
  BY DEF Branch, Executing
<1>2. Here.operand \in Successors(chunk, ip) /\ ip + 1 \in Successors(chunk, ip)
  BY <1>1, RunConsistent, RunFacts, SuccessorLemma DEF Here, JumpOps, BranchOps
<1>3. ip' \in Successors(chunk, ip)
  BY <1>1, <1>2
<1>4. Len(stack') = DepthAfter(Here, Len(stack))
  BY <1>1, RunFacts DEF DepthAfter, Pops, Pushes, BinaryOps, ArithOps, DivOps,
     CompareOps, EqualOps, UnaryOps, StoreOps, BranchOps, BoolOps
<1> QED
  BY <1>1, <1>3, <1>4, RunTypes, StepIInv

\* The depth after each group of instructions.
LEMMA DepthTable ==
    ASSUME NEW in, NEW d \in Int
    PROVE  /\ in.op \in StoreOps \cup {"OP_PRINT_VAL", "OP_POP"} =>
                 DepthAfter(in, d) = d - 1 /\ Needs(in.op) = 1
           /\ in.op \in BoolOps \cup {"OP_GET_GLOBAL", "OP_CONST_INT", "OP_READ"} =>
                 DepthAfter(in, d) = d + 1 /\ Needs(in.op) = 0
           /\ in.op = "OP_DUP" =>
                 DepthAfter(in, d) = d + 1 /\ Needs(in.op) = 1
           /\ in.op \in UnaryOps =>
                 DepthAfter(in, d) = d /\ Needs(in.op) = 1
           /\ in.op \in BinaryOps =>
                 DepthAfter(in, d) = d - 1 /\ Needs(in.op) = 2
           /\ in.op \in {"OP_PRINT_STR", "OP_HALT"} =>
                 DepthAfter(in, d) = d /\ Needs(in.op) = 0
BY DEF DepthAfter, Pops, Pushes, Needs, BinaryOps, ArithOps, DivOps, CompareOps,
   EqualOps, UnaryOps, StoreOps, BranchOps, BoolOps

\* The same of the instruction about to be executed.
LEMMA DepthHereTable ==
    ASSUME IInv, phase = "run"
    PROVE  /\ Len(stack) \in Nat
           /\ Here.op \in StoreOps \cup {"OP_PRINT_VAL", "OP_POP"} =>
                 /\ DepthAfter(Here, Len(stack)) = Len(stack) - 1
                 /\ Needs(Here.op) = 1
           /\ Here.op \in BoolOps \cup {"OP_GET_GLOBAL", "OP_CONST_INT", "OP_READ"} =>
                 DepthAfter(Here, Len(stack)) = Len(stack) + 1
           /\ Here.op = "OP_DUP" =>
                 /\ DepthAfter(Here, Len(stack)) = Len(stack) + 1
                 /\ Needs(Here.op) = 1
           /\ Here.op \in UnaryOps =>
                 /\ DepthAfter(Here, Len(stack)) = Len(stack)
                 /\ Needs(Here.op) = 1
           /\ Here.op \in BinaryOps =>
                 /\ DepthAfter(Here, Len(stack)) = Len(stack) - 1
                 /\ Needs(Here.op) = 2
           /\ Here.op \in {"OP_PRINT_STR", "OP_HALT"} =>
                 DepthAfter(Here, Len(stack)) = Len(stack)
<1>1. Len(stack) \in Nat /\ Len(stack) \in Int
  BY RunFacts
<1> QED
  BY <1>1, DepthTable

\* The groups of instructions an action stands for fall through.
LEMMA NotHalt ==
    ASSUME NEW op \in BinaryOps \cup UnaryOps \cup StoreOps \cup BoolOps \cup
                      {"OP_GET_GLOBAL", "OP_CONST_INT", "OP_READ", "OP_PRINT_STR",
                       "OP_PRINT_VAL", "OP_POP", "OP_DUP"}
    PROVE  op \notin {"OP_HALT", "OP_JUMP"}
BY DEF BinaryOps, ArithOps, DivOps, CompareOps, EqualOps, UnaryOps, StoreOps, BoolOps

LEMMA StoreIInv ==
    ASSUME IInv, Store
    PROVE  IInv'
<1>1. /\ Executing(StoreOps) /\ phase = "run" /\ Here.op \in StoreOps
      /\ globals' = [globals EXCEPT ![Here.operand] = Top]
      /\ defined' = [defined EXCEPT ![Here.operand] = TRUE]
      /\ stack' = Drop(1) /\ ip' = ip + 1 /\ Continue
      /\ input' = input /\ output' = output
  BY DEF Store, Executing, Advance
<1>2. ip' \in Successors(chunk, ip)
  BY <1>1, NotHalt, FallThrough
<1>3. /\ Len(stack) \in Nat /\ DepthAfter(Here, Len(stack)) = Len(stack) - 1
      /\ Needs(Here.op) = 1
  BY <1>1, DepthHereTable
<1>4. Top \in Value /\ stack' \in Seq(Value) /\ Len(stack') = Len(stack) - 1
  BY <1>1, <1>3, OperandTypes
<1>5. globals' \in [Slots(chunk) -> Value] /\ defined' \in [Slots(chunk) -> BOOLEAN]
  BY <1>1, <1>4, RunTypes
<1> QED
  BY <1>1, <1>2, <1>3, <1>4, <1>5, RunTypes, StepIInv

LEMMA LoadIInv ==
    ASSUME IInv, Load
    PROVE  IInv'
<1>1. /\ Executing({"OP_GET_GLOBAL"}) /\ phase = "run" /\ Here.op = "OP_GET_GLOBAL"
      /\ stack' = Append(stack, globals[Here.operand]) /\ ip' = ip + 1 /\ Continue
      /\ globals' = globals /\ defined' = defined
      /\ input' = input /\ output' = output
  BY DEF Load, Executing, Advance
<1>2. ip' \in Successors(chunk, ip)
  BY <1>1, NotHalt, FallThrough
<1>3. Here.operand \in Slots(chunk)
  BY <1>1, RunConsistent, RunFacts, OperandLemma DEF Here, GlobalOps
<1>4. stack' \in Seq(Value) /\ Len(stack') = Len(stack) + 1
  BY <1>1, <1>3, RunTypes
<1>5. Len(stack') = DepthAfter(Here, Len(stack))
  BY <1>1, <1>4, DepthHereTable
<1> QED
  BY <1>1, <1>2, <1>4, <1>5, RunTypes, StepIInv

LEMMA PushIInv ==
    ASSUME IInv, Push
    PROVE  IInv'
<1>1. /\ Executing(BoolOps \cup {"OP_CONST_INT"}) /\ phase = "run"
      /\ Here.op \in BoolOps \cup {"OP_CONST_INT"}
      /\ stack' = Append(stack, ConstantPushed(Here)) /\ ip' = ip + 1 /\ Continue
      /\ globals' = globals /\ defined' = defined
      /\ input' = input /\ output' = output
  BY DEF Push, Executing, Advance
<1>2. ip' \in Successors(chunk, ip)
  BY <1>1, NotHalt, FallThrough
<1>3. ConstantPushed(Here) \in Value
  <2>1. CASE Here.op = "OP_CONST_INT"
    <3>1. Here.operand + 1 \in 1 .. Len(chunk.intConstants)
      BY <2>1, <1>1, RunConsistent, RunFacts, OperandLemma DEF Here
    <3>2. chunk.intConstants[Here.operand + 1] \in CInt
      BY <3>1, <1>1, RunTypes, ChunkTypes, ElementOfSeq
    <3>3. CInt \subseteq Int
      BY DEF CInt
    <3>4. MakeInt(chunk.intConstants[Here.operand + 1]) \in Value
      BY <3>2, <3>3, ValueLemma
    <3> QED
      BY <2>1, <3>4 DEF ConstantPushed
  <2>2. CASE Here.op # "OP_CONST_INT"
    <3>1. (Here.op = "OP_TRUE") \in BOOLEAN
      OBVIOUS
    <3>2. MakeBool(Here.op = "OP_TRUE") \in Value
      BY <3>1, ValueLemma
    <3> QED
      BY <2>2, <3>2 DEF ConstantPushed
  <2> QED BY <2>1, <2>2
<1>4. stack' \in Seq(Value) /\ Len(stack') = Len(stack) + 1
  BY <1>1, <1>3, <1>1, RunTypes
<1>5. Len(stack') = DepthAfter(Here, Len(stack))
  BY <1>1, <1>4, DepthHereTable
<1> QED
  BY <1>1, <1>2, <1>4, <1>5, RunTypes, StepIInv

LEMMA ReadIInv ==
    ASSUME IInv, Read
    PROVE  IInv'
<1>1. /\ Executing({"OP_READ"}) /\ phase = "run" /\ Here.op = "OP_READ"
      /\ Fault = "none"
      /\ stack' = Append(stack, MakeInt(Head(input))) /\ input' = Tail(input)
      /\ ip' = ip + 1 /\ Continue
      /\ globals' = globals /\ defined' = defined /\ output' = output
  BY DEF Read, Executing, Advance
<1>2. ip' \in Successors(chunk, ip)
  BY <1>1, NotHalt, FallThrough
<1>3. input # << >>
  BY <1>1 DEF Fault, RuntimeFault
<1>4. Head(input) \in CInt /\ input' \in Seq(CInt)
  BY <1>1, <1>3, RunTypes, HeadTailProperties
<1>5. MakeInt(Head(input)) \in Value
  BY <1>4, ValueLemma DEF CInt
<1>6. stack' \in Seq(Value) /\ Len(stack') = Len(stack) + 1
  BY <1>1, <1>5, RunTypes
<1>7. Len(stack') = DepthAfter(Here, Len(stack))
  BY <1>1, <1>6, DepthHereTable
<1> QED
  BY <1>1, <1>2, <1>4, <1>6, <1>7, RunTypes, StepIInv

LEMMA LineLemma ==
    /\ \A v \in Value : Printed(v) \in Line
    /\ \A s \in STRING : TextLine(s) \in Line
<1>1. \A s \in Text : TextLine(s) \in Line
  BY DEF TextLine, Line
<1>2. \A n \in Int : IntLine(n) \in Line
  BY DEF IntLine, Line, Text, Words
<1>3. ASSUME NEW v \in Value PROVE Printed(v) \in Line
  <2>1. v.i \in Int
    BY DEF Value
  <2>2. TextLine("totoo") \in Line /\ TextLine("mali") \in Line
    BY <1>1 DEF Text, Words
  <2>3. IntLine(v.i) \in Line
    BY <1>2, <2>1
  <2> QED
    BY <2>2, <2>3 DEF Printed
<1> QED
  BY <1>1, <1>3 DEF Text

LEMMA PrintStrIInv ==
    ASSUME IInv, PrintStr
    PROVE  IInv'
<1>1. /\ Executing({"OP_PRINT_STR"}) /\ phase = "run" /\ Here.op = "OP_PRINT_STR"
      /\ output' = Append(output, TextLine(chunk.stringConstants[Here.operand + 1]))
      /\ ip' = ip + 1 /\ Continue /\ stack' = stack
      /\ globals' = globals /\ defined' = defined /\ input' = input
  BY DEF PrintStr, Executing, Advance
<1>2. ip' \in Successors(chunk, ip)
  BY <1>1, NotHalt, FallThrough
<1>3. Here.operand + 1 \in 1 .. Len(chunk.stringConstants)
  BY <1>1, RunConsistent, RunFacts, OperandLemma DEF Here
<1>4. chunk.stringConstants[Here.operand + 1] \in STRING
  BY <1>1, <1>3, RunTypes, ChunkTypes, ElementOfSeq
<1>5. output' \in Seq(Line)
  <2>1. TextLine(chunk.stringConstants[Here.operand + 1]) \in Line
    BY <1>4, LineLemma
  <2>2. output \in Seq(Line)
    BY <1>1, RunTypes
  <2> QED
    BY <1>1, <2>1, <2>2
<1>6. Len(stack') = DepthAfter(Here, Len(stack))
  BY <1>1, DepthHereTable
<1> QED
  BY <1>1, <1>2, <1>5, <1>6, RunTypes, StepIInv

LEMMA PrintValIInv ==
    ASSUME IInv, PrintVal
    PROVE  IInv'
<1>1. /\ Executing({"OP_PRINT_VAL"}) /\ phase = "run" /\ Here.op = "OP_PRINT_VAL"
      /\ output' = Append(output, Printed(Top)) /\ stack' = Drop(1)
      /\ ip' = ip + 1 /\ Continue
      /\ globals' = globals /\ defined' = defined /\ input' = input
  BY DEF PrintVal, Executing, Advance
<1>2. ip' \in Successors(chunk, ip)
  BY <1>1, NotHalt, FallThrough
<1>3. /\ Len(stack) \in Nat /\ DepthAfter(Here, Len(stack)) = Len(stack) - 1
      /\ Needs(Here.op) = 1
  BY <1>1, DepthHereTable
<1>4. Top \in Value /\ stack' \in Seq(Value) /\ Len(stack') = Len(stack) - 1
  BY <1>1, <1>3, OperandTypes
<1>5. output' \in Seq(Line)
  BY <1>1, <1>4, LineLemma, RunTypes
<1> QED
  BY <1>1, <1>2, <1>3, <1>4, <1>5, RunTypes, StepIInv

LEMMA PopIInv ==
    ASSUME IInv, Pop
    PROVE  IInv'
<1>1. /\ Executing({"OP_POP"}) /\ phase = "run" /\ Here.op = "OP_POP"
      /\ stack' = Drop(1) /\ ip' = ip + 1 /\ Continue
      /\ globals' = globals /\ defined' = defined
      /\ input' = input /\ output' = output
  BY DEF Pop, Executing, Advance
<1>2. ip' \in Successors(chunk, ip)
  BY <1>1, NotHalt, FallThrough
<1>3. /\ Len(stack) \in Nat /\ DepthAfter(Here, Len(stack)) = Len(stack) - 1
      /\ Needs(Here.op) = 1
  BY <1>1, DepthHereTable
<1>4. stack' \in Seq(Value) /\ Len(stack') = Len(stack) - 1
  BY <1>1, <1>3, OperandTypes
<1> QED
  BY <1>1, <1>2, <1>3, <1>4, RunTypes, StepIInv

LEMMA DupIInv ==
    ASSUME IInv, Dup
    PROVE  IInv'
<1>1. /\ Executing({"OP_DUP"}) /\ phase = "run" /\ Here.op = "OP_DUP"
      /\ stack' = Append(stack, Top) /\ ip' = ip + 1 /\ Continue
      /\ globals' = globals /\ defined' = defined
      /\ input' = input /\ output' = output
  BY DEF Dup, Executing, Advance
<1>2. ip' \in Successors(chunk, ip)
  BY <1>1, NotHalt, FallThrough
<1>3. /\ Len(stack) \in Nat /\ DepthAfter(Here, Len(stack)) = Len(stack) + 1
      /\ Needs(Here.op) = 1
  BY <1>1, DepthHereTable
<1>4. Top \in Value
  BY <1>1, <1>3, OperandTypes
<1>5. stack' \in Seq(Value) /\ Len(stack') = Len(stack) + 1
  BY <1>1, <1>4, RunTypes
<1> QED
  BY <1>1, <1>2, <1>3, <1>5, RunTypes, StepIInv

LEMMA DivisionTypes ==
    ASSUME NEW m \in Nat, NEW n \in Nat \ {0}
    PROVE  m \div n \in Int /\ m % n \in 0 .. n - 1
OBVIOUS

\* Division of ints yields ints.
LEMMA TruncTypes ==
    ASSUME NEW a \in Int, NEW b \in Int, b # 0
    PROVE  TruncDiv(a, b) \in Int /\ TruncMod(a, b) \in Int
<1>1. Abs(a) \in Nat /\ Abs(b) \in Nat \ {0}
  BY DEF Abs
<1>2. Abs(a) \div Abs(b) \in Int /\ Abs(a) % Abs(b) \in Int
  BY <1>1, DivisionTypes
<1> QED
  BY <1>2 DEF TruncDiv, TruncMod

LEMMA BinaryResultType ==
    ASSUME NEW op \in BinaryOps, NEW l \in Value, NEW r \in Value,
           op \in DivOps => r.i # 0
    PROVE  BinaryResult(op, l, r) \in Value
<1>1. l.i \in Int /\ r.i \in Int /\ l.b \in BOOLEAN /\ r.b \in BOOLEAN
  BY DEF Value
<1>2. CASE op \in ArithOps \cup DivOps
  <2>1. Exact(op, l.i, r.i) \in Int
    <3>1. CASE op \in ArithOps
      BY <3>1, <1>1 DEF Exact, ArithOps
    <3>2. CASE op \in DivOps
      BY <3>2, <1>1, TruncTypes DEF Exact, DivOps
    <3> QED BY <3>1, <3>2, <1>2
  <2> QED
    BY <2>1, <1>2, ValueLemma DEF BinaryResult
<1>3. CASE op \in CompareOps
  <2>1. Compare(op, l.i, r.i) \in BOOLEAN
    BY Zenon DEF Compare
  <2>2. op \notin ArithOps \cup DivOps
    BY <1>3 DEF CompareOps, ArithOps, DivOps
  <2> QED
    BY <2>1, <2>2, <1>3, ValueLemma DEF BinaryResult
<1>4. CASE op \in EqualOps
  <2>1. (RawEq(l, r) = (op = "OP_EQ")) \in BOOLEAN
    OBVIOUS
  <2>2. op \notin ArithOps \cup DivOps /\ op \notin CompareOps
    BY <1>4 DEF EqualOps, CompareOps, ArithOps, DivOps
  <2> QED
    BY <2>1, <2>2, ValueLemma DEF BinaryResult
<1> QED
  BY <1>2, <1>3, <1>4 DEF BinaryOps

LEMMA BinaryIInv ==
    ASSUME IInv, Binary
    PROVE  IInv'
<1>1. /\ Executing(BinaryOps) /\ phase = "run" /\ Here.op \in BinaryOps
      /\ Fault = "none"
      /\ stack' = Append(Drop(2), BinaryResult(Here.op, Under, Top))
      /\ ip' = ip + 1 /\ Continue
      /\ globals' = globals /\ defined' = defined
      /\ input' = input /\ output' = output
  BY DEF Binary, Executing, Advance
<1>2. ip' \in Successors(chunk, ip)
  BY <1>1, NotHalt, FallThrough
<1>3. /\ Len(stack) \in Nat /\ DepthAfter(Here, Len(stack)) = Len(stack) - 1
      /\ Needs(Here.op) = 2
  BY <1>1, DepthHereTable
<1>4. /\ Top \in Value /\ Under \in Value
      /\ Drop(2) \in Seq(Value) /\ Len(Drop(2)) = Len(stack) - 2
  BY <1>1, <1>3, OperandTypes
<1>5. Here.op \in DivOps => Top.i # 0
  BY <1>1 DEF Fault, RuntimeFault
<1>6. BinaryResult(Here.op, Under, Top) \in Value
  BY <1>1, <1>4, <1>5, BinaryResultType
<1>7. stack' \in Seq(Value) /\ Len(stack') = Len(stack) - 1
  BY <1>1, <1>3, <1>4, <1>6
<1> QED
  BY <1>1, <1>2, <1>3, <1>7, RunTypes, StepIInv

LEMMA UnaryIInv ==
    ASSUME IInv, Unary
    PROVE  IInv'
<1>1. /\ Executing(UnaryOps) /\ phase = "run" /\ Here.op \in UnaryOps
      /\ stack' = Append(Drop(1), UnaryResult(Here.op, Top))
      /\ ip' = ip + 1 /\ Continue
      /\ globals' = globals /\ defined' = defined
      /\ input' = input /\ output' = output
  BY DEF Unary, Executing, Advance
<1>2. ip' \in Successors(chunk, ip)
  BY <1>1, NotHalt, FallThrough
<1>3. /\ Len(stack) \in Nat /\ DepthAfter(Here, Len(stack)) = Len(stack)
      /\ Needs(Here.op) = 1
  BY <1>1, DepthHereTable
<1>4. Top \in Value /\ Drop(1) \in Seq(Value) /\ Len(Drop(1)) = Len(stack) - 1
  BY <1>1, <1>3, OperandTypes
<1>5. UnaryResult(Here.op, Top) \in Value
  <2>1. Top.i \in Int
    BY <1>4 DEF Value
  <2>2. (~Truth(Top)) \in BOOLEAN
    OBVIOUS
  <2>3. MakeInt(-Top.i) \in Value
    BY <2>1, ValueLemma
  <2>4. MakeBool(~Truth(Top)) \in Value
    BY <2>2, ValueLemma, Zenon
  <2> QED
    BY <2>3, <2>4 DEF UnaryResult
<1>6. stack' \in Seq(Value) /\ Len(stack') = Len(stack)
  BY <1>1, <1>3, <1>4, <1>5
<1> QED
  BY <1>1, <1>2, <1>3, <1>6, RunTypes, StepIInv

LEMMA HaltIInv ==
    ASSUME IInv, Halt
    PROVE  IInv'
<1>1. /\ phase = "run" /\ phase' = "done" /\ Here.op = "OP_HALT" /\ Counted
      /\ ok' = TRUE /\ ip' = ip /\ stack' = stack /\ diagnostics' = diagnostics
      /\ chunk' = chunk /\ depth' = depth /\ work' = work
      /\ UNCHANGED <<callVars, globals, defined, input, output>>
  BY DEF Halt, Executing, callVars
<1>2. stack = << >>
  <2>1. /\ Len(stack) \in Nat /\ stack \in Seq(Value)
        /\ DepthAfter(Here, Len(stack)) = Len(stack)
    BY <1>1, DepthHereTable DEF IInv, TypeOK
  <2>2. DepthAfter(Here, Len(stack)) = 0
    BY <1>1, RunFacts DEF ConsistentAt, Here
  <2> QED
    BY <2>1, <2>2, EmptySeq
<1>3. TypeOK'
  <2>1. TypeOK /\ retired' \in Nat /\ steps' \in Nat
    BY <1>1, CountedTypes DEF IInv
  <2>2. ok' \in BOOLEAN
    BY <1>1
  <2> QED
    BY <1>1, <2>1, <2>2 DEF TypeOK, callVars
<1>4. diagnostics = << >>
  BY <1>1 DEF IInv, VerifierInv
<1>5. RefusalJustified'
  BY <1>1, <1>4 DEF RefusalJustified, RefusedByVerify
<1>6. VerifierInv' /\ StackMatchesVerifier' /\ DepthsForced'
  BY <1>1 DEF VerifierInv, StackMatchesVerifier, DepthsForced
<1>7. CleanHalt'
  BY <1>1, <1>2 DEF CleanHalt
<1> QED
  BY <1>3, <1>5, <1>6, <1>7 DEF IInv

\* The reasons for which a verified chunk can fail.
LEMMA FaultLemma ==
    ASSUME IInv, phase = "run", Fault # "none"
    PROVE  Fault \in Reason \ {"bytecode", "ip", "underflow"}
BY RunFacts DEF Fault, RuntimeFault, Reason

LEMMA FailIInv ==
    ASSUME IInv, Fail
    PROVE  IInv'
<1>1. /\ phase = "run" /\ Fault # "none" /\ phase' = "done" /\ ok' = FALSE
      /\ diagnostics' = Append(diagnostics, MakeDiagnostic(Fault,
                                   IF Fault = "ip" THEN 0 ELSE Here.loc))
      /\ stack' = StackOnFault
      /\ IF Fault = "ip" THEN UNCHANGED <<retired, steps>> ELSE Counted
      /\ UNCHANGED <<callVars, depth, work, ip, globals, defined, input, output>>
  BY DEF Fail
<1>2. /\ Fault \in Reason \ {"bytecode", "ip", "underflow"}
      /\ Here \in Instr /\ Here.loc \in Nat
  BY <1>1, FaultLemma, RunFacts DEF Instr
<1>3. /\ diagnostics' = Append(diagnostics, MakeDiagnostic(Fault, Here.loc))
      /\ MakeDiagnostic(Fault, Here.loc) \in Diagnostic
      /\ MakeDiagnostic(Fault, Here.loc).reason = Fault
      /\ Counted
  BY <1>1, <1>2, DiagnosticLemma
<1>4. TypeOK /\ diagnostics = << >>
  BY <1>1 DEF IInv, VerifierInv
<1>5. /\ diagnostics' = <<MakeDiagnostic(Fault, Here.loc)>>
      /\ diagnostics' \in Seq(Diagnostic)
  BY <1>3, <1>4
<1>6. stack' \in Seq(Value)
  <2>1. CASE Fault \in {"type", "zero", "overflow"}
    <3>1. /\ Needs(Here.op) \in 0 .. 2 /\ Len(stack) \in Nat /\ stack \in Seq(Value)
          /\ Needs(Here.op) \in 0 .. Len(stack)
      BY <1>1, RunFacts, TableTypes
    <3>2. Drop(Needs(Here.op)) \in Seq(Value)
      BY <3>1, PopLemma DEF Drop
    <3> QED
      BY <2>1, <3>2, <1>1 DEF StackOnFault
  <2>2. CASE Fault \notin {"type", "zero", "overflow"}
    BY <2>2, <1>1, <1>4 DEF StackOnFault, TypeOK
  <2> QED BY <2>1, <2>2
<1>7. TypeOK'
  <2>1. retired' \in Nat /\ steps' \in Nat
    BY <1>3, <1>4, CountedTypes
  <2>2. ok' \in BOOLEAN
    BY <1>1
  <2> QED
    BY <1>1, <1>4, <1>5, <1>6, <2>1, <2>2 DEF TypeOK, callVars
<1>8. RefusalJustified'
  <2>1. diagnostics'[1].reason # "bytecode"
    BY <1>2, <1>3, <1>5
  <2> QED
    BY <2>1 DEF RefusalJustified, RefusedByVerify
<1>9. VerifierInv' /\ StackMatchesVerifier' /\ DepthsForced' /\ CleanHalt'
  BY <1>1 DEF VerifierInv, StackMatchesVerifier, DepthsForced, CleanHalt
<1> QED
  BY <1>7, <1>8, <1>9 DEF IInv

-----------------------------------------------------------------------------
(* The theorems.                                                           *)

LEMMA VerifyExecuteIInv ==
    ASSUME IInv, Verify \/ Execute
    PROVE  IInv'
<1>1. CASE Verify
  BY <1>1, VerifyStepIInv, VerifyRejectIInv, VerifyAcceptIInv DEF Verify
<1>2. CASE Execute
  BY <1>2, FailIInv, JumpIInv, BranchIInv, StoreIInv, LoadIInv, PushIInv,
     ReadIInv, PrintStrIInv, PrintValIInv, BinaryIInv, UnaryIInv, PopIInv,
     DupIInv, HaltIInv DEF Execute
<1> QED
  BY <1>1, <1>2

LEMMA StutterIInv ==
    ASSUME IInv, UNCHANGED vars
    PROVE  IInv'
<1>1. IInv' = IInv
  BY DEF vars, callVars, execVars, IInv, TypeOK, VerifierInv,
     EdgesChecked, Reached, Pending, StackMatchesVerifier, DepthsForced,
     AllDepths, RefusalJustified, RefusedByVerify, CleanHalt
<1> QED
  BY <1>1

LEMMA NextIInv == IInv /\ [Next]_vars => IInv'
<1> SUFFICES ASSUME IInv, [Next]_vars PROVE IInv'
  OBVIOUS
<1>1. ASSUME NEW job \in Jobs, RefuseMalformed(job) PROVE IInv'
  BY <1>1, RefuseMalformedIInv, JobsAssumption
<1>2. ASSUME NEW job \in Jobs, BeginVerifyStack(job) PROVE IInv'
  BY <1>2, BeginVerifyStackIInv, JobsAssumption
<1> QED
  BY <1>1, <1>2, VerifyExecuteIInv, StutterIInv DEF Next, Call

\* The inductive invariant holds in every state of every behaviour.
THEOREM Invariance == Spec => []IInv
<1>1. Init => IInv
  BY InitIInv
<1>2. IInv /\ [Next]_vars => IInv'
  BY NextIInv
<1> QED
  BY <1>1, <1>2, PTL DEF Spec

\* Every variable of the VM has its type: what a call clears, indexes and
\* pushes is what vm.h declares.
THEOREM TypeCorrect == Spec => []TypeOK
<1>1. IInv => TypeOK
  BY DEF IInv
<1> QED
  BY <1>1, Invariance, PTL

\* At every instruction about to execute the operand stack is as high as
\* verifyStack computed for it, by whatever path and in whatever call.
THEOREM StackSafe == Spec => []StackMatchesVerifier
<1>1. IInv => StackMatchesVerifier
  BY DEF IInv
<1> QED
  BY <1>1, Invariance, PTL

\* The bounds check on ip and the checks of needs() in run() never fire.
THEOREM ChecksNeverFire == Spec => []NoInternalFault
<1>1. IInv => NoInternalFault
  BY RunFacts DEF NoInternalFault
<1> QED
  BY <1>1, Invariance, PTL

\* run() indexes the pools, the globals and the code within their bounds.
THEOREM OperandsSafe == Spec => []OperandsInRange
<1>1. IInv => OperandsInRange
  <2> SUFFICES ASSUME IInv, phase = "run", ip \in Positions(chunk)
               PROVE  /\ Here.op = "OP_CONST_INT" =>
                            Here.operand + 1 \in DOMAIN chunk.intConstants
                      /\ Here.op = "OP_PRINT_STR" =>
                            Here.operand + 1 \in DOMAIN chunk.stringConstants
                      /\ Here.op \in GlobalOps => Here.operand \in DOMAIN globals
                      /\ Here.op \in JumpOps => Here.operand \in Positions(chunk)
    BY DEF OperandsInRange
  <2>1. chunk \in Chunk /\ WellFormed(chunk)
    BY RunConsistent
  <2>2. /\ DOMAIN chunk.intConstants = 1 .. Len(chunk.intConstants)
        /\ DOMAIN chunk.stringConstants = 1 .. Len(chunk.stringConstants)
        /\ DOMAIN globals = Slots(chunk)
    BY <2>1, ChunkTypes, LenProperties, RunTypes
  <2> QED
    BY <2>1, <2>2, OperandLemma DEF Here
<1> QED
  BY <1>1, Invariance, PTL

\* A run that succeeds leaves the operand stack empty, although OP_HALT
\* itself checks nothing.
THEOREM HaltsClean == Spec => []CleanHalt
<1>1. IInv => CleanHalt
  BY DEF IInv
<1> QED
  BY <1>1, Invariance, PTL

\* What verify() and verifyStack() accept has a consistent assignment of
\* depths; a well formed chunk that they refuse has none.
THEOREM VerdictCorrect == Spec => []VerdictExact
<1>1. IInv => VerdictExact
  <2>1. ASSUME IInv, phase = "run"
        PROVE  WellFormed(chunk) /\ Consistent(chunk, depth)
    BY <2>1, RunConsistent
  <2>2. ASSUME IInv, RefusedByVerify, WellFormed(chunk),
               NEW D \in [Positions(chunk) -> Unvisited .. Size(chunk) - 1]
        PROVE  ~Consistent(chunk, D)
    <3>1. D \in AllDepths
      BY DEF AllDepths
    <3> QED
      BY <2>2, <3>1 DEF IInv, RefusalJustified
  <2> QED
    BY <2>1, <2>2 DEF VerdictExact
<1> QED
  BY <1>1, Invariance, PTL

-----------------------------------------------------------------------------
(***************************************************************************)
(* What the caller of run() can rely on, for any number of calls on one    *)
(* object: exactly one diagnostic for each failure and none otherwise, and *)
(* a step limit that is exact.                                             *)
(***************************************************************************)

-----------------------------------------------------------------------------
(* The kinds of steps, as far as the answer and the counters see them.     *)

\* A call enters the verifier, or is refused at once.
CallStep ==
    /\ retired' = 0 /\ steps' = 0
    /\ \/ phase' = "verify" /\ diagnostics' = << >>
       \/ /\ phase' = "done" /\ ok' = FALSE
          /\ diagnostics' = <<MakeDiagnostic("bytecode", 0)>>

\* The verifier goes on, gives way to execution, or refuses.
VerifierStep ==
    /\ phase = "verify"
    /\ UNCHANGED <<stepLimit, retired, steps>>
    /\ \/ phase' \in {"verify", "run"} /\ diagnostics' = diagnostics
       \/ /\ phase' = "done" /\ ok' = FALSE
          /\ diagnostics' = Append(diagnostics, MakeDiagnostic("bytecode", 0))

\* An instruction executes.
InstructionStep ==
    /\ phase = "run" /\ Fault = "none" /\ Counted
    /\ UNCHANGED <<stepLimit, diagnostics>>
    /\ phase' = "run" \/ (phase' = "done" /\ ok' = TRUE)

\* An instruction fails.
FaultStep ==
    /\ phase = "run" /\ phase' = "done" /\ ok' = FALSE /\ Counted
    /\ UNCHANGED stepLimit
    /\ Fault \in Reason \ {"bytecode", "ip", "underflow"}
    /\ diagnostics' = Append(diagnostics, MakeDiagnostic(Fault, Here.loc))

\* The actions are of these kinds; from here on they need not be told apart.
LEMMA StepKinds ==
    ASSUME IInv, [Next]_vars
    PROVE  CallStep \/ VerifierStep \/ InstructionStep \/ FaultStep
              \/ UNCHANGED <<stepLimit, phase, ok, diagnostics, retired, steps>>
<1>1. ASSUME NEW job \in Jobs, RefuseMalformed(job) PROVE CallStep
  <2>1. Append(<< >>, MakeDiagnostic("bytecode", 0)) =
        <<MakeDiagnostic("bytecode", 0)>>
    OBVIOUS
  <2> QED
    BY <1>1, <2>1 DEF RefuseMalformed, Enter, RetiredAtEntry, DiagnosticsAtEntry,
                      CallStep
<1>2. ASSUME NEW job \in Jobs, BeginVerifyStack(job) PROVE CallStep
  BY <1>2 DEF BeginVerifyStack, Enter, RetiredAtEntry, DiagnosticsAtEntry, CallStep
<1>3. ASSUME Verify PROVE VerifierStep
  BY <1>3 DEF Verify, VerifyStep, VerifyReject, VerifyAccept, VerifierStep,
              callVars, execVars
<1>4. ASSUME Execute, ~Fail PROVE InstructionStep
  BY <1>4 DEF Execute, Jump, Branch, Store, Load, Push, Read, PrintStr, PrintVal,
              Binary, Unary, Pop, Dup, Halt, Executing, Advance, Continue,
              InstructionStep, callVars
<1>5. ASSUME Fail PROVE FaultStep
  BY <1>5, FaultLemma DEF Fail, FaultStep, callVars
<1>6. ASSUME UNCHANGED vars
      PROVE  UNCHANGED <<stepLimit, phase, ok, diagnostics, retired, steps>>
  BY <1>6 DEF vars, callVars, execVars
<1> QED
  BY <1>1, <1>2, <1>3, <1>4, <1>5, <1>6 DEF Next, Call

-----------------------------------------------------------------------------
(* The answer.                                                             *)

\* A first diagnostic is the only one.
LEMMA FirstDiagnostic ==
    ASSUME NEW d
    PROVE  /\ Append(<< >>, d) = <<d>> /\ <<d>> # << >>
           /\ Len(<<d>>) = 1 /\ <<d>>[1] = d
OBVIOUS

LEMMA AnswerStep ==
    ASSUME IInv, OneDiagnosticPerFailure, [Next]_vars
    PROVE  OneDiagnosticPerFailure'
<1>1. Len(<< >>) = 0
  OBVIOUS
<1>2. CASE CallStep
  <2>1. CASE phase' = "verify" /\ diagnostics' = << >>
    BY <1>1, <2>1 DEF OneDiagnosticPerFailure
  <2>2. ASSUME phase' = "done", ok' = FALSE,
               diagnostics' = <<MakeDiagnostic("bytecode", 0)>>
        PROVE  OneDiagnosticPerFailure'
    <3> DEFINE d == MakeDiagnostic("bytecode", 0)
    <3>1. <<d>> # << >> /\ Len(<<d>>) = 1
      BY FirstDiagnostic
    <3> HIDE DEF d
    <3>2. diagnostics' = <<d>>
      BY <2>2 DEF d
    <3> QED
      BY <2>2, <3>1, <3>2 DEF OneDiagnosticPerFailure
  <2> QED
    BY <1>2, <2>1, <2>2 DEF CallStep
<1>3. CASE VerifierStep
  <2>1. diagnostics = << >>
    BY <1>3 DEF VerifierStep, OneDiagnosticPerFailure
  <2>2. CASE phase' \in {"verify", "run"} /\ diagnostics' = diagnostics
    BY <1>1, <2>1, <2>2 DEF OneDiagnosticPerFailure
  <2>3. ASSUME phase' = "done", ok' = FALSE,
               diagnostics' = Append(diagnostics, MakeDiagnostic("bytecode", 0))
        PROVE  OneDiagnosticPerFailure'
    BY <2>1, <2>3, FirstDiagnostic DEF OneDiagnosticPerFailure
  <2> QED
    BY <1>3, <2>2, <2>3 DEF VerifierStep
<1>4. CASE InstructionStep
  BY <1>1, <1>4 DEF InstructionStep, OneDiagnosticPerFailure
<1>5. CASE FaultStep
  <2>1. diagnostics = << >>
    BY <1>5 DEF FaultStep, OneDiagnosticPerFailure
  <2> QED
    BY <1>1, <1>5, <2>1, FirstDiagnostic DEF FaultStep, OneDiagnosticPerFailure
<1>6. CASE UNCHANGED <<stepLimit, phase, ok, diagnostics, retired, steps>>
  BY <1>6 DEF OneDiagnosticPerFailure
<1> QED
  BY <1>2, <1>3, <1>4, <1>5, <1>6, StepKinds

\* run() returned false exactly when there is a diagnostic, then one only,
\* and none is left from an earlier call.
THEOREM AnswerCorrect == Spec => []OneDiagnosticPerFailure
<1>1. Init => OneDiagnosticPerFailure
  BY DEF Init, OneDiagnosticPerFailure
<1>2. IInv /\ OneDiagnosticPerFailure /\ [Next]_vars => OneDiagnosticPerFailure'
  BY AnswerStep
<1> QED
  BY <1>1, <1>2, Invariance, PTL DEF Spec

-----------------------------------------------------------------------------
(* The step limit.                                                         *)

\* BudgetExact says nothing of what may still execute: before the end the
\* limit has not been exceeded, and before execution nothing is counted.
BudgetInv ==
    /\ BudgetExact
    /\ phase \in {"idle", "verify"} => retired = 0 /\ steps = 0
    /\ phase = "run" /\ stepLimit > 0 => retired <= stepLimit

LEMMA BudgetStep ==
    ASSUME IInv, OneDiagnosticPerFailure, BudgetInv, [Next]_vars
    PROVE  BudgetInv'
<1>1. /\ stepLimit \in Int /\ retired \in Nat /\ steps \in Nat
      /\ stepLimit' \in Int
  BY NextIInv DEF IInv, TypeOK
<1>2. CASE CallStep
  <2>1. ~StoppedByLimit'
    <3>1. MakeDiagnostic("bytecode", 0).reason = "bytecode"
      BY DiagnosticLemma DEF Reason
    <3> QED
      BY <1>2, <3>1, FirstDiagnostic DEF CallStep, StoppedByLimit
  <2>2. retired' = 0 /\ steps' = 0 /\ phase' # "run"
    BY <1>2 DEF CallStep
  <2>3. ASSUME stepLimit' > 0
        PROVE  retired' <= stepLimit' + 1 /\ retired' # stepLimit' + 1
    <3>1. \A l \in Int : l > 0 => 0 <= l + 1 /\ 0 # l + 1
      OBVIOUS
    <3> QED
      BY <1>1, <2>2, <2>3, <3>1
  <2>4. BudgetExact'
    BY <2>1, <2>2, <2>3 DEF BudgetExact
  <2> QED
    BY <2>2, <2>4 DEF BudgetInv
<1>3. CASE VerifierStep
  <2>1. diagnostics = << >> /\ retired = 0 /\ steps = 0
    BY <1>3 DEF VerifierStep, OneDiagnosticPerFailure, BudgetInv
  <2>2. ~StoppedByLimit'
    <3>1. MakeDiagnostic("bytecode", 0).reason = "bytecode"
      BY DiagnosticLemma DEF Reason
    <3> QED
      BY <1>3, <2>1, <3>1, FirstDiagnostic DEF VerifierStep, StoppedByLimit
  <2> QED
    BY <1>1, <1>3, <2>1, <2>2 DEF VerifierStep, BudgetInv, BudgetExact
<1>4. CASE InstructionStep
  <2>1. diagnostics = << >> /\ ~StoppedByLimit'
    BY <1>4 DEF InstructionStep, OneDiagnosticPerFailure, StoppedByLimit
  <2>2. ~OverBudget
    BY <1>4 DEF InstructionStep, Fault
  <2>3. stepLimit > 0 => retired = steps /\ retired + 1 <= stepLimit
    BY <1>1, <2>2 DEF BudgetInv, BudgetExact, OverBudget
  <2> QED
    BY <1>1, <1>4, <2>1, <2>3
       DEF InstructionStep, Counted, BudgetInv, BudgetExact
<1>5. CASE FaultStep
  <2>1. diagnostics = << >>
    BY <1>5 DEF FaultStep, OneDiagnosticPerFailure
  <2>2. StoppedByLimit' <=> Fault = "steps"
    <3>1. MakeDiagnostic(Fault, Here.loc).reason = Fault
      BY <1>5, RunFacts, DiagnosticLemma DEF FaultStep, Instr
    <3> QED
      BY <1>5, <2>1, <3>1, FirstDiagnostic DEF FaultStep, StoppedByLimit
  <2>3. Fault = "steps" <=> OverBudget
    BY <1>5 DEF FaultStep, Fault, RuntimeFault
  <2>4. OverBudget <=> stepLimit > 0 /\ retired + 1 > stepLimit
    BY DEF BudgetInv, BudgetExact, OverBudget
  <2>5. stepLimit > 0 => retired = steps /\ retired <= stepLimit
    BY <1>5 DEF FaultStep, BudgetInv, BudgetExact
  <2> QED
    BY <1>1, <1>5, <2>2, <2>3, <2>4, <2>5
       DEF FaultStep, Counted, BudgetInv, BudgetExact
<1>6. CASE UNCHANGED <<stepLimit, phase, ok, diagnostics, retired, steps>>
  BY <1>6 DEF BudgetInv, BudgetExact, StoppedByLimit
<1> QED
  BY <1>2, <1>3, <1>4, <1>5, <1>6, StepKinds

\* With a limit L exactly L instructions execute; the one that would be
\* number L + 1 is counted, stopped and reported, and nothing else is.
THEOREM BudgetCorrect == Spec => []BudgetExact
<1>1. Init => BudgetInv
  BY DEF Init, BudgetInv, BudgetExact, StoppedByLimit
<1>2. IInv /\ OneDiagnosticPerFailure /\ BudgetInv /\ [Next]_vars => BudgetInv'
  BY BudgetStep
<1>3. BudgetInv => BudgetExact
  BY DEF BudgetInv
<1> QED
  BY <1>1, <1>2, <1>3, Invariance, AnswerCorrect, PTL DEF Spec

-----------------------------------------------------------------------------
(***************************************************************************)
(* The arithmetic, for every width of int: division is C++'s and nothing   *)
(* out of range is ever stored, left on the stack or written.              *)
(***************************************************************************)

-----------------------------------------------------------------------------
(* Division.                                                               *)

\* Quotient and remainder of naturals.
LEMMA DivModLemma ==
    ASSUME NEW m \in Nat, NEW n \in Nat \ {0}
    PROVE  /\ m \div n \in Nat /\ m % n \in Nat
           /\ m = n * (m \div n) + (m % n)
           /\ m % n < n
           /\ m \div n <= m
           /\ n >= 2 => 2 * (m \div n) <= m
<1> DEFINE q == m \div n
           r == m % n
<1>1. q \in Int /\ r \in 0 .. n - 1 /\ m = n * q + r
  OBVIOUS
<1>2. q >= 0
  OBVIOUS
<1> HIDE DEF q, r
<1>3. n * q >= q
  BY <1>1, <1>2
<1>4. n >= 2 => n * q >= 2 * q
  BY <1>1, <1>2
<1>5. n * q \in Int /\ n * q <= m
  BY <1>1
<1>6. q <= m /\ (n >= 2 => 2 * q <= m)
  BY <1>1, <1>3, <1>4, <1>5
<1>7. q \in Nat /\ r \in Nat /\ r < n
  BY <1>1, <1>2
<1> QED
  BY <1>1, <1>6, <1>7 DEF q, r

\* Truncating division is division with a remainder that has the sign of
\* the dividend.
LEMMA TruncLemma ==
    ASSUME NEW a \in Int, NEW b \in Int, b # 0
    PROVE  /\ TruncDiv(a, b) \in -Abs(a) .. Abs(a)
           /\ TruncMod(a, b) \in Int
           /\ a = TruncDiv(a, b) * b + TruncMod(a, b)
           /\ IsRemainder(a, b, TruncMod(a, b))
<1> DEFINE m == Abs(a)
           n == Abs(b)
           q == m \div n
           r == m % n
<1>1. m \in Nat /\ n \in Nat \ {0}
  BY DEF Abs
<1>2. q \in Nat /\ r \in Nat /\ m = n * q + r /\ r < n /\ q <= m
  BY <1>1, DivModLemma
<1>3. a = (IF a < 0 THEN -m ELSE m) /\ b = (IF b < 0 THEN -n ELSE n)
  BY DEF Abs
<1>4. /\ TruncDiv(a, b) = (IF (a < 0) = (b < 0) THEN q ELSE -q)
      /\ TruncMod(a, b) = (IF a < 0 THEN -r ELSE r)
  BY DEF TruncDiv, TruncMod
<1> HIDE DEF m, n, q, r
<1>5. TruncDiv(a, b) \in -m .. m /\ TruncMod(a, b) \in Int
  BY <1>1, <1>2, <1>4
<1>6. a = TruncDiv(a, b) * b + TruncMod(a, b)
  <2>1. CASE a < 0 /\ b < 0
    <3>1. TruncDiv(a, b) * b = q * (-n)
      BY <1>3, <1>4, <2>1
    <3>2. q * (-n) = -(n * q)
      BY <1>1, <1>2
    <3> QED
      BY <1>1, <1>2, <1>3, <1>4, <2>1, <3>1, <3>2
  <2>2. CASE a < 0 /\ ~(b < 0)
    <3>1. TruncDiv(a, b) * b = (-q) * n
      BY <1>3, <1>4, <2>2
    <3>2. (-q) * n = -(n * q)
      BY <1>1, <1>2
    <3> QED
      BY <1>1, <1>2, <1>3, <1>4, <2>2, <3>1, <3>2
  <2>3. CASE ~(a < 0) /\ b < 0
    <3>1. TruncDiv(a, b) * b = (-q) * (-n)
      BY <1>3, <1>4, <2>3
    <3>2. (-q) * (-n) = n * q
      BY <1>1, <1>2
    <3> QED
      BY <1>1, <1>2, <1>3, <1>4, <2>3, <3>1, <3>2
  <2>4. CASE ~(a < 0) /\ ~(b < 0)
    <3>1. TruncDiv(a, b) * b = q * n
      BY <1>3, <1>4, <2>4
    <3>2. q * n = n * q
      BY <1>1, <1>2
    <3> QED
      BY <1>1, <1>2, <1>3, <1>4, <2>4, <3>1, <3>2
  <2> QED
    BY <2>1, <2>2, <2>3, <2>4
<1>7. Abs(TruncMod(a, b)) = r
  BY <1>2, <1>4 DEF Abs
<1>8. TruncMod(a, b) # 0 => (TruncMod(a, b) < 0) = (a < 0)
  BY <1>2, <1>4
<1>9. IsRemainder(a, b, TruncMod(a, b))
  BY <1>2, <1>7, <1>8 DEF IsRemainder, n
<1> QED
  BY <1>5, <1>6, <1>9 DEF m

\* The quotient of two ints is an int, IntMin / -1 excepted, and so is the
\* remainder.
LEMMA QuotientFits ==
    ASSUME NEW a \in CInt, NEW b \in CInt, b # 0
    PROVE  /\ ~QuotientOverflows(a, b) => TruncDiv(a, b) \in CInt
           /\ TruncMod(a, b) \in CInt
<1> DEFINE m == Abs(a)
           n == Abs(b)
           q == m \div n
           r == m % n
<1>1. IntMax \in Int /\ IntMax >= 1 /\ IntMin = -IntMax - 1
      /\ a \in Int /\ b \in Int /\ IntMin <= a /\ a <= IntMax
      /\ IntMin <= b /\ b <= IntMax
  BY IntMaxAssumption DEF CInt, IntMin
<1>2. m \in Nat /\ n \in Nat \ {0} /\ m <= IntMax + 1 /\ n <= IntMax + 1
      /\ (m = IntMax + 1 => a = IntMin)
      /\ (b < 0 => b = -n) /\ (~(b < 0) => b = n)
  BY <1>1 DEF Abs
<1>3. q \in Nat /\ r \in Nat /\ r < n /\ q <= m /\ (n >= 2 => 2 * q <= m)
  BY <1>2, DivModLemma
<1>4. /\ TruncDiv(a, b) = (IF (a < 0) = (b < 0) THEN q ELSE -q)
      /\ TruncMod(a, b) = (IF a < 0 THEN -r ELSE r)
  BY DEF TruncDiv, TruncMod
<1> HIDE DEF m, n, q, r
<1>5. TruncMod(a, b) \in CInt
  BY <1>1, <1>2, <1>3, <1>4 DEF CInt
<1>6. ASSUME ~QuotientOverflows(a, b) PROVE TruncDiv(a, b) \in CInt
  <2>1. CASE (a < 0) # (b < 0)
    BY <1>1, <1>2, <1>3, <1>4, <2>1 DEF CInt
  <2>2. CASE (a < 0) = (b < 0)
    <3>1. q <= IntMax
      <4>1. CASE m <= IntMax
        BY <1>1, <1>2, <1>3, <4>1
      <4>2. CASE m = IntMax + 1
        <5>1. b # -1 /\ b < 0
          BY <1>1, <1>2, <1>6, <2>2, <4>2 DEF QuotientOverflows
        <5>2. n >= 2
          BY <1>1, <1>2, <5>1
        <5> QED
          BY <1>1, <1>2, <1>3, <4>2, <5>2
      <4> QED
        BY <1>1, <1>2, <4>1, <4>2
    <3> QED
      BY <1>1, <1>3, <1>4, <2>2, <3>1 DEF CInt
  <2> QED
    BY <2>1, <2>2
<1> QED
  BY <1>5, <1>6

-----------------------------------------------------------------------------
(* What an instruction computes.                                           *)

\* The operands of an instruction about to execute are what it asks for.
LEMMA OperandFacts ==
    ASSUME IInv, phase = "run", Fault = "none"
    PROVE  /\ ~Overflows(Here.op)
           /\ Here.op \in DivOps => Top.i # 0
           /\ Here.op \in BinaryOps => Under \in Value /\ Top \in Value
           /\ Here.op \in UnaryOps => Top \in Value
<1>1. ~Overflows(Here.op) /\ (Here.op \in DivOps => Top.i # 0)
  BY DEF Fault, RuntimeFault
<1>2. (Here.op \in BinaryOps => Needs(Here.op) = 2)
      /\ (Here.op \in UnaryOps => Needs(Here.op) = 1)
  BY DEF Needs, BinaryOps, UnaryOps, ArithOps, DivOps, CompareOps, EqualOps
<1> QED
  BY <1>1, <1>2, OperandTypes

\* A quotient is truncated toward zero and a remainder has the sign of the
\* dividend, as C++ defines them.
THEOREM DivisionCorrect == Spec => DivisionTruncates
<1> DEFINE P == phase = "run" /\ Fault = "none" /\ Here.op \in DivOps =>
        LET a == Under.i
            b == Top.i
            result == stack'[Len(stack')].i
        IN  IF Here.op = "OP_DIV" THEN IsRemainder(a, b, a - result * b)
            ELSE /\ IsRemainder(a, b, result)
                 /\ \E q \in -Abs(a) .. Abs(a) : a = q * b + result
<1>1. ASSUME IInv, Next PROVE P
  <2> SUFFICES ASSUME phase = "run", Fault = "none", Here.op \in DivOps
               PROVE  P
    OBVIOUS
  <2> DEFINE a == Under.i
             b == Top.i
             result == stack'[Len(stack')].i
  <2>1. a \in Int /\ b \in Int /\ b # 0
    BY <1>1, OperandFacts DEF Value, BinaryOps
  <2>2. Binary
    BY <1>1 DEF Next, Call, Verify, Execute, RefuseMalformed, BeginVerifyStack,
       Enter, VerifyStep, VerifyReject, VerifyAccept, Fail, Jump, Branch, Store,
       Load, Push, Read, PrintStr, PrintVal, Unary, Pop, Dup, Halt, Executing,
       DivOps, BranchOps, StoreOps, BoolOps, UnaryOps
  <2>3. result = Exact(Here.op, a, b)
    <3>1. stack' = Append(Drop(2), MakeInt(Exact(Here.op, a, b)))
      BY <2>2 DEF Binary, BinaryResult
    <3>2. Drop(2) \in Seq(Value)
      BY <1>1, OperandTypes DEF Needs, BinaryOps
    <3>3. MakeInt(Exact(Here.op, a, b)) \in Value
      <4>1. Exact(Here.op, a, b) \in Int
        BY <2>1, TruncTypes DEF Exact, DivOps
      <4> QED
        BY <4>1, ValueLemma
    <3>4. stack'[Len(stack')] = MakeInt(Exact(Here.op, a, b))
      BY <3>1, <3>2, <3>3, AppendProperties
    <3> QED
      BY <3>4 DEF MakeInt
  <2> HIDE DEF a, b, result
  <2>4. CASE Here.op = "OP_DIV"
    <3>1. a - result * b = TruncMod(a, b)
      <4>1. result = TruncDiv(a, b)
        BY <2>3, <2>4 DEF Exact
      <4>2. TruncDiv(a, b) * b \in Int
        BY <2>1, TruncTypes
      <4> QED
        BY <2>1, <4>1, <4>2, TruncLemma
    <3> QED
      BY <2>1, <2>4, <3>1, TruncLemma DEF a, b, result
  <2>5. CASE Here.op = "OP_MOD"
    <3>1. result = TruncMod(a, b)
      BY <2>3, <2>5 DEF Exact
    <3>2. /\ IsRemainder(a, b, result)
          /\ \E q \in -Abs(a) .. Abs(a) : a = q * b + result
      BY <2>1, <3>1, TruncLemma
    <3> QED
      BY <2>5, <3>2 DEF a, b, result
  <2> QED
    BY <2>4, <2>5 DEF DivOps
<1>2. IInv /\ [Next]_vars => [P]_vars
  BY <1>1
<1> HIDE DEF P
<1>3. Spec => [][P]_vars
  BY <1>2, Invariance, PTL DEF Spec
<1> QED
  BY <1>3 DEF DivisionTruncates, P

-----------------------------------------------------------------------------
(* Nothing out of range is stored.                                         *)

FitValue == {v \in Value : v.i \in CInt}
FitLine  == {l \in Line : l.n \in CInt}

FitInv ==
    /\ stack \in Seq(FitValue)
    /\ globals \in [Slots(chunk) -> FitValue]
    /\ output \in Seq(FitLine)

\* The values that are built without arithmetic, and the lines.
LEMMA FitBasics ==
    /\ 0 \in CInt /\ CInt \subseteq Int
    /\ \A v \in CInt : MakeInt(v) \in FitValue
    /\ \A v \in BOOLEAN : MakeBool(v) \in FitValue
    /\ \A v \in FitValue : Printed(v) \in FitLine
    /\ \A t \in STRING : TextLine(t) \in FitLine
<1>1. 0 \in CInt /\ CInt \subseteq Int
  BY IntMaxAssumption DEF CInt, IntMin
<1>2. ASSUME NEW v \in CInt PROVE MakeInt(v) \in FitValue
  <2>1. MakeInt(v) \in Value /\ MakeInt(v).i = v
    BY <1>1, ValueLemma DEF MakeInt
  <2> QED
    BY <2>1 DEF FitValue
<1>3. ASSUME NEW v \in BOOLEAN PROVE MakeBool(v) \in FitValue
  <2>1. MakeBool(v) \in Value
    BY ValueLemma
  <2>2. MakeBool(v).i = 0
    BY DEF MakeBool
  <2> QED
    BY <1>1, <2>1, <2>2 DEF FitValue
<1>4. ASSUME NEW v \in FitValue PROVE Printed(v) \in FitLine
  <2>1. Printed(v) \in Line
    BY LineLemma DEF FitValue
  <2>2. Printed(v).n \in CInt
    BY <1>1 DEF Printed, TextLine, IntLine, FitValue
  <2> QED
    BY <2>1, <2>2 DEF FitLine
<1>5. ASSUME NEW t \in STRING PROVE TextLine(t) \in FitLine
  <2>1. TextLine(t) \in Line /\ TextLine(t).n = 0
    BY LineLemma DEF TextLine
  <2> QED
    BY <1>1, <2>1 DEF FitLine
<1> QED
  BY <1>1, <1>2, <1>3, <1>4, <1>5

\* The operands that the stack holds fit, and so does what is left under
\* them.
LEMMA FitOperands ==
    ASSUME IInv, FitInv, phase = "run"
    PROVE  /\ Needs(Here.op) >= 1 => Top \in FitValue /\ Drop(1) \in Seq(FitValue)
           /\ Needs(Here.op) = 2 => Under \in FitValue /\ Drop(2) \in Seq(FitValue)
<1>1. /\ stack \in Seq(FitValue) /\ Len(stack) \in Nat
      /\ Len(stack) >= Needs(Here.op) /\ Needs(Here.op) \in Int
  BY RunFacts, TableTypes DEF FitInv
<1>2. ASSUME Needs(Here.op) >= 1
      PROVE  Top \in FitValue /\ Drop(1) \in Seq(FitValue)
  <2>1. Len(stack) \in 1 .. Len(stack) /\ 1 \in 0 .. Len(stack)
    BY <1>1, <1>2
  <2> QED
    BY <1>1, <2>1, ElementOfSeq, PopLemma DEF Top, Drop
<1>3. ASSUME Needs(Here.op) = 2
      PROVE  Under \in FitValue /\ Drop(2) \in Seq(FitValue)
  <2>1. Len(stack) - 1 \in 1 .. Len(stack) /\ 2 \in 0 .. Len(stack)
    BY <1>1, <1>3
  <2> QED
    BY <1>1, <2>1, ElementOfSeq, PopLemma DEF Under, Drop
<1> QED
  BY <1>2, <1>3

\* What binary and unary instructions push, unless they overflow.
LEMMA FitBinary ==
    ASSUME NEW op \in BinaryOps, NEW l \in FitValue, NEW r \in FitValue,
           op \in ArithOps => Fit(Exact(op, l.i, r.i)),
           op \in DivOps => r.i # 0,
           op = "OP_DIV" => ~QuotientOverflows(l.i, r.i)
    PROVE  BinaryResult(op, l, r) \in FitValue
<1>1. l \in Value /\ r \in Value /\ l.i \in CInt /\ r.i \in CInt
      /\ l.i \in Int /\ r.i \in Int
  BY FitBasics DEF FitValue
<1>2. BinaryResult(op, l, r) \in Value
  BY <1>1, BinaryResultType
<1>3. BinaryResult(op, l, r).i \in CInt
  <2>1. CASE op \in ArithOps
    <3>1. Exact(op, l.i, r.i) \in Int
      BY <1>1, <2>1 DEF Exact, ArithOps
    <3>2. Exact(op, l.i, r.i) \in CInt
      BY <2>1, <3>1, IntMaxAssumption DEF Fit, CInt, IntMin
    <3> QED
      BY <2>1, <3>2 DEF BinaryResult, MakeInt
  <2>2. CASE op \in DivOps
    <3>1. Exact(op, l.i, r.i) \in CInt
      BY <1>1, <2>2, QuotientFits DEF Exact, DivOps
    <3> QED
      BY <2>2, <3>1 DEF BinaryResult, MakeInt
  <2>3. CASE op \notin ArithOps \cup DivOps
    BY <2>3, FitBasics DEF BinaryResult, MakeBool
  <2> QED
    BY <2>1, <2>2, <2>3
<1> QED
  BY <1>2, <1>3 DEF FitValue

LEMMA FitUnary ==
    ASSUME NEW op, NEW v \in FitValue, op = "OP_NEG" => v.i # IntMin
    PROVE  UnaryResult(op, v) \in FitValue
<1>1. v.i \in CInt /\ v.i \in Int
  BY FitBasics DEF FitValue
<1>2. CASE op = "OP_NEG"
  <2>1. -v.i \in CInt
    BY <1>1, <1>2, IntMaxAssumption DEF CInt, IntMin
  <2> QED
    BY <1>2, <2>1, FitBasics DEF UnaryResult
<1>3. CASE op # "OP_NEG"
  <2>1. (~Truth(v)) \in BOOLEAN
    OBVIOUS
  <2>2. MakeBool(~Truth(v)) \in FitValue
    BY <2>1, FitBasics, Zenon
  <2> QED
    BY <1>3, <2>2 DEF UnaryResult
<1> QED
  BY <1>2, <1>3

\* One step of the machine: what it pushes, stores and writes.
LEMMA FitExecute ==
    ASSUME IInv, FitInv, Execute
    PROVE  FitInv'
<1>1. /\ phase = "run" /\ chunk' = chunk
      /\ stack \in Seq(FitValue) /\ output \in Seq(FitLine)
      /\ globals \in [Slots(chunk) -> FitValue]
  BY DEF FitInv, Execute, Fail, Jump, Branch, Store, Load, Push, Read, PrintStr,
     PrintVal, Binary, Unary, Pop, Dup, Halt, Executing, callVars
<1>2. ASSUME stack' \in Seq(FitValue), globals' = globals, output' = output
      PROVE  FitInv'
  BY <1>1, <1>2 DEF FitInv
<1>3. CASE Fail
  <2>1. Here.op \in BinaryOps \cup UnaryOps => Needs(Here.op) \in {1, 2}
    BY DEF Needs, UnaryOps
  <2>2. Fault \in {"type", "zero", "overflow"} =>
            Here.op \in BinaryOps \cup UnaryOps
    BY DEF Fault, RuntimeFault, OperandsAreNumbers, Overflows, BinaryOps, UnaryOps,
       DivOps
  <2>3. stack' \in Seq(FitValue)
    BY <1>1, <1>3, <2>1, <2>2, FitOperands DEF Fail, StackOnFault
  <2> QED
    BY <1>2, <1>3, <2>3 DEF Fail
<1>4. CASE Jump \/ Branch \/ Halt
  BY <1>1, <1>2, <1>4 DEF Jump, Branch, Halt
<1>5. CASE Store
  <2>1. Needs(Here.op) = 1
    BY <1>5 DEF Store, Executing, Needs, StoreOps, BinaryOps, ArithOps, DivOps,
       CompareOps, EqualOps
  <2>2. Top \in FitValue /\ stack' \in Seq(FitValue)
    BY <1>1, <1>5, <2>1, FitOperands DEF Store
  <2>3. globals' \in [Slots(chunk) -> FitValue]
    BY <1>1, <1>5, <2>2 DEF Store
  <2> QED
    BY <1>1, <1>5, <2>2, <2>3 DEF Store, FitInv
<1>6. CASE Load
  <2>1. Here.operand \in Slots(chunk)
    BY <1>1, <1>6, RunConsistent, RunFacts, OperandLemma
       DEF Load, Executing, Here, GlobalOps
  <2>2. stack' \in Seq(FitValue)
    BY <1>1, <1>6, <2>1 DEF Load
  <2> QED
    BY <1>2, <1>6, <2>2 DEF Load
<1>7. CASE Push
  <2>1. ConstantPushed(Here) \in FitValue
    <3>1. CASE Here.op = "OP_CONST_INT"
      <4>1. Here.operand + 1 \in 1 .. Len(chunk.intConstants)
        BY <1>1, <3>1, RunConsistent, RunFacts, OperandLemma DEF Here
      <4>2. chunk.intConstants[Here.operand + 1] \in CInt
        BY <1>1, <4>1, RunTypes, ChunkTypes, ElementOfSeq
      <4> QED
        BY <3>1, <4>2, FitBasics DEF ConstantPushed
    <3>2. CASE Here.op # "OP_CONST_INT"
      <4>1. (Here.op = "OP_TRUE") \in BOOLEAN
        OBVIOUS
      <4>2. MakeBool(Here.op = "OP_TRUE") \in FitValue
        BY <4>1, FitBasics
      <4> QED
        BY <3>2, <4>2 DEF ConstantPushed
    <3> QED
      BY <3>1, <3>2
  <2>2. stack' \in Seq(FitValue)
    BY <1>1, <1>7, <2>1 DEF Push
  <2> QED
    BY <1>2, <1>7, <2>2 DEF Push
<1>8. CASE Read
  <2>1. input # << >>
    BY <1>8 DEF Read, Executing, Fault, RuntimeFault
  <2>2. Head(input) \in CInt
    BY <1>1, <2>1, RunTypes, HeadTailProperties
  <2>3. MakeInt(Head(input)) \in FitValue
    BY <2>2, FitBasics
  <2>4. stack' \in Seq(FitValue)
    BY <1>1, <1>8, <2>3 DEF Read
  <2> QED
    BY <1>2, <1>8, <2>4 DEF Read
<1>9. CASE PrintStr
  <2>1. Here.operand + 1 \in 1 .. Len(chunk.stringConstants)
    BY <1>1, <1>9, RunConsistent, RunFacts, OperandLemma DEF PrintStr, Executing, Here
  <2>2. chunk.stringConstants[Here.operand + 1] \in STRING
    BY <1>1, <2>1, RunTypes, ChunkTypes, ElementOfSeq
  <2>3. TextLine(chunk.stringConstants[Here.operand + 1]) \in FitLine
    BY <2>2, FitBasics
  <2>4. output' \in Seq(FitLine)
    BY <1>1, <1>9, <2>3 DEF PrintStr
  <2> QED
    BY <1>1, <1>9, <2>4 DEF PrintStr, FitInv
<1>10. CASE PrintVal
  <2>1. Needs(Here.op) = 1
    BY <1>10 DEF PrintVal, Executing, Needs, BinaryOps, ArithOps, DivOps,
       CompareOps, EqualOps
  <2>2. Top \in FitValue /\ stack' \in Seq(FitValue)
    BY <1>1, <1>10, <2>1, FitOperands DEF PrintVal
  <2>3. Printed(Top) \in FitLine
    BY <2>2, FitBasics
  <2>4. output' \in Seq(FitLine)
    BY <1>1, <1>10, <2>3 DEF PrintVal
  <2> QED
    BY <1>1, <1>10, <2>2, <2>4 DEF PrintVal, FitInv
<1>11. CASE Binary
  <2>1. Needs(Here.op) = 2 /\ Here.op \in BinaryOps
    BY <1>11 DEF Binary, Executing, Needs
  <2>2. /\ Top \in FitValue /\ Under \in FitValue
        /\ Drop(2) \in Seq(FitValue)
    BY <1>1, <2>1, FitOperands
  <2>3. /\ Here.op \in ArithOps => Fit(Exact(Here.op, Under.i, Top.i))
        /\ Here.op \in DivOps => Top.i # 0
        /\ Here.op = "OP_DIV" => ~QuotientOverflows(Under.i, Top.i)
    BY <1>1, <1>11, OperandFacts DEF Binary, Executing, Overflows
  <2>4. BinaryResult(Here.op, Under, Top) \in FitValue
    BY <2>1, <2>2, <2>3, FitBinary
  <2>5. stack' \in Seq(FitValue)
    BY <1>11, <2>2, <2>4 DEF Binary
  <2> QED
    BY <1>2, <1>11, <2>5 DEF Binary
<1>12. CASE Unary
  <2>1. Needs(Here.op) = 1
    BY <1>12 DEF Unary, Executing, Needs, UnaryOps, BinaryOps, ArithOps, DivOps,
       CompareOps, EqualOps
  <2>2. Top \in FitValue /\ Drop(1) \in Seq(FitValue)
    BY <1>1, <2>1, FitOperands
  <2>3. Here.op = "OP_NEG" => Top.i # IntMin
    BY <1>1, <1>12, OperandFacts DEF Unary, Executing, Overflows
  <2>4. UnaryResult(Here.op, Top) \in FitValue
    BY <2>2, <2>3, FitUnary
  <2>5. stack' \in Seq(FitValue)
    BY <1>12, <2>2, <2>4 DEF Unary
  <2> QED
    BY <1>2, <1>12, <2>5 DEF Unary
<1>13. CASE Pop \/ Dup
  <2>1. Needs(Here.op) = 1
    BY <1>13 DEF Pop, Dup, Executing, Needs, BinaryOps, ArithOps, DivOps,
       CompareOps, EqualOps
  <2>2. Top \in FitValue /\ Drop(1) \in Seq(FitValue)
    BY <1>1, <2>1, FitOperands
  <2>3. stack' \in Seq(FitValue)
    BY <1>1, <1>13, <2>2 DEF Pop, Dup
  <2> QED
    BY <1>2, <1>13, <2>3 DEF Pop, Dup
<1> QED
  BY <1>3, <1>4, <1>5, <1>6, <1>7, <1>8, <1>9, <1>10, <1>11, <1>12, <1>13 DEF Execute

LEMMA FitStep ==
    ASSUME IInv, FitInv, [Next]_vars
    PROVE  FitInv'
<1>1. ASSUME NEW job \in Jobs, Enter(job) PROVE FitInv'
  <2>1. /\ chunk' = job.chunk /\ stack' = << >> /\ output' = output
        /\ globals' = [s \in Slots(job.chunk) |-> MakeInt(0)]
    BY <1>1 DEF Enter, StackAtEntry
  <2>2. << >> \in Seq(FitValue) /\ MakeInt(0) \in FitValue
    BY EmptySeq, FitBasics
  <2> QED
    BY <2>1, <2>2 DEF FitInv
<1>2. CASE Verify \/ UNCHANGED vars
  <2>1. UNCHANGED <<chunk, stack, globals, output>>
    BY <1>2 DEF Verify, VerifyStep, VerifyReject, VerifyAccept, vars, callVars, execVars
  <2> QED
    BY <2>1 DEF FitInv
<1> QED
  BY <1>1, <1>2, FitExecute DEF Next, Call, RefuseMalformed, BeginVerifyStack

\* Every integer on the stack, in a global or in a line of output is an int
\* of the width at hand, whatever the program computes.
THEOREM IntsAlwaysFit == Spec => []IntsFit
<1>1. Init => FitInv
  <2> SUFFICES ASSUME Init PROVE FitInv
    OBVIOUS
  <2>1. << >> \in Seq(FitValue) /\ << >> \in Seq(FitLine)
    BY EmptySeq
  <2>2. stack = << >> /\ output = << >> /\ globals = << >> /\ Slots(chunk) = {}
    BY EmptyChunkLemma DEF Init
  <2>3. globals \in [Slots(chunk) -> FitValue]
    BY <2>2
  <2> QED
    BY <2>1, <2>2, <2>3 DEF FitInv
<1>2. IInv /\ FitInv /\ [Next]_vars => FitInv'
  BY FitStep
<1>3. FitInv => IntsFit
  <2> SUFFICES ASSUME FitInv PROVE IntsFit
    OBVIOUS
  <2>1. /\ \A k \in DOMAIN stack : stack[k] \in FitValue
        /\ \A k \in DOMAIN output : output[k] \in FitLine
    BY LenProperties, ElementOfSeq DEF FitInv
  <2>2. \A s \in DOMAIN globals : globals[s] \in FitValue
    BY DEF FitInv
  <2> QED
    BY <2>1, <2>2 DEF IntsFit, FitValue, FitLine
<1> QED
  BY <1>1, <1>2, <1>3, Invariance, PTL DEF Spec
=============================================================================
