------------------------------ MODULE Backends ------------------------------
(***************************************************************************)
(* One source program through the stages of caR (wika.cpp) behind the      *)
(* parser, with all three backends side by side: the compiler with the     *)
(* virtual machine, the tree walker with slots and the tree walker with a  *)
(* map.  The tree walks are computed in the step that starts the program.  *)
(***************************************************************************)
EXTENDS Pipeline, TreeWalk

VARIABLES
    given,       \* what the input will deliver
    walked       \* storage |-> the tree walker after the program

walkVars == <<given, walked>>

Walks(p) == [s \in {"Slots", "Map"} |-> Walk(p, s, input)]

BackendsInit ==
    /\ PipelineInit
    /\ given = input
    /\ walked = [s \in {"Slots", "Map"} |-> NewWalker(s, << >>, << >>)]

Refuse(p) == RefuseProgram(p) /\ UNCHANGED walkVars

ExecuteAll(p) == ExecuteProgram(p) /\ walked' = Walks(p) /\ UNCHANGED given

StartAll   == \E p \in Programs : Refuse(p) \/ ExecuteAll(p)
MachineAll == Machine /\ UNCHANGED walkVars

BackendsNext == StartAll \/ MachineAll

BackendsSpec == BackendsInit /\ [][BackendsNext]_<<vars, stageVars, walkVars>>
-----------------------------------------------------------------------------
(* Properties.                                                             *)

Ending == IF diagnostics = << >> THEN NoFault
          ELSE [reason |-> diagnostics[1].reason, loc |-> diagnostics[1].loc]

Compared == stage = "executed" /\ phase = "done" /\ Ending.reason # "steps"

(***************************************************************************)
(* The two storages of the tree walker give the same run: same events,     *)
(* same fault, same number of nodes, and at the end each name holds in its *)
(* slot what it holds in the map.  In particular no node is reached whose  *)
(* slot was left unresolved.                                               *)
(***************************************************************************)
StoragesAgree ==
    stage = "executed" =>
      LET s == walked["Slots"]
          m == walked["Map"]
      IN  /\ s.fault = m.fault /\ s.events = m.events /\ s.nodes = m.nodes
          /\ m.byName = {[name |-> s.slotOf[k], value |-> s.bySlot[k]] :
                            k \in {j \in DOMAIN s.slotOf : s.definedSlot[j]}}

(***************************************************************************)
(* A program that the step limit does not cut off ends in the virtual      *)
(* machine as it does in the tree walker: the same verdict, the same error *)
(* at the same line and column, the same input left over, and every global *)
(* defined in both or in neither, with the same value.  IntMin % -1 is     *)
(* where they part: the tree walker refuses what the machine answers.      *)
(***************************************************************************)
MemoryOfMachine ==
    {[name |-> chunk.globalNames[g + 1], value |-> globals[g]] :
        g \in {h \in DOMAIN defined : defined[h]}}

BackendsAgree ==
    Compared /\ walked["Map"].fault.reason # "remainder" =>
      /\ Ending = walked["Map"].fault
      /\ input = walked["Map"].input
      /\ MemoryOfMachine = walked["Map"].byName

(***************************************************************************)
(* The run implements Language: line by line and read by read, in the      *)
(* order the tree walker produces them, with nothing before, between or    *)
(* after, it shows what the program means.                                 *)
(***************************************************************************)
EventSeen(e) == IF e.kind = "value"
                THEN [kind |-> "line", line |-> Printed(e.value)]
                ELSE IF e.kind = "text"
                THEN [kind |-> "line", line |-> TextLine(e.text)]
                ELSE [kind |-> "read"]

Meaning == [events |-> [k \in DOMAIN walked["Map"].events |->
                           EventSeen(walked["Map"].events[k])],
            fault  |-> walked["Map"].fault]

Status == IF stage # "executed" THEN [reason |-> "idle", loc |-> 0]
          ELSE IF phase # "done" THEN [reason |-> "running", loc |-> 0]
          ELSE Ending

L == INSTANCE Language WITH
        meaning  <- Meaning,
        lines    <- [k \in DOMAIN output |-> [kind |-> "line", line |-> output[k]]],
        taken    <- Len(given) - Len(input),
        status   <- Status

ImplementsLanguage == L!Spec
=============================================================================
