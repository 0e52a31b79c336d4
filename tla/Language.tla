------------------------------ MODULE Language ------------------------------
(***************************************************************************)
(* What running a program promises, whichever part executes it.  A program *)
(* means a sequence of events (a line is written, an integer is read) and  *)
(* how it ends: well, or with a fault at a place.  A run shows the events  *)
(* one at a time and in this order, then ends as the program means to; a   *)
(* step limit may end it anywhere before.                                  *)
(*                                                                         *)
(* The one thing the parts do not agree on is the remainder of IntMin and  *)
(* -1: what happens from there on is left open.                            *)
(***************************************************************************)
EXTENDS Naturals, Sequences

Idle    == [reason |-> "idle", loc |-> 0]
Running == [reason |-> "running", loc |-> 0]

VARIABLES
    meaning,    \* of the program that runs: a record [events, fault]
    lines,      \* the lines written so far
    taken,      \* the number of integers read so far
    status      \* Idle, Running, or how the run ended

seen == <<meaning, lines, taken, status>>

Lines(events) == SelectSeq(events, LAMBDA e : e.kind # "read")
Happening     == Len(lines) + taken
Ahead         == Happening < Len(meaning.events)

\* The first n events, as they look from outside.
Shown(n) ==
    LET past == SubSeq(meaning.events, 1, n)
    IN  <<Lines(past), n - Len(Lines(past))>>

Init == lines = << >> /\ taken = 0 /\ status = Idle

\* Any program: what it means is for its text to say.
Begin ==
    /\ status = Idle /\ status' = Running
    /\ UNCHANGED <<lines, taken>>

Happen ==
    /\ status = Running /\ status' = Running
    /\ Ahead
    /\ <<lines', taken'>> = Shown(Happening + 1)
    /\ UNCHANGED meaning

Finish ==
    /\ status = Running /\ ~Ahead
    /\ status' = meaning.fault
    /\ UNCHANGED <<meaning, lines, taken>>

CutOff ==
    /\ status = Running
    /\ status'.reason = "steps"
    /\ UNCHANGED <<meaning, lines, taken>>

LeftOpen ==
    /\ status = Running /\ ~Ahead
    /\ meaning.fault.reason = "remainder"
    /\ UNCHANGED meaning

Next == Begin \/ Happen \/ Finish \/ CutOff \/ LeftOpen

Spec == Init /\ [][Next]_seen
=============================================================================
