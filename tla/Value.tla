-------------------------------- MODULE Value --------------------------------
(***************************************************************************)
(* The values of the language and the arithmetic on them (value.h and the  *)
(* arithmetic of vm.cpp).  A C++ int has the range IntMin..IntMax; the     *)
(* width is a parameter, so that TLC meets every boundary with a few       *)
(* values.  Intermediate results are std::int64_t in the code, which holds *)
(* every sum, difference and product of two ints, hence Int here.          *)
(***************************************************************************)
EXTENDS Integers

CONSTANT IntMax     \* numeric_limits<int>::max()

ASSUME IntMaxAssumption == IntMax \in Nat \ {0}

\* Two's complement: the minimum has no positive counterpart.
IntMin == -IntMax - 1
CInt   == IntMin .. IntMax

\* bool fit(std::int64_t v)
Fit(v) == v >= IntMin /\ v <= IntMax

-----------------------------------------------------------------------------
(* struct Value: a tag and both payloads; the payload not named by the tag *)
(* keeps its default, 0 or false.                                          *)

ValueType == {"VT_INT", "VT_BOOL"}
Value     == [type : ValueType, i : Int, b : BOOLEAN]

MakeInt(v)  == [type |-> "VT_INT", i |-> v, b |-> FALSE]
MakeBool(v) == [type |-> "VT_BOOL", i |-> 0, b |-> v]

IsInt(v) == v.type = "VT_INT"

Truth(v) == IF v.type = "VT_BOOL" THEN v.b ELSE v.i # 0

RawEq(l, r) ==
    /\ l.type = r.type
    /\ IF IsInt(l) THEN l.i = r.i ELSE l.b = r.b

-----------------------------------------------------------------------------
(* C++ integer division truncates toward zero and the remainder has the    *)
(* sign of the dividend; \div and % of TLA+ round toward minus infinity.   *)

Abs(n) == IF n < 0 THEN -n ELSE n

\* A plausible slip: the quotient rounded down, as Python does.
FloorDiv(a, b) == IF b < 0 THEN (-a) \div (-b) ELSE a \div b

TruncDiv(a, b) ==
    LET q == Abs(a) \div Abs(b)
    IN  IF (a < 0) = (b < 0) THEN q ELSE -q

TruncMod(a, b) ==
    LET r == Abs(a) % Abs(b)
    IN  IF a < 0 THEN -r ELSE r

\* IntMin / -1 is IntMax + 1.
QuotientOverflows(a, b) == a = IntMin /\ b = -1
=============================================================================
