------------------------------ MODULE PoolRange ------------------------------
(***************************************************************************)
(* The arithmetic of bin ranges: how the API turns the range that a user   *)
(* chose into the range of a position (ExecutorService.useExistingPool),   *)
(* and where a deposit of SOL alone then goes (single-sided.ts).           *)
(***************************************************************************)
EXTENDS Integers

\* Bins of a bin array, and the most bins of a position: 70 both.
BinsPerArray == 70
MaxWidth == 70

Bins == -443636 .. 443636
Ranges == [lower : Int, upper : Int]
BinRange(lower, width) == [lower |-> lower, upper |-> lower + width - 1]
Width(r) == r.upper - r.lower + 1
Within(inner, outer) == outer.lower <= inner.lower /\ inner.upper <= outer.upper

Least(a, b) == IF a <= b THEN a ELSE b
Greatest(a, b) == IF a >= b THEN a ELSE b

\* binIdToBinArrayIndex rounds down, below zero too.
ArrayIndex(bin) == bin \div BinsPerArray

\* A position needs two distinct accounts for its bin arrays.
TwoArrays(r) == ArrayIndex(r.lower) # ArrayIndex(r.upper)

\* Into the array below, away from an active bin above; the upper end gives way.
WidenedDown(asked) ==
    LET lower == ArrayIndex(asked.lower) * BinsPerArray - 1 IN
    [lower |-> lower, upper |-> Least(asked.upper, lower + MaxWidth - 1)]

\* Into the array above; the lower end gives way.
WidenedUp(asked) ==
    LET upper == (ArrayIndex(asked.upper) + 1) * BinsPerArray IN
    [lower |-> Greatest(asked.lower, upper - MaxWidth + 1), upper |-> upper]

UsePool_always(asked, active) ==            \* mutant: widened whatever it spans
    IF asked.upper < active THEN WidenedDown(asked) ELSE WidenedUp(asked)
UsePool(asked, active) ==
    IF TwoArrays(asked) THEN asked
    ELSE IF asked.upper < active THEN WidenedDown(asked)
    ELSE WidenedUp(asked)

\* Without a lower bin the position is centred on the active one.
Centred(active, width) == BinRange(active - (width \div 2), width)

\* The bins of a range that take SOL: from the active bin up when SOL is token
\* X, from it down when SOL is token Y.
SolSide(r, active, solIsTokenX) ==
    IF solIsTokenX
       THEN [r EXCEPT !.lower = Greatest(@, active)]
       ELSE [r EXCEPT !.upper = Least(@, active)]

\* planSingleSidedSol refuses a range that has no such bin.
PlanAccepts(r, active, solIsTokenX) ==
    /\ r.lower <= r.upper
    /\ IF solIsTokenX THEN r.upper >= active ELSE r.lower <= active
=============================================================================
