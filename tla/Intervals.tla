----------------------------- MODULE Intervals -----------------------------
(***************************************************************************)
(* When a comparison holds while a fluent changes continuously (VAL:       *)
(* Polynomial.cpp, and Comparison and the intervals in Proposition.cpp).   *)
(* The fluent changes at a constant rate, so that what is compared is a    *)
(* polynomial of degree one, or none.  Values, times and rates are whole   *)
(* numbers and no rate is beyond 1, so every root is a whole number, too.  *)
(* A stretch of time from 0 to len is then a set of cells: 2 * t is the    *)
(* point t, 2 * t + 1 is what lies between t and t + 1.  A set of          *)
(* intervals is a set of cells, their intersection that of the sets.       *)
(*                                                                         *)
(* A comparison of the fluent is [op, val]; "=" is left out, since VAL     *)
(* takes it to hold on no interval on which the fluent changes.            *)
(***************************************************************************)
EXTENDS Integers

Cells(len) == 0..(2 * len)
Gaps(cells) == {k \in cells : k % 2 = 1}
TimeOf(cell) == cell \div 2

IsStrict(q) == q.op \in {">", "<"}

\* Twice the polynomial of the comparison in a cell, for the fluent at v when
\* the stretch begins: its sign tells whether the comparison holds.
Difference(q, v, rate, cell) ==
    IF q.op \in {">", ">="} THEN 2 * (v - q.val) + rate * cell ELSE 2 * (q.val - v) - rate * cell

HoldsIn(q, v, rate, cell) ==
    \/ Difference(q, v, rate, cell) > 0
    \/ Difference(q, v, rate, cell) = 0 /\ ~IsStrict(q)

\* evaluateAtPoint
HoldsExactly(q, v) == HoldsIn(q, v, 0, 0)

\* evaluateAtPointError, which allows for an error: a strict comparison of
\* equal values holds.
HoldsAbout(q, v) == Difference(q, v, 0, 0) >= 0

\* getIntervals.  The roots between the two ends divide the stretch.  The ends
\* themselves are not evaluated, they go with the cell beside them.
IntervalsOf(q, v, rate, len) ==
    LET beside(cell) == CASE cell = 0 -> 1 [] cell = 2 * len -> cell - 1 [] OTHER -> cell
    IN  {cell \in Cells(len) : HoldsIn(q, v, rate, IF rate = 0 THEN 0 ELSE beside(cell))}

\* checkInvariant: does it hold from one end to the other?  Of a fluent that
\* does not change it looks at the value it has now.
HoldsThroughout(q, v, rate, len, now) ==
    IF rate = 0 THEN HoldsExactly(q, now)
    ELSE Difference(q, v, rate, 0) >= 0 /\ HoldsIn(q, v, rate, 2 * len)
=============================================================================
