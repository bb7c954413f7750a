---------------------------- MODULE MCBillPayments ----------------------------
(* A small instance of BillPayments: one bill, two payments. *)
EXTENDS BillPayments, TLC

\* One fils of VAT on three: with it and without it differ by the tolerance.
OneItem == {[net |-> 3, vat |-> 2]}

\* BOUND: a bill that handlers crossed on and that was restated is in no
\* property any more, so what follows is not explored.
SomethingToShow == \E b \in Bills : past[b] # "crossed" \/ b \notin restated

BillSymmetry == Permutations(Requests) \cup Permutations(Payments)
=============================================================================
