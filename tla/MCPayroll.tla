----------------------------- MODULE MCPayroll -----------------------------
(* Instances of PayrollCalculation for TLC. *)
EXTENDS PayrollCalculation, TLC

CONSTANTS d1, d2, p1, p2, m1, m2

Symmetry == Permutations(Requests) \union Permutations(Calculators)

\* The second draft starts too late for the first month, and pays too little
\* for the longer of the two.
MCInForce == [p \in Periods |-> IF p = p1 THEN {d1} ELSE {d1, d2}]
MCPayable == {<<d1, m1>>, <<d1, m2>>, <<d2, m1>>} \intersect (Drafts \X Minutes)
============================================================================
