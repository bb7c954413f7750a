--------------------------- MODULE MCPayrollRuns ---------------------------
(* A small instance of PayrollRuns: two employees, two handlers, two months. *)
EXTENDS PayrollRuns, TLC

Symmetry == Permutations(Employees) \cup Permutations(Items) \cup Permutations(Requests)
=============================================================================
