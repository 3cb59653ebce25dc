------------------------------ MODULE ByteSums ------------------------------
(***************************************************************************)
(* The sum of a function into the naturals, as the number of its units:    *)
(* x contributes the units <<x, 1>> .. <<x, f[x]>>.  A fold computes the   *)
(* same number; this form is the one the cardinality theorems apply to, so *)
(* that statements about totals can be proved as well as model-checked.    *)
(***************************************************************************)
EXTENDS Integers, FiniteSets

UnitsOf(f) == UNION {{x} \X (1..f[x]) : x \in DOMAIN f}

SumOf(f) == Cardinality(UnitsOf(f))

=============================================================================
