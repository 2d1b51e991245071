-------------------------------- MODULE Sums --------------------------------
EXTENDS Integers, FiniteSets

(* The sum of the numbers of f, counted one by one.                        *)
Total(f) == Cardinality(UNION {{x} \X (1 .. f[x]) : x \in DOMAIN f})
=============================================================================
