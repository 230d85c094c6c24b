-------------------------------- MODULE Sums --------------------------------
(* Quantities added up over rows, lines or documents. *)
EXTENDS Integers, FiniteSets

\* The sum of the values of a function, counted unit by unit.
Sum(f) == Cardinality(UNION {{x} \X (1 .. f[x]) : x \in DOMAIN f})
=============================================================================
