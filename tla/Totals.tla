------------------------------- MODULE Totals -------------------------------
(***************************************************************************)
(* The sum of the values of a function, as the number of elements under    *)
(* its graph.  A fold would give the same number; a cardinality can be     *)
(* reasoned about with the theorems on finite sets (TotalsProofs).         *)
(***************************************************************************)
EXTENDS Integers, FiniteSets

\* One element for each unit of each value of f
Units(f) == UNION { {x} \X (1..f[x]) : x \in DOMAIN f }

\* The sum of the values of f, natural numbers on a finite domain
Total(f) == Cardinality(Units(f))

=============================================================================
