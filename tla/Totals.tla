------------------------------- MODULE Totals -------------------------------
(***************************************************************************)
(* The sum of the values of a function, counted instead of folded: as many *)
(* as there are pairs of an argument and a number up to its value.         *)
(***************************************************************************)
EXTENDS Naturals, FiniteSets

Counted(f) == UNION {{x} \X (1..f[x]) : x \in DOMAIN f}
Total(f)   == Cardinality(Counted(f))
=============================================================================
