------------------------------- MODULE Totals -------------------------------
(***************************************************************************)
(* The sum of the numbers a function gives to the elements of its domain:  *)
(* the lines of a sale, the movements of a product, the rows of a report.  *)
(***************************************************************************)
EXTENDS Integers, FiniteSets, Functions

Total(f) == FoldFunction(+, 0, f)
=============================================================================
