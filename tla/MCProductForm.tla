--------------------------- MODULE MCProductForm ---------------------------
(***************************************************************************)
(* Instances of ProductForm.                                               *)
(***************************************************************************)
EXTENDS ProductForm, TLC

CONSTANTS eight, nine

MCOpening == <<eight>>

\* Every way to fill in a form that differs in one thing from a plain product.
Plain == [weighed |-> FALSE, unit |-> TRUE, bundled |-> FALSE, bundle |-> "none",
          store |-> TRUE, qty |-> "none", price |-> "fits", blank |-> FALSE]
MCShape ==
    {Plain,
     [Plain EXCEPT !.qty = "whole"],
     [Plain EXCEPT !.qty = "part"],
     [Plain EXCEPT !.qty = "long"],
     [Plain EXCEPT !.price = "huge"],
     [Plain EXCEPT !.qty = "part", !.weighed = TRUE],
     [Plain EXCEPT !.bundled = TRUE, !.bundle = "some"],
     [Plain EXCEPT !.bundled = TRUE, !.bundle = "full"],
     [Plain EXCEPT !.blank = TRUE]}
=============================================================================
