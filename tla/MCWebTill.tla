----------------------------- MODULE MCWebTill -----------------------------
(***************************************************************************)
(* Instances of WebTill: soap, sold by the piece or three in a bundle, and *)
(* rice, which is weighed.  JavaScript computes 0.29 * 50 below 14.5 and   *)
(* 0.09 + 0.25 below 0.34.                                                 *)
(***************************************************************************)
EXTENDS WebTill, TLC

CONSTANTS shop, soap, rice, mine

MCStoreTenant == shop :> mine

Soap == [tenant |-> mine, name |-> 1, price |-> 3, weighted |-> FALSE,
         bundleQty |-> 3, bundlePrice |-> 8, archived |-> FALSE]
Rice == [Soap EXCEPT !.name = 2, !.price = 50, !.weighted = TRUE,
                     !.bundleQty = 0, !.bundlePrice = 0]

MCCatalogue == [p \in Product |-> IF p = soap THEN Soap ELSE Rice]

\* Another price, no bundle any more, archived; rice at another price.
MCVersion ==
    [p \in Product |->
        IF p = soap
        THEN {Soap, [Soap EXCEPT !.price = 4],
              [Soap EXCEPT !.bundleQty = 0, !.bundlePrice = 0],
              [Soap EXCEPT !.archived = TRUE]}
        ELSE {Rice, [Rice EXCEPT !.price = 60]}]

MCDriftsAt   == {9, 16, 17, 21, 32, 33, 34, 41, 42, 43}
MCRoundsDown == {<<29, 50>>}
MCTyped      == {0, 9, 29, 150, 650}

\* Twenty rupiah, a half more, and more than the column holds.
MCCash       == {2000, 2050, 100100}
MCAmounts    == {-1, 7}
=============================================================================
