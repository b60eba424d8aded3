------------------------ MODULE MCStockTransactions ------------------------
(***************************************************************************)
(* Instances of StockTransactions: one shop, two products of it and one of *)
(* another tenant, and workloads that make the requests meet.              *)
(***************************************************************************)
EXTENDS StockTransactions, TLC

CONSTANTS w1, w2, w3, shop, coffee, sugar, alien, mine, other

MCStoreTenant == shop :> mine

RowOf(t, n, price) == [tenant |-> t, name |-> n, price |-> price, weighted |-> FALSE,
                       bundleQty |-> 0, bundlePrice |-> 0, archived |-> FALSE]

\* coffee comes before sugar in name order, has a bundle, and sugar is weighed.
MCCatalogue ==
    coffee :> [RowOf(mine, 1, 2) EXCEPT !.bundleQty = 3, !.bundlePrice = 5]
    @@ sugar :> [RowOf(mine, 2, 3) EXCEPT !.weighted = TRUE]
    @@ alien :> RowOf(other, 3, 1)

ASSUME MCCatalogueAssumption == NamesDistinct

\* coffee is in stock, sugar never moved and has no row.
MCOpeningStock == [k \in Key |-> IF k[2] = coffee THEN 200 ELSE NoRow]

One(p, q)    == [product |-> p, qty |-> q, bundle |-> FALSE]
Bundle(p, q) == [product |-> p, qty |-> q, bundle |-> TRUE]
Stock(o, ls, cash) == [op |-> o, store |-> shop, lines |-> ls, tendered |-> cash]
\* A PATCH with no field yet, and a DELETE.
Edit(t, p) == [op |-> "patch", tenant |-> t, product |-> p, name |-> Absent, price |-> Absent,
               weighted |-> Absent, bundleQty |-> Absent, bundlePrice |-> Absent]
Delete(p) == [op |-> "archive", tenant |-> mine, product |-> p]

\* A sale whose lines are in the opposite of name order, one of a bundle and a
\* piece of the same product, and ones to refuse: too little cash, half a piece,
\* another tenant's product, a duplicate line, an amount that does not fit.
Sales ==
    {Stock("sale", <<One(sugar, 50), One(coffee, 100)>>, 9),
     Stock("sale", <<Bundle(coffee, 100), One(coffee, 100)>>, 9),
     Stock("sale", <<One(coffee, 100), One(sugar, 100)>>, 5)}
RefusedSales ==
    {Stock("sale", <<One(coffee, 100)>>, 1), Stock("sale", <<One(coffee, 50)>>, 9),
     Stock("sale", <<One(alien, 100)>>, 9), Stock("sale", <<Bundle(sugar, 100)>>, 9),
     Stock("sale", <<One(coffee, 100), One(coffee, 200)>>, 9),
     Stock("sale", <<One(coffee, 100)>>, 99)}
Receivings ==
    {Stock("receiving", <<One(sugar, 100), One(coffee, 100)>>, 0),
     Stock("receiving", <<One(sugar, 50), One(coffee, 900)>>, 0),
     Stock("receiving", <<One(alien, 100)>>, 0)}
Adjustments ==
    {Stock("delta", <<One(coffee, -100)>>, 0),
     Stock("target", <<One(coffee, 400)>>, 0)}
NewStockTarget == {Stock("target", <<One(sugar, 100)>>, 0)}

\* PATCHes of one product that each send other columns, a bundle and a weighing that
\* exclude each other, ones to refuse, and a DELETE.
Reprice == [Edit(mine, coffee) EXCEPT !.price = 1]
Edits ==
    {Reprice, [Edit(mine, coffee) EXCEPT !.name = 4],
     [Edit(mine, coffee) EXCEPT !.weighted = TRUE, !.bundleQty = 0, !.bundlePrice = 0],
     [Edit(mine, coffee) EXCEPT !.bundlePrice = 4], Delete(coffee)}
RefusedEdits ==
    {[Edit(mine, coffee) EXCEPT !.weighted = TRUE], [Edit(mine, sugar) EXCEPT !.bundlePrice = 4],
     [Edit(other, coffee) EXCEPT !.price = 1]}

Symmetry == Permutations(Worker)

Everything == Sales \cup RefusedSales \cup Receivings \cup Adjustments \cup NewStockTarget
              \cup Edits \cup RefusedEdits
Meeting == {Stock("sale", <<One(sugar, 50), One(coffee, 100)>>, 9),
            Stock("receiving", <<One(sugar, 100), One(coffee, 100)>>, 0),
            Stock("receiving", <<One(coffee, 100), One(sugar, 100)>>, 0),
            Stock("delta", <<One(coffee, -100)>>, 0),
            Stock("target", <<One(coffee, 400)>>, 0),
            Reprice}
FirstTargets == NewStockTarget
=============================================================================
