---------------------------- MODULE SalePricing ----------------------------
(***************************************************************************)
(* How create_sale resolves the lines of a sale against the product rows:  *)
(* which lines it takes, what each one costs and what it takes from stock. *)
(* Quantities are DecimalField(12, 2) values, counted in hundredths.       *)
(***************************************************************************)
EXTENDS Integers, Sequences, FiniteSets, Totals

CONSTANTS
    Store, Product, Tenant,
    StoreTenant,   \* StoreTenant[s] is the tenant that owns store s
    MaxMoney       \* largest value of an integer column

ASSUME PricingAssumption ==
    /\ StoreTenant \in [Store -> Tenant]
    /\ MaxMoney \in Nat

\* bundleQty 0 stands for a bundle_qty of NULL; name is the rank of the name in
\* the alphabetical order.
Row == [tenant : Tenant, name : Nat, price : Nat, weighted : BOOLEAN,
        bundleQty : Nat, bundlePrice : Nat, archived : BOOLEAN]

Line == [product : Product, qty : Int, bundle : BOOLEAN]

\* The filter tenant=store.tenant, archived_at__isnull=True.
Available(row, s) == row.tenant = StoreTenant[s] /\ ~row.archived

UnitPrice(l, row) == IF l.bundle THEN row.bundlePrice ELSE row.price
Units(l, row) == IF l.bundle THEN l.qty * row.bundleQty ELSE l.qty

\* (qty * unit_price).to_integral_value(ROUND_HALF_UP), for a positive qty.
LineTotal(l, row) == (l.qty * UnitPrice(l, row) + 50) \div 100

Subtotal(r, rows) ==
    Total([i \in DOMAIN r.lines |-> LineTotal(r.lines[i], rows[r.lines[i].product])])

HasDuplicateLines(r) ==
    \E i, j \in DOMAIN r.lines :
        /\ i # j
        /\ r.lines[i].product = r.lines[j].product
        /\ r.lines[i].bundle = r.lines[j].bundle

LineIsValid(l, row) ==
    /\ l.qty > 0
    /\ ~(row.weighted /\ l.bundle)
    /\ row.weighted \/ l.qty % 100 = 0
    /\ l.bundle => row.bundleQty # 0

\* create_sale goes on to write the sale: every product is found, every line is
\* valid, the cash suffices and the amounts fit their columns.
SaleIsAccepted(r, rows) ==
    /\ \A i \in DOMAIN r.lines : /\ Available(rows[r.lines[i].product], r.store)
                                 /\ LineIsValid(r.lines[i], rows[r.lines[i].product])
    /\ r.tendered >= Subtotal(r, rows)
    /\ r.tendered <= MaxMoney
=============================================================================
