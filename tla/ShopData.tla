------------------------------ MODULE ShopData ------------------------------
(***************************************************************************)
(* What the stock handlers share: the rows they start from and the         *)
(* validated bodies of the requests.                                       *)
(***************************************************************************)
EXTENDS SalePricing

CONSTANTS
    Worker,        \* request threads of all the gunicorn processes
    Catalogue,     \* the product rows at the start
    OpeningStock,  \* the StoreStock rows at the start
    Request,       \* the requests clients may send
    NoRow,         \* no StoreStock row for this store and product; nothing read yet
    Absent,        \* a field the body of a PATCH does not have
    NoRequest      \* the worker is idle

Key == Store \X Product

\* A receiving's items, and the one product of an adjustment with its delta or
\* its target_qty, are lines too.
StockRequest == [op : {"sale", "receiving", "delta", "target"}, store : Store,
                 lines : Seq(Line) \ {<< >>}, tendered : Nat]

\* A PATCH carries any of the columns.  bundleQty 0 clears the bundle: its three
\* fields are sent as null (bundle_label goes with bundle_qty).  tenant is that of
\* the user who asks.
PatchRequest ==
    {r \in [op : {"patch"}, tenant : Tenant, product : Product,
            name : Nat \cup {Absent}, price : Nat \cup {Absent},
            weighted : BOOLEAN \cup {Absent},
            bundleQty : Nat \cup {Absent}, bundlePrice : Nat \cup {Absent}] :
         r.bundleQty = 0 => r.bundlePrice = 0}
ArchiveRequest == [op : {"archive"}, tenant : Tenant, product : Product]

\* No bundle on a weighed product, and no part of a bundle.
IsWhole(row) == /\ row.weighted => row.bundleQty = 0
                /\ row.bundleQty = 0 => row.bundlePrice = 0

ASSUME DataAssumption ==
    /\ Catalogue \in [Product -> Row]
    /\ \A p \in Product : IsWhole(Catalogue[p])
    /\ NoRow \notin Int /\ NoRow \notin [Product -> Row]
    /\ Absent \notin Nat /\ Absent \notin BOOLEAN
    /\ OpeningStock \in [Key -> Int \cup {NoRow}]
    /\ Request \subseteq StockRequest \cup PatchRequest \cup ArchiveRequest
    /\ \A r \in Request : r.op \in {"delta", "target"} => Len(r.lines) = 1
    /\ NoRequest \notin Request

ChangesProduct(r) == r.op \in {"patch", "archive"}

QtyOf(row) == IF row = NoRow THEN 0 ELSE row

ProductsOf(r) == {r.lines[i].product : i \in DOMAIN r.lines}

\* ReceivingSerializer and AdjustmentSerializer, on the product rows they read: the
\* products are the store's, not archived, and counted in whole pieces or weighed.
StockRequestIsValid(r, rows) ==
    \A i \in DOMAIN r.lines :
        LET l == r.lines[i]
        IN  /\ Available(rows[l.product], r.store)
            /\ rows[l.product].weighted \/ l.qty % 100 = 0

Given(new, old) == IF new = Absent THEN old ELSE new

\* The row with the fields of the body set over those it has.
Patched(r, row) ==
    [row EXCEPT !.name = Given(r.name, @), !.price = Given(r.price, @),
                !.weighted = Given(r.weighted, @),
                !.bundleQty = Given(r.bundleQty, @),
                !.bundlePrice = Given(r.bundlePrice, @)]

\* ProductSerializer.validate, on the row the view read: no bundle of a weighed
\* product, and a bundle complete once the body touches it.
PatchIsValid(r, row) ==
    /\ Patched(r, row).weighted => Patched(r, row).bundleQty = 0
    /\ (r.bundleQty = Absent) # (r.bundlePrice = Absent) => row.bundleQty # 0

\* get_object_or_404 finds the product, and a PATCH of it is valid.
ProductRequestIsValid(r, row) ==
    /\ row.tenant = r.tenant
    /\ ~row.archived
    /\ r.op = "patch" => PatchIsValid(r, row)

\* The request is let through by what its handler reads first.
RequestIsValid(r, rows) ==
    IF ChangesProduct(r) THEN ProductRequestIsValid(r, rows[r.product])
                         ELSE StockRequestIsValid(r, rows)
=============================================================================
