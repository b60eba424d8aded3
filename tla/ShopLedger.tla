----------------------------- MODULE ShopLedger -----------------------------
(***************************************************************************)
(* What the stock requests promise, seen from outside: a request that has  *)
(* an effect has it once, in one step.  A sale is decided and done on the  *)
(* rows of that step.  Every other request was checked against the product *)
(* rows of an earlier moment, since it came in: a movement is then done on *)
(* the stock of its step.  A request may also be refused or lost, with no  *)
(* effect at all.                                                          *)
(*                                                                         *)
(* Three promises are weaker than one would hope, because the code keeps   *)
(* no more.  A PATCH is not serial: it writes back the row of that earlier *)
(* moment with the fields of its body set, so what another PATCH or a      *)
(* DELETE wrote in between is lost.  A receiving or an adjustment may be   *)
(* of a product archived, or counted otherwise, since it was checked.  And *)
(* an adjustment to a target that found no StoreStock row may add the      *)
(* target to the stock instead of setting it.                              *)
(***************************************************************************)
EXTENDS ShopData

VARIABLES product, stock, req,
          read    \* the product rows a request was checked against, or NoRow

vars == <<product, stock, req, read>>

Init ==
    /\ product = Catalogue
    /\ stock = OpeningStock
    /\ req = [w \in Worker |-> NoRequest]
    /\ read = [w \in Worker |-> NoRow]

Accept(w) ==
    /\ req[w] = NoRequest
    /\ \E r \in Request : req' = [req EXCEPT ![w] = r]
    /\ UNCHANGED <<product, stock, read>>

\* A receiving, an adjustment or a change of a product is checked against the
\* product rows; the handler keeps what it read.
Check(w) ==
    /\ req[w].op # "sale"
    /\ read[w] = NoRow
    /\ RequestIsValid(req[w], product)
    /\ read' = [read EXCEPT ![w] = product]
    /\ UNCHANGED <<product, stock, req>>

Answer(w) == /\ req' = [req EXCEPT ![w] = NoRequest]
             /\ read' = [read EXCEPT ![w] = NoRow]

\* Refused, failed or lost: nothing happened.
Drop(w) == Answer(w) /\ UNCHANGED <<product, stock>>

\* What the lines of r change the stock of p by, at the rows given.
Effect(r, rows, p) ==
    Total([i \in DOMAIN r.lines |->
        IF r.lines[i].product # p THEN 0
        ELSE IF r.op = "sale" THEN -Units(r.lines[i], rows[p])
        ELSE r.lines[i].qty])

Apply(r) ==
    stock' = [k \in Key |-> IF k[1] = r.store /\ k[2] \in ProductsOf(r)
                            THEN QtyOf(stock[k]) + Effect(r, product, k[2])
                            ELSE stock[k]]

\* A sale is decided on the rows it is applied to: prices, bundle sizes and
\* archived_at of all its products, and the cash against the sum of its lines.
Sell(w) ==
    /\ req[w].op = "sale"
    /\ ~HasDuplicateLines(req[w])
    /\ SaleIsAccepted(req[w], product)
    /\ Apply(req[w])
    /\ Answer(w)
    /\ UNCHANGED product

\* A receiving or an adjustment by a delta applies all its lines to the stock.
Move(w) ==
    /\ req[w].op \in {"receiving", "delta"}
    /\ read[w] # NoRow
    /\ Apply(req[w])
    /\ Answer(w)
    /\ UNCHANGED product

AdjustTo(w) ==
    /\ req[w].op = "target"
    /\ read[w] # NoRow
    /\ LET l == req[w].lines[1]
           k == <<req[w].store, l.product>>
       IN  \/ stock' = [stock EXCEPT ![k] = l.qty]
           \/ /\ OpeningStock[k] = NoRow
              /\ stock' = [stock EXCEPT ![k] = QtyOf(@) + l.qty]
    /\ Answer(w)
    /\ UNCHANGED product

\* The row that was read comes back, archived_at included, with the body's fields.
Patch(w) ==
    /\ req[w].op = "patch"
    /\ read[w] # NoRow
    /\ product' = [product EXCEPT ![req[w].product] =
                      Patched(req[w], read[w][req[w].product])]
    /\ Answer(w)
    /\ UNCHANGED stock

Archive(w) ==
    /\ req[w].op = "archive"
    /\ read[w] # NoRow
    /\ product' = [product EXCEPT ![req[w].product].archived = TRUE]
    /\ Answer(w)
    /\ UNCHANGED stock

Handle(w) ==
    /\ req[w] # NoRequest
    /\ \/ Check(w)
       \/ Sell(w) \/ Move(w) \/ AdjustTo(w) \/ Patch(w) \/ Archive(w) \/ Drop(w)

Next == \E w \in Worker : Accept(w) \/ Handle(w)

Spec == Init /\ [][Next]_vars
=============================================================================
