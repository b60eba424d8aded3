---------------------------- MODULE ProductForm ----------------------------
(***************************************************************************)
(* The catalogue page of an owner: the form that creates and edits         *)
(* products, the barcode lookup that fills in a name, the dialog that      *)
(* deletes one, and the handlers behind them, while a till creates         *)
(* products of its own and another device archives some.                   *)
(*                                                                         *)
(* A product is its barcode here, and whether it is archived; the other    *)
(* fields matter for whether a form is accepted, and are chosen when it is *)
(* sent.  Of a number it matters whether it fits the column it is for.     *)
(***************************************************************************)
EXTENDS Naturals, Sequences

CONSTANTS
    Barcode, NoBarcode,
    NoName, TypedName,       \* the name's field: empty, typed, or a barcode's name
    Opening,                 \* the barcodes of the products there are at the start
    Shape,                   \* how the other fields may be filled in
    MaxProducts, MaxMoves    \* bounds: rows, and clicks

ShapeRecord == [weighed : BOOLEAN, unit : BOOLEAN,       \* a unit is given
                bundled : BOOLEAN, bundle : {"none", "some", "full"},
                store : BOOLEAN,
                qty : {"none", "whole", "part", "long"}, \* long: of more than twelve digits
                price : {"fits", "huge"},                \* huge: from 2^31 on
                blank : BOOLEAN]                         \* the name is only spaces

ASSUME FormAssumption ==
    /\ NoBarcode \notin Barcode
    /\ NoName # TypedName /\ {NoName, TypedName} \cap Barcode = {}
    /\ Opening \in Seq(Barcode \cup {NoBarcode})
    /\ \A i, j \in DOMAIN Opening :
          i # j /\ Opening[i] # NoBarcode => Opening[i] # Opening[j]
    /\ Shape \subseteq ShapeRecord
    /\ MaxProducts \in Nat /\ MaxMoves \in Nat

\* The page's three mutations, and a till's request.
Slot == {"create", "update", "remove", "till"}

VARIABLES
    rows,       \* the Product rows
    storeGone,  \* the store chosen for the opening stock was deleted
    list,       \* the rows as the page last fetched them
    form,       \* ProductFormDialog
    lookup,     \* the barcode that is being looked up
    doomed,     \* DeleteProductDialog: its product
    filling,    \* history: how often the create form was emptied
    request,
    moves

shop == <<rows, storeGone>>
page == <<list, form, lookup, doomed, filling>>
vars == <<shop, page, request, moves>>

Idle == [status |-> "none", id |-> 0, barcode |-> NoBarcode, body |-> <<>>,
         filling |-> 0, seen |-> <<>>]

Init ==
    /\ rows = [i \in DOMAIN Opening |->
                  [barcode |-> Opening[i], archived |-> FALSE, filling |-> 0, lost |-> FALSE]]
    /\ list = rows /\ storeGone = FALSE
    /\ form = [open |-> FALSE, product |-> 0, barcode |-> NoBarcode, name |-> NoName]
    /\ lookup = NoBarcode /\ doomed = 0 /\ filling = 0
    /\ request = [s \in Slot |-> Idle]
    /\ moves = 0

-----------------------------------------------------------------------------
(* The form                                                                *)

Move == moves < MaxMoves /\ moves' = moves + 1

\* Mutant: the effect does not abort the lookup it started before.
NotAborted(f) ==
    lookup' = IF lookup # NoBarcode THEN lookup
              ELSE IF f.open /\ f.product = 0 /\ f.name # TypedName THEN f.barcode ELSE NoBarcode

\* What the lookup depends on; a change aborts it and, where it applies, starts another.
LookupKey(f) == <<f.open, f.product = 0, f.name = TypedName, f.barcode>>

Relooked(f) ==
    lookup' = IF LookupKey(f) = LookupKey(form) THEN lookup
              ELSE IF f.open /\ f.product = 0 /\ f.name # TypedName THEN f.barcode ELSE NoBarcode

Fill(f) == form' = f /\ Relooked(f)

IsLive(id, table) == id \in DOMAIN table /\ ~table[id].archived

\* The dialogs are modal.
OpenCreate ==
    /\ Move
    /\ ~form.open /\ doomed = 0
    /\ Fill([open |-> TRUE, product |-> 0, barcode |-> NoBarcode, name |-> NoName])
    /\ filling' = filling + 1
    /\ UNCHANGED <<shop, list, doomed, request>>

OpenEdit(id) ==
    /\ Move
    /\ ~form.open /\ doomed = 0 /\ IsLive(id, list)
    /\ Fill([open |-> TRUE, product |-> id, barcode |-> list[id].barcode, name |-> TypedName])
    /\ UNCHANGED <<shop, list, doomed, filling, request>>

Type(f) ==
    /\ Move
    /\ form.open /\ f # form
    /\ Fill(f)
    /\ UNCHANGED <<shop, list, doomed, filling, request>>

TypeBarcode(b) == Type([form EXCEPT !.barcode = b])
TypeName(n) == Type([form EXCEPT !.name = n])

\* "Batal" is disabled while it is pending; the escape key is not.
CloseForm == Type([form EXCEPT !.open = FALSE])

\* The lookup fills in a name where there is none.
AnswerLookup(hit) ==
    /\ lookup # NoBarcode
    /\ form' = IF hit /\ form.name = NoName THEN [form EXCEPT !.name = lookup] ELSE form
    /\ lookup' = NoBarcode
    /\ UNCHANGED <<shop, list, doomed, filling, request, moves>>

OpenRemove(id) ==
    /\ Move
    /\ ~form.open /\ doomed = 0 /\ IsLive(id, list)
    /\ doomed' = id
    /\ UNCHANGED <<shop, list, form, lookup, filling, request>>

CloseRemove ==
    /\ Move
    /\ doomed # 0
    /\ doomed' = 0
    /\ UNCHANGED <<shop, list, form, lookup, filling, request>>

\* The query is fetched again, after a mutation or for another reason.
Refetch ==
    /\ list' = rows
    /\ UNCHANGED <<shop, form, lookup, doomed, filling, request, moves>>

\* Mutant: an opening quantity may be a fraction of any product.
AnyQuantity(e, isEdit) ==
    /\ e.weighed => ~e.bundled /\ e.unit
    /\ e.qty # "none" => e.store /\ ~isEdit
    /\ e.bundled => e.bundle = "full"

\* zod's schema; an edit has no opening stock.  A name of spaces passes, and a number of
\* any size.
FormTakes(e, isEdit) ==
    /\ e.weighed => ~e.bundled /\ e.unit
    /\ e.qty # "none" => e.store /\ ~isEdit
    /\ e.qty = "part" => e.weighed
    /\ e.bundled => e.bundle = "full"

\* The body: no bundle unless it is ticked, no opening stock without a quantity.
Body(e) ==
    [weighed |-> e.weighed, blank |-> e.blank, price |-> e.price,
     bundle |-> IF e.weighed \/ ~e.bundled THEN "none" ELSE e.bundle,
     store |-> e.store /\ e.qty # "none", qty |-> e.qty]

Sent(id, barcode, body, n) ==
    [status |-> "sent", id |-> id, barcode |-> barcode, body |-> body, filling |-> n, seen |-> <<>>]

Mutation == IF form.product = 0 THEN "create" ELSE "update"

Submit(e) ==
    /\ Move
    /\ form.open /\ form.name # NoName
    /\ request[Mutation].status = "none"
    /\ FormTakes(e, Mutation = "update")
    /\ request' = [request EXCEPT ![Mutation] =
                      Sent(form.product, form.barcode, Body(e),
                           IF Mutation = "create" THEN filling ELSE 0)]
    /\ UNCHANGED <<shop, page>>

ConfirmRemove ==
    /\ Move
    /\ doomed # 0 /\ request["remove"].status = "none"
    /\ request' = [request EXCEPT !["remove"] = Sent(doomed, NoBarcode, <<>>, 0)]
    /\ UNCHANGED <<shop, page>>

\* A cashier scanned a barcode no product has, and enters a name, perhaps of spaces, and
\* a price.
QuickCreate(b) ==
    /\ Move
    /\ request["till"].status = "none"
    /\ \E e \in Shape : /\ ~e.weighed /\ ~e.bundled /\ e.qty = "none"
                        /\ request' = [request EXCEPT !["till"] = Sent(0, b, Body(e), 0)]
    /\ UNCHANGED <<shop, page>>

-----------------------------------------------------------------------------
(* The server                                                              *)

\* Another product that is not archived has the barcode.
IsUsed(barcode, id) ==
    \E i \in DOMAIN rows \ {id} :
        IsLive(i, rows) /\ barcode # NoBarcode /\ rows[i].barcode = barcode

\* ProductSerializer: initial_qty has twelve digits, a price has no largest value.
BodyIsTaken(b) ==
    /\ ~b.blank
    /\ b.store <=> b.qty # "none"
    /\ b.store => ~storeGone
    /\ b.qty # "long"
    /\ b.qty = "part" => b.weighed
    /\ b.bundle # "some"
    /\ b.weighed => b.bundle = "none"

Finish(s, status) == request' = [request EXCEPT ![s].status = status]
IsSave(s) == s \in {"create", "update", "till"}

\* An edit reads its row, archived_at included.
ReadRow ==
    LET r == request["update"]
    IN  /\ r.status = "sent"
        /\ IF IsLive(r.id, rows)
           THEN request' = [request EXCEPT !["update"].status = "read", !["update"].seen = rows]
           ELSE Finish("update", "refused")
        /\ UNCHANGED <<shop, page, moves>>

Validate(s) ==
    LET r == request[s]
    IN  /\ IsSave(s) /\ r.status = IF s = "update" THEN "read" ELSE "sent"
        /\ Finish(s, IF ~IsUsed(r.barcode, r.id) /\ BodyIsTaken(r.body)
                     THEN "checked" ELSE "refused")
        /\ UNCHANGED <<shop, page, moves>>

\* Mutant: uniq_product_barcode_per_tenant is missing.
AnyBarcode(barcode, id) == TRUE

\* The unique index over barcodes of products that are not archived.
IndexTakes(barcode, id) ==
    barcode # NoBarcode => ~\E i \in DOMAIN rows \ {id} : IsLive(i, rows) /\ rows[i].barcode = barcode

Row(r) ==
    [barcode |-> r.barcode, archived |-> FALSE, filling |-> r.filling, lost |-> FALSE]

\* The product and its movement, or neither when the store is gone.
Created(r) == IF r.body.store /\ storeGone THEN rows ELSE Append(rows, Row(r))

\* Every column is saved as it was read, archived_at included.
Updated(r) == [rows EXCEPT ![r.id] = [r.seen[r.id] EXCEPT !.barcode = r.barcode]]

\* The columns of prices have four bytes.
Save(s) ==
    LET r == request[s]
        saved == IF r.id = 0 THEN Created(r) ELSE Updated(r)
    IN  /\ r.status = "checked"
        /\ Len(saved) <= MaxProducts
        /\ IF /\ IndexTakes(r.barcode, r.id) /\ r.body.price = "fits"
              /\ r.id = 0 => saved # rows
           THEN rows' = saved /\ Finish(s, "done")
           ELSE UNCHANGED rows /\ Finish(s, "error")
        /\ UNCHANGED <<storeGone, page, moves>>

Remove ==
    LET id == request["remove"].id
    IN  /\ request["remove"].status = "sent"
        /\ IF IsLive(id, rows)
           THEN rows' = [rows EXCEPT ![id].archived = TRUE] /\ Finish("remove", "done")
           ELSE UNCHANGED rows /\ Finish("remove", "refused")
        /\ UNCHANGED <<storeGone, page, moves>>

\* Another device of the owner.
ArchiveElsewhere(id) ==
    /\ Move
    /\ IsLive(id, rows)
    /\ rows' = [rows EXCEPT ![id].archived = TRUE]
    /\ UNCHANGED <<storeGone, page, request>>

DeleteStore ==
    /\ Move
    /\ ~storeGone /\ storeGone' = TRUE
    /\ UNCHANGED <<rows, page, request>>

\* The request, or the answer, is lost.
Lose(s) ==
    /\ request[s].status \in {"sent", "done", "refused"}
    /\ Finish(s, "lost")
    /\ rows' = IF request[s].status = "done" /\ s = "create"
               THEN [i \in DOMAIN rows |->
                        IF rows[i].filling = request[s].filling THEN [rows[i] EXCEPT !.lost = TRUE]
                        ELSE rows[i]]
               ELSE rows
    /\ UNCHANGED <<storeGone, page, moves>>

-----------------------------------------------------------------------------
(* Answers                                                                 *)

\* Mutant: a successful create leaves the form filled in.
LeaveFilled == UNCHANGED <<form, lookup, filling, doomed>>

\* reset(EMPTY_DEFAULTS), whatever the form is open for by now.
Empty ==
    /\ Fill([form EXCEPT !.barcode = NoBarcode, !.name = NoName])
    /\ filling' = filling + 1
    /\ UNCHANGED doomed

AnswerSuccess(s) ==
    /\ request[s].status = "done"
    /\ request' = [request EXCEPT ![s] = Idle]
    /\ CASE s = "create" -> Empty
         [] s = "update" -> Fill([form EXCEPT !.open = FALSE]) /\ UNCHANGED <<filling, doomed>>
         [] s = "remove" -> doomed' = 0 /\ UNCHANGED <<form, lookup, filling>>
         [] s = "till" -> UNCHANGED <<form, lookup, filling, doomed>>
    /\ UNCHANGED <<shop, list, moves>>

AnswerError(s) ==
    /\ request[s].status \in {"refused", "error", "lost"}
    /\ request' = [request EXCEPT ![s] = Idle]
    /\ UNCHANGED <<shop, page, moves>>

-----------------------------------------------------------------------------
FormStep ==
    \/ \E b \in Barcode \cup {NoBarcode} : TypeBarcode(b)
    \/ \E n \in {NoName, TypedName} : TypeName(n)
    \/ \E e \in Shape : Submit(e)
    \/ CloseForm
    \/ \E hit \in BOOLEAN : AnswerLookup(hit)

RemoveStep == ConfirmRemove \/ CloseRemove

PageStep ==
    \/ OpenCreate \/ Refetch
    \/ \E id \in DOMAIN list : OpenEdit(id) \/ OpenRemove(id)

Next ==
    \/ PageStep \/ FormStep \/ RemoveStep
    \/ \E b \in Barcode : QuickCreate(b)
    \/ \E s \in Slot : Validate(s) \/ Save(s) \/ Lose(s) \/ AnswerSuccess(s) \/ AnswerError(s)
    \/ ReadRow \/ Remove \/ DeleteStore
    \/ \E id \in DOMAIN rows : ArchiveElsewhere(id)

Spec == Init /\ [][Next]_vars
-----------------------------------------------------------------------------
(* Properties                                                              *)

RowRecord == [barcode : Barcode \cup {NoBarcode}, archived : BOOLEAN, filling : Nat,
              lost : BOOLEAN]
Status == {"none", "sent", "read", "checked", "done", "refused", "error", "lost"}

\* Every variable has its type; a lookup is for the barcode in the create form.
TypeOK ==
    /\ rows \in Seq(RowRecord) /\ list \in Seq(RowRecord) /\ Len(list) <= Len(rows)
    /\ storeGone \in BOOLEAN /\ filling \in Nat
    /\ form \in [open : BOOLEAN, product : Nat, barcode : Barcode \cup {NoBarcode},
                 name : Barcode \cup {NoName, TypedName}]
    /\ form.product \in 0..Len(list) /\ doomed \in 0..Len(list)
    /\ form.open => doomed = 0
    /\ \A s \in Slot : request[s].status \in Status /\ request[s].id \in 0..Len(rows)

\* The catalogue never has a barcode twice, whoever saves what at the same time.
BarcodesDistinct ==
    \A i, j \in DOMAIN rows :
        /\ i # j /\ IsLive(i, rows) /\ IsLive(j, rows)
        /\ rows[i].barcode # NoBarcode
        => rows[i].barcode # rows[j].barcode

\* Filling in the form once creates two products only when the first answer was lost.
CreatedOnce ==
    \A i, j \in DOMAIN rows :
        i < j /\ rows[i].filling = rows[j].filling /\ rows[i].filling # 0 => rows[i].lost

\* The name that is filled in is that of the barcode in the form, which creates.
AutofillFits ==
    [][form'.name # form.name /\ form'.name \in Barcode =>
           form'.open /\ form'.product = 0 /\ form'.barcode = form'.name]_vars

\* What the form lets through fails only for a barcode in use, a product or a store that
\* is gone, a name of spaces, or a number beyond its column.
FormsFit ==
    [][\A s \in {"create", "update"} :
           LET r == request[s]
           IN  /\ r.status \in {"sent", "read", "checked"}
               /\ request'[s].status \in {"refused", "error"}
               => \/ IsUsed(r.barcode, r.id) \/ r.body.blank
                  \/ r.body.qty = "long" \/ r.body.price = "huge"
                  \/ s = "update" /\ ~IsLive(r.id, rows)
                  \/ r.body.store /\ storeGone]_vars

=============================================================================
