------------------------- MODULE ProductForm_proofs -------------------------
(***************************************************************************)
(* Theorems about ProductForm, for any catalogue and any number of forms,  *)
(* requests and lost answers: its types, the barcodes that stay distinct,  *)
(* the lookup that fills in the name of the barcode in the form, the form  *)
(* that creates a product twice only when an answer was lost, and what the *)
(* form lets through, which the server takes.                              *)
(***************************************************************************)
EXTENDS ProductForm, TLAPS

BarcodeField == Barcode \cup {NoBarcode}
NameField == Barcode \cup {NoName, TypedName}
FormRecord == [open : BOOLEAN, product : Nat, barcode : BarcodeField, name : NameField]
Bodies == {<<>>} \cup {Body(e) : e \in Shape}
RequestRecord == [status : Status, id : Nat, barcode : BarcodeField,
                  body : Bodies,
                  filling : Nat, seen : Seq(RowRecord)]

\* The rows a request has read, and the table: nothing was removed since, and every
\* row is of the same filling.
Preserves(seen, table) ==
    /\ Len(seen) <= Len(table)
    /\ \A i \in 1..Len(seen) : table[i].filling = seen[i].filling

\* An edit whose handler has read its row.
HasRead(r) == r.id # 0 /\ r.status \in {"read", "checked"}

\* What request r of slot s may carry when the table is as given and the form was
\* emptied n times.
Fits(s, r, table, n) ==
    /\ r.id <= Len(table)
    /\ s \in {"create", "till"} => r.id = 0
    /\ s # "create" => r.filling = 0
    /\ r.filling <= n
    /\ r.status \in {"read", "checked"} => IsSave(s)
    /\ HasRead(r) => r.id <= Len(r.seen) /\ Preserves(r.seen, table)

TableFits(table, n) ==
    /\ table \in Seq(RowRecord)
    /\ \A i \in 1..Len(table) : table[i].filling <= n

FormFits(f, d, n) ==
    /\ f \in FormRecord /\ f.product <= n
    /\ d \in Nat /\ d <= n
    /\ f.open => d = 0

\* The types, of the parts of a request as well.
Typed ==
    /\ TableFits(rows, filling)
    /\ list \in Seq(RowRecord) /\ Len(list) <= Len(rows)
    /\ storeGone \in BOOLEAN /\ filling \in Nat
    /\ FormFits(form, doomed, Len(list))
    /\ lookup \in BarcodeField
    /\ request \in [Slot -> RequestRecord]
    /\ \A s \in Slot : Fits(s, request[s], rows, filling)

-----------------------------------------------------------------------------
(* Types                                                                   *)

\* Rows are records with a filling that is a number.
LEMMA RowsHaveFillings ==
    ASSUME NEW t \in Seq(RowRecord), NEW i \in 1..Len(t)
    PROVE  t[i] \in RowRecord /\ t[i].filling \in Nat
<1>1. t[i] \in RowRecord
    OBVIOUS
<1> QED  BY <1>1 DEF RowRecord

\* What was preserved up to one table is preserved up to the next.
LEMMA PreservesOn ==
    ASSUME NEW seen \in Seq(RowRecord), NEW t \in Seq(RowRecord), NEW u \in Seq(RowRecord),
           Preserves(seen, t), Preserves(t, u)
    PROVE  Preserves(seen, u)
<1>1. \A i \in 1..Len(seen) : i \in 1..Len(t)
    BY DEF Preserves
<1> QED  BY <1>1 DEF Preserves

\* A table that only grows takes nothing away from a request.
LEMMA FitsOn ==
    ASSUME NEW s \in Slot, NEW r \in RequestRecord,
           NEW t \in Seq(RowRecord), NEW u \in Seq(RowRecord), NEW n \in Nat, NEW m \in Nat,
           Fits(s, r, t, n), Preserves(t, u), n <= m
    PROVE  Fits(s, r, u, m)
<1>1. r.id \in Nat /\ r.filling \in Nat /\ r.seen \in Seq(RowRecord)
    BY DEF RequestRecord
<1>2. Len(t) <= Len(u) /\ Len(t) \in Nat /\ Len(u) \in Nat
    BY DEF Preserves
<1>3. HasRead(r) => Preserves(r.seen, u)
    BY <1>1, PreservesOn DEF Fits
<1> QED  BY <1>1, <1>2, <1>3 DEF Fits

\* A request whose handler goes on carries what it carried.
LEMMA FitsUnchecked ==
    ASSUME NEW s \in Slot, NEW r \in RequestRecord, NEW t \in Seq(RowRecord), NEW n \in Nat,
           Fits(s, r, t, n), NEW status \in Status \ {"read"},
           status = "checked" => IsSave(s) /\ (r.id # 0 => r.status = "read")
    PROVE  /\ [r EXCEPT !.status = status] \in RequestRecord
           /\ Fits(s, [r EXCEPT !.status = status], t, n)
BY DEF Fits, HasRead, RequestRecord

\* A slot that waits for nothing.
LEMMA FitsIdle ==
    ASSUME NEW s \in Slot, NEW t \in Seq(RowRecord), NEW n \in Nat
    PROVE  Idle \in RequestRecord /\ Fits(s, Idle, t, n)
BY DEF Fits, HasRead, RequestRecord, Idle, Status, BarcodeField, Bodies

\* What a click sends.
LEMMA SentTyped ==
    ASSUME NEW id \in Nat, NEW b \in BarcodeField, NEW body \in Bodies, NEW n \in Nat
    PROVE  /\ Sent(id, b, body, n) \in RequestRecord
           /\ Sent(id, b, body, n).id = id
           /\ Sent(id, b, body, n).filling = n
           /\ Sent(id, b, body, n).status = "sent"
<1>1. <<>> \in Seq(RowRecord) /\ "sent" \in Status
    BY DEF Status
<1> QED  BY <1>1 DEF RequestRecord, Sent

\* One request changes, and the table only grows.
LEMMA RequestStep ==
    ASSUME Typed, NEW s \in Slot, NEW r \in RequestRecord,
           request' = [request EXCEPT ![s] = r],
           Fits(s, r, rows', filling'), TableFits(rows', filling'), Preserves(rows, rows'),
           filling' \in Nat, filling <= filling'
    PROVE  /\ request' \in [Slot -> RequestRecord]
           /\ \A q \in Slot : Fits(q, request'[q], rows', filling')
<1>1. request \in [Slot -> RequestRecord] /\ filling \in Nat
      /\ rows \in Seq(RowRecord) /\ rows' \in Seq(RowRecord)
    BY DEF Typed, TableFits
<1>2. ASSUME NEW q \in Slot PROVE Fits(q, request'[q], rows', filling')
    <2>1. CASE q = s
        BY <1>1, <2>1
    <2>2. CASE q # s
        <3>1. request'[q] = request[q] /\ request[q] \in RequestRecord
            BY <1>1, <2>2
        <3>2. Fits(q, request[q], rows, filling)
            BY DEF Typed
        <3> QED  BY <1>1, <3>1, <3>2, FitsOn
    <2> QED  BY <2>1, <2>2
<1> QED  BY <1>1, <1>2

\* A table whose bound is raised still fits.
LEMMA TableFitsOn ==
    ASSUME NEW t, NEW n \in Nat, NEW m \in Nat, n <= m, TableFits(t, n)
    PROVE  TableFits(t, m) /\ Preserves(t, t)
<1>1. t \in Seq(RowRecord)
    BY DEF TableFits
<1>2. \A i \in 1..Len(t) : t[i].filling \in Nat /\ t[i].filling <= n
    BY <1>1, RowsHaveFillings DEF TableFits
<1> QED  BY <1>1, <1>2 DEF TableFits, Preserves

\* The form is filled in, opened or closed.
LEMMA FillTyped ==
    ASSUME Typed, NEW f \in FormRecord, f.product <= Len(list), f.open => doomed = 0,
           Fill(f), UNCHANGED <<shop, list, doomed, request>>,
           filling' \in {filling, filling + 1}
    PROVE  Typed'
<1>1. lookup' \in BarcodeField
    BY DEF Fill, Relooked, Typed, BarcodeField, FormRecord
<1>2. filling \in Nat /\ filling' \in Nat /\ filling <= filling'
    BY DEF Typed
<1>3. TableFits(rows', filling') /\ Preserves(rows, rows')
    BY <1>2, TableFitsOn DEF Typed, shop
<1>4. rows \in Seq(RowRecord) /\ rows' = rows /\ request' = request
    BY DEF Typed, TableFits, shop
<1>5. ASSUME NEW s \in Slot PROVE Fits(s, request'[s], rows', filling')
    <2>1. request[s] \in RequestRecord /\ Fits(s, request[s], rows, filling)
        BY DEF Typed
    <2> QED  BY <1>2, <1>3, <1>4, <2>1, FitsOn
<1>6. FormFits(form', doomed', Len(list'))
    BY DEF Fill, FormFits, Typed
<1> QED  BY <1>1, <1>2, <1>3, <1>4, <1>5, <1>6 DEF Typed, shop

\* One request changes, the table grows at most, the page stays.
LEMMA ServerTyped ==
    ASSUME Typed, NEW s \in Slot, NEW r \in RequestRecord,
           request' = [request EXCEPT ![s] = r], Fits(s, r, rows', filling),
           TableFits(rows', filling), Preserves(rows, rows'),
           storeGone' \in BOOLEAN, UNCHANGED page
    PROVE  Typed'
<1>1. /\ filling' = filling /\ filling \in Nat
      /\ list' = list /\ form' = form /\ lookup' = lookup /\ doomed' = doomed
    BY DEF Typed, page
<1>2. /\ request' \in [Slot -> RequestRecord]
      /\ \A q \in Slot : Fits(q, request'[q], rows', filling')
    <2>1. /\ Fits(s, r, rows', filling') /\ TableFits(rows', filling')
          /\ filling' \in Nat /\ filling <= filling'
        BY <1>1
    <2> QED  BY <2>1, RequestStep
<1>3. Len(list) \in Nat /\ Len(rows) \in Nat /\ Len(rows') \in Nat /\ Len(rows) <= Len(rows')
      /\ Len(list) <= Len(rows)
    BY DEF Typed, TableFits, Preserves
<1> QED  BY <1>1, <1>2, <1>3 DEF Typed

\* The table changes without any request.
LEMMA TableTyped ==
    ASSUME Typed, TableFits(rows', filling), Preserves(rows, rows'),
           storeGone' \in BOOLEAN, UNCHANGED <<page, request>>
    PROVE  Typed'
<1>1. request["create"] \in RequestRecord /\ "create" \in Slot
      /\ request' = [request EXCEPT !["create"] = request["create"]]
      /\ Fits("create", request["create"], rows, filling)
    BY DEF Typed, Slot
<1>2. rows \in Seq(RowRecord) /\ rows' \in Seq(RowRecord) /\ filling \in Nat
    BY DEF Typed, TableFits
<1>3. Fits("create", request["create"], rows', filling)
    BY <1>1, <1>2, FitsOn
<1> QED  BY <1>1, <1>3, ServerTyped

\* The page changes a dialog or its list, and nothing else.
LEMMA PageTyped ==
    ASSUME Typed, list' \in {list, rows}, doomed' \in Nat, doomed' <= Len(list'),
           form.open => doomed' = 0, Len(list) <= Len(list'),
           UNCHANGED <<shop, form, lookup, filling, request>>
    PROVE  Typed'
<1>1. /\ rows' = rows /\ storeGone' = storeGone /\ form' = form /\ lookup' = lookup
      /\ filling' = filling /\ request' = request
    BY DEF shop
<1>2. rows \in Seq(RowRecord) /\ list \in Seq(RowRecord)
    BY DEF Typed, TableFits
<1>3. Len(list') \in Nat /\ Len(list) \in Nat /\ list' \in Seq(RowRecord) /\ Len(list') <= Len(rows')
    BY <1>1, <1>2 DEF Typed
<1>4. FormFits(form', doomed', Len(list'))
    BY <1>1, <1>3 DEF Typed, FormFits, FormRecord
<1> QED  BY <1>1, <1>3, <1>4 DEF Typed

-----------------------------------------------------------------------------
(* The type invariant                                                      *)

\* The rows at the start fit, and no request has been sent.
LEMMA InitTyped == Init => Typed
<1> SUFFICES ASSUME Init PROVE Typed
    OBVIOUS
<1>1. Opening \in Seq(BarcodeField)
    BY FormAssumption DEF BarcodeField
<1>2. rows \in Seq(RowRecord) /\ Len(rows) = Len(Opening) /\ \A i \in 1..Len(rows) : rows[i].filling = 0
    <2> DEFINE n == Len(Opening)
    <2>1. n \in Nat /\ DOMAIN Opening = 1..n /\ \A i \in 1..n : Opening[i] \in BarcodeField
        BY <1>1
    <2>2. rows = [i \in 1..n |-> [barcode |-> Opening[i], archived |-> FALSE,
                                  filling |-> 0, lost |-> FALSE]]
        BY <2>1 DEF Init
    <2> HIDE DEF n
    <2>3. rows \in [1..n -> RowRecord]
        BY <2>1, <2>2 DEF RowRecord, BarcodeField
    <2>4. rows \in Seq(RowRecord) /\ Len(rows) = n
        BY <2>1, <2>3
    <2> QED  BY <2>2, <2>4 DEF n
<1>3. TableFits(rows, filling) /\ filling = 0
    BY <1>2 DEF Init, TableFits
<1>4. request = [s \in Slot |-> Idle]
    BY DEF Init
<1>5. /\ request \in [Slot -> RequestRecord]
      /\ \A s \in Slot : Fits(s, request[s], rows, filling)
    BY <1>2, <1>3, <1>4, FitsIdle
<1>6. FormFits(form, doomed, Len(list))
    BY <1>2 DEF Init, FormFits, FormRecord, BarcodeField, NameField
<1>7. lookup \in BarcodeField /\ list = rows /\ storeGone = FALSE
    BY DEF Init, BarcodeField
<1>8. Len(list) <= Len(rows) /\ list \in Seq(RowRecord) /\ filling \in Nat
    BY <1>2, <1>3, <1>7
<1> QED  BY <1>3, <1>5, <1>6, <1>7, <1>8 DEF Typed

\* The steps of the page keep the types.
LEMMA PageStepTyped ==
    ASSUME Typed, PageStep \/ FormStep \/ RemoveStep
    PROVE  Typed'
<1> USE DEF FormFits
<1>0. /\ rows \in Seq(RowRecord) /\ list \in Seq(RowRecord) /\ Len(list) \in Nat
      /\ Len(list) <= Len(rows) /\ form \in FormRecord /\ lookup \in BarcodeField
      /\ form.product <= Len(list) /\ (form.open => doomed = 0)
      /\ doomed \in Nat /\ doomed <= Len(list)
      /\ request \in [Slot -> RequestRecord] /\ filling \in Nat
    BY DEF Typed, TableFits
<1>1. CASE OpenCreate
    <2> DEFINE f == [open |-> TRUE, product |-> 0, barcode |-> NoBarcode, name |-> NoName]
    <2>1. f \in FormRecord /\ f.product <= Len(list) /\ doomed = 0 /\ Fill(f)
        BY <1>0, <1>1 DEF OpenCreate, FormRecord, BarcodeField, NameField
    <2> HIDE DEF f
    <2>2. UNCHANGED <<shop, list, doomed, request>> /\ filling' \in {filling, filling + 1}
        BY <1>1 DEF OpenCreate
    <2>3. f.open => doomed = 0
        BY <2>1
    <2> QED  BY <2>1, <2>2, <2>3, FillTyped
<1>2. CASE Refetch
    <2>1. list' = rows /\ UNCHANGED <<shop, form, lookup, doomed, filling, request>>
        BY <1>2 DEF Refetch
    <2>2. Len(list) <= Len(list') /\ doomed <= Len(list') /\ doomed \in Nat
        BY <1>0, <2>1
    <2> QED  BY <1>0, <2>1, <2>2, PageTyped
<1>3. ASSUME NEW id \in DOMAIN list, OpenEdit(id) PROVE Typed'
    <2> DEFINE f == [open |-> TRUE, product |-> id, barcode |-> list[id].barcode, name |-> TypedName]
    <2>1. id \in 1..Len(list) /\ list[id] \in RowRecord
        BY <1>0
    <2>2. f \in FormRecord /\ f.product <= Len(list)
        BY <1>0, <2>1 DEF FormRecord, RowRecord, BarcodeField, NameField
    <2> QED  BY <1>3, <2>2, FillTyped DEF OpenEdit
<1>4. ASSUME NEW id \in DOMAIN list, OpenRemove(id) PROVE Typed'
    <2>1. id \in 1..Len(list)
        BY <1>0
    <2>2. doomed' \in Nat /\ doomed' <= Len(list') /\ ~form.open /\ list' = list
        BY <1>0, <1>4, <2>1 DEF OpenRemove
    <2> QED  BY <1>0, <1>4, <2>2, PageTyped DEF OpenRemove
<1>5. CASE CloseRemove
    BY <1>0, <1>5, PageTyped DEF CloseRemove
<1>6. ASSUME NEW f \in FormRecord, Type(f), f.product = form.product
      PROVE  Typed'
    <2>1. form.open /\ Fill(f) /\ UNCHANGED <<shop, list, doomed, filling, request>>
        BY <1>6 DEF Type
    <2>2. doomed = 0
        BY <1>0, <2>1
    <2>3. f.product <= Len(list)
        <3>1. form.product <= Len(list)
            BY <1>0
        <3> QED  BY <1>6, <3>1
    <2> QED  BY <2>1, <2>2, <2>3, FillTyped
<1>7. ASSUME NEW b \in BarcodeField, TypeBarcode(b) PROVE Typed'
    <2>1. form.open /\ [form EXCEPT !.barcode = b] \in FormRecord
        BY <1>0, <1>7 DEF TypeBarcode, Type, FormRecord
    <2>2. [form EXCEPT !.barcode = b].product = form.product
        BY <1>0 DEF FormRecord
    <2> QED  BY <1>6, <1>7, <2>1, <2>2 DEF TypeBarcode
<1>8. ASSUME NEW n \in NameField, TypeName(n) PROVE Typed'
    <2>1. form.open /\ [form EXCEPT !.name = n] \in FormRecord
        BY <1>0, <1>8 DEF TypeName, Type, FormRecord
    <2>2. [form EXCEPT !.name = n].product = form.product
        BY <1>0 DEF FormRecord
    <2> QED  BY <1>6, <1>8, <2>1, <2>2 DEF TypeName
<1>9. CASE CloseForm
    <2>1. form.open /\ [form EXCEPT !.open = FALSE] \in FormRecord
        BY <1>0, <1>9 DEF CloseForm, Type, FormRecord
    <2>2. [form EXCEPT !.open = FALSE].product = form.product
        BY <1>0 DEF FormRecord
    <2> QED  BY <1>6, <1>9, <2>1, <2>2 DEF CloseForm
<1>10. ASSUME NEW hit \in BOOLEAN, AnswerLookup(hit) PROVE Typed'
    <2>1. form' \in FormRecord /\ form'.product = form.product /\ form'.open = form.open
        BY <1>0, <1>10 DEF AnswerLookup, FormRecord, NameField, BarcodeField
    <2>2. lookup' \in BarcodeField
        BY <1>10 DEF AnswerLookup, BarcodeField
    <2>3. UNCHANGED <<shop, list, doomed, filling, request>>
        BY <1>10 DEF AnswerLookup
    <2> QED  BY <2>1, <2>2, <2>3 DEF Typed, shop
<1>11. ASSUME NEW e \in Shape, Submit(e) PROVE Typed'
    <2> DEFINE n == IF Mutation = "create" THEN filling ELSE 0
               r == Sent(form.product, form.barcode, Body(e), n)
    <2>1. Mutation \in Slot /\ request' = [request EXCEPT ![Mutation] = r]
        BY <1>11 DEF Submit, Mutation, Slot
    <2>2. r \in RequestRecord /\ r.id = form.product /\ r.filling = n /\ r.status = "sent"
        <3>1. /\ form.product \in Nat /\ form.barcode \in BarcodeField
              /\ Body(e) \in Bodies /\ n \in Nat
            BY <1>0 DEF FormRecord, Bodies
        <3> QED  BY <3>1, SentTyped
    <2>3. Fits(Mutation, r, rows, filling)
        <3>1. form.product <= Len(rows) /\ n <= filling /\ form.product \in Nat
            <4>1. form.product \in Nat /\ Len(rows) \in Nat
                BY <1>0 DEF FormRecord
            <4> QED  BY <1>0, <4>1
        <3> HIDE DEF r
        <3> QED  BY <2>2, <3>1 DEF Fits, HasRead, Mutation
    <2>4. UNCHANGED <<shop, page>>
        BY <1>11 DEF Submit
    <2> HIDE DEF r
    <2>5. TableFits(rows, filling) /\ Preserves(rows, rows) /\ storeGone \in BOOLEAN
        BY <1>0, TableFitsOn DEF Typed
    <2>6. rows' = rows /\ storeGone' = storeGone
        BY <2>4 DEF shop
    <2> QED  BY <2>1, <2>2, <2>3, <2>4, <2>5, <2>6, ServerTyped
<1>12. CASE ConfirmRemove
    <2> DEFINE r == Sent(doomed, NoBarcode, <<>>, 0)
    <2>1. "remove" \in Slot /\ request' = [request EXCEPT !["remove"] = r]
        BY <1>12 DEF ConfirmRemove, Slot
    <2>2. r \in RequestRecord /\ r.id = doomed /\ r.filling = 0 /\ r.status = "sent"
        <3>1. NoBarcode \in BarcodeField /\ <<>> \in Bodies /\ doomed \in Nat
            BY <1>0 DEF Bodies, BarcodeField
        <3> QED  BY <3>1, SentTyped
    <2>3. Fits("remove", r, rows, filling)
        BY <1>0, <2>2 DEF Fits, HasRead
    <2>4. UNCHANGED <<shop, page>>
        BY <1>12 DEF ConfirmRemove
    <2> HIDE DEF r
    <2>5. TableFits(rows, filling) /\ Preserves(rows, rows) /\ storeGone \in BOOLEAN
        BY <1>0, TableFitsOn DEF Typed
    <2>6. rows' = rows /\ storeGone' = storeGone
        BY <2>4 DEF shop
    <2> QED  BY <2>1, <2>2, <2>3, <2>4, <2>5, <2>6, ServerTyped
<1> QED
    BY <1>1, <1>2, <1>3, <1>4, <1>5, <1>7, <1>8, <1>9, <1>10, <1>11, <1>12
    DEF PageStep, FormStep, RemoveStep, BarcodeField, NameField

\* What the proofs below use of the types.
LEMMA TypedFacts ==
    ASSUME Typed
    PROVE  /\ rows \in Seq(RowRecord) /\ filling \in Nat /\ storeGone \in BOOLEAN
           /\ TableFits(rows, filling) /\ Preserves(rows, rows)
           /\ request \in [Slot -> RequestRecord]
           /\ \A s \in Slot : request[s] \in RequestRecord /\ Fits(s, request[s], rows, filling)
<1>1. rows \in Seq(RowRecord) /\ filling \in Nat
    BY DEF Typed, TableFits
<1>2. Preserves(rows, rows)
    BY <1>1, TableFitsOn DEF Typed
<1> QED  BY <1>1, <1>2 DEF Typed

\* Changing fields of one row other than its filling keeps the table.
LEMMA RowChanges ==
    ASSUME NEW t \in Seq(RowRecord), NEW n \in Nat, TableFits(t, n),
           NEW i \in 1..Len(t), NEW r \in RowRecord, r.filling = t[i].filling
    PROVE  TableFits([t EXCEPT ![i] = r], n) /\ Preserves(t, [t EXCEPT ![i] = r])
<1> DEFINE u == [t EXCEPT ![i] = r]
<1>1. u \in Seq(RowRecord) /\ Len(u) = Len(t) /\ Len(t) \in Nat
    OBVIOUS
<1>2. \A j \in 1..Len(t) : u[j] = IF j = i THEN r ELSE t[j]
    OBVIOUS
<1> HIDE DEF u
<1>3. \A j \in 1..Len(t) : u[j].filling = t[j].filling
    BY <1>2
<1>4. TableFits(u, n)
    BY <1>1, <1>3 DEF TableFits
<1>5. Preserves(t, u)
    BY <1>1, <1>3 DEF Preserves
<1> QED  BY <1>4, <1>5 DEF u

\* A row that is added belongs to a filling of the form there has been.
LEMMA RowAdded ==
    ASSUME NEW t \in Seq(RowRecord), NEW n \in Nat, TableFits(t, n),
           NEW r \in RowRecord, r.filling <= n
    PROVE  /\ TableFits(Append(t, r), n) /\ Preserves(t, Append(t, r))
           /\ Len(Append(t, r)) = Len(t) + 1
<1> DEFINE u == Append(t, r)
<1>1. u \in Seq(RowRecord) /\ Len(u) = Len(t) + 1 /\ Len(t) \in Nat
    OBVIOUS
<1>2. (\A j \in 1..Len(t) : u[j] = t[j]) /\ u[Len(t) + 1] = r
    OBVIOUS
<1> HIDE DEF u
<1>3. \A j \in 1..Len(u) : j \in 1..Len(t) \/ j = Len(t) + 1
    BY <1>1
<1>4. TableFits(u, n)
    BY <1>1, <1>2, <1>3 DEF TableFits
<1>5. Preserves(t, u)
    BY <1>1, <1>2 DEF Preserves
<1> QED  BY <1>1, <1>4, <1>5 DEF u

\* A handler that only changes its request's status.
LEMMA StatusTyped ==
    ASSUME Typed, NEW s \in Slot, NEW status \in Status \ {"read"}, Finish(s, status),
           status = "checked" =>
               IsSave(s) /\ (request[s].id # 0 => request[s].status = "read"),
           TableFits(rows', filling), Preserves(rows, rows'),
           storeGone' \in BOOLEAN, UNCHANGED page
    PROVE  Typed'
<1> DEFINE r == [request[s] EXCEPT !.status = status]
<1>1. request' = [request EXCEPT ![s] = r]
    BY TypedFacts DEF Finish
<1>2. r \in RequestRecord /\ Fits(s, r, rows, filling)
    BY TypedFacts, FitsUnchecked
<1> HIDE DEF r
<1>3. rows' \in Seq(RowRecord)
    BY DEF TableFits
<1>4. Fits(s, r, rows', filling)
    BY <1>2, <1>3, TypedFacts, FitsOn
<1> QED  BY <1>1, <1>2, <1>4, ServerTyped

\* The row a till or a form creates, and the one an edit saves.
LEMMA SavedRows ==
    ASSUME Typed, NEW s \in Slot, request[s].status = "checked"
    PROVE  LET r == request[s]
               saved == IF r.id = 0 THEN Created(r) ELSE Updated(r)
           IN  TableFits(saved, filling) /\ Preserves(rows, saved)
<1> DEFINE r == request[s]
<1>1. /\ r \in RequestRecord /\ r.id \in Nat /\ r.filling \in Nat /\ r.barcode \in BarcodeField
      /\ r.seen \in Seq(RowRecord)
    BY TypedFacts DEF RequestRecord
<1>2. Fits(s, r, rows, filling)
    BY TypedFacts
<1>3. CASE r.id = 0
    <2>1. Row(r) \in RowRecord /\ Row(r).filling = r.filling
        BY <1>1 DEF Row, RowRecord, BarcodeField
    <2>2. Row(r).filling <= filling
        BY <1>2, <2>1 DEF Fits
    <2>3. TableFits(Append(rows, Row(r)), filling) /\ Preserves(rows, Append(rows, Row(r)))
        BY <2>1, <2>2, TypedFacts, RowAdded
    <2> QED  BY <1>3, <2>3, TypedFacts DEF Created
<1>4. CASE r.id # 0
    <2> DEFINE new == [r.seen[r.id] EXCEPT !.barcode = r.barcode]
    <2>1. /\ r.id \in 1..Len(r.seen) /\ Len(r.seen) <= Len(rows)
          /\ rows[r.id].filling = r.seen[r.id].filling
        BY <1>1, <1>2, <1>4 DEF Fits, HasRead, Preserves
    <2>2. r.seen[r.id] \in RowRecord
        BY <1>1, <2>1
    <2>3. new \in RowRecord /\ new.filling = r.seen[r.id].filling
        BY <1>1, <2>2 DEF RowRecord, BarcodeField
    <2>4. r.id \in 1..Len(rows)
        BY <1>1, <2>1, TypedFacts
    <2> HIDE DEF new, r
    <2>5. new.filling = rows[r.id].filling
        BY <2>1, <2>3
    <2>6. TableFits([rows EXCEPT ![r.id] = new], filling)
          /\ Preserves(rows, [rows EXCEPT ![r.id] = new])
        BY <2>3, <2>4, <2>5, TypedFacts, RowChanges
    <2> QED  BY <1>4, <2>6 DEF Updated, new, r
<1> QED  BY <1>3, <1>4

\* An edit has read its row: it carries the rows there are.
LEMMA ReadRowTyped ==
    ASSUME Typed, ReadRow
    PROVE  Typed'
<1> DEFINE u == request["update"]
<1>1. /\ UNCHANGED <<shop, page, moves>> /\ "update" \in Slot /\ IsSave("update")
      /\ u \in RequestRecord /\ Fits("update", u, rows, filling)
    BY TypedFacts DEF ReadRow, Slot, IsSave
<1>2. /\ rows' = rows /\ storeGone' = storeGone
      /\ TableFits(rows', filling) /\ Preserves(rows, rows') /\ storeGone' \in BOOLEAN
    BY <1>1, TypedFacts DEF shop
<1>3. CASE Finish("update", "refused")
    BY <1>1, <1>2, <1>3, StatusTyped DEF Status
<1>4. CASE request' = [request EXCEPT !["update"].status = "read", !["update"].seen = rows]
    <2> DEFINE r == [u EXCEPT !.status = "read", !.seen = rows]
    <2>1. request' = [request EXCEPT !["update"] = r]
        BY <1>1, <1>4, TypedFacts
    <2>2. r \in RequestRecord
        BY <1>1, TypedFacts DEF RequestRecord, Status
    <2>3. r.id = u.id /\ r.filling = u.filling /\ r.seen = rows
        BY <1>1 DEF RequestRecord
    <2> HIDE DEF r, u
    <2>4. Fits("update", r, rows, filling)
        BY <1>1, <2>3, TypedFacts DEF Fits
    <2> QED  BY <1>1, <1>2, <2>1, <2>2, <2>4, ServerTyped
<1> QED  BY <1>3, <1>4 DEF ReadRow

\* A request was validated: it carries what it carried.
LEMMA ValidateTyped ==
    ASSUME Typed, NEW s \in Slot, Validate(s)
    PROVE  Typed'
<1>1. /\ UNCHANGED <<shop, page, moves>> /\ IsSave(s)
      /\ request[s].status = IF s = "update" THEN "read" ELSE "sent"
    BY DEF Validate
<1>2. /\ rows' = rows /\ storeGone' = storeGone
      /\ TableFits(rows', filling) /\ Preserves(rows, rows') /\ storeGone' \in BOOLEAN
    BY <1>1, TypedFacts DEF shop
<1>3. request[s].id # 0 => request[s].status = "read"
    BY <1>1, TypedFacts DEF Fits, IsSave
<1>4. PICK status \in {"checked", "refused"} : Finish(s, status)
    BY DEF Validate
<1> QED  BY <1>1, <1>2, <1>3, <1>4, StatusTyped DEF Status

\* Whether saved or refused by the index, the table fits.
LEMMA SaveTyped ==
    ASSUME Typed, NEW s \in Slot, Save(s)
    PROVE  Typed'
<1> DEFINE r == request[s]
           saved == IF r.id = 0 THEN Created(r) ELSE Updated(r)
<1>1. /\ UNCHANGED <<storeGone, page, moves>> /\ r.status = "checked"
      /\ \/ rows' = saved /\ Finish(s, "done")
         \/ UNCHANGED rows /\ Finish(s, "error")
    BY DEF Save
<1>2. TableFits(saved, filling) /\ Preserves(rows, saved)
    BY <1>1, SavedRows
<1> HIDE DEF r, saved
<1>3. TableFits(rows', filling) /\ Preserves(rows, rows') /\ storeGone' \in BOOLEAN
    BY <1>1, <1>2, TypedFacts
<1>4. PICK status \in {"done", "error"} : Finish(s, status)
    BY <1>1
<1> QED  BY <1>1, <1>3, <1>4, StatusTyped DEF Status

\* A row is archived, or marked as one whose answer was lost.
LEMMA ArchivedRow ==
    ASSUME Typed, NEW id \in DOMAIN rows, rows' = [rows EXCEPT ![id].archived = TRUE]
    PROVE  TableFits(rows', filling) /\ Preserves(rows, rows')
<1> DEFINE r == [rows[id] EXCEPT !.archived = TRUE]
<1>1. id \in 1..Len(rows) /\ rows[id] \in RowRecord /\ rows' = [rows EXCEPT ![id] = r]
    BY TypedFacts
<1>2. r \in RowRecord /\ r.filling = rows[id].filling
    BY <1>1 DEF RowRecord
<1> HIDE DEF r
<1>3. TableFits([rows EXCEPT ![id] = r], filling) /\ Preserves(rows, [rows EXCEPT ![id] = r])
    <2>1. rows \in Seq(RowRecord) /\ filling \in Nat /\ TableFits(rows, filling)
        BY TypedFacts
    <2>2. id \in 1..Len(rows)
        BY <1>1
    <2> QED  BY <1>2, <2>1, <2>2, RowChanges
<1> QED  BY ONLY <1>1, <1>3

\* The history of a lost answer changes no filling.
LEMMA LostRows ==
    ASSUME Typed, NEW n \in Nat,
           rows' = [i \in DOMAIN rows |->
                       IF rows[i].filling = n THEN [rows[i] EXCEPT !.lost = TRUE] ELSE rows[i]]
    PROVE  /\ TableFits(rows', filling) /\ Preserves(rows, rows') /\ Len(rows') = Len(rows)
           /\ \A i \in 1..Len(rows) :
                 /\ rows'[i].archived = rows[i].archived /\ rows'[i].barcode = rows[i].barcode
                 /\ rows'[i].lost = (rows[i].lost \/ rows[i].filling = n)
<1> DEFINE len == Len(rows)
<1>1. len \in Nat /\ DOMAIN rows = 1..len /\ \A i \in 1..len : rows[i] \in RowRecord
    BY TypedFacts
<1> HIDE DEF len
<1>2. ASSUME NEW i \in 1..len
      PROVE  /\ rows'[i] \in RowRecord /\ rows'[i].filling = rows[i].filling
             /\ rows'[i].archived = rows[i].archived /\ rows'[i].barcode = rows[i].barcode
             /\ rows'[i].lost = (rows[i].lost \/ rows[i].filling = n)
    <2>1. rows[i] \in RowRecord
             /\ rows'[i] = IF rows[i].filling = n THEN [rows[i] EXCEPT !.lost = TRUE] ELSE rows[i]
        BY <1>1
    <2>2. CASE rows[i].filling = n
        <3>1. rows'[i] = [rows[i] EXCEPT !.lost = TRUE]
            BY <2>1, <2>2
        <3> QED  BY <2>1, <2>2, <3>1 DEF RowRecord
    <2>3. CASE rows[i].filling # n
        BY <2>1, <2>3 DEF RowRecord
    <2> QED  BY <2>2, <2>3
<1>3. rows' \in [1..len -> RowRecord]
    BY <1>1, <1>2
<1>4. rows' \in Seq(RowRecord) /\ Len(rows') = len
    BY <1>1, <1>3
<1>5. TableFits(rows', filling)
    BY <1>2, <1>4, TypedFacts DEF TableFits, len
<1>6. Preserves(rows, rows')
    BY <1>1, <1>2, <1>4 DEF Preserves, len
<1> QED  BY <1>2, <1>4, <1>5, <1>6 DEF len

\* A request or an answer is lost.
LEMMA LoseTyped ==
    ASSUME Typed, NEW s \in Slot, Lose(s)
    PROVE  Typed'
<1>1. Finish(s, "lost") /\ UNCHANGED <<storeGone, page, moves>>
    BY DEF Lose
<1>2. request[s].filling \in Nat
    BY TypedFacts DEF RequestRecord
<1>3. TableFits(rows', filling) /\ Preserves(rows, rows')
    BY <1>2, TypedFacts, LostRows DEF Lose
<1> QED  BY <1>1, <1>3, TypedFacts, StatusTyped DEF Status

\* An answer closes, empties or leaves the form and the dialog.
LEMMA AnswerTyped ==
    ASSUME Typed, NEW s \in Slot, AnswerSuccess(s)
    PROVE  Typed'
<1>1. UNCHANGED <<shop, list, moves>> /\ request' = [request EXCEPT ![s] = Idle]
    BY DEF AnswerSuccess
<1>2. /\ form \in FormRecord /\ form.product <= Len(list) /\ doomed \in Nat /\ doomed <= Len(list)
      /\ (form.open => doomed = 0) /\ Len(list) \in Nat
      /\ lookup \in BarcodeField /\ filling \in Nat
    BY DEF Typed, FormFits
<1>3. /\ FormFits(form', doomed', Len(list)) /\ lookup' \in BarcodeField
      /\ filling' \in Nat /\ filling <= filling'
    <2>1. CASE s = "create" /\ Empty
        <3> DEFINE f == [form EXCEPT !.barcode = NoBarcode, !.name = NoName]
        <3>1. f \in FormRecord /\ f.product = form.product /\ f.open = form.open
            BY <1>2 DEF FormRecord, BarcodeField, NameField
        <3>2. Fill(f) /\ filling' = filling + 1 /\ doomed' = doomed
            BY <2>1 DEF Empty
        <3>3. f.barcode \in BarcodeField
            BY <3>1 DEF FormRecord
        <3> HIDE DEF f
        <3>4. form' = f /\ lookup' \in BarcodeField
            BY <1>2, <3>2, <3>3 DEF Fill, Relooked, BarcodeField
        <3>5. f.product <= Len(list)
            BY <1>2, <3>1 DEF FormRecord
        <3> QED  BY <1>2, <3>1, <3>2, <3>4, <3>5 DEF FormFits
    <2>2. CASE Fill([form EXCEPT !.open = FALSE]) /\ UNCHANGED <<filling, doomed>>
        <3> DEFINE f == [form EXCEPT !.open = FALSE]
        <3>1. f \in FormRecord /\ f.product = form.product /\ f.open = FALSE
            BY <1>2 DEF FormRecord
        <3>3. f.barcode \in BarcodeField
            BY <3>1 DEF FormRecord
        <3> HIDE DEF f
        <3>2. Fill(f) /\ filling' = filling /\ doomed' = doomed
            BY <2>2 DEF f
        <3>4. form' = f /\ lookup' \in BarcodeField
            BY <1>2, <3>2, <3>3 DEF Fill, Relooked, BarcodeField
        <3>5. f.product <= Len(list)
            BY <1>2, <3>1 DEF FormRecord
        <3> QED  BY <1>2, <3>1, <3>2, <3>4, <3>5 DEF FormFits
    <2>3. CASE doomed' = 0 /\ UNCHANGED <<form, lookup, filling>>
        BY <1>2, <2>3 DEF FormFits
    <2>4. CASE UNCHANGED <<form, lookup, filling, doomed>>
        BY <1>2, <2>4 DEF FormFits
    <2> QED  BY <2>1, <2>2, <2>3, <2>4 DEF AnswerSuccess, Slot
<1>4. rows' = rows /\ storeGone' = storeGone /\ list' = list
    BY <1>1 DEF shop
<1>5. TableFits(rows', filling') /\ Preserves(rows, rows')
    BY <1>2, <1>3, <1>4, TypedFacts, TableFitsOn
<1>6. Idle \in RequestRecord /\ Fits(s, Idle, rows', filling')
    BY <1>3, <1>4, TypedFacts, FitsIdle
<1>7. /\ request' \in [Slot -> RequestRecord]
      /\ \A q \in Slot : Fits(q, request'[q], rows', filling')
    BY <1>1, <1>3, <1>5, <1>6, RequestStep
<1> QED  BY <1>3, <1>4, <1>5, <1>7 DEF Typed

\* Every step of the system keeps the types.
LEMMA NextTyped == Typed /\ [Next]_vars => Typed'
<1> SUFFICES ASSUME Typed, [Next]_vars PROVE Typed'
    OBVIOUS
<1>0. /\ TableFits(rows, filling) /\ Preserves(rows, rows) /\ rows \in Seq(RowRecord)
      /\ storeGone \in BOOLEAN /\ filling \in Nat
    BY TypedFacts
<1>1. CASE PageStep \/ FormStep \/ RemoveStep
    BY <1>1, PageStepTyped
<1>2. ASSUME NEW b \in Barcode, QuickCreate(b) PROVE Typed'
    <2>1. PICK e \in Shape : request' = [request EXCEPT !["till"] = Sent(0, b, Body(e), 0)]
        BY <1>2 DEF QuickCreate
    <2> DEFINE r == Sent(0, b, Body(e), 0)
    <2>2. Body(e) \in Bodies /\ b \in BarcodeField
        BY DEF Bodies, BarcodeField
    <2>3. r \in RequestRecord /\ r.id = 0 /\ r.filling = 0 /\ r.status = "sent"
        BY <2>2, SentTyped
    <2> HIDE DEF r
    <2>4. UNCHANGED <<shop, page>> /\ request' = [request EXCEPT !["till"] = r]
        BY <1>2, <2>1 DEF QuickCreate, r
    <2>5. rows' = rows /\ storeGone' = storeGone /\ "till" \in Slot
        BY <2>4 DEF shop, Slot
    <2>6. Fits("till", r, rows', filling)
        BY <1>0, <2>3, <2>5 DEF Fits, HasRead
    <2> QED  BY <1>0, <2>3, <2>4, <2>5, <2>6, ServerTyped
<1>3. ASSUME NEW s \in Slot, AnswerError(s) PROVE Typed'
    <2>1. rows' = rows /\ storeGone' = storeGone /\ UNCHANGED page
          /\ request' = [request EXCEPT ![s] = Idle]
        BY <1>3 DEF AnswerError, shop
    <2>2. Idle \in RequestRecord /\ Fits(s, Idle, rows', filling)
        BY <1>0, <2>1, FitsIdle
    <2> QED  BY <1>0, <2>1, <2>2, ServerTyped
<1>4. CASE Remove
    <2> DEFINE id == request["remove"].id
    <2>1. UNCHANGED <<storeGone, page, moves>> /\ "remove" \in Slot
        BY <1>4 DEF Remove, Slot
    <2>2. CASE IsLive(id, rows) /\ rows' = [rows EXCEPT ![id].archived = TRUE] /\ Finish("remove", "done")
        <3>1. TableFits(rows', filling) /\ Preserves(rows, rows')
            BY <2>2, ArchivedRow DEF IsLive
        <3> QED  BY <1>0, <2>1, <2>2, <3>1, StatusTyped DEF Status
    <2>3. CASE UNCHANGED rows /\ Finish("remove", "refused")
        <3>1. TableFits(rows', filling) /\ Preserves(rows, rows')
            BY <1>0, <2>3
        <3> QED  BY <1>0, <2>1, <2>3, <3>1, StatusTyped DEF Status
    <2> QED  BY <1>4, <2>2, <2>3 DEF Remove
<1>5. CASE DeleteStore
    <2>1. rows' = rows /\ storeGone' \in BOOLEAN /\ UNCHANGED <<page, request>>
        BY <1>5 DEF DeleteStore
    <2>2. TableFits(rows', filling) /\ Preserves(rows, rows')
        BY <1>0, <2>1
    <2> QED  BY <2>1, <2>2, TableTyped
<1>6. ASSUME NEW id \in DOMAIN rows, ArchiveElsewhere(id) PROVE Typed'
    <2>1. rows' = [rows EXCEPT ![id].archived = TRUE] /\ UNCHANGED <<storeGone, page, request>>
        BY <1>6 DEF ArchiveElsewhere
    <2>2. TableFits(rows', filling) /\ Preserves(rows, rows')
        BY <2>1, ArchivedRow
    <2> QED  BY <1>0, <2>1, <2>2, TableTyped
<1>7. CASE UNCHANGED vars
    <2>1. rows' = rows /\ storeGone' = storeGone /\ UNCHANGED <<page, request>>
        BY <1>7 DEF vars, shop
    <2>2. TableFits(rows', filling) /\ Preserves(rows, rows')
        BY <1>0, <2>1
    <2> QED  BY <1>0, <2>1, <2>2, TableTyped
<1> QED
    BY <1>1, <1>2, <1>3, <1>4, <1>5, <1>6, <1>7,
       ReadRowTyped, ValidateTyped, SaveTyped, LoseTyped, AnswerTyped DEF Next

\* The types say what TypeOK says.
LEMMA TypedImpliesTypeOK == Typed => TypeOK
<1> SUFFICES ASSUME Typed PROVE TypeOK
    OBVIOUS
<1>1. /\ rows \in Seq(RowRecord) /\ list \in Seq(RowRecord) /\ Len(list) <= Len(rows)
      /\ Len(list) \in Nat /\ Len(rows) \in Nat
      /\ storeGone \in BOOLEAN /\ filling \in Nat
    BY DEF Typed, TableFits
<1>2. /\ form \in FormRecord /\ form.product <= Len(list) /\ doomed \in Nat /\ doomed <= Len(list)
      /\ (form.open => doomed = 0)
    BY DEF Typed, FormFits
<1>3. ASSUME NEW s \in Slot
      PROVE  request[s].status \in Status /\ request[s].id \in 0..Len(rows)
    <2>1. request[s] \in RequestRecord /\ Fits(s, request[s], rows, filling)
        BY TypedFacts
    <2>2. request[s].status \in Status /\ request[s].id \in Nat
        BY <2>1 DEF RequestRecord
    <2> QED  BY <1>1, <2>1, <2>2 DEF Fits
<1>4. form.product \in 0..Len(list) /\ doomed \in 0..Len(list)
    BY <1>1, <1>2 DEF FormRecord
<1> QED  BY <1>1, <1>2, <1>3, <1>4 DEF TypeOK, FormRecord, BarcodeField, NameField

\* In every reachable state the variables have their types, a request refers to a row
\* there is, and the form and the delete dialog are not open together.
THEOREM TypeCorrect == Spec => []TypeOK
<1>1. Spec => []Typed
    BY InitTyped, NextTyped, PTL DEF Spec
<1> QED  BY <1>1, TypedImpliesTypeOK, PTL

-----------------------------------------------------------------------------
(* Barcodes                                                                *)

\* BarcodesDistinct, of any table.
Distinct(t) ==
    \A i, j \in 1..Len(t) :
        i # j /\ ~t[i].archived /\ ~t[j].archived /\ t[i].barcode # NoBarcode
            => t[i].barcode # t[j].barcode

\* No other live row has the barcode.
Free(t, barcode, id) ==
    barcode # NoBarcode =>
        \A i \in 1..Len(t) : i # id /\ ~t[i].archived => t[i].barcode # barcode

\* BarcodesDistinct is Distinct of the rows.
LEMMA DistinctIsBarcodesDistinct ==
    ASSUME rows \in Seq(RowRecord)
    PROVE  Distinct(rows) <=> BarcodesDistinct
BY DEF Distinct, BarcodesDistinct, IsLive

\* What the index takes is free.
LEMMA IndexIsFree ==
    ASSUME rows \in Seq(RowRecord), NEW barcode, NEW id, IndexTakes(barcode, id)
    PROVE  Free(rows, barcode, id)
BY DEF IndexTakes, Free, IsLive

\* A row with a free barcode may replace another.
LEMMA DistinctReplaced ==
    ASSUME NEW t \in Seq(RowRecord), NEW id \in 1..Len(t), NEW r \in RowRecord,
           Distinct(t), Free(t, r.barcode, id)
    PROVE  Distinct([t EXCEPT ![id] = r])
<1> DEFINE u == [t EXCEPT ![id] = r]
<1>1. Len(u) = Len(t) /\ \A i \in 1..Len(t) : u[i] = IF i = id THEN r ELSE t[i]
    OBVIOUS
<1> HIDE DEF u
<1>2. Distinct(u)
    BY <1>1 DEF Distinct, Free
<1> QED  BY <1>2 DEF u

\* A row with a free barcode may be added.
LEMMA DistinctAdded ==
    ASSUME NEW t \in Seq(RowRecord), NEW r \in RowRecord, Distinct(t), Free(t, r.barcode, 0)
    PROVE  Distinct(Append(t, r))
<1> DEFINE u == Append(t, r)
           n == Len(t)
<1>1. n \in Nat /\ Len(u) = n + 1 /\ u[n + 1] = r /\ \A i \in 1..n : u[i] = t[i]
    OBVIOUS
<1> HIDE DEF u
<1>2. ASSUME NEW i \in 1..Len(u), NEW j \in 1..Len(u),
             i # j, ~u[i].archived, ~u[j].archived, u[i].barcode # NoBarcode
      PROVE  u[i].barcode # u[j].barcode
    <2>1. (i \in 1..n \/ i = n + 1) /\ (j \in 1..n \/ j = n + 1) /\ \A k \in 1..n : k # 0
        BY <1>1
    <2> HIDE DEF n
    <2>2. CASE i \in 1..n /\ j \in 1..n
        BY <1>1, <1>2, <2>2 DEF Distinct, n
    <2>3. CASE i = n + 1 /\ j \in 1..n
        BY <1>1, <1>2, <2>1, <2>3 DEF Free, n
    <2>4. CASE i \in 1..n /\ j = n + 1
        BY <1>1, <1>2, <2>1, <2>4 DEF Free, n
    <2> QED  BY <1>2, <2>1, <2>2, <2>3, <2>4
<1>3. Distinct(u)
    BY <1>2 DEF Distinct
<1> QED  BY <1>3 DEF u

\* Archiving a row takes a barcode away.
LEMMA DistinctArchived ==
    ASSUME Typed, Distinct(rows), NEW id \in DOMAIN rows,
           rows' = [rows EXCEPT ![id].archived = TRUE]
    PROVE  Distinct(rows')
<1> DEFINE r == [rows[id] EXCEPT !.archived = TRUE]
<1>1. id \in 1..Len(rows) /\ rows[id] \in RowRecord /\ rows' = [rows EXCEPT ![id] = r]
    BY TypedFacts
<1>2. r \in RowRecord /\ r.archived
    BY <1>1 DEF RowRecord
<1> HIDE DEF r
<1>3. Len(rows') = Len(rows) /\ \A i \in 1..Len(rows) : rows'[i] = IF i = id THEN r ELSE rows[i]
    BY ONLY <1>1, TypedFacts, Typed
<1> QED  BY <1>2, <1>3 DEF Distinct

\* Every step keeps the barcodes distinct: only a save writes one, under the index.
LEMMA NextDistinct == Typed /\ Distinct(rows) /\ [Next]_vars => Distinct(rows')
<1> SUFFICES ASSUME Typed, Distinct(rows), [Next]_vars PROVE Distinct(rows')
    OBVIOUS
<1>0. rows \in Seq(RowRecord)
    BY TypedFacts
<1>1. CASE UNCHANGED rows
    BY <1>1
<1>2. ASSUME NEW s \in Slot, Save(s), rows' # rows PROVE Distinct(rows')
    <2> DEFINE r == request[s]
    <2>1. /\ IndexTakes(r.barcode, r.id) /\ r.status = "checked"
          /\ rows' = IF r.id = 0 THEN Created(r) ELSE Updated(r)
        BY <1>2 DEF Save
    <2>2. /\ r \in RequestRecord /\ Fits(s, r, rows, filling) /\ r.id \in Nat
          /\ r.barcode \in BarcodeField /\ r.seen \in Seq(RowRecord) /\ r.filling \in Nat
        BY TypedFacts DEF RequestRecord
    <2>3. Free(rows, r.barcode, r.id)
        BY <1>0, <2>1, IndexIsFree
    <2>4. CASE r.id = 0
        <3>1. rows' = Append(rows, Row(r))
            BY <1>2, <2>1, <2>4 DEF Created
        <3>2. Row(r) \in RowRecord /\ Row(r).barcode = r.barcode
            BY <2>2 DEF Row, RowRecord, BarcodeField
        <3> QED  BY <1>0, <2>3, <2>4, <3>1, <3>2, DistinctAdded
    <2>5. CASE r.id # 0
        <3> DEFINE new == [r.seen[r.id] EXCEPT !.barcode = r.barcode]
        <3>1. r.id \in 1..Len(r.seen) /\ r.id \in 1..Len(rows)
            BY <1>0, <2>1, <2>2, <2>5 DEF Fits, HasRead, Preserves
        <3>2. r.seen[r.id] \in RowRecord
            BY <2>2, <3>1
        <3>3. new \in RowRecord /\ new.barcode = r.barcode
            BY <2>2, <3>2 DEF RowRecord, BarcodeField
        <3>4. rows' = [rows EXCEPT ![r.id] = new]
            BY <2>1, <2>5 DEF Updated
        <3> HIDE DEF new, r
        <3> QED  BY <1>0, <2>3, <3>1, <3>3, <3>4, DistinctReplaced
    <2> QED  BY <2>4, <2>5
<1>3. ASSUME NEW s \in Slot, Lose(s), rows' # rows PROVE Distinct(rows')
    <2>1. request[s].filling \in Nat
        BY TypedFacts DEF RequestRecord
    <2>2. rows' = [i \in DOMAIN rows |-> IF rows[i].filling = request[s].filling
                                         THEN [rows[i] EXCEPT !.lost = TRUE] ELSE rows[i]]
        BY <1>3 DEF Lose
    <2>3. /\ Len(rows') = Len(rows)
          /\ \A i \in 1..Len(rows) : /\ rows'[i].archived = rows[i].archived
                                      /\ rows'[i].barcode = rows[i].barcode
        BY <2>1, <2>2, LostRows
    <2> QED  BY <2>3 DEF Distinct
<1>4. CASE Remove
    BY <1>1, <1>4, DistinctArchived DEF Remove, IsLive
<1>5. ASSUME NEW id \in DOMAIN rows, ArchiveElsewhere(id) PROVE Distinct(rows')
    BY <1>5, DistinctArchived DEF ArchiveElsewhere
<1>6. CASE PageStep \/ FormStep \/ RemoveStep
    BY <1>1, <1>6 DEF PageStep, FormStep, RemoveStep, OpenCreate, Refetch, OpenEdit, OpenRemove,
                      TypeBarcode, TypeName, CloseForm, Type, AnswerLookup, Submit,
                      CloseRemove, ConfirmRemove, shop
<1>7. ASSUME NEW b \in Barcode, QuickCreate(b) PROVE Distinct(rows')
    BY <1>1, <1>7 DEF QuickCreate, shop
<1>8. ASSUME NEW s \in Slot, Validate(s) \/ AnswerSuccess(s) \/ AnswerError(s)
      PROVE  Distinct(rows')
    BY <1>1, <1>8 DEF Validate, AnswerSuccess, AnswerError, shop
<1>9. CASE ReadRow \/ DeleteStore \/ UNCHANGED vars
    BY <1>1, <1>9 DEF ReadRow, DeleteStore, vars, shop
<1> QED  BY <1>1, <1>2, <1>3, <1>4, <1>5, <1>6, <1>7, <1>8, <1>9 DEF Next

\* Whoever creates, edits and archives products at the same time, no two products of the
\* catalogue that are not archived have the same barcode.
THEOREM BarcodesCorrect == Spec => []BarcodesDistinct
<1>1. Init => Distinct(rows)
    <2> SUFFICES ASSUME Init PROVE Distinct(rows)
        OBVIOUS
    <2>1. Opening \in Seq(BarcodeField) /\ rows \in Seq(RowRecord)
        BY FormAssumption, InitTyped, TypedFacts DEF BarcodeField
    <2>2. DOMAIN rows = DOMAIN Opening /\ DOMAIN rows = 1..Len(rows)
          /\ \A i \in DOMAIN rows : rows[i].barcode = Opening[i]
        BY <2>1 DEF Init
    <2> QED  BY <2>2, FormAssumption DEF Distinct
<1>2. Spec => [](Typed /\ Distinct(rows))
    <2>1. Typed /\ Distinct(rows) /\ [Next]_vars => Typed' /\ Distinct(rows)'
        BY NextTyped, NextDistinct
    <2> QED  BY <1>1, <2>1, InitTyped, PTL DEF Spec
<1>3. Typed /\ Distinct(rows) => BarcodesDistinct
    BY TypedFacts, DistinctIsBarcodesDistinct
<1> QED  BY <1>2, <1>3, PTL

-----------------------------------------------------------------------------
(* The lookup                                                              *)

\* A lookup under way is for the barcode in the open create form.
Looking ==
    lookup # NoBarcode => form.open /\ form.product = 0 /\ form.barcode = lookup

\* The name after a step is not another barcode's.
NameStep ==
    form'.name # form.name /\ form'.name \in Barcode =>
        form'.open /\ form'.product = 0 /\ form'.barcode = form'.name

\* Filling in the form starts a lookup again, or leaves one that still applies.
LEMMA FillLooks ==
    ASSUME Looking, NEW f \in FormRecord, form \in FormRecord, Fill(f),
           f.name \in {form.name, NoName, TypedName}
    PROVE  Looking' /\ NameStep
<1>1. Looking'
    <2>1. CASE LookupKey(f) = LookupKey(form)
        <3>1. f.open = form.open /\ ((f.product = 0) <=> (form.product = 0)) /\ f.barcode = form.barcode
            BY <2>1 DEF LookupKey, FormRecord
        <3>2. form' = f /\ lookup' = lookup
            BY <2>1 DEF Fill, Relooked
        <3> QED  BY <3>1, <3>2 DEF Looking
    <2>2. CASE LookupKey(f) # LookupKey(form)
        BY <2>2 DEF Fill, Relooked, Looking
    <2> QED  BY <2>1, <2>2
<1>2. NameStep
    BY FormAssumption DEF NameStep, Fill
<1> QED  BY <1>1, <1>2

\* Every step leaves a lookup that applies, and fills in no other name.
LEMMA NextLooks == Typed /\ Looking /\ [Next]_vars => Looking' /\ NameStep
<1> SUFFICES ASSUME Typed, Looking, [Next]_vars PROVE Looking' /\ NameStep
    OBVIOUS
<1>0. form \in FormRecord /\ list \in Seq(RowRecord)
    BY DEF Typed, FormFits
<1>1. CASE UNCHANGED <<form, lookup>>
    BY <1>1 DEF Looking, NameStep
<1>2. CASE OpenCreate
    <2> DEFINE f == [open |-> TRUE, product |-> 0, barcode |-> NoBarcode, name |-> NoName]
    <2>1. f \in FormRecord /\ Fill(f) /\ f.name = NoName
        BY <1>2 DEF OpenCreate, FormRecord, BarcodeField, NameField
    <2> HIDE DEF f
    <2> QED  BY <1>0, <2>1, FillLooks
<1>3. ASSUME NEW id \in DOMAIN list, OpenEdit(id) PROVE Looking' /\ NameStep
    <2> DEFINE f == [open |-> TRUE, product |-> id, barcode |-> list[id].barcode, name |-> TypedName]
    <2>1. id \in Nat /\ list[id] \in RowRecord
        BY <1>0
    <2>2. f \in FormRecord /\ f.name = TypedName
        BY <2>1 DEF FormRecord, RowRecord, BarcodeField, NameField
    <2>3. Fill(f)
        BY <1>3 DEF OpenEdit
    <2> HIDE DEF f
    <2> QED  BY <1>0, <2>2, <2>3, FillLooks
<1>4. ASSUME NEW b \in BarcodeField, TypeBarcode(b) PROVE Looking' /\ NameStep
    <2> DEFINE f == [form EXCEPT !.barcode = b]
    <2>1. f \in FormRecord /\ f.name = form.name /\ Fill(f)
        BY <1>0, <1>4 DEF TypeBarcode, Type, FormRecord
    <2> HIDE DEF f
    <2> QED  BY <1>0, <2>1, FillLooks
<1>5. ASSUME NEW n \in {NoName, TypedName}, TypeName(n) PROVE Looking' /\ NameStep
    <2> DEFINE f == [form EXCEPT !.name = n]
    <2>1. f \in FormRecord /\ f.name = n /\ Fill(f)
        BY <1>0, <1>5 DEF TypeName, Type, FormRecord, NameField
    <2> HIDE DEF f
    <2> QED  BY <1>0, <2>1, FillLooks
<1>6. CASE CloseForm \/ Fill([form EXCEPT !.open = FALSE])
    <2> DEFINE f == [form EXCEPT !.open = FALSE]
    <2>1. f \in FormRecord /\ f.name = form.name /\ Fill(f)
        BY <1>0, <1>6 DEF CloseForm, Type, FormRecord
    <2> HIDE DEF f
    <2> QED  BY <1>0, <2>1, FillLooks
<1>7. CASE Empty
    <2> DEFINE f == [form EXCEPT !.barcode = NoBarcode, !.name = NoName]
    <2>1. f \in FormRecord /\ f.name = NoName /\ Fill(f)
        BY <1>0, <1>7 DEF Empty, FormRecord, BarcodeField, NameField
    <2> HIDE DEF f
    <2> QED  BY <1>0, <2>1, FillLooks
<1>8. ASSUME NEW hit \in BOOLEAN, AnswerLookup(hit) PROVE Looking' /\ NameStep
    <2>1. lookup' = NoBarcode /\ lookup # NoBarcode
          /\ form' \in {form, [form EXCEPT !.name = lookup]}
        BY <1>8 DEF AnswerLookup
    <2>2. form.open /\ form.product = 0 /\ form.barcode = lookup
        BY <2>1 DEF Looking
    <2>3. CASE form' = form
        BY <2>1, <2>3 DEF Looking, NameStep
    <2>4. CASE form' = [form EXCEPT !.name = lookup]
        <3>1. /\ form'.open = form.open /\ form'.product = form.product
              /\ form'.barcode = form.barcode /\ form'.name = lookup
            BY <1>0, <2>4 DEF FormRecord
        <3> QED  BY <2>1, <2>2, <3>1 DEF Looking, NameStep
    <2> QED  BY <2>1, <2>3, <2>4
<1>9. CASE PageStep \/ FormStep \/ RemoveStep
    <2>1. \/ OpenCreate \/ CloseForm
          \/ \E id \in DOMAIN list : OpenEdit(id)
          \/ \E b \in BarcodeField : TypeBarcode(b)
          \/ \E n \in {NoName, TypedName} : TypeName(n)
          \/ \E hit \in BOOLEAN : AnswerLookup(hit)
          \/ UNCHANGED <<form, lookup>>
        BY <1>9 DEF PageStep, FormStep, RemoveStep, BarcodeField, Refetch, OpenRemove, Submit,
                    CloseRemove, ConfirmRemove, page
    <2> QED  BY <1>1, <1>2, <1>3, <1>4, <1>5, <1>6, <1>8, <2>1
<1>10. ASSUME NEW s \in Slot, AnswerSuccess(s) PROVE Looking' /\ NameStep
    BY <1>1, <1>6, <1>7, <1>10 DEF AnswerSuccess, Slot
<1>11. CASE UNCHANGED page
    BY <1>1, <1>11 DEF page
<1>12. UNCHANGED page \/ PageStep \/ FormStep \/ RemoveStep \/ \E s \in Slot : AnswerSuccess(s)
    BY DEF Next, QuickCreate, ReadRow, Validate, Save, Lose, AnswerError, Remove, DeleteStore,
           ArchiveElsewhere, vars
<1> QED  BY <1>9, <1>10, <1>11, <1>12

\* A name that is filled in is the one of the barcode that is in the form then, and
\* only where a product is being created, whatever was typed or opened meanwhile.
THEOREM AutofillCorrect == Spec => AutofillFits
<1>1. Init => Looking
    BY DEF Init, Looking
<1>2. Spec => [](Typed /\ Looking)
    <2>1. Typed /\ Looking /\ [Next]_vars => Typed' /\ Looking'
        BY NextTyped, NextLooks
    <2> QED  BY <1>1, <2>1, InitTyped, PTL DEF Spec
<1>3. Typed /\ Looking /\ [Next]_vars => [NameStep]_vars
    BY NextLooks
<1>4. Spec => [][NameStep]_vars
    BY <1>2, <1>3, PTL DEF Spec
<1> QED  BY <1>4 DEF AutofillFits, NameStep
-----------------------------------------------------------------------------
(* A filled-in form creates once                                           *)

\* A request whose handler may still write.
UnderWay(r) == r.status \in {"sent", "read", "checked"}
Creating == form.open /\ form.product = 0

\* CreatedOnce, of any table.
Once(t) ==
    \A i, j \in 1..Len(t) :
        i < j /\ t[i].filling = t[j].filling /\ t[i].filling # 0 => t[i].lost

\* While a create is under way, what its filling made before is marked as lost.
SentOnce(t, c) ==
    UnderWay(c) /\ c.filling # 0 =>
        \A i \in 1..Len(t) : t[i].filling = c.filling => t[i].lost

\* While the create form is open, what its filling made is marked as lost, or is
\* what a create that is not answered made.
OpenOnce(t, c, creating, n) ==
    creating =>
        /\ n # 0
        /\ \A i \in 1..Len(t) :
              t[i].filling = n /\ ~t[i].lost => c.status = "done" /\ c.filling = n

\* An edit under way is of a row of an earlier filling than the open create form's.
EditsEarlier(t, u, creating, n) ==
    UnderWay(u) => u.id \in 1..Len(t) /\ (creating => t[u.id].filling # n)

\* An edit that read its row before the mark writes the row back without it: no row of
\* that filling was made later, and none will be.
EditsUnmarked(t, c, u) ==
    LET seen == u.seen[u.id]
    IN  HasRead(u) /\ ~seen.lost /\ seen.filling # 0 =>
            /\ UnderWay(c) => c.filling # seen.filling
            /\ \A j \in 1..Len(t) : u.id < j => t[j].filling # seen.filling

OnceOf(t, c, u, creating, n) ==
    /\ Once(t) /\ SentOnce(t, c) /\ OpenOnce(t, c, creating, n)
    /\ EditsEarlier(t, u, creating, n) /\ EditsUnmarked(t, c, u)

OnceInv == OnceOf(rows, request["create"], request["update"], Creating, filling)

\* Nothing is created or edited: rows are marked at most, requests go on or end, and the
\* create form stays, closes or is emptied.
LEMMA OnceKept ==
    ASSUME NEW t \in Seq(RowRecord), NEW w \in Seq(RowRecord), NEW n \in Nat, NEW m \in Nat,
           NEW c, NEW d, NEW u, NEW v, NEW was \in BOOLEAN, NEW is \in BOOLEAN,
           TableFits(t, n), OnceOf(t, c, u, was, n),
           Len(w) = Len(t),
           \A i \in 1..Len(t) : w[i].filling = t[i].filling /\ (t[i].lost => w[i].lost),
           UnderWay(d) => UnderWay(c) /\ d.filling = c.filling,
           UnderWay(v) => UnderWay(u) /\ v.id = u.id,
           HasRead(v) => HasRead(u) /\ v.seen = u.seen,
           is => \/ m = n + 1
                 \/ /\ was /\ m = n
                    /\ \/ c.status # "done" \/ (d.status = "done" /\ d.filling = c.filling)
                       \/ \A i \in 1..Len(w) : w[i].filling = c.filling => w[i].lost
    PROVE  OnceOf(w, d, v, is, m)
<1>1. \A i \in 1..Len(t) : t[i].filling \in Nat /\ t[i].filling <= n
    BY RowsHaveFillings DEF TableFits
<1>2. Once(w)
    BY DEF OnceOf, Once
<1>3. SentOnce(w, d)
    BY DEF OnceOf, SentOnce
<1>4. OpenOnce(w, d, is, m)
    <2>1. CASE m = n + 1
        BY <1>1, <2>1 DEF OpenOnce
    <2>2. CASE m # n + 1
        BY <2>2 DEF OnceOf, OpenOnce
    <2> QED  BY <2>1, <2>2
<1>5. EditsEarlier(w, v, is, m)
    <2> SUFFICES ASSUME UnderWay(v) PROVE v.id \in 1..Len(w) /\ (is => w[v.id].filling # m)
        BY DEF EditsEarlier
    <2>1. v.id = u.id /\ u.id \in 1..Len(t) /\ (was => t[u.id].filling # n)
        BY DEF OnceOf, EditsEarlier
    <2>2. w[v.id].filling = t[u.id].filling /\ t[u.id].filling \in Nat /\ t[u.id].filling <= n
        BY <1>1, <2>1
    <2>3. v.id \in 1..Len(w)
        BY <2>1
    <2>4. is => (m = n + 1 \/ (was /\ m = n))
        OBVIOUS
    <2> QED  BY <2>1, <2>2, <2>3, <2>4
<1>6. EditsUnmarked(w, d, v)
    <2> SUFFICES ASSUME HasRead(v) PROVE EditsUnmarked(w, d, v)
        BY DEF EditsUnmarked
    <2>1. HasRead(u) /\ v.seen = u.seen /\ v.id = u.id /\ EditsUnmarked(t, c, u)
        BY DEF OnceOf, HasRead, UnderWay
    <2> QED  BY <2>1 DEF EditsUnmarked
<1> QED  BY <1>2, <1>3, <1>4, <1>5, <1>6 DEF OnceOf

\* The create form is sent.
LEMMA OnceSent ==
    ASSUME NEW t \in Seq(RowRecord), NEW n \in Nat, NEW c, NEW d, NEW u,
           OnceOf(t, c, u, TRUE, n), c.status = "none",
           d.status = "sent", d.filling = n,
           HasRead(u) => u.seen[u.id].filling = t[u.id].filling
    PROVE  OnceOf(t, d, u, TRUE, n)
<1>1. \A i \in 1..Len(t) : t[i].filling = n => t[i].lost
    BY DEF OnceOf, OpenOnce
<1>2. Once(t) /\ SentOnce(t, d) /\ OpenOnce(t, d, TRUE, n) /\ EditsEarlier(t, u, TRUE, n)
    BY <1>1 DEF OnceOf, SentOnce, OpenOnce
<1>3. EditsUnmarked(t, d, u)
    <2> SUFFICES ASSUME HasRead(u) PROVE EditsUnmarked(t, d, u)
        BY DEF EditsUnmarked
    <2>1. u.seen[u.id].filling # n
        BY DEF OnceOf, EditsEarlier, UnderWay, HasRead
    <2> QED  BY <2>1 DEF EditsUnmarked, OnceOf
<1> QED  BY <1>2, <1>3 DEF OnceOf

\* A row is added: what the create under way makes, or a product of a till.
LEMMA OnceAdded ==
    ASSUME NEW t \in Seq(RowRecord), NEW n \in Nat, NEW c, NEW d, NEW u,
           NEW is \in BOOLEAN, NEW r \in RowRecord,
           OnceOf(t, c, u, is, n),
           \/ d = c /\ r.filling = 0
           \/ UnderWay(c) /\ d.status = "done" /\ d.filling = c.filling /\ r.filling = c.filling
    PROVE  OnceOf(Append(t, r), d, u, is, n)
<1> DEFINE w == Append(t, r)
           len == Len(t)
<1>1. /\ len \in Nat /\ Len(w) = len + 1 /\ w[len + 1] = r
      /\ \A i \in 1..len : w[i] = t[i]
    OBVIOUS
<1> HIDE DEF w
<1>2. \A i \in 1..Len(w) : i \in 1..len \/ (i = len + 1 /\ w[i] = r)
    BY <1>1
<1> HIDE DEF len
<1>3. Once(w)
    <2> SUFFICES ASSUME NEW i \in 1..Len(w), NEW j \in 1..Len(w), i < j,
                        w[i].filling = w[j].filling, w[i].filling # 0
                 PROVE  w[i].lost
        BY DEF Once
    <2>1. i \in 1..len
        BY <1>1, <1>2
    <2>2. CASE j \in 1..len
        BY <1>1, <2>1, <2>2 DEF OnceOf, Once, len
    <2>3. CASE j = len + 1
        BY <1>1, <2>1, <2>3 DEF OnceOf, SentOnce, len
    <2> QED  BY <1>2, <2>2, <2>3
<1>4. SentOnce(w, d)
    <2>1. CASE d = c /\ r.filling = 0
        BY <1>1, <1>2, <2>1 DEF OnceOf, SentOnce, len
    <2> QED  BY <2>1 DEF SentOnce, UnderWay
<1>5. OpenOnce(w, d, is, n)
    <2> SUFFICES ASSUME is, NEW i \in 1..Len(w), w[i].filling = n, ~w[i].lost
                 PROVE  d.status = "done" /\ d.filling = n
        BY DEF OnceOf, OpenOnce
    <2>1. CASE i \in 1..len
        <3>1. c.status = "done" /\ c.filling = n
            BY <1>1, <2>1 DEF OnceOf, OpenOnce, len
        <3> QED  BY <3>1 DEF UnderWay
    <2>2. CASE w[i] = r
        BY <2>2 DEF OnceOf, OpenOnce
    <2> QED  BY <1>2, <2>1, <2>2
<1>6. EditsEarlier(w, u, is, n)
    BY <1>1 DEF OnceOf, EditsEarlier, len
<1>7. EditsUnmarked(w, d, u)
    <2> DEFINE seen == u.seen[u.id]
    <2> SUFFICES ASSUME HasRead(u), ~seen.lost, seen.filling # 0
                 PROVE  /\ UnderWay(d) => d.filling # seen.filling
                        /\ \A j \in 1..Len(w) : u.id < j => w[j].filling # seen.filling
        BY DEF EditsUnmarked
    <2>1. /\ UnderWay(c) => c.filling # seen.filling
          /\ \A j \in 1..len : u.id < j => t[j].filling # seen.filling
        BY DEF OnceOf, EditsUnmarked, len
    <2>2. r.filling # seen.filling
        BY <2>1
    <2>3. UnderWay(d) => d = c
        BY DEF UnderWay
    <2> HIDE DEF seen
    <2> QED  BY <1>1, <1>2, <2>1, <2>2, <2>3
<1> QED  BY <1>3, <1>4, <1>5, <1>6, <1>7 DEF OnceOf, w

\* An edit is sent.
LEMMA OnceEditing ==
    ASSUME NEW t \in Seq(RowRecord), NEW n \in Nat, NEW c, NEW u, NEW v,
           OnceOf(t, c, u, FALSE, n), v.status = "sent", v.id \in 1..Len(t)
    PROVE  OnceOf(t, c, v, FALSE, n)
BY DEF OnceOf, OpenOnce, EditsEarlier, EditsUnmarked, HasRead

\* An edit reads its row.
LEMMA OnceRead ==
    ASSUME NEW t \in Seq(RowRecord), NEW n \in Nat, NEW c, NEW u, NEW v, NEW is \in BOOLEAN,
           OnceOf(t, c, u, is, n), UnderWay(u),
           v.status = "read", v.id = u.id, v.seen = t
    PROVE  OnceOf(t, c, v, is, n)
<1>1. u.id \in 1..Len(t) /\ EditsEarlier(t, v, is, n)
    BY DEF OnceOf, EditsEarlier, UnderWay
<1>2. EditsUnmarked(t, c, v)
    BY <1>1 DEF OnceOf, EditsUnmarked, SentOnce, Once
<1> QED  BY <1>1, <1>2 DEF OnceOf

\* An edit writes the row it read.
LEMMA OnceEdited ==
    ASSUME NEW t \in Seq(RowRecord), NEW n \in Nat, NEW c, NEW u, NEW v, NEW is \in BOOLEAN,
           NEW r \in RowRecord,
           OnceOf(t, c, u, is, n), HasRead(u), ~UnderWay(v),
           u.seen[u.id].filling = t[u.id].filling,
           r.filling = u.seen[u.id].filling, r.lost = u.seen[u.id].lost
    PROVE  OnceOf([t EXCEPT ![u.id] = r], c, v, is, n)
<1> DEFINE w == [t EXCEPT ![u.id] = r]
           id == u.id
<1>1. id \in 1..Len(t) /\ (is => t[id].filling # n)
    BY DEF OnceOf, EditsEarlier, UnderWay, HasRead
<1>2. /\ Len(w) = Len(t)
      /\ \A i \in 1..Len(t) : w[i] = IF i = id THEN r ELSE t[i]
    OBVIOUS
<1> HIDE DEF w
<1>3. \A i \in 1..Len(t) : w[i].filling = t[i].filling
    BY <1>2
<1>4. ~r.lost /\ r.filling # 0 =>
          /\ UnderWay(c) => c.filling # r.filling
          /\ \A j \in 1..Len(t) : id < j => t[j].filling # r.filling
    BY DEF OnceOf, EditsUnmarked
<1> HIDE DEF id
<1>5. Once(w)
    BY <1>1, <1>2, <1>3, <1>4 DEF OnceOf, Once
<1>6. SentOnce(w, c)
    BY <1>1, <1>2, <1>3, <1>4 DEF OnceOf, SentOnce
<1>7. OpenOnce(w, c, is, n)
    BY <1>1, <1>2, <1>3 DEF OnceOf, OpenOnce
<1>8. EditsEarlier(w, v, is, n) /\ EditsUnmarked(w, c, v)
    BY DEF EditsEarlier, EditsUnmarked, UnderWay, HasRead
<1> QED  BY <1>5, <1>6, <1>7, <1>8 DEF OnceOf, w

\* The requests of the two mutations are typed, and an edit's read row is of its filling.
LEMMA OnceFacts ==
    ASSUME Typed
    PROVE  /\ rows \in Seq(RowRecord) /\ filling \in Nat /\ TableFits(rows, filling)
           /\ request \in [Slot -> RequestRecord] /\ Creating \in BOOLEAN
           /\ HasRead(request["update"]) =>
                 request["update"].seen[request["update"].id].filling
                     = rows[request["update"].id].filling
           /\ "create" \in Slot /\ "update" \in Slot /\ "till" \in Slot /\ "remove" \in Slot
<1> DEFINE u == request["update"]
<1>1. u \in RequestRecord /\ Fits("update", u, rows, filling)
    BY TypedFacts DEF Slot
<1>2. u.id \in Nat /\ u.seen \in Seq(RowRecord)
    BY <1>1 DEF RequestRecord
<1>3. HasRead(u) => u.seen[u.id].filling = rows[u.id].filling
    BY <1>1, <1>2 DEF Fits, HasRead, Preserves
<1>4. Creating \in BOOLEAN
    BY DEF Typed, FormFits, FormRecord, Creating
<1> QED  BY <1>3, <1>4, TypedFacts DEF Slot

\* A step of one request other than a save, with the page as it was.
LEMMA OnceStep ==
    ASSUME Typed, OnceInv, NEW s \in Slot, NEW r \in RequestRecord,
           request' = [request EXCEPT ![s] = r],
           rows' \in Seq(RowRecord), Len(rows') = Len(rows),
           \A i \in 1..Len(rows) : /\ rows'[i].filling = rows[i].filling
                                   /\ rows[i].lost => rows'[i].lost,
           UNCHANGED page,
           UnderWay(r) => s \in {"till", "remove"},
           \/ s # "create" \/ request[s].status # "done"
           \/ \A i \in 1..Len(rows') : rows'[i].filling = request[s].filling => rows'[i].lost
    PROVE  OnceInv'
<1> DEFINE c == request["create"]
           d == request'["create"]
           u == request["update"]
           v == request'["update"]
<1>1. /\ d = IF s = "create" THEN r ELSE c
      /\ v = IF s = "update" THEN r ELSE u
    BY OnceFacts
<1>2. Creating' = Creating /\ filling' = filling
    BY DEF page, Creating
<1>3. OnceOf(rows, c, u, Creating, filling)
    BY DEF OnceInv
<1>4. UnderWay(d) => UnderWay(c) /\ d.filling = c.filling
    BY <1>1
<1>5. /\ UnderWay(v) => UnderWay(u) /\ v.id = u.id
      /\ HasRead(v) => HasRead(u) /\ v.seen = u.seen
    BY <1>1 DEF UnderWay, HasRead
<1>6. \/ c.status # "done" \/ (d.status = "done" /\ d.filling = c.filling)
      \/ \A i \in 1..Len(rows') : rows'[i].filling = c.filling => rows'[i].lost
    BY <1>1
<1> HIDE DEF c, d, u, v
<1>7. /\ rows \in Seq(RowRecord) /\ rows' \in Seq(RowRecord) /\ filling \in Nat
      /\ TableFits(rows, filling) /\ Creating \in BOOLEAN /\ Len(rows') = Len(rows)
      /\ \A i \in 1..Len(rows) : rows'[i].filling = rows[i].filling /\ (rows[i].lost => rows'[i].lost)
    BY OnceFacts
<1>8. Creating =>
          \/ filling = filling + 1
          \/ /\ Creating /\ filling = filling
             /\ \/ c.status # "done" \/ (d.status = "done" /\ d.filling = c.filling)
                \/ \A i \in 1..Len(rows') : rows'[i].filling = c.filling => rows'[i].lost
    BY <1>6
<1>9. UnderWay(v) => UnderWay(u) /\ v.id = u.id
    BY <1>5
<1>10. HasRead(v) => HasRead(u) /\ v.seen = u.seen
    BY <1>5
<1>11. OnceOf(rows', d, v, Creating, filling)
    BY ONLY <1>3, <1>4, <1>7, <1>8, <1>9, <1>10, OnceKept
<1> QED  BY <1>2, <1>11 DEF OnceInv, d, v

\* The page's form changes: the create form stays, is closed, or is emptied.
LEMMA OncePage ==
    ASSUME Typed, OnceInv, UNCHANGED rows, filling' \in {filling, filling + 1},
           \A s \in {"create", "update"} :
               request'[s] = request[s] \/ ~UnderWay(request'[s]),
           Creating' => \/ filling' = filling + 1
                        \/ /\ Creating /\ filling' = filling
                           /\ \/ request["create"].status # "done"
                              \/ request'["create"] = request["create"],
           Creating' \in BOOLEAN
    PROVE  OnceInv'
<1> DEFINE c == request["create"]
           d == request'["create"]
           u == request["update"]
           v == request'["update"]
<1>1. OnceOf(rows, c, u, Creating, filling)
    BY DEF OnceInv
<1>2. (d = c \/ ~UnderWay(d)) /\ (v = u \/ ~UnderWay(v))
    OBVIOUS
<1>3. UnderWay(d) => UnderWay(c) /\ d.filling = c.filling
    BY <1>2
<1>4. /\ UnderWay(v) => UnderWay(u) /\ v.id = u.id
      /\ HasRead(v) => HasRead(u) /\ v.seen = u.seen
    BY <1>2 DEF UnderWay, HasRead
<1>5. Creating' => \/ filling' = filling + 1
                   \/ /\ Creating /\ filling' = filling
                      /\ \/ c.status # "done" \/ (d.status = "done" /\ d.filling = c.filling)
                         \/ \A i \in 1..Len(rows) : rows[i].filling = c.filling => rows[i].lost
    OBVIOUS
<1> HIDE DEF c, d, u, v
<1>6. /\ rows \in Seq(RowRecord) /\ filling \in Nat /\ filling' \in Nat
      /\ TableFits(rows, filling) /\ Creating \in BOOLEAN /\ Creating' \in BOOLEAN
    BY OnceFacts
<1>7. OnceOf(rows, d, v, Creating', filling')
    BY ONLY <1>1, <1>3, <1>4, <1>5, <1>6, OnceKept
<1> QED  BY <1>7 DEF OnceInv, d, v

\* Sending the form: a create of a filling that has made nothing but what is lost, or an
\* edit while no create form is open.
LEMMA OnceSubmit ==
    ASSUME Typed, OnceInv, NEW e \in Shape, Submit(e)
    PROVE  OnceInv'
<1> DEFINE n == IF Mutation = "create" THEN filling ELSE 0
           r == Sent(form.product, form.barcode, Body(e), n)
           c == request["create"]
           u == request["update"]
<1>1. /\ request' = [request EXCEPT ![Mutation] = r] /\ UNCHANGED <<shop, page>> /\ form.open
      /\ request[Mutation].status = "none"
    BY DEF Submit
<1>2. rows' = rows /\ filling' = filling /\ Creating' = Creating
    BY <1>1 DEF shop, page, Creating
<1>3. OnceOf(rows, c, u, Creating, filling)
    BY DEF OnceInv
<1>4. r.status = "sent" /\ r.filling = n /\ r.id = form.product
    BY DEF Sent
<1>5. CASE form.product = 0
    <2>1. Mutation = "create" /\ Creating = TRUE /\ n = filling
        BY <1>1, <1>5 DEF Mutation, Creating
    <2>2. request'["create"] = r /\ request'["update"] = u /\ c.status = "none"
        BY <1>1, <2>1, OnceFacts
    <2>3. HasRead(u) => u.seen[u.id].filling = rows[u.id].filling
        BY OnceFacts
    <2> HIDE DEF r, c, u
    <2>4. OnceOf(rows, r, u, TRUE, filling)
        BY <1>3, <1>4, <2>1, <2>2, <2>3, OnceFacts, OnceSent
    <2> QED  BY <1>2, <2>1, <2>2, <2>4 DEF OnceInv
<1>6. CASE form.product # 0
    <2>1. Mutation = "update" /\ Creating = FALSE
        BY <1>6 DEF Mutation, Creating
    <2>2. request'["create"] = c /\ request'["update"] = r
        BY <1>1, <2>1, OnceFacts
    <2>3. r.id \in 1..Len(rows)
        <3>1. /\ form.product \in Nat /\ form.product <= Len(list) /\ Len(list) <= Len(rows)
              /\ list \in Seq(RowRecord) /\ rows \in Seq(RowRecord)
            BY DEF Typed, FormFits, FormRecord, TableFits
        <3>2. Len(list) \in Nat /\ Len(rows) \in Nat
            BY <3>1
        <3> HIDE DEF r
        <3> QED  BY <1>4, <1>6, <3>1, <3>2
    <2> HIDE DEF r, c, u
    <2>4. OnceOf(rows, c, r, FALSE, filling)
        BY <1>3, <1>4, <2>1, <2>3, OnceFacts, OnceEditing
    <2> QED  BY <1>2, <2>1, <2>2, <2>4 DEF OnceInv
<1> QED  BY <1>5, <1>6

\* An edit has read a row that is marked, or is the last of its filling.
LEMMA OnceReadRow ==
    ASSUME Typed, OnceInv, ReadRow
    PROVE  OnceInv'
<1> DEFINE c == request["create"]
           u == request["update"]
<1>1. /\ UNCHANGED <<shop, page, moves>> /\ u.status = "sent"
      /\ \/ Finish("update", "refused")
         \/ request' = [request EXCEPT !["update"].status = "read", !["update"].seen = rows]
    BY DEF ReadRow
<1>2. rows' = rows /\ filling' = filling /\ Creating' = Creating /\ UNCHANGED page
    BY <1>1 DEF shop, page, Creating
<1>3. OnceOf(rows, c, u, Creating, filling)
    BY DEF OnceInv
<1>4. u \in RequestRecord /\ Fits("update", u, rows, filling) /\ "update" \in Slot
    BY TypedFacts, OnceFacts
<1>5. CASE Finish("update", "refused")
    <2> DEFINE r == [u EXCEPT !.status = "refused"]
    <2>1. request' = [request EXCEPT !["update"] = r] /\ r \in RequestRecord /\ ~UnderWay(r)
        BY <1>4, <1>5, FitsUnchecked DEF Finish, Status, RequestRecord, UnderWay
    <2> HIDE DEF r
    <2> QED  BY <1>1, <1>2, <1>4, <2>1, OnceFacts, OnceStep
<1>6. CASE request' = [request EXCEPT !["update"].status = "read", !["update"].seen = rows]
    <2> DEFINE r == [u EXCEPT !.status = "read", !.seen = rows]
    <2>1. request' = [request EXCEPT !["update"] = r]
        BY <1>6, OnceFacts
    <2>2. r.status = "read" /\ r.seen = rows /\ r.id = u.id
        BY <1>4 DEF RequestRecord
    <2> HIDE DEF r, c, u
    <2>3. request'["create"] = c /\ request'["update"] = r /\ UnderWay(u)
        BY <1>1, <2>1, OnceFacts DEF UnderWay, c, u
    <2>4. OnceOf(rows, c, r, Creating, filling)
        BY <1>3, <2>2, <2>3, OnceFacts, OnceRead
    <2> QED  BY <1>2, <2>3, <2>4 DEF OnceInv
<1> QED  BY <1>1, <1>5, <1>6

\* A request was validated: what it may write is what it might have written before.
LEMMA OnceValidate ==
    ASSUME Typed, OnceInv, NEW s \in Slot, Validate(s)
    PROVE  OnceInv'
<1> DEFINE c == request["create"]
           d == request'["create"]
           u == request["update"]
           v == request'["update"]
<1>1. /\ UNCHANGED <<shop, page, moves>> /\ IsSave(s)
      /\ request[s].status = IF s = "update" THEN "read" ELSE "sent"
      /\ \E status \in {"checked", "refused"} : Finish(s, status)
    BY DEF Validate
<1>2. rows' = rows /\ filling' = filling /\ Creating' = Creating
    BY <1>1 DEF shop, page, Creating
<1>3. OnceOf(rows, c, u, Creating, filling)
    BY DEF OnceInv
<1>4. PICK status \in {"checked", "refused"} : Finish(s, status)
    BY <1>1
<1> DEFINE r == [request[s] EXCEPT !.status = status]
<1>5. /\ request' = [request EXCEPT ![s] = r] /\ r.status = status
      /\ r.id = request[s].id /\ r.filling = request[s].filling /\ r.seen = request[s].seen
    <2>1. request[s] \in RequestRecord
        BY TypedFacts
    <2> QED  BY <1>4, <2>1 DEF Finish, RequestRecord
<1> HIDE DEF r
<1>6. /\ d = IF s = "create" THEN r ELSE c
      /\ v = IF s = "update" THEN r ELSE u
    BY <1>5, OnceFacts
<1>7. UnderWay(d) => UnderWay(c) /\ d.filling = c.filling
    BY <1>1, <1>5, <1>6 DEF UnderWay
<1>8. UnderWay(v) => UnderWay(u) /\ v.id = u.id
    BY <1>1, <1>5, <1>6 DEF UnderWay
<1>9. HasRead(v) => HasRead(u) /\ v.seen = u.seen
    BY <1>1, <1>5, <1>6 DEF HasRead
<1>10. Creating =>
          \/ filling = filling + 1
          \/ /\ Creating /\ filling = filling
             /\ \/ c.status # "done" \/ (d.status = "done" /\ d.filling = c.filling)
                \/ \A i \in 1..Len(rows) : rows[i].filling = c.filling => rows[i].lost
    BY <1>1, <1>6
<1> HIDE DEF c, d, u, v
<1>11. /\ rows \in Seq(RowRecord) /\ filling \in Nat
       /\ TableFits(rows, filling) /\ Creating \in BOOLEAN /\ Len(rows) = Len(rows)
       /\ \A i \in 1..Len(rows) :
             rows[i].filling = rows[i].filling /\ (rows[i].lost => rows[i].lost)
    BY OnceFacts
<1>12. OnceOf(rows, d, v, Creating, filling)
    BY ONLY <1>3, <1>7, <1>8, <1>9, <1>11, <1>10, OnceKept
<1> QED  BY <1>2, <1>12 DEF OnceInv, d, v

\* A save that the index takes: a row of the filling under way, a row of a till, or the row
\* that an edit read; one that it does not take ends.
LEMMA OnceSave ==
    ASSUME Typed, OnceInv, NEW s \in Slot, Save(s)
    PROVE  OnceInv'
<1> DEFINE c == request["create"]
           u == request["update"]
           r == request[s]
           new == IF r.id = 0 THEN Row(r) ELSE [r.seen[r.id] EXCEPT !.barcode = r.barcode]
<1>1. /\ UNCHANGED page /\ r.status = "checked"
      /\ \/ /\ rows' = IF r.id = 0 THEN Created(r) ELSE Updated(r)
            /\ Finish(s, "done") /\ (r.id = 0 => rows' # rows)
         \/ UNCHANGED rows /\ Finish(s, "error")
    BY DEF Save
<1>2. filling' = filling /\ Creating' = Creating
    BY <1>1 DEF page, Creating
<1>3. OnceOf(rows, c, u, Creating, filling)
    BY DEF OnceInv
<1>4. /\ r \in RequestRecord /\ Fits(s, r, rows, filling)
      /\ r.id \in Nat /\ r.filling \in Nat /\ r.barcode \in BarcodeField /\ r.seen \in Seq(RowRecord)
    BY TypedFacts DEF RequestRecord
<1>5. CASE UNCHANGED rows /\ Finish(s, "error")
    <2> DEFINE d == [request[s] EXCEPT !.status = "error"]
    <2>1. request' = [request EXCEPT ![s] = d] /\ d \in RequestRecord /\ d.status = "error"
        BY <1>4, <1>5, FitsUnchecked DEF Finish, Status, RequestRecord
    <2>2. ~UnderWay(d)
        BY <2>1 DEF UnderWay
    <2>3. s # "create" \/ request[s].status # "done"
        BY <1>1
    <2> HIDE DEF d
    <2> QED  BY <1>1, <1>5, <2>1, <2>2, <2>3, OnceFacts, OnceStep
<1>6. ASSUME rows' = IF r.id = 0 THEN Created(r) ELSE Updated(r),
             Finish(s, "done"), r.id = 0 => rows' # rows
      PROVE  OnceInv'
    <2> DEFINE d == [request[s] EXCEPT !.status = "done"]
    <2>1. /\ request' = [request EXCEPT ![s] = d]
          /\ d.status = "done" /\ d.filling = r.filling
        BY <1>4, <1>6 DEF Finish, RequestRecord
    <2>2. ~UnderWay(d)
        BY <2>1 DEF UnderWay
    <2> HIDE DEF d
    <2>3. CASE s \in {"create", "till"}
        <3>1. rows' = Append(rows, Row(r))
            BY <1>4, <1>6, <2>3 DEF Fits, Created
        <3>2. Row(r) \in RowRecord /\ Row(r).filling = r.filling
            BY <1>4 DEF Row, RowRecord, BarcodeField
        <3>3. request'["update"] = u
            BY <2>1, <2>3, OnceFacts
        <3>4. \/ request'["create"] = c /\ r.filling = 0
              \/ /\ UnderWay(c) /\ request'["create"].status = "done"
                 /\ request'["create"].filling = c.filling /\ r.filling = c.filling
            BY <1>1, <1>4, <2>1, <2>3, OnceFacts DEF UnderWay, Fits
        <3> HIDE DEF r, c, u
        <3>5. OnceOf(Append(rows, Row(r)), request'["create"], u, Creating, filling)
            BY <1>3, <3>2, <3>4, OnceFacts, OnceAdded
        <3> QED  BY <1>2, <3>1, <3>3, <3>5 DEF OnceInv
    <2>4. CASE s = "update"
        <3>1. u.id \in 1..Len(rows) /\ u = r
            BY <1>1, <1>3, <2>4 DEF OnceOf, EditsEarlier, UnderWay
        <3>2. rows' = [rows EXCEPT ![u.id] = new]
            <4>1. r.id # 0 /\ r.id = u.id
                BY <3>1
            <4> QED  BY <1>6, <4>1 DEF Updated
        <3>3. u.seen[u.id] \in RowRecord /\ u.seen[u.id].filling = rows[u.id].filling
            <4>1. u.id \in 1..Len(u.seen) /\ u.id \in Nat /\ u.id # 0
                BY <1>1, <1>4, <3>1 DEF Fits, HasRead
            <4> QED  BY <1>1, <1>4, <3>1, <4>1, OnceFacts DEF HasRead
        <3>4. /\ new \in RowRecord /\ new.filling = u.seen[u.id].filling
              /\ new.lost = u.seen[u.id].lost
            <4>1. new = [u.seen[u.id] EXCEPT !.barcode = r.barcode]
                BY <3>1
            <4> HIDE DEF new
            <4> QED  BY <1>4, <3>3, <4>1 DEF RowRecord, BarcodeField
        <3>5. request'["create"] = c /\ request'["update"] = d
            BY <2>1, <2>4, OnceFacts
        <3>6. HasRead(u)
            <4>1. u.status = "checked" /\ u.id # 0
                BY <1>1, <3>1
            <4> QED  BY <4>1 DEF HasRead
        <3> HIDE DEF new, u, c, r
        <3>7. OnceOf([rows EXCEPT ![u.id] = new], c, d, Creating, filling)
            BY <1>3, <2>2, <3>3, <3>4, <3>6, OnceFacts, OnceEdited
        <3> QED  BY <1>2, <3>2, <3>5, <3>7 DEF OnceInv
    <2>5. s # "remove"
        BY <1>1, <1>4 DEF Fits, IsSave
    <2> QED  BY <2>3, <2>4, <2>5 DEF Slot
<1> QED  BY <1>1, <1>5, <1>6

\* Every step keeps what a filling may have made.
LEMMA NextOnce == Typed /\ OnceInv /\ [Next]_vars => OnceInv'
<1> SUFFICES ASSUME Typed, OnceInv, [Next]_vars PROVE OnceInv'
    OBVIOUS
<1>0. /\ rows \in Seq(RowRecord) /\ form \in FormRecord
      /\ \A s \in Slot : request[s] \in RequestRecord
    BY TypedFacts DEF Typed, FormFits
<1>1. CASE PageStep
    <2>1. OpenCreate => OnceInv'
        <3> SUFFICES ASSUME OpenCreate PROVE OnceInv'
            OBVIOUS
        <3>1. /\ rows' = rows /\ request' = request /\ filling' = filling + 1
              /\ form' = [open |-> TRUE, product |-> 0, barcode |-> NoBarcode, name |-> NoName]
            BY DEF OpenCreate, Fill, shop
        <3>2. Creating' \in BOOLEAN
            BY <3>1 DEF Creating
        <3> QED  BY <3>1, <3>2, OncePage
    <2>2. ASSUME NEW id \in DOMAIN list, OpenEdit(id) PROVE OnceInv'
        <3>1. /\ rows' = rows /\ request' = request /\ filling' = filling
              /\ form'.open = TRUE /\ form'.product = id
            BY <2>2 DEF OpenEdit, Fill, shop
        <3>2. Creating' = FALSE
            <4>1. list \in Seq(RowRecord)
                BY DEF Typed
            <4>2. id # 0
                BY <4>1
            <4> QED  BY <3>1, <4>2 DEF Creating
        <3> QED  BY <3>1, <3>2, OncePage
    <2>3. ASSUME NEW id \in DOMAIN list, OpenRemove(id) PROVE OnceInv'
        BY <2>3 DEF OpenRemove, OnceInv, Creating, shop
    <2>4. Refetch => OnceInv'
        BY DEF Refetch, OnceInv, Creating, shop
    <2> QED  BY <1>1, <2>1, <2>2, <2>3, <2>4 DEF PageStep
<1>2. ASSUME rows' = rows, request' = request, filling' = filling,
             form'.open \in {form.open, FALSE}, form'.product = form.product
      PROVE  OnceInv'
    <2>1. Creating' \in BOOLEAN /\ (Creating' => Creating)
        BY <1>0, <1>2 DEF Creating, FormRecord
    <2> QED  BY <1>2, <2>1, OncePage
<1>3. CASE FormStep
    <2>1. ASSUME NEW b \in BarcodeField, TypeBarcode(b) PROVE OnceInv'
        BY <1>0, <1>2, <2>1 DEF TypeBarcode, Type, Fill, shop, FormRecord
    <2>2. ASSUME NEW n \in {NoName, TypedName}, TypeName(n) PROVE OnceInv'
        BY <1>0, <1>2, <2>2 DEF TypeName, Type, Fill, shop, FormRecord
    <2>3. CloseForm => OnceInv'
        BY <1>0, <1>2 DEF CloseForm, Type, Fill, shop, FormRecord
    <2>4. ASSUME NEW hit \in BOOLEAN, AnswerLookup(hit) PROVE OnceInv'
        BY <1>0, <1>2, <2>4 DEF AnswerLookup, shop, FormRecord
    <2> QED  BY <1>3, <2>1, <2>2, <2>3, <2>4, OnceSubmit DEF FormStep, BarcodeField
<1>4. ASSUME NEW s \in Slot, NEW r \in RequestRecord,
             request' = [request EXCEPT ![s] = r], rows' = rows, UNCHANGED page,
             UnderWay(r) => s \in {"till", "remove"},
             s # "create" \/ request[s].status # "done"
      PROVE  OnceInv'
    BY <1>0, <1>4, OnceStep
<1>5. CASE RemoveStep
    <2>1. CloseRemove => OnceInv'
        BY DEF CloseRemove, OnceInv, Creating, shop
    <2>2. ConfirmRemove => OnceInv'
        <3> DEFINE r == Sent(doomed, NoBarcode, <<>>, 0)
        <3> SUFFICES ASSUME ConfirmRemove PROVE OnceInv'
            OBVIOUS
        <3>1. r \in RequestRecord
            BY SentTyped DEF Typed, FormFits, Bodies, BarcodeField
        <3>2. request' = [request EXCEPT !["remove"] = r] /\ rows' = rows /\ UNCHANGED page
            BY DEF ConfirmRemove, shop
        <3> HIDE DEF r
        <3> QED  BY <1>4, <3>1, <3>2, OnceFacts
    <2> QED  BY <1>5, <2>1, <2>2 DEF RemoveStep
<1>6. ASSUME NEW b \in Barcode, QuickCreate(b) PROVE OnceInv'
    <2>1. PICK e \in Shape : request' = [request EXCEPT !["till"] = Sent(0, b, Body(e), 0)]
        BY <1>6 DEF QuickCreate
    <2>2. Sent(0, b, Body(e), 0) \in RequestRecord
        BY SentTyped DEF Bodies, BarcodeField
    <2>3. rows' = rows /\ UNCHANGED page
        BY <1>6 DEF QuickCreate, shop
    <2> QED  BY <1>4, <2>1, <2>2, <2>3, OnceFacts
<1>7. ASSUME NEW s \in Slot, Lose(s) PROVE OnceInv'
    <2> DEFINE r == [request[s] EXCEPT !.status = "lost"]
               n == request[s].filling
    <2>1. /\ r \in RequestRecord /\ r.status = "lost" /\ n \in Nat
        <3>1. request[s] \in RequestRecord /\ "lost" \in Status
            BY <1>0 DEF Status
        <3> QED  BY <3>1 DEF RequestRecord
    <2>2. request' = [request EXCEPT ![s] = r] /\ UNCHANGED page
        BY <1>7, OnceFacts DEF Lose, Finish
    <2>3. ~UnderWay(r)
        BY <2>1 DEF UnderWay
    <2> HIDE DEF r
    <2>4. CASE request[s].status = "done" /\ s = "create"
        <3>1. rows' = [i \in DOMAIN rows |-> IF rows[i].filling = n
                                             THEN [rows[i] EXCEPT !.lost = TRUE] ELSE rows[i]]
            BY <1>7, <2>4 DEF Lose
        <3> HIDE DEF n
        <3>2. /\ TableFits(rows', filling) /\ Preserves(rows, rows') /\ Len(rows') = Len(rows)
              /\ \A i \in 1..Len(rows) : rows'[i].lost = (rows[i].lost \/ rows[i].filling = n)
            BY <2>1, <3>1, LostRows
        <3>3. rows' \in Seq(RowRecord) /\ \A i \in 1..Len(rows) : rows'[i].filling = rows[i].filling
            BY <3>2 DEF TableFits, Preserves
        <3>4. /\ \A i \in 1..Len(rows) : rows'[i].filling = rows[i].filling
                                         /\ (rows[i].lost => rows'[i].lost)
              /\ \A i \in 1..Len(rows') : rows'[i].filling = n => rows'[i].lost
            BY <3>2, <3>3
        <3> QED  BY <2>1, <2>2, <2>3, <3>2, <3>3, <3>4, OnceStep DEF n
    <2>5. CASE ~(request[s].status = "done" /\ s = "create")
        <3>1. rows' = rows
            BY <1>7, <2>5 DEF Lose
        <3> QED  BY <1>4, <2>1, <2>2, <2>3, <2>5, <3>1
    <2> QED  BY <2>4, <2>5
<1>8. ASSUME NEW s \in Slot, AnswerError(s) PROVE OnceInv'
    <2>1. /\ request' = [request EXCEPT ![s] = Idle] /\ rows' = rows /\ UNCHANGED page
          /\ request[s].status # "done"
        BY <1>8 DEF AnswerError, shop
    <2>2. Idle \in RequestRecord /\ ~UnderWay(Idle)
        BY <1>0, TypedFacts, FitsIdle DEF Idle, UnderWay
    <2> QED  BY <1>4, <2>1, <2>2
<1>9. ASSUME NEW s \in Slot, AnswerSuccess(s) PROVE OnceInv'
    <2>1. request' = [request EXCEPT ![s] = Idle] /\ rows' = rows
        BY <1>9 DEF AnswerSuccess, shop
    <2>2. ~UnderWay(Idle)
        BY DEF Idle, UnderWay
    <2>3. \A q \in {"create", "update"} : request'[q] = request[q] \/ ~UnderWay(request'[q])
        BY <2>1, <2>2, OnceFacts
    <2>4. CASE s = "create"
        <3>1. /\ filling' = filling + 1
              /\ form' = [form EXCEPT !.barcode = NoBarcode, !.name = NoName]
            BY <1>9, <2>4 DEF AnswerSuccess, Empty, Fill
        <3>2. Creating' \in BOOLEAN
            BY <1>0, <3>1 DEF Creating, FormRecord
        <3> QED  BY <2>1, <2>3, <3>1, <3>2, OncePage
    <2>5. CASE s # "create"
        <3>1. filling' = filling /\ form' \in {form, [form EXCEPT !.open = FALSE]}
            BY <1>9, <2>5 DEF AnswerSuccess, Fill, Slot
        <3>2. Creating' \in BOOLEAN /\ (Creating' => Creating)
            BY <1>0, <3>1 DEF Creating, FormRecord
        <3>3. request'["create"] = request["create"]
            BY <2>1, <2>5, OnceFacts
        <3> QED  BY <2>1, <2>3, <3>1, <3>2, <3>3, OncePage
    <2> QED  BY <2>4, <2>5
<1>10. ASSUME NEW id \in DOMAIN rows, rows' = [rows EXCEPT ![id].archived = TRUE], UNCHANGED page,
              NEW s \in Slot \ {"create"}, NEW r \in RequestRecord, ~UnderWay(r) \/ r = request[s],
              request' = [request EXCEPT ![s] = r], s \in {"remove", "till"}
       PROVE  OnceInv'
    <2> DEFINE row == [rows[id] EXCEPT !.archived = TRUE]
    <2>1. id \in 1..Len(rows) /\ rows[id] \in RowRecord /\ rows' = [rows EXCEPT ![id] = row]
        BY <1>0, <1>10
    <2>2. row.filling = rows[id].filling /\ row.lost = rows[id].lost /\ row \in RowRecord
        BY <2>1 DEF RowRecord
    <2> HIDE DEF row
    <2>3. /\ rows' \in Seq(RowRecord) /\ Len(rows') = Len(rows)
          /\ \A i \in 1..Len(rows) : rows'[i] = IF i = id THEN row ELSE rows[i]
        BY ONLY <1>0, <2>1, <2>2
    <2>4. \A i \in 1..Len(rows) : rows'[i].filling = rows[i].filling
                                  /\ (rows[i].lost => rows'[i].lost)
        BY <2>2, <2>3
    <2> QED  BY <1>10, <2>3, <2>4, OnceStep
<1>11. CASE Remove
    <2>1. PICK status \in {"done", "refused"} : Finish("remove", status)
        BY <1>11 DEF Remove
    <2> DEFINE q == [request["remove"] EXCEPT !.status = status]
    <2>2. /\ q \in RequestRecord /\ q.status = status /\ "remove" \in Slot
          /\ request' = [request EXCEPT !["remove"] = q]
        BY <1>0, <2>1, FitsUnchecked, OnceFacts DEF Finish, Status, RequestRecord
    <2>3. ~UnderWay(q) /\ UNCHANGED page
        BY <1>11, <2>2 DEF UnderWay, Remove
    <2> HIDE DEF q
    <2>4. CASE rows' = rows
        BY <1>4, <2>2, <2>3, <2>4
    <2>5. CASE \E id \in DOMAIN rows : rows' = [rows EXCEPT ![id].archived = TRUE]
        BY <1>10, <2>2, <2>3, <2>5
    <2> QED  BY <1>11, <2>4, <2>5 DEF Remove, IsLive
<1>12. ASSUME NEW id \in DOMAIN rows, ArchiveElsewhere(id) PROVE OnceInv'
    <2>1. /\ rows' = [rows EXCEPT ![id].archived = TRUE] /\ UNCHANGED page
          /\ request' = [request EXCEPT !["till"] = request["till"]]
        BY <1>12, OnceFacts DEF ArchiveElsewhere
    <2> QED  BY <1>0, <1>10, <2>1, OnceFacts
<1>13. CASE DeleteStore \/ UNCHANGED vars
    BY <1>13 DEF DeleteStore, OnceInv, Creating, vars, page, shop
<1> QED
    BY <1>1, <1>3, <1>5, <1>6, <1>7, <1>8, <1>9, <1>11, <1>12, <1>13, OnceReadRow, OnceValidate,
       OnceSave
    DEF Next

\* A form that was filled in once creates two products only when the answer to the first
\* of them was lost, whatever is pending, edited or closed meanwhile.
THEOREM CreatedOnceCorrect == Spec => []CreatedOnce
<1>1. Init => OnceInv
    <2> SUFFICES ASSUME Init PROVE OnceInv
        OBVIOUS
    <2>1. rows \in Seq(RowRecord)
        BY InitTyped, TypedFacts
    <2>2. /\ ~Creating /\ request["create"] = Idle /\ request["update"] = Idle
          /\ \A i \in 1..Len(rows) : rows[i].filling = 0
        BY <2>1 DEF Init, Creating, Slot
    <2> QED
        BY <2>2 DEF OnceInv, OnceOf, Once, SentOnce, OpenOnce, EditsEarlier, EditsUnmarked,
                    UnderWay, HasRead, Idle
<1>2. Spec => [](Typed /\ OnceInv)
    <2>1. Typed /\ OnceInv /\ [Next]_vars => Typed' /\ OnceInv'
        BY NextTyped, NextOnce
    <2> QED  BY <1>1, <2>1, InitTyped, PTL DEF Spec
<1>3. Typed /\ OnceInv => CreatedOnce
    <2> SUFFICES ASSUME Typed, OnceInv PROVE CreatedOnce
        OBVIOUS
    <2>1. DOMAIN rows = 1..Len(rows)
        BY TypedFacts
    <2> QED  BY <2>1 DEF OnceInv, OnceOf, Once, CreatedOnce
<1> QED  BY <1>2, <1>3, PTL

-----------------------------------------------------------------------------
(* What the form lets through                                              *)

\* A create or an edit under way is a form that was let through.
FromForm(s, r) ==
    UnderWay(r) => \E e \in Shape : FormTakes(e, s = "update") /\ r.body = Body(e)

SentInv == \A s \in {"create", "update"} : FromForm(s, request[s])

\* How a save's request changes in a step: it goes on in its handler, ends there or
\* elsewhere, or is sent.
SaveStep(s) ==
    \/ request'[s] = request[s]
    \/ /\ UnderWay(request[s]) /\ UnderWay(request'[s])
       /\ request'[s].body = request[s].body
    \/ /\ ~UnderWay(request'[s])
       /\ request'[s].status = "refused" => Validate(s) \/ (s = "update" /\ ReadRow)
       /\ request'[s].status = "error" => Save(s)
    \/ request'[s].status = "sent" /\ FromForm(s, request'[s])

\* Every step of the system is such a step; what refuses a save is its handler.
LEMMA SaveSteps ==
    ASSUME Typed, [Next]_vars, NEW s \in {"create", "update"}
    PROVE  SaveStep(s)
<1>1. request \in [Slot -> RequestRecord] /\ s \in Slot  BY DEF Typed, Slot
<1>2. ASSUME NEW q \in Slot, NEW r, request' = [request EXCEPT ![q] = r]
      PROVE  request'[s] = IF s = q THEN r ELSE request[s]
    BY <1>1, <1>2
<1>3. ASSUME NEW q \in Slot, NEW status, Finish(q, status)
      PROVE  IF s = q THEN /\ request'[s].status = status
                           /\ request'[s].body = request[s].body
             ELSE request'[s] = request[s]
    <2>1. request[q] \in RequestRecord  BY <1>1
    <2> QED  BY <1>1, <1>3, <2>1 DEF Finish, RequestRecord
<1>4. CASE UNCHANGED request  BY <1>4 DEF SaveStep
<1>5. ASSUME NEW e \in Shape, Submit(e) PROVE SaveStep(s)
    <2>1. PICK b, n : request' = [request EXCEPT ![Mutation] = Sent(form.product, b, Body(e), n)]
        BY <1>5 DEF Submit
    <2>2. Mutation \in Slot /\ FormTakes(e, Mutation = "update")
        BY <1>5 DEF Submit, Mutation, Slot
    <2>3. CASE s = Mutation
        <3>1. request'[s] = Sent(form.product, b, Body(e), n)
            BY <1>2, <2>1, <2>2, <2>3
        <3>2. request'[s].status = "sent" /\ request'[s].body = Body(e)  BY <3>1 DEF Sent
        <3> QED  BY <2>2, <2>3, <3>2 DEF FromForm, SaveStep
    <2>4. CASE s # Mutation  BY <1>2, <2>1, <2>2, <2>4 DEF SaveStep
    <2> QED  BY <2>3, <2>4
<1>6. ASSUME NEW q \in Slot, Validate(q) PROVE SaveStep(s)
    <2>1. PICK status \in {"checked", "refused"} : Finish(q, status)  BY <1>6 DEF Validate
    <2>2. CASE s # q  BY <1>3, <2>1, <2>2 DEF SaveStep
    <2>3. CASE s = q
        <3>1. UnderWay(request[s])  BY <1>6, <2>3 DEF Validate, UnderWay
        <3>2. request'[s].status = status /\ request'[s].body = request[s].body
            BY <1>3, <2>1, <2>3
        <3> QED  BY <1>6, <2>3, <3>1, <3>2 DEF SaveStep, UnderWay
    <2> QED  BY <2>2, <2>3
<1>7. CASE ReadRow
    <2>1. "update" \in Slot /\ request["update"] \in RequestRecord  BY <1>1 DEF Slot
    <2>2. CASE s # "update"
        <3>1. request'[s] = request[s]  BY <1>1, <1>3, <1>7, <2>1, <2>2 DEF ReadRow
        <3> QED  BY <3>1 DEF SaveStep
    <2>3. CASE s = "update" /\ Finish("update", "refused")
        <3>1. request'[s].status = "refused"  BY <1>3, <2>1, <2>3
        <3> QED  BY <1>7, <2>3, <3>1 DEF SaveStep, UnderWay
    <2>4. CASE s = "update"
               /\ request' = [request EXCEPT !["update"].status = "read", !["update"].seen = rows]
        <3>1. request'[s].status = "read" /\ request'[s].body = request[s].body
            BY <1>1, <2>1, <2>4 DEF RequestRecord
        <3> QED  BY <1>7, <2>4, <3>1 DEF SaveStep, UnderWay, ReadRow
    <2> QED  BY <1>7, <2>2, <2>3, <2>4 DEF ReadRow
<1>8. ASSUME NEW q \in Slot, Save(q) \/ Lose(q) PROVE SaveStep(s)
    <2>1. PICK status \in {"done", "error", "lost"} :
              Finish(q, status) /\ (status = "error" => Save(q))
        BY <1>8 DEF Save, Lose
    <2> QED  BY <1>3, <2>1 DEF SaveStep, UnderWay
<1>9. ASSUME NEW q \in Slot, AnswerSuccess(q) \/ AnswerError(q) PROVE SaveStep(s)
    <2>1. request' = [request EXCEPT ![q] = Idle]  BY <1>9 DEF AnswerSuccess, AnswerError
    <2>2. request'[s] = request[s] \/ request'[s].status = "none"
        BY <1>2, <2>1 DEF Idle
    <2> QED  BY <2>2 DEF SaveStep, UnderWay
<1>10. CASE Remove \/ ConfirmRemove \/ \E b \in Barcode : QuickCreate(b)
    <2>1. Remove => request'[s] = request[s]
        <3>1. Remove => \E status : Finish("remove", status)  BY DEF Remove
        <3> QED  BY <1>3, <3>1 DEF Slot
    <2>2. ConfirmRemove => request'[s] = request[s]
        BY <1>2 DEF ConfirmRemove, Slot
    <2>3. ASSUME NEW b \in Barcode, QuickCreate(b) PROVE request'[s] = request[s]
        BY <1>2, <2>3 DEF QuickCreate, Slot
    <2> QED  BY <1>10, <2>1, <2>2, <2>3 DEF SaveStep
<1>11. CASE PageStep  BY <1>4, <1>11 DEF PageStep, OpenCreate, Refetch, OpenEdit, OpenRemove
<1>12. CASE FormStep
    BY <1>4, <1>5, <1>12 DEF FormStep, TypeBarcode, TypeName, CloseForm, Type, AnswerLookup
<1>13. CASE RemoveStep  BY <1>4, <1>10, <1>13 DEF RemoveStep, CloseRemove
<1>14. CASE DeleteStore \/ \E id \in DOMAIN rows : ArchiveElsewhere(id)
    BY <1>4, <1>14 DEF DeleteStore, ArchiveElsewhere
<1>15. CASE UNCHANGED vars  BY <1>4, <1>15 DEF vars
<1> QED
    BY <1>6, <1>7, <1>8, <1>9, <1>10, <1>11, <1>12, <1>13, <1>14, <1>15 DEF Next

\* What the form lets through the serializer takes, but for a name of spaces, a quantity of
\* too many digits and a store that is gone.
LEMMA FormTakesEnough ==
    ASSUME NEW e \in Shape, NEW isEdit \in BOOLEAN, FormTakes(e, isEdit),
           ~Body(e).blank, Body(e).qty # "long", ~(Body(e).store /\ storeGone)
    PROVE  BodyIsTaken(Body(e))
<1>1. e \in ShapeRecord  BY FormAssumption
<1> QED  BY <1>1 DEF ShapeRecord, FormTakes, Body, BodyIsTaken

\* A save that fails after the checks does so for a barcode in use by now, a store that is
\* gone, or a price beyond its column.
LEMMA SaveFails ==
    ASSUME Typed, NEW s \in Slot, NEW e \in Shape, request[s].body = Body(e),
           Save(s), request'[s].status = "error"
    PROVE  LET r == request[s]
           IN  \/ IsUsed(r.barcode, r.id) \/ r.body.price = "huge"
               \/ r.body.store /\ storeGone
<1> DEFINE r == request[s]
<1>1. r \in RequestRecord /\ request \in [Slot -> RequestRecord] /\ rows \in Seq(RowRecord)
    BY TypedFacts
<1>2. ~Finish(s, "done")
    <2>1. Finish(s, "done") => request'[s].status = "done"
        BY <1>1 DEF Finish, RequestRecord
    <2> QED  BY <2>1
<1>3. \/ ~IndexTakes(r.barcode, r.id) \/ r.body.price # "fits"
      \/ r.id = 0 /\ Created(r) = rows
    BY <1>2 DEF Save
<1>4. ~IndexTakes(r.barcode, r.id) => IsUsed(r.barcode, r.id)
    BY DEF IndexTakes, IsUsed
<1>5. r.body.price # "fits" => r.body.price = "huge"
    <2>1. e \in ShapeRecord  BY FormAssumption
    <2> QED  BY <2>1 DEF ShapeRecord, Body
<1>6. Created(r) = rows => r.body.store /\ storeGone
    <2>1. Len(Append(rows, Row(r))) # Len(rows)
        <3>1. Row(r) \in RowRecord  BY <1>1 DEF Row, RowRecord, RequestRecord, BarcodeField
        <3> QED  BY <1>1, <3>1
    <2> QED  BY <2>1 DEF Created
<1> QED  BY <1>3, <1>4, <1>5, <1>6

\* What the form lets through fails only for a barcode in use, a product or a store that is
\* gone, a name of spaces, or a number beyond its column: the form's schema, the serializer
\* and the table agree on all the rest, whatever is edited and archived while the request
\* is on its way.
THEOREM FormsFitCorrect == Spec => FormsFit
<1>1. Typed /\ SentInv /\ [Next]_vars => SentInv'
    <2> SUFFICES ASSUME Typed, SentInv, [Next]_vars, NEW s \in {"create", "update"}
                 PROVE  FromForm(s, request'[s])
        BY DEF SentInv
    <2> QED  BY SaveSteps DEF SentInv, SaveStep, FromForm
<1>2. Init => SentInv
    BY DEF Init, SentInv, FromForm, UnderWay, Idle, Slot
<1>3. Typed /\ SentInv /\ [Next]_vars =>
          [\A s \in {"create", "update"} :
               LET r == request[s]
               IN  /\ r.status \in {"sent", "read", "checked"}
                   /\ request'[s].status \in {"refused", "error"}
                   => \/ IsUsed(r.barcode, r.id) \/ r.body.blank
                      \/ r.body.qty = "long" \/ r.body.price = "huge"
                      \/ s = "update" /\ ~IsLive(r.id, rows)
                      \/ r.body.store /\ storeGone]_vars
    <2> SUFFICES ASSUME Typed, SentInv, [Next]_vars, NEW s \in {"create", "update"},
                        request'[s].status \in {"refused", "error"}, UnderWay(request[s]),
                        ~IsUsed(request[s].barcode, request[s].id), ~request[s].body.blank,
                        request[s].body.qty # "long", request[s].body.price # "huge",
                        s = "update" => IsLive(request[s].id, rows),
                        ~(request[s].body.store /\ storeGone)
                 PROVE  FALSE
        BY DEF UnderWay
    <2>1. PICK e \in Shape : FormTakes(e, s = "update") /\ request[s].body = Body(e)
        BY DEF SentInv, FromForm
    <2>2. BodyIsTaken(request[s].body)  BY <2>1, FormTakesEnough
    <2>3. request \in [Slot -> RequestRecord] /\ s \in Slot /\ request[s] \in RequestRecord
        BY DEF Typed, Slot
    <2>4. \/ request'[s].status = "refused" /\ (Validate(s) \/ (s = "update" /\ ReadRow))
          \/ request'[s].status = "error" /\ Save(s)
        BY SaveSteps DEF SaveStep, UnderWay
    <2>5. ~Validate(s)
        <3>1. Validate(s) => Finish(s, "checked")  BY <2>2 DEF Validate
        <3>2. Finish(s, "checked") => request'[s].status = "checked"
            BY <2>3 DEF Finish, RequestRecord
        <3>3. Validate(s) => request'[s].status = "checked"  BY <3>1, <3>2
        <3> QED  BY <3>3
    <2>6. ~(s = "update" /\ ReadRow)
        <3> SUFFICES ASSUME s = "update", ReadRow PROVE FALSE
            OBVIOUS
        <3>1. request' = [request EXCEPT ![s].status = "read", ![s].seen = rows]
            BY DEF ReadRow
        <3>2. request'[s].status = "read"  BY <2>3, <3>1 DEF RequestRecord
        <3> QED  BY <3>2
    <2>7. ~(request'[s].status = "error" /\ Save(s))
        BY <2>1, <2>3, SaveFails
    <2> QED  BY <2>4, <2>5, <2>6, <2>7
<1>4. Spec => [](Typed /\ SentInv)
    <2>1. Typed /\ SentInv /\ [Next]_vars => Typed' /\ SentInv'
        BY <1>1, NextTyped
    <2> QED  BY <1>2, <2>1, InitTyped, PTL DEF Spec
<1> QED  BY <1>3, <1>4, PTL DEF Spec, FormsFit
=============================================================================
