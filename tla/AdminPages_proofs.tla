-------------------------- MODULE AdminPages_proofs --------------------------
(***************************************************************************)
(* Theorems about AdminPages: its types, the soundness of the tables,      *)
(* which saves bring a row back, and what the forms may rely on.           *)
(***************************************************************************)
EXTENDS AdminPages, TLAPS

\* A store is never deactivated.
StoredRow == {r \in RowRecord : r.page = "stores" => r.active}

RequestRecord ==
    [status : Status, id : Nat, key : Code \cup Pin \cup {NoKey}, blank : BOOLEAN,
     seen : Seq(StoredRow), left : BOOLEAN]
FormRecord == [open : BOOLEAN, id : Nat]

\* Table t has become u: there may be more rows, and each one stays what it is.
Earlier(t, u) ==
    Len(t) <= Len(u) /\ \A k \in 1..Len(t) : t[k].page = u[k].page

\* Row id of table t, or none.
IsOf(p, id, t) == id <= Len(t) /\ (id # 0 => t[id].page = p)

\* What request r of slot s carries when the table is t.
Fits(s, r, t) ==
    /\ r.id <= Len(t)
    /\ s[1] \in Page => IsOf(s[1], r.id, t)
    /\ s[2] = "create" => r.id = 0
    /\ s[1] \in Page /\ s[2] # "create" /\ r.status # "none" => r.id # 0
    /\ s[1] = "cashiers" /\ r.status # "none" => ~r.blank
    /\ s[1] = "cashiers" /\ s[2] = "create" /\ r.status # "none" => r.key \in Pin
    /\ s[1] = "stores" /\ s[2] # "remove" /\ r.status # "none" => r.key \in Code
    /\ s[1] = "onboarding" /\ r.status \notin {"none", "over"} => r.key \in Code
    /\ r.status = "read" => Earlier(r.seen, t)
    /\ r.status = "read" /\ s[1] \in Page /\ r.id # 0 => r.id <= Len(r.seen) /\ r.seen[r.id].exists

TablesFit == rows \in Seq(StoredRow) /\ sold \subseteq 1..Len(rows) /\ onboarded \in BOOLEAN

PageFits(p, l, f, d, t) ==
    /\ Earlier(l, t)
    /\ IsOf(p, f.id, t) /\ IsOf(p, d, t)
    /\ ~(f.open /\ d # 0)

PagesFit ==
    /\ list \in [Page -> Seq(StoredRow)] /\ form \in [Page -> FormRecord] /\ doomed \in [Page -> Nat]
    /\ \A p \in Page : PageFits(p, list[p], form[p], doomed[p], rows)

RequestsFit ==
    /\ request \in [Slot -> RequestRecord]
    /\ \A s \in Slot : Fits(s, request[s], rows)

\* The types, of the parts of a request as well.
Typed == TablesFit /\ PagesFit /\ RequestsFit /\ moves \in Nat

-----------------------------------------------------------------------------
(* Types                                                                   *)

\* What the names of the slots say.
LEMMA SlotFacts ==
    ASSUME NEW s \in Slot
    PROVE  /\ s[1] \in {"stores", "cashiers", "onboarding", "till"}
           /\ s[2] \in {"create", "update", "remove", "reactivate", "one", "two", "sale"}
           /\ s = <<s[1], s[2]>>
           /\ s[2] \in {"create", "update", "remove", "reactivate"} => s[1] \in Page
           /\ s[1] \in Page => s[2] \in {"create", "update", "remove", "reactivate"}
           /\ s[1] \in Page /\ s[2] # "remove" => IsSave(s)
           /\ s[2] = "reactivate" => s[1] = "cashiers"
BY DEF Slot, Page, IsSave

\* A table that grew is still an earlier one, and its rows are what they were.
LEMMA EarlierFacts ==
    ASSUME NEW t \in Seq(StoredRow), NEW u \in Seq(StoredRow), Earlier(t, u)
    PROVE  /\ Earlier(t, t)
           /\ \A l \in Seq(StoredRow) : Earlier(l, t) => Earlier(l, u)
           /\ \A p \in Page, id \in Nat : IsOf(p, id, t) => IsOf(p, id, u)
BY DEF Earlier, IsOf

\* What a request carries fits the table that has grown.
LEMMA FitsOn ==
    ASSUME NEW t \in Seq(StoredRow), NEW u \in Seq(StoredRow), Earlier(t, u),
           NEW s \in Slot, NEW r \in RequestRecord, Fits(s, r, t)
    PROVE  Fits(s, r, u)
<1>1. r.seen \in Seq(StoredRow) /\ r.id \in Nat  BY DEF RequestRecord
<1>2. Len(t) \in Nat /\ Len(u) \in Nat /\ Len(t) <= Len(u)  BY DEF Earlier
<1>3. Earlier(r.seen, t) => Earlier(r.seen, u)  BY <1>1, EarlierFacts
<1>4. s[1] \in Page => (IsOf(s[1], r.id, t) => IsOf(s[1], r.id, u))  BY <1>1, EarlierFacts
<1> QED  BY <1>1, <1>2, <1>3, <1>4 DEF Fits

\* A request that ends has less to carry.
LEMMA FitsEnded ==
    ASSUME NEW t \in Seq(StoredRow), NEW s \in Slot, NEW r \in RequestRecord, Fits(s, r, t),
           r.status \notin {"none", "over"},
           NEW status \in {"done", "refused", "error", "lost"}
    PROVE  /\ [r EXCEPT !.status = status] \in RequestRecord
           /\ Fits(s, [r EXCEPT !.status = status], t)
<1> DEFINE n == [r EXCEPT !.status = status]
<1>1. /\ n \in RequestRecord /\ n.status = status /\ n.id = r.id /\ n.key = r.key
      /\ n.blank = r.blank
    BY DEF RequestRecord, Status
<1> HIDE DEF n
<1>2. Fits(s, n, t)  BY <1>1 DEF Fits
<1> QED  BY <1>1, <1>2 DEF n

\* An idle slot carries nothing.
LEMMA IdleFits ==
    ASSUME NEW t \in Seq(StoredRow), NEW s \in Slot
    PROVE  /\ Idle \in RequestRecord /\ Fits(s, Idle, t)
           /\ Over \in RequestRecord /\ (s[1] = "onboarding" => Fits(s, Over, t))
<1>1. Idle \in RequestRecord /\ Idle.status = "none" /\ Idle.id = 0
    BY DEF Idle, RequestRecord, Status
<1>2. Over \in RequestRecord /\ Over.status = "over" /\ Over.id = 0
    BY <1>1 DEF Over, RequestRecord, Status
<1>3. Len(t) \in Nat  OBVIOUS
<1>4. Fits(s, Idle, t)
    BY <1>1, <1>3, SlotFacts DEF Fits, IsOf
<1>5. s[1] = "onboarding" => Fits(s, Over, t)
    BY <1>2, <1>3, SlotFacts DEF Fits, IsOf, Page
<1> QED  BY <1>1, <1>2, <1>4, <1>5

\* The types, as they are used.
LEMMA TypedFacts ==
    ASSUME Typed
    PROVE  /\ rows \in Seq(StoredRow) /\ Len(rows) \in Nat /\ DOMAIN rows = 1..Len(rows)
           /\ Earlier(rows, rows)
           /\ \A i \in 1..Len(rows) : rows[i] \in StoredRow
           /\ \A s \in Slot : request[s] \in RequestRecord /\ Fits(s, request[s], rows)
           /\ request \in [Slot -> RequestRecord]
BY DEF Typed, TablesFit, RequestsFit, Earlier

\* The table grows, one request changes, the pages stay.
LEMMA ServerStep ==
    ASSUME Typed, NEW s \in Slot, NEW r \in RequestRecord,
           request' = [request EXCEPT ![s] = r],
           rows' \in Seq(StoredRow), Earlier(rows, rows'), Fits(s, r, rows')
    PROVE  RequestsFit'
<1>1. request' \in [Slot -> RequestRecord]  BY TypedFacts
<1>2. ASSUME NEW x \in Slot PROVE Fits(x, request'[x], rows')
    <2>1. CASE x = s  BY <2>1, TypedFacts
    <2>2. CASE x # s
        <3>1. request'[x] = request[x] /\ request[x] \in RequestRecord /\ Fits(x, request[x], rows)
            BY <2>2, TypedFacts
        <3> QED  BY <3>1, FitsOn, TypedFacts
    <2> QED  BY <2>1, <2>2
<1> QED  BY <1>1, <1>2 DEF RequestsFit

\* The pages stay as they are while the table grows.
LEMMA PagesOn ==
    ASSUME Typed, UNCHANGED pages, rows' \in Seq(StoredRow), Earlier(rows, rows')
    PROVE  PagesFit'
<1>1. ASSUME NEW p \in Page PROVE PageFits(p, list[p], form[p], doomed[p], rows')
    <2>1. /\ list[p] \in Seq(StoredRow) /\ form[p].id \in Nat /\ doomed[p] \in Nat
          /\ PageFits(p, list[p], form[p], doomed[p], rows)
        BY DEF Typed, PagesFit, FormRecord
    <2> QED  BY <2>1, EarlierFacts, TypedFacts DEF PageFits
<1> QED  BY <1>1 DEF Typed, PagesFit, pages

-----------------------------------------------------------------------------
(* What the handlers do to the tables                                      *)

\* A row is inserted.
Added(row) == row \in StoredRow /\ row.exists /\ rows' = Append(rows, row)

\* A row is written over, by one of the same page.
Replaced(id, row) ==
    /\ id \in 1..Len(rows) /\ row \in StoredRow /\ row.page = rows[id].page
    /\ rows' = [rows EXCEPT ![id] = row]

\* What inserting leaves.
LEMMA AddedFacts ==
    ASSUME Typed, NEW row, Added(row)
    PROVE  /\ rows' \in Seq(StoredRow) /\ Earlier(rows, rows')
           /\ Len(rows') = Len(rows) + 1 /\ rows'[Len(rows) + 1] = row
           /\ \A i \in 1..Len(rows) : rows'[i] = rows[i]
BY TypedFacts DEF Added, Earlier

\* What writing over leaves.
LEMMA ReplacedFacts ==
    ASSUME Typed, NEW id, NEW row, Replaced(id, row)
    PROVE  /\ rows' \in Seq(StoredRow) /\ Earlier(rows, rows')
           /\ Len(rows') = Len(rows) /\ rows'[id] = row
           /\ \A i \in 1..Len(rows) : i # id => rows'[i] = rows[i]
BY TypedFacts DEF Replaced, Earlier

\* What a request on its way carries, by what it asks for.
LEMMA SaveCarries ==
    ASSUME Typed, NEW s \in Slot, IsSave(s), request[s].status = "read"
    PROVE  /\ s[1] \in Page /\ request[s].id \in Nat /\ request[s].id <= Len(rows)
           /\ request[s].id = 0 => Row(s[1], request[s].key) \in StoredRow
           /\ request[s].id # 0 =>
                 /\ request[s].id \in 1..Len(rows) /\ rows[request[s].id].page = s[1]
                 /\ request[s].seen[request[s].id] \in StoredRow
                 /\ request[s].seen[request[s].id].page = s[1]
                 /\ WritesBack(s, request[s].id)
<1> DEFINE r == request[s]
<1>1. r \in RequestRecord /\ Fits(s, r, rows) /\ Len(rows) \in Nat /\ rows \in Seq(StoredRow)
    BY TypedFacts
<1>2. /\ r.id \in Nat /\ r.seen \in Seq(StoredRow) /\ r.status = "read" /\ s[1] \in Page
      /\ r.key \in Code \cup Pin \cup {NoKey}
    BY <1>1 DEF RequestRecord, IsSave
<1>3. CASE r.id = 0
    <2>1. s[2] = "create"  BY <1>1, <1>2, <1>3 DEF Fits, IsSave
    <2>2. r.key \in Code \cup Pin  BY <1>1, <1>2, <2>1 DEF Fits, Page
    <2>3. Row(s[1], r.key) \in StoredRow
        BY <1>2, <2>2 DEF Row, StoredRow, RowRecord
    <2> QED  BY <1>1, <1>2, <1>3, <2>3 DEF Fits
<1>4. CASE r.id # 0
    <2>1. /\ r.id <= Len(rows) /\ IsOf(s[1], r.id, rows) /\ Earlier(r.seen, rows)
          /\ r.id <= Len(r.seen) /\ r.seen[r.id].exists
        BY <1>1, <1>2, <1>4 DEF Fits
    <2>2. r.id \in 1..Len(r.seen) /\ r.id \in 1..Len(rows)  BY <1>1, <1>2, <1>4, <2>1
    <2>3. r.seen[r.id] \in StoredRow /\ r.seen[r.id].page = rows[r.id].page
        BY <1>2, <2>1, <2>2 DEF Earlier
    <2>4. rows[r.id].page = s[1]  BY <1>4, <2>1 DEF IsOf
    <2> QED  BY <1>2, <1>4, <2>1, <2>2, <2>3, <2>4 DEF WritesBack
<1> QED  BY <1>3, <1>4

\* A save inserts a row, or writes back the one it had read.
LEMMA SaveWrites ==
    ASSUME Typed, NEW s \in Slot, WriteSave(s)
    PROVE  /\ s[1] \in Page
           /\ \/ UNCHANGED rows /\ Finish(s, "error")
              \/ /\ Finish(s, "done")
                 /\ \E row : /\ Added(row) /\ row.page = s[1]
                             /\ DatabaseTakes(s[1], row.key, 0)
              \/ /\ Finish(s, "done")
                 /\ \E row : /\ Replaced(request[s].id, row) /\ row.page = s[1] /\ row.exists
                             /\ DatabaseTakes(s[1], row.key, request[s].id)
                             /\ WritesBack(s, request[s].id)
                             /\ row.active => \/ request[s].seen[request[s].id].active
                                              \/ s[2] = "reactivate"
<1> DEFINE r == request[s]
<1>1. IsSave(s) /\ r.status = "read" /\ r \in RequestRecord
    BY TypedFacts DEF WriteSave
<1>2. s[1] \in Page /\ r.id \in Nat /\ r.key \in Code \cup Pin \cup {NoKey}
    BY <1>1, SaveCarries DEF RequestRecord
<1>3. CASE r.id = 0
    <2> DEFINE row == Row(s[1], r.key)
    <2>1. row \in StoredRow /\ row.page = s[1] /\ row.key = r.key /\ row.exists
        BY <1>1, <1>3, SaveCarries DEF Row
    <2>2. \/ UNCHANGED rows /\ Finish(s, "error")
          \/ /\ DatabaseTakes(s[1], r.key, 0) /\ rows' = Append(rows, row) /\ Finish(s, "done")
        BY <1>3 DEF WriteSave
    <2> QED  BY <1>2, <2>1, <2>2 DEF Added
<1>4. CASE r.id # 0
    <2> DEFINE row == Edited(s, r)
               old == r.seen[r.id]
    <2>1. /\ r.id \in 1..Len(rows) /\ rows[r.id].page = s[1] /\ WritesBack(s, r.id)
          /\ old \in StoredRow /\ old.page = s[1]
        BY <1>1, <1>4, SaveCarries
    <2>2. /\ row.page = old.page /\ row.exists /\ row.key = (IF r.key = NoKey THEN old.key ELSE r.key)
          /\ row.active = (old.active \/ s[2] = "reactivate")
          /\ row \in StoredRow
        BY <1>2, <2>1, PagesAssumption DEF Edited, StoredRow, RowRecord
    <2>3. \/ UNCHANGED rows /\ Finish(s, "error")
          \/ /\ DatabaseTakes(s[1], row.key, r.id) /\ rows' = [rows EXCEPT ![r.id] = row]
             /\ Finish(s, "done")
        BY <1>4 DEF WriteSave
    <2> QED  BY <1>2, <2>1, <2>2, <2>3 DEF Replaced
<1> QED  BY <1>3, <1>4

\* The deletion of a store and of what was collected with it.
Deleted(gone) ==
    rows' = [i \in DOMAIN rows |-> [rows[i] EXCEPT !.exists = @ /\ i \notin gone]]

\* What deleting leaves.
LEMMA DeletedFacts ==
    ASSUME Typed, NEW gone, Deleted(gone)
    PROVE  /\ rows' \in Seq(StoredRow) /\ Earlier(rows, rows') /\ Len(rows') = Len(rows)
           /\ \A i \in 1..Len(rows) :
                 /\ rows'[i].page = rows[i].page /\ rows'[i].key = rows[i].key
                 /\ rows'[i].active = rows[i].active
                 /\ rows'[i].exists = (rows[i].exists /\ i \notin gone)
<1> DEFINE n(i) == [rows[i] EXCEPT !.exists = @ /\ i \notin gone]
<1>1. ASSUME NEW i \in 1..Len(rows)
      PROVE  /\ n(i) \in StoredRow /\ n(i).page = rows[i].page /\ n(i).key = rows[i].key
             /\ n(i).active = rows[i].active /\ n(i).exists = (rows[i].exists /\ i \notin gone)
    <2>1. rows[i] \in StoredRow  BY TypedFacts
    <2> QED  BY <2>1 DEF StoredRow, RowRecord
<1>2. rows' = [i \in 1..Len(rows) |-> n(i)] /\ Len(rows) \in Nat  BY TypedFacts DEF Deleted
<1> HIDE DEF n
<1>3. rows' \in [1..Len(rows) -> StoredRow]  BY <1>1, <1>2
<1>4. rows' \in Seq(StoredRow) /\ Len(rows') = Len(rows)  BY <1>2, <1>3
<1> QED  BY <1>1, <1>2, <1>4 DEF Earlier

\* What was collected: the row, and when it is the shown store all of its cashiers.
LEMMA RemoveWrites ==
    ASSUME Typed, NEW s \in Slot, WriteRemove(s)
    PROVE  \/ UNCHANGED rows /\ Finish(s, "error")
           \/ /\ Finish(s, "done")
              /\ \E gone : /\ Deleted(gone) /\ gone \cap sold = {}
                           /\ Shown \in gone =>
                                 \A i \in 1..Len(rows) :
                                    rows[i].page = "cashiers" /\ rows[i].exists => i \in gone
           \/ /\ Finish(s, "done")
              /\ \E row : /\ Replaced(request[s].id, row) /\ row.page = "cashiers" /\ ~row.active
                          /\ row.exists /\ rows[request[s].id].exists
                          /\ row.key = rows[request[s].id].key
<1> DEFINE r == request[s]
           gone == Cascade(r.id, r.seen)
<1>1. /\ s[2] = "remove" /\ r.status = "read" /\ s[1] \in Page /\ r \in RequestRecord
      /\ Fits(s, r, rows) /\ DOMAIN rows = 1..Len(rows)
    BY SlotFacts, TypedFacts DEF WriteRemove
<1>2. r.id \in Nat /\ r.seen \in Seq(StoredRow) /\ r.id # 0
    BY <1>1 DEF RequestRecord, Fits
<1>3. CASE s[1] = "stores"
    <2>1. \/ UNCHANGED rows /\ Finish(s, "error")
          \/ /\ gone \cap sold = {} /\ Cascade(r.id, rows) \subseteq gone
             /\ Deleted(gone) /\ Finish(s, "done")
        BY <1>3 DEF WriteRemove, Deleted
    <2>2. Shown \in gone => r.id = Shown
        <3>1. CASE r.id = Shown  BY <3>1
        <3>2. CASE r.id # Shown
            <4>1. gone = {r.id}  BY <3>2 DEF Cascade
            <4> QED  BY <3>2, <4>1
        <3> QED  BY <3>1, <3>2
    <2>3. r.id = Shown => \A i \in 1..Len(rows) :
                             rows[i].page = "cashiers" /\ rows[i].exists => i \in Cascade(r.id, rows)
        BY <1>1 DEF Cascade
    <2> HIDE DEF gone
    <2> QED  BY <2>1, <2>2, <2>3
<1>4. CASE s[1] = "cashiers"
    <2> DEFINE row == [rows[r.id] EXCEPT !.active = FALSE]
    <2>1. \/ UNCHANGED rows /\ Finish(s, "error")
          \/ /\ r.id \in 1..Len(rows) /\ rows[r.id].exists
             /\ rows' = [rows EXCEPT ![r.id].active = FALSE] /\ Finish(s, "done")
        BY <1>1, <1>4 DEF WriteRemove, Exists
    <2>2. ASSUME r.id \in 1..Len(rows), rows[r.id].exists, rows' = [rows EXCEPT ![r.id].active = FALSE]
          PROVE  /\ Replaced(r.id, row) /\ row.page = "cashiers" /\ ~row.active /\ row.exists
                 /\ row.key = rows[r.id].key
        <3>1. rows[r.id].page = "cashiers"  BY <1>1, <1>2, <1>4 DEF Fits, IsOf
        <3>2. rows[r.id] \in StoredRow  BY <2>2, TypedFacts
        <3>3. /\ row \in StoredRow /\ row.page = "cashiers" /\ ~row.active /\ row.exists
              /\ row.key = rows[r.id].key
            BY <2>2, <3>1, <3>2 DEF StoredRow, RowRecord
        <3>4. rows' = [rows EXCEPT ![r.id] = row]  BY <2>2, <3>2 DEF StoredRow, RowRecord
        <3> QED  BY <2>2, <3>1, <3>3, <3>4 DEF Replaced
    <2> HIDE DEF row
    <2> QED  BY <2>1, <2>2
<1> QED  BY <1>1, <1>3, <1>4 DEF Page

-----------------------------------------------------------------------------
(* The types are kept                                                      *)

\* A step of the server: one request goes on, the pages stay.
LEMMA ServerTyped ==
    ASSUME Typed, NEW s \in Slot, NEW r \in RequestRecord,
           request' = [request EXCEPT ![s] = r],
           rows' \in Seq(StoredRow), Earlier(rows, rows'), Fits(s, r, rows'),
           sold' \subseteq 1..Len(rows'), onboarded' \in BOOLEAN, UNCHANGED <<pages, moves>>
    PROVE  Typed'
<1>1. RequestsFit'  BY ServerStep
<1>2. PagesFit'  BY PagesOn
<1> QED  BY <1>1, <1>2 DEF Typed, TablesFit

\* A request ends.
LEMMA FinishTyped ==
    ASSUME Typed, NEW s \in Slot, request[s].status \notin {"none", "over"},
           NEW status \in {"done", "refused", "error", "lost"}, Finish(s, status),
           rows' \in Seq(StoredRow), Earlier(rows, rows'),
           sold' = sold, onboarded' \in BOOLEAN, UNCHANGED <<pages, moves>>
    PROVE  Typed'
<1> DEFINE r == [request[s] EXCEPT !.status = status]
<1>1. request[s] \in RequestRecord /\ Fits(s, request[s], rows)  BY TypedFacts
<1>2. Fits(s, request[s], rows')  BY <1>1, FitsOn, TypedFacts
<1>3. r \in RequestRecord /\ Fits(s, r, rows')  BY <1>1, <1>2, FitsEnded
<1>4. request' = [request EXCEPT ![s] = r]  BY <1>1, TypedFacts DEF Finish, RequestRecord
<1>5. sold' \subseteq 1..Len(rows')
    <2>1. Len(rows) <= Len(rows') /\ Len(rows) \in Nat /\ Len(rows') \in Nat
        BY TypedFacts DEF Earlier
    <2> QED  BY <2>1 DEF Typed, TablesFit
<1> HIDE DEF r
<1> QED  BY <1>3, <1>4, <1>5, ServerTyped

\* A request has read the tables.
LEMMA ProceedTyped ==
    ASSUME Typed, NEW s \in Slot, request[s].status = "sent", Proceed(s),
           s[1] \in Page /\ request[s].id # 0 => Exists(request[s].id),
           UNCHANGED <<tables, pages, moves>>
    PROVE  Typed'
<1> DEFINE r == [request[s] EXCEPT !.status = "read", !.seen = rows]
<1>1. /\ request[s] \in RequestRecord /\ Fits(s, request[s], rows) /\ rows \in Seq(StoredRow)
      /\ Earlier(rows, rows) /\ DOMAIN rows = 1..Len(rows)
    BY TypedFacts
<1>2. /\ r \in RequestRecord /\ r.status = "read" /\ r.seen = rows
      /\ r.id = request[s].id /\ r.key = request[s].key /\ r.blank = request[s].blank
    BY <1>1 DEF RequestRecord, Status
<1>3. request' = [request EXCEPT ![s] = r]  BY <1>1, TypedFacts DEF Proceed, RequestRecord
<1> HIDE DEF r
<1>4. Fits(s, r, rows)
    BY <1>1, <1>2 DEF Fits, Exists
<1> QED  BY <1>1, <1>2, <1>3, <1>4, ServerTyped DEF tables, Typed, TablesFit

\* The handlers, one by one.
LEMMA HandleTyped ==
    ASSUME Typed, NEW s \in Slot, Handle(s)
    PROVE  Typed'
<1>1. rows \in Seq(StoredRow) /\ Earlier(rows, rows) /\ onboarded \in BOOLEAN
    BY TypedFacts DEF Typed, TablesFit
<1>2. CASE ReadSave(s)
    <2>1. \/ Proceed(s) /\ (request[s].id # 0 => Exists(request[s].id))
          \/ Finish(s, "refused")
        BY <1>2 DEF ReadSave
    <2>2. request[s].status = "sent" /\ UNCHANGED <<tables, pages, moves>>  BY <1>2 DEF ReadSave
    <2> QED  BY <1>1, <2>1, <2>2, ProceedTyped, FinishTyped DEF tables
<1>3. CASE WriteSave(s)
    <2>1. request[s].status = "read" /\ UNCHANGED <<sold, onboarded, pages, moves>>
        BY <1>3 DEF WriteSave
    <2>2. PICK status \in {"done", "error"} :
              Finish(s, status) /\ rows' \in Seq(StoredRow) /\ Earlier(rows, rows')
        BY <1>1, <1>3, SaveWrites, AddedFacts, ReplacedFacts
    <2> QED  BY <1>1, <2>1, <2>2, FinishTyped
<1>4. CASE ReadOnboarding(s)
    <2>1. /\ Proceed(s) \/ Finish(s, "refused")
          /\ s[1] \notin Page /\ request[s].status = "sent" /\ UNCHANGED <<tables, pages, moves>>
        BY <1>4 DEF ReadOnboarding, Page
    <2> QED  BY <1>1, <2>1, ProceedTyped, FinishTyped DEF tables
<1>5. CASE WriteOnboarding(s)
    <2> DEFINE row == Row("stores", request[s].key)
    <2>1. s[1] = "onboarding" /\ request[s].status = "read" /\ UNCHANGED <<sold, pages, moves>>
        BY <1>5 DEF WriteOnboarding
    <2>2. request[s].key \in Code  BY <2>1, TypedFacts DEF Fits
    <2>3. row \in StoredRow /\ row.exists
        BY <2>2 DEF Row, StoredRow, RowRecord, Page
    <2>4. \/ rows' = Append(rows, row) /\ onboarded' = TRUE /\ Finish(s, "done")
          \/ UNCHANGED <<rows, onboarded>> /\ Finish(s, "error")
        BY <1>5 DEF WriteOnboarding
    <2>5. CASE rows' = Append(rows, row) /\ onboarded' = TRUE /\ Finish(s, "done")
        <3>1. Added(row)  BY <2>3, <2>5 DEF Added
        <3> QED  BY <2>1, <2>5, <3>1, AddedFacts, FinishTyped
    <2>6. CASE UNCHANGED <<rows, onboarded>> /\ Finish(s, "error")
        BY <1>1, <2>1, <2>6, FinishTyped
    <2> QED  BY <2>4, <2>5, <2>6
<1>6. CASE ReadRemove(s)
    <2>1. \/ Proceed(s) /\ Exists(request[s].id)
          \/ Finish(s, "refused") \/ Finish(s, "error")
        BY <1>6 DEF ReadRemove
    <2>2. request[s].status = "sent" /\ UNCHANGED <<tables, pages, moves>>  BY <1>6 DEF ReadRemove
    <2> QED  BY <1>1, <2>1, <2>2, ProceedTyped, FinishTyped DEF tables
<1>7. CASE WriteRemove(s)
    <2>1. request[s].status = "read" /\ UNCHANGED <<sold, onboarded, pages, moves>>
        BY <1>7 DEF WriteRemove
    <2>2. PICK status \in {"done", "error"} :
              Finish(s, status) /\ rows' \in Seq(StoredRow) /\ Earlier(rows, rows')
        BY <1>1, <1>7, RemoveWrites, DeletedFacts, ReplacedFacts
    <2> QED  BY <1>1, <2>1, <2>2, FinishTyped
<1> QED  BY <1>2, <1>3, <1>4, <1>5, <1>6, <1>7 DEF Handle

\* A page sends a request.
LEMMA SendTyped ==
    ASSUME Typed, NEW s \in Slot, NEW r \in RequestRecord, Send(s, r), Fits(s, r, rows),
           UNCHANGED <<tables, pages>>, moves' \in Nat
    PROVE  Typed'
<1>1. RequestsFit'
    BY ServerStep, TypedFacts DEF Send, tables
<1>2. PagesFit'  BY PagesOn, TypedFacts DEF tables
<1> QED  BY <1>1, <1>2 DEF Typed, TablesFit, tables

\* What a page shows of a row is of the row it is, or was.
LEMMA ListedFacts ==
    ASSUME Typed, NEW p \in Page, NEW id, Lists(p, id)
    PROVE  id \in Nat /\ id # 0 /\ IsOf(p, id, rows)
<1>1. list[p] \in Seq(StoredRow) /\ Earlier(list[p], rows) /\ Len(rows) \in Nat
    BY TypedFacts DEF Typed, PagesFit, PageFits
<1>2. id \in 1..Len(list[p]) /\ list[p][id].page = p  BY <1>1 DEF Lists
<1> QED  BY <1>1, <1>2 DEF Earlier, IsOf

\* The dialogs of one page change, the requests stay.
LEMMA DialogTyped ==
    ASSUME Typed, NEW p \in Page, NEW f \in FormRecord, NEW d \in Nat,
           form' = [form EXCEPT ![p] = f], doomed' = [doomed EXCEPT ![p] = d],
           IsOf(p, f.id, rows), IsOf(p, d, rows), ~(f.open /\ d # 0),
           UNCHANGED <<tables, list>>
    PROVE  TablesFit' /\ PagesFit'
<1>1. TablesFit'  BY DEF Typed, TablesFit, tables
<1>2. form' \in [Page -> FormRecord] /\ doomed' \in [Page -> Nat] /\ list' \in [Page -> Seq(StoredRow)]
    BY DEF Typed, PagesFit
<1>3. ASSUME NEW q \in Page PROVE PageFits(q, list'[q], form'[q], doomed'[q], rows')
    <2>1. PageFits(q, list[q], form[q], doomed[q], rows)  BY DEF Typed, PagesFit
    <2>2. rows' = rows /\ list' = list  BY DEF tables
    <2>3. CASE q = p
        <3>1. form'[q] = f /\ doomed'[q] = d  BY <2>3 DEF Typed, PagesFit
        <3> QED  BY <2>1, <2>2, <2>3, <3>1 DEF PageFits
    <2>4. CASE q # p
        <3>1. form'[q] = form[q] /\ doomed'[q] = doomed[q]  BY <2>4 DEF Typed, PagesFit
        <3> QED  BY <2>1, <2>2, <3>1 DEF PageFits
    <2> QED  BY <2>3, <2>4
<1> QED  BY <1>1, <1>2, <1>3 DEF PagesFit

\* What the dialogs of a page are open for.
LEMMA PageFacts ==
    ASSUME Typed, NEW p \in Page
    PROVE  /\ form \in [Page -> FormRecord] /\ doomed \in [Page -> Nat]
           /\ form[p] \in FormRecord /\ form[p].id \in Nat /\ form[p].open \in BOOLEAN
           /\ doomed[p] \in Nat
           /\ IsOf(p, form[p].id, rows) /\ IsOf(p, doomed[p], rows) /\ IsOf(p, 0, rows)
           /\ ~(form[p].open /\ doomed[p] # 0)
<1>1. Len(rows) \in Nat  BY TypedFacts
<1> QED  BY <1>1 DEF Typed, PagesFit, PageFits, FormRecord, IsOf

\* Closing a form leaves its page's requests behind.
LEMMA CloseTyped ==
    ASSUME Typed, NEW p \in Page, NEW d \in Nat, IsOf(p, d, rows), doomed[p] = 0 => d = 0,
           NEW r \in [Slot -> RequestRecord], \A s \in Slot : Fits(s, r[s], rows),
           Close(p, r), doomed' = [doomed EXCEPT ![p] = d],
           UNCHANGED <<tables, list>>, moves' \in Nat
    PROVE  Typed'
<1> DEFINE f == [form[p] EXCEPT !.open = FALSE]
           n(s) == IF s[1] = p /\ r[s].status # "none" THEN [r[s] EXCEPT !.left = TRUE] ELSE r[s]
<1>1. f \in FormRecord /\ f.id = form[p].id /\ ~f.open  BY PageFacts DEF FormRecord
<1>2. form' = [form EXCEPT ![p] = f]  BY PageFacts DEF Close, FormRecord
<1> HIDE DEF f
<1>3. TablesFit' /\ PagesFit'  BY <1>1, <1>2, DialogTyped, PageFacts
<1>4. ASSUME NEW s \in Slot PROVE n(s) \in RequestRecord /\ Fits(s, n(s), rows)
    <2>1. r[s] \in RequestRecord /\ Fits(s, r[s], rows)  OBVIOUS
    <2> DEFINE l == [r[s] EXCEPT !.left = TRUE]
    <2>2. /\ l \in RequestRecord /\ l.status = r[s].status /\ l.id = r[s].id /\ l.key = r[s].key
          /\ l.blank = r[s].blank /\ l.seen = r[s].seen
        BY <2>1 DEF RequestRecord
    <2> HIDE DEF l
    <2>3. Fits(s, l, rows)  BY <2>1, <2>2 DEF Fits
    <2> QED  BY <2>1, <2>2, <2>3 DEF l
<1>5. request' = [s \in Slot |-> n(s)] /\ rows' = rows  BY DEF Close, tables
<1> HIDE DEF n
<1>6. RequestsFit'  BY <1>4, <1>5 DEF RequestsFit
<1> QED  BY <1>3, <1>6 DEF Typed

\* The answers, one by one.
LEMMA AnswerTyped ==
    ASSUME Typed, NEW s \in Slot, Answer(s)
    PROVE  Typed'
<1>1. /\ rows \in Seq(StoredRow) /\ Earlier(rows, rows) /\ request \in [Slot -> RequestRecord]
      /\ \A x \in Slot : request[x] \in RequestRecord /\ Fits(x, request[x], rows)
      /\ onboarded \in BOOLEAN /\ moves \in Nat
    BY TypedFacts DEF Typed, TablesFit
<1>2. CASE Lose(s)
    BY <1>1, <1>2, FinishTyped DEF Lose, tables
<1>3. CASE AnswerError(s)
    BY <1>1, <1>3, IdleFits, SendTyped DEF AnswerError
<1>4. CASE AnswerSuccess(s)
    <2> DEFINE a == IF s[1] = "onboarding" THEN Over ELSE Idle
               answered == [request EXCEPT ![s] = a]
    <2>1. a \in RequestRecord /\ Fits(s, a, rows)  BY <1>1, IdleFits
    <2>2. UNCHANGED <<tables, list, moves>>  BY <1>4 DEF AnswerSuccess
    <2>3. CASE s[1] \in Page /\ s[2] \in {"create", "update"}
        <3>1. Close(s[1], answered) /\ doomed' = doomed
            BY <1>4, <2>3 DEF AnswerSuccess
        <3>2. doomed' = [doomed EXCEPT ![s[1]] = doomed[s[1]]]
            BY <2>3, <3>1, PageFacts
        <3>3. answered \in [Slot -> RequestRecord]  BY <1>1, <2>1
        <3>4. ASSUME NEW x \in Slot PROVE Fits(x, answered[x], rows)
            BY <1>1, <2>1
        <3> HIDE DEF answered
        <3> QED  BY <1>1, <2>2, <2>3, <3>1, <3>2, <3>3, <3>4, CloseTyped, PageFacts
    <2>4. CASE ~(s[1] \in Page /\ s[2] \in {"create", "update"})
        <3>1. request' = answered /\ UNCHANGED form
            BY <1>4, <2>4 DEF AnswerSuccess
        <3>2. CASE s[2] = "remove"
            <4>1. s[1] \in Page /\ doomed' = [doomed EXCEPT ![s[1]] = 0]
                BY <1>4, <3>2, SlotFacts DEF AnswerSuccess
            <4>2. form' = [form EXCEPT ![s[1]] = form[s[1]]]  BY <3>1, <4>1, PageFacts
            <4>3. TablesFit' /\ PagesFit'
                BY <2>2, <4>1, <4>2, DialogTyped, PageFacts
            <4>4. RequestsFit'
                BY <1>1, <2>1, <2>2, <3>1, ServerStep DEF tables
            <4> QED  BY <1>1, <2>2, <4>3, <4>4 DEF Typed
        <3>3. CASE s[2] # "remove"
            <4>1. UNCHANGED pages  BY <1>4, <2>2, <3>1, <3>3 DEF AnswerSuccess, pages
            <4> HIDE DEF a
            <4>2. Send(s, a)  BY <3>1 DEF Send
            <4> QED  BY <1>1, <2>1, <2>2, <4>1, <4>2, SendTyped
        <3> QED  BY <3>2, <3>3
    <2> QED  BY <2>3, <2>4
<1> QED  BY <1>2, <1>3, <1>4 DEF Answer

\* A click that opens or closes a dialog, and nothing else.
LEMMA DialogStepTyped ==
    ASSUME Typed, NEW p \in Page, NEW id \in {0} \cup DOMAIN list[p],
           \/ OpenForm(p, id) \/ CloseForm(p)
           \/ id # 0 /\ OpenRemove(p, id)
           \/ CloseRemove(p)
    PROVE  Typed'
<1>1. /\ request \in [Slot -> RequestRecord] /\ moves + 1 \in Nat
      /\ \A s \in Slot : Fits(s, request[s], rows)
    BY TypedFacts DEF Typed
<1>2. CASE OpenForm(p, id)
    <2> DEFINE f == [open |-> TRUE, id |-> id]
    <2>1. id \in Nat /\ IsOf(p, id, rows)
        <3>1. CASE id = 0  BY <3>1, PageFacts
        <3>2. CASE id # 0
            <4>1. Lists(p, id)  BY <1>2, <3>2 DEF OpenForm
            <4> QED  BY <4>1, ListedFacts
        <3> QED  BY <3>1, <3>2
    <2>2. f \in FormRecord /\ f.id = id  BY <2>1 DEF FormRecord
    <2>3. /\ form' = [form EXCEPT ![p] = f] /\ doomed' = doomed /\ doomed[p] = 0
          /\ UNCHANGED <<tables, list, request>> /\ moves' = moves + 1
        BY <1>2 DEF OpenForm, Unobstructed, Move
    <2>4. doomed' = [doomed EXCEPT ![p] = doomed[p]]  BY <2>3, PageFacts
    <2> HIDE DEF f
    <2>5. TablesFit' /\ PagesFit'
        BY <2>1, <2>2, <2>3, <2>4, DialogTyped, PageFacts
    <2>6. RequestsFit'  BY <1>1, <2>3 DEF RequestsFit, tables
    <2> QED  BY <1>1, <2>3, <2>5, <2>6 DEF Typed
<1>3. CASE CloseForm(p)
    <2>1. doomed' = [doomed EXCEPT ![p] = doomed[p]]  BY <1>3, PageFacts DEF CloseForm
    <2> QED  BY <1>1, <1>3, <2>1, CloseTyped, PageFacts DEF CloseForm, Move
<1>4. ASSUME NEW d \in Nat, IsOf(p, d, rows), form[p].open => d = 0,
             doomed' = [doomed EXCEPT ![p] = d], UNCHANGED <<tables, list, form, request>>,
             moves' = moves + 1
      PROVE  Typed'
    <2>1. form' = [form EXCEPT ![p] = form[p]]  BY <1>4, PageFacts
    <2>2. TablesFit' /\ PagesFit'  BY <1>4, <2>1, DialogTyped, PageFacts
    <2>3. RequestsFit'  BY <1>1, <1>4 DEF RequestsFit, tables
    <2> QED  BY <1>1, <1>4, <2>2, <2>3 DEF Typed
<1>5. CASE id # 0 /\ OpenRemove(p, id)
    BY <1>4, <1>5, ListedFacts DEF OpenRemove, Unobstructed, Move
<1>6. CASE CloseRemove(p)
    BY <1>4, <1>6, PageFacts DEF CloseRemove, Move
<1> QED  BY <1>2, <1>3, <1>5, <1>6

\* A request that carries nothing.
LEMMA IdleFacts ==
    /\ Idle \in RequestRecord /\ Idle.status = "none" /\ Idle.id = 0 /\ Idle.key = NoKey
    /\ ~Idle.blank /\ Idle.seen = <<>> /\ ~Idle.left
BY DEF Idle, RequestRecord, Status

\* What the schemas let through, and the clicks that send a row as it is.
LEMMA ClickTyped ==
    ASSUME Typed, NEW p \in Page,
           \/ \E key \in Keys(p), blank \in BOOLEAN : Submit(p, key, blank)
           \/ Confirm(p)
    PROVE  Typed'
<1>1. moves + 1 \in Nat /\ Len(rows) \in Nat
    BY TypedFacts DEF Typed
<1>2. ASSUME NEW key \in Keys(p), NEW blank \in BOOLEAN, Submit(p, key, blank) PROVE Typed'
    <2> DEFINE s == <<p, IF form[p].id = 0 THEN "create" ELSE "update">>
               r == [Idle EXCEPT !.status = "sent", !.id = form[p].id, !.key = key, !.blank = blank]
    <2>1. /\ Send(s, r) /\ FormTakes(p, form[p].id, key, blank)
          /\ UNCHANGED <<tables, pages>> /\ moves' = moves + 1
        BY <1>2 DEF Submit, Move
    <2>2. key \in Code \cup Pin \cup {NoKey} /\ (p = "stores" => key \in Code)
          /\ (p = "cashiers" => key \in Pin \cup {NoKey})
        BY DEF Keys, Page
    <2>3. /\ s \in Slot /\ s[1] = p /\ s[2] \in {"create", "update"}
          /\ (s[2] = "create" <=> form[p].id = 0)
        BY DEF Slot, Page
    <2> HIDE DEF s
    <2>4. /\ r \in RequestRecord /\ r.status = "sent" /\ r.id = form[p].id /\ r.key = key
          /\ r.blank = blank
        BY <2>2, PageFacts, IdleFacts DEF RequestRecord, Status
    <2> HIDE DEF r
    <2>5. Fits(s, r, rows)
        BY <2>1, <2>2, <2>3, <2>4, PageFacts DEF Fits, FormTakes, IsOf, Page
    <2> QED  BY <1>1, <2>1, <2>3, <2>4, <2>5, SendTyped
<1>3. CASE Confirm(p)
    <2> DEFINE s == <<p, "remove">>
               r == [Idle EXCEPT !.status = "sent", !.id = doomed[p]]
    <2>1. Send(s, r) /\ doomed[p] # 0 /\ UNCHANGED <<tables, pages>> /\ moves' = moves + 1
        BY <1>3 DEF Confirm, Move
    <2>2. s \in Slot /\ s[1] = p /\ s[2] = "remove"  BY DEF Slot, Page
    <2> HIDE DEF s
    <2>3. /\ r \in RequestRecord /\ r.status = "sent" /\ r.id = doomed[p] /\ ~r.blank
        BY PageFacts, IdleFacts DEF RequestRecord, Status
    <2> HIDE DEF r
    <2>4. Fits(s, r, rows)
        BY <2>1, <2>2, <2>3, PageFacts DEF Fits, IsOf, Page
    <2> QED  BY <1>1, <2>1, <2>2, <2>3, <2>4, SendTyped
<1> QED  BY <1>2, <1>3

\* The button of an inactive cashier.
LEMMA ReactivateTyped ==
    ASSUME Typed, NEW id, Reactivate(id)
    PROVE  Typed'
<1> DEFINE s == <<"cashiers", "reactivate">>
           r == [Idle EXCEPT !.status = "sent", !.id = id]
<1>1. Send(s, r) /\ Lists("cashiers", id) /\ UNCHANGED <<tables, pages>> /\ moves' \in Nat
    BY DEF Reactivate, Move, Typed
<1>2. s \in Slot /\ s[1] = "cashiers" /\ s[2] = "reactivate" /\ "cashiers" \in Page
    BY DEF Slot, Page
<1> HIDE DEF s
<1>3. id \in Nat /\ id # 0 /\ IsOf("cashiers", id, rows)  BY <1>1, <1>2, ListedFacts
<1>4. r \in RequestRecord /\ r.status = "sent" /\ r.id = id /\ ~r.blank
    BY <1>3, IdleFacts DEF RequestRecord, Status
<1> HIDE DEF r
<1>5. Fits(s, r, rows)  BY <1>2, <1>3, <1>4 DEF Fits, IsOf
<1> QED  BY <1>1, <1>2, <1>4, <1>5, SendTyped

\* The onboarding form.
LEMMA OnboardTyped ==
    ASSUME Typed, NEW tab \in {"one", "two"}, NEW code \in Code, NEW blank \in BOOLEAN,
           Onboard(tab, code, blank)
    PROVE  Typed'
<1> DEFINE s == <<"onboarding", tab>>
           r == [Idle EXCEPT !.status = "sent", !.key = code, !.blank = blank]
<1>1. Send(s, r) /\ UNCHANGED <<tables, pages>> /\ moves' \in Nat /\ Len(rows) \in Nat
    BY TypedFacts DEF Onboard, Move, Typed
<1>2. s \in Slot /\ s[1] = "onboarding" /\ s[2] \in {"one", "two"}  BY DEF Slot
<1> HIDE DEF s
<1>3. r \in RequestRecord /\ r.status = "sent" /\ r.id = 0 /\ r.key = code
    BY IdleFacts DEF RequestRecord, Status
<1> HIDE DEF r
<1>4. Fits(s, r, rows)  BY <1>1, <1>2, <1>3 DEF Fits, IsOf, Page
<1> QED  BY <1>1, <1>2, <1>3, <1>4, SendTyped

\* The till: what it sells is of a store and a cashier there are.
LEMMA TillTyped ==
    ASSUME Typed, \/ \E id \in DOMAIN rows : Sell(id)
                  \/ WriteSale
    PROVE  Typed'
<1> DEFINE s == <<"till", "sale">>
<1>1. s \in Slot /\ s[1] = "till" /\ s[2] = "sale"  BY DEF Slot
<1>2. /\ rows \in Seq(StoredRow) /\ DOMAIN rows = 1..Len(rows) /\ Len(rows) \in Nat
      /\ Earlier(rows, rows) /\ moves \in Nat /\ onboarded \in BOOLEAN
      /\ sold \subseteq 1..Len(rows)
    BY TypedFacts DEF Typed, TablesFit
<1>3. ASSUME NEW id \in 1..Len(rows), Sell(id) PROVE Typed'
    <2> DEFINE r == [Idle EXCEPT !.status = "read", !.id = id]
    <2>1. Send(s, r) /\ UNCHANGED <<tables, pages>> /\ moves' = moves + 1
        BY <1>3 DEF Sell, Move
    <2>5. moves' \in Nat  BY <1>2, <2>1
    <2>6. id \in Nat  BY <1>2
    <2>2. r \in RequestRecord /\ r.status = "read" /\ r.id = id /\ r.seen = <<>>
        BY <2>6, IdleFacts DEF RequestRecord, Status
    <2> HIDE DEF r, s
    <2>3. Earlier(<<>>, rows)  BY <1>2 DEF Earlier
    <2>4. Fits(s, r, rows)  BY <1>1, <1>2, <2>2, <2>3 DEF Fits, Page
    <2> QED  BY <1>1, <2>1, <2>2, <2>4, <2>5, SendTyped
<1>4. CASE WriteSale
    <2>1. /\ request' = [request EXCEPT ![s] = Idle] /\ UNCHANGED <<rows, onboarded, pages, moves>>
        BY <1>4 DEF WriteSale, Send
    <2>2. sold' \subseteq 1..Len(rows)
        BY <1>2, <1>4 DEF WriteSale, Exists, DatabaseTakes
    <2>3. Idle \in RequestRecord /\ Fits(s, Idle, rows)  BY <1>1, <1>2, IdleFits
    <2> HIDE DEF s
    <2> QED  BY <1>1, <1>2, <2>1, <2>2, <2>3, ServerTyped
<1> QED  BY <1>2, <1>3, <1>4

\* Every step, by who takes it.
LEMMA NextTyped == Typed /\ [Next]_vars => Typed'
<1> SUFFICES ASSUME Typed, [Next]_vars PROVE Typed'
    OBVIOUS
<1>1. CASE UNCHANGED vars
    BY <1>1 DEF vars, tables, pages, Typed, TablesFit, PagesFit, RequestsFit
<1>2. ASSUME NEW p \in Page, Refetch(p) PROVE Typed'
    <2>1. list' \in [Page -> Seq(StoredRow)]
        BY <1>2, TypedFacts DEF Refetch, Typed, PagesFit
    <2>2. ASSUME NEW q \in Page PROVE PageFits(q, list'[q], form[q], doomed[q], rows)
        BY <1>2, TypedFacts DEF Refetch, Typed, PagesFit, PageFits
    <2> QED  BY <1>2, <2>1, <2>2 DEF Refetch, tables, Typed, TablesFit, PagesFit, RequestsFit
<1>3. ASSUME NEW p \in Page, ListStep(p) \/ FormStep(p) \/ RemoveStep(p) PROVE Typed'
    <2>1. 0 \notin DOMAIN list[p]
        <3>1. list[p] \in Seq(StoredRow)  BY DEF Typed, PagesFit
        <3> QED  BY <3>1
    <2> QED  BY <1>3, <2>1, DialogStepTyped, ClickTyped DEF ListStep, FormStep, RemoveStep
<1>4. CASE Next
    BY <1>2, <1>3, <1>4, ReactivateTyped, OnboardTyped, TillTyped, HandleTyped, AnswerTyped DEF Next
<1> QED  BY <1>1, <1>4

\* The types hold at first.
LEMMA InitTyped == Init => Typed
<1> SUFFICES ASSUME Init PROVE Typed
    OBVIOUS
<1>1. rows \in Seq(StoredRow)
    <2>1. CASE rows = <<>>  BY <2>1
    <2>2. ASSUME NEW c \in Code, NEW p \in Pin, rows = <<Row("stores", c), Row("cashiers", p)>>
          PROVE  rows \in Seq(StoredRow)
        <3>1. Row("stores", c) \in StoredRow /\ Row("cashiers", p) \in StoredRow
            BY DEF Row, StoredRow, RowRecord, Page
        <3> QED  BY <2>2, <3>1
    <2> QED  BY <2>1, <2>2 DEF Init
<1>2. Len(rows) \in Nat /\ Earlier(rows, rows)
    BY <1>1 DEF Earlier
<1>6. sold = {} /\ onboarded \in BOOLEAN /\ moves \in Nat
    BY DEF Init
<1>3. PagesFit
    BY <1>1, <1>2 DEF Init, PagesFit, PageFits, FormRecord, IsOf
<1>4. ASSUME NEW s \in Slot PROVE request[s] \in RequestRecord /\ Fits(s, request[s], rows)
    BY <1>1, IdleFits DEF Init
<1>5. request \in [Slot -> RequestRecord]
    <2>1. request = [s \in Slot |-> request[s]]  BY DEF Init
    <2> QED  BY <1>4, <2>1
<1> QED  BY <1>1, <1>2, <1>3, <1>4, <1>5, <1>6 DEF Typed, TablesFit, RequestsFit

\* Types and parts give the type invariant.
LEMMA TypedTypes == Typed => TypeOK
<1> SUFFICES ASSUME Typed PROVE TypeOK
    OBVIOUS
<1>1. Len(rows) \in Nat /\ DOMAIN rows = 1..Len(rows) /\ sold \subseteq 1..Len(rows)
      /\ onboarded \in BOOLEAN
    BY TypedFacts DEF Typed, TablesFit
<1>2. \A t \in Seq(StoredRow) : t \in Seq(RowRecord)
    <2> SUFFICES ASSUME NEW t \in Seq(StoredRow) PROVE t \in Seq(RowRecord)
        OBVIOUS
    <2>1. Len(t) \in Nat /\ t \in [1..Len(t) -> StoredRow]  OBVIOUS
    <2>2. t \in [1..Len(t) -> RowRecord]  BY <2>1 DEF StoredRow
    <2> QED  BY <2>1, <2>2
<1>3. ASSUME NEW p \in Page
      PROVE  /\ list[p] \in Seq(RowRecord)
             /\ form[p].open \in BOOLEAN /\ form[p].id \in 0..Len(rows)
             /\ doomed[p] \in 0..Len(rows) /\ ~(form[p].open /\ doomed[p] # 0)
    <2>1. list[p] \in Seq(StoredRow)  BY DEF Typed, PagesFit
    <2> QED  BY <1>1, <1>2, <2>1, PageFacts DEF IsOf
<1>4. ASSUME NEW s \in Slot PROVE request[s].status \in Status /\ request[s].id \in 0..Len(rows)
    <2>1. request[s] \in RequestRecord /\ Fits(s, request[s], rows)  BY TypedFacts
    <2> QED  BY <1>1, <2>1 DEF RequestRecord, Fits
<1> QED  BY <1>1, <1>2, <1>3, <1>4, TypedFacts DEF TypeOK

\* The variables of the pages and handlers have their types, and what a form or a
\* request refers to is a row of its page: for any codes, PINs and number of rows.
THEOREM TypeCorrect == Spec => []TypeOK
<1>1. Spec => []Typed
    BY InitTyped, NextTyped, PTL DEF Spec
<1> QED  BY <1>1, TypedTypes, PTL

-----------------------------------------------------------------------------
(* The tables are sound                                                    *)

\* A row is inserted that the constraints of the database allow.
LEMMA AddedSound ==
    ASSUME Typed, TablesAreSound, NEW row, Added(row), row.page \in Page,
           DatabaseTakes(row.page, row.key, 0), sold' = sold
    PROVE  TablesAreSound'
<1> DEFINE n == Len(rows) + 1
<1>1. /\ DOMAIN rows = 1..Len(rows) /\ Len(rows) \in Nat /\ DOMAIN rows' = 1..n
      /\ \A i \in 1..Len(rows) : rows[i] \in StoredRow
      /\ rows'[n] = row /\ \A i \in 1..Len(rows) : rows'[i] = rows[i]
      /\ sold \subseteq 1..Len(rows)
    BY TypedFacts, AddedFacts DEF Typed, TablesFit
<1>2. /\ \A i \in 1..n : i # n => i \in 1..Len(rows) /\ rows'[i] = rows[i]
      /\ \A i \in 1..Len(rows) : i \in 1..n
    BY <1>1
<1>3. \A i \in 1..Len(rows) : Exists(i)' <=> Exists(i)
    BY <1>1, <1>2 DEF Exists
<1>4. row.page = "stores" => \A i \in 1..Len(rows) :
                               Exists(i) /\ rows[i].page = "stores" => rows[i].key # row.key
    BY <1>1 DEF DatabaseTakes, HasKey, StoredRow
<1>5. Exists(Shown) => Exists(Shown)'
    BY <1>1, <1>3 DEF Exists
<1>6. row.page = "cashiers" => Exists(Shown)'
    BY <1>5 DEF DatabaseTakes
<1> HIDE DEF n
<1>7. \A i, j \in DOMAIN rows' :
         i # j /\ rows'[i].page = "stores" /\ rows'[j].page = "stores" /\ Exists(i)' /\ Exists(j)'
             => rows'[i].key # rows'[j].key
    BY <1>1, <1>2, <1>3, <1>4 DEF TablesAreSound
<1>8. \A i \in DOMAIN rows' : rows'[i].page = "cashiers" /\ Exists(i)' => Exists(Shown)'
    BY <1>1, <1>2, <1>3, <1>5, <1>6 DEF TablesAreSound
<1>9. \A i \in sold' : Exists(i)'
    BY <1>1, <1>3 DEF TablesAreSound
<1> QED  BY <1>7, <1>8, <1>9 DEF TablesAreSound

\* A row is written over: within the constraints, or without a change of key.
LEMMA ReplacedSound ==
    ASSUME Typed, TablesAreSound, NEW id, NEW row, Replaced(id, row), row.page \in Page, row.exists,
           DatabaseTakes(row.page, row.key, id) \/ (row.page = "cashiers" /\ rows[id].exists),
           sold' = sold
    PROVE  TablesAreSound'
<1>1. /\ DOMAIN rows = 1..Len(rows) /\ Len(rows) \in Nat /\ DOMAIN rows' = 1..Len(rows)
      /\ \A i \in 1..Len(rows) : rows[i] \in StoredRow
      /\ rows'[id] = row /\ \A i \in 1..Len(rows) : i # id => rows'[i] = rows[i]
      /\ id \in 1..Len(rows) /\ rows[id].page = row.page
    BY TypedFacts, ReplacedFacts DEF Replaced
<1>2. \A i : Exists(i) => Exists(i)'
    BY <1>1 DEF Exists
<1>3. \A i \in 1..Len(rows) : i # id => (Exists(i)' <=> Exists(i))
    BY <1>1 DEF Exists
<1>4. row.page = "stores" => \A i \in 1..Len(rows) :
                               i # id /\ Exists(i) /\ rows[i].page = "stores" => rows[i].key # row.key
    BY <1>1 DEF DatabaseTakes, HasKey, StoredRow
<1>5. row.page = "cashiers" => Exists(Shown)
    <2>1. CASE rows[id].exists
        <3>1. Exists(id)  BY <1>1, <2>1 DEF Exists
        <3> QED  BY <1>1, <3>1 DEF TablesAreSound
    <2>2. CASE ~rows[id].exists  BY <2>2 DEF DatabaseTakes
    <2> QED  BY <2>1, <2>2
<1>6. \A i, j \in DOMAIN rows' :
         i # j /\ rows'[i].page = "stores" /\ rows'[j].page = "stores" /\ Exists(i)' /\ Exists(j)'
             => rows'[i].key # rows'[j].key
    BY <1>1, <1>3, <1>4 DEF TablesAreSound
<1>7. \A i \in DOMAIN rows' : rows'[i].page = "cashiers" /\ Exists(i)' => Exists(Shown)'
    BY <1>1, <1>2, <1>3, <1>5 DEF TablesAreSound
<1>8. \A i \in sold' : Exists(i)'
    BY <1>2 DEF TablesAreSound
<1> QED  BY <1>6, <1>7, <1>8 DEF TablesAreSound

\* A store is deleted with all of its cashiers, and nothing that has sales.
LEMMA DeletedSound ==
    ASSUME Typed, TablesAreSound, NEW gone, Deleted(gone), gone \cap sold = {},
           Shown \in gone =>
               \A i \in 1..Len(rows) : rows[i].page = "cashiers" /\ rows[i].exists => i \in gone,
           sold' = sold
    PROVE  TablesAreSound'
<1>1. /\ DOMAIN rows = 1..Len(rows) /\ DOMAIN rows' = 1..Len(rows)
      /\ \A i \in 1..Len(rows) :
            /\ rows'[i].page = rows[i].page /\ rows'[i].key = rows[i].key
            /\ rows'[i].exists = (rows[i].exists /\ i \notin gone)
    BY TypedFacts, DeletedFacts
<1>2. \A i : Exists(i)' <=> Exists(i) /\ i \notin gone
    BY <1>1 DEF Exists
<1>3. \A i \in DOMAIN rows' : rows'[i].page = "cashiers" /\ Exists(i)' => Exists(Shown)'
    <2> SUFFICES ASSUME NEW i \in 1..Len(rows), rows[i].page = "cashiers", Exists(i), i \notin gone
                 PROVE  Exists(Shown) /\ Shown \notin gone
        BY <1>1, <1>2
    <2> QED  BY <1>1 DEF TablesAreSound, Exists
<1>4. \A i, j \in DOMAIN rows' :
         i # j /\ rows'[i].page = "stores" /\ rows'[j].page = "stores" /\ Exists(i)' /\ Exists(j)'
             => rows'[i].key # rows'[j].key
    BY <1>1, <1>2 DEF TablesAreSound
<1>5. \A i \in sold' : Exists(i)'
    BY <1>2 DEF TablesAreSound
<1> QED  BY <1>3, <1>4, <1>5 DEF TablesAreSound

\* Who changes the tables.
LEMMA TableSteps ==
    ASSUME Typed, [Next]_vars
    PROVE  \/ UNCHANGED <<rows, sold>>
           \/ WriteSale
           \/ \E s \in Slot : /\ WriteSave(s) \/ WriteOnboarding(s) \/ WriteRemove(s)
                              /\ sold' = sold
<1>1. CASE UNCHANGED vars  BY <1>1 DEF vars, tables
<1>2. ASSUME NEW p \in Page, ListStep(p) \/ FormStep(p) \/ RemoveStep(p) \/ Refetch(p)
      PROVE  UNCHANGED <<rows, sold>>
    BY <1>2 DEF ListStep, FormStep, RemoveStep, Refetch, OpenForm, OpenRemove, CloseForm, CloseRemove,
                Submit, Confirm, tables
<1>3. ASSUME NEW s \in Slot, Answer(s) PROVE UNCHANGED <<rows, sold>>
    BY <1>3 DEF Answer, Lose, AnswerSuccess, AnswerError, tables
<1>4. ASSUME NEW s \in Slot, Handle(s)
      PROVE  \/ UNCHANGED <<rows, sold>>
             \/ (WriteSave(s) \/ WriteOnboarding(s) \/ WriteRemove(s)) /\ sold' = sold
    BY <1>4 DEF Handle, ReadSave, ReadOnboarding, ReadRemove, WriteSave, WriteOnboarding, WriteRemove,
                tables
<1>5. \A id : Reactivate(id) => UNCHANGED <<rows, sold>>  BY DEF Reactivate, tables
<1>6. \A id : Sell(id) => UNCHANGED <<rows, sold>>  BY DEF Sell, tables
<1>7. \A tab, c, blank : Onboard(tab, c, blank) => UNCHANGED <<rows, sold>>  BY DEF Onboard, tables
<1> QED  BY <1>1, <1>2, <1>3, <1>4, <1>5, <1>6, <1>7 DEF Next

\* The onboarding inserts a store.
LEMMA OnboardingWrites ==
    ASSUME Typed, NEW s \in Slot, WriteOnboarding(s)
    PROVE  \/ UNCHANGED rows
           \/ \E row : Added(row) /\ row.page = "stores" /\ DatabaseTakes("stores", row.key, 0)
<1> DEFINE row == Row("stores", request[s].key)
<1>1. request[s].key \in Code  BY TypedFacts DEF WriteOnboarding, Fits
<1>2. row \in StoredRow /\ row.exists /\ row.page = "stores" /\ row.key = request[s].key
    BY <1>1 DEF Row, StoredRow, RowRecord, Page
<1>3. \/ UNCHANGED rows
      \/ rows' = Append(rows, row) /\ DatabaseTakes("stores", request[s].key, 0)
    BY DEF WriteOnboarding
<1> HIDE DEF row
<1> QED  BY <1>2, <1>3 DEF Added

\* Every change of the tables, by who makes it.
LEMMA NextSound == Typed /\ TablesAreSound /\ [Next]_vars => TablesAreSound'
<1> SUFFICES ASSUME Typed, TablesAreSound, [Next]_vars PROVE TablesAreSound'
    OBVIOUS
<1>1. CASE UNCHANGED <<rows, sold>>
    BY <1>1 DEF TablesAreSound, Exists
<1>2. CASE WriteSale
    <2>1. /\ UNCHANGED rows
          /\ \/ sold' = sold
             \/ Exists(Shown) /\ \E id : Exists(id) /\ sold' = sold \cup {Shown, id}
        BY <1>2 DEF WriteSale, DatabaseTakes
    <2> QED  BY <2>1 DEF TablesAreSound, Exists
<1>3. ASSUME NEW s \in Slot, WriteSave(s), sold' = sold PROVE TablesAreSound'
    BY <1>1, <1>3, SaveWrites, AddedSound, ReplacedSound
<1>4. ASSUME NEW s \in Slot, WriteOnboarding(s), sold' = sold PROVE TablesAreSound'
    BY <1>1, <1>4, OnboardingWrites, AddedSound DEF Page
<1>5. ASSUME NEW s \in Slot, WriteRemove(s), sold' = sold PROVE TablesAreSound'
    BY <1>1, <1>5, RemoveWrites, DeletedSound, ReplacedSound DEF Page
<1> QED  BY <1>1, <1>2, <1>3, <1>4, <1>5, TableSteps

\* A new owner's tables are empty, the other has one store with one cashier.
LEMMA InitSound == Init => TablesAreSound
<1> SUFFICES ASSUME Init PROVE TablesAreSound
    OBVIOUS
<1>1. sold = {}  BY DEF Init
<1>2. CASE rows = <<>>  BY <1>1, <1>2 DEF TablesAreSound
<1>3. ASSUME NEW c \in Code, NEW p \in Pin, rows = <<Row("stores", c), Row("cashiers", p)>>
      PROVE  TablesAreSound
    <2>1. DOMAIN rows = {1, 2} /\ rows[1].page = "stores" /\ rows[1].exists /\ rows[2].page = "cashiers"
        BY <1>3 DEF Row
    <2> QED  BY <1>1, <2>1, PagesAssumption DEF TablesAreSound, Exists
<1> QED  BY <1>2, <1>3 DEF Init

\* Stores keep distinct codes, cashiers their store and sales both, whatever saves,
\* deletions, onboardings and sales overlap.
THEOREM TablesCorrect == Spec => []TablesAreSound
<1>1. Spec => [](Typed /\ TablesAreSound)
    BY InitTyped, NextTyped, InitSound, NextSound, PTL DEF Spec
<1> QED  BY <1>1, PTL

-----------------------------------------------------------------------------
(* Which rows come back                                                    *)

\* What ReturnsOnlyByOverlap says of a step.
Returned ==
    \A i \in DOMAIN rows :
        /\ (Exists(i)' /\ ~Exists(i)) => \E s \in Slot : WritesBack(s, i)
        /\ (rows'[i].active /\ ~rows[i].active) =>
               \E s \in Slot : /\ WritesBack(s, i)
                               /\ request[s].seen[i].active \/ s[2] = "reactivate"

\* Only a save that writes back what it had read brings a row back.
LEMMA ReturnedStep == Typed /\ [Next]_vars => Returned
<1> SUFFICES ASSUME Typed, [Next]_vars PROVE Returned
    OBVIOUS
<1>1. DOMAIN rows = 1..Len(rows) /\ Len(rows) \in Nat  BY TypedFacts
<1>2. CASE \A i \in 1..Len(rows) : rows'[i] = rows[i]
    BY <1>1, <1>2 DEF Returned, Exists
<1>3. ASSUME NEW row, Added(row) PROVE Returned
    BY <1>2, <1>3, AddedFacts
<1>4. ASSUME NEW s \in Slot, NEW row, Replaced(request[s].id, row), WritesBack(s, request[s].id),
             row.active => request[s].seen[request[s].id].active \/ s[2] = "reactivate"
      PROVE  Returned
    BY <1>1, <1>4, ReplacedFacts DEF Returned, Exists
<1>5. ASSUME NEW gone, Deleted(gone) PROVE Returned
    BY <1>1, <1>5, DeletedFacts DEF Returned, Exists
<1>6. ASSUME NEW id, NEW row, Replaced(id, row), rows[id].exists, ~row.active PROVE Returned
    BY <1>1, <1>6, ReplacedFacts DEF Returned, Exists
<1>7. UNCHANGED rows => Returned  BY <1>2
<1>8. WriteSale => Returned  BY <1>7 DEF WriteSale
<1>9. \A s \in Slot : WriteSave(s) => Returned  BY <1>3, <1>4, <1>7, SaveWrites
<1>10. \A s \in Slot : WriteOnboarding(s) => Returned  BY <1>3, <1>7, OnboardingWrites
<1>11. \A s \in Slot : WriteRemove(s) => Returned  BY <1>5, <1>6, <1>7, RemoveWrites
<1> QED  BY <1>7, <1>8, <1>9, <1>10, <1>11, TableSteps

\* A deleted row or a deactivated cashier returns only by a save that had read it
\* before, or by the reactivation: for any number of rows and overlapping requests.
THEOREM ReturnsCorrect == Spec => ReturnsOnlyByOverlap
<1>1. Spec => []Typed
    BY InitTyped, NextTyped, PTL DEF Spec
<1>2. Typed /\ [Next]_vars => [Returned]_vars
    BY ReturnedStep
<1>3. Spec => [][Returned]_vars
    BY <1>1, <1>2, PTL DEF Spec
<1> QED  BY <1>3 DEF ReturnsOnlyByOverlap, Returned

-----------------------------------------------------------------------------
(* What a form may rely on                                                 *)

\* A form that waits for an answer is still open, with the row it sent.
WaitsFor(f, r) == r.status # "none" /\ ~r.left => f.open /\ f.id = r.id

Waiting == \A p \in Page, m \in {"create", "update"} : WaitsFor(form[p], request[<<p, m>>])

\* The slots of the forms.
LEMMA FormSlotFacts ==
    ASSUME NEW p \in Page, NEW m \in {"create", "update"}
    PROVE  <<p, m>> \in Slot /\ <<p, m>>[1] = p /\ <<p, m>>[2] = m
BY DEF Slot, Page

\* A closed form waits for nothing it has not left.
LEMMA CloseFacts ==
    ASSUME Typed, NEW p \in Page, NEW r \in [Slot -> RequestRecord], Close(p, r)
    PROVE  /\ form'[p].open = FALSE /\ \A q \in Page : q # p => form'[q] = form[q]
           /\ \A s \in Slot : /\ request'[s].status = r[s].status
                              /\ s[1] = p /\ r[s].status # "none" => request'[s].left
                              /\ s[1] # p \/ r[s].status = "none" => request'[s] = r[s]
<1>1. form' = [form EXCEPT ![p].open = FALSE] /\ form \in [Page -> FormRecord]
    BY PageFacts DEF Close
<1>2. form'[p].open = FALSE /\ \A q \in Page : q # p => form'[q] = form[q]
    BY <1>1 DEF FormRecord
<1>3. ASSUME NEW s \in Slot
      PROVE  /\ request'[s].status = r[s].status
             /\ s[1] = p /\ r[s].status # "none" => request'[s].left
             /\ s[1] # p \/ r[s].status = "none" => request'[s] = r[s]
    <2>1. r[s] \in RequestRecord  OBVIOUS
    <2>2. /\ [r[s] EXCEPT !.left = TRUE].status = r[s].status
          /\ [r[s] EXCEPT !.left = TRUE].left
        BY <2>1 DEF RequestRecord
    <2>3. request'[s] = IF s[1] = p /\ r[s].status # "none"
                        THEN [r[s] EXCEPT !.left = TRUE] ELSE r[s]
        BY DEF Close
    <2> QED  BY <2>2, <2>3
<1> QED  BY <1>2, <1>3

\* One request changes: it ends, was left, or is what its form now sends.
LEMMA WaitingKept ==
    ASSUME Typed, Waiting, NEW s \in Slot, NEW r, request' = [request EXCEPT ![s] = r], UNCHANGED form,
           s[1] \in Page => WaitsFor(form[s[1]], r) \/ s[2] \notin {"create", "update"}
    PROVE  Waiting'
<1> SUFFICES ASSUME NEW p \in Page, NEW m \in {"create", "update"}
             PROVE  WaitsFor(form[p], request'[<<p, m>>])
    BY DEF Waiting
<1>1. <<p, m>> \in Slot /\ <<p, m>>[1] = p /\ <<p, m>>[2] = m  BY FormSlotFacts
<1>2. request \in [Slot -> RequestRecord]  BY TypedFacts
<1>3. CASE s = <<p, m>>
    <2>1. request'[s] = r  BY <1>2
    <2> QED  BY <1>1, <1>3, <2>1
<1>4. CASE s # <<p, m>>
    <2>1. request'[<<p, m>>] = request[<<p, m>>]  BY <1>1, <1>2, <1>4
    <2> QED  BY <2>1 DEF Waiting
<1> QED  BY <1>3, <1>4

\* A request that goes on or ends is waited for as before.
LEMMA FinishWaits ==
    ASSUME Typed, Waiting, NEW s \in Slot, request[s].status # "none", UNCHANGED form,
           Proceed(s) \/ \E status \in Status : Finish(s, status)
    PROVE  Waiting'
<1>1. request[s] \in RequestRecord /\ request \in [Slot -> RequestRecord]  BY TypedFacts
<1>2. PICK r : /\ request' = [request EXCEPT ![s] = r]
               /\ r.id = request[s].id /\ r.left = request[s].left
    <2>1. CASE Proceed(s)
        <3> DEFINE r == [request[s] EXCEPT !.status = "read", !.seen = rows]
        <3>1. request' = [request EXCEPT ![s] = r]  BY <1>1, <2>1 DEF Proceed, RequestRecord
        <3>2. r.id = request[s].id /\ r.left = request[s].left  BY <1>1 DEF RequestRecord
        <3> QED  BY <3>1, <3>2
    <2>2. ASSUME NEW status \in Status, Finish(s, status)
          PROVE  \E r : /\ request' = [request EXCEPT ![s] = r]
                        /\ r.id = request[s].id /\ r.left = request[s].left
        <3> DEFINE r == [request[s] EXCEPT !.status = status]
        <3>1. request' = [request EXCEPT ![s] = r]  BY <1>1, <2>2 DEF Finish, RequestRecord
        <3>2. r.id = request[s].id /\ r.left = request[s].left  BY <1>1 DEF RequestRecord
        <3> QED  BY <3>1, <3>2
    <2> QED  BY <2>1, <2>2
<1>3. s[1] \in Page => WaitsFor(form[s[1]], r) \/ s[2] \notin {"create", "update"}
    <2> SUFFICES ASSUME s[1] \in Page, s[2] \in {"create", "update"} PROVE WaitsFor(form[s[1]], r)
        OBVIOUS
    <2>1. s = <<s[1], s[2]>>  BY SlotFacts
    <2>2. WaitsFor(form[s[1]], request[s])  BY <2>1 DEF Waiting
    <2> QED  BY <1>2, <2>2 DEF WaitsFor
<1> QED  BY <1>2, <1>3, WaitingKept

\* After a close nothing of the page is waited for.
LEMMA CloseWaits ==
    ASSUME Typed, Waiting, NEW p \in Page, NEW r \in [Slot -> RequestRecord], Close(p, r),
           \A s \in Slot : r[s] = request[s] \/ r[s].status = "none"
    PROVE  Waiting'
<1> SUFFICES ASSUME NEW q \in Page, NEW m \in {"create", "update"}
             PROVE  WaitsFor(form'[q], request'[<<q, m>>])
    BY DEF Waiting
<1>1. <<q, m>> \in Slot /\ <<q, m>>[1] = q  BY FormSlotFacts
<1>2. CASE r[<<q, m>>].status = "none"
    BY <1>1, <1>2, CloseFacts DEF WaitsFor
<1>3. CASE r[<<q, m>>].status # "none" /\ q = p
    BY <1>1, <1>3, CloseFacts DEF WaitsFor
<1>4. CASE r[<<q, m>>].status # "none" /\ q # p
    <2>1. request'[<<q, m>>] = request[<<q, m>>] /\ form'[q] = form[q]
        BY <1>1, <1>4, CloseFacts
    <2> QED  BY <2>1 DEF Waiting
<1> QED  BY <1>2, <1>3, <1>4

\* What a handler does to its request.
LEMMA HandleFacts ==
    ASSUME Typed, NEW s \in Slot, Handle(s)
    PROVE  /\ request[s].status \in {"sent", "read"} /\ UNCHANGED <<pages, moves>>
           /\ Proceed(s) \/ \E status \in {"done", "refused", "error"} : Finish(s, status)
<1>1. CASE ReadSave(s) \/ ReadOnboarding(s) \/ ReadRemove(s)
    BY <1>1 DEF ReadSave, ReadOnboarding, ReadRemove
<1>2. CASE WriteSave(s) \/ WriteOnboarding(s) \/ WriteRemove(s)
    BY <1>2 DEF WriteSave, WriteOnboarding, WriteRemove
<1> QED  BY <1>1, <1>2 DEF Handle

\* What an answer does: only the success of a save closes the form.
LEMMA AnswerFacts ==
    ASSUME Typed, NEW s \in Slot, Answer(s)
    PROVE  \/ Finish(s, "lost") /\ request[s].status # "none" /\ UNCHANGED form
           \/ \E r \in {Idle, Over} : /\ request' = [request EXCEPT ![s] = r] /\ UNCHANGED form
                                      /\ r = Over => s[1] \notin Page
           \/ /\ s[1] \in Page /\ s[2] \in {"create", "update"} /\ request[s].status = "done"
              /\ Close(s[1], [request EXCEPT ![s] = Idle])
<1>0. Idle # Over  BY IdleFacts, IdleFits DEF Over, RequestRecord
<1>1. CASE Lose(s)
    BY <1>1 DEF Lose, pages
<1>2. CASE AnswerError(s)
    BY <1>2, <1>0 DEF AnswerError, Send, pages
<1>3. CASE AnswerSuccess(s)
    <2>1. CASE s[1] \in Page /\ s[2] \in {"create", "update"}
        <3>1. s[1] # "onboarding"  BY <2>1 DEF Page
        <3> QED  BY <1>3, <2>1, <3>1 DEF AnswerSuccess
    <2>2. CASE ~(s[1] \in Page /\ s[2] \in {"create", "update"})
        <3>1. /\ UNCHANGED form
              /\ request' = [request EXCEPT ![s] = IF s[1] = "onboarding" THEN Over ELSE Idle]
            BY <1>3, <2>2 DEF AnswerSuccess
        <3> QED  BY <1>0, <3>1 DEF Page
    <2> QED  BY <2>1, <2>2
<1> QED  BY <1>1, <1>2, <1>3 DEF Answer

\* What a click sends, if anything.
LEMMA ClickFacts ==
    ASSUME Typed,
           \/ \E p \in Page : FormStep(p) \/ RemoveStep(p)
           \/ \E id : Reactivate(id) \/ Sell(id)
           \/ \E tab \in {"one", "two"}, c \in Code, blank \in BOOLEAN : Onboard(tab, c, blank)
    PROVE  /\ moves' = moves + 1
           /\ \/ UNCHANGED <<form, request>>
              \/ \E p \in Page : Close(p, request)
              \/ /\ UNCHANGED form
                 /\ \E s \in Slot : \E r :
                        /\ request' = [request EXCEPT ![s] = r]
                        /\ r.status \in {"sent", "read"}
                        /\ s[2] \in {"create", "update"} =>
                              s[1] \in Page /\ form[s[1]].open /\ r.id = form[s[1]].id
<1>1. ASSUME NEW p \in Page, CloseForm(p) \/ CloseRemove(p)
      PROVE  /\ moves' = moves + 1
             /\ \/ UNCHANGED <<form, request>>
                \/ Close(p, request)
    BY <1>1 DEF CloseForm, CloseRemove, Move
<1> DEFINE Sends(s, r) ==
               /\ moves' = moves + 1 /\ UNCHANGED form
               /\ request' = [request EXCEPT ![s] = r]
               /\ r.status \in {"sent", "read"}
               /\ s[2] \in {"create", "update"} =>
                     s[1] \in Page /\ form[s[1]].open /\ r.id = form[s[1]].id
<1>2. ASSUME NEW p \in Page, NEW key \in Keys(p), NEW blank \in BOOLEAN, Submit(p, key, blank)
      PROVE  \E s \in Slot : \E r : Sends(s, r)
    <2> DEFINE s == <<p, IF form[p].id = 0 THEN "create" ELSE "update">>
               r == [Idle EXCEPT !.status = "sent", !.id = form[p].id, !.key = key, !.blank = blank]
    <2>1. /\ request' = [request EXCEPT ![s] = r] /\ UNCHANGED form /\ moves' = moves + 1 /\ form[p].open
        BY <1>2 DEF Submit, Move, Send, pages
    <2>2. s \in Slot /\ s[1] = p  BY FormSlotFacts
    <2>3. r.status = "sent" /\ r.id = form[p].id  BY IdleFacts DEF RequestRecord
    <2> HIDE DEF s, r
    <2>4. Sends(s, r)  BY <2>1, <2>2, <2>3
    <2> QED  BY <2>2, <2>4
<1>3. ASSUME NEW p \in Page, Confirm(p) PROVE \E s \in Slot : \E r : Sends(s, r)
    <2> DEFINE s == <<p, "remove">>
               r == [Idle EXCEPT !.status = "sent", !.id = doomed[p]]
    <2>1. request' = [request EXCEPT ![s] = r] /\ UNCHANGED form /\ moves' = moves + 1
        BY <1>3 DEF Confirm, Move, Send, pages
    <2>2. s \in Slot /\ s[2] = "remove"  BY DEF Slot, Page
    <2>3. r.status = "sent"  BY IdleFacts DEF RequestRecord
    <2> HIDE DEF s, r
    <2>4. Sends(s, r)  BY <2>1, <2>2, <2>3
    <2> QED  BY <2>2, <2>4
<1>4. ASSUME NEW id, Reactivate(id) PROVE \E s \in Slot : \E r : Sends(s, r)
    <2> DEFINE s == <<"cashiers", "reactivate">>
               r == [Idle EXCEPT !.status = "sent", !.id = id]
    <2>1. request' = [request EXCEPT ![s] = r] /\ UNCHANGED form /\ moves' = moves + 1
        BY <1>4 DEF Reactivate, Move, Send, pages
    <2>2. s \in Slot /\ s[2] = "reactivate"  BY DEF Slot
    <2>3. r.status = "sent"  BY IdleFacts DEF RequestRecord
    <2> HIDE DEF s, r
    <2>4. Sends(s, r)  BY <2>1, <2>2, <2>3
    <2> QED  BY <2>2, <2>4
<1>5. ASSUME NEW id, Sell(id) PROVE \E s \in Slot : \E r : Sends(s, r)
    <2> DEFINE s == <<"till", "sale">>
               r == [Idle EXCEPT !.status = "read", !.id = id]
    <2>1. request' = [request EXCEPT ![s] = r] /\ UNCHANGED form /\ moves' = moves + 1
        BY <1>5 DEF Sell, Move, Send, pages
    <2>2. s \in Slot /\ s[2] = "sale"  BY DEF Slot
    <2>3. r.status = "read"  BY IdleFacts DEF RequestRecord
    <2> HIDE DEF s, r
    <2>4. Sends(s, r)  BY <2>1, <2>2, <2>3
    <2> QED  BY <2>2, <2>4
<1>6. ASSUME NEW tab \in {"one", "two"}, NEW c \in Code, NEW blank \in BOOLEAN, Onboard(tab, c, blank)
      PROVE  \E s \in Slot : \E r : Sends(s, r)
    <2> DEFINE s == <<"onboarding", tab>>
               r == [Idle EXCEPT !.status = "sent", !.key = c, !.blank = blank]
    <2>1. request' = [request EXCEPT ![s] = r] /\ UNCHANGED form /\ moves' = moves + 1
        BY <1>6 DEF Onboard, Move, Send, pages
    <2>2. s \in Slot /\ s[2] = tab  BY DEF Slot
    <2>3. r.status = "sent"  BY IdleFacts DEF RequestRecord
    <2> HIDE DEF s, r
    <2>4. Sends(s, r)  BY <2>1, <2>2, <2>3
    <2> QED  BY <2>2, <2>4
<1>7. (\E s \in Slot : \E r : Sends(s, r)) =>
          /\ moves' = moves + 1 /\ UNCHANGED form
          /\ \E s \in Slot : \E r :
                 /\ request' = [request EXCEPT ![s] = r]
                 /\ r.status \in {"sent", "read"}
                 /\ s[2] \in {"create", "update"} =>
                       s[1] \in Page /\ form[s[1]].open /\ r.id = form[s[1]].id
    OBVIOUS
<1> HIDE DEF Sends
<1> QED  BY <1>1, <1>2, <1>3, <1>4, <1>5, <1>6, <1>7 DEF FormStep, RemoveStep

\* The clicks that send nothing, and do not close a form.
LEMMA OpenFacts ==
    ASSUME Typed, NEW p \in Page, ListStep(p) \/ Refetch(p)
    PROVE  /\ UNCHANGED request
           /\ \/ UNCHANGED form
              \/ /\ ~form[p].open /\ moves' = moves + 1
                 /\ \A q \in Page : q # p => form'[q] = form[q]
<1>1. form \in [Page -> FormRecord]  BY PageFacts
<1>2. ASSUME NEW id, OpenForm(p, id)
      PROVE  /\ UNCHANGED request /\ ~form[p].open /\ moves' = moves + 1
             /\ \A q \in Page : q # p => form'[q] = form[q]
    BY <1>1, <1>2 DEF OpenForm, Unobstructed, Move
<1>3. ASSUME NEW id, OpenRemove(p, id) PROVE UNCHANGED <<form, request>>
    BY <1>3 DEF OpenRemove
<1> QED  BY <1>2, <1>3 DEF ListStep, Refetch

\* Every step keeps what a form waits for.
LEMMA NextWaits == Typed /\ Waiting /\ [Next]_vars => Waiting'
<1> SUFFICES ASSUME Typed, Waiting, [Next]_vars PROVE Waiting'
    OBVIOUS
<1>1. UNCHANGED <<form, request>> => Waiting'
    BY DEF Waiting
<1>2. UNCHANGED vars => UNCHANGED <<form, request>>  BY DEF vars, pages
<1>3. request \in [Slot -> RequestRecord]  BY TypedFacts
<1>4. ASSUME NEW p \in Page, Close(p, request) PROVE Waiting'
    BY <1>3, <1>4, CloseWaits
<1>5. ASSUME NEW p \in Page, ListStep(p) \/ Refetch(p) PROVE Waiting'
    <2>1. CASE UNCHANGED form  BY <1>1, <1>5, <2>1, OpenFacts
    <2>2. CASE ~form[p].open /\ \A q \in Page : q # p => form'[q] = form[q]
        <3>1. request' = request  BY <1>5, OpenFacts
        <3> QED  BY <2>2, <3>1 DEF Waiting, WaitsFor
    <2> QED  BY <1>5, <2>1, <2>2, OpenFacts
<1>6. ASSUME NEW s \in Slot, NEW r, request' = [request EXCEPT ![s] = r], UNCHANGED form,
             \/ r.status = "none"
             \/ s[2] \in {"create", "update"} =>
                    s[1] \in Page /\ form[s[1]].open /\ r.id = form[s[1]].id
      PROVE  Waiting'
    BY <1>6, WaitingKept DEF WaitsFor
<1>7. ASSUME NEW s \in Slot, Handle(s) PROVE Waiting'
    <2>1. request[s].status # "none" /\ UNCHANGED form
          /\ (Proceed(s) \/ \E status \in Status : Finish(s, status))
        BY <1>7, HandleFacts DEF pages, Status
    <2> QED  BY <2>1, FinishWaits
<1>8. ASSUME NEW s \in Slot, Answer(s) PROVE Waiting'
    <2>1. CASE Finish(s, "lost") /\ request[s].status # "none" /\ UNCHANGED form
        BY <2>1, FinishWaits DEF Status
    <2>2. ASSUME NEW r \in {Idle, Over}, request' = [request EXCEPT ![s] = r], UNCHANGED form,
                 r = Over => s[1] \notin Page
          PROVE  Waiting'
        <3>1. CASE r = Idle  BY <1>6, <2>2, <3>1, IdleFacts
        <3>2. CASE r = Over
            <4>1. s[1] \notin Page  BY <2>2, <3>2
            <4> QED  BY <2>2, <4>1, WaitingKept
        <3> QED  BY <3>1, <3>2
    <2>3. CASE s[1] \in Page /\ Close(s[1], [request EXCEPT ![s] = Idle])
        <3> DEFINE a == [request EXCEPT ![s] = Idle]
        <3>1. a \in [Slot -> RequestRecord] /\ \A x \in Slot : a[x] = request[x] \/ a[x].status = "none"
            BY <1>3, IdleFacts
        <3> HIDE DEF a
        <3> QED  BY <2>3, <3>1, CloseWaits DEF a
    <2> QED  BY <1>8, <2>1, <2>2, <2>3, AnswerFacts
<1>9. CASE \/ \E p \in Page : FormStep(p) \/ RemoveStep(p)
           \/ \E id : Reactivate(id) \/ Sell(id)
           \/ \E tab \in {"one", "two"}, c \in Code, blank \in BOOLEAN : Onboard(tab, c, blank)
    BY <1>1, <1>4, <1>6, <1>9, ClickFacts
<1>10. CASE WriteSale
    <2> DEFINE s == <<"till", "sale">>
    <2>1. /\ request' = [request EXCEPT ![s] = Idle] /\ UNCHANGED form
        BY <1>10 DEF WriteSale, Send, pages
    <2>2. s \in Slot  BY DEF Slot
    <2> HIDE DEF s
    <2> QED  BY <1>6, <2>1, <2>2, IdleFacts
<1> QED  BY <1>1, <1>2, <1>5, <1>7, <1>8, <1>9, <1>10 DEF Next

\* What ClosesWhenSaved says of a step.
Closes ==
    \A p \in Page :
        form[p].open /\ ~form'[p].open /\ moves' = moves =>
            \E s \in Slot : /\ s[1] = p /\ request[s].status = "done" /\ request'[s] = Idle
                            /\ request[s].id = form[p].id \/ request[s].left

\* A click that closes a form is counted; else it is the success of what it sent.
LEMMA ClosesStep == Typed /\ Waiting /\ [Next]_vars => Closes
<1> SUFFICES ASSUME Typed, Waiting, [Next]_vars PROVE Closes
    OBVIOUS
<1>1. UNCHANGED form => Closes  BY DEF Closes
<1>2. moves' = moves + 1 => Closes  BY DEF Typed, Closes
<1>3. UNCHANGED vars => UNCHANGED form  BY DEF vars, pages
<1>4. ASSUME NEW p \in Page, ListStep(p) \/ Refetch(p) PROVE Closes
    BY <1>1, <1>2, <1>4, OpenFacts
<1>5. ASSUME NEW s \in Slot, Handle(s) PROVE Closes
    BY <1>1, <1>5, HandleFacts DEF pages
<1>6. ASSUME NEW s \in Slot, Answer(s) PROVE Closes
    <2> DEFINE a == [request EXCEPT ![s] = Idle]
    <2>1. CASE /\ s[1] \in Page /\ s[2] \in {"create", "update"} /\ request[s].status = "done"
               /\ Close(s[1], a)
        <3>1. a \in [Slot -> RequestRecord] /\ a[s] = Idle  BY TypedFacts, IdleFacts
        <3> HIDE DEF a
        <3>2. request'[s] = Idle /\ \A q \in Page : q # s[1] => form'[q] = form[q]
            BY <2>1, <3>1, CloseFacts, IdleFacts
        <3>3. request[s].id = form[s[1]].id \/ request[s].left
            <4>1. s = <<s[1], s[2]>>  BY SlotFacts
            <4>2. WaitsFor(form[s[1]], request[s])  BY <2>1, <4>1 DEF Waiting
            <4> QED  BY <2>1, <4>2 DEF WaitsFor
        <3> QED  BY <2>1, <3>2, <3>3 DEF Closes
    <2>2. UNCHANGED form => Closes  BY <1>1
    <2> HIDE DEF a
    <2> QED  BY <1>6, <2>1, <2>2, AnswerFacts DEF a
<1>7. WriteSale => Closes  BY <1>1 DEF WriteSale, pages
<1>8. CASE \/ \E p \in Page : FormStep(p) \/ RemoveStep(p)
           \/ \E id : Reactivate(id) \/ Sell(id)
           \/ \E tab \in {"one", "two"}, c \in Code, blank \in BOOLEAN : Onboard(tab, c, blank)
    BY <1>2, <1>8, ClickFacts
<1> QED  BY <1>1, <1>3, <1>4, <1>5, <1>6, <1>7, <1>8 DEF Next

\* No form waits for anything at first.
LEMMA InitWaits == Init => Waiting
<1> SUFFICES ASSUME Init, NEW p \in Page, NEW m \in {"create", "update"}
             PROVE  WaitsFor(form[p], request[<<p, m>>])
    BY DEF Waiting
<1>1. <<p, m>> \in Slot /\ <<p, m>>[1] # "onboarding"  BY FormSlotFacts DEF Page
<1>2. request[<<p, m>>] = Idle  BY <1>1 DEF Init
<1> QED  BY <1>2, IdleFacts DEF WaitsFor

\* A form closes under the owner's hands only for the save it sent, or for one that was
\* left behind while it waited: however dialogs, escapes and late answers interleave.
THEOREM ClosesCorrect == Spec => ClosesWhenSaved
<1>1. Spec => [](Typed /\ Waiting)
    BY InitTyped, NextTyped, InitWaits, NextWaits, PTL DEF Spec
<1>2. Typed /\ Waiting /\ [Next]_vars => [Closes]_vars
    BY ClosesStep
<1>3. Spec => [][Closes]_vars
    BY <1>1, <1>2, PTL DEF Spec
<1> QED  BY <1>3 DEF ClosesWhenSaved, Closes

\* What FormsFit says of a step.
Fitting ==
    \A s \in Page \X {"create", "update"} :
        LET r == request[s]
        IN  request'[s].status = "refused" /\ r.status = "sent" =>
                \/ HasKey(s[1], r.key, r.id)
                \/ s[1] = "stores" /\ r.blank
                \/ r.id # 0 /\ ~Exists(r.id)
                \/ ~StoreExists(s[1])

\* The clicks, the answers and the till refuse nothing.
LEMMA NobodyElseRefuses ==
    ASSUME Typed, [Next]_vars, NEW x \in Slot, request[x].status = "sent", request'[x].status = "refused"
    PROVE  Handle(x)
<1>1. request \in [Slot -> RequestRecord] /\ request' # request
    <2>1. "sent" # "refused"  OBVIOUS
    <2> QED  BY <2>1, TypedFacts
<1>2. ASSUME NEW s \in Slot, NEW r, request' = [request EXCEPT ![s] = r], r.status # "refused"
      PROVE  FALSE
    BY <1>1, <1>2
<1>3. ASSUME NEW p \in Page, NEW r \in [Slot -> RequestRecord], Close(p, r), r[x].status # "refused"
      PROVE  FALSE
    BY <1>3, CloseFacts
<1>4. ASSUME NEW s \in Slot, NEW status, Finish(s, status) PROVE s = x
    BY <1>1, <1>4 DEF Finish
<1>5. ASSUME NEW s \in Slot, Proceed(s) PROVE FALSE
    <2>1. request[s] \in RequestRecord  BY <1>1
    <2>2. request' = [request EXCEPT ![s] = [request[s] EXCEPT !.status = "read", !.seen = rows]]
        BY <1>1, <1>5, <2>1 DEF Proceed, RequestRecord
    <2>3. [request[s] EXCEPT !.status = "read", !.seen = rows].status = "read"
        BY <2>1 DEF RequestRecord
    <2> QED  BY <1>2, <2>2, <2>3
<1>6. ASSUME NEW s \in Slot, Handle(s) PROVE Handle(x)
    BY <1>4, <1>5, <1>6, HandleFacts
<1>7. ASSUME NEW s \in Slot, Answer(s) PROVE FALSE
    <2>1. CASE Finish(s, "lost")
        <3>1. s = x  BY <1>4, <2>1
        <3>2. request'[x].status = "lost"  BY <1>1, <2>1, <3>1 DEF Finish, RequestRecord
        <3> QED  BY <3>2
    <2>2. ASSUME NEW r \in {Idle, Over}, request' = [request EXCEPT ![s] = r] PROVE FALSE
        <3>1. r.status # "refused"  BY IdleFacts DEF Over, RequestRecord
        <3> QED  BY <1>2, <2>2, <3>1
    <2>3. CASE s[1] \in Page /\ Close(s[1], [request EXCEPT ![s] = Idle])
        <3> DEFINE a == [request EXCEPT ![s] = Idle]
        <3>1. a \in [Slot -> RequestRecord] /\ a[x].status # "refused"
            BY <1>1, IdleFacts
        <3> HIDE DEF a
        <3> QED  BY <1>3, <2>3, <3>1 DEF a
    <2> QED  BY <1>7, <2>1, <2>2, <2>3, AnswerFacts
<1>8. ASSUME NEW p \in Page, ListStep(p) \/ Refetch(p) PROVE FALSE
    BY <1>1, <1>8, OpenFacts
<1>9. WriteSale => FALSE
    <2>1. <<"till", "sale">> \in Slot  BY DEF Slot
    <2> QED  BY <1>2, <2>1, IdleFacts DEF WriteSale, Send
<1>10. CASE \/ \E p \in Page : FormStep(p) \/ RemoveStep(p)
            \/ \E id : Reactivate(id) \/ Sell(id)
            \/ \E tab \in {"one", "two"}, c \in Code, blank \in BOOLEAN : Onboard(tab, c, blank)
    <2>1. ~UNCHANGED request  BY <1>1
    <2>2. ASSUME NEW p \in Page, Close(p, request) PROVE FALSE
        BY <1>1, <1>3, <2>2
    <2>3. ASSUME NEW s \in Slot, NEW r, request' = [request EXCEPT ![s] = r], r.status \in {"sent", "read"}
          PROVE  FALSE
        BY <1>2, <2>3
    <2> QED  BY <1>10, <2>1, <2>2, <2>3, ClickFacts
<1>11. UNCHANGED vars => FALSE  BY <1>1 DEF vars
<1> QED  BY <1>6, <1>7, <1>8, <1>9, <1>10, <1>11 DEF Next

\* The handler of a save refuses for four reasons, of which a form has taken care of
\* the others: a blank name of a cashier and a missing PIN.
LEMMA FittingStep == Typed /\ [Next]_vars => Fitting
<1> SUFFICES ASSUME Typed, [Next]_vars, NEW s \in Page \X {"create", "update"},
                    request'[s].status = "refused", request[s].status = "sent"
             PROVE  \/ HasKey(s[1], request[s].key, request[s].id)
                    \/ s[1] = "stores" /\ request[s].blank
                    \/ request[s].id # 0 /\ ~Exists(request[s].id)
                    \/ ~StoreExists(s[1])
    BY DEF Fitting
<1>1. s \in Slot /\ s[1] \in Page /\ s[2] \in {"create", "update"} /\ s = <<s[1], s[2]>>
    BY DEF Slot
<1>2. Handle(s)  BY <1>1, NobodyElseRefuses
<1>3. ReadSave(s)
    BY <1>1, <1>2 DEF Handle, WriteSave, ReadOnboarding, WriteOnboarding, ReadRemove, WriteRemove, Page
<1>4. ~Proceed(s)
    <2>1. request \in [Slot -> RequestRecord] /\ request[s] \in RequestRecord  BY <1>1, TypedFacts
    <2>2. Proceed(s) => request'[s].status = "read"  BY <1>1, <2>1 DEF Proceed, RequestRecord
    <2> QED  BY <2>2
<1>5. Fits(s, request[s], rows)  BY <1>1, TypedFacts
<1>6. s[1] = "cashiers" => ~request[s].blank  BY <1>5 DEF Fits
<1>7. s = <<"cashiers", "create">> => request[s].key # NoKey
    BY <1>5, PagesAssumption DEF Fits
<1> QED  BY <1>1, <1>3, <1>4, <1>6, <1>7 DEF ReadSave, Page

\* What the forms of the two pages let through is refused only for a key in use, a
\* store's blank name, or a row or store that is gone: whatever is typed.
THEOREM FormsFitCorrect == Spec => FormsFit
<1>1. Spec => []Typed
    BY InitTyped, NextTyped, PTL DEF Spec
<1>2. Typed /\ [Next]_vars => [Fitting]_vars
    BY FittingStep
<1>3. Spec => [][Fitting]_vars
    BY <1>1, <1>2, PTL DEF Spec
<1> QED  BY <1>3 DEF FormsFit, Fitting
=============================================================================
