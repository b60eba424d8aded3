------------------------- MODULE StockTransactions -------------------------
(***************************************************************************)
(* The requests of the backend that move stock or change a product, as     *)
(* transactions of worker threads on one PostgreSQL database at READ       *)
(* COMMITTED: create_sale, StoreReceivingView.post,                        *)
(* StoreAdjustmentView.post (delta and target_qty), and PATCH and DELETE   *)
(* of ProductDetailView.                                                   *)
(*                                                                         *)
(* The committed rows are product, stock (StoreStock.qty) and ledger (the  *)
(* sum of StockMovement.delta per store and product: the movements table   *)
(* is only ever appended to, and only its sums matter here).  What a       *)
(* transaction wrote but did not commit is in wrote and moved.             *)
(***************************************************************************)
EXTENDS ShopData

CONSTANTS
    MaxQty,        \* largest value of a numeric(12, 2) column, in hundredths
    MaxRequests,   \* bound of the model: requests accepted in a behaviour
    NoOne          \* nobody holds this lock

ASSUME BoundsAssumption ==
    /\ MaxQty \in Nat
    /\ MaxRequests \in Nat
    /\ NoOne \notin Worker

VARIABLES
    product, stock, ledger,       \* committed rows
    rowLock, keyShare, stockLock, \* row locks, held to the end of a transaction
    pc, req,                      \* what each worker is doing, for which request
    seen, toLock, idx, base,      \* its local variables
    wrote, moved,                 \* its uncommitted StoreStock rows and movements
    served                        \* requests accepted so far

db    == <<product, stock, ledger>>
locks == <<rowLock, keyShare, stockLock>>
local == <<seen, toLock, idx, base>>
buf   == <<wrote, moved>>
vars  == <<db, locks, pc, req, local, buf, served>>

Stages == {"idle", "begin", "lock", "read", "target", "move", "fk", "commit", "save"}

-----------------------------------------------------------------------------
(* The request a worker handles.                                          *)

Lines(w) == req[w].lines
LineProduct(w) == Lines(w)[idx[w]].product
LineKey(w) == <<req[w].store, LineProduct(w)>>

\* StoreStock.qty as the transaction of w sees it under the row's lock.
CurrentQty(w, k) == QtyOf(IF wrote[w][k] = NoRow THEN stock[k] ELSE wrote[w][k])

\* The delta record_movement is called with for line l.
MovementDelta(w, l) ==
    IF req[w].op = "sale" THEN -Units(l, seen[w][l.product])
    ELSE IF req[w].op = "target" THEN l.qty - base[w]
    ELSE l.qty

-----------------------------------------------------------------------------
(* Row locks.  FOR UPDATE on a product conflicts with every other lock on  *)
(* it; the FOR KEY SHARE of a foreign-key check and an UPDATE of non-key   *)
(* columns conflict with FOR UPDATE only.  A StoreStock row that another   *)
(* transaction is inserting blocks get_or_create like a locked row.        *)

\* Mutant: get_or_create without select_for_update.
NoStockBlockers(w, k) == {}

ForUpdateBlockers(w, p) == ({rowLock[p]} \cup keyShare[p]) \ {w, NoOne}
ShareBlockers(w, p)     == {rowLock[p]} \ {w, NoOne}
StockBlockers(w, k)     == {stockLock[k]} \ {w, NoOne}

\* Mutant: the rows are locked in any order.
NextInAnyOrder(w) == toLock[w]

\* The next products in ORDER BY name (more than one only if names are equal).
NextInNameOrder(w) ==
    {p \in toLock[w] : \A q \in toLock[w] : seen[w][p].name <= seen[w][q].name}

\* select_for_update().filter(...).first() locks a row only if there is one.
TargetBlockers(w) == IF stock[LineKey(w)] = NoRow THEN {} ELSE StockBlockers(w, LineKey(w))

\* The workers w waits for: it cannot go on while this set is not empty.
WaitsFor(w) ==
    CASE pc[w] = "lock"   -> IF \E p \in NextInNameOrder(w) : ForUpdateBlockers(w, p) = {}
                             THEN {}
                             ELSE UNION {ForUpdateBlockers(w, p) : p \in NextInNameOrder(w)}
      [] pc[w] = "target" -> TargetBlockers(w)
      [] pc[w] = "move"   -> StockBlockers(w, LineKey(w))
      [] pc[w] = "fk"     -> ShareBlockers(w, LineProduct(w))
      [] pc[w] = "save"   -> ShareBlockers(w, req[w].product)
      [] OTHER            -> {}

\* S is a cycle of waiting workers, with no smaller one inside.
Stuck(S) == S # {} /\ \A w \in S : WaitsFor(w) \cap S # {}
WaitCycle(S) == Stuck(S) /\ \A T \in SUBSET S : Stuck(T) => T = S

-----------------------------------------------------------------------------
Init ==
    /\ product = Catalogue
    /\ stock = OpeningStock
    /\ ledger = [k \in Key |-> QtyOf(OpeningStock[k])]
    /\ rowLock = [p \in Product |-> NoOne]
    /\ keyShare = [p \in Product |-> {}]
    /\ stockLock = [k \in Key |-> NoOne]
    /\ pc = [w \in Worker |-> "idle"]
    /\ req = [w \in Worker |-> NoRequest]
    /\ seen = [w \in Worker |-> Catalogue]
    /\ toLock = [w \in Worker |-> {}]
    /\ idx = [w \in Worker |-> 1]
    /\ base = [w \in Worker |-> 0]
    /\ wrote = [w \in Worker |-> [k \in Key |-> NoRow]]
    /\ moved = [w \in Worker |-> [k \in Key |-> 0]]
    /\ served = 0

Goto(w, stage) == pc' = [pc EXCEPT ![w] = stage]

\* Mutant: the StoreStock locks outlive the transaction.
ReleaseProductLocks(w) ==
    /\ rowLock' = [p \in Product |-> IF rowLock[p] = w THEN NoOne ELSE rowLock[p]]
    /\ keyShare' = [p \in Product |-> keyShare[p] \ {w}]
    /\ UNCHANGED stockLock

ReleaseLocks(w) ==
    /\ rowLock' = [p \in Product |-> IF rowLock[p] = w THEN NoOne ELSE rowLock[p]]
    /\ keyShare' = [p \in Product |-> keyShare[p] \ {w}]
    /\ stockLock' = [k \in Key |-> IF stockLock[k] = w THEN NoOne ELSE stockLock[k]]

\* The request of w is answered; its local variables and its transaction are gone.
Finish(w) ==
    /\ Goto(w, "idle")
    /\ ReleaseLocks(w)
    /\ req' = [req EXCEPT ![w] = NoRequest]
    /\ seen' = [seen EXCEPT ![w] = Catalogue]
    /\ toLock' = [toLock EXCEPT ![w] = {}]
    /\ idx' = [idx EXCEPT ![w] = 1]
    /\ base' = [base EXCEPT ![w] = 0]
    /\ wrote' = [wrote EXCEPT ![w] = [k \in Key |-> NoRow]]
    /\ moved' = [moved EXCEPT ![w] = [k \in Key |-> 0]]
    /\ UNCHANGED served

\* What COMMIT makes visible.
SaveWrites(w) ==
    /\ stock' = [k \in Key |-> IF wrote[w][k] = NoRow THEN stock[k] ELSE wrote[w][k]]
    /\ ledger' = [k \in Key |-> ledger[k] + moved[w][k]]
    /\ UNCHANGED product

\* Mutant: without the handler's transaction.atomic, each record_movement that
\* returned has committed by itself.
KeepLinesDone(w) == Finish(w) /\ SaveWrites(w)

\* The handler returns an error, or raises: whatever it wrote is rolled back.
Rollback(w) == Finish(w) /\ UNCHANGED db

\* Mutant: one line too many.
PastLastLine(w, stage) ==
    IF idx[w] <= Len(Lines(w))
    THEN idx' = [idx EXCEPT ![w] = @ + 1] /\ UNCHANGED pc
    ELSE idx' = [idx EXCEPT ![w] = 1] /\ Goto(w, stage)

\* On to the next line of the request, or to the next stage after the last one.
NextLine(w, stage) ==
    IF idx[w] < Len(Lines(w))
    THEN idx' = [idx EXCEPT ![w] = @ + 1] /\ UNCHANGED pc
    ELSE idx' = [idx EXCEPT ![w] = 1] /\ Goto(w, stage)

Accept(w) ==
    /\ pc[w] = "idle"
    /\ served < MaxRequests
    /\ \E r \in Request :
        /\ req' = [req EXCEPT ![w] = r]
        /\ Goto(w, IF r.op = "sale" THEN "begin" ELSE "read")
    /\ served' = served + 1
    /\ UNCHANGED <<db, locks, local, buf>>

-----------------------------------------------------------------------------
(* create_sale                                                             *)

\* SELECT ... ORDER BY name FOR UPDATE starts: its snapshot picks the rows.
BeginSale(w) ==
    /\ pc[w] = "begin"
    /\ ~HasDuplicateLines(req[w])
    /\ seen' = [seen EXCEPT ![w] = product]
    /\ toLock' = [toLock EXCEPT ![w] =
                     {p \in ProductsOf(req[w]) : Available(product[p], req[w].store)}]
    /\ Goto(w, "lock")
    /\ UNCHANGED <<db, locks, req, idx, base, buf, served>>

RefuseDuplicateLines(w) ==
    /\ pc[w] = "begin"
    /\ HasDuplicateLines(req[w])
    /\ Rollback(w)

\* Mutant: the products are read without select_for_update.
LeaveUnlocked(w, p) == UNCHANGED rowLock

TakeRowLock(w, p) == rowLock' = [rowLock EXCEPT ![p] = w]

\* The statement locks its next row and reads the row's latest version; a row
\* archived while it waited is no longer in the result.
LockProduct(w) ==
    /\ pc[w] = "lock"
    /\ \E p \in NextInNameOrder(w) :
        /\ ForUpdateBlockers(w, p) = {}
        /\ TakeRowLock(w, p)
        /\ seen' = [seen EXCEPT ![w][p] = product[p]]
        /\ toLock' = [toLock EXCEPT ![w] = @ \ {p}]
    /\ UNCHANGED <<db, keyShare, stockLock, pc, req, idx, base, buf, served>>

\* All rows are locked: the lines are resolved and the Sale row is inserted.
ResolveLines(w) ==
    /\ pc[w] = "lock"
    /\ toLock[w] = {}
    /\ SaleIsAccepted(req[w], seen[w])
    /\ Goto(w, "move")
    /\ UNCHANGED <<db, locks, req, local, buf, served>>

RefuseSale(w) ==
    /\ pc[w] = "lock"
    /\ toLock[w] = {}
    /\ ~SaleIsAccepted(req[w], seen[w])
    /\ Rollback(w)

-----------------------------------------------------------------------------
(* StoreReceivingView.post and StoreAdjustmentView.post                    *)

\* The serializer reads the products, outside the transaction, and checks the lines
\* against them.  The view reads them once more, which can only end the request, as
\* Crash does: no column it reads again decides anything.
ReadProducts(w) ==
    /\ pc[w] = "read"
    /\ ~ChangesProduct(req[w])
    /\ StockRequestIsValid(req[w], product)
    /\ seen' = [seen EXCEPT ![w] = product]
    /\ Goto(w, IF req[w].op = "target" THEN "target" ELSE "move")
    /\ UNCHANGED <<db, locks, req, toLock, idx, base, buf, served>>

RefuseProducts(w) ==
    /\ pc[w] = "read"
    /\ ~ChangesProduct(req[w])
    /\ ~StockRequestIsValid(req[w], product)
    /\ Rollback(w)

\* Mutant: the current quantity is read without select_for_update.
LeaveStockUnlocked(w, k) == UNCHANGED stockLock

LockStockRow(w, k) ==
    stockLock' = IF stock[k] = NoRow THEN stockLock ELSE [stockLock EXCEPT ![k] = w]

\* target_qty: read the row's qty and lock the row, if there is a row.
ReadTarget(w) ==
    /\ pc[w] = "target"
    /\ TargetBlockers(w) = {}
    /\ LET current == QtyOf(stock[LineKey(w)])
       IN  IF Lines(w)[1].qty = current
           THEN Rollback(w)
           ELSE /\ base' = [base EXCEPT ![w] = current]
                /\ LockStockRow(w, LineKey(w))
                /\ Goto(w, "move")
                /\ UNCHANGED <<db, rowLock, keyShare, req, seen, toLock, idx, buf, served>>

-----------------------------------------------------------------------------
(* record_movement, once per line, and the end of the transaction          *)

LineDelta(w) == MovementDelta(w, Lines(w)[idx[w]])
NewQty(w) == CurrentQty(w, LineKey(w)) + LineDelta(w)

MovementIsPossible(w) ==
    /\ seen[w][LineProduct(w)].tenant = StoreTenant[req[w].store]
    /\ LineDelta(w) \in -MaxQty..MaxQty
    /\ NewQty(w) \in -MaxQty..MaxQty

\* Lock or insert the StoreStock row, insert the movement, save the new qty.
RecordMovement(w) ==
    /\ pc[w] = "move"
    /\ StockBlockers(w, LineKey(w)) = {}
    /\ MovementIsPossible(w)
    /\ stockLock' = [stockLock EXCEPT ![LineKey(w)] = w]
    /\ wrote' = [wrote EXCEPT ![w][LineKey(w)] = NewQty(w)]
    /\ moved' = [moved EXCEPT ![w][LineKey(w)] = @ + LineDelta(w)]
    /\ NextLine(w, "fk")
    /\ UNCHANGED <<db, rowLock, keyShare, req, seen, toLock, base, served>>

\* Other tenant (ValueError) or numeric(12, 2) overflow (DataError).
RefuseMovement(w) ==
    /\ pc[w] = "move"
    /\ StockBlockers(w, LineKey(w)) = {}
    /\ ~MovementIsPossible(w)
    /\ Rollback(w)

\* COMMIT first runs the deferred foreign-key checks of the inserted movements,
\* in their order: each takes FOR KEY SHARE on its product.
CheckForeignKey(w) ==
    /\ pc[w] = "fk"
    /\ ShareBlockers(w, LineProduct(w)) = {}
    /\ keyShare' = [keyShare EXCEPT ![LineProduct(w)] = @ \cup {w}]
    /\ NextLine(w, "commit")
    /\ UNCHANGED <<db, rowLock, stockLock, req, seen, toLock, base, buf, served>>

Commit(w) ==
    /\ pc[w] = "commit"
    /\ SaveWrites(w)
    /\ Finish(w)

-----------------------------------------------------------------------------
(* ProductDetailView.patch and .delete: a read, then one autocommit UPDATE *)

ReadProductRow(w) ==
    /\ pc[w] = "read"
    /\ ChangesProduct(req[w])
    /\ ProductRequestIsValid(req[w], product[req[w].product])
    /\ seen' = [seen EXCEPT ![w] = product]
    /\ Goto(w, "save")
    /\ UNCHANGED <<db, locks, req, toLock, idx, base, buf, served>>

RefuseProductRow(w) ==
    /\ pc[w] = "read"
    /\ ChangesProduct(req[w])
    /\ ~ProductRequestIsValid(req[w], product[req[w].product])
    /\ Rollback(w)

\* Mutant: only the columns of the body are written.
SentColumns(w) ==
    IF req[w].op = "patch"
    THEN Patched(req[w], product[req[w].product])
    ELSE [product[req[w].product] EXCEPT !.archived = TRUE]

\* serializer.save() writes every column of the row that was read, archived_at
\* included, with the fields of the body set; DELETE writes archived_at only.
SavedRow(w) ==
    IF req[w].op = "patch"
    THEN Patched(req[w], seen[w][req[w].product])
    ELSE [product[req[w].product] EXCEPT !.archived = TRUE]

SaveProductRow(w) ==
    /\ pc[w] = "save"
    /\ ShareBlockers(w, req[w].product) = {}
    /\ product' = [product EXCEPT ![req[w].product] = SavedRow(w)]
    /\ UNCHANGED <<stock, ledger>>
    /\ Finish(w)

-----------------------------------------------------------------------------
(* Failures                                                                *)

\* Mutant: the handler starts again when the database has aborted it.
RetryDeadlock(w) ==
    /\ \E S \in SUBSET Worker : w \in S /\ WaitCycle(S)
    /\ Goto(w, IF req[w].op = "sale" THEN "begin" ELSE "read")
    /\ ReleaseLocks(w)
    /\ toLock' = [toLock EXCEPT ![w] = {}]
    /\ idx' = [idx EXCEPT ![w] = 1]
    /\ wrote' = [wrote EXCEPT ![w] = [k \in Key |-> NoRow]]
    /\ moved' = [moved EXCEPT ![w] = [k \in Key |-> 0]]
    /\ UNCHANGED <<db, req, seen, base, served>>

\* The deadlock detector of PostgreSQL aborts one member of a cycle.
AbortDeadlock(w) ==
    /\ \E S \in SUBSET Worker : w \in S /\ WaitCycle(S)
    /\ Rollback(w)

\* The worker process dies or is killed by gunicorn, or its connection is lost.
Crash(w) == pc[w] # "idle" /\ Rollback(w)

Step(w) ==
    \/ BeginSale(w) \/ RefuseDuplicateLines(w) \/ LockProduct(w)
    \/ ResolveLines(w) \/ RefuseSale(w)
    \/ ReadProducts(w) \/ RefuseProducts(w) \/ ReadTarget(w)
    \/ RecordMovement(w) \/ RefuseMovement(w) \/ CheckForeignKey(w) \/ Commit(w)
    \/ ReadProductRow(w) \/ RefuseProductRow(w) \/ SaveProductRow(w)
    \/ AbortDeadlock(w)

\* The bound on requests is reached and every one is answered.
Quiet ==
    /\ served = MaxRequests
    /\ \A w \in Worker : pc[w] = "idle"
    /\ UNCHANGED vars

Next == (\E w \in Worker : Accept(w) \/ Step(w) \/ Crash(w)) \/ Quiet

Spec == Init /\ [][Next]_vars

\* A worker thread keeps running, a lock request whose row is free is granted,
\* and the detector ends a deadlock; nothing forces a client or a crash.
FairSpec == Spec /\ \A w \in Worker : WF_vars(Step(w))
-----------------------------------------------------------------------------
(* Properties                                                              *)

InSaleWrite(w) ==
    /\ pc[w] \in {"move", "fk", "commit"}
    /\ req[w].op = "sale"

VariableTypes ==
    /\ product \in [Product -> Row]
    /\ stock \in [Key -> Int \cup {NoRow}]
    /\ ledger \in [Key -> Int]
    /\ rowLock \in [Product -> Worker \cup {NoOne}]
    /\ keyShare \in [Product -> SUBSET Worker]
    /\ stockLock \in [Key -> Worker \cup {NoOne}]
    /\ pc \in [Worker -> Stages]
    /\ req \in [Worker -> Request \cup {NoRequest}]
    /\ seen \in [Worker -> [Product -> Row]]
    /\ toLock \in [Worker -> SUBSET Product]
    /\ idx \in [Worker -> Nat \ {0}]
    /\ base \in [Worker -> Int]
    /\ wrote \in [Worker -> [Key -> Int \cup {NoRow}]]
    /\ moved \in [Worker -> [Key -> Int]]
    /\ served \in Nat

StageTypes ==
    \A w \in Worker :
        /\ pc[w] # "idle" => req[w] \in Request
        /\ pc[w] = "save" => ChangesProduct(req[w])
        /\ pc[w] \in {"idle", "begin", "lock", "read", "target"} => idx[w] = 1
        /\ pc[w] \in {"begin", "lock", "target", "move", "fk", "commit"}
              => ~ChangesProduct(req[w]) /\ idx[w] \in DOMAIN Lines(w)

\* Every variable has its type, and a busy worker has a request of the kind its
\* stage belongs to, with its line index inside the request: the loops over the
\* lines in create_sale and StoreReceivingView.post never run past the last one.
TypeOK == VariableTypes /\ StageTypes

\* stock/services.py keeps StoreStock.qty equal to the sum of the movements of
\* the same store and product, whatever transactions overlap: no update of the
\* cached quantity is lost.
LedgerMatchesStock == \A k \in Key : QtyOf(stock[k]) = ledger[k]

\* A transaction has an uncommitted StoreStock row only under that row's lock,
\* and the row differs from the committed one by its own movements exactly.
WritesAreLocked ==
    \A w \in Worker, k \in Key :
        IF wrote[w][k] = NoRow
        THEN moved[w][k] = 0
        ELSE stockLock[k] = w /\ wrote[w][k] = QtyOf(stock[k]) + moved[w][k]

SaleRowsLockedBy(w) ==
    /\ pc[w] \in {"read", "target"} => req[w].op # "sale"
    /\ pc[w] = "lock" =>
        \A p \in ProductsOf(req[w]) :
            \/ p \in toLock[w]
            \/ rowLock[p] = w /\ seen[w][p] = product[p]
            \/ ~Available(seen[w][p], req[w].store)
    /\ InSaleWrite(w) =>
        \A p \in ProductsOf(req[w]) :
            /\ rowLock[p] = w
            /\ seen[w][p] = product[p]
            /\ Available(seen[w][p], req[w].store)

\* While create_sale locks its products, each one is still to be locked, or locked
\* and read, or already seen to be unavailable; once it writes, all are locked.
SaleRowsAreLocked == \A w \in Worker : SaleRowsLockedBy(w)

\* From the moment create_sale has resolved its lines until it commits, every
\* product it sells still has the price, the bundle and the unarchived row the
\* lines were priced with.
SaleRowsAreCurrent ==
    \A w \in Worker : InSaleWrite(w) =>
        \A p \in ProductsOf(req[w]) :
            product[p] = seen[w][p] /\ Available(product[p], req[w].store)

\* An adjustment with target_qty that commits leaves the stock at the target.
TargetIsReached ==
    [][\A w \in Worker : Commit(w) /\ req[w].op = "target" =>
           stock'[LineKey(w)] = Lines(w)[1].qty]_vars

\* The same, for a product that had a StoreStock row from the start.
StockedTargetIsReached ==
    [][\A w \in Worker :
           Commit(w) /\ req[w].op = "target" /\ OpeningStock[LineKey(w)] # NoRow =>
               stock'[LineKey(w)] = Lines(w)[1].qty]_vars

\* Sales lock their products in name order before any StoreStock row, so a cycle
\* of waiting transactions always has a receiving or an adjustment in it.  Names that
\* two products share, or that change while sales run, give sales no common order.
NoDeadlockAmongSales ==
    \A S \in SUBSET Worker : WaitCycle(S) =>
        \E w \in S : req[w].op \in {"receiving", "delta", "target"}

\* What the previous property needs: a tenant's products have different names at the
\* start, and no name changes while sales run.
NamesDistinct ==
    \A p, q \in Product :
        Catalogue[p].tenant = Catalogue[q].tenant /\ Catalogue[p].name = Catalogue[q].name => p = q
NoRename == [][\A p \in Product : product'[p].name = product[p].name]_vars

\* The product rows a request other than a sale was let through with.
HasRead(w) ==
    /\ pc[w] \in {"target", "move", "fk", "commit", "save"}
    /\ req[w].op # "sale"
ReadRows == [w \in Worker |-> IF HasRead(w) THEN seen[w] ELSE NoRow]

\* Overlapping sales, receivings, adjustments and archivings have the effects of some
\* one-after-the-other execution, on the stock of their commit and, for a sale, the
\* products of its commit.  The others go by products read earlier, and a PATCH
\* writes back the whole row it read, undoing what was saved in between.
Serial == INSTANCE ShopLedger WITH
              product <- product, stock <- stock, req <- req, read <- ReadRows
StockIsSerial == Serial!Spec

\* Whatever PATCHes of its weighing and its bundle overlap, no product is ever both
\* weighed and bundled, or left with part of a bundle: each PATCH validates its fields
\* against the very row it then writes back.
RowsStayWhole == \A p \in Product : IsWhole(product[p])

\* w can take its next step: nobody blocks it, and if it has products to lock, one
\* of them is the next.
Busy == {w \in Worker : pc[w] # "idle"}
GoesOn(w) == /\ WaitsFor(w) = {}
             /\ pc[w] = "lock" /\ toLock[w] # {} => NextInNameOrder(w) # {}
InDeadlock(w) == \E S \in SUBSET Worker : w \in S /\ WaitCycle(S)

\* A request only waits for others that are still on their way, never for a lock that
\* an answered, crashed or aborted one left behind; and among any requests that wait
\* for nobody else, one can go on or is in a cycle that the database breaks.
SomeoneGoesOn ==
    /\ \A w \in Busy : WaitsFor(w) \subseteq Busy \ {w}
    /\ \A S \in SUBSET Busy :
           S # {} /\ (\A w \in S : WaitsFor(w) \subseteq S)
               => \E w \in S : GoesOn(w) \/ InDeadlock(w)

\* The most steps w can still take for its request: its loops over the products to
\* lock, over the movements and over their foreign keys, and the stages around them.
LineCount(w) == Len(Lines(w))
LinesLeft(w) == LineCount(w) - idx[w] + 1
Remaining(w) ==
    CASE pc[w] = "idle"               -> 0
      [] pc[w] \in {"commit", "save"} -> 1
      [] pc[w] = "fk"                 -> 1 + LinesLeft(w)
      [] pc[w] = "move"               -> 1 + LineCount(w) + LinesLeft(w)
      [] pc[w] = "target"             -> 2 + 2 * LineCount(w)
      [] pc[w] = "lock"               -> 2 + 2 * LineCount(w) + Cardinality(toLock[w])
      [] pc[w] = "begin"              -> 3 + 3 * LineCount(w)
      [] OTHER -> IF ChangesProduct(req[w]) THEN 2 ELSE 3 + 2 * LineCount(w)

\* No handler, and no abort of one, starts over: each step of a request brings it
\* nearer to its end, and no step of another request sends it back.
StepsRunOut ==
    [][\A w \in Worker :
           /\ Step(w) => Remaining(w)' \in 0..(Remaining(w) - 1)
           /\ Remaining(w)' <= Remaining(w) \/ Accept(w)]_vars

\* Every request is answered, though transactions wait for and abort each other.
EveryRequestEnds == \A w \in Worker : pc[w] # "idle" ~> pc[w] = "idle"
=============================================================================
