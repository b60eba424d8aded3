---------------------- MODULE StockTransactions_proofs ----------------------
(***************************************************************************)
(* Theorems about StockTransactions, for any workers, stores, products and *)
(* requests: type correctness, the stock ledger, the rows of a sale, the   *)
(* target of an adjustment, the deadlocks of sales, and that overlapping   *)
(* requests do what ShopLedger does one request at a time.                 *)
(***************************************************************************)
EXTENDS StockTransactions, Totals_proofs

\* What a validated request body is, by the handler it goes to.
LEMMA RequestKinds ==
    ASSUME NEW r \in Request
    PROVE  /\ ChangesProduct(r) => r \in PatchRequest \cup ArchiveRequest
           /\ ~ChangesProduct(r) => /\ r \in StockRequest
                                    /\ r.lines \in Seq(Line)
                                    /\ 1 \in DOMAIN r.lines
                                    /\ r.store \in Store
  <1>1. r \in StockRequest \cup PatchRequest \cup ArchiveRequest
    BY DataAssumption DEF DataAssumption
  <1>2. ASSUME r \in StockRequest
        PROVE  r.lines \in Seq(Line) /\ 1 \in DOMAIN r.lines /\ r.store \in Store
    BY <1>2 DEF StockRequest
  <1>3. r \in StockRequest => ~ChangesProduct(r)
    BY DEF StockRequest, ChangesProduct
  <1>4. r \in PatchRequest \cup ArchiveRequest => ChangesProduct(r)
    BY DEF PatchRequest, ArchiveRequest, ChangesProduct
  <1>5. QED  BY <1>1, <1>2, <1>3, <1>4

\* The line a worker is at, and its StoreStock key.
LEMMA CurrentLine ==
    ASSUME TypeOK, NEW w \in Worker,
           pc[w] \in {"begin", "lock", "target", "move", "fk", "commit"}
    PROVE  /\ req[w] \in StockRequest
           /\ Lines(w) \in Seq(Line)
           /\ Lines(w)[idx[w]] \in Line
           /\ LineProduct(w) \in Product
           /\ LineKey(w) \in Key
           /\ Len(Lines(w)) \in Nat /\ DOMAIN Lines(w) = 1..Len(Lines(w))
  <1>1. req[w] \in Request /\ ~ChangesProduct(req[w]) /\ idx[w] \in DOMAIN Lines(w)
    BY DEF TypeOK, StageTypes
  <1>2. req[w] \in StockRequest /\ Lines(w) \in Seq(Line) /\ req[w].store \in Store
    BY <1>1, RequestKinds DEF Lines
  <1>3. Lines(w)[idx[w]] \in Line
    BY <1>1, <1>2
  <1>4. LineProduct(w) \in Product
    BY <1>3 DEF LineProduct, Line
  <1>5. QED  BY <1>2, <1>3, <1>4 DEF LineKey, Key

\* The products of a stock request are products.
LEMMA RequestProducts ==
    ASSUME TypeOK, NEW w \in Worker,
           pc[w] \in {"begin", "lock", "target", "move", "fk", "commit"}
    PROVE  ProductsOf(req[w]) \subseteq Product
  <1>1. req[w].lines \in Seq(Line)
    BY CurrentLine DEF Lines
  <1>2. \A i \in DOMAIN req[w].lines : req[w].lines[i] \in Line
    BY <1>1
  <1>3. \A i \in DOMAIN req[w].lines : req[w].lines[i].product \in Product
    BY <1>2 DEF Line
  <1>4. QED  BY <1>1, <1>3 DEF ProductsOf

\* The opening state is typed.
LEMMA InitTypeOK == Init => TypeOK
  BY DataAssumption, BoundsAssumption
  DEF DataAssumption, BoundsAssumption, Init, TypeOK, VariableTypes, StageTypes, Stages, QtyOf

\* The end of a request keeps the types, whatever rows it leaves behind.
LEMMA FinishTypeOK ==
    ASSUME TypeOK, NEW w \in Worker, Finish(w),
           product' \in [Product -> Row],
           stock' \in [Key -> Int \cup {NoRow}],
           ledger' \in [Key -> Int]
    PROVE  TypeOK'
  <1>1. VariableTypes'
    BY DataAssumption
    DEF DataAssumption, TypeOK, VariableTypes, Finish, ReleaseLocks, Goto, Stages
  <1>2. StageTypes'
    BY DEF TypeOK, VariableTypes, StageTypes, Finish, Goto, Lines
  <1>3. QED  BY <1>1, <1>2 DEF TypeOK

\* A rollback keeps the types.
LEMMA RollbackTypeOK ==
    ASSUME TypeOK, NEW w \in Worker, Rollback(w)
    PROVE  TypeOK'
  <1>1. UNCHANGED <<product, stock, ledger>>
    BY DEF Rollback, db
  <1>2. QED  BY <1>1, FinishTypeOK DEF Rollback, TypeOK, VariableTypes

\* A request that comes in keeps the types.
LEMMA AcceptTypeOK == ASSUME TypeOK, NEW w \in Worker, Accept(w) PROVE TypeOK'
  <1>1. PICK r \in Request :
           /\ req' = [req EXCEPT ![w] = r]
           /\ pc' = [pc EXCEPT ![w] = IF r.op = "sale" THEN "begin" ELSE "read"]
    BY DEF Accept, Goto
  <1>2. UNCHANGED <<db, locks, local, buf>> /\ pc[w] = "idle" /\ served' = served + 1
    BY DEF Accept
  <1>3. VariableTypes'
    BY <1>1, <1>2 DEF TypeOK, VariableTypes, Stages, db, locks, local, buf
  <1>4. r.op = "sale" => ~ChangesProduct(r)
    BY DEF ChangesProduct
  <1>5. StageTypes'
    BY <1>1, <1>2, <1>4, RequestKinds
    DEF TypeOK, VariableTypes, StageTypes, local, Lines
  <1>6. QED  BY <1>3, <1>5 DEF TypeOK

\* The next line is a line of the request, or the loop is over.
LEMMA NextLineTypes ==
    ASSUME TypeOK, NEW w \in Worker, NEW stage \in {"fk", "commit"},
           pc[w] \in {"move", "fk"}, UNCHANGED req, NextLine(w, stage)
    PROVE  /\ idx' \in [Worker -> Nat \ {0}]
           /\ pc' \in [Worker -> Stages]
           /\ StageTypes'
  <1>1. idx[w] \in Nat \ {0} /\ Len(Lines(w)) \in Nat /\ idx[w] \in 1..Len(Lines(w))
        /\ DOMAIN Lines(w) = 1..Len(Lines(w))
    BY CurrentLine DEF TypeOK, VariableTypes, StageTypes
  <1>2. CASE idx[w] < Len(Lines(w))
    <2>1. /\ idx' = [idx EXCEPT ![w] = idx[w] + 1]
          /\ pc' = pc /\ req' = req
      BY <1>2 DEF NextLine
    <2>2. idx' \in [Worker -> Nat \ {0}] /\ pc' \in [Worker -> Stages]
      BY <1>1, <2>1 DEF TypeOK, VariableTypes
    <2>3. idx[w] + 1 \in DOMAIN Lines(w)
      BY <1>1, <1>2
    <2>4. StageTypes'
      BY <2>1, <2>3 DEF TypeOK, VariableTypes, StageTypes, Lines
    <2>5. QED  BY <2>2, <2>4
  <1>3. CASE ~(idx[w] < Len(Lines(w)))
    <2>1. /\ idx' = [idx EXCEPT ![w] = 1]
          /\ pc' = [pc EXCEPT ![w] = stage] /\ req' = req
      BY <1>3 DEF NextLine, Goto
    <2>2. idx' \in [Worker -> Nat \ {0}] /\ pc' \in [Worker -> Stages]
      BY <2>1 DEF TypeOK, VariableTypes, Stages
    <2>3. 1 \in DOMAIN Lines(w)
      BY <1>1
    <2>4. StageTypes'
      BY <2>1, <2>3 DEF TypeOK, VariableTypes, StageTypes, Lines
    <2>5. QED  BY <2>2, <2>4
  <1>4. QED  BY <1>2, <1>3

\* record_movement is always called with a number.
LEMMA DeltaType ==
    ASSUME TypeOK, NEW w \in Worker, pc[w] = "move"
    PROVE  MovementDelta(w, Lines(w)[idx[w]]) \in Int
  <1>1. Lines(w)[idx[w]] \in Line
    BY CurrentLine
  <1>2. /\ Lines(w)[idx[w]].qty \in Int
        /\ seen[w][Lines(w)[idx[w]].product].bundleQty \in Int
        /\ base[w] \in Int
    BY <1>1 DEF Line, TypeOK, VariableTypes, Row
  <1>3. Units(Lines(w)[idx[w]], seen[w][Lines(w)[idx[w]].product]) \in Int
    BY <1>2 DEF Units
  <1>4. QED  BY <1>2, <1>3 DEF MovementDelta

\* record_movement keeps the types.
LEMMA RecordMovementTypeOK ==
    ASSUME TypeOK, NEW w \in Worker, RecordMovement(w) PROVE TypeOK'
  <1> DEFINE k == LineKey(w)
             d == MovementDelta(w, Lines(w)[idx[w]])
  <1>1. /\ pc[w] = "move"
        /\ NewQty(w) \in -MaxQty..MaxQty
        /\ stockLock' = [stockLock EXCEPT ![k] = w]
        /\ wrote' = [wrote EXCEPT ![w][k] = NewQty(w)]
        /\ moved' = [moved EXCEPT ![w][k] = @ + d]
        /\ NextLine(w, "fk")
        /\ UNCHANGED <<db, rowLock, keyShare, req, seen, toLock, base, served>>
    BY DEF RecordMovement, MovementIsPossible, LineDelta
  <1>2. k \in Key /\ Lines(w)[idx[w]] \in Line
    BY <1>1, CurrentLine
  <1>3. d \in Int
    BY <1>1, DeltaType
  <1>4. NewQty(w) \in Int
    BY <1>1, BoundsAssumption DEF BoundsAssumption
  <1>5. idx' \in [Worker -> Nat \ {0}] /\ pc' \in [Worker -> Stages] /\ StageTypes'
    BY <1>1, NextLineTypes
  <1> HIDE DEF k, d
  <1>6. /\ stockLock' \in [Key -> Worker \cup {NoOne}]
        /\ wrote' \in [Worker -> [Key -> Int \cup {NoRow}]]
        /\ moved' \in [Worker -> [Key -> Int]]
    <2>1. moved[w][k] + d \in Int
      BY <1>2, <1>3 DEF TypeOK, VariableTypes
    <2>2. QED  BY <1>1, <1>2, <1>4, <2>1 DEF TypeOK, VariableTypes
  <1>7. VariableTypes'
    BY <1>1, <1>5, <1>6 DEF TypeOK, VariableTypes, db
  <1>8. QED  BY <1>5, <1>7 DEF TypeOK

\* The deferred foreign keys keep the types.
LEMMA CheckForeignKeyTypeOK ==
    ASSUME TypeOK, NEW w \in Worker, CheckForeignKey(w) PROVE TypeOK'
  <1>1. /\ pc[w] = "fk"
        /\ keyShare' = [keyShare EXCEPT ![LineProduct(w)] = @ \cup {w}]
        /\ NextLine(w, "commit")
        /\ UNCHANGED <<db, rowLock, stockLock, req, seen, toLock, base, buf, served>>
    BY DEF CheckForeignKey
  <1>2. LineProduct(w) \in Product
    BY <1>1, CurrentLine
  <1>3. idx' \in [Worker -> Nat \ {0}] /\ pc' \in [Worker -> Stages] /\ StageTypes'
    BY <1>1, NextLineTypes
  <1>4. VariableTypes'
    BY <1>1, <1>2, <1>3 DEF TypeOK, VariableTypes, db, buf
  <1>5. QED  BY <1>3, <1>4 DEF TypeOK

\* A commit leaves typed quantities.
LEMMA SaveWritesTypes ==
    ASSUME TypeOK, NEW w \in Worker, SaveWrites(w)
    PROVE  /\ product' \in [Product -> Row]
           /\ stock' \in [Key -> Int \cup {NoRow}]
           /\ ledger' \in [Key -> Int]
  BY DEF TypeOK, VariableTypes, SaveWrites

\* A product row stays one when its columns are overwritten.
LEMMA RowEdits ==
    ASSUME NEW row \in Row
    PROVE  /\ \A r \in PatchRequest : Patched(r, row) \in Row
           /\ [row EXCEPT !.archived = TRUE] \in Row
  <1>1. ASSUME NEW r \in PatchRequest PROVE Patched(r, row) \in Row
    <2>1. /\ Given(r.name, row.name) \in Nat /\ Given(r.price, row.price) \in Nat
          /\ Given(r.weighted, row.weighted) \in BOOLEAN
          /\ Given(r.bundleQty, row.bundleQty) \in Nat
          /\ Given(r.bundlePrice, row.bundlePrice) \in Nat
      BY DEF PatchRequest, Row, Given
    <2>2. QED  BY <2>1 DEF Patched, Row
  <1>2. QED  BY <1>1 DEF Row

\* A saved product is a row.
LEMMA SavedRowType ==
    ASSUME TypeOK, NEW w \in Worker, pc[w] = "save"
    PROVE  req[w].product \in Product /\ SavedRow(w) \in Row
  <1>1. req[w] \in PatchRequest \cup ArchiveRequest
    BY RequestKinds DEF TypeOK, StageTypes
  <1>2. /\ req[w].product \in Product
        /\ req[w].op = "patch" => req[w] \in PatchRequest
        /\ seen[w][req[w].product] \in Row /\ product[req[w].product] \in Row
    BY <1>1 DEF PatchRequest, ArchiveRequest, TypeOK, VariableTypes
  <1>3. QED  BY <1>2, RowEdits DEF SavedRow

\* Every step keeps the types.
LEMMA StepTypeOK == TypeOK /\ [Next]_vars => TypeOK'
  <1> SUFFICES ASSUME TypeOK, [Next]_vars PROVE TypeOK'
    OBVIOUS
  <1> USE DEF TypeOK
  <1>1. ASSUME NEW w \in Worker, Accept(w) PROVE TypeOK'
    BY <1>1, AcceptTypeOK
  <1>2. ASSUME NEW w \in Worker, BeginSale(w) PROVE TypeOK'
    <2>1. pc[w] = "begin" /\ ProductsOf(req[w]) \subseteq Product
      BY <1>2, RequestProducts DEF BeginSale
    <2>2. VariableTypes'
      BY <1>2, <2>1 DEF BeginSale, VariableTypes, Goto, Stages, db, locks, buf
    <2>3. StageTypes'
      BY <1>2, <2>1 DEF BeginSale, VariableTypes, StageTypes, Goto, Lines
    <2>4. QED  BY <2>2, <2>3
  <1>3. ASSUME NEW w \in Worker, LockProduct(w) PROVE TypeOK'
    <2>1. PICK p \in Product :
             /\ rowLock' = [rowLock EXCEPT ![p] = w]
             /\ seen' = [seen EXCEPT ![w][p] = product[p]]
             /\ toLock' = [toLock EXCEPT ![w] = @ \ {p}]
             /\ UNCHANGED <<db, keyShare, stockLock, pc, req, idx, base, buf, served>>
      BY <1>3 DEF LockProduct, TakeRowLock, NextInNameOrder, VariableTypes
    <2>2. VariableTypes'
      BY <2>1 DEF VariableTypes, db, buf
    <2>3. StageTypes'
      BY <2>1 DEF StageTypes, Lines
    <2>4. QED  BY <2>2, <2>3
  <1>4. ASSUME NEW w \in Worker, ResolveLines(w) PROVE TypeOK'
    <2>1. VariableTypes'
      BY <1>4 DEF ResolveLines, VariableTypes, Goto, Stages, db, locks, local, buf
    <2>2. StageTypes'
      BY <1>4 DEF ResolveLines, VariableTypes, StageTypes, Goto, Lines, local
    <2>3. QED  BY <2>1, <2>2
  <1>5. ASSUME NEW w \in Worker, ReadProducts(w) PROVE TypeOK'
    <2>1. /\ req[w] \in Request
          /\ pc' = [pc EXCEPT ![w] = IF req[w].op = "target" THEN "target" ELSE "move"]
          /\ ~ChangesProduct(req[w]) /\ pc[w] = "read"
          /\ seen' = [seen EXCEPT ![w] = product]
          /\ UNCHANGED <<db, locks, req, toLock, idx, base, buf, served>>
      BY <1>5 DEF ReadProducts, StageTypes, Goto
    <2>2. VariableTypes'
      BY <2>1 DEF VariableTypes, Stages, db, locks, buf
    <2>3. StageTypes'
      BY <2>1, RequestKinds DEF VariableTypes, StageTypes, Lines
    <2>4. QED  BY <2>2, <2>3
  <1>6. ASSUME NEW w \in Worker, ReadTarget(w), ~Rollback(w) PROVE TypeOK'
    <2>1. /\ pc[w] = "target"
          /\ base' = [base EXCEPT ![w] = QtyOf(stock[LineKey(w)])]
          /\ LockStockRow(w, LineKey(w))
          /\ pc' = [pc EXCEPT ![w] = "move"]
          /\ UNCHANGED <<db, rowLock, keyShare, req, seen, toLock, idx, buf, served>>
      BY <1>6 DEF ReadTarget, Goto
    <2>2. LineKey(w) \in Key /\ QtyOf(stock[LineKey(w)]) \in Int
      BY <2>1, CurrentLine DEF VariableTypes, QtyOf
    <2>3. VariableTypes'
      BY <2>1, <2>2 DEF VariableTypes, LockStockRow, Stages, db, buf
    <2>4. StageTypes'
      BY <2>1 DEF VariableTypes, StageTypes, Lines
    <2>5. QED  BY <2>3, <2>4
  <1>7. ASSUME NEW w \in Worker, RecordMovement(w) PROVE TypeOK'
    BY <1>7, RecordMovementTypeOK
  <1>8. ASSUME NEW w \in Worker, CheckForeignKey(w) PROVE TypeOK'
    BY <1>8, CheckForeignKeyTypeOK
  <1>9. ASSUME NEW w \in Worker, Commit(w) PROVE TypeOK'
    BY <1>9, SaveWritesTypes, FinishTypeOK DEF Commit
  <1>10. ASSUME NEW w \in Worker, ReadProductRow(w) PROVE TypeOK'
    <2>1. VariableTypes'
      BY <1>10 DEF ReadProductRow, VariableTypes, Goto, Stages, db, locks, buf
    <2>2. StageTypes'
      BY <1>10 DEF ReadProductRow, VariableTypes, StageTypes, Goto, Lines
    <2>3. QED  BY <2>1, <2>2
  <1>11. ASSUME NEW w \in Worker, SaveProductRow(w) PROVE TypeOK'
    <2>1. product' \in [Product -> Row] /\ UNCHANGED <<stock, ledger>>
      BY <1>11, SavedRowType DEF SaveProductRow, VariableTypes
    <2>2. QED  BY <1>11, <2>1, FinishTypeOK DEF SaveProductRow, VariableTypes
  <1>12. ASSUME NEW w \in Worker, Rollback(w) PROVE TypeOK'
    BY <1>12, RollbackTypeOK
  <1>13. CASE UNCHANGED vars
    BY <1>13 DEF VariableTypes, StageTypes, Lines, vars, db, locks, local, buf
  <1>14. QED
    BY <1>1, <1>2, <1>3, <1>4, <1>5, <1>6, <1>7, <1>8, <1>9, <1>10, <1>11, <1>12, <1>13
    DEF Next, Quiet, Step, Crash, AbortDeadlock, RefuseDuplicateLines, RefuseSale,
        RefuseProducts, RefuseMovement, RefuseProductRow

\* Types and the stages of the handlers are right in every reachable state.
THEOREM TypeCorrect == Spec => []TypeOK
  <1>1. QED  BY InitTypeOK, StepTypeOK, PTL DEF Spec
-----------------------------------------------------------------------------
(* The stock ledger.  StoreStock.qty is only ever written under the row's  *)
(* lock, from a value read under it, so a commit adds to the row what it   *)
(* adds to the movements.                                                  *)

LedgerInv == TypeOK /\ WritesAreLocked /\ LedgerMatchesStock

\* Cache and movements agree at the start.
LEMMA InitLedger == Init => LedgerInv
  <1>1. Init => WritesAreLocked
    BY DEF Init, WritesAreLocked
  <1>2. Init => LedgerMatchesStock
    BY DEF Init, LedgerMatchesStock
  <1>3. QED  BY <1>1, <1>2, InitTypeOK DEF LedgerInv

\* A step that leaves the StoreStock rows, the ledger and the buffers alone and
\* takes no lock from anyone keeps the ledger right.
LEMMA LedgerUndisturbed ==
    ASSUME LedgerInv, TypeOK', UNCHANGED <<stock, ledger, wrote, moved>>,
           \A k \in Key : stockLock[k] \in Worker => stockLock'[k] = stockLock[k]
    PROVE  LedgerInv'
  BY DEF LedgerInv, WritesAreLocked, LedgerMatchesStock, TypeOK, VariableTypes

\* A rollback leaves what is committed alone.
LEMMA LedgerRollback ==
    ASSUME LedgerInv, TypeOK', NEW w \in Worker, Finish(w), UNCHANGED <<stock, ledger>>
    PROVE  LedgerInv'
  <1>1. WritesAreLocked'
    BY DEF LedgerInv, WritesAreLocked, TypeOK, VariableTypes, Finish, ReleaseLocks
  <1>2. LedgerMatchesStock'
    BY DEF LedgerInv, LedgerMatchesStock
  <1>3. QED  BY <1>1, <1>2 DEF LedgerInv

\* record_movement adds the same delta to the quantity and to the movements.
LEMMA LedgerRecordMovement ==
    ASSUME LedgerInv, TypeOK', NEW w \in Worker, RecordMovement(w)
    PROVE  LedgerInv'
  <1> DEFINE k == LineKey(w)
             d == MovementDelta(w, Lines(w)[idx[w]])
  <1>1. /\ pc[w] = "move"
        /\ stockLock[k] \in {w, NoOne}
        /\ stockLock' = [stockLock EXCEPT ![k] = w]
        /\ wrote' = [wrote EXCEPT ![w][k] = CurrentQty(w, k) + d]
        /\ moved' = [moved EXCEPT ![w][k] = @ + d]
        /\ UNCHANGED <<stock, ledger>>
    <2>1. k \in Key
      BY CurrentLine DEF RecordMovement, LedgerInv
    <2>2. QED
      BY <2>1 DEF RecordMovement, StockBlockers, NewQty, LineDelta, db, LedgerInv, TypeOK,
                  VariableTypes
  <1>2. k \in Key
    BY <1>1, CurrentLine DEF LedgerInv
  <1>3. /\ moved[w][k] \in Int /\ moved'[w][k] \in Int /\ d \in Int
        /\ moved'[w][k] = moved[w][k] + d
    <2>1. d \in Int
      BY <1>1, DeltaType DEF LedgerInv
    <2>2. QED  BY <1>1, <1>2, <2>1 DEF LedgerInv, TypeOK, VariableTypes
  <1>4. wrote'[w][k] = QtyOf(stock[k]) + moved'[w][k]
    <2>1. wrote'[w][k] = CurrentQty(w, k) + d
      BY <1>1, <1>2 DEF LedgerInv, TypeOK, VariableTypes
    <2>2. CASE wrote[w][k] = NoRow
      <3>1. CurrentQty(w, k) = QtyOf(stock[k]) /\ moved[w][k] = 0
        BY <1>2, <2>2 DEF CurrentQty, LedgerInv, WritesAreLocked
      <3>2. QtyOf(stock[k]) \in Int /\ d \in Int
        BY <1>2, <1>3 DEF QtyOf, LedgerInv, TypeOK, VariableTypes
      <3>3. QED  BY <1>3, <2>1, <3>1, <3>2
    <2>3. CASE wrote[w][k] # NoRow
      <3>1. /\ CurrentQty(w, k) = wrote[w][k]
            /\ wrote[w][k] = QtyOf(stock[k]) + moved[w][k]
        BY <1>2, <2>3 DEF CurrentQty, QtyOf, LedgerInv, WritesAreLocked
      <3>2. QtyOf(stock[k]) \in Int
        BY <1>2 DEF QtyOf, LedgerInv, TypeOK, VariableTypes
      <3>3. QED  BY <1>3, <2>1, <3>1, <3>2
    <2>4. QED  BY <2>2, <2>3
  <1>5. wrote'[w][k] # NoRow
    <2>1. QtyOf(stock[k]) \in Int
      BY <1>2 DEF QtyOf, LedgerInv, TypeOK, VariableTypes
    <2>2. QED  BY <1>3, <1>4, <2>1, DataAssumption DEF DataAssumption
  <1> HIDE DEF k, d
  <1>6. ASSUME NEW v \in Worker, NEW j \in Key, v # w \/ j # k
        PROVE  /\ wrote'[v][j] = wrote[v][j] /\ moved'[v][j] = moved[v][j]
               /\ wrote[v][j] # NoRow => stockLock'[j] = stockLock[j]
    <2>1. wrote'[v][j] = wrote[v][j] /\ moved'[v][j] = moved[v][j]
      BY <1>1, <1>6 DEF LedgerInv, TypeOK, VariableTypes
    <2>2. CASE j # k
      BY <1>1, <2>1, <2>2 DEF LedgerInv, TypeOK, VariableTypes
    <2>3. CASE j = k
      BY <1>1, <1>6, <2>1, <2>3, BoundsAssumption
      DEF BoundsAssumption, LedgerInv, WritesAreLocked
    <2>4. QED  BY <2>2, <2>3
  <1>7. stockLock'[k] = w
    BY <1>1, <1>2 DEF LedgerInv, TypeOK, VariableTypes
  <1>8. WritesAreLocked'
    BY <1>1, <1>4, <1>5, <1>6, <1>7 DEF LedgerInv, WritesAreLocked
  <1>9. LedgerMatchesStock'
    BY <1>1 DEF LedgerInv, LedgerMatchesStock
  <1>10. QED  BY <1>8, <1>9 DEF LedgerInv

\* A commit writes quantity and movements of the rows it has locked.
LEMMA LedgerCommit ==
    ASSUME LedgerInv, TypeOK', NEW w \in Worker, Commit(w)
    PROVE  LedgerInv'
  <1>1. /\ stock' = [k \in Key |-> IF wrote[w][k] = NoRow THEN stock[k] ELSE wrote[w][k]]
        /\ ledger' = [k \in Key |-> ledger[k] + moved[w][k]]
        /\ Finish(w)
    BY DEF Commit, SaveWrites
  <1>2. ASSUME NEW k \in Key PROVE QtyOf(stock'[k]) = ledger'[k]
    <2>1. QtyOf(stock[k]) = ledger[k] /\ ledger[k] \in Int /\ moved[w][k] \in Int
      BY DEF LedgerInv, LedgerMatchesStock, TypeOK, VariableTypes
    <2>2. CASE wrote[w][k] = NoRow
      BY <1>1, <2>1, <2>2 DEF LedgerInv, WritesAreLocked
    <2>3. CASE wrote[w][k] # NoRow
      <3>1. wrote[w][k] = QtyOf(stock[k]) + moved[w][k]
        BY <2>3 DEF LedgerInv, WritesAreLocked
      <3>2. stock'[k] = wrote[w][k] /\ ledger'[k] = ledger[k] + moved[w][k]
        BY <1>1, <2>3
      <3>3. QED  BY <2>1, <2>3, <3>1, <3>2 DEF QtyOf
    <2>4. QED  BY <2>2, <2>3
  <1>3. ASSUME NEW v \in Worker, NEW k \in Key
        PROVE  IF wrote'[v][k] = NoRow THEN moved'[v][k] = 0
               ELSE stockLock'[k] = v /\ wrote'[v][k] = QtyOf(stock'[k]) + moved'[v][k]
    <2>1. CASE v = w
      BY <1>1, <2>1 DEF Finish, LedgerInv, TypeOK, VariableTypes
    <2>2. CASE v # w
      <3>1. wrote'[v][k] = wrote[v][k] /\ moved'[v][k] = moved[v][k]
        BY <1>1, <2>2 DEF Finish, LedgerInv, TypeOK, VariableTypes
      <3>2. CASE wrote[v][k] = NoRow
        BY <3>1, <3>2 DEF LedgerInv, WritesAreLocked
      <3>3. CASE wrote[v][k] # NoRow
        <4>1. stockLock[k] = v /\ wrote[v][k] = QtyOf(stock[k]) + moved[v][k]
          BY <3>3 DEF LedgerInv, WritesAreLocked
        <4>2. wrote[w][k] = NoRow
          BY <2>2, <4>1 DEF LedgerInv, WritesAreLocked
        <4>3. stock'[k] = stock[k] /\ stockLock'[k] = v
          BY <1>1, <2>2, <4>1, <4>2 DEF Finish, ReleaseLocks
        <4>4. QED  BY <3>1, <3>3, <4>1, <4>3
      <3>4. QED  BY <3>2, <3>3
    <2>3. QED  BY <2>1, <2>2
  <1>4. QED  BY <1>2, <1>3 DEF LedgerInv, WritesAreLocked, LedgerMatchesStock

\* Every step keeps the ledger.
LEMMA StepLedger == LedgerInv /\ [Next]_vars => LedgerInv'
  <1> SUFFICES ASSUME LedgerInv, [Next]_vars PROVE LedgerInv'
    OBVIOUS
  <1>t. TypeOK'
    BY StepTypeOK DEF LedgerInv
  <1>1. ASSUME NEW w \in Worker,
               Accept(w) \/ BeginSale(w) \/ LockProduct(w) \/ ResolveLines(w)
               \/ ReadProducts(w) \/ CheckForeignKey(w) \/ ReadProductRow(w)
        PROVE  LedgerInv'
    <2>1. UNCHANGED <<stock, ledger, wrote, moved, stockLock>>
      BY <1>1 DEF Accept, BeginSale, LockProduct, ResolveLines, ReadProducts,
                  CheckForeignKey, ReadProductRow, db, locks, buf
    <2>2. QED  BY <1>t, <2>1, LedgerUndisturbed
  <1>2. ASSUME NEW w \in Worker, ReadTarget(w), ~Rollback(w) PROVE LedgerInv'
    <2>1. /\ pc[w] = "target"
          /\ TargetBlockers(w) = {}
          /\ LockStockRow(w, LineKey(w))
          /\ UNCHANGED <<stock, ledger, wrote, moved>>
      BY <1>2 DEF ReadTarget, db, buf
    <2>2. LineKey(w) \in Key
      BY <2>1, CurrentLine DEF LedgerInv
    <2>3. ASSUME NEW k \in Key, stockLock[k] \in Worker
          PROVE  stockLock'[k] = stockLock[k]
      BY <2>1, <2>2, <2>3, BoundsAssumption
      DEF BoundsAssumption, TargetBlockers, StockBlockers, LockStockRow,
          LedgerInv, TypeOK, VariableTypes
    <2>4. QED  BY <1>t, <2>1, <2>3, LedgerUndisturbed
  <1>3. ASSUME NEW w \in Worker, RecordMovement(w) PROVE LedgerInv'
    BY <1>3, <1>t, LedgerRecordMovement
  <1>4. ASSUME NEW w \in Worker, Commit(w) PROVE LedgerInv'
    BY <1>4, <1>t, LedgerCommit
  <1>5. ASSUME NEW w \in Worker, SaveProductRow(w) \/ Rollback(w) PROVE LedgerInv'
    BY <1>5, <1>t, LedgerRollback DEF SaveProductRow, Rollback, db
  <1>6. CASE UNCHANGED vars
    BY <1>6, <1>t, LedgerUndisturbed DEF vars, db, locks, buf
  <1>7. QED
    BY <1>1, <1>2, <1>3, <1>4, <1>5, <1>6
    DEF Next, Quiet, Step, Crash, AbortDeadlock, RefuseDuplicateLines, RefuseSale,
        RefuseProducts, RefuseMovement, RefuseProductRow

\* The cached quantity of every product in every store is the sum of its
\* movements, and nobody's uncommitted quantity can overwrite another's.
THEOREM LedgerCorrect == Spec => [](LedgerMatchesStock /\ WritesAreLocked)
  <1>1. LedgerInv => LedgerMatchesStock /\ WritesAreLocked
    BY DEF LedgerInv
  <1>2. QED  BY <1>1, InitLedger, StepLedger, PTL DEF Spec
-----------------------------------------------------------------------------
(* The rows a sale is priced with.  create_sale reads a product only after *)
(* it has locked it, and nothing updates a product locked by another.      *)

SaleInv == TypeOK /\ SaleRowsAreLocked

\* A step of others that keeps the rows v has locked, keeps the sale of v.
LEMMA SaleUndisturbed ==
    ASSUME SaleInv, NEW v \in Worker,
           pc'[v] = pc[v], req'[v] = req[v], seen'[v] = seen[v], toLock'[v] = toLock[v],
           \A p \in Product : rowLock[p] = v => rowLock'[p] = v /\ product'[p] = product[p]
    PROVE  SaleRowsLockedBy(v)'
  <1>1. SaleRowsLockedBy(v)
    BY DEF SaleInv, SaleRowsAreLocked
  <1>2. pc[v] \in {"lock", "move", "fk", "commit"} => ProductsOf(req[v]) \subseteq Product
    BY RequestProducts DEF SaleInv
  <1>3. QED  BY <1>1, <1>2 DEF SaleRowsLockedBy, InSaleWrite, ProductsOf

\* The end of a request of w leaves the sales of the others alone.
LEMMA SaleFinish ==
    ASSUME SaleInv, TypeOK', NEW w \in Worker, Finish(w),
           \A p \in Product, v \in Worker \ {w} :
               rowLock[p] = v => product'[p] = product[p]
    PROVE  SaleInv'
  <1>1. SaleRowsLockedBy(w)'
    BY DEF SaleInv, TypeOK, VariableTypes, Finish, Goto, SaleRowsLockedBy, InSaleWrite
  <1>2. ASSUME NEW v \in Worker, v # w PROVE SaleRowsLockedBy(v)'
    <2>1. /\ pc'[v] = pc[v] /\ req'[v] = req[v]
          /\ seen'[v] = seen[v] /\ toLock'[v] = toLock[v]
      BY <1>2 DEF SaleInv, TypeOK, VariableTypes, Finish, Goto
    <2>2. \A p \in Product : rowLock[p] = v => rowLock'[p] = v
      BY <1>2 DEF Finish, ReleaseLocks
    <2>3. QED  BY <1>2, <2>1, <2>2, SaleUndisturbed
  <1>3. QED  BY <1>1, <1>2 DEF SaleInv, SaleRowsAreLocked

\* Every step keeps the rows of the sales locked.
LEMMA StepSale == SaleInv /\ [Next]_vars => SaleInv'
  <1> SUFFICES ASSUME SaleInv, [Next]_vars PROVE SaleInv'
    OBVIOUS
  <1>t. TypeOK'
    BY StepTypeOK DEF SaleInv
  <1>u. ASSUME NEW w \in Worker, SaleRowsLockedBy(w)',
               \A v \in Worker \ {w} :
                   /\ pc'[v] = pc[v] /\ req'[v] = req[v]
                   /\ seen'[v] = seen[v] /\ toLock'[v] = toLock[v]
                   /\ \A p \in Product : rowLock[p] = v =>
                          rowLock'[p] = v /\ product'[p] = product[p]
        PROVE  SaleInv'
    BY <1>t, <1>u, SaleUndisturbed DEF SaleInv, SaleRowsAreLocked
  <1> USE DEF TypeOK
  <1>1. ASSUME NEW w \in Worker, Accept(w) PROVE SaleInv'
    <2>1. PICK r \in Request :
             /\ req' = [req EXCEPT ![w] = r]
             /\ pc' = [pc EXCEPT ![w] = IF r.op = "sale" THEN "begin" ELSE "read"]
             /\ UNCHANGED <<product, rowLock, seen, toLock>>
      BY <1>1 DEF Accept, Goto, db, locks, local
    <2>2. SaleRowsLockedBy(w)'
      BY <2>1 DEF SaleInv, VariableTypes, SaleRowsLockedBy, InSaleWrite
    <2>3. QED  BY <1>u, <2>1, <2>2 DEF SaleInv, VariableTypes
  <1>2. ASSUME NEW w \in Worker, BeginSale(w) PROVE SaleInv'
    <2>1. /\ pc' = [pc EXCEPT ![w] = "lock"]
          /\ seen' = [seen EXCEPT ![w] = product]
          /\ toLock' = [toLock EXCEPT ![w] =
                {p \in ProductsOf(req[w]) : Available(product[p], req[w].store)}]
          /\ UNCHANGED <<product, rowLock, req>>
      BY <1>2 DEF BeginSale, Goto, db, locks
    <2>2. SaleRowsLockedBy(w)'
      BY <2>1 DEF SaleInv, VariableTypes, SaleRowsLockedBy, InSaleWrite
    <2>3. QED  BY <1>u, <2>1, <2>2 DEF SaleInv, VariableTypes
  <1>3. ASSUME NEW w \in Worker, LockProduct(w) PROVE SaleInv'
    <2>1. PICK p \in Product :
             /\ pc[w] = "lock"
             /\ rowLock[p] \in {w, NoOne}
             /\ rowLock' = [rowLock EXCEPT ![p] = w]
             /\ seen' = [seen EXCEPT ![w][p] = product[p]]
             /\ toLock' = [toLock EXCEPT ![w] = @ \ {p}]
             /\ UNCHANGED <<product, pc, req>>
      BY <1>3 DEF LockProduct, TakeRowLock, NextInNameOrder, ForUpdateBlockers, SaleInv,
                  VariableTypes, db
    <2>2. ProductsOf(req[w]) \subseteq Product
      BY <2>1, RequestProducts DEF SaleInv
    <2>3. SaleRowsLockedBy(w)'
      <3>1. SaleRowsLockedBy(w)
        BY DEF SaleInv, SaleRowsAreLocked
      <3>2. ASSUME NEW q \in ProductsOf(req[w]), q # p
            PROVE  /\ rowLock'[q] = rowLock[q] /\ seen'[w][q] = seen[w][q]
                   /\ q \in toLock[w] => q \in toLock'[w]
        BY <2>1, <2>2, <3>2 DEF SaleInv, VariableTypes
      <3>3. rowLock'[p] = w /\ seen'[w][p] = product'[p]
        BY <2>1 DEF SaleInv, VariableTypes
      <3>4. QED
        BY <2>1, <3>1, <3>2, <3>3 DEF SaleRowsLockedBy, InSaleWrite
    <2>4. ASSUME NEW v \in Worker \ {w}
          PROVE  /\ pc'[v] = pc[v] /\ req'[v] = req[v]
                 /\ seen'[v] = seen[v] /\ toLock'[v] = toLock[v]
                 /\ \A q \in Product : rowLock[q] = v =>
                        rowLock'[q] = v /\ product'[q] = product[q]
      BY <2>1, BoundsAssumption DEF BoundsAssumption, SaleInv, VariableTypes
    <2>5. QED  BY <1>u, <2>3, <2>4
  <1>4. ASSUME NEW w \in Worker, ResolveLines(w) PROVE SaleInv'
    <2>1. /\ pc[w] = "lock" /\ toLock[w] = {}
          /\ SaleIsAccepted(req[w], seen[w])
          /\ pc' = [pc EXCEPT ![w] = "move"]
          /\ UNCHANGED <<product, rowLock, req, seen, toLock>>
      BY <1>4 DEF ResolveLines, Goto, db, locks, local
    <2>2. \A p \in ProductsOf(req[w]) : Available(seen[w][p], req[w].store)
      BY <2>1 DEF SaleIsAccepted, ProductsOf
    <2>3. SaleRowsLockedBy(w)
      BY DEF SaleInv, SaleRowsAreLocked
    <2>4. SaleRowsLockedBy(w)'
      BY <2>1, <2>2, <2>3 DEF SaleInv, VariableTypes, SaleRowsLockedBy, InSaleWrite
    <2>5. QED  BY <1>u, <2>1, <2>4 DEF SaleInv, VariableTypes
  <1>5. ASSUME NEW w \in Worker, ReadProducts(w) \/ (ReadTarget(w) /\ ~Rollback(w))
        PROVE  SaleInv'
    <2>1. /\ pc[w] \in {"read", "target"}
          /\ pc' = [pc EXCEPT ![w] = "target"] \/ pc' = [pc EXCEPT ![w] = "move"]
          /\ UNCHANGED <<product, rowLock, req, toLock>>
          /\ \A v \in Worker \ {w} : seen'[v] = seen[v]
      BY <1>5 DEF ReadProducts, ReadTarget, Goto, db, locks, local, SaleInv, VariableTypes
    <2>2. req[w].op # "sale"
      BY <2>1 DEF SaleInv, SaleRowsAreLocked, SaleRowsLockedBy
    <2>3. SaleRowsLockedBy(w)'
      BY <2>1, <2>2 DEF SaleInv, VariableTypes, SaleRowsLockedBy, InSaleWrite
    <2>4. QED  BY <1>u, <2>1, <2>3 DEF SaleInv, VariableTypes
  <1>6. ASSUME NEW w \in Worker, RecordMovement(w) \/ CheckForeignKey(w)
        PROVE  SaleInv'
    <2>1. /\ pc[w] \in {"move", "fk"}
          /\ \E stage \in {"fk", "commit"} :
                pc' = pc \/ pc' = [pc EXCEPT ![w] = stage]
          /\ UNCHANGED <<product, rowLock, req, seen, toLock>>
      BY <1>6 DEF RecordMovement, CheckForeignKey, NextLine, Goto, db
    <2>2. SaleRowsLockedBy(w)
      BY DEF SaleInv, SaleRowsAreLocked
    <2>3. SaleRowsLockedBy(w)'
      BY <2>1, <2>2 DEF SaleInv, VariableTypes, SaleRowsLockedBy, InSaleWrite
    <2>4. QED  BY <1>u, <2>1, <2>3 DEF SaleInv, VariableTypes
  <1>7. ASSUME NEW w \in Worker, ReadProductRow(w) PROVE SaleInv'
    <2>1. /\ pc' = [pc EXCEPT ![w] = "save"]
          /\ seen' = [seen EXCEPT ![w] = product]
          /\ UNCHANGED <<product, rowLock, req, toLock>>
      BY <1>7 DEF ReadProductRow, Goto, db, locks
    <2>2. SaleRowsLockedBy(w)'
      BY <2>1 DEF SaleInv, VariableTypes, SaleRowsLockedBy, InSaleWrite
    <2>3. QED  BY <1>u, <2>1, <2>2 DEF SaleInv, VariableTypes
  <1>8. ASSUME NEW w \in Worker, SaveProductRow(w) PROVE SaleInv'
    <2>1. /\ rowLock[req[w].product] \in {w, NoOne}
          /\ product' = [product EXCEPT ![req[w].product] = SavedRow(w)]
          /\ Finish(w)
      <3>1. pc[w] = "save" /\ ShareBlockers(w, req[w].product) = {}
        BY <1>8 DEF SaveProductRow
      <3>2. QED  BY <1>8, <3>1 DEF SaveProductRow, ShareBlockers
    <2>2. ASSUME NEW p \in Product, NEW v \in Worker \ {w}, rowLock[p] = v
          PROVE  product'[p] = product[p]
      BY <2>1, <2>2, BoundsAssumption DEF BoundsAssumption, SaleInv, VariableTypes
    <2>3. QED  BY <1>t, <2>1, <2>2, SaleFinish
  <1>9. ASSUME NEW w \in Worker, Commit(w) \/ Rollback(w) PROVE SaleInv'
    <2>1. Finish(w) /\ UNCHANGED product
      BY <1>9 DEF Commit, SaveWrites, Rollback, db
    <2>2. QED  BY <1>t, <2>1, SaleFinish
  <1>10. CASE UNCHANGED vars
    <2>1. UNCHANGED <<product, rowLock, pc, req, seen, toLock>>
      BY <1>10 DEF vars, db, locks, local
    <2>2. \A v \in Worker : SaleRowsLockedBy(v)'
      BY <2>1, SaleUndisturbed
    <2>3. QED  BY <1>t, <2>2 DEF SaleInv, SaleRowsAreLocked
  <1>11. QED
    BY <1>1, <1>2, <1>3, <1>4, <1>5, <1>6, <1>7, <1>8, <1>9, <1>10
    DEF Next, Quiet, Step, Crash, AbortDeadlock, RefuseDuplicateLines, RefuseSale,
        RefuseProducts, RefuseMovement, RefuseProductRow

\* A sale never writes a line whose product has since been repriced, archived or
\* had its bundle changed: what it charges is the catalogue it commits against.
THEOREM SaleRowsCorrect == Spec => []SaleRowsAreCurrent
  <1>1. Init => SaleInv
    BY InitTypeOK DEF Init, SaleInv, SaleRowsAreLocked, SaleRowsLockedBy, InSaleWrite
  <1>2. SaleInv => SaleRowsAreCurrent
    BY DEF SaleInv, SaleRowsAreLocked, SaleRowsLockedBy, SaleRowsAreCurrent
  <1>3. QED  BY <1>1, <1>2, StepSale, PTL DEF Spec
-----------------------------------------------------------------------------
(* target_qty.  Where there is a row to lock, the quantity the delta was   *)
(* computed from is the committed one until the adjustment commits.        *)

Moving == {"move", "fk", "commit"}

TargetOf(w) ==
    /\ pc[w] \in {"begin", "lock"} => req[w].op = "sale"
    /\ pc[w] \notin Moving => \A k \in Key : wrote[w][k] = NoRow
    /\ pc[w] \in Moving /\ req[w].op = "target" /\ OpeningStock[LineKey(w)] # NoRow =>
          /\ stockLock[LineKey(w)] = w
          /\ pc[w] = "move" => /\ wrote[w][LineKey(w)] = NoRow
                               /\ base[w] = QtyOf(stock[LineKey(w)])
          /\ pc[w] # "move" => wrote[w][LineKey(w)] = Lines(w)[1].qty

\* A StoreStock row is never deleted.
RowsStay == \A k \in Key : OpeningStock[k] # NoRow => stock[k] # NoRow

TargetInv == LedgerInv /\ RowsStay /\ \A w \in Worker : TargetOf(w)

\* An adjustment has one line.
LEMMA OneLine ==
    ASSUME TypeOK, NEW w \in Worker, pc[w] \in {"target", "move", "fk", "commit"},
           req[w].op = "target"
    PROVE  /\ idx[w] = 1 /\ Len(Lines(w)) = 1 /\ Lines(w)[1] = Lines(w)[idx[w]]
           /\ Lines(w)[1].qty \in Int
  <1>1. req[w] \in Request /\ idx[w] \in DOMAIN Lines(w)
    BY DEF TypeOK, StageTypes
  <1>2. Len(Lines(w)) = 1
    BY <1>1, DataAssumption DEF DataAssumption, Lines
  <1>3. Lines(w) \in Seq(Line) /\ Lines(w)[idx[w]] \in Line /\ DOMAIN Lines(w) = 1..Len(Lines(w))
    BY CurrentLine
  <1>4. QED  BY <1>1, <1>2, <1>3 DEF Line

\* Steps of others, which write no row that v has locked.
LEMMA TargetUndisturbed ==
    ASSUME TargetInv, NEW v \in Worker,
           pc'[v] = pc[v], req'[v] = req[v], idx'[v] = idx[v], base'[v] = base[v],
           wrote'[v] = wrote[v],
           \A k \in Key : stockLock[k] = v => stockLock'[k] = v /\ stock'[k] = stock[k]
    PROVE  TargetOf(v)'
  <1>1. TargetOf(v) /\ TypeOK
    BY DEF TargetInv, LedgerInv
  <1>2. LineKey(v)' = LineKey(v) /\ Lines(v)' = Lines(v)
    BY DEF LineKey, LineProduct, Lines
  <1>3. pc[v] \in Moving => LineKey(v) \in Key
    BY <1>1, CurrentLine DEF Moving
  <1>4. QED  BY <1>1, <1>2, <1>3 DEF TargetOf

\* Rows are only ever overwritten.
LEMMA SavedRowsStay ==
    ASSUME TargetInv, NEW w \in Worker, SaveWrites(w) \/ UNCHANGED stock
    PROVE  RowsStay'
  BY DEF TargetInv, RowsStay, SaveWrites

\* The end of a request of w, whose writes were under its locks.
LEMMA TargetFinish ==
    ASSUME TargetInv, LedgerInv', NEW w \in Worker, Finish(w), SaveWrites(w) \/ UNCHANGED stock
    PROVE  TargetInv'
  <1>1. TargetOf(w)'
    BY DEF TargetInv, LedgerInv, TypeOK, VariableTypes, Finish, Goto, TargetOf, Moving
  <1>2. ASSUME NEW v \in Worker, v # w PROVE TargetOf(v)'
    <2>1. /\ pc'[v] = pc[v] /\ req'[v] = req[v] /\ idx'[v] = idx[v] /\ base'[v] = base[v]
          /\ wrote'[v] = wrote[v]
      BY <1>2 DEF TargetInv, LedgerInv, TypeOK, VariableTypes, Finish, Goto
    <2>2. ASSUME NEW k \in Key, stockLock[k] = v PROVE stockLock'[k] = v /\ stock'[k] = stock[k]
      <3>1. stockLock'[k] = v
        BY <1>2, <2>2 DEF Finish, ReleaseLocks
      <3>2. wrote[w][k] = NoRow
        BY <1>2, <2>2 DEF TargetInv, LedgerInv, WritesAreLocked
      <3>3. QED  BY <3>1, <3>2 DEF SaveWrites
    <2>3. QED  BY <2>1, <2>2, TargetUndisturbed
  <1>3. QED  BY <1>1, <1>2, SavedRowsStay DEF TargetInv

\* Every step keeps the targets.
LEMMA StepTarget == TargetInv /\ [Next]_vars => TargetInv'
  <1> SUFFICES ASSUME TargetInv, [Next]_vars PROVE TargetInv'
    OBVIOUS
  <1>t. LedgerInv' /\ TypeOK
    BY StepLedger DEF TargetInv, LedgerInv
  <1>u. ASSUME NEW w \in Worker, UNCHANGED stock, TargetOf(w)',
               \A v \in Worker \ {w} :
                   /\ pc'[v] = pc[v] /\ req'[v] = req[v] /\ idx'[v] = idx[v]
                   /\ base'[v] = base[v] /\ wrote'[v] = wrote[v]
                   /\ \A k \in Key : stockLock[k] = v => stockLock'[k] = v
        PROVE  TargetInv'
    BY <1>t, <1>u, TargetUndisturbed, SavedRowsStay DEF TargetInv
  <1> USE DEF TypeOK
  <1>1. ASSUME NEW w \in Worker,
               Accept(w) \/ BeginSale(w) \/ LockProduct(w) \/ ReadProductRow(w)
        PROVE  TargetInv'
    <2>1. /\ UNCHANGED <<stock, stockLock, idx, base, wrote>>
          /\ pc[w] \notin Moving
          /\ \E s \in Stages \ Moving : pc' = [pc EXCEPT ![w] = s]
          /\ req' = req \/ (pc[w] = "idle" /\ \E r \in Request : req' = [req EXCEPT ![w] = r])
      <3>1. Accept(w) => \E s \in Stages \ Moving : pc' = [pc EXCEPT ![w] = s]
        BY DEF Accept, Goto, Stages, Moving
      <3>2. LockProduct(w) => pc' = [pc EXCEPT ![w] = "lock"]
        BY <1>t DEF LockProduct, VariableTypes
      <3>3. QED
        BY <1>1, <3>1, <3>2 DEF Accept, BeginSale, LockProduct, ReadProductRow, Goto, Stages, Moving,
                    db, locks, local, buf
    <2>2. pc'[w] \in {"begin", "lock"} => req'[w].op = "sale"
      <3>1. Accept(w) => (pc'[w] = "begin" => req'[w].op = "sale") /\ pc'[w] # "lock"
        BY <1>t DEF Accept, Goto, VariableTypes
      <3>2. BeginSale(w) \/ LockProduct(w) => req'[w].op = "sale"
        BY <1>t DEF BeginSale, LockProduct, TargetInv, TargetOf
      <3>3. ReadProductRow(w) => pc'[w] = "save"
        BY <1>t DEF ReadProductRow, Goto, VariableTypes
      <3>4. QED  BY <1>1, <3>1, <3>2, <3>3
    <2>4. TargetOf(w)'
      BY <1>t, <2>1, <2>2 DEF TargetInv, VariableTypes, TargetOf
    <2>3. QED  BY <1>t, <1>u, <2>1, <2>4 DEF VariableTypes
  <1>2. ASSUME NEW w \in Worker, ResolveLines(w) \/ ReadProducts(w) PROVE TargetInv'
    <2>1. /\ UNCHANGED <<stock, stockLock, idx, base, wrote, req>>
          /\ pc[w] \notin Moving
          /\ pc' = [pc EXCEPT ![w] = "target"]
             \/ (req[w].op # "target" /\ pc' = [pc EXCEPT ![w] = "move"])
      <3>1. ResolveLines(w) => req[w].op # "target"
        BY DEF ResolveLines, TargetInv, TargetOf
      <3>2. QED
        BY <1>2, <3>1 DEF ResolveLines, ReadProducts, Goto, Moving, db, locks, local, buf
    <2>2. TargetOf(w)'
      BY <1>t, <2>1 DEF TargetInv, VariableTypes, TargetOf, Moving
    <2>3. QED  BY <1>t, <1>u, <2>1, <2>2 DEF VariableTypes
  <1>3. ASSUME NEW w \in Worker, ReadTarget(w), ~Rollback(w) PROVE TargetInv'
    <2>1. /\ pc[w] = "target" /\ TargetBlockers(w) = {}
          /\ base' = [base EXCEPT ![w] = QtyOf(stock[LineKey(w)])]
          /\ LockStockRow(w, LineKey(w))
          /\ pc' = [pc EXCEPT ![w] = "move"]
          /\ UNCHANGED <<stock, req, idx, wrote>>
      BY <1>3 DEF ReadTarget, Goto, db, buf
    <2>2. LineKey(w) \in Key /\ LineKey(w)' = LineKey(w)
      BY <1>t, <2>1, CurrentLine DEF LineKey, LineProduct, Lines
    <2>3. OpeningStock[LineKey(w)] # NoRow =>
              stock[LineKey(w)] # NoRow /\ stockLock'[LineKey(w)] = w
      BY <1>t, <2>1, <2>2 DEF TargetInv, RowsStay, LockStockRow, VariableTypes
    <2>4. TargetOf(w)'
      <3>1. wrote'[w][LineKey(w)] = NoRow
        BY <2>1, <2>2 DEF TargetInv, TargetOf, Moving
      <3>2. base'[w] = QtyOf(stock'[LineKey(w)]) /\ pc'[w] = "move"
        BY <1>t, <2>1 DEF VariableTypes
      <3>3. QED  BY <2>2, <2>3, <3>1, <3>2 DEF TargetOf, Moving
    <2>5. ASSUME NEW k \in Key, NEW v \in Worker \ {w}, stockLock[k] = v PROVE stockLock'[k] = v
      BY <1>t, <2>1, <2>2, <2>5, BoundsAssumption
      DEF BoundsAssumption, TargetBlockers, StockBlockers, LockStockRow, VariableTypes
    <2>6. QED  BY <1>t, <1>u, <2>1, <2>4, <2>5 DEF VariableTypes
  <1>4. ASSUME NEW w \in Worker, RecordMovement(w) PROVE TargetInv'
    <2> DEFINE k == LineKey(w)
    <2>1. /\ pc[w] = "move" /\ stockLock[k] \in {w, NoOne}
          /\ stockLock' = [stockLock EXCEPT ![k] = w]
          /\ wrote' = [wrote EXCEPT ![w][k] = NewQty(w)]
          /\ NextLine(w, "fk")
          /\ UNCHANGED <<stock, req, base>>
      <3>1. pc[w] = "move" /\ StockBlockers(w, k) = {}
        BY <1>4 DEF RecordMovement
      <3>2. k \in Key
        BY <1>t, <3>1, CurrentLine
      <3>3. stockLock[k] \in {w, NoOne}
        BY <1>t, <3>1, <3>2 DEF StockBlockers, VariableTypes
      <3>4. QED  BY <1>4, <3>1, <3>3 DEF RecordMovement, db
    <2>2. k \in Key
      BY <1>t, <2>1, CurrentLine
    <2>3. TargetOf(w)'
      <3>1. CASE req[w].op # "target"
        <4>1. pc'[w] \in Moving /\ req'[w].op # "target"
          BY <1>t, <2>1, <3>1 DEF NextLine, Goto, Moving, VariableTypes
        <4>2. QED  BY <4>1 DEF TargetOf, Moving
      <3>2. CASE req[w].op = "target"
        <4>1. /\ idx[w] = 1 /\ Len(Lines(w)) = 1 /\ Lines(w)[1] = Lines(w)[idx[w]]
              /\ Lines(w)[1].qty \in Int
          BY <1>t, <2>1, <3>2, OneLine
        <4>2. idx' = [idx EXCEPT ![w] = 1] /\ pc' = [pc EXCEPT ![w] = "fk"]
          BY <2>1, <4>1 DEF NextLine, Goto
        <4>3. idx'[w] = 1 /\ pc'[w] = "fk" /\ LineKey(w)' = k /\ Lines(w)' = Lines(w)
          BY <1>t, <2>1, <4>1, <4>2 DEF VariableTypes, LineKey, LineProduct, Lines
        <4>4. ASSUME OpeningStock[k] # NoRow PROVE wrote'[w][k] = Lines(w)[1].qty
          <5>1. wrote[w][k] = NoRow /\ base[w] = QtyOf(stock[k]) /\ QtyOf(stock[k]) \in Int
            BY <1>t, <2>1, <2>2, <3>2, <4>4 DEF TargetInv, TargetOf, Moving, VariableTypes, QtyOf
          <5>2. NewQty(w) = QtyOf(stock[k]) + (Lines(w)[1].qty - base[w])
            BY <3>2, <4>1, <5>1 DEF NewQty, LineDelta, CurrentQty, MovementDelta
          <5>3. NewQty(w) = Lines(w)[1].qty
            BY <4>1, <5>1, <5>2
          <5>4. QED  BY <1>t, <2>1, <2>2, <5>3 DEF VariableTypes
        <4>5. stockLock'[k] = w
          BY <1>t, <2>1, <2>2 DEF VariableTypes
        <4>6. QED  BY <4>3, <4>4, <4>5 DEF TargetOf, Moving
      <3>3. QED  BY <3>1, <3>2
    <2>4. ASSUME NEW v \in Worker \ {w}
          PROVE  /\ pc'[v] = pc[v] /\ req'[v] = req[v] /\ idx'[v] = idx[v]
                 /\ base'[v] = base[v] /\ wrote'[v] = wrote[v]
                 /\ \A j \in Key : stockLock[j] = v => stockLock'[j] = v
      BY <1>t, <2>1, <2>2, BoundsAssumption DEF BoundsAssumption, VariableTypes, NextLine, Goto
    <2>5. QED  BY <1>u, <2>1, <2>3, <2>4
  <1>5. ASSUME NEW w \in Worker, CheckForeignKey(w) PROVE TargetInv'
    <2>1. /\ pc[w] = "fk" /\ NextLine(w, "commit")
          /\ UNCHANGED <<stock, stockLock, req, base, wrote>>
      BY <1>5 DEF CheckForeignKey, db, buf
    <2>2. TargetOf(w)'
      <3>1. CASE req[w].op # "target"
        <4>1. pc'[w] \in Moving /\ req'[w].op # "target"
          BY <1>t, <2>1, <3>1 DEF NextLine, Goto, Moving, VariableTypes
        <4>2. QED  BY <4>1 DEF TargetOf, Moving
      <3>2. CASE req[w].op = "target"
        <4>1. idx[w] = 1 /\ Len(Lines(w)) = 1
          BY <1>t, <2>1, <3>2, OneLine
        <4>2. idx' = [idx EXCEPT ![w] = 1] /\ pc' = [pc EXCEPT ![w] = "commit"]
          BY <2>1, <4>1 DEF NextLine, Goto
        <4>3. idx'[w] = 1 /\ pc'[w] = "commit" /\ LineKey(w)' = LineKey(w) /\ Lines(w)' = Lines(w)
          BY <1>t, <2>1, <4>1, <4>2 DEF VariableTypes, LineKey, LineProduct, Lines
        <4>4. QED  BY <2>1, <4>3 DEF TargetInv, TargetOf, Moving
      <3>3. QED  BY <3>1, <3>2
    <2>3. QED  BY <1>t, <1>u, <2>1, <2>2 DEF VariableTypes, NextLine, Goto
  <1>6. ASSUME NEW w \in Worker, Commit(w) \/ SaveProductRow(w) \/ Rollback(w) PROVE TargetInv'
    BY <1>6, <1>t, TargetFinish DEF Commit, SaveProductRow, Rollback, db
  <1>7. CASE UNCHANGED vars
    <2>1. UNCHANGED <<stock, stockLock, pc, req, idx, base, wrote>>
      BY <1>7 DEF vars, db, locks, local, buf
    <2>2. \A v \in Worker : TargetOf(v)'
      BY <2>1, TargetUndisturbed
    <2>3. QED  BY <1>t, <2>1, <2>2 DEF TargetInv, RowsStay
  <1>8. QED
    BY <1>1, <1>2, <1>3, <1>4, <1>5, <1>6, <1>7
    DEF Next, Quiet, Step, Crash, AbortDeadlock, RefuseDuplicateLines, RefuseSale,
        RefuseProducts, RefuseMovement, RefuseProductRow

\* An adjustment with target_qty leaves the target, whatever it overlaps with, where the
\* product had a StoreStock row from the start.
THEOREM TargetCorrect == Spec => StockedTargetIsReached
  <1>1. Init => TargetInv
    BY InitLedger DEF Init, TargetInv, RowsStay, TargetOf, Moving
  <1>2. TargetInv /\ [Next]_vars =>
          [\A w \in Worker :
              Commit(w) /\ req[w].op = "target" /\ OpeningStock[LineKey(w)] # NoRow =>
                  stock'[LineKey(w)] = Lines(w)[1].qty]_vars
    <2>1. ASSUME TargetInv, NEW w \in Worker, Commit(w), req[w].op = "target",
                 OpeningStock[LineKey(w)] # NoRow
          PROVE  stock'[LineKey(w)] = Lines(w)[1].qty
      <3>1. pc[w] = "commit" /\ SaveWrites(w) /\ TypeOK
        BY <2>1 DEF Commit, TargetInv, LedgerInv
      <3>2. LineKey(w) \in Key /\ Lines(w)[1].qty \in Int
        BY <2>1, <3>1, CurrentLine, OneLine
      <3>3. wrote[w][LineKey(w)] = Lines(w)[1].qty
        BY <2>1, <3>1 DEF TargetInv, TargetOf, Moving
      <3>4. QED  BY <3>1, <3>2, <3>3, DataAssumption DEF DataAssumption, SaveWrites
    <2>2. QED  BY <2>1
  <1>3. QED  BY <1>1, <1>2, StepTarget, PTL DEF Spec, StockedTargetIsReached
-----------------------------------------------------------------------------
(* What every row of a product is, in the table and in the hands of the    *)
(* handlers: of the tenant it always had, and whole.  A PATCH writes back  *)
(* the row it was validated on.                                            *)

RowIsRight(row, p) == row.tenant = Catalogue[p].tenant /\ IsWhole(row)

ColumnsInv ==
    /\ TypeOK
    /\ \A p \in Product : RowIsRight(product[p], p)
    /\ \A w \in Worker, p \in Product : RowIsRight(seen[w][p], p)
    /\ \A w \in Worker : pc[w] = "save" /\ req[w].op = "patch" =>
                            PatchIsValid(req[w], seen[w][req[w].product])

\* A valid PATCH leaves a whole row, and so does a DELETE.
LEMMA EditsKeepColumns ==
    ASSUME NEW p \in Product, NEW row \in Row, RowIsRight(row, p)
    PROVE  /\ \A r \in PatchRequest : PatchIsValid(r, row) => RowIsRight(Patched(r, row), p)
           /\ RowIsRight([row EXCEPT !.archived = TRUE], p)
  <1>1. ASSUME NEW r \in PatchRequest, PatchIsValid(r, row) PROVE RowIsRight(Patched(r, row), p)
    <2>1. /\ Patched(r, row).tenant = row.tenant
          /\ Patched(r, row).weighted = Given(r.weighted, row.weighted)
          /\ Patched(r, row).bundleQty = Given(r.bundleQty, row.bundleQty)
          /\ Patched(r, row).bundlePrice = Given(r.bundlePrice, row.bundlePrice)
      BY DEF Patched, Row
    <2>2. /\ r.bundleQty \in Nat \cup {Absent} /\ r.bundlePrice \in Nat \cup {Absent}
          /\ r.bundleQty = 0 => r.bundlePrice = 0
      BY DEF PatchRequest
    <2>3. Patched(r, row).bundleQty = 0 => Patched(r, row).bundlePrice = 0
      BY <1>1, <2>1, <2>2, DataAssumption
      DEF DataAssumption, Given, PatchIsValid, RowIsRight, IsWhole, Row
    <2>4. QED  BY <1>1, <2>1, <2>3 DEF PatchIsValid, RowIsRight, IsWhole
  <1>2. RowIsRight([row EXCEPT !.archived = TRUE], p)
    BY DEF Row, RowIsRight, IsWhole
  <1>3. QED  BY <1>1, <1>2

\* Every step keeps the rows right.
LEMMA StepColumns == ColumnsInv /\ [Next]_vars => ColumnsInv'
  <1> SUFFICES ASSUME ColumnsInv, [Next]_vars PROVE ColumnsInv'
    OBVIOUS
  <1>t. TypeOK' /\ TypeOK
    BY StepTypeOK DEF ColumnsInv
  <1>u. ASSUME NEW w \in Worker, UNCHANGED <<product, seen>>, pc'[w] # "save" \/ UNCHANGED <<pc, req>>,
               \A v \in Worker \ {w} : pc'[v] = pc[v] /\ req'[v] = req[v]
        PROVE  ColumnsInv'
    BY <1>t, <1>u DEF ColumnsInv
  <1>r. ASSUME NEW w \in Worker, seen' = [seen EXCEPT ![w] = product], UNCHANGED <<product, req>>,
               pc'[w] = "save" /\ req[w].op = "patch" => PatchIsValid(req[w], product[req[w].product]),
               \A v \in Worker \ {w} : pc'[v] = pc[v]
        PROVE  ColumnsInv'
    BY <1>t, <1>r DEF ColumnsInv, TypeOK, VariableTypes
  <1>f. ASSUME NEW w \in Worker, Finish(w), \A p \in Product : RowIsRight(product'[p], p)
        PROVE  ColumnsInv'
    <2>1. seen'[w] = Catalogue /\ pc'[w] = "idle"
      BY <1>t, <1>f DEF Finish, Goto, TypeOK, VariableTypes
    <2>2. \A p \in Product : RowIsRight(Catalogue[p], p)
      BY DataAssumption DEF DataAssumption, RowIsRight
    <2>3. \A v \in Worker \ {w} : pc'[v] = pc[v] /\ req'[v] = req[v] /\ seen'[v] = seen[v]
      BY <1>t, <1>f DEF Finish, Goto, TypeOK, VariableTypes
    <2>4. QED  BY <1>t, <1>f, <2>1, <2>2, <2>3 DEF ColumnsInv
  <1> USE DEF TypeOK
  <1>1. ASSUME NEW w \in Worker, BeginSale(w) \/ ReadProducts(w) PROVE ColumnsInv'
    <2>1. /\ seen' = [seen EXCEPT ![w] = product] /\ UNCHANGED <<product, req>>
          /\ pc'[w] # "save" /\ \A v \in Worker \ {w} : pc'[v] = pc[v]
      BY <1>1, <1>t DEF BeginSale, ReadProducts, Goto, VariableTypes, db
    <2>2. QED  BY <1>r, <2>1
  <1>2. ASSUME NEW w \in Worker, ReadProductRow(w) PROVE ColumnsInv'
    <2>1. /\ seen' = [seen EXCEPT ![w] = product] /\ UNCHANGED <<product, req>>
          /\ req[w].op = "patch" => PatchIsValid(req[w], product[req[w].product])
          /\ \A v \in Worker \ {w} : pc'[v] = pc[v]
      BY <1>2, <1>t DEF ReadProductRow, ProductRequestIsValid, Goto, VariableTypes, db
    <2>2. QED  BY <1>r, <2>1
  <1>3. ASSUME NEW w \in Worker, LockProduct(w) PROVE ColumnsInv'
    <2>1. PICK p : /\ seen' = [seen EXCEPT ![w][p] = product[p]]
                   /\ pc[w] = "lock" /\ UNCHANGED <<product, pc, req>>
      BY <1>3 DEF LockProduct, db
    <2>2. /\ \A v \in Worker \ {w} : seen'[v] = seen[v]
          /\ \A q \in Product : seen'[w][q] \in {seen[w][q], product[q]}
      BY <1>t, <2>1 DEF VariableTypes
    <2>3. QED  BY <1>t, <2>1, <2>2 DEF ColumnsInv
  <1>4. ASSUME NEW w \in Worker, SaveProductRow(w) PROVE ColumnsInv'
    <2> DEFINE p == req[w].product
    <2>1. /\ pc[w] = "save" /\ Finish(w)
          /\ product' = [product EXCEPT ![p] = SavedRow(w)]
      BY <1>4 DEF SaveProductRow
    <2>2. /\ p \in Product
          /\ req[w].op = "patch" => req[w] \in PatchRequest
          /\ seen[w][p] \in Row /\ product[p] \in Row
      BY <1>t, <2>1, RequestKinds DEF VariableTypes, StageTypes, PatchRequest, ArchiveRequest
    <2>3. RowIsRight(SavedRow(w), p)
      <3>1. RowIsRight(seen[w][p], p) /\ RowIsRight(product[p], p)
        BY <2>2 DEF ColumnsInv
      <3>2. CASE req[w].op = "patch"
        <4>1. PatchIsValid(req[w], seen[w][p])
          BY <2>1, <3>2 DEF ColumnsInv
        <4>2. QED  BY <2>2, <3>1, <3>2, <4>1, EditsKeepColumns DEF SavedRow
      <3>3. CASE req[w].op # "patch"
        BY <2>2, <3>1, <3>3, EditsKeepColumns DEF SavedRow
      <3>4. QED  BY <3>2, <3>3
    <2>4. \A q \in Product : RowIsRight(product'[q], q)
      BY <1>t, <2>1, <2>2, <2>3 DEF ColumnsInv, VariableTypes
    <2>5. QED  BY <1>f, <2>1, <2>4
  <1>5. ASSUME NEW w \in Worker, Commit(w) \/ Rollback(w) PROVE ColumnsInv'
    BY <1>5, <1>f DEF Commit, SaveWrites, Rollback, db, ColumnsInv
  <1>6. ASSUME NEW w \in Worker,
               \/ Accept(w) \/ ResolveLines(w) \/ RecordMovement(w)
               \/ CheckForeignKey(w) \/ (ReadTarget(w) /\ ~Rollback(w))
        PROVE  ColumnsInv'
    <2>1. UNCHANGED <<product, seen>>
      BY <1>6 DEF Accept, ResolveLines, RecordMovement, CheckForeignKey, ReadTarget, db, local
    <2>2. pc'[w] # "save"
      <3>1. RecordMovement(w) \/ CheckForeignKey(w) => pc'[w] # "save"
        BY <1>t DEF RecordMovement, CheckForeignKey, NextLine, Goto, VariableTypes
      <3>2. Accept(w) \/ ResolveLines(w) \/ (ReadTarget(w) /\ ~Rollback(w)) => pc'[w] # "save"
        BY <1>t DEF Accept, ResolveLines, ReadTarget, Goto, VariableTypes
      <3>3. QED  BY <1>6, <3>1, <3>2
    <2>3. \A v \in Worker \ {w} : pc'[v] = pc[v] /\ req'[v] = req[v]
      BY <1>6, <1>t
      DEF Accept, ResolveLines, RecordMovement, CheckForeignKey, ReadTarget, NextLine, Goto,
          VariableTypes
    <2>4. QED  BY <1>u, <2>1, <2>2, <2>3
  <1>7. CASE UNCHANGED vars
    BY <1>7, <1>t DEF ColumnsInv, vars, db, local
  <1>8. QED
    BY <1>1, <1>2, <1>3, <1>4, <1>5, <1>6, <1>7
    DEF Next, Quiet, Step, Crash, AbortDeadlock, RefuseDuplicateLines, RefuseSale,
        RefuseProducts, RefuseMovement, RefuseProductRow

\* They are right at the start.
LEMMA InitColumns == Init => ColumnsInv
  BY InitTypeOK, DataAssumption DEF DataAssumption, Init, ColumnsInv, RowIsRight

\* No product is ever weighed and bundled, or has part of a bundle, whatever PATCHes
\* overlap.
THEOREM WholeCorrect == Spec => []RowsStayWhole
  <1>1. ColumnsInv => RowsStayWhole
    BY DEF ColumnsInv, RowIsRight, RowsStayWhole
  <1>2. QED  BY <1>1, InitColumns, StepColumns, PTL DEF Spec
-----------------------------------------------------------------------------
(* Who holds which locks.                                                  *)

Holds(w) ==
    /\ pc[w] = "idle" => req[w] = NoRequest
    /\ pc[w] \in {"begin", "lock"} => req[w].op = "sale"
    /\ \A p \in Product : rowLock[p] = w => req[w].op = "sale" /\ pc[w] \in {"lock"} \cup Moving
    /\ \A p \in Product : w \in keyShare[p] => pc[w] \in {"fk", "commit"}
    /\ \A k \in Key : stockLock[k] = w =>
          pc[w] \in Moving /\ k[1] = req[w].store /\ k[2] \in ProductsOf(req[w])

HoldInv == TypeOK /\ \A w \in Worker : Holds(w)

\* Steps of others give v no locks.
LEMMA HoldUndisturbed ==
    ASSUME HoldInv, NEW v \in Worker, pc'[v] = pc[v], req'[v] = req[v],
           \A p \in Product : rowLock'[p] = v => rowLock[p] = v,
           \A p \in Product : v \in keyShare'[p] => v \in keyShare[p],
           \A k \in Key : stockLock'[k] = v => stockLock[k] = v
    PROVE  Holds(v)'
  <1>1. Holds(v)
    BY DEF HoldInv
  <1>2. QED  BY <1>1 DEF Holds

\* Whoever has finished holds nothing.
LEMMA HoldFinish ==
    ASSUME HoldInv, TypeOK', NEW w \in Worker, Finish(w)
    PROVE  HoldInv'
  <1>1. Holds(w)'
    <2>1. pc'[w] = "idle" /\ req'[w] = NoRequest
      BY DEF HoldInv, TypeOK, VariableTypes, Finish, Goto
    <2>2. /\ \A p \in Product : rowLock'[p] # w /\ w \notin keyShare'[p]
          /\ \A k \in Key : stockLock'[k] # w
      BY BoundsAssumption
      DEF BoundsAssumption, HoldInv, TypeOK, VariableTypes, Finish, ReleaseLocks
    <2>3. QED  BY <2>1, <2>2 DEF Holds
  <1>2. ASSUME NEW v \in Worker, v # w PROVE Holds(v)'
    <2>1. pc'[v] = pc[v] /\ req'[v] = req[v]
      BY <1>2 DEF HoldInv, TypeOK, VariableTypes, Finish, Goto
    <2>2. /\ \A p \in Product : rowLock'[p] = v => rowLock[p] = v
          /\ \A p \in Product : v \in keyShare'[p] => v \in keyShare[p]
          /\ \A k \in Key : stockLock'[k] = v => stockLock[k] = v
      BY BoundsAssumption
      DEF BoundsAssumption, HoldInv, TypeOK, VariableTypes, Finish, ReleaseLocks
    <2>3. QED  BY <2>1, <2>2, HoldUndisturbed
  <1>3. QED  BY <1>1, <1>2 DEF HoldInv

\* The line a worker is at names one of the products of its request.
LEMMA LineOfRequest ==
    ASSUME TypeOK, NEW w \in Worker, pc[w] \in {"target", "move", "fk", "commit"}
    PROVE  /\ LineKey(w) \in Key
           /\ LineKey(w)[1] = req[w].store /\ LineKey(w)[2] = LineProduct(w)
           /\ LineProduct(w) \in ProductsOf(req[w])
  <1>1. LineKey(w) \in Key /\ idx[w] \in DOMAIN Lines(w)
    BY CurrentLine DEF TypeOK, StageTypes
  <1>2. QED  BY <1>1 DEF LineKey, LineProduct, Lines, ProductsOf

\* Every step keeps the locks with those that took them.
LEMMA StepHold == HoldInv /\ [Next]_vars => HoldInv'
  <1> SUFFICES ASSUME HoldInv, [Next]_vars PROVE HoldInv'
    OBVIOUS
  <1>t. TypeOK' /\ TypeOK
    BY StepTypeOK DEF HoldInv
  <1>u. ASSUME NEW w \in Worker, Holds(w)',
               \A v \in Worker \ {w} :
                   /\ pc'[v] = pc[v] /\ req'[v] = req[v]
                   /\ \A p \in Product : rowLock'[p] = v => rowLock[p] = v
                   /\ \A p \in Product : v \in keyShare'[p] => v \in keyShare[p]
                   /\ \A k \in Key : stockLock'[k] = v => stockLock[k] = v
        PROVE  HoldInv'
    BY <1>t, <1>u, HoldUndisturbed DEF HoldInv
  <1> USE DEF TypeOK
  <1>1. ASSUME NEW w \in Worker, Accept(w) PROVE HoldInv'
    <2>1. PICK r \in Request :
             /\ req' = [req EXCEPT ![w] = r]
             /\ pc' = [pc EXCEPT ![w] = IF r.op = "sale" THEN "begin" ELSE "read"]
             /\ UNCHANGED locks /\ pc[w] = "idle"
      BY <1>1 DEF Accept, Goto
    <2>2. Holds(w)'
      BY <1>t, <2>1 DEF HoldInv, VariableTypes, Holds, locks, Moving
    <2>3. QED  BY <1>t, <1>u, <2>1, <2>2 DEF VariableTypes, locks
  <1>2. ASSUME NEW w \in Worker, BeginSale(w) \/ ReadProductRow(w) PROVE HoldInv'
    <2>1. /\ \/ pc[w] = "begin" /\ pc' = [pc EXCEPT ![w] = "lock"]
             \/ pc[w] = "read" /\ pc' = [pc EXCEPT ![w] = "save"]
          /\ UNCHANGED <<locks, req>>
      BY <1>2 DEF BeginSale, ReadProductRow, Goto
    <2>2. Holds(w)'
      BY <1>t, <2>1 DEF HoldInv, VariableTypes, Holds, locks, Moving
    <2>3. QED  BY <1>t, <1>u, <2>1, <2>2 DEF VariableTypes, locks
  <1>3. ASSUME NEW w \in Worker, LockProduct(w) PROVE HoldInv'
    <2>1. PICK p \in Product :
             /\ pc[w] = "lock"
             /\ rowLock' = [rowLock EXCEPT ![p] = w]
             /\ UNCHANGED <<pc, req, keyShare, stockLock>>
      BY <1>3, <1>t DEF LockProduct, TakeRowLock, NextInNameOrder, VariableTypes
    <2>2. Holds(w)'
      BY <1>t, <2>1 DEF HoldInv, VariableTypes, Holds, Moving
    <2>3. QED  BY <1>t, <1>u, <2>1, <2>2 DEF VariableTypes
  <1>4. ASSUME NEW w \in Worker, ResolveLines(w) \/ ReadProducts(w) PROVE HoldInv'
    <2>1. /\ pc[w] \in {"lock", "read"}
          /\ \/ pc' = [pc EXCEPT ![w] = "target"] /\ pc[w] = "read"
             \/ pc' = [pc EXCEPT ![w] = "move"]
          /\ UNCHANGED <<locks, req>>
      BY <1>4 DEF ResolveLines, ReadProducts, Goto
    <2>2. Holds(w)'
      BY <1>t, <2>1 DEF HoldInv, VariableTypes, Holds, locks, Moving
    <2>3. QED  BY <1>t, <1>u, <2>1, <2>2 DEF VariableTypes, locks
  <1>5. ASSUME NEW w \in Worker, ReadTarget(w), ~Rollback(w) PROVE HoldInv'
    <2>1. /\ pc[w] = "target"
          /\ LockStockRow(w, LineKey(w))
          /\ pc' = [pc EXCEPT ![w] = "move"]
          /\ UNCHANGED <<rowLock, keyShare, req>>
      BY <1>5 DEF ReadTarget, Goto
    <2>2. /\ LineKey(w) \in Key /\ LineKey(w)[1] = req[w].store
          /\ LineKey(w)[2] \in ProductsOf(req[w])
      BY <1>t, <2>1, LineOfRequest
    <2>3. Holds(w)'
      BY <1>t, <2>1, <2>2 DEF HoldInv, VariableTypes, Holds, LockStockRow, Moving
    <2>4. QED  BY <1>t, <1>u, <2>1, <2>2, <2>3 DEF VariableTypes, LockStockRow
  <1>6. ASSUME NEW w \in Worker, RecordMovement(w) PROVE HoldInv'
    <2>1. /\ pc[w] = "move"
          /\ stockLock' = [stockLock EXCEPT ![LineKey(w)] = w]
          /\ pc' = pc \/ pc' = [pc EXCEPT ![w] = "fk"]
          /\ UNCHANGED <<rowLock, keyShare, req>>
      BY <1>6 DEF RecordMovement, NextLine, Goto
    <2>2. /\ LineKey(w) \in Key /\ LineKey(w)[1] = req[w].store
          /\ LineKey(w)[2] \in ProductsOf(req[w])
      BY <1>t, <2>1, LineOfRequest
    <2>3. Holds(w)'
      BY <1>t, <2>1, <2>2 DEF HoldInv, VariableTypes, Holds, Moving
    <2>4. QED  BY <1>t, <1>u, <2>1, <2>2, <2>3 DEF VariableTypes
  <1>7. ASSUME NEW w \in Worker, CheckForeignKey(w) PROVE HoldInv'
    <2>1. /\ pc[w] = "fk"
          /\ keyShare' = [keyShare EXCEPT ![LineProduct(w)] = @ \cup {w}]
          /\ pc' = pc \/ pc' = [pc EXCEPT ![w] = "commit"]
          /\ UNCHANGED <<rowLock, stockLock, req>>
      BY <1>7 DEF CheckForeignKey, NextLine, Goto
    <2>2. Holds(w)'
      BY <1>t, <2>1 DEF HoldInv, VariableTypes, Holds, Moving
    <2>3. QED  BY <1>t, <1>u, <2>1, <2>2 DEF VariableTypes
  <1>8. ASSUME NEW w \in Worker, Commit(w) \/ SaveProductRow(w) \/ Rollback(w) PROVE HoldInv'
    BY <1>8, <1>t, HoldFinish DEF Commit, SaveProductRow, Rollback
  <1>9. CASE UNCHANGED vars
    BY <1>9, <1>t, HoldUndisturbed DEF HoldInv, vars, locks
  <1>10. QED
    BY <1>1, <1>2, <1>3, <1>4, <1>5, <1>6, <1>7, <1>8, <1>9
    DEF Next, Quiet, Step, Crash, AbortDeadlock, RefuseDuplicateLines, RefuseSale,
        RefuseProducts, RefuseMovement, RefuseProductRow

\* Nobody holds anything at the start.
LEMMA InitHold == Init => HoldInv
  BY InitTypeOK, BoundsAssumption DEF BoundsAssumption, Init, HoldInv, Holds
-----------------------------------------------------------------------------
(* No deadlock among sales.  While no product is renamed, a sale that      *)
(* waits for a product waits for one whose name comes after those it has.  *)

NamesFixed ==
    \A p \in Product : /\ product[p].name = Catalogue[p].name
                       /\ \A w \in Worker : seen[w][p].name = Catalogue[p].name

LocksInOrder(w) ==
    pc[w] = "lock" => \A q \in toLock[w] :
        /\ Catalogue[q].tenant = StoreTenant[req[w].store]
        /\ \A p \in Product : rowLock[p] = w => Catalogue[p].name < Catalogue[q].name

OrderInv ==
    /\ ColumnsInv /\ HoldInv /\ SaleInv
    /\ NamesFixed /\ \A w \in Worker : LocksInOrder(w)

NamesKept == \A p \in Product : product'[p].name = product[p].name

\* What has been read has the names of the catalogue too.
LEMMA StepNames ==
    ASSUME TypeOK, NamesFixed, Next \/ UNCHANGED vars, NamesKept
    PROVE  NamesFixed'
  <1>1. \A p \in Product : product'[p].name = Catalogue[p].name
    BY DEF NamesKept, NamesFixed
  <1>2. ASSUME NEW w \in Worker, NEW p \in Product PROVE seen'[w][p].name = Catalogue[p].name
    <2>1. CASE \E v \in Worker : LockProduct(v)
      <3>1. PICK v \in Worker, q \in Product : seen' = [seen EXCEPT ![v][q] = product[q]]
        BY <2>1 DEF LockProduct, NextInNameOrder, TypeOK, VariableTypes
      <3>2. seen'[w][p] \in {seen[w][p], product[p]}
        BY <3>1 DEF TypeOK, VariableTypes
      <3>3. QED  BY <3>2 DEF NamesFixed
    <2>2. CASE ~ \E v \in Worker : LockProduct(v)
      <3>1. \/ UNCHANGED seen
            \/ \E v \in Worker : \/ seen' = [seen EXCEPT ![v] = product]
                                 \/ seen' = [seen EXCEPT ![v] = Catalogue]
        BY <2>2
        DEF Next, Quiet, Step, Crash, AbortDeadlock, RefuseDuplicateLines, RefuseSale,
            RefuseProducts, RefuseMovement, RefuseProductRow, Accept, BeginSale,
            ResolveLines, ReadProducts, ReadTarget, RecordMovement, CheckForeignKey, Commit,
            ReadProductRow, SaveProductRow, Rollback, Finish, vars, local
      <3>2. seen'[w][p] \in {seen[w][p], product[p], Catalogue[p]}
        BY <3>1 DEF TypeOK, VariableTypes
      <3>3. QED  BY <3>2 DEF NamesFixed
    <2>3. QED  BY <2>1, <2>2
  <1>3. QED  BY <1>1, <1>2 DEF NamesFixed

\* Steps of others leave the order in which v has taken its locks.
LEMMA OrderUndisturbed ==
    ASSUME NEW v \in Worker, LocksInOrder(v),
           pc'[v] = pc[v], req'[v] = req[v], toLock'[v] = toLock[v],
           \A p \in Product : rowLock'[p] = v => rowLock[p] = v
    PROVE  LocksInOrder(v)'
  BY DEF LocksInOrder

\* Every step but a rename keeps the order.
LEMMA StepOrder ==
    ASSUME NamesDistinct
    PROVE  OrderInv /\ [Next]_vars /\ [NamesKept]_vars => OrderInv'
  <1> SUFFICES ASSUME OrderInv, [Next]_vars, [NamesKept]_vars PROVE OrderInv'
    OBVIOUS
  <1>t. TypeOK /\ ColumnsInv' /\ HoldInv' /\ SaleInv'
    BY StepColumns, StepHold, StepSale DEF OrderInv, HoldInv
  <1>n. NamesFixed'
    <2>1. UNCHANGED vars => NamesKept
      BY DEF vars, db, NamesKept
    <2>2. QED  BY <1>t, <2>1, StepNames DEF OrderInv
  <1>u. ASSUME NEW w \in Worker, LocksInOrder(w)',
               \A v \in Worker \ {w} :
                   /\ pc'[v] = pc[v] /\ req'[v] = req[v] /\ toLock'[v] = toLock[v]
                   /\ \A p \in Product : rowLock'[p] = v => rowLock[p] = v
        PROVE  OrderInv'
    BY <1>t, <1>n, <1>u, OrderUndisturbed DEF OrderInv
  <1> USE DEF TypeOK
  <1>1. ASSUME NEW w \in Worker, BeginSale(w) PROVE OrderInv'
    <2>1. /\ pc[w] = "begin" /\ pc' = [pc EXCEPT ![w] = "lock"]
          /\ toLock' = [toLock EXCEPT ![w] =
                {p \in ProductsOf(req[w]) : Available(product[p], req[w].store)}]
          /\ UNCHANGED <<product, rowLock, req>>
      BY <1>1 DEF BeginSale, Goto, db, locks
    <2>2. ProductsOf(req[w]) \subseteq Product
      BY <1>t, <2>1, RequestProducts
    <2>3. \A p \in Product : rowLock'[p] # w
      BY <2>1 DEF OrderInv, HoldInv, Holds, Moving
    <2>4. \A q \in toLock'[w] : Catalogue[q].tenant = StoreTenant[req'[w].store]
      BY <1>t, <2>1, <2>2 DEF OrderInv, ColumnsInv, RowIsRight, Available, VariableTypes
    <2>5. QED  BY <1>t, <1>u, <2>1, <2>3, <2>4 DEF VariableTypes, LocksInOrder
  <1>2. ASSUME NEW w \in Worker, LockProduct(w) PROVE OrderInv'
    <2>1. PICK p \in NextInNameOrder(w) :
             /\ rowLock' = [rowLock EXCEPT ![p] = w]
             /\ toLock' = [toLock EXCEPT ![w] = @ \ {p}]
             /\ UNCHANGED <<pc, req>> /\ pc[w] = "lock"
      BY <1>2 DEF LockProduct, TakeRowLock
    <2>2. p \in toLock[w] /\ p \in Product /\ toLock[w] \subseteq Product
      BY <1>t DEF NextInNameOrder, VariableTypes
    <2>3. ASSUME NEW q \in toLock'[w], NEW r \in Product, rowLock'[r] = w
          PROVE  Catalogue[r].name < Catalogue[q].name
      <3>1. q \in toLock[w] /\ q # p /\ q \in Product
        BY <1>t, <2>1, <2>2 DEF VariableTypes
      <3>2. CASE r = p
        <4>1. Catalogue[p].name <= Catalogue[q].name
          BY <2>2, <3>1 DEF NextInNameOrder, OrderInv, NamesFixed
        <4>2. Catalogue[p].tenant = Catalogue[q].tenant
          BY <2>1, <2>2, <3>1 DEF OrderInv, LocksInOrder
        <4>3. Catalogue[p].name # Catalogue[q].name
          BY <2>2, <3>1, <4>2 DEF NamesDistinct
        <4>4. Catalogue[p].name \in Nat /\ Catalogue[q].name \in Nat
          BY <2>2, <3>1, DataAssumption DEF DataAssumption, Row
        <4>5. QED  BY <3>2, <4>1, <4>3, <4>4
      <3>3. CASE r # p
        <4>1. rowLock[r] = w
          BY <1>t, <2>1, <2>2, <2>3, <3>3 DEF VariableTypes
        <4>2. QED  BY <2>1, <3>1, <4>1 DEF OrderInv, LocksInOrder
      <3>4. QED  BY <3>2, <3>3
    <2>4. \A q \in toLock'[w] : Catalogue[q].tenant = StoreTenant[req'[w].store]
      BY <1>t, <2>1, <2>2 DEF OrderInv, LocksInOrder, VariableTypes
    <2>5. LocksInOrder(w)'
      BY <2>3, <2>4 DEF LocksInOrder
    <2>6. QED  BY <1>t, <1>u, <2>1, <2>2, <2>5 DEF VariableTypes
  <1>3. ASSUME NEW w \in Worker, Finish(w) PROVE OrderInv'
    <2>1. pc'[w] = "idle"
      BY <1>3, <1>t DEF Finish, Goto, VariableTypes
    <2>2. ASSUME NEW v \in Worker \ {w}
          PROVE  /\ pc'[v] = pc[v] /\ req'[v] = req[v] /\ toLock'[v] = toLock[v]
                 /\ \A p \in Product : rowLock'[p] = v => rowLock[p] = v
      BY <1>3, <1>t, BoundsAssumption
      DEF BoundsAssumption, Finish, Goto, ReleaseLocks, VariableTypes
    <2>3. QED  BY <1>u, <2>1, <2>2 DEF LocksInOrder
  <1>4. ASSUME NEW w \in Worker,
               \/ Accept(w) \/ ResolveLines(w) \/ ReadProducts(w) \/ RecordMovement(w)
               \/ CheckForeignKey(w) \/ (ReadTarget(w) /\ ~Rollback(w)) \/ ReadProductRow(w)
        PROVE  OrderInv'
    <2>1. /\ UNCHANGED <<rowLock, toLock>>
          /\ \A v \in Worker \ {w} : pc'[v] = pc[v] /\ req'[v] = req[v]
          /\ pc'[w] # "lock"
      <3>1. Accept(w) => pc'[w] # "lock"
        BY <1>t DEF Accept, Goto, VariableTypes
      <3>2. RecordMovement(w) \/ CheckForeignKey(w) => pc'[w] # "lock"
        BY <1>t DEF RecordMovement, CheckForeignKey, NextLine, Goto, VariableTypes
      <3>3. ResolveLines(w) \/ ReadProducts(w) \/ ReadProductRow(w)
            \/ (ReadTarget(w) /\ ~Rollback(w)) => pc'[w] # "lock"
        BY <1>t DEF ResolveLines, ReadProducts, ReadProductRow, ReadTarget, Goto, VariableTypes
      <3>4. /\ UNCHANGED <<rowLock, toLock>>
            /\ \A v \in Worker \ {w} : pc'[v] = pc[v] /\ req'[v] = req[v]
        BY <1>4, <1>t DEF Accept, ResolveLines, ReadProducts, RecordMovement, CheckForeignKey,
              ReadTarget, ReadProductRow, NextLine, Goto, VariableTypes, locks, local
      <3>5. QED  BY <1>4, <3>1, <3>2, <3>3, <3>4
    <2>2. QED  BY <1>u, <2>1 DEF LocksInOrder
  <1>5. CASE UNCHANGED vars
    BY <1>5, <1>t, <1>n, OrderUndisturbed DEF OrderInv, vars, locks, local
  <1>6. QED
    BY <1>1, <1>2, <1>3, <1>4, <1>5
    DEF Next, Quiet, Step, Crash, AbortDeadlock, RefuseDuplicateLines, RefuseSale,
        RefuseProducts, RefuseMovement, RefuseProductRow, Commit, SaveProductRow, Rollback

\* In a cycle without movements everyone waits for a sale that locks its products.
LEMMA WaitsForSale ==
    ASSUME OrderInv, NEW S \in SUBSET Worker, Stuck(S),
           \A w \in S : req[w].op \notin {"receiving", "delta", "target"}, NEW w \in S
    PROVE  \E v \in WaitsFor(w) \cap S : pc[v] = "lock" /\ req[v].op = "sale"
  <1>t. TypeOK
    BY DEF OrderInv, HoldInv
  <1>1. ASSUME NEW u \in S
        PROVE  /\ pc[u] \in {"lock", "move", "fk"} => req[u].op = "sale"
               /\ pc[u] \in {"lock", "move", "fk", "save"}
    <2>1. WaitsFor(u) # {}
      BY DEF Stuck
    <2>2. pc[u] \in {"lock", "target", "move", "fk", "save"}
      BY <2>1 DEF WaitsFor
    <2>3. pc[u] \in {"lock", "target", "move", "fk"} => req[u].op = "sale"
      <3>1. pc[u] \in {"lock", "target", "move", "fk"} => req[u] \in StockRequest
        BY <1>t, CurrentLine
      <3>2. QED  BY <3>1 DEF StockRequest
    <2>4. pc[u] # "target"
      BY <2>3 DEF OrderInv, SaleInv, SaleRowsAreLocked, SaleRowsLockedBy
    <2>5. QED  BY <2>2, <2>3, <2>4
  <1>2. ASSUME NEW u \in S, pc[u] \in {"move", "fk"} PROVE FALSE
    <2>1. PICK v \in WaitsFor(u) \cap S : TRUE
      BY DEF Stuck
    <2>2. /\ LineKey(u) \in Key /\ LineProduct(u) \in Product
          /\ LineKey(u)[2] = LineProduct(u) /\ LineProduct(u) \in ProductsOf(req[u])
      BY <1>2, <1>t, LineOfRequest, CurrentLine
    <2>3. rowLock[LineProduct(u)] = u
      BY <1>1, <1>2, <2>2 DEF OrderInv, SaleInv, SaleRowsAreLocked, SaleRowsLockedBy, InSaleWrite
    <2>4. pc[u] = "move"
      BY <1>2, <2>1, <2>3 DEF WaitsFor, ShareBlockers
    <2>5. stockLock[LineKey(u)] = v /\ v # u
      BY <2>1, <2>4 DEF WaitsFor, StockBlockers
    <2>6. pc[v] \in Moving /\ LineProduct(u) \in ProductsOf(req[v])
      BY <2>1, <2>2, <2>5 DEF OrderInv, HoldInv, Holds
    <2>7. InSaleWrite(v)
      BY <1>1, <2>1, <2>6 DEF InSaleWrite, Moving
    <2>8. rowLock[LineProduct(u)] = v
      BY <2>1, <2>6, <2>7 DEF OrderInv, SaleInv, SaleRowsAreLocked, SaleRowsLockedBy
    <2>9. QED  BY <2>3, <2>5, <2>8
  <1>3. PICK v \in WaitsFor(w) \cap S : TRUE
    BY DEF Stuck
  <1>4. pc[v] \in {"lock", "save"}
    BY <1>1, <1>2
  <1>5. \E p \in Product : rowLock[p] = v \/ v \in keyShare[p]
    <2>1. CASE pc[w] = "lock"
      <3>1. PICK p \in NextInNameOrder(w) : v \in ForUpdateBlockers(w, p)
        BY <1>3, <2>1 DEF WaitsFor
      <3>2. p \in Product
        BY <1>t DEF NextInNameOrder, TypeOK, VariableTypes
      <3>3. QED  BY <3>1, <3>2 DEF ForUpdateBlockers
    <2>2. CASE pc[w] = "save"
      <3>1. req[w].product \in Product
        BY <1>t, <2>2, SavedRowType
      <3>2. v \in ShareBlockers(w, req[w].product)
        BY <1>3, <2>2 DEF WaitsFor
      <3>3. QED  BY <3>1, <3>2 DEF ShareBlockers
    <2>3. QED  BY <1>1, <1>2, <2>1, <2>2
  <1>6. pc[v] = "lock"
    BY <1>4, <1>5 DEF OrderInv, HoldInv, Holds, Moving
  <1>7. QED  BY <1>1, <1>3, <1>6

\* A sale that waits for another one that is locking its products, waits for a product
\* that comes before all those the other one still has to lock.
LEMMA WaitsAhead ==
    ASSUME OrderInv, NEW w \in Worker, NEW v \in WaitsFor(w), v \in Worker,
           pc[w] = "lock", pc[v] = "lock"
    PROVE  \E p \in toLock[w] : \A q \in toLock[v] : Catalogue[p].name < Catalogue[q].name
  <1>1. PICK p \in NextInNameOrder(w) : v \in ForUpdateBlockers(w, p)
    BY DEF WaitsFor
  <1>2. p \in toLock[w] /\ p \in Product
    BY DEF NextInNameOrder, OrderInv, HoldInv, TypeOK, VariableTypes
  <1>3. rowLock[p] = v
    BY <1>1, <1>2 DEF ForUpdateBlockers, OrderInv, HoldInv, Holds
  <1>4. QED  BY <1>2, <1>3 DEF OrderInv, LocksInOrder

\* In a cycle of sales, those that are further down the names than one of them are
\* a smaller cycle.
LEMMA OrderedLocksCannotCycle == OrderInv => NoDeadlockAmongSales
  <1> SUFFICES ASSUME OrderInv, NEW S \in SUBSET Worker, WaitCycle(S),
                      \A w \in S : req[w].op \notin {"receiving", "delta", "target"}
               PROVE  FALSE
    BY DEF NoDeadlockAmongSales
  <1>1. Stuck(S) /\ S # {}
    BY DEF WaitCycle, Stuck
  <1>2. PICK v \in S : pc[v] = "lock"
    BY <1>1, WaitsForSale
  <1>3. PICK u \in WaitsFor(v) \cap S : pc[u] = "lock"
    BY <1>1, WaitsForSale
  <1>4. PICK p \in toLock[v] : \A q \in toLock[u] : Catalogue[p].name < Catalogue[q].name
    BY <1>2, <1>3, WaitsAhead
  <1> DEFINE T == {w \in S : /\ pc[w] = "lock"
                             /\ \A q \in toLock[w] : Catalogue[p].name < Catalogue[q].name}
  <1>5. \A q \in Product : Catalogue[q].name \in Nat
    BY DataAssumption DEF DataAssumption, Row
  <1>6. \A w \in Worker : toLock[w] \subseteq Product
    BY DEF OrderInv, HoldInv, TypeOK, VariableTypes
  <1>7. u \in T /\ v \notin T
    BY <1>3, <1>4, <1>5, <1>6
  <1>8. ASSUME NEW w \in T PROVE WaitsFor(w) \cap T # {}
    <2>1. PICK x \in WaitsFor(w) \cap S : pc[x] = "lock"
      BY <1>1, WaitsForSale
    <2>2. PICK r \in toLock[w] : \A q \in toLock[x] : Catalogue[r].name < Catalogue[q].name
      BY <2>1, WaitsAhead
    <2>3. p \in Product /\ r \in Product /\ Catalogue[p].name < Catalogue[r].name
      BY <1>4, <1>6, <2>2
    <2>4. \A q \in toLock[x] : Catalogue[p].name < Catalogue[q].name
      BY <1>5, <1>6, <2>1, <2>2, <2>3
    <2>5. QED  BY <2>1, <2>4
  <1>9. Stuck(T) /\ T \in SUBSET S
    BY <1>7, <1>8 DEF Stuck
  <1>10. QED  BY <1>7, <1>9 DEF WaitCycle

\* Sales cannot deadlock with each other or with edits of products, however many
\* overlap, as long as no product is renamed and no two of a tenant have one name.
THEOREM NoDeadlockCorrect ==
    ASSUME NamesDistinct
    PROVE  Spec /\ NoRename => []NoDeadlockAmongSales
  <1>1. Init => OrderInv
    <2>1. Init => SaleInv
      BY InitTypeOK DEF Init, SaleInv, SaleRowsAreLocked, SaleRowsLockedBy, InSaleWrite
    <2>2. Init => NamesFixed /\ \A w \in Worker : LocksInOrder(w)
      BY DEF Init, NamesFixed, LocksInOrder
    <2>3. QED  BY <2>1, <2>2, InitColumns, InitHold DEF OrderInv
  <1>2. QED
    BY <1>1, StepOrder, OrderedLocksCannotCycle, PTL DEF Spec, NoRename, NamesKept
-----------------------------------------------------------------------------
(* One after the other.  What a transaction has written is what the lines  *)
(* it has done add up to, so that its commit is one step of ShopLedger.    *)

\* The delta of line l of request r, priced with rows, where the stock was b.
DeltaOf(r, rows, b, l) ==
    IF r.op = "sale" THEN -Units(l, rows[l.product]) ELSE IF r.op = "target" THEN l.qty - b ELSE l.qty

DeltaAt(r, rows, b, i, p) ==
    IF r.lines[i].product # p THEN 0 ELSE DeltaOf(r, rows, b, r.lines[i])

\* What the first n lines move of product p.
Deltas(r, rows, b, n, p) == [i \in 1..n |-> DeltaAt(r, rows, b, i, p)]

\* How many lines w has recorded.
LinesDone(w) == IF pc[w] = "move" THEN idx[w] - 1 ELSE Len(Lines(w))

Written(w) ==
    pc[w] \in Moving => \A k \in Key :
        /\ wrote[w][k] # NoRow <=> /\ k[1] = req[w].store
                                   /\ \E i \in 1..LinesDone(w) : Lines(w)[i].product = k[2]
        /\ k[1] = req[w].store =>
              moved[w][k] = Total(Deltas(req[w], seen[w], base[w], LinesDone(w), k[2]))

Decided(w) ==
    /\ pc[w] = "lock" => ~HasDuplicateLines(req[w])
    /\ InSaleWrite(w) => ~HasDuplicateLines(req[w]) /\ SaleIsAccepted(req[w], seen[w])

\* The quantity an adjustment computed its delta from is still there, unless there was
\* no row to lock.
BaseStands(w) ==
    pc[w] \in Moving /\ req[w].op = "target" =>
        \/ OpeningStock[LineKey(w)] = NoRow /\ base[w] = 0
        \/ stockLock[LineKey(w)] = w /\ base[w] = QtyOf(stock[LineKey(w)])

SerialInv ==
    /\ ColumnsInv /\ HoldInv /\ SaleInv /\ TargetInv
    /\ \A w \in Worker : Written(w) /\ Decided(w) /\ BaseStands(w)

\* The deltas of a request are numbers.
LEMMA DeltaTypes ==
    ASSUME NEW r \in StockRequest, NEW rows \in [Product -> Row], NEW b \in Int,
           NEW i \in DOMAIN r.lines, NEW p
    PROVE  DeltaAt(r, rows, b, i, p) \in Int /\ DeltaOf(r, rows, b, r.lines[i]) \in Int
  <1>1. r.lines[i] \in Line
    BY DEF StockRequest
  <1>2. r.lines[i].qty \in Int /\ rows[r.lines[i].product].bundleQty \in Int
    BY <1>1 DEF Line, Row
  <1>3. Units(r.lines[i], rows[r.lines[i].product]) \in Int
    BY <1>2 DEF Units
  <1>4. DeltaOf(r, rows, b, r.lines[i]) \in Int
    BY <1>2, <1>3 DEF DeltaOf
  <1>5. QED  BY <1>4 DEF DeltaAt

\* With one line more, its delta is added.
LEMMA OneLineMore ==
    ASSUME NEW r \in StockRequest, NEW rows \in [Product -> Row], NEW b \in Int,
           NEW n \in DOMAIN r.lines, NEW p
    PROVE  Total(Deltas(r, rows, b, n, p))
               = Total(Deltas(r, rows, b, n - 1, p)) + DeltaAt(r, rows, b, n, p)
  <1>1. n \in Nat /\ n \in 1..n /\ (1..n) \ {n} = 1..(n - 1)
        /\ \A i \in 1..n : i \in DOMAIN r.lines
    BY DEF StockRequest
  <1>2. IsFiniteSet(1..n)
    BY <1>1, FS_Interval
  <1>3. \A i \in 1..n : DeltaAt(r, rows, b, i, p) \in Int
    BY <1>1, DeltaTypes
  <1>4. /\ Deltas(r, rows, b, n, p) \in Numbers(1..n)
        /\ Deltas(r, rows, b, n - 1, p) \in Numbers((1..n) \ {n})
    BY <1>1, <1>3 DEF Deltas, Numbers
  <1>5. \A i \in (1..n) \ {n} : Deltas(r, rows, b, n, p)[i] = Deltas(r, rows, b, n - 1, p)[i]
    BY <1>1 DEF Deltas
  <1>6. Total(Deltas(r, rows, b, n, p))
            = Total(Deltas(r, rows, b, n - 1, p)) + Deltas(r, rows, b, n, p)[n]
    <2> DEFINE before == Deltas(r, rows, b, n - 1, p)
               after == Deltas(r, rows, b, n, p)
    <2> HIDE DEF before, after
    <2>1. IsFiniteSet(1..n) /\ n \in 1..n /\ after \in Numbers(1..n)
          /\ before \in Numbers((1..n) \ {n}) /\ \A i \in (1..n) \ {n} : after[i] = before[i]
      BY <1>1, <1>2, <1>4, <1>5 DEF before, after
    <2>2. Total(after) = Total(before) + after[n]
      BY <2>1, TotalWithout
    <2>3. QED  BY <2>2 DEF before, after
  <1>7. QED  BY <1>1, <1>6 DEF Deltas

\* No line moves nothing.
LEMMA NoLineYet ==
    ASSUME NEW r, NEW rows, NEW b, NEW p
    PROVE  Total(Deltas(r, rows, b, 0, p)) = 0
  <1>1. Deltas(r, rows, b, 0, p) \in [{} -> Int]
    BY DEF Deltas
  <1>2. QED  BY <1>1, TotalOfNone

\* What a handler passes to record_movement.
LEMMA MovementDeltaIs ==
    ASSUME NEW w \in Worker, NEW l
    PROVE  MovementDelta(w, l) = DeltaOf(req[w], seen[w], base[w], l)
  BY DEF MovementDelta, DeltaOf

\* Steps of others, which write no row that v has locked.
LEMMA SerialUndisturbed ==
    ASSUME SerialInv, NEW v \in Worker,
           pc'[v] = pc[v], req'[v] = req[v], idx'[v] = idx[v], base'[v] = base[v],
           seen'[v] = seen[v], wrote'[v] = wrote[v], moved'[v] = moved[v],
           \A k \in Key : stockLock[k] = v => stockLock'[k] = v /\ stock'[k] = stock[k]
    PROVE  Written(v)' /\ Decided(v)' /\ BaseStands(v)'
  <1>1. Written(v) /\ Decided(v) /\ BaseStands(v) /\ TypeOK
    BY DEF SerialInv, HoldInv
  <1>2. Lines(v)' = Lines(v) /\ LineKey(v)' = LineKey(v) /\ LinesDone(v)' = LinesDone(v)
    BY DEF LineKey, LineProduct, Lines, LinesDone
  <1>3. Written(v)'
    BY <1>1, <1>2 DEF Written
  <1>4. Decided(v)'
    BY <1>1 DEF Decided, InSaleWrite
  <1>5. BaseStands(v)'
    <2>1. pc[v] \in Moving => LineKey(v) \in Key
      BY <1>1, CurrentLine DEF Moving
    <2>2. QED  BY <1>1, <1>2, <2>1 DEF BaseStands
  <1>6. QED  BY <1>3, <1>4, <1>5

\* A worker that has written nothing yet, at the start of its loop over the lines.
LEMMA NothingWritten ==
    ASSUME SerialInv, TypeOK', NEW w \in Worker, pc[w] \notin Moving,
           wrote'[w] = wrote[w], moved'[w] = moved[w],
           pc'[w] \in Moving => pc'[w] = "move" /\ idx'[w] = 1
    PROVE  Written(w)'
  <1>1. \A k \in Key : wrote[w][k] = NoRow /\ moved[w][k] = 0
    BY DEF SerialInv, TargetInv, TargetOf, LedgerInv, WritesAreLocked
  <1>2. ASSUME pc'[w] \in Moving PROVE LinesDone(w)' = 0
    BY <1>2 DEF LinesDone
  <1>3. QED  BY <1>1, <1>2, NoLineYet DEF Written

\* A request that is over has written nothing, and no other one is disturbed.
LEMMA SerialFinish ==
    ASSUME SerialInv, ColumnsInv', HoldInv', SaleInv', TargetInv',
           NEW w \in Worker, Finish(w), SaveWrites(w) \/ UNCHANGED stock
    PROVE  SerialInv'
  <1>1. pc'[w] = "idle"
    BY DEF SerialInv, HoldInv, TypeOK, VariableTypes, Finish, Goto
  <1>2. Written(w)' /\ Decided(w)' /\ BaseStands(w)'
    BY <1>1 DEF Written, Decided, BaseStands, InSaleWrite, Moving
  <1>3. ASSUME NEW v \in Worker, v # w PROVE Written(v)' /\ Decided(v)' /\ BaseStands(v)'
    <2>1. /\ pc'[v] = pc[v] /\ req'[v] = req[v] /\ idx'[v] = idx[v] /\ base'[v] = base[v]
          /\ seen'[v] = seen[v] /\ wrote'[v] = wrote[v] /\ moved'[v] = moved[v]
      BY <1>3 DEF SerialInv, HoldInv, TypeOK, VariableTypes, Finish, Goto
    <2>2. ASSUME NEW k \in Key, stockLock[k] = v PROVE stockLock'[k] = v /\ stock'[k] = stock[k]
      <3>1. stockLock'[k] = v
        BY <1>3, <2>2 DEF Finish, ReleaseLocks
      <3>2. wrote[w][k] = NoRow
        BY <1>3, <2>2 DEF SerialInv, TargetInv, LedgerInv, WritesAreLocked
      <3>3. QED  BY <3>1, <3>2 DEF SaveWrites
    <2>3. QED  BY <2>1, <2>2, SerialUndisturbed
  <1>4. QED  BY <1>2, <1>3 DEF SerialInv

\* record_movement: one line more is done.
LEMMA SerialRecord ==
    ASSUME SerialInv, TypeOK', NEW w \in Worker, RecordMovement(w)
    PROVE  Written(w)'
  <1> DEFINE key == LineKey(w)
             n == idx[w]
             store == req[w].store
  <1>t. TypeOK /\ pc[w] = "move" /\ Written(w)
    BY DEF SerialInv, HoldInv, RecordMovement
  <1>1. /\ wrote' = [wrote EXCEPT ![w][key] = NewQty(w)]
        /\ moved' = [moved EXCEPT ![w][key] = @ + MovementDelta(w, Lines(w)[n])]
        /\ NextLine(w, "fk")
        /\ UNCHANGED <<req, seen, base>>
        /\ NewQty(w) \in -MaxQty..MaxQty
    BY DEF RecordMovement, MovementIsPossible, LineDelta
  <1>2. /\ key \in Key /\ key[1] = store /\ key[2] = Lines(w)[n].product
        /\ Lines(w) = req[w].lines /\ req[w] \in StockRequest
        /\ DOMAIN Lines(w) = 1..Len(Lines(w)) /\ Len(Lines(w)) \in Nat
    BY <1>t, CurrentLine, LineOfRequest DEF LineProduct, Lines
  <1>3. n \in DOMAIN req[w].lines /\ n \in 1..Len(Lines(w))
    BY <1>t, <1>2 DEF TypeOK, StageTypes
  <1>4. NewQty(w) # NoRow
    BY <1>1, BoundsAssumption, DataAssumption DEF BoundsAssumption, DataAssumption
  <1>5. LinesDone(w) = n - 1 /\ LinesDone(w)' = n /\ Lines(w)' = Lines(w)
    <2>1. CASE n < Len(Lines(w))
      <3>1. idx'[w] = n + 1 /\ pc' = pc
        BY <1>t, <1>1, <2>1 DEF NextLine, TypeOK, VariableTypes
      <3>2. QED  BY <1>t, <1>1, <1>3, <3>1 DEF LinesDone, Lines
    <2>2. CASE ~(n < Len(Lines(w)))
      <3>1. pc'[w] = "fk" /\ n = Len(Lines(w))
        BY <1>t, <1>1, <1>3, <2>2 DEF NextLine, Goto, TypeOK, VariableTypes
      <3>2. QED  BY <1>t, <1>1, <1>3, <3>1 DEF LinesDone, Lines
    <2>3. QED  BY <2>1, <2>2
  <1>6. /\ seen[w] \in [Product -> Row] /\ base[w] \in Int
        /\ wrote[w] \in [Key -> Int \cup {NoRow}] /\ moved[w] \in [Key -> Int]
    BY <1>t DEF TypeOK, VariableTypes
  <1>7. ASSUME NEW k \in Key
        PROVE  wrote'[w][k] # NoRow <=> /\ k[1] = store
                                        /\ \E i \in 1..n : Lines(w)[i].product = k[2]
    <2>1. wrote[w][k] # NoRow <=> /\ k[1] = store
                                  /\ \E i \in 1..(n - 1) : Lines(w)[i].product = k[2]
      BY <1>t, <1>5 DEF Written, Moving
    <2>2. CASE k = key
      <3>1. wrote'[w][k] = NewQty(w)
        BY <1>t, <1>1, <1>2, <2>2 DEF TypeOK, VariableTypes
      <3>2. n \in 1..n
        BY <1>3
      <3>3. QED  BY <1>2, <1>4, <2>2, <3>1, <3>2
    <2>3. CASE k # key
      <3>1. wrote'[w][k] = wrote[w][k]
        BY <1>t, <1>1, <1>2, <2>3 DEF TypeOK, VariableTypes
      <3>2. ~(k[1] = key[1] /\ k[2] = key[2])
        BY <1>2, <2>3 DEF Key
      <3>3. 1..n = 1..(n - 1) \cup {n}
        BY <1>3
      <3>4. QED  BY <1>2, <2>1, <3>1, <3>2, <3>3
    <2>4. QED  BY <2>2, <2>3
  <1>8. ASSUME NEW k \in Key, k[1] = store
        PROVE  moved'[w][k] = Total(Deltas(req[w], seen[w], base[w], n, k[2]))
    <2>1. moved[w][k] = Total(Deltas(req[w], seen[w], base[w], n - 1, k[2]))
      BY <1>t, <1>5, <1>8 DEF Written, Moving
    <2>2. Total(Deltas(req[w], seen[w], base[w], n, k[2]))
              = moved[w][k] + DeltaAt(req[w], seen[w], base[w], n, k[2])
      BY <1>2, <1>3, <1>6, <2>1, OneLineMore
    <2>3. CASE k = key
      <3>1. moved'[w][k] = moved[w][k] + MovementDelta(w, Lines(w)[n])
        BY <1>t, <1>1, <1>2, <2>3 DEF TypeOK, VariableTypes
      <3>2. DeltaAt(req[w], seen[w], base[w], n, k[2]) = MovementDelta(w, Lines(w)[n])
        BY <1>2, <2>3, MovementDeltaIs DEF DeltaAt
      <3>3. QED  BY <2>2, <3>1, <3>2
    <2>4. CASE k # key
      <3>1. moved'[w][k] = moved[w][k] /\ moved[w][k] \in Int
        BY <1>t, <1>1, <1>2, <2>4 DEF TypeOK, VariableTypes
      <3>2. k[2] # Lines(w)[n].product
        BY <1>2, <1>8, <2>4 DEF Key
      <3>3. DeltaAt(req[w], seen[w], base[w], n, k[2]) = 0
        BY <1>2, <3>2 DEF DeltaAt
      <3>4. QED  BY <2>2, <3>1, <3>3
    <2>5. QED  BY <2>3, <2>4
  <1> HIDE DEF key, n, store
  <1>9. QED  BY <1>1, <1>5, <1>7, <1>8 DEF Written, store

\* Every step keeps what the transactions have written equal to their lines.
LEMMA StepSerial == SerialInv /\ [Next]_vars => SerialInv'
  <1> SUFFICES ASSUME SerialInv, [Next]_vars PROVE SerialInv'
    OBVIOUS
  <1>t. /\ TypeOK /\ TypeOK'
        /\ ColumnsInv' /\ HoldInv' /\ SaleInv' /\ TargetInv'
    BY StepColumns, StepHold, StepSale, StepTarget, StepTypeOK DEF SerialInv, HoldInv
  <1>u. ASSUME NEW w \in Worker, Written(w)', Decided(w)', BaseStands(w)', UNCHANGED stock,
               \A v \in Worker \ {w} :
                   /\ pc'[v] = pc[v] /\ req'[v] = req[v] /\ idx'[v] = idx[v]
                   /\ base'[v] = base[v] /\ seen'[v] = seen[v]
                   /\ wrote'[v] = wrote[v] /\ moved'[v] = moved[v]
                   /\ \A k \in Key : stockLock[k] = v => stockLock'[k] = v
        PROVE  SerialInv'
    BY <1>t, <1>u, SerialUndisturbed DEF SerialInv
  <1> USE DEF TypeOK
  <1>1. ASSUME NEW w \in Worker, Accept(w) \/ ReadProductRow(w) PROVE SerialInv'
    <2>1. /\ UNCHANGED <<stock, stockLock, idx, base, wrote, moved>>
          /\ \A v \in Worker \ {w} : pc'[v] = pc[v] /\ req'[v] = req[v] /\ seen'[v] = seen[v]
          /\ pc'[w] \in {"begin", "read", "save"}
      BY <1>1, <1>t
      DEF Accept, ReadProductRow, Goto, VariableTypes, db, locks, local, buf
    <2>2. Written(w)' /\ Decided(w)' /\ BaseStands(w)'
      BY <2>1 DEF Written, Decided, BaseStands, InSaleWrite, Moving
    <2>3. QED  BY <1>u, <2>1, <2>2
  <1>2. ASSUME NEW w \in Worker, BeginSale(w) \/ LockProduct(w) PROVE SerialInv'
    <2>1. /\ UNCHANGED <<stock, stockLock, req, idx, base, wrote, moved>>
          /\ \A v \in Worker \ {w} : pc'[v] = pc[v] /\ seen'[v] = seen[v]
          /\ pc'[w] = "lock"
      <3>1. BeginSale(w) => \A v \in Worker \ {w} : pc'[v] = pc[v] /\ seen'[v] = seen[v]
        BY <1>t DEF BeginSale, Goto, VariableTypes
      <3>2. LockProduct(w) => \A v \in Worker \ {w} : pc'[v] = pc[v] /\ seen'[v] = seen[v]
        BY <1>t DEF LockProduct, VariableTypes
      <3>3. pc'[w] = "lock"
        BY <1>2, <1>t DEF BeginSale, LockProduct, Goto, VariableTypes
      <3>4. QED
        BY <1>2, <3>1, <3>2, <3>3 DEF BeginSale, LockProduct, db, locks, buf
    <2>2. ~HasDuplicateLines(req[w])
      BY <1>2 DEF BeginSale, LockProduct, SerialInv, Decided
    <2>3. Written(w)' /\ Decided(w)' /\ BaseStands(w)'
      BY <2>1, <2>2 DEF Written, Decided, BaseStands, InSaleWrite, Moving
    <2>4. QED  BY <1>u, <2>1, <2>3
  <1>3. ASSUME NEW w \in Worker, ResolveLines(w) \/ ReadProducts(w) PROVE SerialInv'
    <2>1. /\ UNCHANGED <<stock, stockLock, req, idx, base, wrote, moved>>
          /\ \A v \in Worker \ {w} : pc'[v] = pc[v] /\ seen'[v] = seen[v]
          /\ pc[w] \notin Moving /\ pc'[w] \in {"target", "move"} /\ idx[w] = 1
          /\ req[w].op = "target" => pc'[w] = "target"
      <3>1. ResolveLines(w) => req[w].op = "sale"
        BY DEF ResolveLines, SerialInv, HoldInv, Holds
      <3>2. pc[w] \notin Moving /\ idx[w] = 1
        BY <1>3, <1>t DEF ResolveLines, ReadProducts, Moving, StageTypes
      <3>3. QED
        BY <1>3, <1>t, <3>1, <3>2
        DEF ResolveLines, ReadProducts, Goto, VariableTypes, db, locks, local, buf
    <2>2. Written(w)'
      BY <1>t, <2>1, NothingWritten DEF Moving
    <2>3. Decided(w)'
      <3>1. CASE ResolveLines(w)
        <4>1. pc[w] = "lock" /\ SaleIsAccepted(req[w], seen[w]) /\ UNCHANGED seen
          BY <3>1 DEF ResolveLines, local
        <4>2. ~HasDuplicateLines(req[w])
          BY <4>1 DEF SerialInv, Decided
        <4>3. QED  BY <2>1, <4>1, <4>2 DEF Decided, InSaleWrite
      <3>2. CASE ReadProducts(w)
        <4>1. pc[w] = "read"
          BY <3>2 DEF ReadProducts
        <4>2. req[w].op # "sale"
          BY <4>1 DEF SerialInv, SaleInv, SaleRowsAreLocked, SaleRowsLockedBy
        <4>3. QED  BY <2>1, <4>2 DEF Decided, InSaleWrite
      <3>3. QED  BY <1>3, <3>1, <3>2
    <2>4. BaseStands(w)'
      BY <2>1 DEF BaseStands, Moving
    <2>5. QED  BY <1>u, <2>1, <2>2, <2>3, <2>4
  <1>4. ASSUME NEW w \in Worker, ReadTarget(w), ~Rollback(w) PROVE SerialInv'
    <2>1. /\ pc[w] = "target" /\ TargetBlockers(w) = {}
          /\ base' = [base EXCEPT ![w] = QtyOf(stock[LineKey(w)])]
          /\ LockStockRow(w, LineKey(w))
          /\ pc' = [pc EXCEPT ![w] = "move"]
          /\ UNCHANGED <<stock, req, idx, seen, wrote, moved>>
      BY <1>4 DEF ReadTarget, Goto, db, buf
    <2>2. LineKey(w) \in Key /\ LineKey(w)' = LineKey(w) /\ idx[w] = 1
      BY <1>t, <2>1, CurrentLine DEF LineKey, LineProduct, Lines, StageTypes
    <2>3. pc'[w] = "move" /\ base'[w] = QtyOf(stock[LineKey(w)])
      BY <1>t, <2>1 DEF VariableTypes
    <2>4. Written(w)'
      BY <1>t, <2>1, <2>2, <2>3, NothingWritten DEF Moving
    <2>5. Decided(w)'
      <3>1. req[w].op # "sale"
        BY <2>1 DEF SerialInv, SaleInv, SaleRowsAreLocked, SaleRowsLockedBy
      <3>2. QED  BY <2>1, <2>3, <3>1 DEF SerialInv, Decided, InSaleWrite
    <2>6. BaseStands(w)'
      <3>1. CASE stock[LineKey(w)] = NoRow
        BY <2>1, <2>2, <2>3, <3>1
        DEF SerialInv, TargetInv, RowsStay, QtyOf, BaseStands
      <3>2. CASE stock[LineKey(w)] # NoRow
        <4>1. stockLock'[LineKey(w)] = w
          BY <1>t, <2>1, <2>2, <3>2 DEF LockStockRow, VariableTypes
        <4>2. QED  BY <2>1, <2>2, <2>3, <4>1 DEF BaseStands
      <3>3. QED  BY <3>1, <3>2
    <2>7. ASSUME NEW k \in Key, NEW v \in Worker \ {w}, stockLock[k] = v PROVE stockLock'[k] = v
      BY <1>t, <2>1, <2>2, <2>7, BoundsAssumption
      DEF BoundsAssumption, TargetBlockers, StockBlockers, LockStockRow, VariableTypes
    <2>8. QED  BY <1>t, <1>u, <2>1, <2>4, <2>5, <2>6, <2>7 DEF VariableTypes
  <1>5. ASSUME NEW w \in Worker, RecordMovement(w) PROVE SerialInv'
    <2> DEFINE key == LineKey(w)
    <2>1. /\ pc[w] = "move" /\ stockLock[key] \in {w, NoOne} /\ key \in Key
          /\ stockLock' = [stockLock EXCEPT ![key] = w]
          /\ wrote' = [wrote EXCEPT ![w][key] = NewQty(w)]
          /\ moved' = [moved EXCEPT ![w][key] = @ + MovementDelta(w, Lines(w)[idx[w]])]
          /\ NextLine(w, "fk")
          /\ UNCHANGED <<stock, req, base, seen>>
      <3>1. pc[w] = "move" /\ StockBlockers(w, key) = {}
        BY <1>5 DEF RecordMovement
      <3>2. key \in Key
        BY <1>t, <3>1, CurrentLine
      <3>3. stockLock[key] \in {w, NoOne}
        BY <1>t, <3>1, <3>2 DEF StockBlockers, VariableTypes
      <3>4. QED  BY <1>5, <3>1, <3>2, <3>3 DEF RecordMovement, LineDelta, db
    <2>2. pc'[w] \in Moving
      BY <1>t, <2>1 DEF NextLine, Goto, Moving, VariableTypes
    <2>3. Written(w)'
      BY <1>5, <1>t, SerialRecord
    <2>4. Decided(w)'
      BY <2>1, <2>2 DEF SerialInv, Decided, InSaleWrite, Moving
    <2>5. BaseStands(w)'
      <3>1. CASE req[w].op # "target"
        BY <2>1, <3>1 DEF BaseStands
      <3>2. CASE req[w].op = "target"
        <4>1. idx[w] = 1 /\ Len(Lines(w)) = 1
          BY <1>t, <2>1, <3>2, OneLine
        <4>2. idx'[w] = idx[w]
          BY <1>t, <2>1, <4>1 DEF NextLine, VariableTypes
        <4>3. LineKey(w)' = key
          BY <2>1, <4>2 DEF LineKey, LineProduct, Lines
        <4>4. stockLock'[key] = w
          BY <1>t, <2>1 DEF VariableTypes
        <4>5. (OpeningStock[key] = NoRow /\ base[w] = 0) \/ base[w] = QtyOf(stock[key])
          BY <2>1, <3>2 DEF SerialInv, BaseStands, Moving
        <4>6. QED  BY <2>1, <4>3, <4>4, <4>5 DEF BaseStands
      <3>3. QED  BY <3>1, <3>2
    <2>6. ASSUME NEW v \in Worker \ {w}
          PROVE  /\ pc'[v] = pc[v] /\ idx'[v] = idx[v] /\ wrote'[v] = wrote[v]
                 /\ moved'[v] = moved[v]
                 /\ \A j \in Key : stockLock[j] = v => stockLock'[j] = v
      BY <1>t, <2>1, BoundsAssumption DEF BoundsAssumption, VariableTypes, NextLine, Goto
    <2>7. QED  BY <1>u, <2>1, <2>3, <2>4, <2>5, <2>6
  <1>6. ASSUME NEW w \in Worker, CheckForeignKey(w) PROVE SerialInv'
    <2>1. /\ pc[w] = "fk" /\ NextLine(w, "commit")
          /\ UNCHANGED <<stock, stockLock, req, base, seen, wrote, moved>>
      BY <1>6 DEF CheckForeignKey, db, buf
    <2>2. /\ pc'[w] \in {"fk", "commit"}
          /\ \A v \in Worker \ {w} : pc'[v] = pc[v] /\ idx'[v] = idx[v]
      BY <1>t, <2>1 DEF NextLine, Goto, VariableTypes
    <2>3. Lines(w)' = Lines(w) /\ LinesDone(w)' = LinesDone(w)
      BY <2>1, <2>2 DEF Lines, LinesDone
    <2>4. Written(w)'
      BY <2>1, <2>2, <2>3 DEF SerialInv, Written, Moving
    <2>5. Decided(w)'
      BY <2>1, <2>2 DEF SerialInv, Decided, InSaleWrite, Moving
    <2>6. BaseStands(w)'
      <3>1. CASE req[w].op # "target"
        BY <2>1, <3>1 DEF BaseStands
      <3>2. CASE req[w].op = "target"
        <4>1. idx[w] = 1 /\ Len(Lines(w)) = 1
          BY <1>t, <2>1, <3>2, OneLine
        <4>2. idx'[w] = idx[w]
          BY <1>t, <2>1, <4>1 DEF NextLine, VariableTypes
        <4>3. LineKey(w)' = LineKey(w)
          BY <2>1, <4>2 DEF LineKey, LineProduct, Lines
        <4>4. QED  BY <2>1, <3>2, <4>3 DEF SerialInv, BaseStands, Moving
      <3>3. QED  BY <3>1, <3>2
    <2>7. QED  BY <1>u, <2>1, <2>2, <2>4, <2>5, <2>6
  <1>7. ASSUME NEW w \in Worker, Commit(w) \/ SaveProductRow(w) \/ Rollback(w) PROVE SerialInv'
    BY <1>7, <1>t, SerialFinish DEF Commit, SaveProductRow, Rollback, db
  <1>8. CASE UNCHANGED vars
    <2>1. UNCHANGED <<stock, stockLock, pc, req, idx, base, seen, wrote, moved>>
      BY <1>8 DEF vars, db, locks, local, buf
    <2>2. \A v \in Worker : Written(v)' /\ Decided(v)' /\ BaseStands(v)'
      BY <2>1, SerialUndisturbed
    <2>3. QED  BY <1>t, <2>2 DEF SerialInv
  <1>9. QED
    BY <1>1, <1>2, <1>3, <1>4, <1>5, <1>6, <1>7, <1>8
    DEF Next, Quiet, Step, Crash, AbortDeadlock, RefuseDuplicateLines, RefuseSale,
        RefuseProducts, RefuseMovement, RefuseProductRow

\* No transaction has written anything at the start.
LEMMA InitSerial == Init => SerialInv
  <1> SUFFICES ASSUME Init PROVE SerialInv
    OBVIOUS
  <1>1. ColumnsInv /\ HoldInv /\ LedgerInv
    BY InitColumns, InitHold, InitLedger
  <1>2. SaleInv
    BY InitTypeOK DEF Init, SaleInv, SaleRowsAreLocked, SaleRowsLockedBy, InSaleWrite
  <1>3. TargetInv
    BY <1>1 DEF Init, TargetInv, RowsStay, TargetOf, Moving
  <1>4. \A w \in Worker : Written(w) /\ Decided(w) /\ BaseStands(w)
    BY DEF Init, Written, Decided, BaseStands, InSaleWrite, Moving
  <1>5. QED  BY <1>1, <1>2, <1>3, <1>4 DEF SerialInv

\* What a handler has read stays as it is while its request goes on.
LEMMA ReadKept ==
    ASSUME NEW w \in Worker, \A v \in Worker \ {w} : pc'[v] = pc[v] /\ req'[v] = req[v] /\ seen'[v] = seen[v],
           IF HasRead(w) THEN HasRead(w)' /\ seen'[w] = seen[w] ELSE ~HasRead(w)'
    PROVE  UNCHANGED ReadRows
  <1>1. \A v \in Worker \ {w} : HasRead(v)' = HasRead(v)
    BY DEF HasRead
  <1>2. QED  BY <1>1 DEF ReadRows

\* A request that comes in is one that ShopLedger accepts.
LEMMA AcceptIsSerial ==
    ASSUME SerialInv, NEW w \in Worker, Accept(w)
    PROVE  Serial!Accept(w)
  <1>1. req[w] = NoRequest
    BY DEF Accept, SerialInv, HoldInv, Holds
  <1>2. /\ ~HasRead(w) /\ ~HasRead(w)'
        /\ \A v \in Worker \ {w} : pc'[v] = pc[v] /\ req'[v] = req[v] /\ seen'[v] = seen[v]
    BY DEF Accept, Goto, HasRead, local, SerialInv, HoldInv, TypeOK, VariableTypes
  <1>3. UNCHANGED ReadRows
    BY <1>2, ReadKept
  <1>4. QED  BY <1>1, <1>3 DEF Accept, db, Serial!Accept

\* A request that is over is answered in ShopLedger.
LEMMA FinishAnswers ==
    ASSUME SerialInv, NEW w \in Worker, Finish(w)
    PROVE  Serial!Answer(w)
  <1>1. /\ ~HasRead(w)'
        /\ \A v \in Worker \ {w} : pc'[v] = pc[v] /\ req'[v] = req[v] /\ seen'[v] = seen[v]
    BY DEF Finish, Goto, HasRead, SerialInv, HoldInv, TypeOK, VariableTypes
  <1>2. \A v \in Worker \ {w} : HasRead(v)' = HasRead(v)
    BY <1>1 DEF HasRead
  <1>3. ReadRows' = [ReadRows EXCEPT ![w] = NoRow]
    BY <1>1, <1>2 DEF ReadRows
  <1>4. QED  BY <1>3 DEF Finish, Serial!Answer

\* A request that is refused, aborted or lost is one that ShopLedger drops.
LEMMA RollbackIsSerial ==
    ASSUME SerialInv, NEW w \in Worker, pc[w] # "idle", Rollback(w)
    PROVE  Serial!Handle(w)
  <1>1. req[w] # NoRequest
    BY DataAssumption DEF DataAssumption, SerialInv, HoldInv, TypeOK, StageTypes
  <1>2. Serial!Answer(w)
    BY FinishAnswers DEF Rollback
  <1>3. QED  BY <1>1, <1>2 DEF Rollback, db, Serial!Handle, Serial!Drop

\* A handler past its reads has what it read, and it is a table of products.
LEMMA WhatWasRead ==
    ASSUME SerialInv, NEW w \in Worker, HasRead(w)
    PROVE  ReadRows[w] = seen[w] /\ ReadRows[w] # NoRow
  BY DataAssumption DEF DataAssumption, ReadRows, SerialInv, HoldInv, TypeOK, VariableTypes

\* ShopLedger checks requests and sets their fields with the same operators.
LEMMA SameChecks ==
    /\ \A r, rows : Serial!RequestIsValid(r, rows) <=> RequestIsValid(r, rows)
    /\ \A r, row : Serial!Patched(r, row) = Patched(r, row)
  <1>1. \A r, row : Serial!Patched(r, row) = Patched(r, row)
    BY DEF Patched, Serial!Patched, Given, Serial!Given
  <1>2. \A r, row : Serial!ProductRequestIsValid(r, row) <=> ProductRequestIsValid(r, row)
    BY <1>1 DEF ProductRequestIsValid, Serial!ProductRequestIsValid, PatchIsValid,
                Serial!PatchIsValid
  <1>3. \A r, rows : Serial!StockRequestIsValid(r, rows) <=> StockRequestIsValid(r, rows)
    BY DEF StockRequestIsValid, Serial!StockRequestIsValid, Available, Serial!Available
  <1>4. QED
    BY <1>1, <1>2, <1>3 DEF RequestIsValid, Serial!RequestIsValid, ChangesProduct,
                            Serial!ChangesProduct

\* The reads outside the transaction are the moment at which ShopLedger checks a request.
LEMMA ReadIsSerial ==
    ASSUME SerialInv, NEW w \in Worker, ReadProducts(w) \/ ReadProductRow(w)
    PROVE  Serial!Handle(w)
  <1>t. TypeOK
    BY DEF SerialInv, HoldInv
  <1>1. /\ pc[w] = "read" /\ RequestIsValid(req[w], product)
        /\ pc'[w] \in {"target", "move", "save"} /\ seen'[w] = product
        /\ UNCHANGED <<product, stock, req>>
        /\ \A v \in Worker \ {w} : pc'[v] = pc[v] /\ req'[v] = req[v] /\ seen'[v] = seen[v]
    BY <1>t DEF ReadProducts, ReadProductRow, RequestIsValid, Goto, TypeOK, VariableTypes, db
  <1>2. req[w].op # "sale" /\ req[w] # NoRequest
    BY <1>1, <1>t, DataAssumption
    DEF DataAssumption, TypeOK, StageTypes, SerialInv, SaleInv, SaleRowsAreLocked, SaleRowsLockedBy
  <1>3. ~HasRead(w) /\ HasRead(w)' /\ \A v \in Worker \ {w} : HasRead(v)' = HasRead(v)
    BY <1>1, <1>2 DEF HasRead
  <1>4. ReadRows' = [ReadRows EXCEPT ![w] = product] /\ ReadRows[w] = NoRow
    BY <1>1, <1>3 DEF ReadRows
  <1>5. Serial!Check(w)
    BY <1>1, <1>2, <1>4, SameChecks DEF Serial!Check
  <1>6. QED  BY <1>2, <1>5 DEF Serial!Handle

\* The UPDATE of a product is ShopLedger's: a PATCH writes back the row it read, with its
\* fields, a DELETE archives the row as it is.
LEMMA SaveIsSerial ==
    ASSUME SerialInv, NEW w \in Worker, SaveProductRow(w)
    PROVE  Serial!Handle(w)
  <1>1. /\ pc[w] = "save" /\ Finish(w) /\ UNCHANGED stock
        /\ product' = [product EXCEPT ![req[w].product] = SavedRow(w)]
    BY DEF SaveProductRow
  <1>2. req[w] \in Request /\ ChangesProduct(req[w]) /\ req[w] # NoRequest
    BY <1>1, DataAssumption DEF DataAssumption, SerialInv, HoldInv, TypeOK, StageTypes
  <1>3. HasRead(w)
    BY <1>1, <1>2 DEF HasRead, ChangesProduct
  <1>4. ReadRows[w] = seen[w] /\ ReadRows[w] # NoRow
    BY <1>3, WhatWasRead
  <1>5. Serial!Answer(w)
    BY <1>1, FinishAnswers
  <1>6. CASE req[w].op = "patch"
    <2>1. SavedRow(w) = Serial!Patched(req[w], ReadRows[w][req[w].product])
      BY <1>4, <1>6, SameChecks DEF SavedRow
    <2>2. Serial!Patch(w)
      BY <1>1, <1>4, <1>5, <1>6, <2>1 DEF Serial!Patch
    <2>3. QED  BY <1>2, <2>2 DEF Serial!Handle
  <1>7. CASE req[w].op = "archive"
    <2>1. SavedRow(w) = [product[req[w].product] EXCEPT !.archived = TRUE]
      BY <1>7 DEF SavedRow
    <2>2. Serial!Archive(w)
      BY <1>1, <1>4, <1>5, <1>7, <2>1 DEF Serial!Archive
    <2>3. QED  BY <1>2, <2>2 DEF Serial!Handle
  <1>8. QED  BY <1>2, <1>6, <1>7 DEF ChangesProduct

\* What COMMIT leaves in the StoreStock row k: where the request has a line, the row
\* as it was and the sum of its lines.
LEMMA CommittedRow ==
    ASSUME SerialInv, NEW w \in Worker, Commit(w), NEW k \in Key
    PROVE  stock'[k] = IF k[1] = req[w].store /\ k[2] \in ProductsOf(req[w])
                       THEN QtyOf(stock[k]) + Total(Deltas(req[w], seen[w], base[w],
                                                           Len(req[w].lines), k[2]))
                       ELSE stock[k]
  <1>1. pc[w] = "commit" /\ SaveWrites(w)
    BY DEF Commit
  <1>2. Written(w) /\ TypeOK /\ LinesDone(w) = Len(req[w].lines)
    BY <1>1 DEF SerialInv, HoldInv, LinesDone, Lines
  <1>3. DOMAIN req[w].lines = 1..Len(req[w].lines)
    BY <1>1, <1>2, CurrentLine DEF Lines
  <1>4. wrote[w][k] # NoRow <=> k[1] = req[w].store /\ k[2] \in ProductsOf(req[w])
    BY <1>1, <1>2, <1>3 DEF Written, Moving, ProductsOf, Lines
  <1>5. k[1] = req[w].store =>
            moved[w][k] = Total(Deltas(req[w], seen[w], base[w], Len(req[w].lines), k[2]))
    BY <1>1, <1>2 DEF Written, Moving
  <1>6. wrote[w][k] # NoRow => wrote[w][k] = QtyOf(stock[k]) + moved[w][k]
    BY DEF SerialInv, TargetInv, LedgerInv, WritesAreLocked
  <1>7. stock'[k] = IF wrote[w][k] = NoRow THEN stock[k] ELSE wrote[w][k]
    BY <1>1 DEF SaveWrites
  <1>8. QED  BY <1>4, <1>5, <1>6, <1>7

\* ShopLedger counts with the same operators.
LEMMA SameOperators ==
    /\ \A f : Serial!Total(f) = Total(f)
    /\ \A x : Serial!QtyOf(x) = QtyOf(x)
    /\ \A l, row : Serial!Units(l, row) = Units(l, row)
    /\ \A r : Serial!ProductsOf(r) = ProductsOf(r)
    /\ \A r : Serial!HasDuplicateLines(r) <=> HasDuplicateLines(r)
    /\ \A r, rows : Serial!SaleIsAccepted(r, rows) <=> SaleIsAccepted(r, rows)
    /\ Serial!Key = Key
  <1>1. ASSUME NEW f PROVE Serial!Total(f) = Total(f)
    BY DEF Total, Serial!Total, FoldFunction, Serial!FoldFunction, FoldFunctionOnSet,
           Serial!FoldFunctionOnSet, MapThenFoldSet, Serial!MapThenFoldSet
  <1>2. ASSUME NEW l, NEW row
        PROVE  /\ Serial!Units(l, row) = Units(l, row)
               /\ Serial!LineTotal(l, row) = LineTotal(l, row)
               /\ Serial!LineIsValid(l, row) <=> LineIsValid(l, row)
    BY DEF Units, Serial!Units, UnitPrice, Serial!UnitPrice, LineTotal, Serial!LineTotal,
           LineIsValid, Serial!LineIsValid
  <1>3. ASSUME NEW r, NEW rows
        PROVE  Serial!SaleIsAccepted(r, rows) <=> SaleIsAccepted(r, rows)
    <2>1. \A row, s : Serial!Available(row, s) <=> Available(row, s)
      BY DEF Available, Serial!Available
    <2>2. Serial!Subtotal(r, rows) = Subtotal(r, rows)
      BY <1>1, <1>2 DEF Subtotal, Serial!Subtotal
    <2>3. QED  BY <1>2, <2>1, <2>2 DEF SaleIsAccepted, Serial!SaleIsAccepted
  <1>4. \A r : Serial!HasDuplicateLines(r) <=> HasDuplicateLines(r)
    BY DEF HasDuplicateLines, Serial!HasDuplicateLines
  <1>5. QED
    BY <1>1, <1>2, <1>3, <1>4
    DEF QtyOf, Serial!QtyOf, ProductsOf, Serial!ProductsOf, Key, Serial!Key

\* ShopLedger!Effect: what the lines of r change the stock of p by, at the rows given.
EffectOf(r, rows, p) ==
    Total([i \in DOMAIN r.lines |-> IF r.lines[i].product # p THEN 0
                                    ELSE IF r.op = "sale" THEN -Units(r.lines[i], rows[p])
                                    ELSE r.lines[i].qty])

\* A sale prices its products alike with both rows.
PricedAlike(r, read, rows) == r.op = "sale" => \A q \in ProductsOf(r) : read[q] = rows[q]

\* For a sale priced with the rows in the table, and for a receiving or a delta, that
\* sum is the effect that ShopLedger gives the request.
LEMMA DeltasAreEffect ==
    ASSUME NEW r \in StockRequest, r.op # "target", NEW read, NEW rows, NEW b, NEW p,
           PricedAlike(r, read, rows)
    PROVE  Total(Deltas(r, read, b, Len(r.lines), p)) = EffectOf(r, rows, p)
  <1>1. DOMAIN r.lines = 1..Len(r.lines)
    BY DEF StockRequest
  <1>2. ASSUME NEW i \in DOMAIN r.lines
        PROVE  DeltaAt(r, read, b, i, p)
                   = IF r.lines[i].product # p THEN 0
                     ELSE IF r.op = "sale" THEN -Units(r.lines[i], rows[p])
                     ELSE r.lines[i].qty
    BY DEF DeltaAt, DeltaOf, ProductsOf, PricedAlike
  <1>3. Deltas(r, read, b, Len(r.lines), p)
            = [i \in DOMAIN r.lines |-> IF r.lines[i].product # p THEN 0
                                        ELSE IF r.op = "sale" THEN -Units(r.lines[i], rows[p])
                                        ELSE r.lines[i].qty]
    BY <1>1, <1>2 DEF Deltas
  <1>4. QED  BY <1>3 DEF EffectOf

\* A commit answers the request and edits no product.
LEMMA CommitAnswers ==
    ASSUME SerialInv, NEW w \in Worker, Commit(w)
    PROVE  /\ UNCHANGED product /\ Serial!Answer(w)
           /\ req[w].op # "sale" => ReadRows[w] # NoRow
  <1>1. UNCHANGED product /\ Finish(w) /\ pc[w] = "commit"
    BY DEF Commit, SaveWrites
  <1>2. req[w].op # "sale" => HasRead(w)
    BY <1>1 DEF HasRead
  <1>3. QED  BY <1>1, <1>2, FinishAnswers, WhatWasRead

\* Such a commit applies the request.
LEMMA CommitApplies ==
    ASSUME SerialInv, NEW w \in Worker, Commit(w), req[w].op # "target"
    PROVE  Serial!Apply(req[w])
  <1>1. pc[w] = "commit" /\ SaveWrites(w)
    BY DEF Commit
  <1>2. req[w] \in StockRequest
    BY <1>1, CurrentLine DEF SerialInv, HoldInv
  <1>3. PricedAlike(req[w], seen[w], product)
    BY <1>1 DEF SerialInv, SaleInv, SaleRowsAreLocked, SaleRowsLockedBy, InSaleWrite, PricedAlike
  <1>4. ASSUME NEW k \in Key
        PROVE  stock'[k] = IF k[1] = req[w].store /\ k[2] \in ProductsOf(req[w])
                           THEN QtyOf(stock[k]) + EffectOf(req[w], product, k[2])
                           ELSE stock[k]
    <2>1. Total(Deltas(req[w], seen[w], base[w], Len(req[w].lines), k[2]))
              = EffectOf(req[w], product, k[2])
      <3> DEFINE r == req[w]
                 read == seen[w]
                 b == base[w]
                 p == k[2]
      <3>1. r \in StockRequest /\ r.op # "target"
            /\ PricedAlike(r, read, product)
        BY <1>2, <1>3
      <3> HIDE DEF r, read, b, p
      <3>2. Total(Deltas(r, read, b, Len(r.lines), p)) = EffectOf(r, product, p)
        BY <3>1, DeltasAreEffect, SMTT(30)
      <3>3. QED  BY <3>2 DEF r, read, b, p
    <2>2. QED  BY <2>1, CommittedRow
  <1>5. stock' = [k \in Key |-> stock'[k]]
    BY <1>1 DEF SaveWrites
  <1>6. QED  BY <1>4, <1>5, SameOperators DEF Serial!Apply, Serial!Effect, EffectOf

\* The commit of a sale sells it, on the prices and the stock of that moment.
LEMMA SaleIsSerial ==
    ASSUME SerialInv, NEW w \in Worker, Commit(w), req[w].op = "sale"
    PROVE  Serial!Sell(w)
  <1>1. pc[w] = "commit" /\ InSaleWrite(w)
    BY DEF Commit, InSaleWrite
  <1>2. req[w] \in StockRequest
    BY <1>1, CurrentLine DEF SerialInv, HoldInv
  <1>3. \A q \in ProductsOf(req[w]) : seen[w][q] = product[q]
    BY <1>1 DEF SerialInv, SaleInv, SaleRowsAreLocked, SaleRowsLockedBy
  <1>4. ~HasDuplicateLines(req[w]) /\ SaleIsAccepted(req[w], seen[w])
    BY <1>1 DEF SerialInv, Decided
  <1>5. \A i \in DOMAIN req[w].lines :
            seen[w][req[w].lines[i].product] = product[req[w].lines[i].product]
    BY <1>3 DEF ProductsOf
  <1>6. Subtotal(req[w], seen[w]) = Subtotal(req[w], product)
    <2>1. [i \in DOMAIN req[w].lines |->
               LineTotal(req[w].lines[i], seen[w][req[w].lines[i].product])]
            = [i \in DOMAIN req[w].lines |->
               LineTotal(req[w].lines[i], product[req[w].lines[i].product])]
      BY <1>5
    <2>2. QED  BY <2>1 DEF Subtotal
  <1>7. SaleIsAccepted(req[w], product)
    BY <1>4, <1>5, <1>6 DEF SaleIsAccepted
  <1>8. UNCHANGED product /\ Serial!Answer(w)
    BY CommitAnswers
  <1>9. QED  BY <1>4, <1>7, <1>8, CommitApplies, SameOperators DEF Serial!Sell

\* The commit of an adjustment to a target sets the stock to the target, or adds the
\* target to it where there was no row to lock.
LEMMA TargetIsSerial ==
    ASSUME SerialInv, NEW w \in Worker, Commit(w), req[w].op = "target"
    PROVE  Serial!AdjustTo(w)
  <1>t. TypeOK
    BY DEF SerialInv, HoldInv
  <1>1. pc[w] = "commit" /\ SaveWrites(w)
    BY DEF Commit
  <1>2. /\ idx[w] = 1 /\ Len(req[w].lines) = 1 /\ req[w].lines[1].qty \in Int
        /\ DOMAIN req[w].lines = 1..1
    BY <1>1, <1>t, OneLine, CurrentLine DEF Lines
  <1> DEFINE l == req[w].lines[1]
             key == <<req[w].store, l.product>>
  <1>3. LineKey(w) = key /\ key \in Key /\ req[w] \in StockRequest
    BY <1>1, <1>2, <1>t, CurrentLine DEF LineKey, LineProduct, Lines
  <1>4. ProductsOf(req[w]) = {l.product}
    BY <1>2 DEF ProductsOf
  <1>5. \A k \in Key : k[1] = req[w].store /\ k[2] \in ProductsOf(req[w]) <=> k = key
    BY <1>4 DEF Key
  <1>6. Total(Deltas(req[w], seen[w], base[w], 1, l.product)) = l.qty - base[w]
    <2>1. seen[w] \in [Product -> Row] /\ base[w] \in Int /\ 1 \in DOMAIN req[w].lines
      BY <1>t, <1>2 DEF TypeOK, VariableTypes
    <2>2. Total(Deltas(req[w], seen[w], base[w], 1, l.product))
              = Total(Deltas(req[w], seen[w], base[w], 1 - 1, l.product))
                + DeltaAt(req[w], seen[w], base[w], 1, l.product)
      BY <1>3, <2>1, OneLineMore
    <2>3. Total(Deltas(req[w], seen[w], base[w], 0, l.product)) = 0
      BY NoLineYet
    <2>4. DeltaAt(req[w], seen[w], base[w], 1, l.product) = l.qty - base[w]
      BY DEF DeltaAt, DeltaOf
    <2>5. QED  BY <1>2, <2>1, <2>2, <2>3, <2>4
  <1>7. ASSUME NEW k \in Key
        PROVE  stock'[k] = IF k = key THEN QtyOf(stock[key]) + (l.qty - base[w]) ELSE stock[k]
    <2>1. k = key => k[2] = l.product
      OBVIOUS
    <2>2. k[1] = req[w].store /\ k[2] \in ProductsOf(req[w]) <=> k = key
      BY <1>5
    <2>3. stock'[k] = IF k[1] = req[w].store /\ k[2] \in ProductsOf(req[w])
                      THEN QtyOf(stock[k]) + Total(Deltas(req[w], seen[w], base[w],
                                                          Len(req[w].lines), k[2]))
                      ELSE stock[k]
      BY CommittedRow
    <2> HIDE DEF key, l
    <2>4. QED  BY <1>2, <1>6, <2>1, <2>2, <2>3
  <1>8. stock' = [stock EXCEPT ![key] = QtyOf(stock[key]) + (l.qty - base[w])]
    BY <1>1, <1>3, <1>t, <1>7 DEF SaveWrites, TypeOK, VariableTypes
  <1>9. QtyOf(stock[key]) \in Int /\ base[w] \in Int
    BY <1>3, <1>t DEF TypeOK, VariableTypes, QtyOf
  <1>10. (OpeningStock[key] = NoRow /\ base[w] = 0) \/ base[w] = QtyOf(stock[key])
    BY <1>1, <1>3 DEF SerialInv, BaseStands, Moving
  <1>11. \/ stock' = [stock EXCEPT ![key] = l.qty]
         \/ OpeningStock[key] = NoRow /\ stock' = [stock EXCEPT ![key] = QtyOf(@) + l.qty]
    <2>1. CASE base[w] = QtyOf(stock[key])
      <3>1. QtyOf(stock[key]) + (l.qty - base[w]) = l.qty
        BY <1>2, <1>9, <2>1
      <3>2. QED  BY <1>8, <3>1
    <2>2. CASE OpeningStock[key] = NoRow /\ base[w] = 0
      <3>1. QtyOf(stock[key]) + (l.qty - base[w]) = QtyOf(stock[key]) + l.qty
        BY <1>2, <1>9, <2>2
      <3>2. QED  BY <1>8, <2>2, <3>1
    <2>3. QED  BY <1>10, <2>1, <2>2
  <1>12. UNCHANGED product /\ Serial!Answer(w) /\ ReadRows[w] # NoRow
    BY CommitAnswers
  <1>13. QED  BY <1>11, <1>12, SameOperators DEF Serial!AdjustTo

\* The commit of a receiving or an adjustment by a delta moves its lines.
LEMMA MoveIsSerial ==
    ASSUME SerialInv, NEW w \in Worker, Commit(w), req[w].op \in {"receiving", "delta"}
    PROVE  Serial!Move(w)
  <1>1. UNCHANGED product /\ Serial!Answer(w) /\ ReadRows[w] # NoRow
    BY CommitAnswers
  <1>2. QED  BY <1>1, CommitApplies, SameOperators DEF Serial!Move

\* Every commit is one step of ShopLedger.
LEMMA CommitIsSerial ==
    ASSUME SerialInv, NEW w \in Worker, Commit(w)
    PROVE  Serial!Handle(w)
  <1>1. pc[w] = "commit"
    BY DEF Commit
  <1>2. req[w] \in StockRequest
    BY <1>1, CurrentLine DEF SerialInv, HoldInv
  <1>3. req[w] # NoRequest
    BY <1>1, DataAssumption DEF DataAssumption, SerialInv, HoldInv, TypeOK, StageTypes
  <1>4. req[w].op \in {"sale", "receiving", "delta", "target"}
    BY <1>2 DEF StockRequest
  <1>5. QED
    BY <1>3, <1>4, SaleIsSerial, MoveIsSerial, TargetIsSerial DEF Serial!Handle

\* The steps between the reads and the commit are none of ShopLedger's.
LEMMA InnerIsSerial ==
    ASSUME SerialInv, NEW w \in Worker,
           \/ BeginSale(w) \/ LockProduct(w) \/ ResolveLines(w) \/ RecordMovement(w)
           \/ CheckForeignKey(w) \/ (ReadTarget(w) /\ ~Rollback(w))
    PROVE  UNCHANGED Serial!vars
  <1>t. TypeOK
    BY DEF SerialInv, HoldInv
  <1>1. UNCHANGED <<product, stock, req>>
    BY DEF BeginSale, LockProduct, ResolveLines, RecordMovement, CheckForeignKey, ReadTarget, db
  <1>2. ASSUME BeginSale(w) \/ LockProduct(w) \/ ResolveLines(w) PROVE UNCHANGED ReadRows
    <2>1. req[w].op = "sale"
      BY <1>2 DEF BeginSale, LockProduct, ResolveLines, SerialInv, HoldInv, Holds
    <2>2. \A v \in Worker \ {w} : pc'[v] = pc[v] /\ seen'[v] = seen[v]
      <3>1. LockProduct(w) => \A v \in Worker \ {w} : pc'[v] = pc[v] /\ seen'[v] = seen[v]
        BY <1>t DEF LockProduct, TypeOK, VariableTypes
      <3>2. BeginSale(w) \/ ResolveLines(w) =>
                \A v \in Worker \ {w} : pc'[v] = pc[v] /\ seen'[v] = seen[v]
        BY <1>t DEF BeginSale, ResolveLines, Goto, local, TypeOK, VariableTypes
      <3>3. QED  BY <1>2, <3>1, <3>2
    <2>3. ~HasRead(w) /\ ~HasRead(w)'
      BY <1>1, <2>1 DEF HasRead
    <2>4. QED  BY <1>1, <2>2, <2>3, ReadKept
  <1>3. ASSUME RecordMovement(w) \/ CheckForeignKey(w) \/ (ReadTarget(w) /\ ~Rollback(w))
        PROVE  UNCHANGED ReadRows
    <2>1. /\ pc[w] \in {"target", "move", "fk"} /\ pc'[w] \in {"move", "fk", "commit"}
          /\ UNCHANGED seen /\ \A v \in Worker \ {w} : pc'[v] = pc[v]
      BY <1>3, <1>t
      DEF RecordMovement, CheckForeignKey, ReadTarget, NextLine, Goto, TypeOK, VariableTypes
    <2>2. HasRead(w) <=> HasRead(w)'
      BY <1>1, <2>1 DEF HasRead
    <2>3. QED  BY <1>1, <2>1, <2>2, ReadKept
  <1>4. QED  BY <1>1, <1>2, <1>3 DEF Serial!vars

\* Every step is one of ShopLedger's or leaves what it sees.
LEMMA StepIsSerial == SerialInv /\ [Next]_vars => [Serial!Next]_(Serial!vars)
  <1> SUFFICES ASSUME SerialInv, [Next]_vars PROVE [Serial!Next]_(Serial!vars)
    OBVIOUS
  <1>1. ASSUME NEW w \in Worker, Accept(w) PROVE Serial!Next
    BY <1>1, AcceptIsSerial DEF Serial!Next
  <1>2. ASSUME NEW w \in Worker, Commit(w) \/ SaveProductRow(w) PROVE Serial!Next
    BY <1>2, CommitIsSerial, SaveIsSerial DEF Serial!Next
  <1>3. ASSUME NEW w \in Worker, pc[w] # "idle", Rollback(w) PROVE Serial!Next
    BY <1>3, RollbackIsSerial DEF Serial!Next
  <1>4. ASSUME NEW w \in Worker, AbortDeadlock(w) PROVE pc[w] # "idle" /\ Rollback(w)
    <2>1. WaitsFor(w) # {} /\ Rollback(w)
      BY <1>4 DEF AbortDeadlock, WaitCycle, Stuck
    <2>2. QED  BY <2>1 DEF WaitsFor
  <1>5. ASSUME NEW w \in Worker, RefuseDuplicateLines(w) \/ RefuseSale(w) \/ RefuseProducts(w)
                                 \/ RefuseMovement(w) \/ RefuseProductRow(w) \/ Crash(w)
        PROVE  pc[w] # "idle" /\ Rollback(w)
    BY <1>5 DEF RefuseDuplicateLines, RefuseSale, RefuseProducts, RefuseMovement,
                RefuseProductRow, Crash
  <1>6. ASSUME NEW w \in Worker, ReadTarget(w)
        PROVE  (pc[w] # "idle" /\ Rollback(w)) \/ UNCHANGED Serial!vars
    <2>1. pc[w] = "target"
      BY <1>6 DEF ReadTarget
    <2>2. QED  BY <1>6, <2>1, InnerIsSerial
  <1>7. ASSUME NEW w \in Worker,
               BeginSale(w) \/ LockProduct(w) \/ ResolveLines(w)
               \/ RecordMovement(w) \/ CheckForeignKey(w)
        PROVE  UNCHANGED Serial!vars
    BY <1>7, InnerIsSerial
  <1>8. ASSUME NEW w \in Worker, ReadProducts(w) \/ ReadProductRow(w) PROVE Serial!Next
    BY <1>8, ReadIsSerial DEF Serial!Next
  <1>9. UNCHANGED vars => UNCHANGED Serial!vars
    BY DEF vars, db, local, ReadRows, HasRead, Serial!vars
  <1>10. QED
    BY <1>1, <1>2, <1>3, <1>4, <1>5, <1>6, <1>7, <1>8, <1>9 DEF Next, Step, Quiet

\* The overlapping transactions implement ShopLedger: whatever the interleaving, the
\* aborts and the crashes, a sale, receiving, adjustment or archiving has its whole
\* effect in one step or none, on the stock of that step.  What a PATCH undoes is what
\* was saved of its product since it read the row, and nothing else.
THEOREM SerialCorrect == Spec => StockIsSerial
  <1>1. Init => Serial!Init
    BY DEF Init, Serial!Init, ReadRows, HasRead
  <1>2. QED
    BY <1>1, InitSerial, StepSerial, StepIsSerial, PTL DEF Spec, StockIsSerial, Serial!Spec
-----------------------------------------------------------------------------
(* Nobody waits for ever.  Locks belong to requests on their way, there    *)
(* are finitely many of those, and the loops of the handlers run out.      *)

FiniteInv ==
    /\ HoldInv
    /\ IsFiniteSet(Busy)
    /\ \A w \in Worker : IsFiniteSet(toLock[w])

\* A request has at most as many products as lines.
LEMMA FewProducts ==
    ASSUME NEW r \in StockRequest
    PROVE  /\ Len(r.lines) \in Nat
           /\ IsFiniteSet(ProductsOf(r))
           /\ Cardinality(ProductsOf(r)) \in Nat
           /\ Cardinality(ProductsOf(r)) <= Len(r.lines)
  <1> DEFINE n == Len(r.lines)
             f == [i \in 1..n |-> r.lines[i].product]
  <1>1. r.lines \in Seq(Line) /\ n \in Nat /\ DOMAIN r.lines = 1..n
    BY DEF StockRequest
  <1>2. f \in Surjection(1..n, ProductsOf(r))
    BY <1>1 DEF Surjection, ProductsOf
  <1>3. IsFiniteSet(1..n) /\ Cardinality(1..n) = n
    BY <1>1, FS_Interval
  <1>4. IsFiniteSet(ProductsOf(r)) /\ Cardinality(ProductsOf(r)) <= n
    BY <1>2, <1>3, FS_Surjection
  <1>5. QED  BY <1>1, <1>4, FS_CardinalityType

\* Only a request that comes in makes its worker busy.
LEMMA BusyGrows ==
    ASSUME TypeOK, Next, IsFiniteSet(Busy)
    PROVE  IsFiniteSet(Busy')
  <1>1. PICK w : \A v \in Worker : v # w => pc'[v] = pc[v]
    <2>1. (\E w \in Worker : pc' = [pc EXCEPT ![w] = pc'[w]]) \/ UNCHANGED pc
      BY DEF TypeOK, VariableTypes, Next, Quiet, Step, Crash, AbortDeadlock,
             RefuseDuplicateLines, RefuseSale, RefuseProducts, RefuseMovement,
             RefuseProductRow, Accept, BeginSale, LockProduct, ResolveLines, ReadProducts,
             ReadTarget, RecordMovement, CheckForeignKey, Commit, ReadProductRow,
             SaveProductRow, Rollback, Finish, Goto, NextLine, vars
    <2>2. QED  BY <2>1 DEF TypeOK, VariableTypes
  <1>2. Busy' \in SUBSET (Busy \cup {w})
    BY <1>1 DEF Busy
  <1>3. IsFiniteSet(Busy \cup {w})
    BY FS_AddElement
  <1>4. QED  BY <1>2, <1>3, FS_Subset

\* Every step keeps that finitely many requests are on their way, each with finitely
\* many products to lock.
LEMMA StepFinite == FiniteInv /\ [Next]_vars => FiniteInv'
  <1> SUFFICES ASSUME FiniteInv, [Next]_vars PROVE FiniteInv'
    OBVIOUS
  <1>t. TypeOK /\ HoldInv'
    BY StepHold DEF FiniteInv, HoldInv
  <1>1. IsFiniteSet(Busy')
    <2>1. CASE Next
      BY <2>1, <1>t, BusyGrows DEF FiniteInv
    <2>2. CASE UNCHANGED vars
      BY <2>2 DEF FiniteInv, Busy, vars
    <2>3. QED  BY <2>1, <2>2
  <1>2. ASSUME NEW v \in Worker PROVE IsFiniteSet(toLock'[v])
    <2>1. CASE \E w \in Worker : BeginSale(w)
      <3>1. PICK w \in Worker : BeginSale(w)
        BY <2>1
      <3>2. /\ toLock' = [toLock EXCEPT ![w] =
                  {p \in ProductsOf(req[w]) : Available(product[p], req[w].store)}]
            /\ req[w] \in StockRequest
        BY <3>1, <1>t, CurrentLine DEF BeginSale
      <3>3. IsFiniteSet({p \in ProductsOf(req[w]) : Available(product[p], req[w].store)})
        BY <3>2, FewProducts, FS_Subset
      <3>4. QED  BY <3>2, <3>3, <1>t DEF FiniteInv, TypeOK, VariableTypes
    <2>2. CASE \E w \in Worker : LockProduct(w)
      <3>1. PICK w \in Worker : \E p : toLock' = [toLock EXCEPT ![w] = @ \ {p}]
        BY <2>2 DEF LockProduct
      <3>2. PICK p : toLock' = [toLock EXCEPT ![w] = @ \ {p}]
        BY <3>1
      <3>3. IsFiniteSet(toLock[w] \ {p})
        BY FS_RemoveElement DEF FiniteInv
      <3>4. QED  BY <3>2, <3>3, <1>t DEF FiniteInv, TypeOK, VariableTypes
    <2>3. CASE ~(\E w \in Worker : BeginSale(w) \/ LockProduct(w))
      <3>1. UNCHANGED toLock \/ \E w \in Worker : toLock' = [toLock EXCEPT ![w] = {}]
        BY <2>3
        DEF Next, Quiet, Step, Crash, AbortDeadlock, RefuseDuplicateLines, RefuseSale,
            RefuseProducts, RefuseMovement, RefuseProductRow, Accept,
            ResolveLines, ReadProducts, ReadTarget, RecordMovement, CheckForeignKey, Commit,
            ReadProductRow, SaveProductRow, Rollback, Finish, vars, local
      <3>2. QED  BY <3>1, <1>t, FS_EmptySet DEF FiniteInv, TypeOK, VariableTypes
    <2>4. QED  BY <2>1, <2>2, <2>3
  <1>3. QED  BY <1>t, <1>1, <1>2 DEF FiniteInv

\* At the start nobody is on his way.
LEMMA InitFinite == Init => FiniteInv
  <1> SUFFICES ASSUME Init PROVE FiniteInv
    OBVIOUS
  <1>1. Busy = {} /\ \A w \in Worker : toLock[w] = {}
    BY DEF Init, Busy
  <1>2. QED  BY <1>1, InitHold, FS_EmptySet DEF FiniteInv

\* Whoever blocks a request holds a lock, and so is on his way himself.
LEMMA BlockersAreBusy ==
    ASSUME HoldInv, NEW w \in Busy
    PROVE  WaitsFor(w) \subseteq Busy \ {w}
  <1>t. TypeOK /\ w \in Worker
    BY DEF HoldInv, Busy
  <1>1. SUFFICES ASSUME NEW v \in WaitsFor(w) PROVE v \in Busy \ {w}
    OBVIOUS
  <1>2. ASSUME NEW p \in Product, v \in ForUpdateBlockers(w, p) \/ v \in ShareBlockers(w, p)
        PROVE  v \in Busy \ {w}
    <2>1. v # w /\ v \in Worker /\ (rowLock[p] = v \/ v \in keyShare[p])
      BY <1>t, <1>2 DEF ForUpdateBlockers, ShareBlockers, TypeOK, VariableTypes
    <2>2. QED  BY <2>1 DEF HoldInv, Holds, Moving, Busy
  <1>3. ASSUME NEW k \in Key, v \in StockBlockers(w, k) PROVE v \in Busy \ {w}
    <2>1. v # w /\ v \in Worker /\ stockLock[k] = v
      BY <1>t, <1>3 DEF StockBlockers, TypeOK, VariableTypes
    <2>2. QED  BY <2>1 DEF HoldInv, Holds, Moving, Busy
  <1>4. CASE pc[w] = "lock"
    <2>1. PICK p \in NextInNameOrder(w) : v \in ForUpdateBlockers(w, p)
      BY <1>4 DEF WaitsFor
    <2>2. p \in Product
      BY <1>t DEF NextInNameOrder, TypeOK, VariableTypes
    <2>3. QED  BY <1>2, <2>1, <2>2
  <1>5. CASE pc[w] \in {"target", "move"}
    <2>1. LineKey(w) \in Key
      BY <1>5, <1>t, CurrentLine
    <2>2. v \in StockBlockers(w, LineKey(w))
      BY <1>5 DEF WaitsFor, TargetBlockers
    <2>3. QED  BY <1>3, <2>1, <2>2
  <1>6. CASE pc[w] = "fk"
    BY <1>2, <1>6, <1>t, CurrentLine DEF WaitsFor
  <1>7. CASE pc[w] = "save"
    BY <1>2, <1>7, <1>t, SavedRowType DEF WaitsFor
  <1>8. pc[w] \in {"lock", "target", "move", "fk", "save"}
    BY DEF WaitsFor
  <1>9. QED  BY <1>4, <1>5, <1>6, <1>7, <1>8

\* Of the products a sale has still to lock, one has the first name.
LEMMA SomeProductIsNext ==
    ASSUME TypeOK, NEW w \in Worker, toLock[w] # {}
    PROVE  NextInNameOrder(w) # {}
  <1> DEFINE names == {seen[w][p].name : p \in toLock[w]}
  <1>1. \A p \in toLock[w] : seen[w][p].name \in Nat
    BY DEF TypeOK, VariableTypes, Row
  <1>2. names \in SUBSET Nat /\ names # {}
    BY <1>1
  <1>3. PICK n \in names : \A m \in names : n <= m
    BY <1>2, LeastNumber
  <1>4. PICK p \in toLock[w] : n = seen[w][p].name
    BY <1>3
  <1>5. p \in NextInNameOrder(w)
    BY <1>3, <1>4 DEF NextInNameOrder
  <1>6. QED  BY <1>5

\* Of finitely many workers that are all blocked by one another, some form a cycle
\* with no smaller one inside: the detector finds it.
LEMMA StuckHasCycle ==
    ASSUME NEW S \in SUBSET Worker, IsFiniteSet(S), Stuck(S)
    PROVE  \E T \in SUBSET S : WaitCycle(T)
  <1> DEFINE Knots == {T \in SUBSET S : Stuck(T)}
             sizes == {Cardinality(T) : T \in Knots}
  <1>1. \A T \in SUBSET S : IsFiniteSet(T) /\ Cardinality(T) \in Nat
    BY FS_Subset, FS_CardinalityType
  <1>2. sizes \in SUBSET Nat /\ sizes # {}
    BY <1>1
  <1>3. PICK n \in sizes : \A m \in sizes : n <= m
    BY <1>2, LeastNumber
  <1>4. PICK T \in Knots : n = Cardinality(T)
    BY <1>3
  <1>5. ASSUME NEW U \in SUBSET T, Stuck(U) PROVE U = T
    <2>1. U \in Knots
      BY <1>4, <1>5
    <2>2. Cardinality(T) <= Cardinality(U)
      BY <1>3, <1>4, <2>1
    <2>3. /\ IsFiniteSet(T) /\ Cardinality(U) <= Cardinality(T)
          /\ Cardinality(T) = Cardinality(U) => T = U
      BY <1>1, <1>4, FS_Subset
    <2>4. Cardinality(T) \in Nat /\ Cardinality(U) \in Nat
      BY <1>1, <1>4, <2>1
    <2>5. QED  BY <2>2, <2>3, <2>4
  <1>6. WaitCycle(T)
    BY <1>4, <1>5 DEF WaitCycle
  <1>7. QED  BY <1>4, <1>6

\* So one of any closed group of requests goes on, or the detector has work.
LEMMA FiniteGoesOn == FiniteInv => SomeoneGoesOn
  <1> SUFFICES ASSUME FiniteInv PROVE SomeoneGoesOn
    OBVIOUS
  <1>1. HoldInv /\ TypeOK /\ Busy \subseteq Worker
    BY DEF FiniteInv, HoldInv, Busy
  <1>2. ASSUME NEW S \in SUBSET Busy, S # {}, \A w \in S : WaitsFor(w) \subseteq S,
               \A w \in S : ~GoesOn(w)
        PROVE  \E w \in S : InDeadlock(w)
    <2>1. ASSUME NEW w \in S PROVE WaitsFor(w) # {}
      <3>1. w \in Worker /\ ~GoesOn(w)
        BY <1>1, <1>2
      <3>2. toLock[w] # {} => NextInNameOrder(w) # {}
        BY <1>1, <3>1, SomeProductIsNext
      <3>3. QED  BY <3>1, <3>2 DEF GoesOn
    <2>2. Stuck(S)
      BY <1>2, <2>1 DEF Stuck
    <2>3. IsFiniteSet(S) /\ S \in SUBSET Worker
      BY <1>1, FS_Subset DEF FiniteInv
    <2>4. PICK T \in SUBSET S : WaitCycle(T)
      BY <2>2, <2>3, StuckHasCycle
    <2>5. PICK w \in T : TRUE
      BY <2>4 DEF WaitCycle, Stuck
    <2>6. T \in SUBSET Worker /\ w \in S
      BY <2>3, <2>4
    <2>7. QED  BY <2>4, <2>5, <2>6 DEF InDeadlock
  <1>3. QED  BY <1>1, <1>2, BlockersAreBusy DEF SomeoneGoesOn

\* A request waits only for requests on their way, and of any that wait for nobody
\* else one can go on or is in a deadlock the database ends, for any number of workers,
\* products and lines.
THEOREM SomeoneGoesOnCorrect == Spec => []SomeoneGoesOn
  <1>1. QED  BY InitFinite, StepFinite, FiniteGoesOn, PTL DEF Spec

\* What is left to do is a number, and no step at all only for an idle worker.
LEMMA RemainingType ==
    ASSUME FiniteInv, NEW w \in Worker, pc[w] # "idle"
    PROVE  /\ Remaining(w) \in Nat /\ Remaining(w) > 0
           /\ (pc[w] \notin {"save", "read"} \/ (pc[w] = "read" /\ ~ChangesProduct(req[w])))
                => LineCount(w) \in Nat /\ LineCount(w) > 0 /\ idx[w] \in 1..LineCount(w)
  <1>t. TypeOK
    BY DEF FiniteInv, HoldInv
  <1>1. (pc[w] \notin {"save", "read"} \/ (pc[w] = "read" /\ ~ChangesProduct(req[w])))
            => LineCount(w) \in Nat /\ LineCount(w) > 0 /\ idx[w] \in 1..LineCount(w)
    <2>1. CASE pc[w] \in {"begin", "lock", "target", "move", "fk", "commit"}
      <3>1. idx[w] \in DOMAIN Lines(w) /\ DOMAIN Lines(w) = 1..Len(Lines(w))
            /\ Len(Lines(w)) \in Nat
        BY <2>1, <1>t, CurrentLine DEF TypeOK, StageTypes
      <3>2. QED  BY <3>1 DEF LineCount
    <2>2. CASE pc[w] = "read" /\ ~ChangesProduct(req[w])
      <3>1. req[w] \in Request /\ idx[w] = 1
        BY <2>2, <1>t DEF TypeOK, StageTypes
      <3>2. Lines(w) \in Seq(Line) /\ 1 \in DOMAIN Lines(w)
        BY <3>1, <2>2, RequestKinds DEF Lines
      <3>3. Len(Lines(w)) \in Nat /\ 1 \in 1..Len(Lines(w))
        BY <3>2
      <3>4. QED  BY <3>1, <3>3 DEF LineCount
    <2>3. pc[w] \in Stages
      BY <1>t DEF TypeOK, VariableTypes
    <2>4. QED  BY <2>1, <2>2, <2>3 DEF Stages
  <1>2. Cardinality(toLock[w]) \in Nat
    BY FS_CardinalityType DEF FiniteInv
  <1>3. pc[w] \in Stages
    BY <1>t DEF TypeOK, VariableTypes
  <1>4. Remaining(w) \in Nat /\ Remaining(w) > 0
    BY <1>1, <1>2, <1>3 DEF Remaining, LinesLeft, Stages
  <1>5. QED  BY <1>1, <1>4

\* A step that leaves a worker's stage, request and places leaves it as much to do.
LEMMA RemainingKept ==
    ASSUME NEW v \in Worker, pc'[v] = pc[v], req'[v] = req[v], idx'[v] = idx[v],
           toLock'[v] = toLock[v]
    PROVE  Remaining(v)' = Remaining(v)
  BY DEF Remaining, LinesLeft, LineCount, Lines

\* An answered request has nothing left to do.
LEMMA FinishedRemains ==
    ASSUME FiniteInv, NEW w \in Worker, pc[w] # "idle", Finish(w)
    PROVE  Remaining(w)' \in 0..(Remaining(w) - 1)
  <1>1. pc'[w] = "idle"
    BY DEF Finish, Goto, FiniteInv, HoldInv, TypeOK, VariableTypes
  <1>2. Remaining(w)' = 0
    BY <1>1 DEF Remaining
  <1>3. QED  BY <1>2, RemainingType

\* One line less of a loop, or on to a shorter stage.
LEMMA NextLineRemains ==
    ASSUME FiniteInv, NEW w \in Worker, UNCHANGED req,
           \/ pc[w] = "move" /\ NextLine(w, "fk")
           \/ pc[w] = "fk" /\ NextLine(w, "commit")
    PROVE  Remaining(w)' \in 0..(Remaining(w) - 1)
  <1>t. TypeOK
    BY DEF FiniteInv, HoldInv
  <1>1. /\ LineCount(w) \in Nat /\ idx[w] \in 1..LineCount(w)
        /\ LineCount(w)' = LineCount(w) /\ LineCount(w) = Len(Lines(w))
    BY RemainingType DEF LineCount, Lines
  <1>2. CASE idx[w] < Len(Lines(w))
    <2>1. idx'[w] = idx[w] + 1 /\ pc'[w] = pc[w]
      BY <1>2, <1>t DEF NextLine, TypeOK, VariableTypes
    <2>2. QED  BY <1>1, <1>2, <2>1 DEF Remaining, LinesLeft
  <1>3. CASE ~(idx[w] < Len(Lines(w)))
    <2>1. idx'[w] = 1 /\ idx[w] = LineCount(w)
          /\ \/ pc[w] = "move" /\ pc'[w] = "fk"
             \/ pc[w] = "fk" /\ pc'[w] = "commit"
      BY <1>1, <1>3, <1>t DEF NextLine, Goto, TypeOK, VariableTypes
    <2>2. QED  BY <1>1, <2>1 DEF Remaining, LinesLeft
  <1>4. QED  BY <1>2, <1>3

\* Every step of a worker leaves it less to do.
LEMMA StepsNearer ==
    ASSUME FiniteInv, NEW w \in Worker, Step(w) \/ Crash(w)
    PROVE  Remaining(w)' \in 0..(Remaining(w) - 1)
  <1>t. TypeOK
    BY DEF FiniteInv, HoldInv
  <1>s. pc[w] # "idle" => Remaining(w) \in Nat /\ Remaining(w) > 0
    BY RemainingType
  <1>1. CASE BeginSale(w)
    <2>1. /\ pc[w] = "begin" /\ pc'[w] = "lock" /\ req[w] \in StockRequest
          /\ toLock'[w] \in SUBSET ProductsOf(req[w]) /\ UNCHANGED req
      BY <1>1, <1>t, CurrentLine DEF BeginSale, Goto, TypeOK, VariableTypes
    <2>2. /\ Cardinality(toLock'[w]) \in Nat
          /\ Cardinality(toLock'[w]) <= Len(req[w].lines)
      <3>1. /\ IsFiniteSet(ProductsOf(req[w])) /\ Cardinality(ProductsOf(req[w])) \in Nat
            /\ Cardinality(ProductsOf(req[w])) <= Len(req[w].lines)
            /\ Len(req[w].lines) \in Nat
        BY <2>1, FewProducts
      <3>2. /\ IsFiniteSet(toLock'[w])
            /\ Cardinality(toLock'[w]) <= Cardinality(ProductsOf(req[w]))
        BY <2>1, <3>1, FS_Subset
      <3>3. Cardinality(toLock'[w]) \in Nat
        BY <3>2, FS_CardinalityType
      <3>4. QED  BY <3>1, <3>2, <3>3
    <2>3. LineCount(w) \in Nat /\ LineCount(w)' = LineCount(w)
          /\ Len(req[w].lines) = LineCount(w)
      BY <2>1, RemainingType DEF LineCount, Lines
    <2>4. Remaining(w) = 3 + 3 * LineCount(w)
      BY <2>1 DEF Remaining
    <2>5. Remaining(w)' = 2 + 2 * LineCount(w) + Cardinality(toLock'[w])
      BY <2>1, <2>3 DEF Remaining
    <2>6. QED  BY <2>2, <2>3, <2>4, <2>5
  <1>2. CASE LockProduct(w)
    <2>1. PICK p \in toLock[w] :
             /\ pc[w] = "lock" /\ pc'[w] = "lock" /\ toLock'[w] = toLock[w] \ {p}
             /\ UNCHANGED req
      BY <1>2, <1>t DEF LockProduct, NextInNameOrder, TypeOK, VariableTypes
    <2>2. Cardinality(toLock'[w]) = Cardinality(toLock[w]) - 1
          /\ Cardinality(toLock[w]) \in Nat /\ Cardinality(toLock'[w]) \in Nat
      BY <2>1, FS_RemoveElement, FS_CardinalityType DEF FiniteInv
    <2>3. LineCount(w) \in Nat /\ LineCount(w)' = LineCount(w)
      BY <2>1, RemainingType DEF LineCount, Lines
    <2>4. Remaining(w) = 2 + 2 * LineCount(w) + Cardinality(toLock[w])
      BY <2>1 DEF Remaining
    <2>5. Remaining(w)' = 2 + 2 * LineCount(w) + Cardinality(toLock'[w])
      BY <2>1, <2>3 DEF Remaining
    <2>6. QED  BY <2>2, <2>3, <2>4, <2>5
  <1>3. CASE ResolveLines(w)
    <2>1. /\ pc[w] = "lock" /\ pc'[w] = "move" /\ toLock[w] = {} /\ idx'[w] = 1
          /\ UNCHANGED req
      BY <1>3, <1>t DEF ResolveLines, Goto, local, TypeOK, VariableTypes, StageTypes
    <2>2. LineCount(w) \in Nat /\ LineCount(w)' = LineCount(w) /\ Cardinality(toLock[w]) = 0
      BY <2>1, RemainingType, FS_EmptySet DEF LineCount, Lines
    <2>3. QED  BY <2>1, <2>2 DEF Remaining, LinesLeft
  <1>4. CASE ReadProducts(w)
    <2>1. /\ pc[w] = "read" /\ pc'[w] \in {"target", "move"} /\ idx'[w] = 1
          /\ ~ChangesProduct(req[w]) /\ UNCHANGED req
      BY <1>4, <1>t DEF ReadProducts, Goto, local, TypeOK, VariableTypes, StageTypes
    <2>2. LineCount(w) \in Nat /\ LineCount(w)' = LineCount(w)
      BY <2>1, RemainingType DEF LineCount, Lines
    <2>3. QED  BY <2>1, <2>2 DEF Remaining, LinesLeft
  <1>5. CASE ReadTarget(w) /\ ~Rollback(w)
    <2>1. pc[w] = "target" /\ pc'[w] = "move" /\ idx'[w] = 1 /\ UNCHANGED req
      BY <1>5, <1>t DEF ReadTarget, Goto, TypeOK, VariableTypes, StageTypes
    <2>2. LineCount(w) \in Nat /\ LineCount(w)' = LineCount(w)
      BY <2>1, RemainingType DEF LineCount, Lines
    <2>3. QED  BY <2>1, <2>2 DEF Remaining, LinesLeft
  <1>6. CASE RecordMovement(w) \/ CheckForeignKey(w)
    BY <1>6, NextLineRemains DEF RecordMovement, CheckForeignKey
  <1>7. CASE ReadProductRow(w)
    <2>1. pc[w] = "read" /\ pc'[w] = "save" /\ ChangesProduct(req[w])
      BY <1>7, <1>t DEF ReadProductRow, Goto, TypeOK, VariableTypes
    <2>2. QED  BY <2>1 DEF Remaining
  <1>8. CASE AbortDeadlock(w)
    <2>1. WaitsFor(w) # {} /\ Finish(w)
      BY <1>8 DEF AbortDeadlock, WaitCycle, Stuck, Rollback
    <2>2. pc[w] # "idle"
      BY <2>1 DEF WaitsFor
    <2>3. QED  BY <2>1, <2>2, FinishedRemains
  <1>9. CASE pc[w] # "idle" /\ Finish(w)
    BY <1>9, FinishedRemains
  <1>10. QED
    BY <1>1, <1>2, <1>3, <1>4, <1>5, <1>6, <1>7, <1>8, <1>9
    DEF Step, Crash, RefuseDuplicateLines, RefuseSale, RefuseProducts, RefuseMovement,
        RefuseProductRow, Commit, SaveProductRow, ReadTarget, Rollback

\* A worker's step touches the stage, the request and the places of no other worker.
LEMMA OthersRemain ==
    ASSUME TypeOK, NEW w \in Worker, Accept(w) \/ Step(w) \/ Crash(w),
           NEW v \in Worker, v # w
    PROVE  Remaining(v)' = Remaining(v)
  <1>1. pc'[v] = pc[v] /\ req'[v] = req[v]
    BY DEF TypeOK, VariableTypes, Step, Crash, AbortDeadlock,
           RefuseDuplicateLines, RefuseSale, RefuseProducts, RefuseMovement,
           RefuseProductRow, Accept, BeginSale, LockProduct, ResolveLines, ReadProducts,
           ReadTarget, RecordMovement, CheckForeignKey, Commit, ReadProductRow,
           SaveProductRow, Rollback, Finish, Goto, NextLine
  <1>2. idx'[v] = idx[v] /\ toLock'[v] = toLock[v]
    BY DEF TypeOK, VariableTypes, Step, Crash, AbortDeadlock,
           RefuseDuplicateLines, RefuseSale, RefuseProducts, RefuseMovement,
           RefuseProductRow, Accept, BeginSale, LockProduct, ResolveLines, ReadProducts,
           ReadTarget, RecordMovement, CheckForeignKey, Commit, ReadProductRow,
           SaveProductRow, Rollback, Finish, NextLine, local
  <1>3. QED  BY <1>1, <1>2, RemainingKept

\* Every step of a request brings it nearer to its end, and only a new request gives a
\* worker more to do: no loop, and no retry, runs for ever.
THEOREM StepsRunOutCorrect == Spec => StepsRunOut
  <1>1. ASSUME FiniteInv, [Next]_vars
        PROVE  [\A w \in Worker :
                   /\ Step(w) => Remaining(w)' \in 0..(Remaining(w) - 1)
                   /\ Remaining(w)' <= Remaining(w) \/ Accept(w)]_vars
    <2>1. SUFFICES ASSUME NEW w \in Worker, NEW v \in Worker,
                          Accept(v) \/ Step(v) \/ Crash(v)
                   PROVE  /\ Step(w) => Remaining(w)' \in 0..(Remaining(w) - 1)
                          /\ Remaining(w)' <= Remaining(w) \/ Accept(w)
      BY <1>1 DEF Next, Quiet
    <2>2. Step(w) => Remaining(w)' \in 0..(Remaining(w) - 1)
      BY <1>1, StepsNearer
    <2>3. TypeOK /\ Remaining(w) \in Nat
      <3>1. pc[w] = "idle" => Remaining(w) = 0
        BY DEF Remaining
      <3>2. QED  BY <1>1, <3>1, RemainingType DEF FiniteInv, HoldInv
    <2>4. CASE v # w
      <3>1. Remaining(w)' = Remaining(w)
        BY <2>1, <2>3, <2>4, OthersRemain
      <3>2. QED  BY <2>2, <2>3, <3>1
    <2>5. CASE v = w /\ ~Accept(w)
      <3>1. Remaining(w)' \in 0..(Remaining(w) - 1)
        BY <1>1, <2>1, <2>5, StepsNearer
      <3>2. Remaining(w)' <= Remaining(w)
        BY <2>3, <3>1
      <3>3. QED  BY <2>2, <3>2
    <2>6. QED  BY <2>2, <2>4, <2>5
  <1>2. QED  BY <1>1, InitFinite, StepFinite, PTL DEF Spec, StepsRunOut
=============================================================================
