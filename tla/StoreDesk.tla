----------------------------- MODULE StoreDesk -----------------------------
(***************************************************************************)
(* The owner's page of one store: its stock, receivings, adjustments,      *)
(* movements and sales report, while the tills of the store go on selling  *)
(* and the catalogue is edited elsewhere.                                  *)
(*                                                                         *)
(* The store's tables only grow, so they are one log, and what a query     *)
(* returns is a position in it.  A tab that is left is unmounted: its      *)
(* draft and dialog go, and the callbacks given to mutate are not called,  *)
(* while those of useMutation and the fetches it started go on.            *)
(* Quantities are in thousandths, the finest the tests tell apart.         *)
(***************************************************************************)
EXTENDS Integers, Sequences, FiniteSets, Totals

CONSTANTS
    Product,           \* the catalogue
    SoldByWeight,      \* what of it is sold by weight when the page opens
    Price,             \* what a product costs
    NoProduct,
    Basket,            \* the sets of products that the tills sell at once
    MaxQty,            \* the largest quantity the columns hold
    TopSize,           \* how many best sellers the report names
    Shows,             \* the tabs that are opened
    Typed, Counted,    \* quantities an owner types in a draft, and in the dialog
    QuickAmount,       \* amounts of sales without products
    MaxLog, MaxPresses, MaxMoves  \* bounds: events, presses of "Simpan", clicks

ASSUME DeskAssumption ==
    /\ IsFiniteSet(Product) /\ SoldByWeight \subseteq Product
    /\ Price \in [Product -> Nat]
    /\ NoProduct \notin Product
    /\ Basket \subseteq SUBSET Product \ {{}}
    /\ MaxQty \in Nat /\ TopSize \in Nat \ {0}
    /\ Shows \subseteq {"kasir", "stok", "penerimaan", "laporan", "riwayat"}
    /\ Typed \cup Counted \cup QuickAmount \subseteq Nat
    /\ MaxLog \in Nat /\ MaxPresses \in Nat /\ MaxMoves \in Nat

Tab == {"kasir", "stok", "penerimaan", "laporan", "riwayat"}
Query == {"stock", "received", "movements", "report"}
Press == 1..MaxPresses

VARIABLES
    log,     \* what was written to the store's tables and to the catalogue
    tab,     \* the tab shown
    lines,   \* ReceivingTab: the draft, a quantity per product
    draft,   \* history: which draft this is
    dialog,  \* AdjustmentDialog: the item it was opened for
    weighed, \* is_weighted of those items, as they were when they were picked
    query,   \* the query cache
    post,    \* the presses of "Simpan"
    moves

page == <<tab, lines, draft, dialog, weighed>>
vars == <<log, page, query, post, moves>>

NoLines == [p \in {} |-> 0]
Closed == [product |-> NoProduct, qty |-> 0]
NotFetched == [data |-> <<>>, stale |-> FALSE, failed |-> FALSE, whole |-> FALSE,
               fetching |-> FALSE, reading |-> <<>>, kept |-> FALSE]

Init ==
    /\ log = <<>> /\ tab = "kasir" /\ moves = 0
    /\ lines = NoLines /\ draft = 0 /\ dialog = Closed /\ weighed = {}
    /\ query = [q \in Query |-> NotFetched]
    /\ post = <<>>

-----------------------------------------------------------------------------
(* The store's tables                                                      *)

QtyAt(n, p) == Total([i \in 1..n |-> log[i].delta[p]])
Archived(n) == UNION {log[i].archived : i \in 1..n}
ByWeight(n) == IF n = 0 THEN SoldByWeight ELSE log[n].byWeight
EverByWeight(n) == UNION {ByWeight(m) : m \in 0..n}
Now == Len(log)

Nothing == [kind |-> "none", delta |-> [p \in Product |-> 0],
            revenue |-> [p \in Product |-> 0], total |-> 0,
            archived |-> {}, byWeight |-> ByWeight(Now)]

\* What a request with op moves where there is a quantity already, and whether the
\* request, the movement and the stock it leaves have no more digits than their columns.
Moved(op, qty, there) == IF op = "target" THEN qty - there ELSE qty
FitsColumns(op, qty, there) ==
    {qty, Moved(op, qty, there), there + Moved(op, qty, there)} \subseteq -MaxQty..MaxQty

Record(event) ==
    /\ Now < MaxLog
    /\ log' = Append(log, event)

\* A till sells one of each product of S.
Sell(S) ==
    /\ S \cap Archived(Now) = {}
    /\ \A p \in S : FitsColumns("delta", -1000, QtyAt(Now, p))
    /\ LET charged == [p \in Product |-> IF p \in S THEN Price[p] ELSE 0]
       IN  Record([Nothing EXCEPT !.kind = "sale", !.revenue = charged, !.total = Total(charged),
                                  !.delta = [p \in Product |-> IF p \in S THEN -1000 ELSE 0]])
    /\ UNCHANGED <<page, query, post, moves>>

SellQuick(amount) ==
    /\ Record([Nothing EXCEPT !.kind = "sale", !.total = amount])
    /\ UNCHANGED <<page, query, post, moves>>

Archive(p) ==
    /\ p \notin Archived(Now)
    /\ Record([Nothing EXCEPT !.kind = "archive", !.archived = {p}])
    /\ UNCHANGED <<page, query, post, moves>>

\* The product form changes is_weighted.
Reweigh(p) ==
    /\ p \notin Archived(Now)
    /\ Record([Nothing EXCEPT !.kind = "edit", !.byWeight = (@ \cup {p}) \ (@ \cap {p})])
    /\ UNCHANGED <<page, query, post, moves>>

-----------------------------------------------------------------------------
(* The query cache                                                         *)

\* The query a tab observes.
Observes(t) ==
    CASE t = "stok" -> {"stock"}
      [] t = "penerimaan" -> {"received"}
      [] t = "riwayat" -> {"movements"}
      [] t = "laporan" -> {"report"}
      [] t = "kasir" -> {}

Active(q) == q \in Observes(tab)
HasData(q) == query[q].data # <<>>

\* A failed refetch hides what is cached, but for the receivings below the draft.
Shown(q) == Active(q) /\ HasData(q) /\ (q = "received" \/ ~query[q].failed)

\* The report's list and best sellers are read one after the other.
Reads(q) == IF q = "report" THEN 2 ELSE 1

\* A fetch; if it is the first one, an invalidation will not start it again.
Started(c) == [c EXCEPT !.fetching = TRUE, !.reading = <<>>, !.kept = (c.data # <<>>)]
Left(c) == [c EXCEPT !.kept = FALSE]
WantsFetch(c, aged) == ~c.fetching /\ (c.data = <<>> \/ c.stale \/ aged)

ReadRows(q) ==
    /\ query[q].fetching /\ Len(query[q].reading) < Reads(q)
    /\ query' = [query EXCEPT ![q].reading = Append(@, Now)]
    /\ UNCHANGED <<log, page, post, moves>>

Land(q) ==
    /\ query[q].fetching /\ Len(query[q].reading) = Reads(q)
    /\ query' = [query EXCEPT ![q] = [NotFetched EXCEPT !.data = query[q].reading,
                                                        !.whole = query[q].kept]]
    /\ UNCHANGED <<log, page, post, moves>>

\* After a retry: what was cached is kept, the tab shows the error.
FailFetch(q) ==
    /\ query[q].fetching
    /\ query' = [query EXCEPT ![q].fetching = FALSE, ![q].reading = <<>>, ![q].failed = TRUE]
    /\ UNCHANGED <<log, page, post, moves>>

\* Mutant: invalidateQueries leaves a fetch that is on its way alone.
RestartsIdle(q) == Active(q) /\ HasData(q) /\ ~query[q].fetching

\* invalidateQueries starts the active queries again; a query that has no data yet
\* goes on with its first fetch.
Restarts(q) == Active(q) /\ HasData(q)

\* What a receiving or an adjustment makes stale.
Invalidated == {"stock", "received", "movements"}

Invalidate(qs) ==
    query' = [q \in Query |->
                 LET c == IF q \in qs /\ HasData(q) THEN [query[q] EXCEPT !.stale = TRUE] ELSE query[q]
                 IN  IF q \in qs /\ Restarts(q) THEN Started(c) ELSE c]

-----------------------------------------------------------------------------
(* The owner                                                               *)

Move == moves < MaxMoves /\ moves' = moves + 1

\* What a tab that is left takes with it.
Unmount == lines' = NoLines /\ dialog' = Closed /\ weighed' = {}

NextDraft == draft' = IF lines = NoLines THEN draft ELSE draft + 1

\* What the new tab observes is fetched unless it is fresh: data is stale when it was
\* invalidated, or is 30 s old.
OpenTab(t) ==
    /\ Move
    /\ t # tab /\ dialog = Closed
    /\ tab' = t
    /\ Unmount /\ NextDraft
    /\ post' = [i \in DOMAIN post |-> [post[i] EXCEPT !.watched = FALSE]]
    /\ \E aged \in BOOLEAN :
          query' = [q \in Query |->
                       IF q \in Observes(t) /\ WantsFetch(query[q], aged) THEN Started(query[q])
                       ELSE IF Active(q) THEN Left(query[q]) ELSE query[q]]
    /\ UNCHANGED log

\* The window gets the focus when what is shown is stale or 30 s old.
Focus ==
    /\ Move
    /\ \E q \in Query :
          /\ Active(q) /\ WantsFetch(query[q], TRUE)
          /\ query' = [query EXCEPT ![q] = Started(@)]
    /\ UNCHANGED <<log, page, post>>

IsPending == \E i \in DOMAIN post : post[i].watched /\ ~post[i].over

\* Picked, or opened, as a list of products read at n has it.
Pick(p, n) == weighed' = (weighed \ {p}) \cup ({p} \cap ByWeight(n))

\* Only products that are not in the draft are offered, in a list that may be old.
AddLine(p) ==
    /\ Move
    /\ tab = "penerimaan" /\ p \notin DOMAIN lines
    /\ \E n \in 0..Now : Pick(p, n)
    /\ lines' = [r \in DOMAIN lines \cup {p} |-> IF r = p THEN 1000 ELSE lines[r]]
    /\ UNCHANGED <<log, tab, draft, dialog, query, post>>

SetQty(p, qty) ==
    /\ Move
    /\ tab = "penerimaan" /\ p \in DOMAIN lines
    /\ lines' = [lines EXCEPT ![p] = qty]
    /\ UNCHANGED <<log, tab, draft, dialog, weighed, query, post>>

Drop(kept) ==
    /\ Move
    /\ tab = "penerimaan" /\ lines # NoLines
    /\ lines' = [p \in kept |-> lines[p]]
    /\ draft' = IF kept = {} THEN draft + 1 ELSE draft
    /\ UNCHANGED <<log, tab, dialog, weighed, query, post>>

RemoveLine(p) == p \in DOMAIN lines /\ Drop(DOMAIN lines \ {p})
ClearLines == ~IsPending /\ Drop({})

IsWhole(qty) == qty % 1000 = 0
IsCents(qty) == qty % 10 = 0

Save(op, body) ==
    /\ Move
    /\ Len(post) < MaxPresses
    /\ post' = Append(post, [op |-> op, body |-> body, draft |-> draft, watched |-> TRUE,
                             status |-> "sent", at |-> 0, over |-> FALSE])
    /\ UNCHANGED <<log, page, query>>

\* Mutant: the button is not disabled while the receiving is pending.
CanSaveAgain ==
    lines # NoLines /\ \A p \in DOMAIN lines : lines[p] > 0 /\ (p \in weighed \/ IsWhole(lines[p]))

\* Mutant: any quantity above zero will do.
AnyQuantity == ~IsPending /\ lines # NoLines /\ \A p \in DOMAIN lines : lines[p] > 0

CanSubmit ==
    /\ ~IsPending /\ lines # NoLines
    /\ \A p \in DOMAIN lines : lines[p] > 0 /\ (p \in weighed \/ IsWhole(lines[p]))

Receive == tab = "penerimaan" /\ CanSubmit /\ Save("receiving", lines)

OpenDialog(p) ==
    /\ Move
    /\ dialog = Closed /\ Shown("stock")
    /\ p \notin Archived(query["stock"].data[1])
    /\ dialog' = [product |-> p, qty |-> QtyAt(query["stock"].data[1], p)]
    /\ Pick(p, query["stock"].data[1])
    /\ UNCHANGED <<log, tab, lines, draft, query, post>>

\* "Batal" is disabled while it is pending; the escape key is not.
CloseDialog ==
    /\ Move
    /\ dialog # Closed
    /\ dialog' = Closed
    /\ UNCHANGED <<log, tab, lines, draft, weighed, query, post>>

\* The schema and the constraints of the inputs, which leave the digits to the API.
FitsForm(p, op, qty) ==
    /\ op = "target" => qty >= 0
    /\ op = "delta" => qty # 0
    /\ IF p \in weighed THEN IsCents(qty) ELSE IsWhole(qty)

\* The number to set starts as the one that was shown.
Adjust(op, qty) ==
    /\ dialog # Closed /\ ~IsPending
    /\ FitsForm(dialog.product, op, qty)
    /\ Save(op, [p \in {dialog.product} |-> qty])

-----------------------------------------------------------------------------
(* The server                                                              *)

IsTaken(op, body) ==
    /\ DOMAIN body \cap Archived(Now) = {}
    /\ \A p \in DOMAIN body :
          /\ IsCents(body[p]) /\ (p \in ByWeight(Now) \/ IsWhole(body[p]))
          /\ FitsColumns(op, body[p], QtyAt(Now, p))
          /\ op = "receiving" => body[p] >= 10
          /\ op = "target" => body[p] # QtyAt(Now, p)

Handled(i, status, at) ==
    /\ post[i].status = "sent"
    /\ post' = [post EXCEPT ![i].status = status, ![i].at = at]
    /\ UNCHANGED <<page, query, moves>>

MovedBy(op, body) ==
    [p \in Product |->
        IF p \in DOMAIN body THEN Moved(op, body[p], QtyAt(Now, p)) ELSE 0]

RecordPost(i) ==
    LET r == post[i]
    IN  /\ IsTaken(r.op, r.body)
        /\ Record([Nothing EXCEPT !.kind = r.op, !.delta = MovedBy(r.op, r.body)])
        /\ Handled(i, "recorded", Now + 1)

RefusePost(i) ==
    /\ ~IsTaken(post[i].op, post[i].body)
    /\ UNCHANGED log
    /\ Handled(i, "refused", Now)

\* The request or its answer is lost.
LosePost(i) ==
    /\ ~post[i].over /\ post[i].status # "lost"
    /\ post' = [post EXCEPT ![i].status = "lost"]
    /\ UNCHANGED <<log, page, query, moves>>

-----------------------------------------------------------------------------
(* Answers                                                                 *)

Over(i) == post' = [post EXCEPT ![i].over = TRUE] /\ UNCHANGED <<log, tab, weighed, moves>>

\* Mutant: a receiving's success leaves the lines.
KeepsLines(op) ==
    UNCHANGED <<lines, draft>> /\ dialog' = IF op = "receiving" THEN dialog ELSE Closed

\* setLines([]), whatever was added meanwhile; onOpenChange(false), whatever is open.
Succeed(op) ==
    IF op = "receiving" THEN lines' = NoLines /\ NextDraft /\ UNCHANGED dialog
    ELSE dialog' = Closed /\ UNCHANGED <<lines, draft>>

AnswerSuccess(i) ==
    /\ post[i].status = "recorded" /\ ~post[i].over
    /\ Over(i)
    /\ Invalidate(Invalidated)
    /\ IF post[i].watched THEN Succeed(post[i].op) ELSE UNCHANGED <<lines, draft, dialog>>

\* A toast.
AnswerError(i) ==
    /\ post[i].status \in {"refused", "lost"} /\ ~post[i].over
    /\ Over(i)
    /\ UNCHANGED <<lines, draft, dialog, query>>

-----------------------------------------------------------------------------
Signed == Counted \cup {-qty : qty \in Counted}

\* What the draft, and the dialog, let the owner do.
ReceivingStep ==
    \/ \E p \in Product : AddLine(p) \/ RemoveLine(p)
    \/ \E p \in Product, qty \in Typed : SetQty(p, qty)
    \/ ClearLines \/ Receive

AdjustmentStep ==
    \/ \E qty \in Counted \cup {dialog.qty} : Adjust("target", qty)
    \/ \E qty \in Signed : Adjust("delta", qty)
    \/ CloseDialog

OwnerStep ==
    \/ \E t \in Shows : OpenTab(t)
    \/ \E p \in Product : OpenDialog(p)
    \/ Focus \/ ReceivingStep \/ AdjustmentStep

StoreStep ==
    \/ \E S \in Basket : Sell(S)
    \/ \E amount \in QuickAmount : SellQuick(amount)
    \/ \E p \in Product : Archive(p) \/ Reweigh(p)
    \/ \E i \in DOMAIN post : RecordPost(i) \/ RefusePost(i)

Next ==
    \/ OwnerStep \/ StoreStep
    \/ \E q \in Query : ReadRows(q) \/ Land(q) \/ FailFetch(q)
    \/ \E i \in DOMAIN post : LosePost(i) \/ AnswerSuccess(i) \/ AnswerError(i)

Spec == Init /\ [][Next]_vars
-----------------------------------------------------------------------------
(* The report                                                              *)

Between(f(_), n) == Total([i \in 1..n |-> f(i)])
Gross(n) == Between(LAMBDA i : log[i].total, n)
Revenue(p, n) == Between(LAMBDA i : log[i].revenue[p], n)
UnitsSold(p, n) == Between(LAMBDA i : IF log[i].kind = "sale" THEN -log[i].delta[p] ELSE 0, n)
Sold(n) == {p \in Product : UnitsSold(p, n) > 0}

\* Mutant: the best sellers leave archived products out, as the stock list does.
StillSold(n) == Sold(n) \ Archived(n)

\* The lines the best sellers are chosen from.
Candidates(n) == Sold(n)

BestSellers(n) ==
    CHOOSE S \in SUBSET Candidates(n) :
        /\ Cardinality(S) = IF Cardinality(Candidates(n)) < TopSize
                            THEN Cardinality(Candidates(n)) ELSE TopSize
        /\ \A p \in S, r \in Candidates(n) \ S : UnitsSold(p, n) >= UnitsSold(r, n)

\* The export has a row for every line.
CsvTotal(n) == Total([p \in Product |-> Revenue(p, n)])
-----------------------------------------------------------------------------
(* Properties                                                              *)

\* Every variable has its type; a draft and a dialog exist on their tab only.
TypeOK ==
    /\ \A i \in 1..Now : /\ log[i].delta \in [Product -> Int]
                        /\ log[i].archived \cup log[i].byWeight \subseteq Product
    /\ tab \in Tab /\ draft \in Nat
    /\ DOMAIN lines \subseteq Product /\ \A p \in DOMAIN lines : lines[p] \in Nat
    /\ lines # NoLines => tab = "penerimaan"
    /\ dialog.product \in Product \cup {NoProduct} /\ dialog.qty \in Int
    /\ dialog # Closed => tab = "stok"
    /\ weighed \subseteq Product
    /\ \A q \in Query : /\ Len(query[q].data) \in {0, Reads(q)}
                        /\ Len(query[q].reading) <= Reads(q)
                        /\ {query[q].stale, query[q].failed, query[q].whole,
                            query[q].fetching, query[q].kept} \subseteq BOOLEAN
    /\ \A i \in DOMAIN post : /\ post[i].op \in {"receiving", "target", "delta"}
                              /\ post[i].at \in 0..Now /\ post[i].draft \in 0..draft

\* Stock and movements that are shown as fresh include every receiving and adjustment
\* whose success the page has been told of, unless they come from the first fetch or
\* from one that was on its way while the tab was left.
ReadsOwnWrites ==
    \A q \in Query \ {"report"}, i \in DOMAIN post :
        /\ Shown(q) /\ ~query[q].stale /\ query[q].whole
        /\ post[i].status = "recorded" /\ post[i].over
        => query[q].data[1] >= post[i].at

\* A draft whose receiving was recorded is sent again only when the answer was lost.
DraftReceivedOnce ==
    \A i, j \in DOMAIN post :
        /\ i < j /\ post[i].draft = post[j].draft
        /\ post[i].op = "receiving" /\ post[j].op = "receiving"
        /\ post[i].at > 0 /\ post[i].status # "refused"
        => post[i].status = "lost"

\* What the forms let through is refused only because the product was archived, the
\* quantity is there already, the request or the stock it leaves has too many digits,
\* the product is no longer sold by weight, or a weight has more than two decimals.
FormsFit ==
    \A i \in DOMAIN post :
        post[i].status = "refused" =>
            \E p \in DOMAIN post[i].body :
                \/ p \in Archived(post[i].at)
                \/ post[i].op = "target" /\ post[i].body[p] = QtyAt(post[i].at, p)
                \/ ~FitsColumns(post[i].op, post[i].body[p], QtyAt(post[i].at, p))
                \/ /\ p \in EverByWeight(post[i].at) \ ByWeight(post[i].at)
                   /\ ~IsWhole(post[i].body[p])
                \/ /\ p \in EverByWeight(post[i].at) /\ post[i].op = "receiving"
                   /\ ~IsCents(post[i].body[p])

\* The report's best sellers and the export account for the gross revenue, but for
\* sales without products, for products beyond the best, and for sales recorded between
\* the two queries of the report.
ReportsAgree ==
    Shown("report") =>
        LET n == query["report"].data[1]
            m == query["report"].data[2]
            quick == Between(LAMBDA i : IF \A p \in Product : log[i].revenue[p] = 0
                                        THEN log[i].total ELSE 0, n)
            best == Total([p \in BestSellers(m) |-> Revenue(p, m)])
        IN  /\ CsvTotal(n) + quick = Gross(n)
            /\ n = m => best + quick <= Gross(n)
            /\ n = m /\ Cardinality(Sold(m)) <= TopSize => best + quick = Gross(n)
=============================================================================
