# A verification project for KasirKelontong

KasirKelontong is a cash-first point of sale for small shops: a Django REST
backend on PostgreSQL, a React web client and a Flutter tablet client. This
directory holds TLA+ models of it, the TLC configurations that check them, and
TLAPS proofs of their main theorems. Everything is translated from the code;
`PROJECT.json` says which lines each definition stands for.

1. [The system](#1-the-system): inventory of its parts
2. [What is modelled](#2-what-is-modelled): modules, state, actions
3. [The runs](#3-the-runs): what TLC checks, within which bounds
4. [The proofs](#4-the-proofs): what TLAPS proves, and along which argument
5. [Where code and words differ](#5-where-code-and-words-differ)
6. [Not modelled, and the plan](#6-not-modelled-and-the-plan)

## 1. The system

### How it runs

The backend is stateless Python: `gunicorn` with 3 worker processes of 4 threads
and a 60 s timeout (`docker-compose.yml`, `docker/`), in front of one PostgreSQL
database at its default isolation level, READ COMMITTED. So twelve requests run at the
same time, and everything they share is rows. A handler is in a transaction only
where it says `transaction.atomic`; elsewhere each query commits by itself.
Development uses SQLite with IMMEDIATE transactions: one writer at a
time, so its behaviours are a subset of those considered here.

Two kinds of clients call it: the owner's pages, with a DRF token, and
the tills, with the token of a `CashierSession`. Nothing is pushed to clients,
no request carries an idempotency key, and there are no background jobs.

### The parts

| Component | State it keeps | Operations | What is hard |
|---|---|---|---|
| **Stock transactions** (`stock/`, `sale/services.py`, `api/v1/stock_api.py`) | `StoreStock.qty` (a cache), `StockMovement` (append-only), `Sale`, `SaleLine` | `create_sale`, receiving, adjustment by `delta` or to `target_qty`, `record_movement` | row locks in two tables, a row that may not exist yet, multi-line transactions that fail half-way, deadlocks |
| **Cashier access** (`cashier/`, `api/v1/cashier*.py`) | `Cashier` (store, PIN hash, active), `CashierSession` | owner's CRUD and impersonation; login, logout, authentication of each request | no transaction, no unique key on the PIN, whole-row saves, sessions that outlive a deactivation |
| **Product catalogue** (`product/`, `api/v1/products_api.py`) | `Product` rows with price, bundle, weighing, `archived_at`; partial unique barcode | create (also by a cashier, also with opening stock), PATCH, DELETE (archive), search | whole-row saves of stale rows, check before a unique index |
| **Sale pricing** (`sale/services.py`) | none | line resolution, half-up rounding, subtotal, change | the clients compute the same sums in other arithmetic |
| **Stores** (`store/`, `api/v1/stores_api.py`) | `Store` with a code unique within its tenant | CRUD; deletion cascades to cashiers and is refused by PROTECT keys | deletion against requests in flight |
| **Owner accounts and onboarding** (`api/v1/auth_api.py`, `profile/`, `tenant/`) | `User`, `Token`, `Profile.onboarded`, `Tenant` | register, login, Google sign-in, logout, complete_onboarding | check-then-act windows on unique keys; a shared token |
| **Sales report** (`api/v1/sales_api.py`) | none | today's list, report by dates, CSV | several queries, no common snapshot; sales without lines |
| **Barcode catalogue and back office** (`catalog/`, `core/views.py`) | one lookup table | staff forms, idempotent import, lookup | none that reaches the shop's state |
| **Payment gateway stub** (`core/payments/`) | none | a client nobody calls, a webhook that does nothing | — |
| **Web till** (`frontend/src/features/sales`) | cart, cash, mode, completed sale (atoms); query cache | add, change, toggle bundle, pay, new sale, calculator | lost answers and second attempts, stale prices, the cart after a sale |
| **Web sessions** (`features/cashier-auth`, `features/auth`) | tokens in localStorage, atoms per tab | login, logout, `me` at start | answers of an old session after a new login |
| **Web administration pages** (`features/stock`, `products`, `stores`, `cashiers`, `reports`) | query cache, drafts, forms and dialogs | tables, searches and forms over the API | a form is one component for every row, and the answer of an earlier request acts on whatever it shows by then; a fetch may be older than the write it follows |
| **Mobile till** (`mobile/lib/features/sales`) | cart, cash | the till's, with a stock check before paying | the cart is cleared by the answer; `toggleBundle` can duplicate a line |
| **Mobile sessions and routing** | secure storage, two session controllers | bootstrap, login, logout, redirects | start-up order, failures of `me` |
| **Deployment and demo data** | — | start-up, seeding | fixes the environment above |

### How they interact

    owner's tabs --PATCH/DELETE product, receiving, adjustment--> Stock transactions
    owner's tabs --CRUD, impersonate------------------------> Cashier access
    tills --------login----------------------------------> Cashier access --session-->
    tills --------POST /cashier/sales/ (token checked first)--> create_sale --> record_movement
    report, stock list, today's list --------------------> plain reads of the same rows

A sale reads the catalogue, and writes sales, lines, movements and the stock
cache. Catalogue edits do not take part in any transaction: they meet the sale's
row locks only through their one UPDATE. Deactivating a cashier does not touch the
sessions: it works because authentication reads `cashier.active` each time.

### What makes each part correct

- *Stock transactions*: the cached quantity is the sum of the movements, however
  requests overlap, fail or die; a sale charges the catalogue it commits
  against; stock moves as if the requests came one after the other; everyone is
  answered in the end; a target is reached.
- *Cashier access*: a PIN that was compared names one active cashier of a store; what the
  owner was answered is undone by an overlapping request only; a deactivated cashier can do
  nothing, with whatever token; a login finds somebody its code and PIN fit.
- *Product catalogue*: one live barcode per tenant, a weighed product has no bundle and no
  product part of one, whatever edits overwrite each other.
- *Pricing*: change = tendered − subtotal ≥ 0; client and server agree on a total.
- *Till*: what was paid is what was in the cart; one payment makes one sale; a
  product added is sold or still in the cart.
- *Stores, accounts*: unique keys hold; a store with sales cannot vanish, nor
  take the cashier of a sale with it.
- *Reports*: summary, list and best sellers describe the same sales.
- *Sessions*: a tab acts for the account it shows; nobody waits at a gate forever.
- *Administration pages*: what is shown as fresh includes what was just saved; what was
  filled in once is recorded once; an answer acts on the form it belongs to; the
  server refuses what a form let through for a reason the form cannot know only.

`PROJECT.json` lists the hazards of these parts one by one, each at the line where
it bites, with the properties that cover it or the reason why none does.

## 2. What is modelled

| Module | Role |
|---|---|
| `SalePricing` | product rows, lines, and the computations of `create_sale` on them: units, rounding, subtotal, acceptance; shared by the server's modules and the till's |
| `ShopData` | what the handlers of the server start from: opening rows, validated requests |
| `ShopLedger` | the abstract specification: every request has its whole effect in one step, or none |
| `StockTransactions` | the handlers that move stock or change a product, as database transactions of worker threads |
| `CashierAccess` | CRUD of cashiers, login, sessions, authentication |
| `WebTill` | the web till's cart, payment and dialog, its requests to `create_sale` over a connection that fails, and edits of the catalogue meanwhile |
| `Calculator` | the keys of the till's fast mode, and the tokenizer and evaluator behind the amount |
| `ClientSessions` | the tabs of a browser, the localStorage they share, and the tokens of owners and cashiers |
| `ProductForm` | the catalogue page: form, barcode lookup, delete dialog, and the product handlers, with a till that creates products meanwhile |
| `StoreDesk` | the page of one store: stock, receiving, adjustment, movements, report, and its query cache, while the tills sell |
| `AdminPages` | the pages of stores and cashiers, the onboarding, and the handlers behind them |
| `Totals` | the sum over a finite function that carts, ledgers and reports are computed with |
| `MC…` | one per model: its instances for TLC. `MCCalculator` also has the definition the evaluator is compared with |
| `…_proofs` | TLAPS theorems about `StockTransactions`, `CashierAccess`, `WebTill`, `ProductForm`, `StoreDesk`, `AdminPages`, `ClientSessions`, and about `Totals` |

`WebTill` takes `create_sale` as one step on the rows of that moment, which is what
`ShopLedger!Sell` promises and `StockTransactions` is proved to implement; the operators that
decide whether and at what price a sale goes through are the same in both (`SalePricing`).

The models of the clients meet at two places: a product a till creates (`ProductForm!QuickCreate`) is one that `WebTill` adds from the list, and the amount
of `WebTill!SetAmount` is what `Calculator` makes of the keys.

In `StockTransactions` and `CashierAccess` `pc[w]` is where the handler of worker `w` is between two
database statements: one action is what the code does from one statement to the
next, the early returns in between included. A definition with the comment
*Mutant* is a plausible bug, not part of the specification: it shows that the
property named with it in `PROJECT.json` can tell the difference.

### StockTransactions

| Variable | In the code |
|---|---|
| `product` | the committed `Product` rows: tenant, rank of the name, price, weighing, bundle, `archived_at` |
| `stock` | the committed `StoreStock.qty` per store and product, or `NoRow` |
| `ledger` | the sum of the committed `StockMovement.delta` per store and product |
| `rowLock`, `keyShare` | FOR UPDATE and FOR KEY SHARE locks on products |
| `stockLock` | lock on a `StoreStock` row, or on the unique key of one being inserted |
| `wrote`, `moved` | a transaction's uncommitted `StoreStock` rows, and the sum of its uncommitted movements |
| `req`, `pc`, `idx` | the request, the stage, the line of the loop over the lines |
| `seen`, `toLock`, `base` | the product rows read, the rows of the locking SELECT still to come, the quantity read for `target_qty` |

- `create_sale`: `RefuseDuplicateLines` or `BeginSale` (the snapshot of `SELECT … ORDER BY
  name FOR UPDATE` picks the rows), `LockProduct` once per row (wait, re-read the row's
  latest version, drop it if it was archived meanwhile, as READ COMMITTED does),
  `ResolveLines` or `RefuseSale`, then `RecordMovement` per line.
- Receiving, adjustment: `ReadProducts`/`RefuseProducts` outside the transaction (the
  store's own products, not archived, and whole pieces of what is not weighed), `ReadTarget`
  for `target_qty` (including the "nothing to change" answer), then `RecordMovement`.
- `RecordMovement` is `record_movement`: `get_or_create` under `select_for_update`,
  the movement, the new cached quantity. `RefuseMovement` is its ValueError (other
  tenant) and the overflow of `numeric(12, 2)`, by the movement or by the new quantity.
- End of `transaction.atomic`: `CheckForeignKey` per movement (the deferred
  foreign keys lock the products in share mode at COMMIT), then `Commit`.
- PATCH and DELETE of a product: `ReadProductRow`/`RefuseProductRow`, then `SaveProductRow`. A
  PATCH is partial: its request names which of name, price, weighing and bundle its body sets, the others are
  `Absent` (`Given`, `Patched`). It is validated on the row that was read (`PatchIsValid`), and then every
  column of that row is written back with the fields of the body set.
- `AbortDeadlock`: the detector aborts one member of a cycle of waits. `Crash`: the
  process dies or loses its connection; nothing uncommitted survives.

Abstractions. Movements are kept as sums, since they are only appended and only
their sum is compared. The sale's rows themselves (number, change, line texts) are
left out: they commit with the movements. The two reads of the products that a
receiving or adjustment makes before its transaction are one read. Waiting in
`get_or_create` for another transaction's uncommitted insert is waiting for the
key's lock. The quick sale of an amount is left out: it touches no product and
no stock. Numbers are the code's: quantities in hundredths, amounts in rupiah,
half-up rounding per line; a limit on both columns is a constant.

### ShopLedger

A sale is decided and done in one step, on the rows of that step (`Sell`). The other requests are first checked
against the product rows (`Check`, which keeps them in `read`) and then done in one step (`Move`, `AdjustTo`, `Patch`, `Archive`)
on the stock of that step; `Drop` is a refusal, a failure or a crash. `StockTransactions` implements it (`StockIsSerial`, checked and
proved) with `product`, `stock` and `req` mapped to themselves and `read` to what such a handler has in `seen`: the effect of
every transaction appears in one step, at its commit. Three promises of `ShopLedger` are weaker than one would hope, because
the code keeps no more:

- A target on a product without a stock row may add up (finding *first_target*).
- Receivings and adjustments go by product rows of an earlier moment: the product may be archived, or no longer weighed, when the movement is recorded.
- A PATCH is not serial. It writes the row of an earlier moment back, so it undoes what another PATCH or a DELETE saved in between. What holds all the
  same is that every row stays consistent (`RowsStayWhole`), and that a sale is priced with the row there is at its commit.

### CashierAccess

| Variable | In the code |
|---|---|
| `cashier`, `session` | the two tables; `pin` stands for its salted hash, expiry is a flag |
| `pc`, `req` | what a client's one request in flight is at |
| `ticket` | the request's number; a row or token it creates is named by it, since ids and tokens never repeat |
| `seen`, `match`, `left` | the `Cashier` object in memory; the cashier found; the stores the login loop still has to search |
| `word`, `barred` | history only: what the owner's answered requests say of each cashier, and who was deactivated when a request came in |
| `overwritten` | history only: the cashiers a PATCH was saved over although another request had changed them since the PATCH read its row |
| `since`, `unchecked` | history only: the cashiers saved since a handler's last query, and the active ones whose PIN nobody compared with all the others there were when it was saved |
| `fitting` | history only: who has fitted a login ever since it came in |

Owner: `ReadCashier`/`RefuseCashier` (`_get_cashier`), `ValidatePin`/`RefusePin` (the
serializer's search for the PIN among active cashiers of the store), `InsertCashier`,
`SaveCashier` (whole row), `Deactivate` (`update_fields`: `active` only). Tills: `MatchStore` per
store with the code (first hit wins) or `RefuseLogin`, `IssueSession`, `Authenticate`/`RefuseToken`,
then `Act` (the view, a sale say) or `Logout`. `Expire` and `Crash` come at any time.
Nothing here is in a transaction except the end of a login, so every query is a
step of its own.

What the owner is told does not hold as such: a whole-row save undoes an answer (finding *two_tabs*), and a PIN need not
be unique (finding *reactivation*). The properties say how much of it the code keeps. An answer is undone, and a barred
cashier acts again, only where such a save happened (`OnlyOverlapUndoesAnswers`, `BarredNeverActs`). Two active cashiers of a store
share a PIN only if the last save of one of them compared nothing, or had compared before another save there (`SharedPinsWereUnchecked`).
A login is refused only if nobody fitted it all the while, and the one it finds is the only one of his store who fits, but for such PINs;
among stores with an equal code the first hit wins (`LoginFindsWhoFits`).

Abstractions. `display_name` and `last_login_at` are left out, so a rename is a PATCH with
no field of the model: it still saves the whole row it read. Store codes do not
change. Comparing the stored PINs one slow hash at a time happens on the result of one
query and is one step. A save and the answer to it are one step, as nothing can be
observed in between.

### WebTill

| Variable | In the code |
|---|---|
| `product`, `edits` | the server's product rows, and how often the owner changed one |
| `listed` | the `cashier-stock` query: the rows as last fetched |
| `cart`, `tendered`, `fast`, `amount` | `linesAtom`, `tenderedAtom`, `fastModeAtom`, `fastAmountAtom` |
| `press` | the payments confirmed, in order: the cart or amount and the cash of the body, and the total on the screen |
| `wire`, `booked` | what became of each press at the server (`sent`, `sold`, `refused`, `failed`), and the subtotal of its `Sale` |
| `waiting`, `completed` | `create.isPending`, and `completedSaleAtom`: the press waited for and the press shown |
| `basket`, `presented`, `lost` | history only: the customer's basket (a new one when the cart is reset), the presses whose dialog was shown, and those no longer waited for |

- The cart: `AddProduct`, `Increment`, `Decrement`, `TypeQty`, `RemoveLine`, `ToggleBundle`, as
  `useCartActions` has them, from the rows as last fetched.
- The panel: `SetTendered` (typed, notes, "Uang pas"), `SetAmount`, `Clear`, `ToggleFastMode`, `Pay`.
- The server: `Sell`, `RefuseSale` (serializer or `create_sale`), `FailSale`; `EditProduct`.
- Answers: `ShowSale`, `ShowError`; `LoseConnection` (the request fails at the till whatever it does at the
  server); `LeavePage`; `Reload`; `Refetch`. The dialog: `CloseDialog` ("Tutup", the cart stays)
  and `NewSale` ("Transaksi Baru").

Two things come from the library and not from the code in `src/`. TanStack Query does not call
the callbacks given to `mutate` once the component is unmounted, and a component mounted again is
not pending: that is `LeavePage`. A mutation begun offline is held back and sent later: that is a
press that stays `sent`. The dialog is modal, so no other action of the page is possible
while `completed # 0`; nothing blocks the cart while a payment is pending.

What no field of the till rules out is in the model and named in `TillSalesAreAccepted`: the cash field keeps what was typed, so cash is counted
in hundredths of a rupiah, and the serializer takes whole rupiah up to the column's limit only (`CashIsTaken`); no field limits the digits of a quantity, and
`DecimalField(max_digits=12)` does (`QtyIsTaken`, `MaxQty`).

Arithmetic. JavaScript computes with binary fractions. `RoundsDown` holds the pairs of quantity and price
whose product is a half but comes out below it, and `DriftsAt` the quantities to which 0.25 cannot be
added exactly; MCWebTill's values are those of IEEE double precision (0.29 × 50 = 14.499999999999998,
0.09 + 0.25 = 0.33999999999999997). A drifted quantity has more than two decimals, and
`DecimalField(decimal_places=2)` refuses it. Everything else is computed as the code does.

Abstractions. The search text is left out: any product of the list may be found. The dialog that creates a product from the till
is in `ProductForm`, the keys of the calculator, whose total is an input here, in `Calculator`, and a session that ends in
`ClientSessions`.

### Calculator

`expr` is `fastExprAtom`, a sequence of characters; `fast` is the mode; `negative` is history ("=" put down a
negative result). `PushDigits`, `PushOperator`, `Backspace`, `Clear`, `Equals`, `ToggleFastMode` are the keys.
`Tokenize`, `ToRpn`, `EvalRpn`, `EvalExpr` are `calc.ts` function by function, as folds.

A JavaScript number is a double. It is modelled by the fraction it stands for and by whether it is that fraction (`exact`): a quotient that is no binary
fraction is rounded, and whatever is computed from it is off by a few units in the last place. For amounts of a few digits that is far less than the distance to
the next half, unless the value is a half itself; so only there does it matter, and there `Math.round` may go either way (`Round`: 1÷98×49 is
0.49999999999999994, and the amount is 0). `EvalExpr` and `Amount` are therefore sets, and `Equals` puts one of their members down. The reset after a
sale empties the expression as `Clear` does.

### ClientSessions

| Variable | In the code |
|---|---|
| `issued`, `live` | the rows of `Token` and `CashierSession` ever made, and those still good |
| `onboarded` | `Profile.onboarded` |
| `storage`, `writer` | localStorage's two tokens; history: which tab wrote each last |
| `view` | per tab: page, token atoms, user and session atoms, the user's `onboarded` |
| `call` | per tab: the `me` of the owner and of the cashier, the owner's mutation, the cashier's (or an impersonation), the onboarding |

A click (`OwnerLogin`, `CashierLogin`, the logouts, `Onboard`, `Impersonate`), a page load and a link (`Load`, `Navigate`) send requests with the token that is
in localStorage then; `Grant`, `Identify`, `Revoke`, `CompleteOnboarding`, `Refuse` are the server; `Fail` is the network. The `Answer…` actions are the callbacks, and end in
`Render`: the redirects of AuthGate, CashierGate and the login pages, and the `me` that a gate sends. A `me` of the owner is cancelled by the
cleanup of AuthGate's effect when user or token change; that of the cashier is a query and is not.
Left out: Google's credential (one more way to the same token), and a second request of one kind from one tab.

### ProductForm

| Variable | In the code |
|---|---|
| `rows`, `storeGone` | the Product rows by barcode and `archived_at`; whether the store chosen for opening stock was deleted |
| `list` | the page's query, as last fetched |
| `form`, `lookup`, `doomed` | the dialog's product, barcode and name; the lookup on its way; the product of the delete dialog |
| `request` | the page's three mutations and a till's creation, from `sent` over `read` (edits) and `checked` to an answer; `seen` is the table the edit read its row in |
| `filling` and a row's `filling`, `lost` | history: which filling-in of the form made a row, and whether its answer was lost |

The page: `OpenCreate`, `OpenEdit`, `TypeBarcode`, `TypeName`, `CloseForm`, `AnswerLookup`, `Submit` (what zod lets through, `FormTakes`), `OpenRemove`,
`ConfirmRemove`, `Refetch`. The server: `ReadRow` (an edit's instance), `Validate` (`ProductSerializer` on the rows of a second query), `Save` (a whole-row save under the
partial unique index; a creation with its opening movement, or neither), `Remove`; `ArchiveElsewhere` and `DeleteStore` come from other devices.
`AnswerSuccess` empties or closes whatever the form shows by then. The other fields are a *shape*, chosen at `Submit` from ways to fill them in that
validation tells apart: among them an opening quantity of more digits than the serializer takes, which is refused, and a price beyond four bytes, which passes
the serializer and fails in the database. The form limits neither, so `FormsFit` names both.

### StoreDesk

| Variable | In the code |
|---|---|
| `log` | the store's movements and sales, and archivings, in commit order: these tables only grow |
| `tab`, `lines`, `dialog` | the tab shown, ReceivingTab's draft, AdjustmentDialog's item |
| `weighed` | what of these items is sold by weight, as it was when they were picked |
| `query` | per query of the page: the position in the log its data is from, whether it is stale, failed, being fetched |
| `post` | the receivings and adjustments sent, and what became of them |
| `draft`, and `kept`, `whole` of a query | history: which draft a post came from; whether a fetch was begun and landed while its tab was shown and had data |

`OpenTab` unmounts what was there and fetches what the new tab needs unless fresh; `ReadRows`, `Land`, `FailFetch` are a fetch (two reads for the
report); `AnswerSuccess` invalidates and empties the draft or closes the dialog, `AnswerError` is a toast. `RecordPost` and `RefusePost` are the
handlers as one step (`StockTransactions` has their inside), `Sell` of a `Basket`, `SellQuick`, `Archive` and `Reweigh` (an edit of `is_weighted`) everybody else. `FitsForm` and
`CanSubmit` are what the forms check, `IsTaken` what the serializers and columns do on the rows of that moment: quantities are in thousandths here, so that a third
decimal can be told apart, and no longer than `MaxQty` (twelve digits), which the forms do not check. The report is computed from the positions read
(`Gross`, `BestSellers`, `CsvTotal`).
TanStack Query's part is external: callbacks given to `mutate` die with the component, those of `useMutation` do not; an invalidation restarts an
active query that has data; data older than 30 s is fetched again on mount and focus.

### AdminPages

`rows` are the Store and Cashier rows, `sold` those with sales, `onboarded` the profile; per page `list`, `form`, `doomed`; `request` per mutation,
per onboarding tab and for one till. A handler is two steps: `ReadSave`, `ReadOnboarding`, `ReadRemove` are what it reads, checks and refuses;
`WriteSave`, `WriteOnboarding`, `WriteRemove` are its write with what the database checks (the unique code, foreign keys). `Cascade` and the
protected sales are Django's deletion, which collects first and deletes later. A key stands for a code or a PIN; a name may be blank.

## 3. The runs

All run in about eleven minutes, one after the other with two workers each. `tlc -config X.cfg MCModule` repeats one.

| Run (cfg) | Instance | Checks | Shows |
|---|---|---|---|
| `overlap` (Overlap) | 2 workers, 3 of 23 requests: sales, refused sales, receivings, adjustments, partial and refused edits; fair; 111 709 states | `TypeOK`, `LedgerMatchesStock`, `SaleRowsAreCurrent`, `RowsStayWhole`, `StockedTargetIsReached`, `StepsRunOut`, `StockIsSerial`, `EveryRequestEnds` | every interleaving, refusal, deadlock and crash keeps the ledger exact and products consistent, prices sales right, moves stock serially, and is answered, after a number of steps no one else adds to |
| `waiting` (Waiting) | 3 workers up to symmetry, 4 of 6 requests that meet on two products; 36 816 states | `NoDeadlockAmongSales`, `SomeoneGoesOn` | cycles of waits do occur; none consists of sales (and edits) alone; where there is none, somebody can go on |
| `cashiers` (Cashiers) | 2 owner tabs up to symmetry, 1 till, 4 of 19 requests, 2 stores of one code, 2 PINs; 2 741 064 states | `TypeOK`, `OnlyOverlapUndoesAnswers`, `SharedPinsWereUnchecked`, `BarredNeverActs`, `LoginFindsWhoFits` | what the owner was answered is undone by an overlapping save only, PINs are shared only where nothing compared them, and logins find somebody they fit |
| `till` (Till) | 2 products, 3 payments, 1 edit, 6 taps; 4 864 443 states | `CartsAreCoherent`, `TillSalesAreAccepted`, `TotalsAgree`, `DialogIsLastPayment`, `AnsweredBasketSoldOnce` | the till sends what the server takes and books what was shown, but for changed products, JavaScript's arithmetic and what no field limits; with lost and late answers, pages left and reloads, the dialog is of the last payment, and only a given-up answer leads to a second sale |
| `calculator` (Calculator) | 3 number keys, 4 operators, 6 characters; 881 280 states | `AmountIsMeant`, `TypedIsExpression` | the amount is what the expression means, but for a half that a double misses, and the keys build expressions, but for a negative result |
| `sessions` (Sessions) | 2 tabs, 2 owners, 2 cashiers, 3 tokens, 4 moves; fair; 476 656 states | `TypeOK`, `TillNeverSendsBare`, `OwnerActsAsShown`, `TillActsAsShown`, `GateIsAnswered`, `CashierGateSettles` | a tab acts for whom it shows but for the named late answers; the till's gate asks, and settles |
| `product_form` (ProductForm) | 2 barcodes, 3 rows, 9 shapes, 7 moves; 6 684 748 states | `BarcodesDistinct`, `CreatedOnce`, `AutofillFits`, `FormsFit` | no barcode twice, no product twice but after a lost answer, names where they belong, no failure but for the named reasons |
| `store_desk` (StoreDesk) | 2 products, 2 entries of the log, 2 posts, 4 moves; 8 670 895 states | `ReadsOwnWrites`, `DraftReceivedOnce`, `FormsFit`, `ReportsAgree` | the owner sees what was saved, records a draft once but after a lost answer, is refused for the named reasons only, and the report adds up |
| `admin_pages` (AdminPages) | 2 codes, 2 PINs up to symmetry, 3 rows, 5 moves; 561 953 states | `TablesAreSound`, `ReturnsOnlyByOverlap`, `ClosesWhenSaved`, `FormsFit` | keys and references hold, rows return by overlap only, forms close on their own success |
| `first_target` (FirstTarget) | 2 workers, 2 targets on a product never moved | `TargetIsReached` | violated: see section 5 |
| `two_tabs` (TwoTabs) | 2 owner tabs, a rename and a deactivation | `OwnersWordHolds` | violated: see section 5 |
| `reactivation` (Reactivation) | 1 owner tab: deactivate, create, reactivate | `ActivePinsDistinct` | violated: see section 5 |

The type invariants of `WebTill`, `StoreDesk`, `ProductForm` and `AdminPages` are in no run: each module's `TypeCorrect` proves its own for every instance.

**Why these bounds suffice to be interesting.** A stock anomaly takes two
transactions, and one more request to see its result or to start from it: hence
2 workers and 3 requests. The catalogue has a product with a bundle and stock, a
weighed one with no stock row, and one of another tenant; the requests list the products in
both orders, sell a bundle and a piece of one product in one sale, and hit
each refusal: too little cash, half a piece, a bundle of a weighed product, a foreign
product, a duplicate line, an amount or a quantity that does not fit. The edits of one product set its
price, its name, its bundle's price, and its weighing with no bundle, so any two overwrite each other's fields and some pairs would
contradict each other; three more are refused. `MaxQty` = 10.00
is reached by the receiving of 9 pieces. Longer waits need a third worker: `waiting` has it,
with fewer kinds of requests. For cashiers, "deactivate, create with the PIN, reactivate, log in" is
four requests, from either of two tabs or both at once; so are two creations with one PIN and a login during either. The two stores have one code
and different tenants, and a second code has no store; the tokens, PINs and codes are all that can be told apart by the code.

For the till, what goes wrong inside a cart takes a few taps on at most two lines of one product and one
payment, while an owner's edit falls anywhere in between: a product sold by the piece with a bundle
and a weighed one, `MaxTaps` 6 operations of the cashier (payments included), `MaxEdits` 1 of four
kinds (another price, no bundle any more, archived, another price per kilo). `MaxLineQty` 2.00 caps what "+" makes; 6.50 can be typed and is more than `MaxQty` 5.99, which a
bundle of three exceeds from two on. Cash is 20 rupiah, half a rupiah more, or more than `MaxMoney`. What goes wrong between payments
takes a first one, a second one and a late answer, hence 3 presses. In the calculator six characters hold three operators between four numbers, so every pair and triple of
precedences, a result put back by "=" with more typed after it, and halves behind a quotient that is no binary fraction (3÷36×6).

In the other client models `MaxMoves` counts what people do (clicks, page loads, edits from elsewhere) and answers are free: they may come late, in
any order, or never. `sessions`: a wrong name takes a login, another login or an impersonation, and one late answer; a third token tells a new
session from both opening ones. `product_form`: creating twice takes open, type, submit, submit again, with a row edited or archived in between;
three rows are the opening one and two with one filling; the shapes differ from a plain product in one thing each, a quantity or a price too long among them. `store_desk`: a draft sent twice takes opening the tab, a line and two presses; two
entries of the log put one write, one sale or one edit before and one after any read; the typed weight 1.005 kg has a digit too many, 2.000 is beyond `MaxQty` 1.990, and an
edit may make the weighed product one that is sold by the piece, or the other way round, after it was picked. `admin_pages`: a row that returns takes
one form with a save and one dialog with a removal, five clicks in all; the onboarding has two tabs.

`MaxRequests` bounds every behaviour of `StockTransactions` and `CashierAccess`; `Quiet` is the only action then, so TLC's
deadlock check stays on and means that no handler is ever stuck before it. The client models stop when the moves are used up and nothing is on its way:
their runs say `CHECK_DEADLOCK FALSE`.

**Assumptions of single runs.** `Waiting` has a PATCH that leaves the name as it is: the lock order of
sales is the name's, and a rename between two sales' reads can reverse it. Its catalogue also has different names (`NamesDistinct`, which
TLC evaluates in every run of this model): PostgreSQL returns products of equal names in no particular order. Both conditions are needed: with a
PATCH that renames, or with two equal names, TLC finds two sales that wait for each other. Neither is enforced by the code, and nothing in the repository
claims the order; the database's detector ends such a wait and one of the sales fails.

**Fairness.** In `overlap`, `FairSpec` asks weak fairness of `Step(w)` of each worker and of nothing else:
a thread that can go on does (gunicorn's threads do not starve each other), a lock
that is free is granted to a waiter (PostgreSQL queues them), and the detector runs
(`deadlock_timeout`). Clients need not send anything and nothing needs to crash. That a worker
may be overtaken while a lock is taken again and again is excluded by the bound on requests, not by
fairness; PostgreSQL's queue does it in reality. In `sessions`, it asks it of the server's handling of `cashier/me/` and of the
callback of its answer: a fetch settles, if only by failing, and its promise runs. Owners' `me`, logins and clicks need not happen.

## 4. The proofs

TLC's instances are small; the theorems hold for any number of workers, stores, products, cashiers,
tills and requests. They rest on the named assumptions in the modules only:
`PricingAssumption`, `DataAssumption` (requests have the types their serializers leave, opening rows are
typed, and the opening products whole), `BoundsAssumption`, `AccessAssumption`, `TillAssumption` (every version of a product is a row, and a weighed one
has no bundle, as the product serializer demands), `FormAssumption` (distinct opening barcodes),
`DeskAssumption`, `PagesAssumption` and `SessionsAssumption` (what sets the constants are); TLC evaluates them in every run. A condition that a single theorem needs is in its statement: `NamesDistinct`, `NoRename`, `OpeningPinsDistinct`.

| Theorem | Statement | Argument |
|---|---|---|
| `StockTransactions_proofs!TypeCorrect` | `Spec => []TypeOK` | `TypeOK` is inductive because it also says which stage a request can be at and that the line index is inside the request |
| `LedgerCorrect` | `Spec => [](LedgerMatchesStock /\ WritesAreLocked)` | `LedgerInv`, below |
| `SaleRowsCorrect` | `Spec => []SaleRowsAreCurrent` | `SaleInv`, below |
| `TargetCorrect` | `Spec => StockedTargetIsReached` | `TargetInv`, below |
| `NoDeadlockCorrect` | `NamesDistinct` implies `Spec /\ NoRename => []NoDeadlockAmongSales` | `OrderInv`, below |
| `WholeCorrect` | `Spec => []RowsStayWhole` | `ColumnsInv`, below |
| `SerialCorrect` | `Spec => StockIsSerial`, the refinement of `ShopLedger` | `SerialInv`, below |
| `SomeoneGoesOnCorrect` | `Spec => []SomeoneGoesOn` | a least set of waiters, below |
| `StepsRunOutCorrect` | `Spec => StepsRunOut` | `Remaining`, below |
| `CashierAccess_proofs!TypeCorrect` | `Spec => []TypeOK` | rows are never deleted, so whatever a session or a handler found is still there |
| `OwnersWordCorrect` | `Spec => []OnlyOverlapUndoesAnswers` | `WordInv`, below |
| `BarredCorrect` | `Spec => BarredNeverActs` | the same |
| `PinsCorrect` | distinct opening PINs imply `Spec => []SharedPinsWereUnchecked` | `PinsInv`, below |
| `LoginCorrect` | the same implies `Spec => LoginFindsWhoFits` | whoever has fitted since a login came in works in a store that is still to be searched (`SearchesOn`), and by `PinsCorrect` a store has one hit unless a PIN was saved unchecked |
| `WebTill_proofs!CartsCorrect` | `Spec => []CartsAreCoherent` | `CartInv`, below |
| `AcceptedCorrect` | `Spec => TillSalesAreAccepted` | the same, and equal sums |
| `DialogCorrect` | `Spec => []DialogIsLastPayment` | `PaymentInv`, below |
| `SoldOnceCorrect` | `Spec => []AnsweredBasketSoldOnce` | the same |
| `WebTill_proofs!TypeCorrect` | `Spec => []TypeOK` | `AmountInv`, below |
| `TotalsCorrect` | `Spec => TotalsAgree` | the same, and two totals compared line by line |
| `ProductForm_proofs!TypeCorrect` | `Spec => []TypeOK` | `Typed`, below |
| `BarcodesCorrect` | `Spec => []BarcodesDistinct` | every save passes the index, every other change of a row only archives it |
| `AutofillCorrect` | `Spec => AutofillFits` | `Looking`, below |
| `CreatedOnceCorrect` | `Spec => []CreatedOnce` | `OnceInv`, below |
| `FormsFitCorrect` | `Spec => FormsFit` | a save carries a shape that zod let through until it ends (`SentInv`); serializer and columns refuse such a one for the named reasons only |
| `StoreDesk_proofs!DraftCorrect` | `Spec => []DraftReceivedOnce` | `DraftInv`, below |
| `FreshCorrect` | `Spec => []ReadsOwnWrites` | a fetch of a query that shows data is restarted by an invalidation, below |
| `StoreDesk_proofs!TypeCorrect` | `Spec => []TypeOK` | `DeskInv`, below |
| `FormsCorrect` | `Spec => []FormsFit` | the same |
| `ReportCorrect` | `Spec => []ReportsAgree` | the same, and exchanging two sums, below |
| `AdminPages_proofs!TypeCorrect` | `Spec => []TypeOK` | `Typed`, below |
| `TablesCorrect` | `Spec => []TablesAreSound` | inductive with `Typed` |
| `ReturnsCorrect` | `Spec => ReturnsOnlyByOverlap` | only a save restores a row, and then the one it read |
| `ClosesCorrect` | `Spec => ClosesWhenSaved` | `Waiting`, below |
| `FormsFitCorrect` | `Spec => FormsFit` | what a request carries is what the form lets through |
| `ClientSessions_proofs!TypeCorrect` | `Spec => []TypeOK` | `Typed`, below |
| `OwnerCorrect` | `Spec => OwnerActsAsShown` | `MeFits`, below |
| `TillCorrect` | `Spec => TillActsAsShown` | `Typed` |
| `BareCorrect` | `Spec => []TillNeverSendsBare` | `Backed`, below |
| `GateCorrect` | `Spec => GateIsAnswered` | `GateInv`, below |

- **LedgerInv** = `TypeOK /\ WritesAreLocked /\ LedgerMatchesStock`. That cache and sum agree is not
  inductive: a commit overwrites the cache with a number computed earlier. What makes
  the number right is that since it was computed the transaction has held the row's
  lock, and that it is the committed quantity plus exactly the transaction's own movements
  (`WritesAreLocked`). Two workers cannot hold one lock, so a commit of one leaves
  the other's uncommitted rows untouched.
- **SaleInv** = `TypeOK /\ SaleRowsAreLocked`. A sale's prices are current at the commit because each
  product is, from the locking SELECT on, either still to be locked, or locked and read, or seen
  to be unavailable (and then the sale is refused); and no one updates a product another
  worker has locked. The lemma `SaleUndisturbed` says the second half once for all actions of
  others.
- **TargetInv** adds to `LedgerInv` that a row once there stays, and that an adjustment of a product with a row holds the row's lock from
  its read on: until it moves, it has written nothing and the quantity it read is the committed one; afterwards the row it
  is about to commit is the target. It has one line, so no later line of its own moves the row away.
- **OrderInv** says that a sale at its locking SELECT waits only for products whose names come after those of all it has locked (`LocksInOrder`, which needs `NamesDistinct`), and that names are still the
  catalogue's (`NamesFixed`, which needs `NoRename`). `HoldInv` says who holds which lock at which stage: a sale past the SELECT has locked its products, and whoever holds a
  `StoreStock` row of one of them would, as a sale, have to hold the product too; so it waits for no sale. A sale at its SELECT that waits for another one has a product to lock whose name comes before all the other
  still has to lock (`WaitsAhead`); hence those that are further down the names than one member of a circle are a smaller circle, and there is none without a smaller one.
- **SerialInv** says what a transaction on its way has done: the row it has written of a product and the movements of it are what the lines done so far add up to
  (`Written`), whatever the number of lines and however often a product is among them; the checks that let it go on still hold (`Decided`); and the quantity a target was computed
  from is still there, unless there was no row (`BaseStands`). With `SaleInv` the rows a sale used are the current ones, so its commit is `Sell` on the rows of that moment; `Move`, `AdjustTo` and `Patch` go by what `Check` read, which is what the handler still has in
  `seen`; and every other step is an `Accept`, a `Check`, a stutter or a `Drop`.
- **ColumnsInv** says that every row, in the table and in each handler's memory, is of the tenant it always had and whole, and that a PATCH about to save is valid on the very row it writes back (`EditsKeepColumns`).
  The last part is why lost updates cannot tear a row apart; the first is also what `OrderInv` needs: the products of a sale are of one tenant, whose names are distinct.
- **SomeoneGoesOn** needs that locks belong to requests under way (`HoldInv`) and that only finitely many are: every request that is counted was accepted, whatever the number of workers
  (`FiniteInv`). It speaks of any set of requests that wait for nobody outside it, so no group is stuck while others go on. If nobody in such a set can go on, each in it waits for another one in it; of the
  sets within it that are stuck in the same way a least one is a circle (`StuckHasCycle`), and all in it are `InDeadlock`.
- **StepsRunOut** counts the steps a handler can still take (`Remaining`: a lock, a movement and its foreign key for each line ahead, and the stages around these loops). Every step takes some away, a refusal, an abort and
  an answer take all, and only a new request brings new ones.
  With `SomeoneGoesOn` and `MaxRequests` this is the argument for `EveryRequestEnds` but for the fairness itself, which the prover cannot reason about.
- **WordInv** is `OnlyOverlapUndoesAnswers` with its reasons. A save over a row that is unchanged since it was read makes the cashier what was asked of the last answer; one over a changed row puts it among the
  `overwritten`. Whoever is barred exists and was deactivated by the last answer about him, so he is inactive or `overwritten`; and a view never runs as a barred cashier unless he is
  `overwritten`, because authentication looked at the row after the request came in. No condition on how many tabs the owner has, or what they send, is needed.
- **PinsInv** adds that what each handler validated (no other active cashier of the store has this PIN)
  still holds when it writes, but for those saved since (`since`): these are what makes the save an `unchecked` one. So of two who share a PIN the one saved later had either compared the other's, and refused, or is
  `unchecked`. Nothing in the database would stop these (two creations with one PIN, each of which passed before the other was inserted), nor a reactivation without a PIN.
- **CartInv** says that the cart and every paid cart are good, and that each press has the cash for what
  its cart showed. Each change of the cart is an instance of one of three lemmas: a line takes another line's
  place, is added, is removed. For `AcceptedCorrect` the two subtotals are shown to be folds of the
  same function: current and exact lines have the same total on both sides.
- **AmountInv** adds the types of the amounts and that the total of a press is that of its cart. For `TotalsCorrect` each line's charge is between the line's total on the screen and that plus one if
  JavaScript rounds it down: `TotalOrder`, `TotalOfSums` and `TotalOfAtMostOnes` turn this into the bound on the sums.
- **PaymentInv** says that the till waits for or shows its last press only, and that every earlier one had been shown,
  given up, refused or failed when it was made. Steps are sorted into kinds first (`Kinds`), since
  most of them leave all of this alone.
- **Typed** adds to `TypeOK` what a request carries at each status: a checked one has read a table no longer than today's, with the same
  fillings, and the row it saves is in both.
- **Looking** says that a lookup on its way is for the barcode in the open create form; every way to change one of these goes
  through `Fill`, which aborts or restarts the lookup.
- **OnceInv**. That of two rows of one filling the first is lost (`Once`) is not inductive: a save writes back the whole row it read, the mark of the lost answer
  included. Four more parts are needed. Whatever the filling of a creation on its way has made before is lost (`SentOnce`); what the filling of the open form has
  made is lost, or is the creation that was done and not yet answered (`OpenOnce`); an edit on its way is of a row of an earlier filling than the open form's
  (`EditsEarlier`); and where an edit has read its row before the mark, no later row has that filling and none will (`EditsUnmarked`): the page
  has one form, so an edit cannot begin between two attempts of one filling.
- **DraftInv** (`StoreDesk`) says that the receivings of the draft at hand are watched, that nothing typed stands for a later draft than the counter's, and that
  one of them that is over has failed as long as the draft has its lines. Every change that empties the draft makes the next one.
- **DeskInv** types what is in the log: every entry is an event whose revenue per product adds up to its total, if it has products at all (`LogInv`). Positions a query has read are positions in the log (`CacheInv`),
  lines and dialog belong to the tab, and what counts as weighed in them was weighed at some position (`PageInv`); what was posted is what the form let through, and if it was refused, then for a reason the form does not check, at the position where it was refused (`PostsInv`); that the log only
  grows makes such a reason last. For `ReportCorrect` the export adds up products and the summary adds up sales, which is one table added up in two ways (`TotalSwap`); that
  there are best sellers (the CHOOSE of `BestSellers` finds a set) is an induction over how many (`BestExist`).
- **Totals.** `Total` is a fold over a set in an order that is not known. `Totals_proofs` shows that any element may be taken out first (`TotalSplit`), and from there what sums, bounds,
  restrictions and exchanged orders do. Since the provers cannot instantiate an induction theorem with an operator, the induction is over a set of
  subsets: if some subset were not good there would be one with a least number of elements (`LeastNumber`, `SubsetInduction`).
- **Fresh data.** A query that is fetched whole while it shows data is one an invalidation restarts. So a whole fetch that has read, and data that is
  fresh and whole, are no older than any post the page was told of: the answer of a post invalidates before anything else is done with it.
- **Typed** (`AdminPages`) adds that a row's page never changes, that stores are never inactive, and that what a request has read is an earlier
  table: the same rows, fewer of them. **Waiting** adds that a form which waits for an answer and was not left is open with the row it has sent;
  the only way to another row is to close it first.
- **Typed** (`ClientSessions`) adds what is known of a request in each slot: a token that was granted is the account's that logged in, one that was
  identified names its account, an onboarding is an owner's; and a stored token is of its role. With that every answer a tab believes shows the holder of the
  token it brings. `me()` alone is about a token sent earlier: **MeFits** says that AuthGate's, as long as it may be believed and no other tab has written,
  was sent with the token stored now, because a login or a logout of this tab cancels it. Nothing cancels the till's, nor the onboarding: which are the exceptions
  the properties name. **Backed** says that a tab whose cashier's atom is set has not cleared the store itself.
- **GateInv** says that a tab on the till's page with no cashier to show has `cashier-me` under way. Every action that puts it there renders, and rendering asks unless it was asked already (`RenderAsks`); the answer
  either shows the cashier the token names, which is somebody, or clears the atom, and then the tab is sent to the door (`CashierMeAsks`). This is the part of `CashierGateSettles` that does not rest on fairness.

The invariants of the proofs about `StockTransactions`, `CashierAccess` and `StoreDesk` were found with TLC on the instances of `overlap`, `waiting`, `cashiers` and `store_desk`. Every invariant and every action property of a
passing run is stated by a theorem, with these exceptions, which are only model-checked:

- `AmountIsMeant` and `TypedIsExpression` of the calculator. `Meaning` is recursive by its nature, and no module that declares such an operator can be proved about. `TypedIsExpression` also rests on
  the digits of a number (`Shown`), which are as many as the number needs only below 10^10, so it holds for bounded expressions and not for every `MaxLen`.
- `EveryRequestEnds` and `CashierGateSettles`: liveness under fairness is out of the prover's reach. What they rest on besides fairness is proved (`SomeoneGoesOn` and `StepsRunOut`; `GateIsAnswered`).

The three properties of the violation runs are false, and what is true in their place is proved (`StockedTargetIsReached`, `OnlyOverlapUndoesAnswers`, `SharedPinsWereUnchecked`).

## 5. Where code and words differ

1. **first_target** (`api/v1/stock_api.py:144`). `select_for_update().first()` locks nothing when the product has no
   stock row yet. Two requests with `target_qty` 1 both compute delta 1, `record_movement`
   adds both, and the stock is 2. Once the row exists the lock works (`StockedTargetIsReached`).
2. **two_tabs** (`api/v1/serializers.py:136`). `serializer.save()` writes all columns of the row the PATCH read. A rename that
   overlaps a deactivation makes the cashier active again after both were answered.
3. **reactivation** (`api/v1/serializers.py:103`). The cashiers' page says "PIN unik dalam satu toko" (`cashiers-tab.tsx:81`), but PINs are compared only
   when the body has one, and the page reactivates with `{active: true}` alone (`cashiers-tab.tsx:56-58`). Deactivate, give the PIN to another cashier, reactivate, and two
   active cashiers of the store share it. Two creations that overlap do the same.

Seen while modelling, where no line of the repository says otherwise or a checked property names the exception:

- *Server.* Two PATCHes of a product that overlap lose an update even when they send different fields, and one that overlaps a DELETE brings the product back
  (`serializers.py:263-270`). Two tenants may use one store code; with equal PINs one of the cashiers always gets the other's session. `OutOfStockError` is
  documented as raised "when a sale would push stock below zero" (`stock/services.py:9`) and raised nowhere; a test wants sales below zero, so the docstring is
  out of date. `StoreDetailView.delete` lets the protected or violated foreign key through as a 500, and so is a price beyond 32 bits, which the forms of the catalogue and the till let through. An edit of a store that overlaps its deletion inserts it again,
  without its cashiers. Two onboardings with different codes make two stores.
- *Till.* The cash field lets a fraction of a rupiah through, which the server refuses; so it does a quantity of more than twelve digits, a barcode scanned into the field, say. When an answer is lost, or the page left before it comes, paying again sells the basket a second time: neither the client nor `create_sale`
  can recognise the second attempt. "+" adds 0.25 to a weight without rounding: from 0.09 it makes 0.33999999999999997, which the server refuses. For a
  half that JavaScript computes low, "Uang pas" fills in one rupiah less than the server asks for. "Transaksi Baru" also clears what was added while the payment was
  pending. "=" on a negative result leaves a leading "-", on which the amount is 0. 1÷98×49 is computed below a half, and the amount is 0 instead of 1.
- *Sessions.* A failed logout of the owner clears localStorage but not the atoms; a `me` that fails at load leaves the page blank; the query cache
  survives a logout; a late failure of an earlier session's `cashier/me/` drops the session that has begun since.
- *Product form.* An opening quantity of more than twelve digits passes zod and is refused. A name of spaces passes zod and is refused. Ticking "weighed" after "bundle" leaves an error in a field that is no longer shown. A name filled in
  for one barcode stays when the barcode is changed. The success of a creation left with Esc empties the edit form opened since. On the till's
  dialog the lookup overwrites a typed name, and a late success closes another barcode's dialog and adds its own product.
- *Store page.* A first fetch, or one left running while another tab was shown, is not restarted by an invalidation, and may land as
  fresh without the write. A receiving's success clears the lines added while it was pending; a late adjustment closes another item's dialog. Weights with three decimals are sent
  and refused, and so are quantities of more than twelve digits. A product that became one sold by the piece after it was picked is refused if its quantity is not whole. The movements table rounds weighed deltas to whole numbers (`movements-tab.tsx:221`). A quick sale is in the gross revenue and in neither the best sellers nor the
  export; "Item Terjual" counts a bundle as one.
- *Stores and cashiers.* A creation left with Esc closes, when it succeeds, whichever form is open then. A store name of spaces passes zod and is refused.

## 6. Not modelled, and the plan

- *Mobile till, mobile sessions and routing.* A second client of the same endpoints in Dart, of which the repository has no tests and hardly a document
  to hold it to. Read beside `WebTill` it differs in places: `toggleBundle` (`cart_controller.dart:82`) does not look for a line of the same kind and can duplicate
  one, "+" adds 0.25, stock is checked before paying, the answer clears whatever the cart is by then. One process keeps its own tokens, so
  nothing of what `ClientSessions` is about happens. What it may send is covered by the server's modules.
- *Barcode catalogue and back office.* One lookup table of single-row forms and an idempotent import; no state of the shop depends on it.
  Its answer to the product form is an input there.
- *Payment gateway stub.* No state: a client nobody calls and a webhook that does nothing.
- *Deployment and demo data.* They fix the environment of section 1.
- *Accounts.* Registration with its unique e-mail and the check of a Google credential end in the token of `ClientSessions`; the loser of a race on the
  e-mail gets the database's error and changes nothing.
- Search endpoints and today's list only read. Wording, layout, number and CSV formats are left out.

The models are tied where one refines another (`StockTransactions` and `ShopLedger`) and by the operators they share (`SalePricing`, `ShopData`). `WebTill` has no stock and `StoreDesk` counts weights in
thousandths, because that is what each is about; so the one-step sale of the till and the one-step posts of the store page are `ShopLedger`'s by those operators and by reading, not by a theorem.
