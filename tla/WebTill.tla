------------------------------ MODULE WebTill ------------------------------
(***************************************************************************)
(* The till of the web client: the atoms of state.ts, the cart and the     *)
(* checkout of pos-hooks.ts, and its requests to create_sale over a        *)
(* connection that may fail at any time.                                   *)
(*                                                                         *)
(* Each payment the cashier confirms is a press, numbered in order.  The   *)
(* server handles a press in one step, on the product rows of that moment: *)
(* that is what StockTransactions implements (ShopLedger).  The till shows *)
(* a dialog for the sale it was answered; while the dialog is open it is   *)
(* modal, and nothing else on the page can be used.                        *)
(*                                                                         *)
(* A quantity is a JavaScript number.  It is counted in hundredths, with a *)
(* flag for one that drifted: 0.09 + 0.25 is 0.33999999999999997.  The     *)
(* cash is counted in hundredths of a rupiah, because its field keeps a    *)
(* fraction that is typed; prices and totals are whole rupiah.             *)
(***************************************************************************)
EXTENDS SalePricing

CONSTANTS
    Shop,        \* the store the cashier works in
    Catalogue,   \* the product rows at the start
    Version,     \* Version[p]: the rows the owner may make of product p
    DriftsAt,    \* hundredths x for which x/100 + 0.25 is not the nearest number
    RoundsDown,  \* <<qty, price>> whose product is a half but computed below it
    Typed,       \* quantities the cashier may type
    Cash,        \* amounts of cash the cashier may enter, in hundredths
    Amounts,     \* totals the calculator of the fast mode may show
    MaxQty,      \* largest value of a DecimalField(12, 2), in hundredths
    MaxPresses, MaxEdits, MaxTaps, MaxLineQty   \* bounds of the model

ASSUME TillAssumption ==
    /\ Shop \in Store
    /\ Version \in [Product -> SUBSET Row]
    /\ Catalogue \in [Product -> Row]
    /\ \A p \in Product : Catalogue[p] \in Version[p]
    /\ \A p \in Product : \A row \in Version[p] : row.weighted => row.bundleQty = 0
    /\ RoundsDown \subseteq {pair \in Nat \X Nat : (pair[1] * pair[2]) % 100 = 50}
    /\ Typed \subseteq Int /\ Cash \subseteq Int /\ Amounts \subseteq Int
    /\ MaxQty \in Nat
    /\ MaxPresses \in Nat /\ MaxEdits \in Nat /\ MaxTaps \in Nat /\ MaxLineQty \in Nat

Press == 1..MaxPresses

\* CartLine: price is unit_price; single, bundleQty, bundlePrice and weighted are
\* copied from the stock list when the line is added.
CartLine == [product : Product, qty : Nat \ {0}, drifted : BOOLEAN, bundle : BOOLEAN,
             price : Nat, single : Nat, bundleQty : Nat, bundlePrice : Nat,
             weighted : BOOLEAN]

VARIABLES
    product, edits,           \* the product rows of the server; the owner's edits
    wire,                     \* what became of each press: none, sent, sold, refused, failed
    booked,                   \* the totals of the sales the server has committed
    listed,                   \* the cashier-stock query: rows as last fetched
    cart, tendered,           \* linesAtom, tenderedAtom
    fast, amount,             \* fastModeAtom, fastAmountAtom
    waiting,                  \* create.isPending: the press being waited for, or 0
    completed,                \* completedSaleAtom: the press whose sale is shown, or 0
    press,                    \* the presses: body sent, and what was shown
    basket, presented,        \* history: the customer's basket, the sales shown
    lost, taps                \* history: presses no longer waited for, taps

server  == <<product, edits, wire, booked>>
screen  == <<listed, cart, tendered, fast, amount>>
history == <<basket, presented, lost>>
vars    == <<server, screen, waiting, completed, press, history, taps>>

-----------------------------------------------------------------------------
KeyOf(l) == <<l.product, l.bundle>>
InCart(p, bundle) == \E i \in DOMAIN cart : KeyOf(cart[i]) = <<p, bundle>>

HasBundle(row) == row.bundleQty # 0

\* stepFor, and the least quantity of a line.
StepFor(l) == IF l.weighted THEN 25 ELSE 100
Least(l) == IF l.weighted THEN 1 ELSE 100

AtLeast(q, least) == IF q < least THEN least ELSE q

\* Mutant: the total of a line is cut off.
CutTotal(l) == (l.qty * l.price) \div 100

\* Math.round(l.qty * l.unit_price)
ShownTotal(l) ==
    IF <<l.qty, l.price>> \in RoundsDown
    THEN (l.qty * l.price) \div 100
    ELSE (l.qty * l.price + 50) \div 100

LineSubtotal(lines) == Total([i \in DOMAIN lines |-> ShownTotal(lines[i])])

ShownSubtotal == IF fast THEN amount ELSE LineSubtotal(cart)

\* The body of a press, as create_sale gets it: the cash is whole by then.
Body(n) ==
    [store |-> Shop, tendered |-> press[n].tendered \div 100,
     lines |-> [i \in DOMAIN press[n].cart |->
                   [product |-> press[n].cart[i].product, qty |-> press[n].cart[i].qty,
                    bundle |-> press[n].cart[i].bundle]]]

-----------------------------------------------------------------------------
Init ==
    /\ product = Catalogue
    /\ edits = 0
    /\ wire = [n \in Press |-> "none"]
    /\ booked = [n \in Press |-> 0]
    /\ listed = Catalogue
    /\ cart = << >>
    /\ tendered = 0
    /\ fast = FALSE
    /\ amount = 0
    /\ waiting = 0
    /\ completed = 0
    /\ press = << >>
    /\ basket = 1
    /\ presented = {}
    /\ lost = {}
    /\ taps = 0

\* The cashier uses the page, which no dialog covers.
Tap ==
    /\ completed = 0
    /\ taps < MaxTaps
    /\ taps' = taps + 1

ChangeCart(lines) ==
    /\ cart' = lines
    /\ UNCHANGED <<server, listed, tendered, fast, amount, waiting, completed, press, history>>

-----------------------------------------------------------------------------
(* The cart                                                                *)

\* A product of the search list: one line of it, single or bundle, is missing.
IsCandidate(p) ==
    /\ Available(listed[p], Shop)
    /\ ~InCart(p, FALSE) \/ (HasBundle(listed[p]) /\ ~InCart(p, TRUE))

NewLine(p, bundle) ==
    LET row == listed[p]
    IN  [product |-> p, qty |-> 100, drifted |-> FALSE, bundle |-> bundle,
         price |-> UnitPrice([bundle |-> bundle], row), single |-> row.price,
         bundleQty |-> row.bundleQty, bundlePrice |-> row.bundlePrice,
         weighted |-> row.weighted]

\* addProduct: from a button of the list, or by Enter in the search field.
AddProduct(p, bundle) ==
    /\ Tap
    /\ ~fast
    /\ IsCandidate(p)
    /\ bundle => HasBundle(listed[p]) /\ ~InCart(p, TRUE)
    /\ IF InCart(p, bundle)
       THEN \E i \in DOMAIN cart :
               /\ KeyOf(cart[i]) = <<p, bundle>>
               /\ cart[i].qty + 100 <= MaxLineQty
               /\ ChangeCart([cart EXCEPT ![i].qty = @ + 100])
       ELSE ChangeCart(Append(cart, NewLine(p, bundle)))

\* incrementInCart: the sum is not rounded, so it may drift.
Increment(i) ==
    /\ Tap
    /\ i \in DOMAIN cart
    /\ cart[i].qty + StepFor(cart[i]) <= MaxLineQty
    /\ \E drifted \in IF cart[i].drifted THEN BOOLEAN
                      ELSE {cart[i].weighted /\ cart[i].qty \in DriftsAt} :
           ChangeCart([cart EXCEPT ![i].qty = @ + StepFor(cart[i]), ![i].drifted = drifted])

\* decrementQty: the difference of a weighed line is rounded to hundredths.
Decrement(i) ==
    /\ Tap
    /\ i \in DOMAIN cart
    /\ ChangeCart([cart EXCEPT ![i].qty = AtLeast(@ - StepFor(cart[i]), Least(cart[i])),
                               ![i].drifted = FALSE])

\* Mutant: a typed quantity is rounded to hundredths whatever the product.
TypedAsWeighed(l, q) == AtLeast(q, Least(l))

\* updateQty: hundredths of a weighed product, whole pieces of the others.
TypedQty(l, q) == AtLeast(IF l.weighted THEN q ELSE q - (q % 100), Least(l))

TypeQty(i, q) ==
    /\ Tap
    /\ i \in DOMAIN cart
    /\ ChangeCart([cart EXCEPT ![i].qty = TypedQty(cart[i], q), ![i].drifted = FALSE])

RemoveLine(i) ==
    /\ Tap
    /\ i \in DOMAIN cart
    /\ ChangeCart(SubSeq(cart, 1, i - 1) \o SubSeq(cart, i + 1, Len(cart)))

\* Mutant: toggleBundle does not look for the line of the other kind.
Toggled(i) == HasBundle(cart[i])

\* toggleBundle: refused while there is a line of the other kind.
MayToggle(i) == HasBundle(cart[i]) /\ ~InCart(cart[i].product, ~cart[i].bundle)

ToggleBundle(i) ==
    /\ Tap
    /\ i \in DOMAIN cart
    /\ MayToggle(i)
    /\ ChangeCart([cart EXCEPT ![i].bundle = ~@,
                               ![i].price = IF cart[i].bundle THEN cart[i].single
                                            ELSE cart[i].bundlePrice])

-----------------------------------------------------------------------------
(* The payment panel and the modes                                         *)

\* Typed, whatever its fraction, added up from notes, or "Uang pas" for the exact sum.
SetTendered ==
    /\ Tap
    /\ tendered' \in Cash \cup ({100 * ShownSubtotal} \ {0})
    /\ UNCHANGED <<server, listed, cart, fast, amount, waiting, completed, press, history>>

\* The calculator shows another total.
SetAmount ==
    /\ Tap
    /\ fast
    /\ amount' \in Amounts
    /\ UNCHANGED <<server, listed, cart, tendered, fast, waiting, completed, press, history>>

\* resetPosAtom: the next customer's basket.
Reset ==
    /\ cart' = << >>
    /\ tendered' = 0
    /\ amount' = 0
    /\ basket' = basket + 1
    /\ UNCHANGED <<listed, fast>>

\* "Kosongkan", "Reset"
Clear ==
    /\ Tap
    /\ waiting = 0
    /\ IF fast THEN amount # 0 \/ tendered # 0 ELSE cart # << >>
    /\ Reset
    /\ UNCHANGED <<server, waiting, completed, press, presented, lost>>

ToggleFastMode ==
    /\ Tap
    /\ fast' = ~fast
    /\ tendered' = 0
    /\ cart' = IF fast THEN cart ELSE << >>
    /\ amount' = IF fast THEN 0 ELSE amount
    /\ basket' = basket + 1
    /\ UNCHANGED <<server, listed, waiting, completed, press, presented, lost>>

\* Mutant: the pay button stays enabled while the request is pending.
MayPayAgain ==
    /\ IF fast THEN amount > 0 ELSE cart # << >>
    /\ tendered >= 100 * ShownSubtotal

CanSubmit ==
    /\ IF fast THEN amount > 0 ELSE cart # << >>
    /\ tendered >= 100 * ShownSubtotal
    /\ waiting = 0

\* "Bayar Sekarang": create.mutate sends the body.
Pay ==
    /\ Tap
    /\ CanSubmit
    /\ Len(press) < MaxPresses
    /\ press' = Append(press, [cart |-> IF fast THEN << >> ELSE cart,
                               amount |-> IF fast THEN amount ELSE 0,
                               tendered |-> tendered, total |-> ShownSubtotal,
                               basket |-> basket, presented |-> presented])
    /\ wire' = [wire EXCEPT ![Len(press) + 1] = "sent"]
    /\ waiting' = Len(press) + 1
    /\ UNCHANGED <<product, edits, booked, screen, completed, history>>

-----------------------------------------------------------------------------
(* The server                                                              *)

\* tendered: an IntegerField, and an integer column.
CashIsTaken(cash) == cash % 100 = 0 /\ cash \div 100 <= MaxMoney

\* qty: a DecimalField(12, 2), and so is the quantity it moves.
QtyIsTaken(l, row) == l.qty <= MaxQty /\ Units(l, row) <= MaxQty

\* A body the serializer and create_sale take, at the rows of this moment.
IsAccepted(n) ==
    LET lines == press[n].cart
    IN  /\ CashIsTaken(press[n].tendered)
        /\ IF press[n].amount > 0
           THEN press[n].tendered \div 100 >= press[n].amount
           ELSE /\ \A i \in DOMAIN lines :
                      ~lines[i].drifted /\ QtyIsTaken(lines[i], product[lines[i].product])
                /\ ~HasDuplicateLines(Body(n))
                /\ SaleIsAccepted(Body(n), product)

Sell(n) ==
    /\ wire[n] = "sent"
    /\ IsAccepted(n)
    /\ wire' = [wire EXCEPT ![n] = "sold"]
    /\ booked' = [booked EXCEPT ![n] = IF press[n].amount > 0 THEN press[n].amount
                                       ELSE Subtotal(Body(n), product)]
    /\ UNCHANGED <<product, edits, screen, waiting, completed, press, history, taps>>

RefuseSale(n) ==
    /\ wire[n] = "sent"
    /\ ~IsAccepted(n)
    /\ wire' = [wire EXCEPT ![n] = "refused"]
    /\ UNCHANGED <<product, edits, booked, screen, waiting, completed, press, history, taps>>

\* The request is lost, or aborted as a deadlock's victim or for a stock that leaves
\* its column, or dies with its worker.
FailSale(n) ==
    /\ wire[n] = "sent"
    /\ wire' = [wire EXCEPT ![n] = "failed"]
    /\ UNCHANGED <<product, edits, booked, screen, waiting, completed, press, history, taps>>

\* The owner changes the price, the bundle or archived_at of a product.
EditProduct(p) ==
    /\ edits < MaxEdits
    /\ edits' = edits + 1
    /\ \E row \in Version[p] : row # product[p] /\ product' = [product EXCEPT ![p] = row]
    /\ UNCHANGED <<wire, booked, screen, waiting, completed, press, history, taps>>

-----------------------------------------------------------------------------
(* Answers                                                                 *)

\* The cashier-stock query is fetched again.
Refetch ==
    /\ listed' = product
    /\ UNCHANGED <<server, cart, tendered, fast, amount, waiting, completed, press, history, taps>>

\* Mutant: the answer to any press is taken for the answer to this one.
AnyAnswer(n) == waiting # 0 /\ wire[n] = "sold"

\* onSuccess of the press being waited for.
IsAnswered(n) == waiting = n /\ wire[n] = "sold"

ShowSale(n) ==
    /\ IsAnswered(n)
    /\ waiting' = 0
    /\ completed' = n
    /\ presented' = presented \cup {n}
    /\ UNCHANGED <<server, screen, press, basket, lost, taps>>

\* onError with an answer: a toast, and the cart stays.
ShowError ==
    /\ waiting # 0
    /\ wire[waiting] \in {"refused", "failed"}
    /\ waiting' = 0
    /\ UNCHANGED <<server, screen, completed, press, history, taps>>

\* onError without one: fetch fails, whatever became of the request.
LoseConnection ==
    /\ waiting # 0
    /\ waiting' = 0
    /\ lost' = lost \cup {waiting}
    /\ UNCHANGED <<server, screen, completed, press, basket, presented, taps>>

\* The cashier goes to another page and comes back: the callbacks of an unmounted
\* component are not called, the new one is not pending, the atoms are as before.
LeavePage ==
    /\ completed = 0
    /\ waiting # 0
    /\ waiting' = 0
    /\ lost' = lost \cup {waiting}
    /\ UNCHANGED <<server, screen, completed, press, basket, presented, taps>>

\* The page is reloaded: the atoms are gone.
Reload ==
    /\ taps < MaxTaps
    /\ taps' = taps + 1
    /\ listed' = product
    /\ cart' = << >>
    /\ tendered' = 0
    /\ fast' = FALSE
    /\ amount' = 0
    /\ waiting' = 0
    /\ completed' = 0
    /\ basket' = basket + 1
    /\ lost' = lost \cup ({waiting} \ {0})
    /\ UNCHANGED <<server, press, presented>>

\* "Tutup" closes the dialog only; "Transaksi Baru" starts the next basket.
CloseDialog ==
    /\ completed # 0
    /\ completed' = 0
    /\ UNCHANGED <<server, screen, waiting, press, history, taps>>

NewSale ==
    /\ completed # 0
    /\ completed' = 0
    /\ Reset
    /\ UNCHANGED <<server, waiting, press, presented, lost, taps>>

-----------------------------------------------------------------------------
PosSearch == \E p \in Product, bundle \in BOOLEAN : AddProduct(p, bundle)

PosCart ==
    \E i \in DOMAIN cart :
        \/ Increment(i) \/ Decrement(i) \/ RemoveLine(i) \/ ToggleBundle(i)
        \/ \E q \in Typed : TypeQty(i, q)

PosPaymentPanel == SetTendered \/ Clear \/ Pay

SaleSuccessDialog == CloseDialog \/ NewSale

Cashier ==
    \/ PosSearch \/ PosCart \/ PosPaymentPanel \/ SaleSuccessDialog
    \/ SetAmount \/ ToggleFastMode \/ LeavePage \/ Reload

Next ==
    \/ Cashier
    \/ \E n \in Press : Sell(n) \/ RefuseSale(n) \/ FailSale(n) \/ ShowSale(n)
    \/ \E p \in Product : EditProduct(p)
    \/ Refetch \/ ShowError \/ LoseConnection

Spec == Init /\ [][Next]_vars
-----------------------------------------------------------------------------
(* Properties                                                              *)

PressRecord == [cart : Seq(CartLine), amount : Nat, tendered : Nat, total : Nat,
                basket : Nat, presented : SUBSET Press]

\* Every variable has its type, the presses sent are those made, and the till
\* waits for or shows a press that was made.
TypeOK ==
    /\ product \in [Product -> Row] /\ listed \in [Product -> Row]
    /\ \A p \in Product : product[p] \in Version[p] /\ listed[p] \in Version[p]
    /\ wire \in [Press -> {"none", "sent", "sold", "refused", "failed"}]
    /\ booked \in [Press -> Nat]
    /\ press \in Seq(PressRecord) /\ Len(press) \in 0..MaxPresses
    /\ \A n \in Press : wire[n] = "none" <=> n > Len(press)
    /\ cart \in Seq(CartLine)
    /\ tendered \in Int /\ fast \in BOOLEAN /\ amount \in Int
    /\ waiting \in 0..Len(press) /\ completed \in 0..Len(press)
    /\ basket \in Nat /\ presented \subseteq Press /\ lost \subseteq Press /\ edits \in Nat /\ taps \in Nat

\* A line has the price of its kind, is no bundle of a product without one, and
\* no fraction of a product sold by the piece.
LineIsCoherent(l) ==
    /\ l.price = IF l.bundle THEN l.bundlePrice ELSE l.single
    /\ l.bundle => l.bundleQty # 0
    /\ l.weighted => l.bundleQty = 0
    /\ ~l.weighted => l.qty % 100 = 0 /\ ~l.drifted

CartIsCoherent(lines) ==
    /\ \A i, j \in DOMAIN lines : KeyOf(lines[i]) = KeyOf(lines[j]) => i = j
    /\ \A i \in DOMAIN lines : LineIsCoherent(lines[i])

\* However the cashier adds, counts, types and toggles, the cart has one line per
\* product and kind and each line is one the server can take; so has every cart
\* that was paid.
CartsAreCoherent ==
    /\ CartIsCoherent(cart)
    /\ \A n \in DOMAIN press : CartIsCoherent(press[n].cart)

\* The row is still what the line was added from.
IsCurrent(l) ==
    LET row == product[l.product]
    IN  /\ Available(row, Shop)
        /\ row.weighted = l.weighted
        /\ row.price = l.single
        /\ row.bundleQty = l.bundleQty
        /\ row.bundlePrice = l.bundlePrice

\* JavaScript's arithmetic gives this line's quantity or total as it should.
IsExact(l) == ~l.drifted /\ <<l.qty, l.price>> \notin RoundsDown

\* More pieces than the digits of a quantity, in the line or in its bundles.
IsTooLong(l) ==
    l.qty > MaxQty \/ (l.bundle /\ l.qty * l.bundleQty > MaxQty)

\* What the till lets the cashier pay the server accepts: a payment is refused
\* only for a product changed meanwhile, a number JavaScript got wrong, or what
\* no field of the till rules out: cash with a fraction or beyond its column, and
\* a quantity of more digits than the server has room for.
TillSalesAreAccepted ==
    [][\A n \in Press : RefuseSale(n) =>
           \/ press[n].tendered % 100 # 0 \/ press[n].tendered > 100 * MaxMoney
           \/ \E i \in DOMAIN press[n].cart :
                  \/ ~IsCurrent(press[n].cart[i]) \/ ~IsExact(press[n].cart[i])
                  \/ IsTooLong(press[n].cart[i])]_vars

\* Unless a product changed meanwhile, the total booked is the total the cashier
\* was shown, but for at most one rupiah per line that JavaScript rounds down.
TotalsAgree ==
    [][\A n \in Press :
           LET lines == press[n].cart
           IN  Sell(n) /\ (\A i \in DOMAIN lines : IsCurrent(lines[i])) =>
                  booked'[n] - press[n].total \in
                      0..Cardinality({i \in DOMAIN lines : ~IsExact(lines[i])})]_vars

\* The dialog shows the sale of the last payment, which the server has booked.
DialogIsLastPayment ==
    completed # 0 => completed = Len(press) /\ wire[completed] = "sold"

\* Presses of one basket that both made a sale.
AreBothSold(m, n) ==
    /\ m < n
    /\ press[m].basket = press[n].basket
    /\ wire[m] = "sold" /\ wire[n] = "sold"

\* A basket is sold a second time only if the cashier was shown its first sale
\* before paying again, or the till had stopped waiting for the first answer: no
\* other order of taps, answers, refusals and edits sells a basket twice unawares.
AnsweredBasketSoldOnce ==
    \A m, n \in DOMAIN press : AreBothSold(m, n) => m \in press[n].presented \cup lost
=============================================================================
