--------------------------- MODULE WebTill_proofs ---------------------------
(***************************************************************************)
(* Theorems about WebTill, for any catalogue and any number of payments,   *)
(* edits and taps: its payments, its carts, what the server makes of them, *)
(* and the amounts, which are totals over the lines of a cart.             *)
(***************************************************************************)
EXTENDS WebTill, Totals_proofs

USE DEF Press

-----------------------------------------------------------------------------
(* Sequences                                                               *)

\* Appending keeps what was there, whatever the type of the elements.
LEMMA Appending ==
    ASSUME NEW S, NEW s \in Seq(S), NEW e
    PROVE  /\ Append(s, e) \in Seq(S \cup {e})
           /\ Len(Append(s, e)) = Len(s) + 1
           /\ DOMAIN s = 1..Len(s)
           /\ DOMAIN Append(s, e) = 1..(Len(s) + 1)
           /\ \A i \in 1..Len(s) : Append(s, e)[i] = s[i]
           /\ Append(s, e)[Len(s) + 1] = e
<1>1. s \in Seq(S \cup {e})
    OBVIOUS
<1> QED  BY <1>1

\* The elements of a concatenation are those of the first part, then the second.
LEMMA Concatenating ==
    ASSUME NEW S, NEW a \in Seq(S), NEW b \in Seq(S)
    PROVE  /\ a \o b \in Seq(S)
           /\ Len(a \o b) = Len(a) + Len(b)
           /\ DOMAIN (a \o b) = 1..(Len(a) + Len(b))
           /\ \A j \in 1..Len(a) : (a \o b)[j] = a[j]
           /\ \A j \in (Len(a) + 1)..(Len(a) + Len(b)) : (a \o b)[j] = b[j - Len(a)]
OBVIOUS

Without(s, i) == SubSeq(s, 1, i - 1) \o SubSeq(s, i + 1, Len(s))

\* Removing an element moves the later ones up.
LEMMA Removing ==
    ASSUME NEW S, NEW s \in Seq(S), NEW i \in 1..Len(s)
    PROVE  /\ Without(s, i) \in Seq(S)
           /\ DOMAIN Without(s, i) = 1..(Len(s) - 1)
           /\ \A j \in 1..(Len(s) - 1) :
                  Without(s, i)[j] = IF j < i THEN s[j] ELSE s[j + 1]
<1> DEFINE a == SubSeq(s, 1, i - 1)
           b == SubSeq(s, i + 1, Len(s))
           t == Without(s, i)
<1>1. Len(s) \in Nat
    OBVIOUS
<1>2. a \in Seq(S) /\ Len(a) = i - 1
    BY <1>1
<1>3. b \in Seq(S) /\ Len(b) = Len(s) - i
    BY <1>1
<1>4. \A j \in 1..(i - 1) : a[j] = s[j]
    BY <1>1
<1>5. \A j \in 1..(Len(s) - i) : b[j] = s[j + i]
    BY <1>1
<1>6. t = a \o b
    BY DEF Without
<1> HIDE DEF a, b, t
<1>7. /\ t \in Seq(S)
      /\ DOMAIN t = 1..(Len(a) + Len(b))
      /\ \A j \in 1..Len(a) : t[j] = a[j]
      /\ \A j \in (Len(a) + 1)..(Len(a) + Len(b)) : t[j] = b[j - Len(a)]
    BY <1>2, <1>3, <1>6, Concatenating
<1>8. DOMAIN t = 1..(Len(s) - 1)
    BY <1>1, <1>2, <1>3, <1>7
<1>9. ASSUME NEW j \in 1..(Len(s) - 1)  PROVE t[j] = IF j < i THEN s[j] ELSE s[j + 1]
    <2>1. CASE j < i
        <3>1. j \in 1..Len(a) /\ j \in 1..(i - 1)
            BY <1>1, <1>2, <2>1
        <3> QED  BY <1>4, <1>7, <2>1, <3>1
    <2>2. CASE ~(j < i)
        <3>1. /\ j \in (Len(a) + 1)..(Len(a) + Len(b)) /\ j - Len(a) = j + 1 - i
              /\ j + 1 - i \in 1..(Len(s) - i) /\ (j + 1 - i) + i = j + 1
            BY <1>1, <1>2, <1>3, <2>2
        <3> QED  BY <1>5, <1>7, <2>2, <3>1
    <2> QED  BY <2>1, <2>2
<1> QED  BY <1>7, <1>8, <1>9 DEF t

-----------------------------------------------------------------------------
(* Payments                                                                *)

\* What the till remembers of its presses: it waits for or shows the last one
\* only; a press it does not wait for was shown, given up, refused or failed; and
\* so were the earlier ones when a press was made.
PaymentInv ==
    /\ \E S : press \in Seq(S)
    /\ Len(press) \in 0..MaxPresses
    /\ wire \in [Press -> {"none", "sent", "sold", "refused", "failed"}]
    /\ \A n \in Press : wire[n] = "none" <=> n > Len(press)
    /\ waiting \in {0, Len(press)}
    /\ completed \in {0, Len(press)}
    /\ completed # 0 => wire[completed] = "sold"
    /\ \A m \in DOMAIN press :
          m = waiting \/ m \in presented \cup lost \/ wire[m] \in {"refused", "failed"}
    /\ \A m, n \in DOMAIN press :
          m < n => m \in press[n].presented \cup lost \/ wire[m] \in {"refused", "failed"}

\* The kinds of steps, as far as the payments are concerned.
Stands == /\ UNCHANGED <<press, wire, waiting, presented, lost>>
          /\ completed' \in {0, completed}

Handles(n) == /\ wire[n] = "sent"
              /\ \E w \in {"sold", "refused", "failed"} : wire' = [wire EXCEPT ![n] = w]
              /\ UNCHANGED <<press, waiting, completed, presented, lost>>

GivesUp == /\ waiting' = 0
           /\ lost' = lost \cup ({waiting} \ {0})
           /\ completed' \in {0, completed}
           /\ UNCHANGED <<press, wire, presented>>

\* Every step is of one of these kinds.
LEMMA Kinds ==
    ASSUME [Next]_vars
    PROVE  \/ Stands \/ Pay \/ ShowError \/ GivesUp
           \/ \E n \in Press : Handles(n) \/ ShowSale(n)
<1> USE DEF vars, server, screen, history
<1>1. CASE Cashier
    <2>1. ASSUME NEW p \in Product, NEW bundle \in BOOLEAN, AddProduct(p, bundle)
          PROVE  Stands
        BY <2>1 DEF AddProduct, ChangeCart, Stands
    <2>2. ASSUME NEW i \in DOMAIN cart,
                 \/ Increment(i) \/ Decrement(i) \/ RemoveLine(i) \/ ToggleBundle(i)
                 \/ \E q \in Typed : TypeQty(i, q)
          PROVE  Stands
        BY <2>2 DEF Increment, Decrement, RemoveLine, ToggleBundle, TypeQty, ChangeCart, Stands
    <2>3. CASE SetTendered \/ SetAmount \/ Clear \/ ToggleFastMode \/ CloseDialog \/ NewSale
        BY <2>3 DEF SetTendered, SetAmount, Clear, ToggleFastMode, CloseDialog, NewSale, Stands
    <2>4. CASE LeavePage \/ Reload
        BY <2>4 DEF LeavePage, Reload, GivesUp
    <2> QED  BY <1>1, <2>1, <2>2, <2>3, <2>4
        DEF Cashier, PosSearch, PosCart, PosPaymentPanel, SaleSuccessDialog
<1>2. ASSUME NEW n \in Press, Sell(n) \/ RefuseSale(n) \/ FailSale(n)  PROVE Handles(n)
    BY <1>2 DEF Sell, RefuseSale, FailSale, Handles
<1>3. ASSUME NEW p \in Product, EditProduct(p)  PROVE Stands
    BY <1>3 DEF EditProduct, Stands
<1>4. CASE Refetch
    BY <1>4 DEF Refetch, Stands
<1>5. CASE LoseConnection
    BY <1>5 DEF LoseConnection, GivesUp
<1>6. CASE UNCHANGED vars
    BY <1>6 DEF Stands
<1> QED  BY <1>1, <1>2, <1>3, <1>4, <1>5, <1>6 DEF Next

\* Nothing was paid at the start.
LEMMA PaymentInit == Init => PaymentInv
<1> SUFFICES ASSUME Init  PROVE PaymentInv
    OBVIOUS
<1>1. press \in Seq({}) /\ Len(press) = 0 /\ DOMAIN press = {}
    BY DEF Init
<1> QED  BY <1>1, TillAssumption DEF Init, PaymentInv, TillAssumption

\* Every step keeps what the till remembers of its presses.
LEMMA PaymentStep == PaymentInv /\ [Next]_vars => PaymentInv'
<1> SUFFICES ASSUME PaymentInv, [Next]_vars  PROVE PaymentInv'
    OBVIOUS
<1>1. PICK S : press \in Seq(S)
    BY DEF PaymentInv
<1>2. Len(press) \in Nat /\ DOMAIN press = 1..Len(press) /\ DOMAIN press \subseteq Press
    BY <1>1, TillAssumption DEF PaymentInv, TillAssumption
<1>3. CASE Stands
    BY <1>3 DEF PaymentInv, Stands
<1>4. CASE Pay
    <2> DEFINE n == Len(press) + 1
               body == [cart |-> IF fast THEN << >> ELSE cart,
                        amount |-> IF fast THEN amount ELSE 0,
                        tendered |-> tendered, total |-> ShownSubtotal,
                        basket |-> basket, presented |-> presented]
    <2>1. /\ press' = Append(press, body) /\ n \in Press
          /\ wire' = [wire EXCEPT ![n] = "sent"] /\ waiting' = n
          /\ waiting = 0 /\ completed = 0 /\ completed' = 0
          /\ UNCHANGED <<presented, lost>>
        BY <1>2, <1>4, TillAssumption DEF Pay, Tap, CanSubmit, screen, history, TillAssumption
    <2>2. body.presented = presented
        OBVIOUS
    <2> HIDE DEF body
    <2>3. /\ press' \in Seq(S \cup {body})
          /\ Len(press') = n /\ DOMAIN press' = 1..n
          /\ \A m \in 1..Len(press) : press'[m] = press[m]
          /\ press'[n] = body
        BY <1>1, <2>1, Appending
    <2>4. Len(press') \in 0..MaxPresses
        BY <1>2, <2>1, <2>3
    <2>5. /\ wire' \in [Press -> {"none", "sent", "sold", "refused", "failed"}]
          /\ \A m \in Press : wire'[m] = "none" <=> m > Len(press')
        BY <1>2, <2>1, <2>3, TillAssumption DEF PaymentInv, TillAssumption
    <2>6. \A m \in 1..Len(press) : /\ wire'[m] = wire[m]
                                   /\ m \in presented \cup lost \/ wire[m] \in {"refused", "failed"}
        BY <1>2, <2>1 DEF PaymentInv
    <2>7. \A m \in DOMAIN press' : \/ m = waiting' \/ m \in (presented \cup lost)'
                                   \/ wire'[m] \in {"refused", "failed"}
        BY <1>2, <2>1, <2>3, <2>6
    <2>8. ASSUME NEW m \in DOMAIN press', NEW k \in DOMAIN press', m < k
          PROVE  m \in press'[k].presented \cup lost' \/ wire'[m] \in {"refused", "failed"}
        <3>1. m \in 1..Len(press)
            BY <1>2, <2>3, <2>8
        <3>2. CASE k = n
            BY <2>1, <2>2, <2>3, <2>6, <3>1, <3>2
        <3>3. CASE k \in 1..Len(press)
            BY <1>2, <2>1, <2>3, <2>6, <2>8, <3>1, <3>3 DEF PaymentInv
        <3> QED  BY <1>2, <2>3, <3>2, <3>3
    <2> QED  BY <2>1, <2>3, <2>4, <2>5, <2>7, <2>8 DEF PaymentInv
<1>5. ASSUME NEW n \in Press, Handles(n)  PROVE PaymentInv'
    <2>1. PICK w \in {"sold", "refused", "failed"} : wire' = [wire EXCEPT ![n] = w]
        BY <1>5 DEF Handles
    <2>2. wire[n] = "sent" /\ UNCHANGED <<press, waiting, completed, presented, lost>>
        BY <1>5 DEF Handles
    <2>3. /\ wire' \in [Press -> {"none", "sent", "sold", "refused", "failed"}]
          /\ \A m \in Press : wire'[m] = "none" <=> wire[m] = "none"
          /\ \A m \in Press : wire[m] \in {"sold", "refused", "failed"} => wire'[m] = wire[m]
        BY <2>1, <2>2 DEF PaymentInv
    <2>4. completed # 0 => completed \in Press
        <3>1. completed \in {0, Len(press)}
            BY DEF PaymentInv
        <3>2. Len(press) # 0 => Len(press) \in DOMAIN press
            BY <1>2
        <3> QED  BY <1>2, <3>1, <3>2
    <2> QED  BY <1>1, <1>2, <2>2, <2>3, <2>4 DEF PaymentInv
<1>6. ASSUME NEW n \in Press, ShowSale(n)  PROVE PaymentInv'
    BY <1>2, <1>6 DEF PaymentInv, ShowSale, IsAnswered, server, screen
<1>7. CASE ShowError
    BY <1>2, <1>7 DEF PaymentInv, ShowError, server, screen, history
<1>8. CASE GivesUp
    BY <1>2, <1>8 DEF PaymentInv, GivesUp
<1> QED  BY <1>3, <1>4, <1>5, <1>6, <1>7, <1>8, Kinds

\* The till always knows what became of its presses.
THEOREM PaymentsCorrect == Spec => []PaymentInv
BY PaymentInit, PaymentStep, PTL DEF Spec

\* The dialog only ever shows the sale of the last payment, and one that the
\* server has booked: whatever is lost, late, left or reloaded.
THEOREM DialogCorrect == Spec => []DialogIsLastPayment
<1>1. PaymentInv => DialogIsLastPayment
    BY DEF PaymentInv, DialogIsLastPayment
<1> QED  BY <1>1, PaymentsCorrect, PTL

\* No basket is sold twice unawares, unless the till gave up an answer.
THEOREM SoldOnceCorrect == Spec => []AnsweredBasketSoldOnce
<1>1. PaymentInv => AnsweredBasketSoldOnce
    BY DEF PaymentInv, AnsweredBasketSoldOnce, AreBothSold
<1> QED  BY <1>1, PaymentsCorrect, PTL

-----------------------------------------------------------------------------
(* Carts                                                                   *)

CatalogueTypes ==
    /\ product \in [Product -> Row] /\ listed \in [Product -> Row]
    /\ \A p \in Product : product[p] \in Version[p] /\ listed[p] \in Version[p]

CartIsGood(lines) == lines \in Seq(CartLine) /\ CartIsCoherent(lines)

\* The empty cart is good.
LEMMA EmptyCart == CartIsGood(<< >>)
BY DEF CartIsGood, CartIsCoherent

\* A good line of another key than the other lines may take a line's place.
LEMMA LineChanged ==
    ASSUME NEW lines, CartIsGood(lines), NEW i \in DOMAIN lines,
           NEW l \in CartLine, LineIsCoherent(l),
           \A j \in DOMAIN lines : j # i => KeyOf(lines[j]) # KeyOf(l)
    PROVE  CartIsGood([lines EXCEPT ![i] = l])
<1> DEFINE new == [lines EXCEPT ![i] = l]
<1>1. lines \in Seq(CartLine)
    BY DEF CartIsGood
<1>2. new \in Seq(CartLine) /\ DOMAIN new = DOMAIN lines /\ new[i] = l
    BY <1>1
<1>3. \A j \in DOMAIN lines : j # i => new[j] = lines[j]
    BY <1>1
<1> HIDE DEF new
<1> QED  BY <1>2, <1>3 DEF CartIsGood, CartIsCoherent

\* A line that is changed and keeps its key.
LEMMA SameKey ==
    ASSUME NEW lines, CartIsGood(lines), NEW i \in DOMAIN lines,
           NEW l \in CartLine, LineIsCoherent(l), KeyOf(l) = KeyOf(lines[i])
    PROVE  CartIsGood([lines EXCEPT ![i] = l])
<1>1. \A j \in DOMAIN lines : j # i => KeyOf(lines[j]) # KeyOf(l)
    BY DEF CartIsGood, CartIsCoherent
<1> QED  BY <1>1, LineChanged

\* A good line of a new key may be added.
LEMMA LineAdded ==
    ASSUME NEW lines, CartIsGood(lines), NEW l \in CartLine, LineIsCoherent(l),
           \A j \in DOMAIN lines : KeyOf(lines[j]) # KeyOf(l)
    PROVE  CartIsGood(Append(lines, l))
<1>1. lines \in Seq(CartLine)
    BY DEF CartIsGood
<1>2. Append(lines, l) \in Seq(CartLine)
    BY <1>1
<1>3. /\ DOMAIN lines = 1..Len(lines)
      /\ DOMAIN Append(lines, l) = 1..(Len(lines) + 1)
      /\ \A j \in 1..Len(lines) : Append(lines, l)[j] = lines[j]
      /\ Append(lines, l)[Len(lines) + 1] = l
    BY <1>1, Appending
<1>4. \A j \in 1..(Len(lines) + 1) : j \in 1..Len(lines) \/ j = Len(lines) + 1
    BY <1>1
<1> QED  BY <1>2, <1>3, <1>4 DEF CartIsGood, CartIsCoherent

\* Any line may be removed.
LEMMA LineRemoved ==
    ASSUME NEW lines, CartIsGood(lines), NEW i \in DOMAIN lines
    PROVE  CartIsGood(Without(lines, i))
<1> DEFINE new == Without(lines, i)
           Old(j) == IF j < i THEN j ELSE j + 1
<1>1. lines \in Seq(CartLine) /\ DOMAIN lines = 1..Len(lines) /\ Len(lines) \in Nat
    BY DEF CartIsGood
<1>2. /\ new \in Seq(CartLine)
      /\ DOMAIN new = 1..(Len(lines) - 1)
      /\ \A j \in 1..(Len(lines) - 1) : new[j] = IF j < i THEN lines[j] ELSE lines[j + 1]
    BY <1>1, Removing
<1> HIDE DEF new
<1>3. \A j \in DOMAIN new : Old(j) \in DOMAIN lines /\ new[j] = lines[Old(j)]
    BY <1>1, <1>2
<1>4. \A j, k \in DOMAIN new : Old(j) = Old(k) => j = k
    BY <1>1, <1>2
<1> HIDE DEF Old
<1> QED  BY <1>2, <1>3, <1>4 DEF CartIsGood, CartIsCoherent, new

\* Whatever the cashier does with a good cart leaves a good cart.
LEMMA AddProductGood ==
    ASSUME CatalogueTypes, CartIsGood(cart),
           NEW p \in Product, NEW bundle \in BOOLEAN, AddProduct(p, bundle)
    PROVE  CartIsGood(cart')
<1>1. CASE InCart(p, bundle)
    <2>1. PICK i \in DOMAIN cart : cart' = [cart EXCEPT ![i].qty = @ + 100]
        BY <1>1 DEF AddProduct, ChangeCart
    <2> DEFINE l == [cart[i] EXCEPT !.qty = @ + 100]
    <2>2. cart[i] \in CartLine /\ LineIsCoherent(cart[i])
        BY DEF CartIsGood, CartIsCoherent
    <2>3. l \in CartLine /\ KeyOf(l) = KeyOf(cart[i])
        BY <2>2 DEF CartLine, KeyOf
    <2>4. LineIsCoherent(l)
        BY <2>2 DEF CartLine, LineIsCoherent
    <2>5. cart' = [cart EXCEPT ![i] = l]
        BY <2>1
    <2> HIDE DEF l
    <2> QED  BY <2>3, <2>4, <2>5, SameKey
<1>2. CASE ~InCart(p, bundle)
    <2> DEFINE l == NewLine(p, bundle)
    <2>1. cart' = Append(cart, l)
        BY <1>2 DEF AddProduct, ChangeCart
    <2>2. listed[p] \in Row /\ listed[p] \in Version[p]
        BY DEF CatalogueTypes
    <2>3. l \in CartLine /\ KeyOf(l) = <<p, bundle>>
        BY <2>2 DEF NewLine, CartLine, KeyOf, UnitPrice, Row
    <2>4. bundle => listed[p].bundleQty # 0
        BY DEF AddProduct, HasBundle
    <2>5. listed[p].weighted => listed[p].bundleQty = 0
        BY <2>2, TillAssumption DEF TillAssumption
    <2>6. LineIsCoherent(l)
        BY <2>4, <2>5 DEF NewLine, LineIsCoherent, UnitPrice
    <2>7. \A j \in DOMAIN cart : KeyOf(cart[j]) # KeyOf(l)
        BY <1>2, <2>3 DEF InCart
    <2> HIDE DEF l
    <2> QED  BY <2>1, <2>3, <2>6, <2>7, LineAdded
<1> QED  BY <1>1, <1>2

\* A line may get another quantity, whole for a product sold by the piece.
LEMMA QuantityGood ==
    ASSUME CartIsGood(cart), NEW i \in DOMAIN cart, NEW q \in Nat \ {0}, NEW d \in BOOLEAN,
           ~cart[i].weighted => q % 100 = 0 /\ ~d
    PROVE  CartIsGood([cart EXCEPT ![i].qty = q, ![i].drifted = d])
<1> DEFINE l == [cart[i] EXCEPT !.qty = q, !.drifted = d]
<1>1. cart \in Seq(CartLine) /\ cart[i] \in CartLine /\ LineIsCoherent(cart[i])
    BY DEF CartIsGood, CartIsCoherent
<1>2. l \in CartLine /\ KeyOf(l) = KeyOf(cart[i])
    BY <1>1 DEF CartLine, KeyOf
<1>3. LineIsCoherent(l)
    BY <1>1 DEF CartLine, LineIsCoherent
<1>4. [cart EXCEPT ![i].qty = q, ![i].drifted = d] = [cart EXCEPT ![i] = l]
    BY <1>1
<1> HIDE DEF l
<1> QED  BY <1>2, <1>3, <1>4, SameKey

\* Plus, minus and typing leave a good cart.
LEMMA CountingGood ==
    ASSUME CartIsGood(cart), NEW i \in DOMAIN cart,
           Increment(i) \/ Decrement(i) \/ \E q \in Typed : TypeQty(i, q)
    PROVE  CartIsGood(cart')
<1>1. /\ cart[i] \in CartLine
      /\ ~cart[i].weighted => cart[i].qty % 100 = 0 /\ ~cart[i].drifted
    BY DEF CartIsGood, CartIsCoherent, LineIsCoherent
<1>2. cart[i].qty \in Nat \ {0} /\ cart[i].drifted \in BOOLEAN /\ cart[i].weighted \in BOOLEAN
    BY <1>1 DEF CartLine
<1>3. CASE Increment(i)
    <2>1. PICK d \in IF cart[i].drifted THEN BOOLEAN
                     ELSE {cart[i].weighted /\ cart[i].qty \in DriftsAt} :
             cart' = [cart EXCEPT ![i].qty = @ + StepFor(cart[i]), ![i].drifted = d]
        BY <1>3 DEF Increment, ChangeCart
    <2> DEFINE q == cart[i].qty + StepFor(cart[i])
    <2>2. q \in Nat \ {0} /\ (~cart[i].weighted => q % 100 = 0)
        BY <1>1, <1>2 DEF StepFor
    <2>3. d \in BOOLEAN /\ (~cart[i].weighted => ~d)
        BY <1>1, <1>2, <2>1
    <2>4. cart' = [cart EXCEPT ![i].qty = q, ![i].drifted = d]
        BY <2>1
    <2> HIDE DEF q
    <2> QED  BY <2>2, <2>3, <2>4, QuantityGood
<1>4. CASE Decrement(i)
    <2> DEFINE q == AtLeast(cart[i].qty - StepFor(cart[i]), Least(cart[i]))
    <2>1. q \in Nat \ {0} /\ (~cart[i].weighted => q % 100 = 0)
        BY <1>1, <1>2 DEF StepFor, AtLeast, Least
    <2>2. cart' = [cart EXCEPT ![i].qty = q, ![i].drifted = FALSE]
        BY <1>4 DEF Decrement, ChangeCart
    <2> HIDE DEF q
    <2> QED  BY <2>1, <2>2, QuantityGood
<1>5. ASSUME NEW n \in Typed, TypeQty(i, n)  PROVE CartIsGood(cart')
    <2> DEFINE q == TypedQty(cart[i], n)
    <2>1. n \in Int
        BY TillAssumption DEF TillAssumption
    <2>2. q \in Nat \ {0} /\ (~cart[i].weighted => q % 100 = 0)
        BY <1>2, <2>1 DEF TypedQty, AtLeast, Least
    <2>3. cart' = [cart EXCEPT ![i].qty = q, ![i].drifted = FALSE]
        BY <1>5 DEF TypeQty, ChangeCart
    <2> HIDE DEF q
    <2> QED  BY <2>2, <2>3, QuantityGood
<1> QED  BY <1>3, <1>4, <1>5

\* So does toggling a bundle, which looks for the line of the other kind.
LEMMA ToggleGood ==
    ASSUME CartIsGood(cart), NEW i \in DOMAIN cart, ToggleBundle(i)
    PROVE  CartIsGood(cart')
<1> DEFINE l == [cart[i] EXCEPT !.bundle = ~@,
                                !.price = IF cart[i].bundle THEN cart[i].single
                                          ELSE cart[i].bundlePrice]
<1>1. cart \in Seq(CartLine) /\ cart[i] \in CartLine /\ LineIsCoherent(cart[i])
    BY DEF CartIsGood, CartIsCoherent
<1>2. /\ cart[i].bundleQty # 0
      /\ \A j \in DOMAIN cart : KeyOf(cart[j]) # <<cart[i].product, ~cart[i].bundle>>
    BY DEF ToggleBundle, MayToggle, HasBundle, InCart
<1>3. l \in CartLine /\ KeyOf(l) = <<cart[i].product, ~cart[i].bundle>>
    BY <1>1 DEF CartLine, KeyOf
<1>4. LineIsCoherent(l)
    BY <1>1, <1>2 DEF CartLine, LineIsCoherent
<1>5. cart' = [cart EXCEPT ![i] = l]
    BY <1>1 DEF ToggleBundle, ChangeCart
<1> HIDE DEF l
<1> QED  BY <1>2, <1>3, <1>4, <1>5, LineChanged

\* So does removing a line.
LEMMA RemoveGood ==
    ASSUME CartIsGood(cart), NEW i \in DOMAIN cart, RemoveLine(i)
    PROVE  CartIsGood(cart')
BY LineRemoved DEF RemoveLine, ChangeCart, Without

\* The carts of the till and of its presses are good, and a press has the cash
\* for what its cart, or the calculator, showed.
CartInv ==
    /\ CatalogueTypes
    /\ CartIsGood(cart)
    /\ \A n \in DOMAIN press : CartIsGood(press[n].cart)
    /\ \A n \in DOMAIN press :
          press[n].tendered >= 100 * (IF press[n].amount > 0 THEN press[n].amount
                                      ELSE LineSubtotal(press[n].cart))

\* The carts are good at the start.
LEMMA CartInit == Init => CartInv
<1> SUFFICES ASSUME Init  PROVE CartInv
    OBVIOUS
<1>1. CatalogueTypes
    BY TillAssumption DEF Init, CatalogueTypes, TillAssumption
<1> QED  BY <1>1, EmptyCart DEF Init, CartInv

\* What a step does to the carts: it leaves a good one, and keeps the presses
\* unless it is a payment.
LEMMA CartsKept ==
    ASSUME CatalogueTypes, CartIsGood(cart), [Next]_vars
    PROVE  CatalogueTypes' /\ CartIsGood(cart') /\ (UNCHANGED press \/ Pay)
<1> USE DEF vars, server, screen, history
<1>1. CASE Cashier
    <2>1. ASSUME NEW p \in Product, NEW bundle \in BOOLEAN, AddProduct(p, bundle)
          PROVE  CartIsGood(cart') /\ UNCHANGED <<server, listed, press>>
        BY <2>1, AddProductGood DEF AddProduct, ChangeCart
    <2>2. ASSUME NEW i \in DOMAIN cart,
                 Increment(i) \/ Decrement(i) \/ \E q \in Typed : TypeQty(i, q)
          PROVE  CartIsGood(cart') /\ UNCHANGED <<server, listed, press>>
        BY <2>2, CountingGood DEF Increment, Decrement, TypeQty, ChangeCart
    <2>3. ASSUME NEW i \in DOMAIN cart, RemoveLine(i) \/ ToggleBundle(i)
          PROVE  CartIsGood(cart') /\ UNCHANGED <<server, listed, press>>
        BY <2>3, RemoveGood, ToggleGood DEF RemoveLine, ToggleBundle, ChangeCart
    <2>4. CASE SetTendered \/ SetAmount \/ LeavePage \/ CloseDialog
        BY <2>4 DEF SetTendered, SetAmount, LeavePage, CloseDialog, CatalogueTypes
    <2>5. CASE Clear \/ ToggleFastMode \/ NewSale
        BY <2>5, EmptyCart DEF Clear, Reset, ToggleFastMode, NewSale, CatalogueTypes
    <2>6. CASE Reload
        BY <2>6, EmptyCart DEF Reload, CatalogueTypes
    <2>7. CASE Pay
        BY <2>7 DEF Pay, CatalogueTypes
    <2> QED  BY <1>1, <2>1, <2>2, <2>3, <2>4, <2>5, <2>6, <2>7
        DEF Cashier, PosSearch, PosCart, PosPaymentPanel, SaleSuccessDialog, CatalogueTypes
<1>2. ASSUME NEW n \in Press, Sell(n) \/ RefuseSale(n) \/ FailSale(n) \/ ShowSale(n)
      PROVE  UNCHANGED <<product, listed, cart, press>>
    BY <1>2 DEF Sell, RefuseSale, FailSale, ShowSale
<1>3. ASSUME NEW p \in Product, EditProduct(p)
      PROVE  CatalogueTypes' /\ UNCHANGED <<cart, press>>
    <2>1. PICK row \in Version[p] : product' = [product EXCEPT ![p] = row]
        BY <1>3 DEF EditProduct
    <2>2. row \in Row
        BY TillAssumption DEF TillAssumption
    <2>3. UNCHANGED <<listed, cart, press>>
        BY <1>3 DEF EditProduct
    <2> QED  BY <2>1, <2>2, <2>3 DEF CatalogueTypes
<1>4. CASE Refetch \/ ShowError \/ LoseConnection
    BY <1>4 DEF Refetch, ShowError, LoseConnection, CatalogueTypes
<1>5. CASE UNCHANGED vars
    BY <1>5 DEF CatalogueTypes
<1> QED  BY <1>1, <1>2, <1>3, <1>4, <1>5 DEF Next, CatalogueTypes

\* Every step keeps the carts good and the cash sufficient.
LEMMA CartStep == PaymentInv /\ CartInv /\ [Next]_vars => CartInv'
<1> SUFFICES ASSUME PaymentInv, CartInv, [Next]_vars  PROVE CartInv'
    OBVIOUS
<1>1. CatalogueTypes' /\ CartIsGood(cart') /\ (UNCHANGED press \/ Pay)
    BY CartsKept DEF CartInv
<1>2. CASE UNCHANGED press
    BY <1>1, <1>2 DEF CartInv
<1>3. CASE Pay
    <2> DEFINE body == [cart |-> IF fast THEN << >> ELSE cart,
                        amount |-> IF fast THEN amount ELSE 0,
                        tendered |-> tendered, total |-> ShownSubtotal,
                        basket |-> basket, presented |-> presented]
    <2>1. press' = Append(press, body)
        BY <1>3 DEF Pay
    <2>2. CartIsGood(body.cart)
        BY EmptyCart DEF CartInv
    <2>3. body.tendered >= 100 * (IF body.amount > 0 THEN body.amount
                                  ELSE LineSubtotal(body.cart))
        <3>1. /\ tendered >= 100 * ShownSubtotal
              /\ ShownSubtotal = IF fast THEN amount ELSE LineSubtotal(cart)
              /\ fast => amount > 0
            BY <1>3 DEF Pay, CanSubmit, ShownSubtotal
        <3>2. (IF body.amount > 0 THEN body.amount ELSE LineSubtotal(body.cart))
                  = IF fast THEN amount ELSE LineSubtotal(cart)
            BY <3>1
        <3> QED  BY <3>1, <3>2
    <2> HIDE DEF body
    <2>4. PICK S : press \in Seq(S)
        BY DEF PaymentInv
    <2>5. \A n \in DOMAIN press' : press'[n] = body \/ (n \in DOMAIN press /\ press'[n] = press[n])
        BY <2>1, <2>4, Appending
    <2> QED  BY <1>1, <2>2, <2>3, <2>5 DEF CartInv
<1> QED  BY <1>1, <1>2, <1>3

\* Every cart is good, and every press has the cash for what was shown.
THEOREM CartInvCorrect == Spec => [](PaymentInv /\ CartInv)
BY PaymentInit, PaymentStep, CartInit, CartStep, PTL DEF Spec

\* However the cashier adds, counts, types and toggles, every cart has one line
\* per product and kind, each one the server can take.
THEOREM CartsCorrect == Spec => []CartsAreCoherent
<1>1. CartInv => CartsAreCoherent
    BY DEF CartInv, CartIsGood, CartsAreCoherent
<1> QED  BY <1>1, CartInvCorrect, PTL

-----------------------------------------------------------------------------
(* What the server makes of a payment                                      *)

\* The body of a press has its lines, without what the till shows of them.
LEMMA BodyLines ==
    ASSUME NEW n
    PROVE  /\ Body(n).store = Shop /\ Body(n).tendered = press[n].tendered \div 100
           /\ DOMAIN Body(n).lines = DOMAIN press[n].cart
           /\ \A i \in DOMAIN press[n].cart :
                 /\ Body(n).lines[i].product = press[n].cart[i].product
                 /\ Body(n).lines[i].qty = press[n].cart[i].qty
                 /\ Body(n).lines[i].bundle = press[n].cart[i].bundle
BY DEF Body

\* What create_sale makes of a line that is coherent and current: it is valid, and
\* at the price of the till.
LEMMA LineCurrent ==
    ASSUME NEW l \in CartLine, LineIsCoherent(l), IsCurrent(l),
           NEW b, b.product = l.product, b.qty = l.qty, b.bundle = l.bundle
    PROVE  /\ Available(product[b.product], Shop)
           /\ LineIsValid(b, product[b.product])
           /\ UnitPrice(b, product[b.product]) = l.price
<1>1. l.qty > 0
    BY DEF CartLine
<1> QED  BY <1>1 DEF IsCurrent, LineIsCoherent, LineIsValid, UnitPrice

\* For lines that are current and computed exactly the sum that was shown is the
\* sum that create_sale computes, line by line.
LEMMA SameSubtotal ==
    ASSUME NEW n, CartIsGood(press[n].cart),
           \A i \in DOMAIN press[n].cart : IsCurrent(press[n].cart[i]) /\ IsExact(press[n].cart[i])
    PROVE  LineSubtotal(press[n].cart) = Subtotal(Body(n), product)
<1> DEFINE lines == press[n].cart
           body == Body(n)
           shown == [i \in DOMAIN lines |-> ShownTotal(lines[i])]
           charged == [i \in DOMAIN body.lines |->
                          LineTotal(body.lines[i], product[body.lines[i].product])]
<1>1. ASSUME NEW i \in DOMAIN lines
      PROVE  ShownTotal(lines[i]) = LineTotal(body.lines[i], product[body.lines[i].product])
    <2>1. /\ body.lines[i].product = lines[i].product
          /\ body.lines[i].qty = lines[i].qty
          /\ body.lines[i].bundle = lines[i].bundle
        BY BodyLines
    <2>2. lines[i] \in CartLine /\ LineIsCoherent(lines[i]) /\ IsCurrent(lines[i])
        BY DEF CartIsGood, CartIsCoherent
    <2>3. UnitPrice(body.lines[i], product[body.lines[i].product]) = lines[i].price
        BY <2>1, <2>2, LineCurrent
    <2>4. ShownTotal(lines[i]) = (lines[i].qty * lines[i].price + 50) \div 100
        BY DEF IsExact, ShownTotal
    <2> HIDE DEF body
    <2> QED  BY <2>1, <2>3, <2>4 DEF LineTotal
<1>2. DOMAIN body.lines = DOMAIN lines
    BY BodyLines
<1>3. LineSubtotal(lines) = Total(shown)
    BY DEF LineSubtotal
<1>4. Subtotal(body, product) = Total(charged)
    BY DEF Subtotal
<1> HIDE DEF lines, body
<1>5. shown = charged
    BY <1>1, <1>2
<1> HIDE DEF shown, charged
<1>6. LineSubtotal(lines) = Subtotal(body, product)
    BY <1>3, <1>4, <1>5
<1> QED  BY <1>6 DEF lines, body

-----------------------------------------------------------------------------
(* Amounts                                                                 *)

\* The lines of a good cart cost natural numbers, and so does the cart.
LEMMA CartCosts ==
    ASSUME NEW lines, CartIsGood(lines)
    PROVE  /\ IsFiniteSet(DOMAIN lines)
           /\ \A i \in DOMAIN lines : ShownTotal(lines[i]) \in Nat
           /\ LineSubtotal(lines) \in Nat
<1> DEFINE shown == [i \in DOMAIN lines |-> ShownTotal(lines[i])]
<1>1. lines \in Seq(CartLine) /\ DOMAIN lines = 1..Len(lines) /\ Len(lines) \in Nat
    BY DEF CartIsGood
<1>2. IsFiniteSet(DOMAIN lines)
    BY <1>1, FS_Interval
<1>3. ASSUME NEW i \in DOMAIN lines  PROVE ShownTotal(lines[i]) \in Nat
    <2>0. lines[i] \in CartLine
        BY <1>1
    <2>1. lines[i].qty \in Nat /\ lines[i].price \in Nat
        BY <2>0 DEF CartLine
    <2>2. lines[i].qty * lines[i].price \in Nat
        BY <2>1
    <2> QED  BY <2>2 DEF ShownTotal
<1>4. shown \in [DOMAIN lines -> Nat]
    BY <1>3
<1>5. LineSubtotal(lines) = Total(shown)
    BY DEF LineSubtotal
<1> HIDE DEF shown
<1>6. Total(shown) \in Nat
    BY <1>2, <1>4, TotalOfNaturals
<1> QED  BY <1>2, <1>3, <1>5, <1>6

\* What the server charges for the lines of a press.
LEMMA BodyCosts ==
    ASSUME CatalogueTypes, NEW n, CartIsGood(press[n].cart)
    PROVE  /\ \A i \in DOMAIN press[n].cart :
                  LineTotal(Body(n).lines[i], product[Body(n).lines[i].product]) \in Nat
           /\ Subtotal(Body(n), product) \in Nat
<1> DEFINE lines == press[n].cart
           body == Body(n)
           charged == [i \in DOMAIN body.lines |->
                          LineTotal(body.lines[i], product[body.lines[i].product])]
<1>1. IsFiniteSet(DOMAIN lines) /\ lines \in Seq(CartLine)
    BY CartCosts DEF CartIsGood
<1>2. DOMAIN body.lines = DOMAIN lines
    BY BodyLines
<1>3. ASSUME NEW i \in DOMAIN lines
      PROVE  LineTotal(body.lines[i], product[body.lines[i].product]) \in Nat
    <2>1. /\ body.lines[i].product = lines[i].product
          /\ body.lines[i].qty = lines[i].qty
          /\ body.lines[i].bundle = lines[i].bundle
        BY BodyLines
    <2>2. lines[i] \in CartLine
        BY <1>1
    <2>3. body.lines[i].qty \in Nat /\ product[body.lines[i].product] \in Row
        BY <2>1, <2>2 DEF CartLine, CatalogueTypes
    <2> HIDE DEF body
    <2>4. UnitPrice(body.lines[i], product[body.lines[i].product]) \in Nat
        BY <2>3 DEF UnitPrice, Row
    <2>5. body.lines[i].qty * UnitPrice(body.lines[i], product[body.lines[i].product]) \in Nat
        BY <2>3, <2>4
    <2> QED  BY <2>5 DEF LineTotal
<1>4. Subtotal(body, product) = Total(charged)
    BY DEF Subtotal
<1>5. charged \in [DOMAIN lines -> Nat]
    BY <1>2, <1>3
<1> HIDE DEF charged, body
<1>6. Total(charged) \in Nat
    BY <1>1, <1>5, TotalOfNaturals
<1> QED  BY <1>3, <1>4, <1>6 DEF body

\* A press holds what the till showed: a total of the calculator's, with no cart, or
\* what its cart costs.
ShowsTotal(p) ==
    /\ p.amount > 0 => p.cart = << >>
    /\ p.total = IF p.amount > 0 THEN p.amount ELSE LineSubtotal(p.cart)

\* The amounts of the till and of its presses are numbers.
AmountInv ==
    /\ press \in Seq(PressRecord)
    /\ booked \in [Press -> Nat]
    /\ tendered \in Int /\ fast \in BOOLEAN /\ amount \in Int
    /\ basket \in Nat /\ presented \subseteq Press /\ lost \subseteq Press
    /\ edits \in Nat /\ taps \in Nat
    /\ \A n \in DOMAIN press : ShowsTotal(press[n])

\* They are zero at the start.
LEMMA AmountInit == Init => AmountInv
<1> SUFFICES ASSUME Init  PROVE AmountInv
    OBVIOUS
<1>1. press \in Seq(PressRecord) /\ DOMAIN press = {}
    BY DEF Init
<1>2. \A n \in DOMAIN press : ShowsTotal(press[n])
    BY <1>1
<1>3. /\ booked \in [Press -> Nat] /\ tendered = 0 /\ fast \in BOOLEAN /\ amount = 0
      /\ basket = 1 /\ presented = {} /\ lost = {} /\ edits = 0 /\ taps = 0
    BY DEF Init
<1> QED  BY <1>1, <1>2, <1>3 DEF AmountInv

\* A payment records what is shown.
LEMMA PayAmounts ==
    ASSUME PaymentInv, CartInv, AmountInv, Pay
    PROVE  AmountInv'
<1> DEFINE body == [cart |-> IF fast THEN << >> ELSE cart,
                    amount |-> IF fast THEN amount ELSE 0,
                    tendered |-> tendered, total |-> ShownSubtotal,
                    basket |-> basket, presented |-> presented]
<1>1. press' = Append(press, body) /\ tendered >= 100 * ShownSubtotal /\ (fast => amount > 0)
    BY DEF Pay, CanSubmit
<1>2. /\ taps' = taps + 1
      /\ UNCHANGED <<booked, tendered, fast, amount, basket, presented, lost, edits>>
    BY DEF Pay, Tap, screen, history
<1>3. LineSubtotal(cart) \in Nat /\ cart \in Seq(CartLine)
    BY CartCosts DEF CartInv, CartIsGood
<1>4. ShownSubtotal \in Nat /\ ShownSubtotal = IF fast THEN amount ELSE LineSubtotal(cart)
    BY <1>1, <1>3 DEF AmountInv, ShownSubtotal
<1>5. body \in PressRecord
    <2>1. body.cart \in Seq(CartLine) /\ body.amount \in Nat
        BY <1>1, <1>3 DEF AmountInv
    <2>2. tendered \in Nat /\ basket \in Nat /\ presented \in SUBSET Press
        BY <1>1, <1>4 DEF AmountInv
    <2> QED  BY <1>4, <2>1, <2>2 DEF PressRecord
<1>6. ShowsTotal(body)
    BY <1>1, <1>4 DEF AmountInv, ShowsTotal
<1> HIDE DEF body
<1>7. press' \in Seq(PressRecord)
    BY <1>1, <1>5 DEF AmountInv
<1>8. \A n \in DOMAIN press' : press'[n] = body \/ (n \in DOMAIN press /\ press'[n] = press[n])
    BY <1>1, Appending DEF AmountInv
<1> QED  BY <1>2, <1>6, <1>7, <1>8 DEF AmountInv, ShowsTotal

\* Every step keeps the amounts numbers.
LEMMA AmountStep == PaymentInv /\ CartInv /\ AmountInv /\ [Next]_vars => AmountInv'
<1> SUFFICES ASSUME PaymentInv, CartInv, AmountInv, [Next]_vars  PROVE AmountInv'
    OBVIOUS
<1> USE DEF vars, server, screen, history
<1> DEFINE Rest == UNCHANGED <<press, booked>>
<1>1. waiting \in Press \cup {0}
    <2>1. waiting \in {0, Len(press)} /\ Len(press) \in 0..MaxPresses
        BY DEF PaymentInv
    <2> QED  BY <2>1, TillAssumption DEF TillAssumption
<1>2. CASE Cashier
    <2>1. ASSUME NEW p \in Product, NEW bundle \in BOOLEAN, AddProduct(p, bundle)
          PROVE  AmountInv'
        BY <2>1 DEF AddProduct, ChangeCart, Tap, AmountInv
    <2>2. ASSUME NEW i \in DOMAIN cart,
                 \/ Increment(i) \/ Decrement(i) \/ RemoveLine(i) \/ ToggleBundle(i)
                 \/ \E q \in Typed : TypeQty(i, q)
          PROVE  AmountInv'
        <3>1. /\ taps' = taps + 1
              /\ UNCHANGED <<press, booked, tendered, fast, amount, basket, presented, lost, edits>>
            BY <2>2 DEF Increment, Decrement, RemoveLine, ToggleBundle, TypeQty, ChangeCart, Tap
        <3> QED  BY <3>1 DEF AmountInv
    <2>3. CASE SetTendered
        <3>1. LineSubtotal(cart) \in Nat
            BY CartCosts DEF CartInv
        <3>2. ShownSubtotal \in Int
            BY <3>1 DEF ShownSubtotal, AmountInv
        <3>3. tendered' \in Int
            BY <2>3, <3>2, TillAssumption DEF SetTendered, TillAssumption
        <3> QED  BY <2>3, <3>3 DEF SetTendered, Tap, AmountInv
    <2>4. CASE SetAmount
        <3>1. /\ taps' = taps + 1 /\ amount' \in Int
              /\ UNCHANGED <<press, booked, tendered, fast, basket, presented, lost, edits>>
            BY <2>4, TillAssumption DEF SetAmount, Tap, TillAssumption
        <3> QED  BY <3>1 DEF AmountInv
    <2>5. CASE Clear \/ CloseDialog \/ NewSale
        <3>1. /\ UNCHANGED <<press, booked, fast, presented, lost, edits>>
              /\ tendered' \in {0, tendered} /\ amount' \in {0, amount}
              /\ basket' \in {basket, basket + 1} /\ taps' \in {taps, taps + 1}
            BY <2>5 DEF Clear, CloseDialog, NewSale, Reset, Tap
        <3> QED  BY <3>1 DEF AmountInv
    <2>9. CASE ToggleFastMode
        BY <2>9 DEF ToggleFastMode, Tap, AmountInv
    <2>6. CASE LeavePage
        BY <1>1, <2>6 DEF LeavePage, AmountInv
    <2>7. CASE Reload
        <3>1. /\ taps' = taps + 1 /\ tendered' = 0 /\ amount' = 0 /\ basket' = basket + 1
              /\ fast' \in BOOLEAN
              /\ lost' = lost \cup ({waiting} \ {0})
              /\ UNCHANGED <<press, booked, presented, edits>>
            BY <2>7 DEF Reload
        <3> QED  BY <1>1, <3>1 DEF AmountInv
    <2>8. CASE Pay
        BY <2>8, PayAmounts
    <2> QED  BY <1>2, <2>1, <2>2, <2>3, <2>4, <2>5, <2>6, <2>7, <2>8, <2>9
        DEF Cashier, PosSearch, PosCart, PosPaymentPanel, SaleSuccessDialog
<1>3. ASSUME NEW n \in Press, Sell(n)  PROVE AmountInv'
    <2>1. wire[n] = "sent" /\ press \in Seq(PressRecord)
        BY <1>3 DEF Sell, AmountInv
    <2>2. n \in DOMAIN press
        BY <2>1 DEF PaymentInv
    <2>3. press[n].amount \in Nat /\ Subtotal(Body(n), product) \in Nat
        <3>1. press[n] \in PressRecord
            BY <2>1, <2>2
        <3> QED  BY <2>2, <3>1, BodyCosts DEF CartInv, PressRecord
    <2>4. booked' \in [Press -> Nat]
        BY <1>3, <2>3 DEF Sell, AmountInv
    <2> QED  BY <1>3, <2>4 DEF Sell, AmountInv
<1>4. ASSUME NEW n \in Press, RefuseSale(n) \/ FailSale(n) \/ ShowSale(n)  PROVE AmountInv'
    BY <1>4 DEF RefuseSale, FailSale, ShowSale, AmountInv
<1>5. ASSUME NEW p \in Product, EditProduct(p)  PROVE AmountInv'
    BY <1>5 DEF EditProduct, AmountInv
<1>6. CASE Refetch \/ ShowError
    BY <1>6 DEF Refetch, ShowError, AmountInv
<1>7. CASE LoseConnection
    BY <1>1, <1>7 DEF LoseConnection, AmountInv
<1>8. CASE UNCHANGED vars
    BY <1>8 DEF AmountInv
<1> QED  BY <1>2, <1>3, <1>4, <1>5, <1>6, <1>7, <1>8 DEF Next

\* What the till shows and what the server books are numbers, in every state.
THEOREM AmountsCorrect == Spec => [](PaymentInv /\ CartInv /\ AmountInv)
BY PaymentInit, PaymentStep, CartInit, CartStep, AmountInit, AmountStep, PTL DEF Spec

\* Every variable has its type, and the till waits for or shows a press that was made.
THEOREM TypeCorrect == Spec => []TypeOK
<1>1. PaymentInv /\ CartInv /\ AmountInv => TypeOK
    BY DEF PaymentInv, CartInv, CartIsGood, CatalogueTypes, AmountInv, TypeOK
<1> QED  BY <1>1, AmountsCorrect, PTL

-----------------------------------------------------------------------------
(* Payments that are refused                                               *)

\* Cash that is whole and covers a sum shown covers it in rupiah too.
LEMMA WholeCash ==
    ASSUME NEW cash \in Nat, NEW sum \in Nat, cash >= 100 * sum, cash % 100 = 0,
           cash <= 100 * MaxMoney
    PROVE  cash \div 100 >= sum /\ cash \div 100 <= MaxMoney
BY PricingAssumption DEF PricingAssumption

\* A current line that is not too long has a quantity there is room for.
LEMMA QtyTaken ==
    ASSUME NEW l \in CartLine, IsCurrent(l), ~IsTooLong(l)
    PROVE  QtyIsTaken(l, product[l.product])
<1>1. product[l.product].bundleQty = l.bundleQty
    BY DEF IsCurrent
<1>2. l.qty \in Nat /\ l.bundleQty \in Nat /\ MaxQty \in Nat /\ l.bundle \in BOOLEAN
    BY TillAssumption DEF CartLine, TillAssumption
<1> QED  BY <1>1, <1>2 DEF IsTooLong, QtyIsTaken, Units

\* The server takes a payment of whole cash whose lines are current, exact and no
\* longer than its columns.
LEMMA PaymentAccepted ==
    ASSUME CartInv, AmountInv, NEW n \in DOMAIN press,
           press[n].tendered % 100 = 0, press[n].tendered <= 100 * MaxMoney,
           \A i \in DOMAIN press[n].cart : /\ IsCurrent(press[n].cart[i])
                                          /\ IsExact(press[n].cart[i])
                                          /\ ~IsTooLong(press[n].cart[i])
    PROVE  IsAccepted(n)
<1> DEFINE lines == press[n].cart
           body == Body(n)
           cash == press[n].tendered
           sum == IF press[n].amount > 0 THEN press[n].amount ELSE LineSubtotal(lines)
<1>1. cash \in Nat /\ press[n].amount \in Nat /\ cash >= 100 * sum /\ CartIsGood(lines)
    <2>1. press[n] \in PressRecord
        BY DEF AmountInv
    <2> QED  BY <2>1 DEF CartInv, PressRecord
<1>2. sum \in Nat
    BY <1>1, CartCosts
<1> HIDE DEF cash, sum
<1>3. cash \div 100 >= sum /\ cash \div 100 <= MaxMoney
    BY <1>1, <1>2, WholeCash DEF cash
<1>4. CashIsTaken(press[n].tendered)
    BY <1>3 DEF CashIsTaken, cash
<1>5. CASE press[n].amount > 0
    BY <1>3, <1>4, <1>5 DEF IsAccepted, cash, sum
<1>6. CASE ~(press[n].amount > 0)
    <2>1. sum = LineSubtotal(lines)
        BY <1>6 DEF sum
    <2>2. /\ body.store = Shop /\ body.tendered = cash \div 100
          /\ DOMAIN body.lines = DOMAIN lines
          /\ \A i \in DOMAIN lines : /\ body.lines[i].product = lines[i].product
                                     /\ body.lines[i].qty = lines[i].qty
                                     /\ body.lines[i].bundle = lines[i].bundle
        BY BodyLines DEF cash
    <2>3. \A i \in DOMAIN lines :
              ~lines[i].drifted /\ QtyIsTaken(lines[i], product[lines[i].product])
        <3>1. \A i \in DOMAIN lines : lines[i] \in CartLine
            BY <1>1 DEF CartIsGood
        <3> QED  BY <3>1, QtyTaken DEF IsExact
    <2>4. LineSubtotal(lines) = Subtotal(body, product)
        BY <1>1, SameSubtotal
    <2>5. ASSUME NEW i \in DOMAIN lines
          PROVE  /\ Available(product[body.lines[i].product], body.store)
                 /\ LineIsValid(body.lines[i], product[body.lines[i].product])
        <3>1. lines[i] \in CartLine /\ LineIsCoherent(lines[i]) /\ IsCurrent(lines[i])
            BY <1>1 DEF CartIsGood, CartIsCoherent
        <3> QED  BY <2>2, <3>1, LineCurrent
    <2> HIDE DEF body
    <2>6. \A i, j \in DOMAIN lines : KeyOf(lines[i]) = KeyOf(lines[j]) => i = j
        BY <1>1 DEF CartIsGood, CartIsCoherent
    <2> HIDE DEF lines
    <2>7. ~HasDuplicateLines(body)
        BY <2>2, <2>6 DEF HasDuplicateLines, KeyOf
    <2>8. SaleIsAccepted(body, product)
        BY <1>3, <2>1, <2>2, <2>4, <2>5 DEF SaleIsAccepted
    <2> QED  BY <1>4, <1>6, <2>3, <2>7, <2>8 DEF IsAccepted, lines, body
<1> QED  BY <1>5, <1>6

\* A payment the till lets through is refused only for a product that changed
\* meanwhile, a number JavaScript got wrong, cash with a fraction or beyond the
\* column, or a quantity longer than its columns: the two subtotals are equal line by
\* line, and no other check of SaleCreateSerializer and create_sale can fail.
THEOREM AcceptedCorrect == Spec => TillSalesAreAccepted
<1> DEFINE Excused(n) ==
        \/ press[n].tendered % 100 # 0 \/ press[n].tendered > 100 * MaxMoney
        \/ \E i \in DOMAIN press[n].cart :
               \/ ~IsCurrent(press[n].cart[i]) \/ ~IsExact(press[n].cart[i])
               \/ IsTooLong(press[n].cart[i])
<1>1. ASSUME PaymentInv, CartInv, AmountInv, NEW n \in Press, RefuseSale(n)
      PROVE  Excused(n)
    <2>1. wire[n] = "sent" /\ ~IsAccepted(n)
        BY <1>1 DEF RefuseSale
    <2>2. n \in DOMAIN press
        BY <1>1, <2>1 DEF PaymentInv, AmountInv
    <2>3. press[n].tendered \in Nat /\ MaxMoney \in Nat
        <3>1. press[n] \in PressRecord
            BY <1>1, <2>2 DEF AmountInv
        <3> QED  BY <3>1, PricingAssumption DEF PressRecord, PricingAssumption
    <2> QED  BY <1>1, <2>1, <2>2, <2>3, PaymentAccepted
<1>2. PaymentInv /\ CartInv /\ AmountInv /\ [Next]_vars
          => [\A n \in Press : RefuseSale(n) => Excused(n)]_vars
    BY <1>1
<1> QED  BY <1>2, AmountsCorrect, PTL DEF Spec, TillSalesAreAccepted

-----------------------------------------------------------------------------
(* Totals                                                                  *)

\* A line that is current is charged at what was shown, or at one rupiah more if
\* JavaScript rounds it down.
LEMMA LineDifference ==
    ASSUME NEW l \in CartLine, LineIsCoherent(l), IsCurrent(l), ~l.drifted,
           NEW b, b.product = l.product, b.qty = l.qty, b.bundle = l.bundle
    PROVE  /\ LineTotal(b, product[b.product]) - ShownTotal(l) \in 0..1
           /\ IsExact(l) => LineTotal(b, product[b.product]) = ShownTotal(l)
<1> DEFINE x == l.qty * l.price
<1>1. LineTotal(b, product[b.product]) = (x + 50) \div 100
    BY LineCurrent DEF LineTotal
<1>2. x \in Nat
    BY DEF CartLine
<1>3. CASE <<l.qty, l.price>> \in RoundsDown
    <2>1. x % 100 = 50
        BY <1>3, TillAssumption DEF TillAssumption
    <2>2. ShownTotal(l) = x \div 100
        BY <1>3 DEF ShownTotal
    <2> HIDE DEF x
    <2>3. (x + 50) \div 100 = x \div 100 + 1 /\ x \div 100 \in Int
        BY <1>2, <2>1
    <2> QED  BY <1>1, <1>3, <2>2, <2>3 DEF IsExact
<1>4. CASE <<l.qty, l.price>> \notin RoundsDown
    <2>1. ShownTotal(l) = (x + 50) \div 100
        BY <1>4 DEF ShownTotal
    <2> HIDE DEF x
    <2>2. (x + 50) \div 100 \in Int
        BY <1>2
    <2> QED  BY <1>1, <2>1, <2>2
<1> QED  BY <1>3, <1>4

\* So is the cart, for each such line.
LEMMA SubtotalDifference ==
    ASSUME CatalogueTypes, NEW n, CartIsGood(press[n].cart),
           \A i \in DOMAIN press[n].cart : IsCurrent(press[n].cart[i]) /\ ~press[n].cart[i].drifted
    PROVE  Subtotal(Body(n), product) - LineSubtotal(press[n].cart)
               \in 0..Cardinality({i \in DOMAIN press[n].cart : ~IsExact(press[n].cart[i])})
<1> DEFINE lines == press[n].cart
           body == Body(n)
           D == DOMAIN lines
           S == {i \in D : ~IsExact(lines[i])}
           shown == [i \in DOMAIN lines |-> ShownTotal(lines[i])]
           charged == [i \in DOMAIN body.lines |->
                          LineTotal(body.lines[i], product[body.lines[i].product])]
           more == [i \in D |-> charged[i] - shown[i]]
<1>1. DOMAIN body.lines = D
    BY BodyLines
<1>2. /\ IsFiniteSet(D) /\ S \in SUBSET D
      /\ \A i \in D : shown[i] \in Nat /\ charged[i] \in Nat
    BY <1>1, CartCosts, BodyCosts
<1>3. ASSUME NEW i \in D
      PROVE  charged[i] - shown[i] \in 0..1 /\ (i \notin S => charged[i] = shown[i])
    <2>1. /\ body.lines[i].product = lines[i].product
          /\ body.lines[i].qty = lines[i].qty
          /\ body.lines[i].bundle = lines[i].bundle
        BY BodyLines
    <2>2. /\ lines[i] \in CartLine /\ LineIsCoherent(lines[i]) /\ IsCurrent(lines[i])
          /\ ~lines[i].drifted
        BY DEF CartIsGood, CartIsCoherent
    <2>3. charged[i] = LineTotal(body.lines[i], product[body.lines[i].product])
        BY <1>1
    <2>4. shown[i] = ShownTotal(lines[i])
        OBVIOUS
    <2>5. i \notin S => IsExact(lines[i])
        OBVIOUS
    <2> HIDE DEF lines, body, shown, charged, S
    <2> QED  BY <2>1, <2>2, <2>3, <2>4, <2>5, LineDifference
<1>4. LineSubtotal(lines) = Total(shown) /\ Subtotal(body, product) = Total(charged)
    BY DEF LineSubtotal, Subtotal
<1>5. DOMAIN shown = D /\ shown = [i \in D |-> shown[i]]
      /\ DOMAIN charged = D /\ charged = [i \in D |-> charged[i]]
    BY <1>1
<1> HIDE DEF shown, charged, lines, body, D, S
<1>6. shown \in [D -> Int] /\ charged \in [D -> Int]
    BY <1>2, <1>5
<1>7. /\ more \in [D -> Nat] /\ more \in [D -> Int]
      /\ \A i \in D : /\ charged[i] = shown[i] + more[i]
                      /\ more[i] <= 1 /\ (more[i] # 0 => i \in S)
    BY <1>2, <1>3
<1> HIDE DEF more
<1>8. Total(charged) = Total(shown) + Total(more)
    BY <1>2, <1>6, <1>7, TotalOfSums
<1>9. Total(more) \in 0..Cardinality(S)
    BY <1>2, <1>7, TotalOfAtMostOnes
<1>10. Total(shown) \in Int /\ Total(more) \in Int
    BY <1>2, <1>6, <1>7, TotalType
<1>11. Total(charged) - Total(shown) \in 0..Cardinality(S)
    BY <1>8, <1>9, <1>10
<1> QED  BY <1>4, <1>11 DEF lines, body, D, S

\* Unless a product changed meanwhile, the total booked is the total the cashier was
\* shown, but for at most one rupiah per line that JavaScript rounds down.
THEOREM TotalsCorrect == Spec => TotalsAgree
<1> DEFINE Inexact(n) == {i \in DOMAIN press[n].cart : ~IsExact(press[n].cart[i])}
           Agrees(n) ==
               Sell(n) /\ (\A i \in DOMAIN press[n].cart : IsCurrent(press[n].cart[i])) =>
                   booked'[n] - press[n].total \in 0..Cardinality(Inexact(n))
<1>1. ASSUME PaymentInv, CartInv, AmountInv, NEW n \in Press, Sell(n),
             \A i \in DOMAIN press[n].cart : IsCurrent(press[n].cart[i])
      PROVE  booked'[n] - press[n].total \in 0..Cardinality(Inexact(n))
    <2>1. wire[n] = "sent" /\ IsAccepted(n) /\ press \in Seq(PressRecord)
        BY <1>1 DEF Sell, AmountInv
    <2>2. n \in DOMAIN press
        BY <1>1, <2>1 DEF PaymentInv
    <2>3. ShowsTotal(press[n]) /\ CartIsGood(press[n].cart) /\ press[n].amount \in Nat
        <3>1. press[n] \in PressRecord
            BY <2>1, <2>2
        <3> QED  BY <1>1, <2>2, <3>1 DEF AmountInv, CartInv, PressRecord
    <2>4. booked'[n] = IF press[n].amount > 0 THEN press[n].amount
                       ELSE Subtotal(Body(n), product)
        BY <1>1 DEF Sell, AmountInv
    <2>5. CASE press[n].amount > 0
        <3>1. press[n].cart = << >> /\ press[n].total = press[n].amount
            BY <2>3, <2>5 DEF ShowsTotal
        <3>2. Inexact(n) = {}
            BY <3>1
        <3>3. Cardinality(Inexact(n)) = 0
            BY <3>2, FS_EmptySet
        <3> QED  BY <2>3, <2>4, <2>5, <3>1, <3>3
    <2>6. CASE ~(press[n].amount > 0)
        <3>1. press[n].total = LineSubtotal(press[n].cart)
            BY <2>3, <2>6 DEF ShowsTotal
        <3>2. \A i \in DOMAIN press[n].cart : ~press[n].cart[i].drifted
            BY <2>1, <2>6 DEF IsAccepted
        <3> QED  BY <1>1, <2>3, <2>4, <2>6, <3>1, <3>2, SubtotalDifference DEF CartInv
    <2> QED  BY <2>5, <2>6
<1>2. PaymentInv /\ CartInv /\ AmountInv /\ [Next]_vars => [\A n \in Press : Agrees(n)]_vars
    BY <1>1
<1> QED  BY <1>2, AmountsCorrect, PTL DEF Spec, TotalsAgree
=============================================================================
