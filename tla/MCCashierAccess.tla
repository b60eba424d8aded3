------------------------- MODULE MCCashierAccess -------------------------
(***************************************************************************)
(* Instances of CashierAccess: two stores with the same code, of different *)
(* tenants, with two cashiers at the start, one of them inactive with the  *)
(* PIN of the other.                                                       *)
(***************************************************************************)
EXTENDS CashierAccess, TLC

CONSTANTS tab1, tab2, till1, here, there, codeA, codeB, pin1, pin2

SharedCode == here :> codeA @@ there :> codeA

\* Ani works here; Budi is inactive and her PIN was reused (test_pin_reuse_after_deactivation).
MCOpening == <<[store |-> here, pin |-> pin1, active |-> TRUE],
               [store |-> here, pin |-> pin1, active |-> FALSE]>>
Ani  == 1
Budi == 2

Create(s, p)    == [op |-> "create", store |-> s, pin |-> p, active |-> Absent]
Patch(c, p, a)  == [op |-> "patch", cashier |-> c, pin |-> p, active |-> a]
About(op, c)    == [op |-> op, cashier |-> c]
Login(code, p)  == [op |-> "login", code |-> code, pin |-> p]
With(op, t)     == [op |-> op, token |-> t]

\* A rename is a PATCH with neither field.
Rename(c) == Patch(c, Absent, Absent)

\* CashiersTab.onReactivate: { active: true }.
Reactivate(c) == Patch(c, Absent, TRUE)

\* Creations, PATCHes with and without a PIN or an active, deletions, impersonations.
OwnerWork ==
    {Create(here, pin1), Create(here, pin2), Create(there, pin1),
     [Create(here, pin2) EXCEPT !.active = FALSE],
     Rename(Ani), Patch(Ani, pin2, Absent), Patch(Ani, Absent, FALSE),
     Patch(Budi, pin2, TRUE), Reactivate(Ani), Reactivate(Budi),
     About("delete", Ani), About("impersonate", Ani), About("delete", 4)}
TillWork ==
    {Login(codeA, pin1), Login(codeA, pin2), Login(codeB, pin1)}
    \cup {With("act", t) : t \in 1..2} \cup {With("logout", 1)}
Logins == {Login(codeA, pin1), Login(codeA, pin2)}

\* Deactivate Ani, reuse the PIN, reactivate.
ReuseWork == {About("delete", Ani), Create(here, pin1), Reactivate(Ani)}
OnlyAni   == SubSeq(MCOpening, 1, 1)

TwoTabWork == {Rename(Ani), About("delete", Ani)}

Symmetry == Permutations(Owner)
=============================================================================
