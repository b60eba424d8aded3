--------------------------- MODULE ClientSessions ---------------------------
(***************************************************************************)
(* Who is logged in: the web client's tabs, which share one localStorage,  *)
(* and the tokens of the server.                                           *)
(*                                                                         *)
(* A tab keeps, for an owner and for a cashier, the token and the account  *)
(* in atoms (state.ts); every request takes its token from localStorage    *)
(* when it is sent (lib/api.ts), which another tab may have written since. *)
(* A request is answered once, or fails, at any later time.                *)
(*                                                                         *)
(* Pages: "public" is /, /login and /register, "door" is /cashier, "till"  *)
(* is whatever CashierGate guards, "office" is the dashboard.              *)
(***************************************************************************)
EXTENDS Naturals, Sequences

CONSTANTS Tab, Owner, Cashier, NoOne,
          Opening, Settled,        \* whose tokens there are at the start; owners on board
          MaxTokens, MaxMoves      \* bounds: tokens issued, clicks, loads and ends of sessions

ASSUME SessionsAssumption ==
    /\ Owner \cap Cashier = {}
    /\ NoOne \notin Owner \cup Cashier
    /\ Opening \in Seq(Owner \cup Cashier) /\ Settled \subseteq Owner
    /\ MaxTokens \in Nat /\ MaxMoves \in Nat

Account == Owner \cup Cashier
Role == {"owner", "cashier"}
OwnerPage == {"public", "onboarding", "office"}
Page == OwnerPage \cup {"door", "till", "closed"}

\* The requests a tab may have on their way: who am I, as owner and as cashier;
\* the owner's login or logout; the cashier's, or an impersonation; the onboarding.
Slot == {"owner me", "cashier me", "owner", "cashier", "onboarding"}

VARIABLES
    issued, live,     \* Token and CashierSession rows: whose, and those still good
    onboarded,        \* Profile.onboarded
    storage, writer,  \* localStorage; history: the tab that wrote it last
    view,             \* per tab: the page, the token atoms, the user and session atoms
    call,             \* per tab: its requests
    moves

server == <<issued, live, onboarded>>
local  == <<storage, writer>>
vars   == <<server, local, view, call, moves>>

Idle == [op |-> "none", who |-> NoOne, token |-> 0, onboarded |-> FALSE, reply |-> "none"]
Sent(op, who, token) == [Idle EXCEPT !.op = op, !.who = who, !.token = token]
NotShown == [r \in Role |-> NoOne]
NoCalls == [s \in Slot |-> Idle]

Init ==
    /\ issued = Opening /\ live = DOMAIN Opening
    /\ onboarded = Settled
    /\ storage \in [Role -> {0} \cup DOMAIN Opening]
    /\ \A r \in Role : storage[r] # 0 => (Opening[storage[r]] \in Owner <=> r = "owner")
    /\ writer = [r \in Role |-> NoOne]
    /\ view = [t \in Tab |-> [page |-> "closed", atom |-> [r \in Role |-> 0], shown |-> NotShown,
                              onboarded |-> FALSE]]
    /\ call = [t \in Tab |-> NoCalls]
    /\ moves = 0

-----------------------------------------------------------------------------
(* Redirects                                                               *)

\* AuthGate: where the owner's pages send a tab.
OwnerRoute(v) ==
    CASE v.atom["owner"] = 0 -> "public"
      [] v.atom["owner"] # 0 /\ v.shown["owner"] = NoOne -> v.page
      [] v.atom["owner"] # 0 /\ v.shown["owner"] # NoOne ->
            IF v.onboarded THEN "office" ELSE "onboarding"

\* CashierGate and the login page send a tab to each other.
TillRoute(v) == IF v.atom["cashier"] = 0 THEN "door" ELSE "till"

\* Mutant: the till does not look at the token.
OpenDoor(v) == IF v.page \in OwnerPage THEN [v EXCEPT !.page = OwnerRoute(v)] ELSE v

Routed(v) == [v EXCEPT !.page = IF @ \in OwnerPage THEN OwnerRoute(v) ELSE TillRoute(v)]

\* Mutant: CashierGate looks for a token in localStorage, not at its atom.
AskedIfStored(v, calls, stored) ==
    IF /\ v.page = "till" /\ stored["cashier"] # 0 /\ v.shown["cashier"] = NoOne
       /\ calls["cashier me"] = Idle
    THEN [calls EXCEPT !["cashier me"] = Sent("me", NoOne, stored["cashier"])]
    ELSE calls

\* CashierGate asks who the cashier is, unless it is being asked already.
Gated(v, calls, stored) ==
    IF /\ v.page = "till" /\ v.atom["cashier"] # 0 /\ v.shown["cashier"] = NoOne
       /\ calls["cashier me"] = Idle
    THEN [calls EXCEPT !["cashier me"] = Sent("me", NoOne, stored["cashier"])]
    ELSE calls

\* The tab renders view v with these requests on their way.
Render(t, v, calls) ==
    /\ view' = [view EXCEPT ![t] = Routed(v)]
    /\ call' = [call EXCEPT ![t] = Gated(Routed(v), calls, storage')]

\* Mutant: a token that is still stored is not replaced.
WriteIfNone(t, r, token) ==
    /\ storage' = [storage EXCEPT ![r] = IF token = 0 \/ @ = 0 THEN token ELSE @]
    /\ writer' = [writer EXCEPT ![r] = t]

\* localStorage.setItem and removeItem.
Write(t, r, token) ==
    /\ storage' = [storage EXCEPT ![r] = token]
    /\ writer' = [writer EXCEPT ![r] = t]

-----------------------------------------------------------------------------
(* What the people at the tabs do                                          *)

Move == moves < MaxMoves /\ moves' = moves + 1

\* What a new document starts from: the atoms' initial values.
Loaded(p) == [page |-> p, atom |-> storage, shown |-> NotShown, onboarded |-> FALSE]

\* AuthGate asks who the owner is when it is mounted.
LoadedCalls(p) ==
    IF p \in OwnerPage /\ storage["owner"] # 0
    THEN [NoCalls EXCEPT !["owner me"] = Sent("me", NoOne, storage["owner"])]
    ELSE NoCalls

Load(t, p) ==
    /\ Move
    /\ UNCHANGED <<server, local>>
    /\ Render(t, Loaded(p), LoadedCalls(p))

\* A link, or the browser's back button.
Navigate(t, p) ==
    /\ Move
    /\ view[t].page \notin {p, "closed"}
    /\ UNCHANGED <<server, local>>
    /\ Render(t, [view[t] EXCEPT !.page = p], call[t])

Send(t, s, request) ==
    /\ Move
    /\ call[t][s] = Idle
    /\ call' = [call EXCEPT ![t][s] = request]
    /\ UNCHANGED <<server, local, view>>

\* The login, registration and Google forms.
OwnerLogin(t, a) ==
    /\ view[t].page = "public"
    /\ Send(t, "owner", Sent("login", a, 0))

\* The store's code and the cashier's PIN.
CashierLogin(t, a) ==
    /\ view[t].page = "door"
    /\ Send(t, "cashier", Sent("login", a, 0))

\* "Keluar": in the owner's shell, which is shown once the user is known, and on
\* the onboarding page; in the till's shell, once the session is known.
OwnerLogout(t) ==
    /\ \/ view[t].page = "onboarding"
       \/ view[t].page = "office" /\ view[t].shown["owner"] # NoOne
    /\ Send(t, "owner", Sent("logout", NoOne, storage["owner"]))

CashierLogout(t) ==
    /\ view[t].page = "till" /\ view[t].shown["cashier"] # NoOne
    /\ Send(t, "cashier", Sent("logout", NoOne, storage["cashier"]))

Onboard(t) ==
    /\ view[t].page = "onboarding"
    /\ Send(t, "onboarding", Sent("onboard", NoOne, storage["owner"]))

Impersonate(t, a) ==
    /\ view[t].page = "office"
    /\ Send(t, "cashier", Sent("impersonate", a, storage["owner"]))

\* The cashier-me query is fetched again: the window gets the focus.
AskAgain(t) ==
    /\ view[t].page = "till" /\ view[t].atom["cashier"] # 0
    /\ Send(t, "cashier me", Sent("me", NoOne, storage["cashier"]))

-----------------------------------------------------------------------------
(* The server                                                              *)

Reply(t, s, reply, who, token) ==
    /\ call[t][s].op # "none" /\ call[t][s].reply = "none"
    /\ call' = [call EXCEPT ![t][s] =
                   [@ EXCEPT !.reply = reply, !.who = who, !.token = token,
                             !.onboarded = who \in onboarded']]
    /\ UNCHANGED <<local, view, moves>>

Holder(t, s) == issued[call[t][s].token]
IsGood(t, s) == call[t][s].token \in live

\* An owner has one token, which every login returns; a cashier's login issues one.
Grant(t, s) ==
    LET a == call[t][s].who
        own == {k \in live : issued[k] = a /\ a \in Owner}
    IN  /\ UNCHANGED onboarded
        /\ \/ call[t][s].op = "login"
           \/ call[t][s].op = "impersonate" /\ IsGood(t, s)
        /\ IF own # {}
           THEN \E k \in own : Reply(t, s, "ok", a, k) /\ UNCHANGED <<issued, live>>
           ELSE /\ Len(issued) < MaxTokens
                /\ issued' = Append(issued, a)
                /\ live' = live \cup {Len(issued')}
                /\ Reply(t, s, "ok", a, Len(issued'))

Identify(t, s) ==
    /\ call[t][s].op = "me" /\ IsGood(t, s)
    /\ UNCHANGED server
    /\ Reply(t, s, "ok", Holder(t, s), call[t][s].token)

\* An owner's logout deletes the owner's token, a cashier's revokes the session.
Revoke(t, s) ==
    /\ call[t][s].op = "logout" /\ IsGood(t, s)
    /\ live' = live \ {call[t][s].token}
    /\ UNCHANGED <<issued, onboarded>>
    /\ Reply(t, s, "ok", NoOne, 0)

CompleteOnboarding(t, s) ==
    /\ call[t][s].op = "onboard" /\ IsGood(t, s) /\ Holder(t, s) \notin onboarded
    /\ onboarded' = onboarded \cup {Holder(t, s)}
    /\ UNCHANGED <<issued, live>>
    /\ Reply(t, s, "ok", Holder(t, s), call[t][s].token)

\* 401, or 400 for an owner who is on board already, or for wrong credentials.
Refuse(t, s) ==
    /\ \/ call[t][s].op = "login"
       \/ ~IsGood(t, s)
       \/ call[t][s].op = "onboard" /\ IsGood(t, s) /\ Holder(t, s) \in onboarded
    /\ UNCHANGED server
    /\ Reply(t, s, "refused", NoOne, call[t][s].token)

Handle(t, s) ==
    Grant(t, s) \/ Identify(t, s) \/ Revoke(t, s) \/ CompleteOnboarding(t, s) \/ Refuse(t, s)

\* The network, or an error of the server, before or after the request is handled.
Fail(t, s) ==
    /\ call[t][s].op # "none" /\ call[t][s].reply # "failed"
    /\ call' = [call EXCEPT ![t][s] = [Sent(@.op, NoOne, 0) EXCEPT !.reply = "failed"]]
    /\ UNCHANGED <<server, local, view, moves>>

\* A session expires, its cashier is deactivated, or another device logs out.
Invalidate(k) ==
    /\ Move
    /\ live' = live \ {k}
    /\ UNCHANGED <<issued, onboarded, local, view, call>>

-----------------------------------------------------------------------------
(* Answers                                                                 *)

Answered(t, s, ops) == call[t][s].op \in ops /\ call[t][s].reply # "none"
IsOk(t, s) == call[t][s].reply = "ok"
Cleared(v, r) == [v EXCEPT !.atom[r] = 0, !.shown[r] = NoOne]
Done(t, slots) == [s \in Slot |-> IF s \in slots THEN Idle ELSE call[t][s]]

\* Mutant: an answer to me() is not dropped when token or user have changed.
OnlyThis(r) == {r}

\* The mutation itself; and the effect of AuthGate, whose cleanup cancels me().
Cancels(r) == IF r = "owner" THEN {"owner", "owner me"} ELSE {"cashier"}

AnswerLogin(t, r) ==
    LET c == call[t][r]
    IN  /\ Answered(t, r, {"login"})
        /\ IF IsOk(t, r)
           THEN /\ Write(t, r, c.token)
                /\ Render(t, [view[t] EXCEPT !.atom[r] = c.token, !.shown[r] = c.who,
                                             !.onboarded = IF r = "owner" THEN c.onboarded ELSE @],
                          Done(t, Cancels(r)))
           ELSE UNCHANGED local /\ Render(t, view[t], Done(t, {r}))
        /\ UNCHANGED <<server, moves>>

\* Mutant: the cashier's atoms are reset only by a logout that succeeded.
OnlyOnSuccess(t, r) == IsOk(t, r)

\* Whatever the answer localStorage is cleared; the owner's atoms only on success.
ResetsAtoms(t, r) == r = "cashier" \/ IsOk(t, r)

AnswerLogout(t, r) ==
    /\ Answered(t, r, {"logout"})
    /\ Write(t, r, 0)
    /\ IF ResetsAtoms(t, r) THEN Render(t, Cleared(view[t], r), Done(t, Cancels(r)))
       ELSE Render(t, view[t], Done(t, {r}))
    /\ UNCHANGED <<server, moves>>

\* completeOnboarding's user is taken as it is.
AnswerOnboarding(t) ==
    LET c == call[t]["onboarding"]
    IN  /\ Answered(t, "onboarding", {"onboard"})
        /\ UNCHANGED <<server, local, moves>>
        /\ IF IsOk(t, "onboarding")
           THEN Render(t, [view[t] EXCEPT !.shown["owner"] = c.who, !.onboarded = TRUE],
                       Done(t, {"onboarding", "owner me"}))
           ELSE Render(t, view[t], Done(t, {"onboarding"}))

\* The new session goes to localStorage only; a new tab opens at the till.
AnswerImpersonation(t) ==
    LET c == call[t]["cashier"]
    IN  /\ Answered(t, "cashier", {"impersonate"})
        /\ IF IsOk(t, "cashier")
           THEN /\ Write(t, "cashier", c.token)
                /\ LET calls == [call EXCEPT ![t] = Done(t, {"cashier"})]
                   IN  \/ call' = calls /\ UNCHANGED view
                       \/ \E n \in {u \in Tab : view[u].page = "closed"} :
                             LET v == [Loaded("till") EXCEPT !.atom = storage']
                             IN  /\ view' = [view EXCEPT ![n] = v]
                                 /\ call' = [calls EXCEPT ![n] = Gated(v, NoCalls, storage')]
           ELSE UNCHANGED local /\ Render(t, view[t], Done(t, {"cashier"}))
        /\ UNCHANGED <<server, moves>>

\* AuthGate: a 401 clears the atoms (not localStorage), another error does nothing.
AnswerOwnerMe(t) ==
    LET c == call[t]["owner me"]
        calls == Done(t, {"owner me"})
    IN  /\ Answered(t, "owner me", {"me"})
        /\ UNCHANGED <<server, local, moves>>
        /\ CASE c.reply = "ok" ->
                   Render(t, [view[t] EXCEPT !.shown["owner"] = c.who, !.onboarded = c.onboarded],
                          calls)
             [] c.reply = "refused" -> Render(t, Cleared(view[t], "owner"), calls)
             [] c.reply = "failed" -> Render(t, view[t], calls)

\* Mutant: as the owner's pages do, only a 401 ends the session.
OnRefusalOnly(t) == call[t]["cashier me"].reply = "refused"

EndsTheSession(t) == call[t]["cashier me"].reply # "ok"

\* useCashierMe: the answer is taken whatever the tab did since it asked.
AnswerCashierMe(t) ==
    LET calls == Done(t, {"cashier me"})
    IN  /\ Answered(t, "cashier me", {"me"})
        /\ UNCHANGED <<server, local, moves>>
        /\ IF EndsTheSession(t) THEN Render(t, Cleared(view[t], "cashier"), calls)
           ELSE /\ view' = [view EXCEPT ![t].shown["cashier"] =
                               IF IsOk(t, "cashier me") THEN call[t]["cashier me"].who ELSE @]
                /\ call' = [call EXCEPT ![t] = calls]

-----------------------------------------------------------------------------
Use(t) ==
    \/ \E p \in Page \ {"closed"} : Load(t, p) \/ Navigate(t, p)
    \/ \E a \in Owner : OwnerLogin(t, a)
    \/ \E a \in Cashier : CashierLogin(t, a) \/ Impersonate(t, a)
    \/ OwnerLogout(t) \/ CashierLogout(t) \/ Onboard(t) \/ AskAgain(t)

Answer(t) ==
    \/ \E r \in Role : AnswerLogin(t, r) \/ AnswerLogout(t, r)
    \/ AnswerOnboarding(t) \/ AnswerImpersonation(t) \/ AnswerOwnerMe(t) \/ AnswerCashierMe(t)

Next ==
    \/ \E t \in Tab : Use(t) \/ Answer(t)
    \/ \E t \in Tab, s \in Slot : Handle(t, s) \/ Fail(t, s)
    \/ \E k \in live : Invalidate(k)

Spec == Init /\ [][Next]_vars

\* A request is handled, fetch settles, and its promise's callbacks run.
FairSpec ==
    /\ Spec
    /\ \A t \in Tab : WF_vars(Handle(t, "cashier me")) /\ WF_vars(AnswerCashierMe(t))
-----------------------------------------------------------------------------
(* Properties                                                              *)

Token == 0..Len(issued)
CallRecord == [op : {"none", "me", "login", "logout", "onboard", "impersonate"},
               who : Account \cup {NoOne}, token : Nat, onboarded : BOOLEAN,
               reply : {"none", "ok", "refused", "failed"}]

\* Every variable has its type, tokens were issued, and no tab stays on a page
\* its atoms do not allow.
TypeOK ==
    /\ issued \in Seq(Account) /\ live \subseteq 1..Len(issued)
    /\ onboarded \subseteq Owner
    /\ storage \in [Role -> Token] /\ writer \in [Role -> Tab \cup {NoOne}]
    /\ view \in [Tab -> [page : Page, atom : [Role -> Token],
                         shown : [Role -> Account \cup {NoOne}], onboarded : BOOLEAN]]
    /\ call \in [Tab -> [Slot -> CallRecord]]
    /\ \A t \in Tab : /\ view[t].page \in {"onboarding", "office"} => view[t].atom["owner"] # 0
                      /\ view[t].page = "till" <=> view[t].page \notin OwnerPage \cup {"closed"}
                                                    /\ view[t].atom["cashier"] # 0

\* What a tab shows is whom its requests act for, as far as the tab can know:
\* no other tab has written localStorage since.
ActsAsShown(t, r) ==
    view[t].shown[r] # NoOne /\ storage[r] # 0 /\ writer[r] = t =>
        issued[storage[r]] = view[t].shown[r]

\* Once the name in the owner's shell is the account the tab acts for, it remains so,
\* unless an onboarding that was sent under another login is answered.
OwnerActsAsShown ==
    [][\A t \in Tab : ActsAsShown(t, "owner") =>
           \/ ActsAsShown(t, "owner")'
           \/ AnswerOnboarding(t) /\ call[t]["onboarding"].token # storage["owner"]]_vars

\* The same of the cashier's name at the till: it goes wrong only by the late answer
\* of cashier-me to an earlier session, or when the same tab impersonates someone.
TillActsAsShown ==
    [][\A t \in Tab : ActsAsShown(t, "cashier") =>
           \/ ActsAsShown(t, "cashier")'
           \/ AnswerCashierMe(t) /\ call[t]["cashier me"].token # storage["cashier"]
           \/ AnswerImpersonation(t)]_vars

\* A tab inside the till has a token to send, unless another tab took it away.
TillNeverSendsBare ==
    \A t \in Tab :
        view[t].page = "till" /\ view[t].shown["cashier"] # NoOne =>
            storage["cashier"] # 0 \/ writer["cashier"] # t

\* No step leaves a tab waiting at the gate of the till without its question on its way,
\* whatever other requests and tabs do meanwhile, and any answer ends the wait.
AtGate(t) == view[t].page = "till" /\ view[t].shown["cashier"] = NoOne
GateIsAnswered ==
    [][\A t \in Tab :
           /\ AtGate(t)' => call'[t]["cashier me"].op = "me"
           /\ AnswerCashierMe(t) => ~AtGate(t)']_vars

\* A till that opens with a stored token does not wait forever: the cashier is
\* shown, or is sent to the login page.
CashierGateSettles ==
    \A t \in Tab :
        AtGate(t) ~> view[t].page # "till" \/ view[t].shown["cashier"] # NoOne
=============================================================================
