------------------------ MODULE ClientSessions_proofs ------------------------
(***************************************************************************)
(* Theorems about ClientSessions: its types, whom a tab acts for, and that *)
(* a till that shows a cashier has a token to send.                        *)
(***************************************************************************)
EXTENDS ClientSessions, TLAPS

ViewRecord ==
    [page : Page, atom : [Role -> Nat], shown : [Role -> Account \cup {NoOne}], onboarded : BOOLEAN]

\* The accounts of a role, and of the slot of its login.
Of(r) == IF r = "owner" THEN Owner ELSE Cashier

Ops(s) ==
    CASE s = "owner" -> {"none", "login", "logout"}
      [] s = "cashier" -> {"none", "login", "logout", "impersonate"}
      [] s = "onboarding" -> {"none", "onboard"}
      [] s \in {"owner me", "cashier me"} -> {"none", "me"}

\* Request c of slot s, when iss was issued: a granted token is that of the account that
\* logged in, an account that was identified is the token's, an onboarding is an owner's.
Fits(s, c, iss) ==
    /\ c.op \in Ops(s) /\ c.token <= Len(iss)
    /\ c.op \in {"login", "impersonate"} /\ c.reply \in {"none", "ok"} => c.who \in Of(s)
    /\ c.op # "logout" /\ c.op # "none" /\ c.reply = "ok" => c.token # 0 /\ iss[c.token] = c.who
    /\ c.op = "onboard" /\ c.token # 0 => iss[c.token] \in Owner

\* The token stored for a role is of that role.
StoreFits(st, iss) == \A r \in Role : st[r] <= Len(iss) /\ (st[r] # 0 => iss[st[r]] \in Of(r))

\* The page of a tab is one its atoms allow.
PageFits(v) ==
    /\ v.page \in {"onboarding", "office"} => v.atom["owner"] # 0
    /\ v.page = "till" <=> v.page \notin OwnerPage \cup {"closed"} /\ v.atom["cashier"] # 0

AtomsFit(v, iss) == \A r \in Role : v.atom[r] <= Len(iss)

ServerTyped ==
    issued \in Seq(Account) /\ live \subseteq 1..Len(issued) /\ onboarded \subseteq Owner

LocalTyped ==
    /\ storage \in [Role -> Nat] /\ writer \in [Role -> Tab \cup {NoOne}]
    /\ StoreFits(storage, issued)

ViewTyped ==
    view \in [Tab -> ViewRecord] /\ \A t \in Tab : PageFits(view[t]) /\ AtomsFit(view[t], issued)

CallTyped ==
    call \in [Tab -> [Slot -> CallRecord]] /\ \A t \in Tab, s \in Slot : Fits(s, call[t][s], issued)

Typed == ServerTyped /\ LocalTyped /\ ViewTyped /\ CallTyped

-----------------------------------------------------------------------------
(* Types                                                                   *)

\* Tokens are only ever issued, never taken out of the list.
Grown(iss, jss) == Len(iss) <= Len(jss) /\ \A k \in 1..Len(iss) : jss[k] = iss[k]

\* The types, as they are used.
LEMMA TypedFacts ==
    ASSUME Typed
    PROVE  /\ issued \in Seq(Account) /\ Len(issued) \in Nat /\ DOMAIN issued = 1..Len(issued)
           /\ \A k \in 1..Len(issued) : issued[k] \in Account
           /\ Grown(issued, issued)
           /\ \A r \in Role : storage[r] \in Nat /\ storage[r] <= Len(issued)
           /\ \A t \in Tab, s \in Slot : call[t][s] \in CallRecord /\ Fits(s, call[t][s], issued)
           /\ \A t \in Tab : view[t] \in ViewRecord /\ call[t] \in [Slot -> CallRecord]
BY DEF Typed, ServerTyped, LocalTyped, StoreFits, ViewTyped, CallTyped, Grown

\* What was issued stays issued.
LEMMA FitsGrown ==
    ASSUME NEW iss \in Seq(Account), NEW jss \in Seq(Account), Grown(iss, jss)
    PROVE  /\ \A s \in Slot, c \in CallRecord : Fits(s, c, iss) => Fits(s, c, jss)
           /\ \A st \in [Role -> Nat] : StoreFits(st, iss) => StoreFits(st, jss)
           /\ \A v \in ViewRecord : AtomsFit(v, iss) => AtomsFit(v, jss)
<1>1. Len(iss) \in Nat /\ Len(jss) \in Nat /\ Len(iss) <= Len(jss)  BY DEF Grown
<1>2. \A k \in Nat : k <= Len(iss) => k <= Len(jss)  BY <1>1
<1>3. \A k \in Nat : k # 0 /\ k <= Len(iss) => jss[k] = iss[k]  BY <1>1 DEF Grown
<1>4. ASSUME NEW s \in Slot, NEW c \in CallRecord, Fits(s, c, iss) PROVE Fits(s, c, jss)
    <2>1. c.token \in Nat  BY DEF CallRecord
    <2> QED  BY <1>2, <1>3, <1>4, <2>1 DEF Fits
<1>5. ASSUME NEW st \in [Role -> Nat], StoreFits(st, iss) PROVE StoreFits(st, jss)
    BY <1>2, <1>3, <1>5 DEF StoreFits
<1>6. ASSUME NEW v \in ViewRecord, AtomsFit(v, iss) PROVE AtomsFit(v, jss)
    <2>1. \A r \in Role : v.atom[r] \in Nat  BY DEF ViewRecord
    <2> QED  BY <1>2, <1>6, <2>1 DEF AtomsFit
<1> QED  BY <1>4, <1>5, <1>6

\* The empty request.
LEMMA IdleFacts ==
    Idle \in CallRecord /\ Idle.op = "none" /\ Idle.token = 0 /\ Idle.reply = "none"
BY DEF Idle, CallRecord

\* Nothing fits a slot always.
LEMMA IdleFits ==
    ASSUME NEW s \in Slot, NEW iss \in Seq(Account)
    PROVE  Idle \in CallRecord /\ Fits(s, Idle, iss) /\ NoCalls \in [Slot -> CallRecord]
           /\ NoCalls[s] = Idle
<1>1. Len(iss) \in Nat  OBVIOUS
<1>2. "none" \in Ops(s)  BY DEF Slot, Ops
<1> QED  BY <1>1, <1>2, IdleFacts DEF Fits, NoCalls

\* Where a view is sent.
LEMMA RoutedFacts ==
    ASSUME NEW v \in ViewRecord
    PROVE  /\ Routed(v) \in ViewRecord /\ Routed(v).atom = v.atom /\ Routed(v).shown = v.shown
           /\ Routed(v).onboarded = v.onboarded
           /\ PageFits(Routed(v))
<1>1. /\ v.page \in Page /\ v.atom \in [Role -> Nat] /\ v.shown \in [Role -> Account \cup {NoOne}]
      /\ v.onboarded \in BOOLEAN
    BY DEF ViewRecord
<1>2. v.page \in OwnerPage =>
          /\ OwnerRoute(v) \in OwnerPage
          /\ OwnerRoute(v) \in {"onboarding", "office"} => v.atom["owner"] # 0
    BY DEF OwnerRoute, OwnerPage
<1>3. TillRoute(v) = (IF v.atom["cashier"] = 0 THEN "door" ELSE "till")
    BY DEF TillRoute
<1> DEFINE p == IF v.page \in OwnerPage THEN OwnerRoute(v) ELSE TillRoute(v)
<1>4. p \in Page /\ p # "closed"
    BY <1>2, <1>3 DEF Page, OwnerPage
<1>5. Routed(v) = [v EXCEPT !.page = p]
    BY DEF Routed
<1>6. /\ Routed(v) \in ViewRecord /\ Routed(v).page = p /\ Routed(v).atom = v.atom
      /\ Routed(v).shown = v.shown /\ Routed(v).onboarded = v.onboarded
    <2> HIDE DEF p
    <2> QED  BY <1>4, <1>5 DEF ViewRecord
<1>7. PageFits(Routed(v))
    <2>1. CASE v.page \in OwnerPage
        <3>1. p \in OwnerPage /\ (p \in {"onboarding", "office"} => v.atom["owner"] # 0)
            BY <1>2, <2>1
        <3> QED  BY <1>6, <3>1 DEF PageFits, OwnerPage
    <2>2. CASE v.page \notin OwnerPage
        <3>1. p = (IF v.atom["cashier"] = 0 THEN "door" ELSE "till")  BY <1>3, <2>2
        <3> QED  BY <1>6, <3>1 DEF PageFits, OwnerPage
    <2> QED  BY <2>1, <2>2
<1> QED  BY <1>6, <1>7

\* CashierGate sends at most a me() of its own.
LEMMA GatedFacts ==
    ASSUME NEW v, NEW calls \in [Slot -> CallRecord], NEW st \in [Role -> Nat],
           NEW iss \in Seq(Account), StoreFits(st, iss), \A s \in Slot : Fits(s, calls[s], iss)
    PROVE  /\ Gated(v, calls, st) \in [Slot -> CallRecord]
           /\ \A s \in Slot : Fits(s, Gated(v, calls, st)[s], iss)
           /\ \A s \in Slot : s # "cashier me" => Gated(v, calls, st)[s] = calls[s]
<1> DEFINE c == Sent("me", NoOne, st["cashier"])
<1>1. st["cashier"] \in Nat /\ st["cashier"] <= Len(iss)  BY DEF StoreFits, Role
<1>2. c \in CallRecord /\ c.op = "me" /\ c.token = st["cashier"] /\ c.reply = "none"
    BY <1>1, IdleFacts DEF Sent, CallRecord
<1> HIDE DEF c
<1>3. Fits("cashier me", c, iss)  BY <1>1, <1>2 DEF Fits, Ops
<1>4. Gated(v, calls, st) = calls \/ Gated(v, calls, st) = [calls EXCEPT !["cashier me"] = c]
    BY DEF Gated, c
<1> QED  BY <1>2, <1>3, <1>4

\* A tab renders what has its types, after a write of the store.
LEMMA RenderTyped ==
    ASSUME Typed, NEW t \in Tab, NEW v \in ViewRecord, AtomsFit(v, issued),
           NEW calls \in [Slot -> CallRecord], \A s \in Slot : Fits(s, calls[s], issued),
           Render(t, v, calls), LocalTyped', UNCHANGED server
    PROVE  /\ Typed'
           /\ view'[t].shown = v.shown /\ view'[t].atom = v.atom
           /\ \A u \in Tab : u # t => view'[u] = view[u] /\ call'[u] = call[u]
           /\ \A s \in Slot : s # "cashier me" => call'[t][s] = calls[s]
<1>1. view' = [view EXCEPT ![t] = Routed(v)] /\ call' = [call EXCEPT ![t] = Gated(Routed(v), calls, storage')]
      /\ issued' = issued
    BY DEF Render, server
<1>2. Routed(v) \in ViewRecord /\ PageFits(Routed(v)) /\ AtomsFit(Routed(v), issued)
      /\ Routed(v).shown = v.shown /\ Routed(v).atom = v.atom
    BY RoutedFacts DEF AtomsFit
<1> DEFINE g == Gated(Routed(v), calls, storage')
<1>3. /\ g \in [Slot -> CallRecord] /\ \A s \in Slot : Fits(s, g[s], issued)
      /\ \A s \in Slot : s # "cashier me" => g[s] = calls[s]
    <2>1. storage' \in [Role -> Nat] /\ StoreFits(storage', issued) /\ issued \in Seq(Account)
        BY <1>1, TypedFacts DEF LocalTyped
    <2> QED  BY <2>1, GatedFacts
<1> HIDE DEF g
<1>4. call' = [call EXCEPT ![t] = g]  BY <1>1 DEF g
<1>5. call \in [Tab -> [Slot -> CallRecord]] /\ view \in [Tab -> ViewRecord]
    BY DEF Typed, CallTyped, ViewTyped
<1>6. /\ view'[t] = Routed(v) /\ call'[t] = g
      /\ \A u \in Tab : u # t => view'[u] = view[u] /\ call'[u] = call[u]
    BY <1>1, <1>4, <1>5
<1>7. CallTyped'
    <2>1. call' \in [Tab -> [Slot -> CallRecord]]  BY <1>3, <1>4, <1>5
    <2>2. \A u \in Tab, s \in Slot : Fits(s, call'[u][s], issued)
        BY <1>3, <1>6 DEF Typed, CallTyped
    <2> QED  BY <1>1, <2>1, <2>2 DEF CallTyped
<1>8. ViewTyped'
    <2>1. view' \in [Tab -> ViewRecord]  BY <1>1, <1>2, <1>5
    <2>2. \A u \in Tab : PageFits(view'[u]) /\ AtomsFit(view'[u], issued)
        BY <1>2, <1>6 DEF Typed, ViewTyped
    <2> QED  BY <1>1, <2>1, <2>2 DEF ViewTyped
<1>9. ServerTyped'  BY DEF Typed, ServerTyped, server
<1> QED  BY <1>2, <1>3, <1>6, <1>7, <1>8, <1>9 DEF Typed

\* One request changes, tokens are issued or revoked; no tab renders.
LEMMA CallTypedStep ==
    ASSUME Typed, NEW t \in Tab, NEW s \in Slot, NEW c \in CallRecord,
           call' = [call EXCEPT ![t][s] = c], UNCHANGED <<local, view>>,
           issued' \in Seq(Account), Grown(issued, issued'), live' \subseteq 1..Len(issued'),
           onboarded' \subseteq Owner, Fits(s, c, issued')
    PROVE  Typed'
<1>1. call \in [Tab -> [Slot -> CallRecord]] /\ view \in [Tab -> ViewRecord]
    BY DEF Typed, CallTyped, ViewTyped
<1>2. call' \in [Tab -> [Slot -> CallRecord]]  BY <1>1
<1>3. ASSUME NEW u \in Tab, NEW x \in Slot PROVE Fits(x, call'[u][x], issued')
    <2>1. CASE u = t /\ x = s
        <3>1. call'[u][x] = c  BY <1>1, <2>1
        <3> QED  BY <2>1, <3>1
    <2>2. CASE ~(u = t /\ x = s)
        <3>1. call'[u][x] = call[u][x]  BY <1>1, <2>2
        <3>2. call[u][x] \in CallRecord /\ Fits(x, call[u][x], issued)  BY TypedFacts
        <3> QED  BY <3>1, <3>2, FitsGrown, TypedFacts
    <2> QED  BY <2>1, <2>2
<1>4. CallTyped'  BY <1>2, <1>3 DEF CallTyped
<1>5. LocalTyped'
    <2>1. storage' = storage /\ writer' = writer  BY DEF local
    <2>2. storage \in [Role -> Nat] /\ StoreFits(storage, issued)  BY DEF Typed, LocalTyped
    <2>3. StoreFits(storage, issued')  BY <2>2, FitsGrown, TypedFacts
    <2> QED  BY <2>1, <2>3 DEF Typed, LocalTyped
<1>6. ViewTyped'
    <2>1. \A u \in Tab : view[u] \in ViewRecord /\ PageFits(view[u]) /\ AtomsFit(view[u], issued)
        BY DEF Typed, ViewTyped
    <2>2. \A u \in Tab : AtomsFit(view[u], issued')  BY <2>1, FitsGrown, TypedFacts
    <2> QED  BY <1>1, <2>1, <2>2 DEF ViewTyped
<1> QED  BY <1>4, <1>5, <1>6 DEF Typed, ServerTyped

\* What a reply makes of the request, when it says the truth.
LEMMA ReplyTyped ==
    ASSUME Typed, NEW t \in Tab, NEW s \in Slot, NEW reply, NEW who, NEW token,
           reply = "ok" \/ reply = "refused", who \in Account \cup {NoOne}, token \in Nat,
           Reply(t, s, reply, who, token), token <= Len(issued'),
           call[t][s].op \in {"login", "impersonate"} /\ reply = "ok" => who \in Of(s),
           call[t][s].op # "logout" /\ reply = "ok" => token # 0 /\ issued'[token] = who,
           call[t][s].op = "onboard" /\ token # 0 => issued'[token] \in Owner,
           issued' \in Seq(Account), Grown(issued, issued'), live' \subseteq 1..Len(issued'),
           onboarded' \subseteq Owner
    PROVE  Typed' /\ UNCHANGED <<local, view, moves>> /\ Grown(issued, issued')
<1> DEFINE b == who \in onboarded'
           c == [call[t][s] EXCEPT !.reply = reply, !.who = who, !.token = token, !.onboarded = b]
<1>1. call[t][s] \in CallRecord /\ call \in [Tab -> [Slot -> CallRecord]] /\ Fits(s, call[t][s], issued)
    BY TypedFacts DEF Typed, CallTyped
<1>2. b \in BOOLEAN  OBVIOUS
<1>3. call' = [call EXCEPT ![t][s] = c] /\ call[t][s].op # "none" /\ UNCHANGED <<local, view, moves>>
    BY <1>1 DEF Reply
<1> HIDE DEF b
<1>4. c \in CallRecord /\ c.op = call[t][s].op /\ c.reply = reply /\ c.who = who /\ c.token = token
    BY <1>1, <1>2 DEF CallRecord
<1> HIDE DEF c
<1>5. Fits(s, c, issued')  BY <1>1, <1>3, <1>4 DEF Fits
<1> QED  BY <1>3, <1>4, <1>5, CallTypedStep

\* What is read in it.
LEMMA ReplyFacts ==
    ASSUME Typed, NEW t \in Tab, NEW s \in Slot, NEW reply, NEW who, NEW token,
           Reply(t, s, reply, who, token)
    PROVE  call'[t][s].reply = reply /\ call'[t][s].token = token
<1> DEFINE b == who \in onboarded'
           c == [call[t][s] EXCEPT !.reply = reply, !.who = who, !.token = token, !.onboarded = b]
<1>1. call[t][s] \in CallRecord /\ call \in [Tab -> [Slot -> CallRecord]]
    BY TypedFacts DEF Typed, CallTyped
<1>2. call' = [call EXCEPT ![t][s] = c]  BY <1>1 DEF Reply
<1> HIDE DEF b
<1>3. c.reply = reply /\ c.token = token  BY <1>1 DEF CallRecord
<1> HIDE DEF c
<1> QED  BY <1>1, <1>2, <1>3

\* The handlers, one by one.
LEMMA HandleTyped ==
    ASSUME Typed, NEW t \in Tab, NEW s \in Slot, Handle(t, s)
    PROVE  Typed' /\ UNCHANGED <<local, view, moves>> /\ Grown(issued, issued')
<1> DEFINE r == call[t][s]
<1>1. /\ r \in CallRecord /\ Fits(s, r, issued) /\ r.token \in Nat /\ r.who \in Account \cup {NoOne}
      /\ issued \in Seq(Account) /\ Len(issued) \in Nat /\ Grown(issued, issued)
      /\ live \subseteq 1..Len(issued) /\ onboarded \subseteq Owner
      /\ \A k \in 1..Len(issued) : issued[k] \in Account
    BY TypedFacts DEF Typed, ServerTyped, CallRecord
<1>2. issued' = issued => Grown(issued, issued')  BY <1>1
<1>3. CASE Grant(t, s)
    <2> DEFINE a == r.who
               own == {k \in live : issued[k] = a /\ a \in Owner}
    <2>1. r.op \in {"login", "impersonate"} /\ onboarded' = onboarded
        BY <1>3 DEF Grant
    <2>2. CASE own # {}
        <3>1. PICK k \in own : Reply(t, s, "ok", a, k) /\ UNCHANGED <<issued, live>>
            BY <1>3, <2>2 DEF Grant
        <3>2. r.reply = "none"  BY <3>1 DEF Reply
        <3>3. a \in Of(s)  BY <1>1, <2>1, <3>2 DEF Fits
        <3>4. k \in 1..Len(issued) /\ issued[k] = a  BY <1>1
        <3>5. /\ issued' \in Seq(Account) /\ Grown(issued, issued') /\ issued'[k] = a
              /\ live' \subseteq 1..Len(issued') /\ k \in Nat /\ k <= Len(issued')
            BY <1>1, <1>2, <3>1, <3>4
        <3> HIDE DEF own
        <3> QED  BY <1>1, <2>1, <3>1, <3>3, <3>4, <3>5, ReplyTyped
    <2>3. CASE own = {}
        <3>1. /\ issued' = Append(issued, a) /\ live' = live \cup {Len(issued')}
              /\ Reply(t, s, "ok", a, Len(issued'))
            BY <1>3, <2>3 DEF Grant
        <3>2. r.reply = "none"  BY <3>1 DEF Reply
        <3>3. a \in Of(s)  BY <1>1, <2>1, <3>2 DEF Fits
        <3>4. a \in Account  BY <3>3 DEF Of, Account
        <3>5. /\ issued' \in Seq(Account) /\ Len(issued') = Len(issued) + 1 /\ issued'[Len(issued) + 1] = a
              /\ Grown(issued, issued')
            BY <1>1, <3>1, <3>4 DEF Grown
        <3> HIDE DEF own
        <3>6. 1..Len(issued) \subseteq 1..Len(issued') /\ Len(issued') \in 1..Len(issued')
            BY <1>1, <3>5
        <3>7. live' \subseteq 1..Len(issued')
            <4>1. live' = live \cup {Len(issued')}  BY <3>1
            <4>2. live \subseteq 1..Len(issued')  BY <1>1, <3>6
            <4> QED  BY ONLY <3>6, <4>1, <4>2
        <3>8. Len(issued') \in Nat /\ Len(issued') # 0  BY <1>1, <3>5
        <3> QED  BY <1>1, <2>1, <3>1, <3>3, <3>5, <3>7, <3>8, ReplyTyped
    <2> QED  BY <2>2, <2>3
<1>4. CASE Identify(t, s)
    <2>1. /\ Reply(t, s, "ok", issued[r.token], r.token) /\ r.op = "me" /\ r.token \in live
          /\ UNCHANGED <<issued, live, onboarded>>
        BY <1>4 DEF Identify, IsGood, Holder, server
    <2>2. r.token \in 1..Len(issued) /\ issued[r.token] \in Account  BY <1>1, <2>1
    <2> QED  BY <1>1, <1>2, <2>1, <2>2, ReplyTyped
<1>5. CASE Revoke(t, s)
    <2>1. /\ Reply(t, s, "ok", NoOne, 0) /\ r.op = "logout" /\ UNCHANGED <<issued, onboarded>>
          /\ live' \subseteq live
        BY <1>5 DEF Revoke
    <2>2. live' \subseteq 1..Len(issued')  BY <1>1, <2>1
    <2> QED  BY <1>1, <1>2, <2>1, <2>2, ReplyTyped
<1>6. CASE CompleteOnboarding(t, s)
    <2>1. /\ Reply(t, s, "ok", issued[r.token], r.token) /\ r.op = "onboard" /\ r.token \in live
          /\ UNCHANGED <<issued, live>> /\ onboarded' = onboarded \cup {issued[r.token]}
        BY <1>6 DEF CompleteOnboarding, IsGood, Holder
    <2>2. r.token \in 1..Len(issued) /\ issued[r.token] \in Owner /\ issued[r.token] \in Account
        BY <1>1, <2>1 DEF Fits
    <2>3. onboarded' \subseteq Owner  BY <1>1, <2>1, <2>2
    <2> QED  BY <1>1, <1>2, <2>1, <2>2, <2>3, ReplyTyped
<1>7. CASE Refuse(t, s)
    <2>1. /\ Reply(t, s, "refused", NoOne, r.token) /\ UNCHANGED <<issued, live, onboarded>>
        BY <1>7 DEF Refuse, server
    <2>2. r.token <= Len(issued) /\ (r.op = "onboard" /\ r.token # 0 => issued[r.token] \in Owner)
        BY <1>1 DEF Fits
    <2> QED  BY <1>1, <1>2, <2>1, <2>2, ReplyTyped
<1> QED  BY <1>3, <1>4, <1>5, <1>6, <1>7 DEF Handle

\* A request is lost, or a session ends elsewhere.
LEMMA FailTyped ==
    ASSUME Typed, \/ \E t \in Tab, s \in Slot : Fail(t, s)
                  \/ \E k \in live : Invalidate(k)
    PROVE  Typed' /\ UNCHANGED <<issued, local, view>>
<1>1. /\ issued \in Seq(Account) /\ Len(issued) \in Nat /\ Grown(issued, issued)
      /\ live \subseteq 1..Len(issued) /\ onboarded \subseteq Owner
    BY TypedFacts DEF Typed, ServerTyped
<1>2. ASSUME NEW t \in Tab, NEW s \in Slot, Fail(t, s) PROVE Typed' /\ UNCHANGED <<issued, local, view>>
    <2> DEFINE c == [Sent(call[t][s].op, NoOne, 0) EXCEPT !.reply = "failed"]
    <2>1. call' = [call EXCEPT ![t][s] = c] /\ UNCHANGED <<server, local, view>>
        BY <1>2, TypedFacts DEF Fail, Typed, CallTyped
    <2>2. call[t][s] \in CallRecord /\ Fits(s, call[t][s], issued)  BY TypedFacts
    <2>3. /\ c \in CallRecord /\ c.op = call[t][s].op /\ c.reply = "failed" /\ c.token = 0
        BY <2>2, IdleFacts DEF Sent, CallRecord
    <2> HIDE DEF c
    <2>4. Fits(s, c, issued)  BY <1>1, <2>2, <2>3 DEF Fits
    <2> QED  BY <1>1, <2>1, <2>3, <2>4, CallTypedStep DEF server
<1>3. ASSUME NEW k \in live, Invalidate(k) PROVE Typed' /\ UNCHANGED <<issued, local, view>>
    <2>1. UNCHANGED <<issued, onboarded, local, view, call>> /\ live' \subseteq live
        BY <1>3 DEF Invalidate
    <2> QED  BY <1>1, <2>1 DEF Typed, ServerTyped, LocalTyped, ViewTyped, CallTyped, local
<1> QED  BY <1>2, <1>3

\* What a request is sent with.
LEMMA SentFacts ==
    ASSUME NEW op \in {"me", "login", "logout", "onboard", "impersonate"},
           NEW who \in Account \cup {NoOne}, NEW token \in Nat
    PROVE  /\ Sent(op, who, token) \in CallRecord
           /\ Sent(op, who, token).op = op /\ Sent(op, who, token).who = who
           /\ Sent(op, who, token).token = token /\ Sent(op, who, token).reply = "none"
BY IdleFacts DEF Sent, CallRecord

\* A tab sends a request that fits.
LEMMA SentTyped ==
    ASSUME Typed, NEW t \in Tab, NEW s \in Slot, NEW c \in CallRecord, Fits(s, c, issued),
           Send(t, s, c)
    PROVE  /\ Typed' /\ UNCHANGED <<issued, local, view>>
           /\ \A u \in Tab, x \in Slot : u # t \/ x # s => call'[u][x] = call[u][x]
<1>1. call' = [call EXCEPT ![t][s] = c] /\ UNCHANGED <<server, local, view>>  BY DEF Send
<1>2. \A u \in Tab, x \in Slot : u # t \/ x # s => call'[u][x] = call[u][x]
    BY <1>1 DEF Typed, CallTyped
<1>3. Typed'
    BY <1>1, CallTypedStep, TypedFacts DEF server, Typed, ServerTyped
<1> QED  BY <1>1, <1>2, <1>3 DEF server

\* The clicks that send.
Sends(t) ==
    \/ \E a \in Owner : OwnerLogin(t, a)
    \/ \E a \in Cashier : CashierLogin(t, a) \/ Impersonate(t, a)
    \/ OwnerLogout(t) \/ CashierLogout(t) \/ Onboard(t) \/ AskAgain(t)

\* They send a request that fits, with a token found in the store, if any.
LEMMA SendsFitting ==
    ASSUME Typed, NEW t \in Tab, Sends(t)
    PROVE  \E s \in Slot \ {"owner me"}, c \in CallRecord : Fits(s, c, issued) /\ c.op # "none" /\ Send(t, s, c)
<1>1. /\ storage["owner"] \in Nat /\ storage["owner"] <= Len(issued)
      /\ storage["owner"] # 0 => issued[storage["owner"]] \in Owner
      /\ storage["cashier"] \in Nat /\ storage["cashier"] <= Len(issued)
      /\ Len(issued) \in Nat /\ 0 <= Len(issued)
    BY TypedFacts DEF Typed, LocalTyped, StoreFits, Role, Of
<1>2. NoOne \in Account \cup {NoOne} /\ 0 \in Nat
      /\ \A a \in Owner \cup Cashier : a \in Account \cup {NoOne}
    BY DEF Account
<1>3. ASSUME NEW a \in Owner, OwnerLogin(t, a)
      PROVE  \E s \in Slot \ {"owner me"}, c \in CallRecord : Fits(s, c, issued) /\ c.op # "none" /\ Send(t, s, c)
    <2> DEFINE c == Sent("login", a, 0)
    <2>1. Send(t, "owner", c)  BY <1>3 DEF OwnerLogin
    <2>2. c \in CallRecord /\ c.op = "login" /\ c.who = a /\ c.token = 0 /\ c.reply = "none"
        BY <1>2, SentFacts
    <2> HIDE DEF c
    <2>3. Fits("owner", c, issued)  BY <1>1, <2>2 DEF Fits, Ops, Of
    <2> QED  BY <2>1, <2>2, <2>3 DEF Slot
<1>4. ASSUME NEW a \in Cashier, CashierLogin(t, a)
      PROVE  \E s \in Slot \ {"owner me"}, c \in CallRecord : Fits(s, c, issued) /\ c.op # "none" /\ Send(t, s, c)
    <2> DEFINE c == Sent("login", a, 0)
    <2>1. Send(t, "cashier", c)  BY <1>4 DEF CashierLogin
    <2>2. c \in CallRecord /\ c.op = "login" /\ c.who = a /\ c.token = 0 /\ c.reply = "none"
        BY <1>2, SentFacts
    <2> HIDE DEF c
    <2>3. Fits("cashier", c, issued)  BY <1>1, <2>2 DEF Fits, Ops, Of
    <2> QED  BY <2>1, <2>2, <2>3 DEF Slot
<1>5. ASSUME NEW a \in Cashier, Impersonate(t, a)
      PROVE  \E s \in Slot \ {"owner me"}, c \in CallRecord : Fits(s, c, issued) /\ c.op # "none" /\ Send(t, s, c)
    <2> DEFINE c == Sent("impersonate", a, storage["owner"])
    <2>1. Send(t, "cashier", c)  BY <1>5 DEF Impersonate
    <2>2. c \in CallRecord /\ c.op = "impersonate" /\ c.who = a /\ c.token = storage["owner"]
          /\ c.reply = "none"
        BY <1>1, <1>2, SentFacts
    <2> HIDE DEF c
    <2>3. Fits("cashier", c, issued)  BY <1>1, <2>2 DEF Fits, Ops, Of
    <2> QED  BY <2>1, <2>2, <2>3 DEF Slot
<1>6. CASE OwnerLogout(t)
    <2> DEFINE c == Sent("logout", NoOne, storage["owner"])
    <2>1. Send(t, "owner", c)  BY <1>6 DEF OwnerLogout
    <2>2. c \in CallRecord /\ c.op = "logout" /\ c.token = storage["owner"] /\ c.reply = "none"
        BY <1>1, <1>2, SentFacts
    <2> HIDE DEF c
    <2>3. Fits("owner", c, issued)  BY <1>1, <2>2 DEF Fits, Ops
    <2> QED  BY <2>1, <2>2, <2>3 DEF Slot
<1>9. CASE CashierLogout(t)
    <2> DEFINE c == Sent("logout", NoOne, storage["cashier"])
    <2>1. Send(t, "cashier", c)  BY <1>9 DEF CashierLogout
    <2>2. c \in CallRecord /\ c.op = "logout" /\ c.token = storage["cashier"] /\ c.reply = "none"
        BY <1>1, <1>2, SentFacts
    <2> HIDE DEF c
    <2>3. Fits("cashier", c, issued)  BY <1>1, <2>2 DEF Fits, Ops
    <2> QED  BY <2>1, <2>2, <2>3 DEF Slot
<1>7. CASE Onboard(t)
    <2> DEFINE c == Sent("onboard", NoOne, storage["owner"])
    <2>1. Send(t, "onboarding", c)  BY <1>7 DEF Onboard
    <2>2. c \in CallRecord /\ c.op = "onboard" /\ c.token = storage["owner"] /\ c.reply = "none"
        BY <1>1, <1>2, SentFacts
    <2> HIDE DEF c
    <2>3. Fits("onboarding", c, issued)  BY <1>1, <2>2 DEF Fits, Ops
    <2> QED  BY <2>1, <2>2, <2>3 DEF Slot
<1>8. CASE AskAgain(t)
    <2> DEFINE c == Sent("me", NoOne, storage["cashier"])
    <2>1. Send(t, "cashier me", c)  BY <1>8 DEF AskAgain
    <2>2. c \in CallRecord /\ c.op = "me" /\ c.token = storage["cashier"] /\ c.reply = "none"
        BY <1>1, <1>2, SentFacts
    <2> HIDE DEF c
    <2>3. Fits("cashier me", c, issued)  BY <1>1, <2>2 DEF Fits, Ops
    <2> QED  BY <2>1, <2>2, <2>3 DEF Slot
<1> QED  BY <1>3, <1>4, <1>5, <1>6, <1>7, <1>8, <1>9 DEF Sends

LEMMA SendsTyped ==
    ASSUME Typed, NEW t \in Tab, Sends(t)
    PROVE  /\ Typed' /\ UNCHANGED <<issued, local, view>>
           /\ \A u \in Tab : call'[u]["owner me"] = call[u]["owner me"]
<1>1. PICK s \in Slot \ {"owner me"}, c \in CallRecord : Fits(s, c, issued) /\ c.op # "none" /\ Send(t, s, c)
    BY SendsFitting
<1>2. "owner me" \in Slot  BY DEF Slot
<1> QED  BY <1>1, <1>2, SentTyped

\* Requests that are over.
LEMMA DoneFacts ==
    ASSUME Typed, NEW t \in Tab, NEW S
    PROVE  /\ Done(t, S) \in [Slot -> CallRecord]
           /\ \A s \in Slot : Fits(s, Done(t, S)[s], issued)
           /\ \A s \in Slot : Done(t, S)[s] = IF s \in S THEN Idle ELSE call[t][s]
<1>1. issued \in Seq(Account) /\ \A s \in Slot : call[t][s] \in CallRecord /\ Fits(s, call[t][s], issued)
    BY TypedFacts
<1>2. \A s \in Slot : Idle \in CallRecord /\ Fits(s, Idle, issued)  BY <1>1, IdleFits
<1> QED  BY <1>1, <1>2 DEF Done

\* A tab writes a token of the role.
LEMMA WriteTyped ==
    ASSUME Typed, NEW t \in Tab, NEW r \in Role, NEW token \in Nat, Write(t, r, token),
           token <= Len(issued), token # 0 => issued[token] \in Of(r), UNCHANGED server
    PROVE  /\ LocalTyped' /\ storage'[r] = token /\ writer'[r] = t
           /\ \A x \in Role : x # r => storage'[x] = storage[x] /\ writer'[x] = writer[x]
BY DEF Typed, LocalTyped, StoreFits, Write, server

-----------------------------------------------------------------------------
(* The invariant                                                           *)

\* A me() of AuthGate, c, that may still be believed by tab t was sent with the token
\* the tab wrote.
MeFits(c, st, w, t) ==
    c.op = "me" /\ c.reply \in {"none", "ok"} /\ w["owner"] = t /\ st["owner"] # 0 =>
        c.token = st["owner"]

\* A tab whose cashier's atom is set, and that wrote the store, wrote a token.
Backed(v, st, w, t) == v.atom["cashier"] # 0 /\ w["cashier"] = t => st["cashier"] # 0

Inv ==
    /\ Typed
    /\ \A t \in Tab : /\ MeFits(call[t]["owner me"], storage, writer, t)
                      /\ Backed(view[t], storage, writer, t)

\* What is shown in view v of tab t is whom its requests act for.
Shows(v, r, st, w, t, iss) ==
    v.shown[r] # NoOne /\ st[r] # 0 /\ w[r] = t => iss[st[r]] = v.shown[r]

\* A tab takes view w and the requests k; the store was written by that tab, if at all.
LEMMA Taken ==
    ASSUME Inv, NEW t \in Tab, NEW w \in ViewRecord, PageFits(w), AtomsFit(w, issued),
           NEW k \in [Slot -> CallRecord], \A s \in Slot : Fits(s, k[s], issued),
           view' = [view EXCEPT ![t] = w], call' = [call EXCEPT ![t] = k],
           LocalTyped', UNCHANGED server,
           \A r \in Role : (storage'[r] = storage[r] /\ writer'[r] = writer[r]) \/ writer'[r] = t,
           MeFits(k["owner me"], storage', writer', t), Backed(w, storage', writer', t)
    PROVE  /\ Inv'
           /\ \A r \in Role : Shows(w, r, storage', writer', t, issued) => ActsAsShown(t, r)'
           /\ \A u \in Tab \ {t}, r \in Role : ActsAsShown(u, r) => ActsAsShown(u, r)'
<1>1. call \in [Tab -> [Slot -> CallRecord]] /\ view \in [Tab -> ViewRecord] /\ issued' = issued
      /\ "owner" \in Role /\ "cashier" \in Role
    BY DEF Inv, Typed, CallTyped, ViewTyped, server, Role
<1>2. /\ view'[t] = w /\ call'[t] = k
      /\ \A u \in Tab : u # t => view'[u] = view[u] /\ call'[u] = call[u]
    BY <1>1
<1>3. CallTyped'
    <2>1. call' \in [Tab -> [Slot -> CallRecord]]  BY <1>1
    <2>2. \A u \in Tab, s \in Slot : Fits(s, call'[u][s], issued)
        BY <1>2 DEF Inv, Typed, CallTyped
    <2> QED  BY <1>1, <2>1, <2>2 DEF CallTyped
<1>4. ViewTyped'
    <2>1. view' \in [Tab -> ViewRecord]  BY <1>1
    <2>2. \A u \in Tab : PageFits(view'[u]) /\ AtomsFit(view'[u], issued)
        BY <1>2 DEF Inv, Typed, ViewTyped
    <2> QED  BY <1>1, <2>1, <2>2 DEF ViewTyped
<1>5. Typed'  BY <1>3, <1>4 DEF Inv, Typed, ServerTyped, server
<1>6. ASSUME NEW u \in Tab
      PROVE  /\ MeFits(call'[u]["owner me"], storage', writer', u)
             /\ Backed(view'[u], storage', writer', u)
    <2>1. CASE u = t  BY <1>2, <2>1
    <2>2. CASE u # t
        <3>1. call'[u] = call[u] /\ view'[u] = view[u]  BY <1>2, <2>2
        <3>2. MeFits(call[u]["owner me"], storage, writer, u) /\ Backed(view[u], storage, writer, u)
            BY DEF Inv
        <3> QED  BY <1>1, <2>2, <3>1, <3>2 DEF MeFits, Backed
    <2> QED  BY <2>1, <2>2
<1>7. ASSUME NEW r \in Role, Shows(w, r, storage', writer', t, issued) PROVE ActsAsShown(t, r)'
    BY <1>1, <1>2, <1>7 DEF Shows, ActsAsShown
<1>8. ASSUME NEW u \in Tab \ {t}, NEW r \in Role, ActsAsShown(u, r) PROVE ActsAsShown(u, r)'
    BY <1>1, <1>2, <1>8 DEF ActsAsShown
<1> QED  BY <1>5, <1>6, <1>7, <1>8 DEF Inv

\* The same, when the tab renders.
LEMMA Rendered ==
    ASSUME Inv, NEW t \in Tab, NEW v \in ViewRecord, AtomsFit(v, issued),
           NEW calls \in [Slot -> CallRecord], \A s \in Slot : Fits(s, calls[s], issued),
           Render(t, v, calls), LocalTyped', UNCHANGED server,
           \A r \in Role : (storage'[r] = storage[r] /\ writer'[r] = writer[r]) \/ writer'[r] = t,
           MeFits(calls["owner me"], storage', writer', t), Backed(v, storage', writer', t)
    PROVE  /\ Inv'
           /\ \A r \in Role : Shows(v, r, storage', writer', t, issued) => ActsAsShown(t, r)'
           /\ \A u \in Tab \ {t}, r \in Role : ActsAsShown(u, r) => ActsAsShown(u, r)'
<1> DEFINE w == Routed(v)
           k == Gated(w, calls, storage')
<1>1. /\ w \in ViewRecord /\ w.atom = v.atom /\ w.shown = v.shown /\ PageFits(w)
    BY RoutedFacts
<1>2. AtomsFit(w, issued) /\ Backed(w, storage', writer', t)
      /\ \A r \in Role : Shows(v, r, storage', writer', t, issued) => Shows(w, r, storage', writer', t, issued)
    BY <1>1 DEF AtomsFit, Backed, Shows
<1>3. storage' \in [Role -> Nat] /\ StoreFits(storage', issued) /\ issued \in Seq(Account)
    BY TypedFacts DEF LocalTyped, Inv, server
<1>4. /\ k \in [Slot -> CallRecord] /\ \A s \in Slot : Fits(s, k[s], issued)
      /\ \A s \in Slot : s # "cashier me" => k[s] = calls[s]
    BY <1>3, GatedFacts
<1>5. k["owner me"] = calls["owner me"]  BY <1>4 DEF Slot
<1>6. view' = [view EXCEPT ![t] = w] /\ call' = [call EXCEPT ![t] = k]  BY DEF Render
<1> HIDE DEF w, k
<1> QED  BY <1>1, <1>2, <1>4, <1>5, <1>6, Taken

-----------------------------------------------------------------------------
(* The steps, one by one                                                   *)

\* The steps that excuse a tab from acting for whom it shows.
Excused(t, r) ==
    \/ r = "owner" /\ AnswerOnboarding(t) /\ call[t]["onboarding"].token # storage["owner"]
    \/ r = "cashier" /\ AnswerCashierMe(t) /\ call[t]["cashier me"].token # storage["cashier"]
    \/ r = "cashier" /\ AnswerImpersonation(t)

Kept == \A t \in Tab, r \in Role : ActsAsShown(t, r) => ActsAsShown(t, r)' \/ Excused(t, r)

\* The facts of the invariant, as the steps of a tab use them.
LEMMA TabFacts ==
    ASSUME Inv, NEW t \in Tab
    PROVE  /\ view[t] \in ViewRecord /\ view[t].page \in Page
           /\ view[t].atom \in [Role -> Nat] /\ view[t].shown \in [Role -> Account \cup {NoOne}]
           /\ view[t].onboarded \in BOOLEAN
           /\ AtomsFit(view[t], issued) /\ PageFits(view[t])
           /\ \A s \in Slot : /\ call[t][s] \in CallRecord /\ Fits(s, call[t][s], issued)
                              /\ call[t][s].token \in Nat /\ call[t][s].onboarded \in BOOLEAN
                              /\ call[t][s].who \in Account \cup {NoOne}
           /\ MeFits(call[t]["owner me"], storage, writer, t)
           /\ Backed(view[t], storage, writer, t)
           /\ storage \in [Role -> Nat] /\ StoreFits(storage, issued) /\ LocalTyped
           /\ \A r \in Role : ActsAsShown(t, r) => Shows(view[t], r, storage, writer, t, issued)
           /\ issued \in Seq(Account) /\ Len(issued) \in Nat
           /\ "owner" \in Role /\ "cashier" \in Role /\ "owner me" \in Slot
<1>1. view[t] \in ViewRecord /\ AtomsFit(view[t], issued) /\ PageFits(view[t])
    BY DEF Inv, Typed, ViewTyped
<1>2. \A s \in Slot : call[t][s] \in CallRecord /\ Fits(s, call[t][s], issued)
    BY TypedFacts DEF Inv
<1>3. /\ storage \in [Role -> Nat] /\ StoreFits(storage, issued) /\ LocalTyped
      /\ issued \in Seq(Account) /\ Len(issued) \in Nat
    BY TypedFacts DEF Inv, Typed, LocalTyped
<1>4. \A r \in Role : ActsAsShown(t, r) => Shows(view[t], r, storage, writer, t, issued)
    BY DEF ActsAsShown, Shows
<1>5. /\ view[t].page \in Page
      /\ view[t].atom \in [Role -> Nat] /\ view[t].shown \in [Role -> Account \cup {NoOne}]
      /\ view[t].onboarded \in BOOLEAN
    BY <1>1 DEF ViewRecord
<1>6. \A s \in Slot : /\ call[t][s].token \in Nat /\ call[t][s].onboarded \in BOOLEAN
                      /\ call[t][s].who \in Account \cup {NoOne}
    BY <1>2 DEF CallRecord
<1>7. "owner" \in Role /\ "cashier" \in Role /\ "owner me" \in Slot  BY DEF Role, Slot
<1> QED  BY <1>1, <1>2, <1>3, <1>4, <1>5, <1>6, <1>7 DEF Inv

\* A tab renders what it showed, or less, with some requests over; the store is as it was.
LEMMA RendersLess ==
    ASSUME Inv, NEW t \in Tab, NEW v \in ViewRecord, NEW S, Render(t, v, Done(t, S)),
           UNCHANGED <<server, local>>, AtomsFit(v, issued),
           v.atom["cashier"] # 0 => view[t].atom["cashier"] # 0,
           \A r \in Role : v.shown[r] = view[t].shown[r] \/ v.shown[r] = NoOne
    PROVE  Inv' /\ Kept
<1>1. /\ Done(t, S) \in [Slot -> CallRecord] /\ \A s \in Slot : Fits(s, Done(t, S)[s], issued)
      /\ Done(t, S)["owner me"] = (IF "owner me" \in S THEN Idle ELSE call[t]["owner me"])
    <2>1. "owner me" \in Slot  BY DEF Slot
    <2>2. Typed  BY DEF Inv
    <2>3. /\ Done(t, S) \in [Slot -> CallRecord] /\ \A s \in Slot : Fits(s, Done(t, S)[s], issued)
          /\ \A s \in Slot : Done(t, S)[s] = IF s \in S THEN Idle ELSE call[t][s]
        BY <2>2, DoneFacts
    <2> QED  BY <2>1, <2>3
<1>2. storage' = storage /\ writer' = writer /\ LocalTyped'
    BY TabFacts DEF local, server, LocalTyped
<1>3. MeFits(Done(t, S)["owner me"], storage', writer', t)
    BY <1>1, <1>2, TabFacts, IdleFacts DEF MeFits
<1>4. Backed(v, storage', writer', t)  BY <1>2, TabFacts DEF Backed
<1>5. \A r \in Role : ActsAsShown(t, r) => Shows(v, r, storage', writer', t, issued)
    BY <1>2, TabFacts DEF Shows
<1>6. UNCHANGED server  OBVIOUS
<1>7. /\ Inv'
      /\ \A r \in Role : Shows(v, r, storage', writer', t, issued) => ActsAsShown(t, r)'
      /\ \A u \in Tab \ {t}, r \in Role : ActsAsShown(u, r) => ActsAsShown(u, r)'
    BY <1>1, <1>2, <1>3, <1>4, <1>6, Rendered
<1> QED  BY <1>5, <1>7 DEF Kept

\* A document is loaded.
LEMMA LoadStep ==
    ASSUME Inv, NEW t \in Tab, NEW p \in Page, Load(t, p)
    PROVE  Inv' /\ Kept
<1> DEFINE v == Loaded(p)
           k == LoadedCalls(p)
           c == Sent("me", NoOne, storage["owner"])
<1>1. Render(t, v, k) /\ UNCHANGED <<server, local>>  BY DEF Load
<1>2. storage' = storage /\ writer' = writer /\ LocalTyped' /\ UNCHANGED server
    BY <1>1, TabFacts DEF local, server, LocalTyped
<1>3. /\ v \in ViewRecord /\ v.atom = storage /\ v.shown = NotShown
      /\ \A r \in Role : v.shown[r] = NoOne
    BY TabFacts DEF Loaded, NotShown, ViewRecord
<1>4. AtomsFit(v, issued) /\ Backed(v, storage', writer', t)
      /\ \A r \in Role : Shows(v, r, storage', writer', t, issued)
    BY <1>2, <1>3, TabFacts DEF AtomsFit, StoreFits, Backed, Shows
<1>5. c \in CallRecord /\ c.op = "me" /\ c.token = storage["owner"] /\ c.reply = "none"
    <2>1. storage["owner"] \in Nat /\ NoOne \in Account \cup {NoOne}  BY TabFacts
    <2> QED  BY <2>1, SentFacts
<1>6. k = NoCalls \/ k = [NoCalls EXCEPT !["owner me"] = c]  BY DEF LoadedCalls
<1> HIDE DEF v, k, c
<1>7. Fits("owner me", c, issued)  BY <1>5, TabFacts DEF Fits, Ops, StoreFits
<1>8. /\ NoCalls \in [Slot -> CallRecord] /\ NoCalls["owner me"] = Idle
      /\ \A s \in Slot : Fits(s, NoCalls[s], issued)
    BY IdleFits, TabFacts
<1>9. /\ k \in [Slot -> CallRecord] /\ \A s \in Slot : Fits(s, k[s], issued)
      /\ k["owner me"] \in {Idle, c}
    BY <1>5, <1>6, <1>7, <1>8, TabFacts
<1>10. MeFits(k["owner me"], storage', writer', t)
    BY <1>2, <1>5, <1>9, IdleFacts DEF MeFits
<1>11. /\ Inv'
       /\ \A r \in Role : Shows(v, r, storage', writer', t, issued) => ActsAsShown(t, r)'
       /\ \A u \in Tab \ {t}, r \in Role : ActsAsShown(u, r) => ActsAsShown(u, r)'
    BY <1>1, <1>2, <1>3, <1>4, <1>9, <1>10, Rendered
<1> QED  BY <1>4, <1>11 DEF Kept

\* A link is followed.
LEMMA NavigateStep ==
    ASSUME Inv, NEW t \in Tab, NEW p \in Page, Navigate(t, p)
    PROVE  Inv' /\ Kept
<1> DEFINE v == [view[t] EXCEPT !.page = p]
<1>1. Render(t, v, call[t]) /\ UNCHANGED <<server, local>>  BY DEF Navigate
<1>2. v \in ViewRecord /\ v.atom = view[t].atom /\ v.shown = view[t].shown
    BY TabFacts DEF ViewRecord
<1> HIDE DEF v
<1>3. Done(t, {}) = call[t]
    <2>1. call[t] \in [Slot -> CallRecord]  BY TypedFacts DEF Inv
    <2> QED  BY <2>1 DEF Done
<1>4. AtomsFit(v, issued)  BY <1>2, TabFacts DEF AtomsFit
<1> QED  BY <1>1, <1>2, <1>3, <1>4, RendersLess

\* A login is answered.
LEMMA LoginStep ==
    ASSUME Inv, NEW t \in Tab, NEW r \in Role, AnswerLogin(t, r)
    PROVE  Inv' /\ Kept
<1> DEFINE c == call[t][r]
           b == IF r = "owner" THEN c.onboarded ELSE view[t].onboarded
           v == [view[t] EXCEPT !.atom[r] = c.token, !.shown[r] = c.who, !.onboarded = b]
           k == Done(t, Cancels(r))
<1>1. r \in Slot /\ c.op = "login" /\ UNCHANGED server  BY DEF AnswerLogin, Answered, Role, Slot
<1>2. CASE ~IsOk(t, r)
    <2>1. Render(t, view[t], Done(t, {r})) /\ UNCHANGED <<server, local>>
        BY <1>1, <1>2 DEF AnswerLogin
    <2> QED  BY <2>1, RendersLess, TabFacts
<1>3. CASE IsOk(t, r)
    <2>1. Write(t, r, c.token)
        BY <1>3 DEF AnswerLogin
    <2>2. Render(t, v, k)
        BY <1>3 DEF AnswerLogin
    <2>3. /\ c.token \in Nat /\ c.token <= Len(issued) /\ c.token # 0 /\ issued[c.token] = c.who
          /\ c.who \in Of(r) /\ c.who \in Account \cup {NoOne} /\ b \in BOOLEAN
        BY <1>1, <1>3, TabFacts DEF IsOk, Fits
    <2>4. LocalTyped' /\ storage'[r] = c.token /\ writer'[r] = t
          /\ \A x \in Role : x # r => storage'[x] = storage[x] /\ writer'[x] = writer[x]
        BY <1>1, <2>1, <2>3, WriteTyped DEF Inv
    <2>5. /\ v \in ViewRecord /\ AtomsFit(v, issued)
          /\ v.atom = [view[t].atom EXCEPT ![r] = c.token] /\ v.shown = [view[t].shown EXCEPT ![r] = c.who]
        <3>1. /\ view[t] \in ViewRecord /\ AtomsFit(view[t], issued)
              /\ view[t].atom \in [Role -> Nat] /\ view[t].shown \in [Role -> Account \cup {NoOne}]
            BY TabFacts
        <3> DEFINE a == [view[t].atom EXCEPT ![r] = c.token]
                   n == [view[t].shown EXCEPT ![r] = c.who]
        <3>2. v = [view[t] EXCEPT !.atom = a, !.shown = n, !.onboarded = b]
            BY <3>1 DEF ViewRecord
        <3> HIDE DEF b, c, v
        <3>3. a \in [Role -> Nat] /\ n \in [Role -> Account \cup {NoOne}]
              /\ \A x \in Role : a[x] = IF x = r THEN c.token ELSE view[t].atom[x]
            BY <2>3, <3>1
        <3> HIDE DEF a, n
        <3>4. v \in ViewRecord /\ v.atom = a /\ v.shown = n
            BY <2>3, <3>1, <3>2, <3>3 DEF ViewRecord
        <3>5. AtomsFit(v, issued)  BY <2>3, <3>1, <3>3, <3>4 DEF AtomsFit
        <3> QED  BY <3>4, <3>5 DEF a, n
    <2> HIDE DEF v, b
    <2>6. /\ k \in [Slot -> CallRecord] /\ \A s \in Slot : Fits(s, k[s], issued)
          /\ k["owner me"] = IF r = "owner" THEN Idle ELSE call[t]["owner me"]
        <3>1. Typed /\ "owner me" \in Slot  BY DEF Inv, Slot
        <3>2. /\ k \in [Slot -> CallRecord] /\ \A s \in Slot : Fits(s, k[s], issued)
              /\ \A s \in Slot : k[s] = IF s \in Cancels(r) THEN Idle ELSE call[t][s]
            BY <3>1, DoneFacts
        <3>3. "owner me" \in Cancels(r) <=> r = "owner"  BY DEF Cancels
        <3> QED  BY <3>1, <3>2, <3>3
    <2> HIDE DEF k
    <2>7. MeFits(k["owner me"], storage', writer', t)
        BY <2>4, <2>6, TabFacts, IdleFacts DEF MeFits
    <2>12. /\ view[t].atom \in [Role -> Nat] /\ view[t].shown \in [Role -> Account \cup {NoOne}]
           /\ "cashier" \in Role /\ Backed(view[t], storage, writer, t)
           /\ \A x \in Role : ActsAsShown(t, x) => Shows(view[t], x, storage, writer, t, issued)
        BY TabFacts
    <2> HIDE DEF c
    <2>8. Backed(v, storage', writer', t)
        BY <2>3, <2>4, <2>5, <2>12 DEF Backed
    <2>9. \A x \in Role : ActsAsShown(t, x) => Shows(v, x, storage', writer', t, issued)
        BY <2>3, <2>4, <2>5, <2>12 DEF Shows
    <2>10. \A x \in Role : (storage'[x] = storage[x] /\ writer'[x] = writer[x]) \/ writer'[x] = t
        BY <2>4
    <2>11. /\ Inv'
           /\ \A x \in Role : Shows(v, x, storage', writer', t, issued) => ActsAsShown(t, x)'
           /\ \A u \in Tab \ {t}, x \in Role : ActsAsShown(u, x) => ActsAsShown(u, x)'
        BY <1>1, <2>2, <2>4, <2>5, <2>6, <2>7, <2>8, <2>10, Rendered
    <2> QED  BY <2>9, <2>11 DEF Kept
<1> QED  BY <1>2, <1>3

\* A tab that forgets whom it showed for a role.
LEMMA ClearedFacts ==
    ASSUME NEW v \in ViewRecord, NEW r \in Role, AtomsFit(v, issued), Len(issued) \in Nat
    PROVE  /\ Cleared(v, r) \in ViewRecord /\ AtomsFit(Cleared(v, r), issued)
           /\ Cleared(v, r).atom = [v.atom EXCEPT ![r] = 0]
           /\ Cleared(v, r).shown = [v.shown EXCEPT ![r] = NoOne]
<1>1. v.atom \in [Role -> Nat] /\ v.shown \in [Role -> Account \cup {NoOne}]  BY DEF ViewRecord
<1> DEFINE a == [v.atom EXCEPT ![r] = 0]
           n == [v.shown EXCEPT ![r] = NoOne]
<1>2. a \in [Role -> Nat] /\ n \in [Role -> Account \cup {NoOne}]
      /\ \A x \in Role : a[x] = IF x = r THEN 0 ELSE v.atom[x]
    BY <1>1
<1>3. Cleared(v, r) = [v EXCEPT !.atom = a, !.shown = n]
    BY <1>1 DEF Cleared, ViewRecord
<1> HIDE DEF a, n
<1>4. Cleared(v, r) \in ViewRecord /\ Cleared(v, r).atom = a /\ Cleared(v, r).shown = n
    BY <1>2, <1>3 DEF ViewRecord
<1>5. AtomsFit(Cleared(v, r), issued)  BY <1>2, <1>4 DEF AtomsFit
<1> QED  BY <1>4, <1>5 DEF a, n

\* A logout is answered, or fails.
LEMMA LogoutStep ==
    ASSUME Inv, NEW t \in Tab, NEW r \in Role, AnswerLogout(t, r)
    PROVE  Inv' /\ Kept
<1>1. UNCHANGED server /\ Write(t, r, 0)  BY DEF AnswerLogout
<1>2. LocalTyped' /\ storage'[r] = 0 /\ writer'[r] = t
      /\ \A x \in Role : x # r => storage'[x] = storage[x] /\ writer'[x] = writer[x]
    <2>1. Len(issued) \in Nat /\ Typed  BY TabFacts DEF Inv
    <2>2. 0 \in Nat /\ 0 <= Len(issued)  BY <2>1
    <2> QED  BY <1>1, <2>1, <2>2, WriteTyped
<1>3. \A x \in Role : (storage'[x] = storage[x] /\ writer'[x] = writer[x]) \/ writer'[x] = t
    BY <1>2
<1>4. ASSUME NEW v \in ViewRecord, AtomsFit(v, issued), NEW S, Render(t, v, Done(t, S)),
             v.atom["cashier"] # 0 => r # "cashier" /\ view[t].atom["cashier"] # 0,
             \A x \in Role : v.shown[x] = view[t].shown[x] \/ v.shown[x] = NoOne
      PROVE  Inv' /\ Kept
    <2> DEFINE k == Done(t, S)
    <2>1. /\ k \in [Slot -> CallRecord] /\ \A s \in Slot : Fits(s, k[s], issued)
          /\ k["owner me"] = (IF "owner me" \in S THEN Idle ELSE call[t]["owner me"])
        <3>1. Typed /\ "owner me" \in Slot  BY DEF Inv, Slot
        <3>2. /\ k \in [Slot -> CallRecord] /\ \A s \in Slot : Fits(s, k[s], issued)
              /\ \A s \in Slot : k[s] = IF s \in S THEN Idle ELSE call[t][s]
            BY <3>1, DoneFacts
        <3> QED  BY <3>1, <3>2
    <2>2. Render(t, v, k)  BY <1>4
    <2> HIDE DEF k
    <2>3. MeFits(k["owner me"], storage', writer', t)
        BY <1>2, <2>1, TabFacts, IdleFacts DEF MeFits
    <2>4. Backed(v, storage', writer', t)
        BY <1>2, <1>4, TabFacts DEF Backed
    <2>5. \A x \in Role : ActsAsShown(t, x) => Shows(v, x, storage', writer', t, issued)
        BY <1>2, <1>4, TabFacts DEF Shows
    <2>6. /\ Inv'
          /\ \A x \in Role : Shows(v, x, storage', writer', t, issued) => ActsAsShown(t, x)'
          /\ \A u \in Tab \ {t}, x \in Role : ActsAsShown(u, x) => ActsAsShown(u, x)'
        BY <1>1, <1>2, <1>3, <1>4, <2>1, <2>2, <2>3, <2>4, Rendered
    <2> QED  BY <2>5, <2>6 DEF Kept
<1>5. CASE ResetsAtoms(t, r)
    <2>1. Render(t, Cleared(view[t], r), Done(t, Cancels(r)))  BY <1>5 DEF AnswerLogout
    <2>2. /\ Cleared(view[t], r) \in ViewRecord /\ AtomsFit(Cleared(view[t], r), issued)
          /\ Cleared(view[t], r).atom = [view[t].atom EXCEPT ![r] = 0]
          /\ Cleared(view[t], r).shown = [view[t].shown EXCEPT ![r] = NoOne]
        BY ClearedFacts, TabFacts
    <2> QED  BY <1>4, <2>1, <2>2, TabFacts
<1>6. CASE ~ResetsAtoms(t, r)
    <2>1. Render(t, view[t], Done(t, {r})) /\ r # "cashier"
        BY <1>6 DEF AnswerLogout, ResetsAtoms
    <2> QED  BY <1>4, <2>1, TabFacts
<1> QED  BY <1>5, <1>6

\* The onboarding is answered.
LEMMA OnboardingStep ==
    ASSUME Inv, NEW t \in Tab, AnswerOnboarding(t)
    PROVE  Inv' /\ Kept
<1> DEFINE c == call[t]["onboarding"]
           v == [view[t] EXCEPT !.shown["owner"] = c.who, !.onboarded = TRUE]
           S == {"onboarding", "owner me"}
           k == Done(t, S)
<1>1. c.op = "onboard" /\ UNCHANGED <<server, local>>  BY DEF AnswerOnboarding, Answered
<1>2. CASE ~IsOk(t, "onboarding")
    <2>1. Render(t, view[t], Done(t, {"onboarding"}))
        BY <1>2 DEF AnswerOnboarding
    <2> QED  BY <1>1, <2>1, RendersLess, TabFacts
<1>3. CASE IsOk(t, "onboarding")
    <2>1. Render(t, v, k)
        BY <1>3 DEF AnswerOnboarding
    <2>2. /\ "onboarding" \in Slot /\ "owner me" \in Slot /\ "owner" \in Role /\ "cashier" \in Role
          /\ "owner me" \in {"onboarding", "owner me"}
        BY DEF Slot, Role
    <2>3. c.who \in Account \cup {NoOne} /\ c.token # 0 /\ issued[c.token] = c.who
        BY <1>1, <1>3, <2>2, TabFacts DEF IsOk, Fits
    <2>4. storage' = storage /\ writer' = writer /\ LocalTyped' /\ UNCHANGED server
        BY <1>1, TabFacts DEF local, server, LocalTyped
    <2>5. /\ v \in ViewRecord /\ v.atom = view[t].atom
          /\ v.shown = [view[t].shown EXCEPT !["owner"] = c.who]
        <3>1. /\ view[t] \in ViewRecord
              /\ [view[t].shown EXCEPT !["owner"] = c.who] \in [Role -> Account \cup {NoOne}]
            BY <2>2, <2>3, TabFacts
        <3> HIDE DEF c
        <3> QED  BY <3>1 DEF ViewRecord
    <2> HIDE DEF v
    <2>6. /\ k \in [Slot -> CallRecord] /\ \A s \in Slot : Fits(s, k[s], issued)
          /\ k["owner me"] = Idle
        <3>1. Typed /\ "owner me" \in S  BY DEF Inv
        <3> HIDE DEF S
        <3>2. /\ k \in [Slot -> CallRecord] /\ \A s \in Slot : Fits(s, k[s], issued)
              /\ \A s \in Slot : k[s] = IF s \in S THEN Idle ELSE call[t][s]
            BY <3>1, DoneFacts
        <3> QED  BY <2>2, <3>1, <3>2
    <2> HIDE DEF k
    <2>7. MeFits(k["owner me"], storage', writer', t)
        BY <2>6, IdleFacts DEF MeFits
    <2>8. Backed(v, storage', writer', t) /\ AtomsFit(v, issued)
        BY <2>4, <2>5, TabFacts DEF Backed, AtomsFit
    <2>9. ASSUME NEW r \in Role, ActsAsShown(t, r), ~Excused(t, r)
          PROVE  Shows(v, r, storage', writer', t, issued)
        <3>1. CASE r = "owner"
            <4>1. c.token = storage["owner"]  BY <2>9, <3>1 DEF Excused
            <4> HIDE DEF c
            <4>2. v.shown["owner"] = c.who  BY <2>2, <2>5, TabFacts
            <4> QED  BY <2>3, <2>4, <3>1, <4>1, <4>2 DEF Shows
        <3>2. CASE r # "owner"
            <4>1. v.shown[r] = view[t].shown[r]  BY <2>5, <3>2, TabFacts
            <4>2. Shows(view[t], r, storage, writer, t, issued)  BY <2>9, TabFacts
            <4> QED  BY <2>4, <4>1, <4>2 DEF Shows
        <3> QED  BY <3>1, <3>2
    <2>10. /\ Inv'
           /\ \A r \in Role : Shows(v, r, storage', writer', t, issued) => ActsAsShown(t, r)'
           /\ \A u \in Tab \ {t}, r \in Role : ActsAsShown(u, r) => ActsAsShown(u, r)'
        BY <2>1, <2>4, <2>5, <2>6, <2>7, <2>8, Rendered
    <2> QED  BY <2>9, <2>10 DEF Kept
<1> QED  BY <1>2, <1>3

\* AuthGate learns who the owner is.
LEMMA OwnerMeStep ==
    ASSUME Inv, NEW t \in Tab, AnswerOwnerMe(t)
    PROVE  Inv' /\ Kept
<1> DEFINE c == call[t]["owner me"]
           v == [view[t] EXCEPT !.shown["owner"] = c.who, !.onboarded = c.onboarded]
           S == {"owner me"}
           k == Done(t, S)
<1>1. c.op = "me" /\ c.reply # "none" /\ UNCHANGED <<server, local>>
    BY DEF AnswerOwnerMe, Answered
<1>2. "owner" \in Role /\ "cashier" \in Role /\ "owner me" \in Slot  BY DEF Role, Slot
<1>3. c.reply \in {"ok", "refused", "failed"}
    <2>1. c \in CallRecord  BY <1>2, TabFacts
    <2> QED  BY <1>1, <2>1 DEF CallRecord
<1>4. CASE c.reply = "refused"
    <2>1. Render(t, Cleared(view[t], "owner"), Done(t, {"owner me"}))
        BY <1>4 DEF AnswerOwnerMe
    <2>2. /\ Cleared(view[t], "owner") \in ViewRecord /\ AtomsFit(Cleared(view[t], "owner"), issued)
          /\ Cleared(view[t], "owner").atom = [view[t].atom EXCEPT !["owner"] = 0]
          /\ Cleared(view[t], "owner").shown = [view[t].shown EXCEPT !["owner"] = NoOne]
        BY <1>2, ClearedFacts, TabFacts
    <2>3. view[t].atom \in [Role -> Nat] /\ view[t].shown \in [Role -> Account \cup {NoOne}]
        BY TabFacts
    <2>4. /\ Cleared(view[t], "owner").atom["cashier"] # 0 => view[t].atom["cashier"] # 0
          /\ \A r \in Role : \/ Cleared(view[t], "owner").shown[r] = view[t].shown[r]
                             \/ Cleared(view[t], "owner").shown[r] = NoOne
        BY <1>2, <2>2, <2>3
    <2> QED  BY <1>1, <2>1, <2>2, <2>4, RendersLess
<1>5. CASE c.reply = "failed"
    <2>1. Render(t, view[t], Done(t, {"owner me"}))
        BY <1>5 DEF AnswerOwnerMe
    <2> QED  BY <1>1, <2>1, RendersLess, TabFacts
<1>6. CASE c.reply = "ok"
    <2>1. Render(t, v, k)
        BY <1>6 DEF AnswerOwnerMe
    <2>2. /\ c.who \in Account \cup {NoOne} /\ issued[c.token] = c.who /\ c.onboarded \in BOOLEAN
          /\ writer["owner"] = t /\ storage["owner"] # 0 => c.token = storage["owner"]
        BY <1>1, <1>2, <1>6, TabFacts DEF Fits, MeFits
    <2>3. storage' = storage /\ writer' = writer /\ LocalTyped' /\ UNCHANGED server
        BY <1>1, TabFacts DEF local, server, LocalTyped
    <2>4. /\ v \in ViewRecord /\ v.atom = view[t].atom
          /\ v.shown = [view[t].shown EXCEPT !["owner"] = c.who]
        <3>1. /\ view[t] \in ViewRecord
              /\ [view[t].shown EXCEPT !["owner"] = c.who] \in [Role -> Account \cup {NoOne}]
            BY <1>2, <2>2, TabFacts
        <3> HIDE DEF c
        <3> QED  BY <2>2, <3>1 DEF ViewRecord
    <2> HIDE DEF v
    <2>5. /\ k \in [Slot -> CallRecord] /\ \A s \in Slot : Fits(s, k[s], issued)
          /\ k["owner me"] = Idle
        <3>1. Typed /\ "owner me" \in S  BY DEF Inv
        <3> HIDE DEF S
        <3>2. /\ k \in [Slot -> CallRecord] /\ \A s \in Slot : Fits(s, k[s], issued)
              /\ \A s \in Slot : k[s] = IF s \in S THEN Idle ELSE call[t][s]
            BY <3>1, DoneFacts
        <3> QED  BY <1>2, <3>1, <3>2
    <2> HIDE DEF k
    <2>6. MeFits(k["owner me"], storage', writer', t)
        BY <2>5, IdleFacts DEF MeFits
    <2>7. Backed(v, storage', writer', t) /\ AtomsFit(v, issued)
        BY <2>3, <2>4, TabFacts DEF Backed, AtomsFit
    <2>8. \A r \in Role : ActsAsShown(t, r) => Shows(v, r, storage', writer', t, issued)
        <3>1. /\ view[t].shown \in [Role -> Account \cup {NoOne}]
              /\ \A r \in Role : ActsAsShown(t, r) => Shows(view[t], r, storage, writer, t, issued)
            BY TabFacts
        <3> HIDE DEF c
        <3>2. \A r \in Role : v.shown[r] = IF r = "owner" THEN c.who ELSE view[t].shown[r]
            BY <2>4, <3>1
        <3> QED  BY <2>2, <2>3, <3>1, <3>2 DEF Shows
    <2>9. /\ Inv'
          /\ \A r \in Role : Shows(v, r, storage', writer', t, issued) => ActsAsShown(t, r)'
          /\ \A u \in Tab \ {t}, r \in Role : ActsAsShown(u, r) => ActsAsShown(u, r)'
        BY <2>1, <2>3, <2>4, <2>5, <2>6, <2>7, Rendered
    <2> QED  BY <2>8, <2>9 DEF Kept
<1> QED  BY <1>3, <1>4, <1>5, <1>6

\* useCashierMe learns who the cashier is.
LEMMA CashierMeStep ==
    ASSUME Inv, NEW t \in Tab, AnswerCashierMe(t)
    PROVE  Inv' /\ Kept
<1> DEFINE c == call[t]["cashier me"]
           S == {"cashier me"}
           k == Done(t, S)
           who == IF IsOk(t, "cashier me") THEN c.who ELSE view[t].shown["cashier"]
           n == [view[t].shown EXCEPT !["cashier"] = who]
           v == [view[t] EXCEPT !.shown = n]
<1>1. c.op = "me" /\ c.reply # "none" /\ UNCHANGED <<server, local>>
    BY DEF AnswerCashierMe, Answered
<1>2. "owner" \in Role /\ "cashier" \in Role /\ "owner me" \in Slot /\ "cashier me" \in Slot
    BY DEF Role, Slot
<1>3. CASE EndsTheSession(t)
    <2>1. Render(t, Cleared(view[t], "cashier"), k)
        BY <1>3 DEF AnswerCashierMe
    <2>2. /\ Cleared(view[t], "cashier") \in ViewRecord /\ AtomsFit(Cleared(view[t], "cashier"), issued)
          /\ Cleared(view[t], "cashier").atom = [view[t].atom EXCEPT !["cashier"] = 0]
          /\ Cleared(view[t], "cashier").shown = [view[t].shown EXCEPT !["cashier"] = NoOne]
        BY <1>2, ClearedFacts, TabFacts
    <2>3. view[t].atom \in [Role -> Nat] /\ view[t].shown \in [Role -> Account \cup {NoOne}]
        BY TabFacts
    <2>4. /\ Cleared(view[t], "cashier").atom["cashier"] # 0 => view[t].atom["cashier"] # 0
          /\ \A r \in Role : \/ Cleared(view[t], "cashier").shown[r] = view[t].shown[r]
                             \/ Cleared(view[t], "cashier").shown[r] = NoOne
        BY <1>2, <2>2, <2>3
    <2> QED  BY <1>1, <2>1, <2>2, <2>4, RendersLess
<1>4. CASE ~EndsTheSession(t)
    <2>1. view \in [Tab -> ViewRecord]  BY DEF Inv, Typed, ViewTyped
    <2>2. view' = [view EXCEPT ![t] = v] /\ call' = [call EXCEPT ![t] = k]
        BY <1>4, <2>1 DEF AnswerCashierMe, ViewRecord
    <2>3. c.who \in Account \cup {NoOne} /\ c.reply = "ok" /\ issued[c.token] = c.who
        BY <1>1, <1>2, <1>4, TabFacts DEF Fits, EndsTheSession
    <2>4. storage' = storage /\ writer' = writer /\ LocalTyped' /\ UNCHANGED server
        BY <1>1, TabFacts DEF local, server, LocalTyped
    <2>5. who = c.who  BY <2>3 DEF IsOk
    <2> HIDE DEF who
    <2>6. n \in [Role -> Account \cup {NoOne}]
          /\ \A r \in Role : n[r] = IF r = "cashier" THEN who ELSE view[t].shown[r]
        BY <1>2, <2>3, <2>5, TabFacts
    <2> HIDE DEF n
    <2>7. v \in ViewRecord /\ v.atom = view[t].atom /\ v.shown = n /\ v.page = view[t].page
        BY <2>6, TabFacts DEF ViewRecord
    <2> HIDE DEF v
    <2>8. Backed(v, storage', writer', t) /\ AtomsFit(v, issued) /\ PageFits(v)
        BY <2>4, <2>7, TabFacts DEF Backed, AtomsFit, PageFits
    <2>9. /\ k \in [Slot -> CallRecord] /\ \A s \in Slot : Fits(s, k[s], issued)
          /\ k["owner me"] = call[t]["owner me"]
        <3>1. Typed /\ "owner me" \notin S  BY DEF Inv
        <3>2. \A X : /\ Done(t, X) \in [Slot -> CallRecord]
                     /\ \A s \in Slot : Fits(s, Done(t, X)[s], issued)
                     /\ \A s \in Slot : Done(t, X)[s] = IF s \in X THEN Idle ELSE call[t][s]
            BY <3>1, DoneFacts
        <3> HIDE DEF S
        <3> QED  BY <1>2, <3>1, <3>2
    <2> HIDE DEF k
    <2>10. MeFits(k["owner me"], storage', writer', t)
        BY <2>4, <2>9, TabFacts
    <2>11. ASSUME NEW r \in Role, ActsAsShown(t, r), ~Excused(t, r)
           PROVE  Shows(v, r, storage', writer', t, issued)
        <3>1. CASE r = "cashier"
            <4>1. c.token = storage["cashier"]  BY <2>11, <3>1 DEF Excused
            <4> HIDE DEF c
            <4> QED  BY <1>2, <2>3, <2>4, <2>5, <2>6, <2>7, <3>1, <4>1 DEF Shows
        <3>2. CASE r # "cashier"
            <4>1. Shows(view[t], r, storage, writer, t, issued)  BY <2>11, TabFacts
            <4> QED  BY <2>4, <2>6, <2>7, <3>2, <4>1 DEF Shows
        <3> QED  BY <3>1, <3>2
    <2>12. /\ Inv'
           /\ \A r \in Role : Shows(v, r, storage', writer', t, issued) => ActsAsShown(t, r)'
           /\ \A u \in Tab \ {t}, r \in Role : ActsAsShown(u, r) => ActsAsShown(u, r)'
        BY <2>2, <2>4, <2>7, <2>8, <2>9, <2>10, Taken
    <2> QED  BY <2>11, <2>12 DEF Kept
<1> QED  BY <1>3, <1>4

\* An impersonation is answered: the store is written, and a new tab may open at the till.
LEMMA ImpersonationStep ==
    ASSUME Inv, NEW t \in Tab, AnswerImpersonation(t)
    PROVE  Inv' /\ Kept
<1> DEFINE c == call[t]["cashier"]
           S == {"cashier"}
           d == Done(t, S)
           calls == [call EXCEPT ![t] = d]
           v == [Loaded("till") EXCEPT !.atom = storage']
           g == Gated(v, NoCalls, storage')
<1>1. c.op = "impersonate" /\ UNCHANGED server  BY DEF AnswerImpersonation, Answered
<1>2. "owner" \in Role /\ "cashier" \in Role /\ "owner me" \in Slot /\ "cashier" \in Slot
      /\ "owner" # "cashier" /\ Role = {"owner", "cashier"}
    BY DEF Role, Slot
<1>3. CASE ~IsOk(t, "cashier")
    <2>1. Render(t, view[t], d) /\ UNCHANGED local
        BY <1>3 DEF AnswerImpersonation
    <2> QED  BY <1>1, <2>1, RendersLess, TabFacts
<1>4. CASE IsOk(t, "cashier")
    <2>1. /\ Write(t, "cashier", c.token)
          /\ \/ call' = calls /\ UNCHANGED view
             \/ \E n \in Tab : view' = [view EXCEPT ![n] = v] /\ call' = [calls EXCEPT ![n] = g]
        BY <1>4 DEF AnswerImpersonation
    <2>2. /\ c.token \in Nat /\ c.token <= Len(issued) /\ c.token # 0 /\ issued[c.token] = c.who
          /\ c.who \in Cashier
        BY <1>1, <1>2, <1>4, TabFacts DEF IsOk, Fits, Of
    <2> HIDE DEF c
    <2>3. LocalTyped' /\ storage'["cashier"] # 0 /\ writer'["cashier"] = t
          /\ storage'["owner"] = storage["owner"] /\ writer'["owner"] = writer["owner"]
        <3>1. Typed /\ issued[c.token] \in Of("cashier")  BY <2>2 DEF Inv, Of
        <3> QED  BY <1>1, <1>2, <2>1, <2>2, <3>1, WriteTyped
    <2>4. storage' \in [Role -> Nat] /\ StoreFits(storage', issued) /\ issued' = issued
        BY <1>1, <2>3 DEF LocalTyped, server
    <2>5. /\ v \in ViewRecord /\ v.atom = storage' /\ v.shown = NotShown /\ v.page = "till"
        BY <2>4 DEF Loaded, NotShown, ViewRecord, Page
    <2>6. PageFits(v) /\ AtomsFit(v, issued) /\ \A r \in Role : v.shown[r] = NoOne
        BY <2>3, <2>4, <2>5 DEF PageFits, AtomsFit, StoreFits, OwnerPage, NotShown
    <2>7. /\ d \in [Slot -> CallRecord] /\ \A s \in Slot : Fits(s, d[s], issued)
          /\ d["owner me"] = call[t]["owner me"]
        <3>1. Typed /\ "owner me" \notin S  BY DEF Inv
        <3>2. \A X : /\ Done(t, X) \in [Slot -> CallRecord]
                     /\ \A s \in Slot : Fits(s, Done(t, X)[s], issued)
                     /\ \A s \in Slot : Done(t, X)[s] = IF s \in X THEN Idle ELSE call[t][s]
            BY <3>1, DoneFacts
        <3> HIDE DEF S
        <3> QED  BY <1>2, <3>1, <3>2
    <2>8. /\ g \in [Slot -> CallRecord] /\ \A s \in Slot : Fits(s, g[s], issued)
          /\ g["owner me"] = Idle
        <3>1. /\ NoCalls \in [Slot -> CallRecord] /\ NoCalls["owner me"] = Idle
              /\ \A s \in Slot : Fits(s, NoCalls[s], issued)
            BY <1>2, IdleFits, TabFacts
        <3>2. issued \in Seq(Account) /\ "owner me" # "cashier me"  BY TabFacts
        <3>3. \A x : /\ Gated(x, NoCalls, storage') \in [Slot -> CallRecord]
                     /\ \A s \in Slot : Fits(s, Gated(x, NoCalls, storage')[s], issued)
                     /\ \A s \in Slot : s # "cashier me" =>
                           Gated(x, NoCalls, storage')[s] = NoCalls[s]
            BY <2>4, <3>1, <3>2, GatedFacts
        <3> HIDE DEF v
        <3> QED  BY <1>2, <3>1, <3>2, <3>3
    <2> HIDE DEF v, d, g
    <2>9. /\ call \in [Tab -> [Slot -> CallRecord]] /\ view \in [Tab -> ViewRecord]
          /\ \A u \in Tab : /\ PageFits(view[u]) /\ AtomsFit(view[u], issued)
                            /\ \A s \in Slot : Fits(s, call[u][s], issued)
        BY DEF Inv, Typed, CallTyped, ViewTyped
    <2>10. /\ view' \in [Tab -> ViewRecord] /\ call' \in [Tab -> [Slot -> CallRecord]]
           /\ \A u \in Tab : /\ view'[u] \in {view[u], v}
                             /\ call'[u] \in {call[u], g} \/ (u = t /\ call'[u] = d)
        <3>1. calls \in [Tab -> [Slot -> CallRecord]]
              /\ \A u \in Tab : calls[u] = IF u = t THEN d ELSE call[u]
            BY <2>7, <2>9
        <3> HIDE DEF calls
        <3>2. CASE call' = calls /\ UNCHANGED view  BY <2>9, <3>1, <3>2
        <3>3. ASSUME NEW n \in Tab, view' = [view EXCEPT ![n] = v], call' = [calls EXCEPT ![n] = g]
              PROVE  /\ view' \in [Tab -> ViewRecord] /\ call' \in [Tab -> [Slot -> CallRecord]]
                     /\ \A u \in Tab : view'[u] = IF u = n THEN v ELSE view[u]
                     /\ \A u \in Tab : call'[u] = IF u = n THEN g ELSE calls[u]
            BY <2>5, <2>8, <2>9, <3>1, <3>3
        <3> QED  BY <2>1, <3>1, <3>2, <3>3
    <2>11. CallTyped'
        <3>1. ASSUME NEW u \in Tab, NEW s \in Slot PROVE Fits(s, call'[u][s], issued)
            BY <2>7, <2>8, <2>9, <2>10
        <3> QED  BY <2>4, <2>10, <3>1 DEF CallTyped
    <2>12. ViewTyped'
        <3>1. \A u \in Tab : PageFits(view'[u]) /\ AtomsFit(view'[u], issued)
            BY <2>6, <2>9, <2>10
        <3> QED  BY <2>4, <2>10, <3>1 DEF ViewTyped
    <2>13. Typed'  BY <1>1, <2>3, <2>11, <2>12 DEF Inv, Typed, ServerTyped, server
    <2>14. ASSUME NEW u \in Tab
           PROVE  MeFits(call'[u]["owner me"], storage', writer', u) /\ Backed(view'[u], storage', writer', u)
        <3>1. MeFits(call[u]["owner me"], storage, writer, u)  BY TabFacts
        <3>2. call'[u]["owner me"] \in {call[u]["owner me"], Idle}  BY <2>7, <2>8, <2>10
        <3> QED  BY <2>3, <3>1, <3>2, IdleFacts DEF MeFits, Backed
    <2>15. ASSUME NEW u \in Tab, NEW r \in Role, ActsAsShown(u, r), ~Excused(u, r)
           PROVE  ActsAsShown(u, r)'
        <3>1. CASE r = "cashier"
            <4>1. u # t  BY <2>15, <3>1 DEF Excused
            <4> QED  BY <2>3, <3>1, <4>1 DEF ActsAsShown
        <3>2. CASE r = "owner"
            BY <1>2, <2>3, <2>4, <2>6, <2>10, <2>15, <3>2 DEF ActsAsShown
        <3> QED  BY <1>2, <3>1, <3>2
    <2> QED  BY <2>13, <2>14, <2>15 DEF Inv, Kept
<1> QED  BY <1>3, <1>4

\* The clicks that send, the server, the network: no tab renders.
LEMMA OtherStep ==
    ASSUME Inv, \/ \E t \in Tab : Sends(t)
                \/ \E t \in Tab, s \in Slot : Handle(t, s) \/ Fail(t, s)
                \/ \E k \in live : Invalidate(k)
    PROVE  Inv' /\ Kept
<1>1. Typed  BY DEF Inv
<1>2. /\ Typed' /\ UNCHANGED <<local, view>> /\ Grown(issued, issued')
    BY <1>1, SendsTyped, HandleTyped, FailTyped, TypedFacts
<1>3. ASSUME NEW u \in Tab
      PROVE  \/ call'[u]["owner me"] = call[u]["owner me"]
             \/ call'[u]["owner me"].reply \in {"refused", "failed"}
             \/ /\ call[u]["owner me"].op = "me" /\ call[u]["owner me"].reply = "none"
                /\ call'[u]["owner me"].token = call[u]["owner me"].token
    <2>1. CASE \E t \in Tab : Sends(t)  BY <1>1, <2>1, SendsTyped
    <2>2. CASE \E k \in live : Invalidate(k)  BY <2>2 DEF Invalidate
    <2>3. /\ call \in [Tab -> [Slot -> CallRecord]] /\ "owner me" \in Slot
          /\ Fits("owner me", call[u]["owner me"], issued)
        BY <1>1, TabFacts DEF Typed, CallTyped
    <2>4. CASE \E t \in Tab, s \in Slot : Fail(t, s)
        <3>1. PICK t \in Tab, s \in Slot : Fail(t, s)  BY <2>4
        <3> DEFINE x == [Sent(call[t][s].op, NoOne, 0) EXCEPT !.reply = "failed"]
        <3>2. call' = [call EXCEPT ![t][s] = x]  BY <2>3, <3>1 DEF Fail
        <3>3. x.reply = "failed"  BY DEF Sent, Idle
        <3> HIDE DEF x
        <3> QED  BY <2>3, <3>2, <3>3
    <2>5. CASE \E t \in Tab, s \in Slot : Handle(t, s)
        <3>1. PICK t \in Tab, s \in Slot : Handle(t, s)  BY <2>5
        <3>2. PICK reply, who, token : Reply(t, s, reply, who, token)
            BY <3>1 DEF Handle, Grant, Identify, Revoke, CompleteOnboarding, Refuse
        <3>3. CASE ~(u = t /\ s = "owner me")
            BY <2>3, <3>2, <3>3 DEF Reply
        <3>4. CASE u = t /\ s = "owner me"
            <4>1. call[u]["owner me"].op = "me" /\ call[u]["owner me"].reply = "none"
                BY <2>3, <3>2, <3>4 DEF Reply, Fits, Ops
            <4>2. Identify(t, s) \/ Refuse(t, s)
                BY <3>1, <3>4, <4>1 DEF Handle, Grant, Revoke, CompleteOnboarding
            <4>3. CASE Identify(t, s)
                <5>1. Reply(t, s, "ok", Holder(t, s), call[t][s].token)  BY <4>3 DEF Identify
                <5>2. call'[t][s].reply = "ok" /\ call'[t][s].token = call[t][s].token
                    BY <1>1, <5>1, ReplyFacts
                <5> QED  BY <3>4, <4>1, <5>2
            <4>4. CASE Refuse(t, s)
                <5>1. Reply(t, s, "refused", NoOne, call[t][s].token)  BY <4>4 DEF Refuse
                <5>2. call'[t][s].reply = "refused" /\ call'[t][s].token = call[t][s].token
                    BY <1>1, <5>1, ReplyFacts
                <5> QED  BY <3>4, <4>1, <5>2
            <4> QED  BY <4>2, <4>3, <4>4
        <3> QED  BY <3>3, <3>4
    <2> QED  BY <2>1, <2>2, <2>4, <2>5
<1>4. ASSUME NEW u \in Tab
      PROVE  MeFits(call'[u]["owner me"], storage', writer', u) /\ Backed(view'[u], storage', writer', u)
    <2>1. MeFits(call[u]["owner me"], storage, writer, u) /\ Backed(view[u], storage, writer, u)
        BY DEF Inv
    <2>2. storage' = storage /\ writer' = writer /\ view' = view  BY <1>2 DEF local
    <2> QED  BY <1>3, <2>1, <2>2 DEF MeFits
<1>5. ASSUME NEW u \in Tab, NEW r \in Role, ActsAsShown(u, r) PROVE ActsAsShown(u, r)'
    <2>1. storage' = storage /\ writer' = writer /\ view' = view  BY <1>2 DEF local
    <2>2. storage[r] \in Nat /\ storage[r] <= Len(issued) /\ Len(issued) \in Nat  BY <1>1, TypedFacts
    <2>3. storage[r] # 0 => issued'[storage[r]] = issued[storage[r]]  BY <1>2, <2>2 DEF Grown
    <2> QED  BY <1>5, <2>1, <2>3 DEF ActsAsShown
<1> QED  BY <1>2, <1>4, <1>5 DEF Inv, Kept

-----------------------------------------------------------------------------
(* The theorems                                                            *)

\* The invariant holds at the start.
LEMMA InitInv == Init => Inv
<1> SUFFICES ASSUME Init PROVE Inv  OBVIOUS
<1> USE SessionsAssumption
<1>1. /\ issued = Opening /\ issued \in Seq(Account) /\ live = 1..Len(issued)
      /\ Len(issued) \in Nat /\ DOMAIN issued = 1..Len(issued) /\ onboarded \subseteq Owner
    BY DEF Init, Account
<1>2. LocalTyped
    <2>1. \A r \in Role : storage[r] \in {0} \cup 1..Len(issued)  BY <1>1 DEF Init
    <2>2. \A r \in Role : storage[r] \in Nat /\ storage[r] <= Len(issued)  BY <1>1, <2>1
    <2>3. \A k \in 1..Len(issued) : issued[k] \in Owner \cup Cashier  BY <1>1 DEF Account
    <2>4. StoreFits(storage, issued)
        BY <1>1, <2>1, <2>2, <2>3 DEF Init, StoreFits, Of
    <2> QED  BY <2>2, <2>4 DEF Init, LocalTyped
<1>3. /\ view \in [Tab -> ViewRecord]
      /\ \A t \in Tab : /\ view[t].page = "closed" /\ view[t].atom = [r \in Role |-> 0]
                        /\ PageFits(view[t]) /\ AtomsFit(view[t], issued)
    BY <1>1 DEF Init, ViewRecord, Page, NotShown, PageFits, OwnerPage, AtomsFit
<1>4. /\ call \in [Tab -> [Slot -> CallRecord]]
      /\ \A t \in Tab, s \in Slot : call[t][s] = Idle /\ Fits(s, call[t][s], issued)
    <2>1. \A s \in Slot : Idle \in CallRecord /\ Fits(s, Idle, issued) /\ NoCalls[s] = Idle
                          /\ NoCalls \in [Slot -> CallRecord]
        BY <1>1, IdleFits
    <2>2. NoCalls \in [Slot -> CallRecord]  BY <2>1 DEF NoCalls
    <2> QED  BY <2>1, <2>2 DEF Init
<1>5. Typed  BY <1>1, <1>2, <1>3, <1>4 DEF Typed, ServerTyped, ViewTyped, CallTyped
<1>6. \A t \in Tab : MeFits(call[t]["owner me"], storage, writer, t)
    BY <1>4, IdleFacts DEF MeFits, Slot
<1>7. \A t \in Tab : Backed(view[t], storage, writer, t)
    BY <1>3 DEF Backed, Role
<1> QED  BY <1>5, <1>6, <1>7 DEF Inv

\* Every step keeps it, and who is shown is whom the tab acts for, unless excused.
LEMMA NextInv == Inv /\ [Next]_vars => Inv' /\ Kept
<1> SUFFICES ASSUME Inv, [Next]_vars PROVE Inv' /\ Kept  OBVIOUS
<1>1. ASSUME NEW t \in Tab, Use(t) PROVE Inv' /\ Kept
    <2>1. ASSUME NEW p \in Page, Load(t, p) \/ Navigate(t, p) PROVE Inv' /\ Kept
        BY <2>1, LoadStep, NavigateStep
    <2>2. CASE Sends(t)  BY <2>2, OtherStep
    <2> QED  BY <1>1, <2>1, <2>2 DEF Use, Sends
<1>2. ASSUME NEW t \in Tab, Answer(t) PROVE Inv' /\ Kept
    <2>1. ASSUME NEW r \in Role, AnswerLogin(t, r) \/ AnswerLogout(t, r) PROVE Inv' /\ Kept
        BY <2>1, LoginStep, LogoutStep
    <2> QED
        BY <1>2, <2>1, OnboardingStep, ImpersonationStep, OwnerMeStep, CashierMeStep DEF Answer
<1>3. CASE \E t \in Tab, s \in Slot : Handle(t, s) \/ Fail(t, s)  BY <1>3, OtherStep
<1>4. CASE \E k \in live : Invalidate(k)  BY <1>4, OtherStep
<1>5. CASE UNCHANGED vars
    <2>1. UNCHANGED <<server, local, view, call, moves>>  BY <1>5 DEF vars
    <2>2. UNCHANGED <<issued, live, onboarded, storage, writer, view, call>>
        BY <2>1 DEF server, local
    <2>3. Typed'
        BY <2>2 DEF Inv, Typed, ServerTyped, LocalTyped, ViewTyped, CallTyped
    <2> QED  BY <2>2, <2>3 DEF Inv, Kept, ActsAsShown
<1> QED  BY <1>1, <1>2, <1>3, <1>4, <1>5 DEF Next

LEMMA Invariant == Spec => []Inv
<1>1. Inv /\ [Next]_vars => Inv'  BY NextInv
<1> QED  BY <1>1, InitInv, PTL DEF Spec

\* What a tab shows, what it has under way, and the tokens stored and issued fit together,
\* and no tab is on a page that its atoms do not allow: the redirects of AuthGate and
\* CashierGate.
THEOREM TypeCorrect == Spec => []TypeOK
<1>1. Inv => TypeOK
    <2> SUFFICES ASSUME Inv PROVE TypeOK  OBVIOUS
    <2>1. ServerTyped /\ LocalTyped /\ ViewTyped /\ CallTyped  BY DEF Inv, Typed
    <2>2. Len(issued) \in Nat  BY <2>1 DEF ServerTyped
    <2>3. \A n \in Nat : n <= Len(issued) => n \in Token  BY <2>2 DEF Token
    <2>4. storage \in [Role -> Token]  BY <2>1, <2>3 DEF LocalTyped, StoreFits
    <2>5. view \in [Tab -> [page : Page, atom : [Role -> Token],
                            shown : [Role -> Account \cup {NoOne}], onboarded : BOOLEAN]]
        <3>1. ASSUME NEW t \in Tab
              PROVE  view[t] \in [page : Page, atom : [Role -> Token],
                                  shown : [Role -> Account \cup {NoOne}], onboarded : BOOLEAN]
            <4>1. view[t] \in ViewRecord /\ AtomsFit(view[t], issued)  BY <2>1 DEF ViewTyped
            <4>2. view[t].atom \in [Role -> Nat]  BY <4>1 DEF ViewRecord
            <4>3. view[t].atom \in [Role -> Token]  BY <2>3, <4>1, <4>2 DEF AtomsFit
            <4> QED  BY <4>1, <4>3 DEF ViewRecord
        <3> QED  BY <2>1, <3>1 DEF ViewTyped
    <2>6. \A t \in Tab : PageFits(view[t])  BY <2>1 DEF ViewTyped
    <2> QED
        BY <2>1, <2>4, <2>5, <2>6 DEF TypeOK, ServerTyped, LocalTyped, CallTyped, PageFits
<1> QED  BY <1>1, Invariant, PTL

\* The name in the owner's shell stays the account the tab's requests act for.
THEOREM OwnerCorrect == Spec => OwnerActsAsShown
<1>1. Inv /\ [Next]_vars =>
          [\A t \in Tab : ActsAsShown(t, "owner") =>
               \/ ActsAsShown(t, "owner")'
               \/ AnswerOnboarding(t) /\ call[t]["onboarding"].token # storage["owner"]]_vars
    BY NextInv DEF Kept, Excused, Role
<1> QED  BY <1>1, Invariant, PTL DEF Spec, OwnerActsAsShown

\* The same of the cashier's name at the till, but for a late cashier-me and an impersonation.
THEOREM TillCorrect == Spec => TillActsAsShown
<1>1. Inv /\ [Next]_vars =>
          [\A t \in Tab : ActsAsShown(t, "cashier") =>
               \/ ActsAsShown(t, "cashier")'
               \/ AnswerCashierMe(t) /\ call[t]["cashier me"].token # storage["cashier"]
               \/ AnswerImpersonation(t)]_vars
    BY NextInv DEF Kept, Excused, Role
<1> QED  BY <1>1, Invariant, PTL DEF Spec, TillActsAsShown

\* A till that shows a cashier has a token to send, unless another tab took it away.
THEOREM BareCorrect == Spec => []TillNeverSendsBare
<1>1. Inv => TillNeverSendsBare
    <2> SUFFICES ASSUME Inv, NEW t \in Tab, view[t].page = "till", writer["cashier"] = t
                 PROVE  storage["cashier"] # 0
        BY DEF TillNeverSendsBare
    <2>1. view[t].atom["cashier"] # 0  BY TabFacts DEF PageFits
    <2> QED  BY <2>1, TabFacts DEF Backed
<1> QED  BY <1>1, Invariant, PTL

-----------------------------------------------------------------------------
(* The gate of the till                                                    *)

\* A tab at the gate has asked who its cashier is; what is not a question is nothing.
Asked(v, k) ==
    /\ k["cashier me"].op = "none" => k["cashier me"] = Idle
    /\ v.page = "till" /\ v.shown["cashier"] = NoOne => k["cashier me"].op = "me"

GateInv == Inv /\ \A t \in Tab : Asked(view[t], call[t])

\* CashierGate asks when nobody has.
LEMMA GatedAsks ==
    ASSUME NEW v \in ViewRecord, PageFits(v), NEW calls \in [Slot -> CallRecord],
           NEW st \in [Role -> Nat], calls["cashier me"].op \in {"none", "me"},
           calls["cashier me"].op = "none" => calls["cashier me"] = Idle
    PROVE  Asked(v, Gated(v, calls, st))
<1> DEFINE c == Sent("me", NoOne, st["cashier"])
           g == Gated(v, calls, st)
<1>1. c.op = "me"  BY DEF Sent, Idle
<1>2. "cashier me" \in Slot /\ Idle.op = "none"  BY IdleFacts DEF Slot
<1>3. CASE /\ v.page = "till" /\ v.atom["cashier"] # 0 /\ v.shown["cashier"] = NoOne
           /\ calls["cashier me"] = Idle
    <2>1. g = [calls EXCEPT !["cashier me"] = c]  BY <1>3 DEF Gated
    <2> HIDE DEF c, g
    <2>2. g["cashier me"] = c  BY <1>2, <2>1
    <2> QED  BY <1>1, <2>2 DEF Asked, g
<1>4. CASE ~(/\ v.page = "till" /\ v.atom["cashier"] # 0 /\ v.shown["cashier"] = NoOne
             /\ calls["cashier me"] = Idle)
    <2>1. g = calls  BY <1>4 DEF Gated
    <2>2. v.page = "till" => v.atom["cashier"] # 0  BY DEF PageFits
    <2>3. v.page = "till" /\ v.shown["cashier"] = NoOne => calls["cashier me"].op = "me"
        BY <1>4, <2>2
    <2> QED  BY <2>1, <2>3 DEF Asked
<1> QED  BY <1>3, <1>4

\* Only one tab renders, and it asks.
LEMMA RenderAsks ==
    ASSUME GateInv, Inv', NEW t \in Tab, NEW v, NEW calls \in [Slot -> CallRecord],
           Render(t, v, calls), calls["cashier me"] \in {Idle, call[t]["cashier me"]}
    PROVE  GateInv'
<1>1. /\ view' = [view EXCEPT ![t] = Routed(v)]
      /\ call' = [call EXCEPT ![t] = Gated(Routed(v), calls, storage')]
    BY DEF Render
<1>2. view \in [Tab -> ViewRecord] /\ call \in [Tab -> [Slot -> CallRecord]]
    BY DEF GateInv, Inv, Typed, ViewTyped, CallTyped
<1>3. /\ view'[t] = Routed(v) /\ call'[t] = Gated(Routed(v), calls, storage')
      /\ \A u \in Tab : u # t => view'[u] = view[u] /\ call'[u] = call[u]
    BY <1>1, <1>2
<1>4. Routed(v) \in ViewRecord /\ PageFits(Routed(v)) /\ storage' \in [Role -> Nat]
    BY <1>3 DEF Inv, Typed, ViewTyped, LocalTyped
<1>5. /\ calls["cashier me"].op \in {"none", "me"}
      /\ calls["cashier me"].op = "none" => calls["cashier me"] = Idle
    <2>1. "cashier me" \in Slot /\ Ops("cashier me") = {"none", "me"}  BY DEF Slot, Ops
    <2>2. Fits("cashier me", call[t]["cashier me"], issued) /\ Asked(view[t], call[t])
        BY <2>1 DEF GateInv, Inv, Typed, CallTyped
    <2> QED  BY <2>1, <2>2, IdleFacts DEF Fits, Asked
<1>6. Asked(view'[t], call'[t])  BY <1>3, <1>4, <1>5, GatedAsks
<1>7. \A u \in Tab : Asked(view'[u], call'[u])  BY <1>3, <1>6 DEF GateInv
<1> QED  BY <1>7 DEF GateInv

\* A tab that drops some of its requests and renders, asks.
LEMMA RenderDoneAsks ==
    ASSUME GateInv, Inv', NEW t \in Tab, NEW v, NEW S, Render(t, v, Done(t, S))
    PROVE  GateInv'
<1>1. Typed /\ "cashier me" \in Slot  BY DEF GateInv, Inv, Slot
<1>2. Done(t, S) \in [Slot -> CallRecord]
      /\ \A s \in Slot : Done(t, S)[s] = IF s \in S THEN Idle ELSE call[t][s]
    BY <1>1, DoneFacts
<1>3. Done(t, S)["cashier me"] \in {Idle, call[t]["cashier me"]}  BY <1>1, <1>2
<1> QED  BY <1>2, <1>3, RenderAsks

\* A new document, or another page of this one.
LEMMA OpenAsks ==
    ASSUME GateInv, Inv', NEW t \in Tab, NEW p, Load(t, p) \/ Navigate(t, p)
    PROVE  GateInv'
<1>1. "cashier me" \in Slot /\ "owner me" \in Slot /\ "cashier me" # "owner me"  BY DEF Slot
<1>2. CASE Load(t, p)
    <2> DEFINE c == Sent("me", NoOne, storage["owner"])
    <2>1. Render(t, Loaded(p), LoadedCalls(p))  BY <1>2 DEF Load
    <2>2. c \in CallRecord
        <3>1. storage["owner"] \in Nat /\ NoOne \in Account \cup {NoOne}
            BY DEF GateInv, Inv, Typed, LocalTyped, Role
        <3> QED  BY <3>1, SentFacts
    <2>3. LoadedCalls(p) \in {NoCalls, [NoCalls EXCEPT !["owner me"] = c]}  BY DEF LoadedCalls
    <2> HIDE DEF c
    <2>4. NoCalls \in [Slot -> CallRecord] /\ NoCalls["cashier me"] = Idle
        BY <1>1, IdleFacts DEF NoCalls
    <2>5. LoadedCalls(p) \in [Slot -> CallRecord] /\ LoadedCalls(p)["cashier me"] = Idle
        BY <1>1, <2>2, <2>3, <2>4
    <2> QED  BY <2>1, <2>5, RenderAsks
<1>3. CASE Navigate(t, p)
    <2>1. Render(t, [view[t] EXCEPT !.page = p], call[t])  BY <1>3 DEF Navigate
    <2>2. call[t] \in [Slot -> CallRecord]  BY DEF GateInv, Inv, Typed, CallTyped
    <2> QED  BY <2>1, <2>2, RenderAsks
<1> QED  BY <1>2, <1>3

\* The answer to cashier-me: the cashier is shown, or the tab goes to the door.
LEMMA CashierMeAsks ==
    ASSUME GateInv, Inv', NEW t \in Tab, AnswerCashierMe(t)
    PROVE  GateInv' /\ ~AtGate(t)'
<1> DEFINE c == call[t]["cashier me"]
           k == Done(t, {"cashier me"})
<1>1. view \in [Tab -> ViewRecord] /\ call \in [Tab -> [Slot -> CallRecord]] /\ Typed
      /\ "cashier me" \in Slot /\ "cashier" \in Role
    BY DEF GateInv, Inv, Typed, ViewTyped, CallTyped, Slot, Role
<1>2. k["cashier me"] = Idle  BY <1>1, DoneFacts
<1>3. CASE EndsTheSession(t)
    <2>1. Render(t, Cleared(view[t], "cashier"), k)  BY <1>3 DEF AnswerCashierMe
    <2> DEFINE v == Cleared(view[t], "cashier")
    <2>2. v \in ViewRecord /\ v.atom = [view[t].atom EXCEPT !["cashier"] = 0]
        BY <1>1, ClearedFacts, TabFacts DEF GateInv
    <2>3. view[t].atom \in [Role -> Nat]  BY <1>1 DEF ViewRecord
    <2>4. v.atom["cashier"] = 0  BY <1>1, <2>2, <2>3
    <2>5. view'[t] = Routed(v)  BY <1>1, <2>1 DEF Render
    <2> HIDE DEF v
    <2>6. view'[t].atom["cashier"] = 0 /\ PageFits(view'[t])  BY <2>2, <2>4, <2>5, RoutedFacts
    <2>7. view'[t].page # "till"  BY <2>6 DEF PageFits
    <2> QED  BY <2>1, <2>7, RenderDoneAsks DEF AtGate
<1>4. CASE ~EndsTheSession(t)
    <2>1. /\ c.op = "me" /\ c.reply = "ok" /\ IsOk(t, "cashier me")
          /\ view' = [view EXCEPT ![t].shown["cashier"] = c.who]
          /\ call' = [call EXCEPT ![t] = k]
        BY <1>4 DEF AnswerCashierMe, Answered, EndsTheSession, IsOk
    <2>2. c.who # NoOne
        <3>1. c \in CallRecord /\ Fits("cashier me", c, issued) /\ c.token \in Nat
            BY <1>1, TypedFacts DEF CallRecord
        <3>2. c.token # 0 /\ issued[c.token] = c.who /\ c.token <= Len(issued)
            BY <2>1, <3>1 DEF Fits
        <3>3. c.token \in Nat /\ Len(issued) \in Nat
            BY <1>1, <3>1, TypedFacts
        <3> HIDE DEF c
        <3>4. c.token \in 1..Len(issued)  BY <3>2, <3>3
        <3>5. \A n \in 1..Len(issued) : issued[n] \in Account  BY <1>1, TypedFacts
        <3>6. c.who \in Account  BY <3>2, <3>4, <3>5
        <3> QED  BY <3>6, SessionsAssumption DEF Account
    <2> HIDE DEF c, k
    <2>3. view'[t].shown["cashier"] = c.who
        BY <1>1, <2>1 DEF ViewRecord
    <2>4. /\ call'[t]["cashier me"] = Idle
          /\ \A u \in Tab : u # t => view'[u] = view[u] /\ call'[u] = call[u]
        BY <1>1, <1>2, <2>1
    <2>5. \A u \in Tab : Asked(view'[u], call'[u])
        BY <2>2, <2>3, <2>4, IdleFacts DEF GateInv, Asked
    <2> QED  BY <2>2, <2>3, <2>5 DEF GateInv, AtGate
<1> QED  BY <1>3, <1>4

\* The answer to an impersonation: a new tab may open at the gate, and asks.
LEMMA ImpersonationAsks ==
    ASSUME GateInv, Inv', NEW t \in Tab, AnswerImpersonation(t)
    PROVE  GateInv'
<1> DEFINE d == Done(t, {"cashier"})
           calls == [call EXCEPT ![t] = d]
           v == [Loaded("till") EXCEPT !.atom = storage']
           g == Gated(v, NoCalls, storage')
<1>1. view \in [Tab -> ViewRecord] /\ call \in [Tab -> [Slot -> CallRecord]] /\ Typed
      /\ "cashier me" \in Slot /\ "cashier" \in Role /\ "cashier" # "cashier me"
    BY DEF GateInv, Inv, Typed, ViewTyped, CallTyped, Slot, Role
<1>2. CASE ~IsOk(t, "cashier")
    <2>1. Render(t, view[t], d)  BY <1>2 DEF AnswerImpersonation
    <2> QED  BY <2>1, RenderDoneAsks
<1>3. CASE IsOk(t, "cashier")
    <2>1. \/ call' = calls /\ UNCHANGED view
          \/ \E n \in Tab : /\ view' = [view EXCEPT ![n] = v]
                            /\ call' = [calls EXCEPT ![n] = g]
        BY <1>3 DEF AnswerImpersonation
    <2>2. d["cashier me"] = call[t]["cashier me"]
        <3>1. \A s \in Slot : d[s] = IF s \in {"cashier"} THEN Idle ELSE call[t][s]
            BY <1>1, DoneFacts
        <3> QED  BY <1>1, <3>1
    <2>3. \A u \in Tab : calls[u]["cashier me"] = call[u]["cashier me"]
        <3> HIDE DEF d
        <3> QED  BY <1>1, <2>2
    <2>4. \A u \in Tab : Asked(view[u], calls[u])
        BY <2>3 DEF GateInv, Asked
    <2>5. CASE call' = calls /\ UNCHANGED view
        <3> HIDE DEF calls
        <3> QED  BY <2>4, <2>5 DEF GateInv
    <2>6. ASSUME NEW n \in Tab, view' = [view EXCEPT ![n] = v], call' = [calls EXCEPT ![n] = g]
          PROVE  GateInv'
        <3>1. calls = [u \in Tab |-> calls[u]]
            BY <1>1
        <3> HIDE DEF calls
        <3>2. /\ view'[n] = v /\ call'[n] = g
              /\ \A u \in Tab : u # n => view'[u] = view[u] /\ call'[u] = calls[u]
            BY <1>1, <2>6, <3>1
        <3>3. v \in ViewRecord /\ PageFits(v) /\ storage' \in [Role -> Nat]
            <4> HIDE DEF v
            <4> QED  BY <3>2 DEF Inv, Typed, ViewTyped, LocalTyped
        <3>4. NoCalls \in [Slot -> CallRecord] /\ NoCalls["cashier me"] = Idle
            BY <1>1, IdleFacts DEF NoCalls
        <3> HIDE DEF v
        <3>5. Asked(v, g)  BY <3>3, <3>4, IdleFacts, GatedAsks
        <3> HIDE DEF g
        <3>6. \A u \in Tab : Asked(view'[u], call'[u])  BY <2>4, <3>2, <3>5
        <3> QED  BY <3>6 DEF GateInv
    <2> QED  BY <2>1, <2>5, <2>6
<1> QED  BY <1>2, <1>3

\* What is sent, handled or lost stays the question it was.
LEMMA OtherAsks ==
    ASSUME GateInv, Inv', \/ \E t \in Tab : Sends(t)
                          \/ \E t \in Tab, s \in Slot : Handle(t, s) \/ Fail(t, s)
                          \/ \E k \in live : Invalidate(k)
    PROVE  GateInv'
<1>1. /\ view \in [Tab -> ViewRecord] /\ call \in [Tab -> [Slot -> CallRecord]] /\ Typed
      /\ call' \in [Tab -> [Slot -> CallRecord]]
      /\ "cashier me" \in Slot /\ Ops("cashier me") = {"none", "me"}
    BY DEF GateInv, Inv, Typed, ViewTyped, CallTyped, Slot, Ops
<1>2. view' = view
    BY <1>1, SendsTyped, HandleTyped, FailTyped
<1>3. ASSUME NEW u \in Tab
      PROVE  \/ call'[u]["cashier me"] = call[u]["cashier me"]
             \/ call'[u]["cashier me"].op = "me"
    <2>1. ASSUME NEW t \in Tab, Sends(t)
          PROVE  \/ call'[u]["cashier me"] = call[u]["cashier me"]
                 \/ call'[u]["cashier me"].op = "me"
        <3>1. PICK s \in Slot, c \in CallRecord :
                 Fits(s, c, issued) /\ c.op # "none" /\ Send(t, s, c)
            BY <1>1, <2>1, SendsFitting
        <3>2. call' = [call EXCEPT ![t][s] = c]  BY <3>1 DEF Send
        <3>3. CASE u = t /\ s = "cashier me"
            <4>1. call'[u]["cashier me"] = c  BY <1>1, <3>2, <3>3
            <4>2. c.op = "me"  BY <1>1, <3>1, <3>3 DEF Fits
            <4> QED  BY <4>1, <4>2
        <3>4. CASE ~(u = t /\ s = "cashier me")
            BY <1>1, <3>2, <3>4
        <3> QED  BY <3>3, <3>4
    <2>2. ASSUME NEW t \in Tab, NEW s \in Slot, NEW c, c.op = call[t][s].op, call[t][s].op # "none",
                 call' = [call EXCEPT ![t][s] = c]
          PROVE  \/ call'[u]["cashier me"] = call[u]["cashier me"]
                 \/ call'[u]["cashier me"].op = "me"
        <3>1. CASE u = t /\ s = "cashier me"
            <4>1. call'[u]["cashier me"] = c  BY <1>1, <2>2, <3>1
            <4>2. call[t][s].op \in {"none", "me"}  BY <1>1, <3>1, TypedFacts DEF Fits
            <4> QED  BY <2>2, <4>1, <4>2
        <3>2. CASE ~(u = t /\ s = "cashier me")
            BY <1>1, <2>2, <3>2
        <3> QED  BY <3>1, <3>2
    <2>3. ASSUME NEW t \in Tab, NEW s \in Slot, Fail(t, s)
          PROVE  \/ call'[u]["cashier me"] = call[u]["cashier me"]
                 \/ call'[u]["cashier me"].op = "me"
        <3> DEFINE c == [Sent(call[t][s].op, NoOne, 0) EXCEPT !.reply = "failed"]
        <3>1. call' = [call EXCEPT ![t][s] = c] /\ call[t][s].op # "none"
            BY <1>1, <2>3 DEF Fail
        <3>2. c.op = call[t][s].op  BY DEF Sent, Idle
        <3> HIDE DEF c
        <3> QED  BY <2>2, <3>1, <3>2
    <2>4. ASSUME NEW t \in Tab, NEW s \in Slot, Handle(t, s)
          PROVE  \/ call'[u]["cashier me"] = call[u]["cashier me"]
                 \/ call'[u]["cashier me"].op = "me"
        <3>1. PICK reply, who, token : Reply(t, s, reply, who, token)
            BY <2>4 DEF Handle, Grant, Identify, Revoke, CompleteOnboarding, Refuse
        <3> DEFINE b == who \in onboarded'
                   c == [call[t][s] EXCEPT !.reply = reply, !.who = who, !.token = token,
                                           !.onboarded = b]
        <3>2. call[t][s] \in CallRecord  BY <1>1
        <3>3. call' = [call EXCEPT ![t][s] = c] /\ call[t][s].op # "none"
            BY <1>1, <3>1, <3>2 DEF Reply
        <3> HIDE DEF b
        <3>4. c.op = call[t][s].op  BY <3>2 DEF CallRecord
        <3> HIDE DEF c
        <3> QED  BY <2>2, <3>3, <3>4
    <2>5. CASE \E k \in live : Invalidate(k)  BY <2>5 DEF Invalidate
    <2> QED  BY <2>1, <2>3, <2>4, <2>5
<1>4. \A u \in Tab : Asked(view'[u], call'[u])  BY <1>2, <1>3 DEF GateInv, Asked
<1> QED  BY <1>4 DEF GateInv

\* Every step leaves whoever waits at the gate with his question asked.
LEMMA NextAsks == GateInv /\ [Next]_vars => GateInv' /\ \A t \in Tab : AnswerCashierMe(t) => ~AtGate(t)'
<1> SUFFICES ASSUME GateInv, [Next]_vars
             PROVE  GateInv' /\ \A t \in Tab : AnswerCashierMe(t) => ~AtGate(t)'
    OBVIOUS
<1>1. Inv'  BY NextInv DEF GateInv
<1>2. ASSUME NEW t \in Tab, Use(t) PROVE GateInv'
    <2>1. ASSUME NEW p \in Page, Load(t, p) \/ Navigate(t, p) PROVE GateInv'
        BY <1>1, <2>1, OpenAsks
    <2>2. CASE Sends(t)  BY <1>1, <2>2, OtherAsks
    <2> QED  BY <1>2, <2>1, <2>2 DEF Use, Sends
<1>3. ASSUME NEW t \in Tab, Answer(t) PROVE GateInv'
    <2>1. ASSUME NEW r \in Role, AnswerLogin(t, r) \/ AnswerLogout(t, r) PROVE GateInv'
        BY <1>1, <2>1, RenderDoneAsks DEF AnswerLogin, AnswerLogout
    <2>2. CASE AnswerOnboarding(t)
        BY <1>1, <2>2, RenderDoneAsks DEF AnswerOnboarding
    <2>3. CASE AnswerOwnerMe(t)
        <3>1. \E v : Render(t, v, Done(t, {"owner me"}))
            BY <2>3 DEF AnswerOwnerMe, Answered, CallRecord, GateInv, Inv, Typed, CallTyped, Slot
        <3> QED  BY <1>1, <3>1, RenderDoneAsks
    <2> QED  BY <2>3, <1>1, <1>3, <2>1, <2>2, ImpersonationAsks, CashierMeAsks DEF Answer
<1>4. ASSUME \/ \E t \in Tab, s \in Slot : Handle(t, s) \/ Fail(t, s)
             \/ \E k \in live : Invalidate(k)
      PROVE  GateInv'
    BY <1>1, <1>4, OtherAsks
<1>5. ASSUME UNCHANGED vars PROVE GateInv'
    <2>1. view' = view /\ call' = call  BY <1>5 DEF vars
    <2>2. \A u \in Tab : Asked(view'[u], call'[u])  BY <2>1 DEF GateInv
    <2> QED  BY <1>1, <2>2 DEF GateInv
<1>7. GateInv'  BY <1>2, <1>3, <1>4, <1>5 DEF Next
<1> QED  BY <1>1, <1>7, CashierMeAsks

\* Nobody waits at the gate without a question on its way, and every answer to it ends the
\* wait: the part of the gate's liveness that does not rest on the network.
THEOREM GateCorrect == Spec => GateIsAnswered
<1>1. Init => GateInv
    <2> SUFFICES ASSUME Init PROVE GateInv  OBVIOUS
    <2>1. \A t \in Tab : view[t].page = "closed" /\ call[t]["cashier me"] = Idle
        BY DEF Init, NoCalls, Slot
    <2> QED  BY <2>1, InitInv DEF GateInv, Asked
<1>2. GateInv /\ [Next]_vars =>
          [\A t \in Tab : /\ AtGate(t)' => call'[t]["cashier me"].op = "me"
                          /\ AnswerCashierMe(t) => ~AtGate(t)']_vars
    BY NextAsks DEF GateInv, Asked, AtGate
<1>3. GateInv /\ [Next]_vars => GateInv'  BY NextAsks
<1> QED  BY <1>1, <1>2, <1>3, PTL DEF Spec, GateIsAnswered
=============================================================================
