--------------------------- MODULE CashierAccess ---------------------------
(***************************************************************************)
(* Who may use a till: the owner's CRUD of cashiers (CashiersView,         *)
(* CashierDetailView, CashierImpersonateView over CashierSerializer), the  *)
(* cashiers' login and logout, and the authentication of every cashier     *)
(* request by its CashierSession.                                          *)
(*                                                                         *)
(* A worker stands for a client with at most one request in flight: the    *)
(* owner's tabs (Owner) and the tills (Till).  The handlers run outside    *)
(* any transaction, so each query is a step of its own; the one            *)
(* transaction.atomic (login: last_login_at and the session) is one step.  *)
(* The n-th accepted request has ticket n, and the row or token it creates *)
(* is named by it: ObjectIds and secrets.token_hex never repeat.           *)
(***************************************************************************)
EXTENDS Integers, Sequences

CONSTANTS
    Owner, Till,      \* clients of the owner's API and of the cashiers' API
    Store, Code, Pin,
    CodeOf,           \* CodeOf[s] is the code of store s
    Opening,          \* the cashiers at the start: a sequence of rows
    OwnerRequest, TillRequest,
    MaxRequests,      \* bound of the model: requests accepted in a behaviour
    Absent,           \* a field the body of the request does not have
    NoRow, NoRequest

Worker  == Owner \cup Till
Ticket  == 1..MaxRequests
Cashier == 1..(Len(Opening) + MaxRequests)

\* The columns of Cashier that matter; pin stands for its salted hash.
Row == [store : Store, pin : Pin, active : BOOLEAN]
Session == [cashier : Cashier, expired : BOOLEAN]

ASSUME AccessAssumption ==
    /\ Owner \cap Till = {}
    /\ CodeOf \in [Store -> Code]
    /\ Opening \in Seq(Row)
    /\ MaxRequests \in Nat
    /\ Absent \notin Pin \cup BOOLEAN
    /\ NoRow \notin Row \cup Session
    /\ NoRequest \notin OwnerRequest \cup TillRequest
    /\ OwnerRequest \subseteq
          [op : {"create"}, store : Store, pin : Pin, active : BOOLEAN \cup {Absent}]
          \cup [op : {"patch"}, cashier : Cashier, pin : Pin \cup {Absent},
                active : BOOLEAN \cup {Absent}]
          \cup [op : {"delete", "impersonate"}, cashier : Cashier]
    /\ TillRequest \subseteq
          [op : {"login"}, code : Code, pin : Pin]
          \cup [op : {"act", "logout"}, token : Ticket]

VARIABLES
    cashier, session,  \* the tables
    pc, req, ticket,   \* what each worker is doing, for which request
    seen,              \* the row the handler has read
    left,              \* login: the stores still to be searched
    match,             \* login, impersonation, authentication: the cashier found
    word,              \* history: what the owner's answered requests say of a cashier
    barred,            \* history: who was deactivated when the request came in
    since,             \* history: the cashiers saved since the last query of a handler
                       \* that is about to save one itself
    unchecked,         \* history: the active cashiers whose PIN nobody compared with all
                       \* the others there were when it was saved
    fitting,           \* history: who has fitted a login ever since it came in
    overwritten,       \* history: the cashiers a PATCH was saved over that another
                       \* request had changed since the PATCH read its row
    served             \* requests accepted so far

local   == <<seen, left, match>>
history == <<word, barred, since, unchecked, fitting, overwritten>>
vars    == <<cashier, session, pc, req, ticket, local, history, served>>

Stages == {"idle", "validate", "insert", "read", "save", "deactivate",
           "match", "issue", "authenticate", "act", "logout"}

FirstStage(op) ==
    IF op = "create" THEN "validate"
    ELSE IF op \in {"patch", "delete", "impersonate"} THEN "read"
    ELSE IF op = "login" THEN "match" ELSE "authenticate"

Given(new, old) == IF new = Absent THEN old ELSE new

\* Cashier row is whom the login request r means: one active in a store with its code,
\* with its PIN.
Fits(r, row) == /\ row # NoRow /\ row.active
                /\ CodeOf[row.store] = r.code
                /\ row.pin = r.pin

Init ==
    /\ cashier = [c \in Cashier |-> IF c \in DOMAIN Opening THEN Opening[c] ELSE NoRow]
    /\ session = [t \in Ticket |-> NoRow]
    /\ pc = [w \in Worker |-> "idle"]
    /\ req = [w \in Worker |-> NoRequest]
    /\ ticket = [w \in Worker |-> 0]
    /\ seen = [w \in Worker |-> NoRow]
    /\ left = [w \in Worker |-> {}]
    /\ match = [w \in Worker |-> 0]
    /\ word = cashier
    /\ barred = [w \in Worker |-> {}]
    /\ since = [w \in Worker |-> {}]
    /\ unchecked = {}
    /\ fitting = [w \in Worker |-> {}]
    /\ overwritten = {}
    /\ served = 0

Goto(w, stage) == pc' = [pc EXCEPT ![w] = stage]

\* The request of w is answered.
Finish(w) ==
    /\ Goto(w, "idle")
    /\ req' = [req EXCEPT ![w] = NoRequest]
    /\ ticket' = [ticket EXCEPT ![w] = 0]
    /\ seen' = [seen EXCEPT ![w] = NoRow]
    /\ left' = [left EXCEPT ![w] = {}]
    /\ match' = [match EXCEPT ![w] = 0]
    /\ UNCHANGED served

\* The request of w ends and changes no cashier: history only.
Forget(w) ==
    /\ barred' = [barred EXCEPT ![w] = {}]
    /\ since' = [since EXCEPT ![w] = {}]
    /\ fitting' = [fitting EXCEPT ![w] = {}]
    /\ UNCHANGED <<word, unchecked, overwritten>>

\* The request ends with nothing written to these tables.
EndUnwritten(w) ==
    /\ Finish(w)
    /\ Forget(w)
    /\ UNCHANGED <<cashier, session>>

Accept(w) ==
    /\ pc[w] = "idle"
    /\ served < MaxRequests
    /\ \E r \in IF w \in Owner THEN OwnerRequest ELSE TillRequest :
        /\ req' = [req EXCEPT ![w] = r]
        /\ Goto(w, FirstStage(r.op))
        /\ left' = [left EXCEPT ![w] =
                       IF r.op = "login" THEN {s \in Store : CodeOf[s] = r.code} ELSE {}]
        /\ fitting' = [fitting EXCEPT ![w] =
                          IF r.op = "login" THEN {c \in Cashier : Fits(r, cashier[c])} ELSE {}]
    /\ ticket' = [ticket EXCEPT ![w] = served + 1]
    /\ served' = served + 1
    /\ barred' = [barred EXCEPT ![w] =
                     {c \in Cashier : word[c] # NoRow /\ ~word[c].active}]
    /\ UNCHANGED <<cashier, session, seen, match, word, since, unchecked, overwritten>>

-----------------------------------------------------------------------------
(* The owner's requests                                                    *)

\* Mutant: the cashier is looked up without a 404.
ReadMissingCashier(w) ==
    /\ pc[w] = "read"
    /\ seen' = [seen EXCEPT ![w] = cashier[req[w].cashier]]
    /\ match' = [match EXCEPT ![w] = req[w].cashier]
    /\ Goto(w, IF req[w].op = "delete" THEN "deactivate" ELSE "save")
    /\ UNCHANGED <<cashier, session, req, ticket, left, history, served>>

\* _get_cashier; impersonation goes on only with an active cashier.
ReadCashier(w) ==
    /\ pc[w] = "read"
    /\ LET row == cashier[req[w].cashier]
       IN  /\ row # NoRow
           /\ req[w].op = "impersonate" => row.active
           /\ seen' = [seen EXCEPT ![w] = row]
    /\ match' = [match EXCEPT ![w] = req[w].cashier]
    /\ Goto(w, IF req[w].op = "delete" THEN "deactivate"
               ELSE IF req[w].op = "impersonate" THEN "issue"
               ELSE IF req[w].pin = Absent THEN "save" ELSE "validate")
    /\ UNCHANGED <<cashier, session, req, ticket, left, history, served>>

RefuseCashier(w) ==
    /\ pc[w] = "read"
    /\ LET row == cashier[req[w].cashier]
       IN  row = NoRow \/ (req[w].op = "impersonate" /\ ~row.active)
    /\ EndUnwritten(w)

\* The store of the cashier w creates or changes.
StoreOf(w) == IF req[w].op = "create" THEN req[w].store ELSE seen[w].store

\* Mutant: only the PIN of a new cashier is compared with the others'.
NewPinHolders(w) ==
    {c \in Cashier : /\ req[w].op = "create"
                     /\ cashier[c] # NoRow
                     /\ cashier[c].active
                     /\ cashier[c].store = StoreOf(w)
                     /\ cashier[c].pin = req[w].pin}

\* The active cashiers of the store with the PIN of the request, other than the
\* one being changed.
PinHolders(w) ==
    {c \in Cashier : /\ cashier[c] # NoRow
                     /\ cashier[c].active
                     /\ cashier[c].store = StoreOf(w)
                     /\ cashier[c].pin = req[w].pin
                     /\ c # match[w]}

ValidatePin(w) ==
    /\ pc[w] = "validate"
    /\ PinHolders(w) = {}
    /\ Goto(w, IF req[w].op = "create" THEN "insert" ELSE "save")
    /\ UNCHANGED <<cashier, session, req, ticket, local, history, served>>

RefusePin(w) ==
    /\ pc[w] = "validate"
    /\ PinHolders(w) # {}
    /\ EndUnwritten(w)

\* The owner's answered request says row of cashier c: history only.
Answered(w, c, row) ==
    /\ word' = [word EXCEPT ![c] = row]
    /\ barred' = [v \in Worker |-> IF v = w THEN {}
                                   ELSE IF row.active THEN barred[v] \ {c}
                                   ELSE barred[v]]

\* w saves an active row whose PIN it did not compare with those of the other active
\* cashiers of the store as they are now: its last query was before one of them was
\* saved, or it makes a cashier active whose PIN is not in the body.
Unchecked(w, row) ==
    \/ \E d \in since[w] : cashier[d].store = row.store
    \/ req[w].pin = Absent /\ ~seen[w].active

\* w saves row as cashier c: history only.
Saved(w, c, row) ==
    /\ since' = [v \in Worker |->
                    IF v # w /\ pc[v] \in {"insert", "save"} THEN since[v] \cup {c} ELSE {}]
    /\ fitting' = [v \in Worker |->
                      IF v = w THEN {} ELSE {d \in fitting[v] : d # c \/ Fits(req[v], row)}]
    /\ unchecked' = IF ~row.active THEN unchecked \ {c}
                    ELSE IF Unchecked(w, row) THEN unchecked \cup {c}
                    ELSE IF req[w].pin # Absent THEN unchecked \ {c} ELSE unchecked
    /\ overwritten' = IF pc[w] = "save" /\ seen[w] # cashier[c]
                      THEN overwritten \cup {c} ELSE overwritten

InsertCashier(w) ==
    /\ pc[w] = "insert"
    /\ LET c == Len(Opening) + ticket[w]
           row == [store |-> req[w].store, pin |-> req[w].pin,
                   active |-> Given(req[w].active, TRUE)]
       IN  /\ cashier' = [cashier EXCEPT ![c] = row]
           /\ Answered(w, c, row)
           /\ Saved(w, c, row)
    /\ UNCHANGED session
    /\ Finish(w)

\* Mutant: active defaults to True in a PATCH as it does in a POST.
PatchedWithDefaults(w, row) ==
    [store |-> row.store, pin |-> Given(req[w].pin, row.pin),
     active |-> Given(req[w].active, TRUE)]

\* The fields of the body over the row that was read.
Patched(w, row) ==
    [store |-> row.store, pin |-> Given(req[w].pin, row.pin),
     active |-> Given(req[w].active, row.active)]

\* What the owner asked for, over the last answer: history only.
Asked(w, row) ==
    [store |-> row.store, pin |-> Given(req[w].pin, row.pin),
     active |-> Given(req[w].active, row.active)]

\* instance.save(): every column of the row that was read.
SaveCashier(w) ==
    /\ pc[w] = "save"
    /\ cashier' = [cashier EXCEPT ![req[w].cashier] = Patched(w, seen[w])]
    /\ Answered(w, req[w].cashier, Asked(w, word[req[w].cashier]))
    /\ Saved(w, req[w].cashier, Patched(w, seen[w]))
    /\ UNCHANGED session
    /\ Finish(w)

\* save(update_fields=["active", ...])
Deactivate(w) ==
    /\ pc[w] = "deactivate"
    /\ cashier' = [cashier EXCEPT ![req[w].cashier].active = FALSE]
    /\ Answered(w, req[w].cashier, [word[req[w].cashier] EXCEPT !.active = FALSE])
    /\ Saved(w, req[w].cashier, [cashier[req[w].cashier] EXCEPT !.active = FALSE])
    /\ UNCHANGED session
    /\ Finish(w)

-----------------------------------------------------------------------------
(* The tills' requests                                                     *)

\* Mutant: inactive cashiers are searched too.
HitsOfAll(w, s) ==
    {c \in Cashier : cashier[c] # NoRow /\ cashier[c].store = s /\ cashier[c].pin = req[w].pin}

\* The active cashiers of store s the request's PIN fits.
Hits(w, s) ==
    {c \in Cashier : /\ cashier[c] # NoRow
                     /\ cashier[c].store = s
                     /\ cashier[c].active
                     /\ cashier[c].pin = req[w].pin}

\* The loop over the stores with the code, one query each, in no fixed order
\* (all have the same code); the first hit wins.
MatchStore(w) ==
    /\ pc[w] = "match"
    /\ \E s \in left[w] :
        \/ /\ Hits(w, s) = {}
           /\ left' = [left EXCEPT ![w] = @ \ {s}]
           /\ UNCHANGED <<pc, match>>
        \/ /\ \E c \in Hits(w, s) : match' = [match EXCEPT ![w] = c]
           /\ left' = [left EXCEPT ![w] = {}]
           /\ Goto(w, "issue")
    /\ UNCHANGED <<cashier, session, req, ticket, seen, history, served>>

RefuseLogin(w) ==
    /\ pc[w] = "match"
    /\ left[w] = {}
    /\ EndUnwritten(w)

\* CashierSession.issue: the end of a login and of an impersonation.
IssueSession(w) ==
    /\ pc[w] = "issue"
    /\ session' = [session EXCEPT ![ticket[w]] = [cashier |-> match[w], expired |-> FALSE]]
    /\ UNCHANGED cashier
    /\ Forget(w)
    /\ Finish(w)

\* Mutant: the session is not looked up together with its cashier.
SessionIsLive(t) == session[t] # NoRow /\ ~session[t].expired

\* The token names a session, not expired, of an active cashier.
SessionIsGood(t) ==
    /\ session[t] # NoRow
    /\ ~session[t].expired
    /\ cashier[session[t].cashier].active

\* CashierTokenAuthentication.authenticate: one query, before the view runs.
Authenticate(w) ==
    /\ pc[w] = "authenticate"
    /\ SessionIsGood(req[w].token)
    /\ match' = [match EXCEPT ![w] = session[req[w].token].cashier]
    /\ Goto(w, req[w].op)
    /\ UNCHANGED <<cashier, session, req, ticket, seen, left, history, served>>

RefuseToken(w) ==
    /\ pc[w] = "authenticate"
    /\ ~SessionIsGood(req[w].token)
    /\ EndUnwritten(w)

\* The view does its work, a sale for example, as the cashier authenticated.
Act(w) == pc[w] = "act" /\ EndUnwritten(w)

\* request.auth.delete(); a session already deleted stays deleted.
Logout(w) ==
    /\ pc[w] = "logout"
    /\ session' = [session EXCEPT ![req[w].token] = NoRow]
    /\ UNCHANGED cashier
    /\ Forget(w)
    /\ Finish(w)

-----------------------------------------------------------------------------
\* Eight hours pass since the session was issued.
Expire(t) ==
    /\ session[t] # NoRow
    /\ ~session[t].expired
    /\ session' = [session EXCEPT ![t].expired = TRUE]
    /\ UNCHANGED <<cashier, pc, req, ticket, local, history, served>>

\* The worker process dies before the step that writes.
Crash(w) == pc[w] # "idle" /\ EndUnwritten(w)

Step(w) ==
    \/ ReadCashier(w) \/ RefuseCashier(w) \/ ValidatePin(w) \/ RefusePin(w)
    \/ InsertCashier(w) \/ SaveCashier(w) \/ Deactivate(w)
    \/ MatchStore(w) \/ RefuseLogin(w) \/ IssueSession(w)
    \/ Authenticate(w) \/ RefuseToken(w) \/ Act(w) \/ Logout(w)

\* The bound on requests is reached and every one is answered.
Quiet ==
    /\ served = MaxRequests
    /\ \A w \in Worker : pc[w] = "idle"
    /\ UNCHANGED vars

Next ==
    \/ \E w \in Worker : Accept(w) \/ Step(w) \/ Crash(w)
    \/ \E t \in Ticket : Expire(t)
    \/ Quiet

Spec == Init /\ [][Next]_vars
-----------------------------------------------------------------------------
(* Properties                                                              *)

VariableTypes ==
    /\ cashier \in [Cashier -> Row \cup {NoRow}]
    /\ session \in [Ticket -> Session \cup {NoRow}]
    /\ pc \in [Worker -> Stages]
    /\ req \in [Worker -> OwnerRequest \cup TillRequest \cup {NoRequest}]
    /\ ticket \in [Worker -> 0..MaxRequests]
    /\ seen \in [Worker -> Row \cup {NoRow}]
    /\ left \in [Worker -> SUBSET Store]
    /\ match \in [Worker -> Cashier \cup {0}]
    /\ word \in [Cashier -> Row \cup {NoRow}]
    /\ barred \in [Worker -> SUBSET Cashier]
    /\ since \in [Worker -> SUBSET Cashier]
    /\ unchecked \in SUBSET Cashier
    /\ fitting \in [Worker -> SUBSET Cashier]
    /\ overwritten \in SUBSET Cashier
    /\ served \in 0..MaxRequests

\* The operations a stage belongs to.
OpsAt(stage) ==
    IF stage = "validate" THEN {"create", "patch"}
    ELSE IF stage = "insert" THEN {"create"}
    ELSE IF stage = "read" THEN {"patch", "delete", "impersonate"}
    ELSE IF stage = "save" THEN {"patch"}
    ELSE IF stage = "deactivate" THEN {"delete"}
    ELSE IF stage = "match" THEN {"login"}
    ELSE IF stage = "issue" THEN {"login", "impersonate"}
    ELSE IF stage = "authenticate" THEN {"act", "logout"}
    ELSE {stage}

\* What a handler at its stage has found, and that no row it found is gone.
StageTypes ==
    \A w \in Worker : pc[w] # "idle" =>
        /\ req[w] \in IF w \in Owner THEN OwnerRequest ELSE TillRequest
        /\ req[w].op \in OpsAt(pc[w])
        /\ ticket[w] \in Ticket
        /\ pc[w] = "issue" => match[w] \in Cashier /\ cashier[match[w]] # NoRow
        /\ pc[w] = "deactivate" \/ (pc[w] \in {"validate", "save"} /\ req[w].op = "patch") =>
              /\ match[w] = req[w].cashier /\ match[w] \in Cashier
              /\ seen[w] # NoRow /\ cashier[match[w]] # NoRow

\* Every variable has its type; a session and a handler only ever name a cashier
\* that exists, the owner's answers cover exactly the cashiers there are, and a
\* handler never writes through a row it has not read.
TypeOK ==
    /\ VariableTypes
    /\ StageTypes
    /\ \A t \in Ticket : session[t] # NoRow => cashier[session[t].cashier] # NoRow
    /\ \A c \in Cashier : word[c] # NoRow <=> cashier[c] # NoRow

\* Two cashiers that a PIN typed at a till of their store both means.
SharePin(c, d) ==
    /\ cashier[c] # NoRow /\ cashier[d] # NoRow
    /\ cashier[c].active /\ cashier[d].active
    /\ cashier[c].store = cashier[d].store
    /\ cashier[c].pin = cashier[d].pin

\* The page of the cashiers promises that a PIN is unique within a store ("PIN unik
\* dalam satu toko").
ActivePinsDistinct == \A c, d \in Cashier : SharePin(c, d) => c = d

\* What CashierSerializer.validate keeps of it: two active cashiers of a store share a
\* PIN only if one of them was last made active by a request without a PIN, or saved
\* by a handler whose last look at the store's cashiers was before another save there.
SharedPinsWereUnchecked ==
    \A c, d \in Cashier : SharePin(c, d) => c = d \/ c \in unchecked \/ d \in unchecked

\* A cashier is as the owner's answered requests left it: a DELETE answered 204
\* or a new PIN answered 200 is not undone by a request that did not ask for it.
OwnersWordHolds == cashier = word

\* What the whole-row save of CashierSerializer.update keeps of it: an answer is undone
\* only by a PATCH that overlapped the request that was answered.
OnlyOverlapUndoesAnswers == \A c \in Cashier : cashier[c] = word[c] \/ c \in overwritten

\* A request that comes in when the owner's last word on its cashier was to
\* deactivate it does nothing, unless the owner reactivates the cashier meanwhile or
\* an overlapping PATCH has undone the deactivation.
BarredNeverActs ==
    [][\A w \in Worker : Act(w) => match[w] \notin barred[w] \ overwritten]_vars

\* A login is refused only if nobody fitted its code and PIN all the while, however
\* cashiers are saved between the stores it searches; and if somebody else fits beside
\* the cashier it finds, he works in another store with the same code ("First hit
\* wins"), or one of the two was saved unchecked.
LoginFindsWhoFits ==
    [][\A w \in Worker :
           /\ RefuseLogin(w) => fitting[w] = {}
           /\ MatchStore(w) /\ pc'[w] = "issue" =>
                 \A d \in Cashier : Fits(req[w], cashier[d]) =>
                     \/ d = match'[w]
                     \/ cashier[d].store # cashier[match'[w]].store
                     \/ d \in unchecked \/ match'[w] \in unchecked]_vars
=============================================================================
