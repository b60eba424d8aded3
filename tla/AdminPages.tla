----------------------------- MODULE AdminPages -----------------------------
(***************************************************************************)
(* The pages where an owner keeps stores and cashiers, in two tabs of one  *)
(* browser: the list of stores and the cashiers of one store, each with a  *)
(* form for creating and editing and a dialog for deleting or              *)
(* deactivating; the handlers behind them; the onboarding that makes the   *)
(* first store; and a till that sells meanwhile.                           *)
(*                                                                         *)
(* A row is a store or a cashier; its key is the store's code or the       *)
(* cashier's PIN.  The other fields are left out, except that a name may   *)
(* be blank.  A handler is two steps: what it reads, then what it writes.  *)
(***************************************************************************)
EXTENDS Naturals, Sequences

CONSTANTS
    Code, Pin, NoKey,
    Shown,               \* the store whose cashiers the second tab shows
    MaxRows, MaxMoves    \* bounds: rows ever made, and clicks

ASSUME PagesAssumption ==
    /\ NoKey \notin Code \cup Pin /\ Code \cap Pin = {}
    /\ Shown = 1
    /\ MaxRows \in Nat /\ MaxMoves \in Nat

Page == {"stores", "cashiers"}

\* The mutations of the pages, of two tabs that show the onboarding, and a till.
Slot == (Page \X {"create", "update", "remove"})
        \cup {<<"cashiers", "reactivate">>, <<"onboarding", "one">>, <<"onboarding", "two">>,
              <<"till", "sale">>}

VARIABLES
    rows,        \* the Store and Cashier rows, also those deleted
    sold,        \* the stores and cashiers that have sales
    onboarded,   \* the owner's profile
    list,        \* per page: the rows as last fetched
    form,        \* per page: its form dialog
    doomed,      \* per page: the row of its delete dialog
    request,
    moves

tables == <<rows, sold, onboarded>>
pages == <<list, form, doomed>>
vars == <<tables, pages, request, moves>>

Idle == [status |-> "none", id |-> 0, key |-> NoKey, blank |-> FALSE, seen |-> <<>>,
         left |-> FALSE]

\* A tab has left the onboarding page.
Over == [Idle EXCEPT !.status = "over"]

Row(page, key) == [page |-> page, key |-> key, exists |-> TRUE, active |-> TRUE]

\* A new owner, or one with a store and a cashier.
Init ==
    /\ \/ onboarded = FALSE /\ rows = <<>>
       \/ onboarded = TRUE /\ \E c \in Code, p \in Pin :
                                 rows = <<Row("stores", c), Row("cashiers", p)>>
    /\ sold = {}
    /\ list = [p \in Page |-> rows]
    /\ form = [p \in Page |-> [open |-> FALSE, id |-> 0]]
    /\ doomed = [p \in Page |-> 0]
    /\ request = [s \in Slot |-> IF onboarded /\ s[1] = "onboarding" THEN Over ELSE Idle]
    /\ moves = 0

-----------------------------------------------------------------------------
(* The pages                                                               *)

Move == moves < MaxMoves /\ moves' = moves + 1

Lists(p, id) == id \in DOMAIN list[p] /\ list[p][id].page = p /\ list[p][id].exists

IsPending(s) == request[s].status # "none"
Send(s, r) == request' = [request EXCEPT ![s] = r]

\* A dialog is modal: the buttons behind it do not work.
Unobstructed(p) == onboarded /\ ~form[p].open /\ doomed[p] = 0

Refetch(p) ==
    /\ list' = [list EXCEPT ![p] = rows]
    /\ UNCHANGED <<tables, form, doomed, request, moves>>

\* openCreate (id 0) and openEdit.
OpenForm(p, id) ==
    /\ Move
    /\ Unobstructed(p)
    /\ id # 0 => Lists(p, id)
    /\ form' = [form EXCEPT ![p] = [open |-> TRUE, id |-> id]]
    /\ UNCHANGED <<tables, list, doomed, request>>

\* The form of page p is closed: whatever the page still waits for is left behind.
Close(p, r) ==
    /\ form' = [form EXCEPT ![p].open = FALSE]
    /\ request' = [s \in Slot |-> IF s[1] = p /\ r[s].status # "none"
                                  THEN [r[s] EXCEPT !.left = TRUE] ELSE r[s]]

\* "Batal" is disabled while the mutation is pending, the escape key is not.
CloseForm(p) ==
    /\ Move
    /\ form[p].open
    /\ Close(p, request)
    /\ UNCHANGED <<tables, list, doomed>>

\* openDelete, and openDeactivate for a cashier shown as active.
OpenRemove(p, id) ==
    /\ Move
    /\ Unobstructed(p)
    /\ Lists(p, id) /\ list[p][id].active
    /\ doomed' = [doomed EXCEPT ![p] = id]
    /\ UNCHANGED <<tables, list, form, request>>

CloseRemove(p) ==
    /\ Move
    /\ doomed[p] # 0
    /\ doomed' = [doomed EXCEPT ![p] = 0]
    /\ UNCHANGED <<tables, list, form, request>>

Keys(p) == IF p = "stores" THEN Code ELSE Pin \cup {NoKey}

\* Mutant: the schema of an edit serves for a new cashier too.
EditSchema(p, id, key, blank) == p = "cashiers" => ~blank

\* zod: a store's name may be spaces, a cashier's is trimmed first; only an edit may
\* leave the PIN empty.
FormTakes(p, id, key, blank) ==
    p = "cashiers" => ~blank /\ (key = NoKey => id # 0)

\* onSubmit.
Submit(p, key, blank) ==
    LET s == <<p, IF form[p].id = 0 THEN "create" ELSE "update">>
    IN  /\ Move
        /\ form[p].open /\ ~IsPending(s)
        /\ FormTakes(p, form[p].id, key, blank)
        /\ Send(s, [Idle EXCEPT !.status = "sent", !.id = form[p].id, !.key = key,
                                !.blank = blank])
        /\ UNCHANGED <<tables, pages>>

Confirm(p) ==
    /\ Move
    /\ doomed[p] # 0 /\ ~IsPending(<<p, "remove">>)
    /\ Send(<<p, "remove">>, [Idle EXCEPT !.status = "sent", !.id = doomed[p]])
    /\ UNCHANGED <<tables, pages>>

\* onReactivate: the row's button patches {active: true} and nothing else.
Reactivate(id) ==
    LET s == <<"cashiers", "reactivate">>
    IN  /\ Move
        /\ Unobstructed("cashiers") /\ ~IsPending(s)
        /\ Lists("cashiers", id) /\ ~list["cashiers"][id].active
        /\ Send(s, [Idle EXCEPT !.status = "sent", !.id = id])
        /\ UNCHANGED <<tables, pages>>

\* The form of the onboarding page, in either tab; it may be sent again after an error.
Onboard(tab, code, blank) ==
    LET s == <<"onboarding", tab>>
    IN  /\ Move
        /\ ~IsPending(s)
        /\ Send(s, [Idle EXCEPT !.status = "sent", !.key = code, !.blank = blank])
        /\ UNCHANGED <<tables, pages>>

-----------------------------------------------------------------------------
(* The server                                                              *)

Exists(id) == id \in DOMAIN rows /\ rows[id].exists
StoreExists(page) == page = "cashiers" => Exists(Shown)

\* The rows whose key a saved row may not have: the stores of the tenant, and the
\* active cashiers of the store.
HasKey(page, key, id) ==
    \E i \in DOMAIN rows \ {id} :
        Exists(i) /\ rows[i].page = page /\ rows[i].active /\ rows[i].key = key

Finish(s, status) == request' = [request EXCEPT ![s].status = status]
Proceed(s) == request' = [request EXCEPT ![s].status = "read", ![s].seen = rows]

IsSave(s) == s[1] \in Page /\ s[2] \in {"create", "update", "reactivate"}

\* Mutant: a row that is gone is not a 404.
ReadAnyRow(s) ==
    /\ IsSave(s) /\ request[s].status = "sent"
    /\ LET r == request[s]
       IN  IF /\ StoreExists(s[1])
              /\ ~HasKey(s[1], r.key, r.id) /\ ~r.blank
              /\ s = <<"cashiers", "create">> => r.key # NoKey
           THEN Proceed(s) ELSE Finish(s, "refused")
    /\ UNCHANGED <<tables, pages, moves>>

\* require_store and get_object_or_404, then StoreSerializer or CashierSerializer.
ReadSave(s) ==
    /\ IsSave(s) /\ request[s].status = "sent"
    /\ LET r == request[s]
       IN  IF /\ StoreExists(s[1])
              /\ r.id # 0 => Exists(r.id)
              /\ ~HasKey(s[1], r.key, r.id) /\ ~r.blank
              /\ s = <<"cashiers", "create">> => r.key # NoKey
           THEN Proceed(s) ELSE Finish(s, "refused")
    /\ UNCHANGED <<tables, pages, moves>>

\* Mutant: the foreign keys and the unique index are not checked.
TakesAnything(page, key, id) == TRUE

\* uniq_store_code_per_tenant, and the foreign key of a cashier.
DatabaseTakes(page, key, id) ==
    IF page = "stores" THEN ~HasKey("stores", key, id) ELSE Exists(Shown)

\* save() writes every column as it was read, and inserts the row if it is gone.
Edited(s, r) ==
    [r.seen[r.id] EXCEPT !.exists = TRUE,
                         !.key = IF r.key = NoKey THEN @ ELSE r.key,
                         !.active = @ \/ s[2] = "reactivate"]

WriteSave(s) ==
    LET r == request[s]
    IN  /\ IsSave(s) /\ r.status = "read"
        /\ Len(rows) < MaxRows \/ r.id # 0
        /\ IF DatabaseTakes(s[1], IF r.id = 0 THEN r.key ELSE Edited(s, r).key, r.id)
           THEN /\ rows' = IF r.id = 0 THEN Append(rows, Row(s[1], r.key))
                           ELSE [rows EXCEPT ![r.id] = Edited(s, r)]
                /\ Finish(s, "done")
           ELSE UNCHANGED rows /\ Finish(s, "error")
        /\ UNCHANGED <<sold, onboarded, pages, moves>>

\* complete_onboarding up to the transaction.
ReadOnboarding(s) ==
    /\ s[1] = "onboarding" /\ request[s].status = "sent"
    /\ IF ~onboarded /\ ~HasKey("stores", request[s].key, 0) /\ ~request[s].blank
       THEN Proceed(s) ELSE Finish(s, "refused")
    /\ UNCHANGED <<tables, pages, moves>>

WriteOnboarding(s) ==
    /\ s[1] = "onboarding" /\ request[s].status = "read"
    /\ Len(rows) < MaxRows
    /\ IF DatabaseTakes("stores", request[s].key, 0)
       THEN /\ rows' = Append(rows, Row("stores", request[s].key))
            /\ onboarded' = TRUE
            /\ Finish(s, "done")
       ELSE UNCHANGED <<rows, onboarded>> /\ Finish(s, "error")
    /\ UNCHANGED <<sold, pages, moves>>

\* What deleting a row takes along: the cashiers of a store.
Cascade(id, table) ==
    {id} \cup {i \in DOMAIN table : id = Shown /\ table[i].page = "cashiers" /\ table[i].exists}

\* A missing row is a 404; a store with sales is protected.
ReadRemove(s) ==
    /\ s[2] = "remove" /\ request[s].status = "sent"
    /\ IF ~Exists(request[s].id) THEN Finish(s, "refused")
       ELSE IF s[1] = "stores" /\ Cascade(request[s].id, rows) \cap sold # {}
       THEN Finish(s, "error")
       ELSE Proceed(s)
    /\ UNCHANGED <<tables, pages, moves>>

\* delete() removes what was collected and checks the foreign keys at the commit;
\* the deactivation updates active alone, and fails when the row is gone.
WriteRemove(s) ==
    LET r == request[s]
        gone == Cascade(r.id, r.seen)
        left == [i \in DOMAIN rows |-> [rows[i] EXCEPT !.exists = @ /\ i \notin gone]]
    IN  /\ s[2] = "remove" /\ r.status = "read"
        /\ IF s[1] = "stores"
           THEN IF gone \cap sold = {} /\ \A i \in Cascade(r.id, rows) : i \in gone
                THEN rows' = left /\ Finish(s, "done")
                ELSE UNCHANGED rows /\ Finish(s, "error")
           ELSE IF Exists(r.id)
                THEN rows' = [rows EXCEPT ![r.id].active = FALSE] /\ Finish(s, "done")
                ELSE UNCHANGED rows /\ Finish(s, "error")
        /\ UNCHANGED <<sold, onboarded, pages, moves>>

-----------------------------------------------------------------------------
(* The till, and answers                                                   *)

\* A cashier of the shown store sells: the request is authenticated, then written.
Sell(id) ==
    /\ Move
    /\ ~IsPending(<<"till", "sale">>)
    /\ Exists(id) /\ rows[id].page = "cashiers" /\ rows[id].active
    /\ Send(<<"till", "sale">>, [Idle EXCEPT !.status = "read", !.id = id])
    /\ UNCHANGED <<tables, pages>>

WriteSale ==
    LET s == <<"till", "sale">>
    IN  /\ request[s].status = "read"
        /\ IF Exists(request[s].id) /\ DatabaseTakes("cashiers", NoKey, 0)
           THEN sold' = sold \cup {Shown, request[s].id}
           ELSE UNCHANGED sold
        /\ Send(s, Idle)
        /\ UNCHANGED <<rows, onboarded, pages, moves>>

\* The request, or its answer, is lost.
Lose(s) ==
    /\ request[s].status \in {"sent", "done", "refused"}
    /\ Finish(s, "lost")
    /\ UNCHANGED <<tables, pages, moves>>

\* The page's dialog is closed, whatever it is open for by now.
AnswerSuccess(s) ==
    LET answered == [request EXCEPT ![s] = IF s[1] = "onboarding" THEN Over ELSE Idle]
    IN  /\ request[s].status = "done"
        /\ IF s[1] \in Page /\ s[2] \in {"create", "update"}
           THEN Close(s[1], answered)
           ELSE request' = answered /\ UNCHANGED form
        /\ doomed' = IF s[2] = "remove" THEN [doomed EXCEPT ![s[1]] = 0] ELSE doomed
        /\ UNCHANGED <<tables, list, moves>>

\* Mutant: the form is closed when the request has failed, too.
CloseOnError(s) ==
    /\ request[s].status \in {"refused", "error", "lost"}
    /\ Send(s, Idle)
    /\ form' = IF s[1] \in Page THEN [form EXCEPT ![s[1]].open = FALSE] ELSE form
    /\ UNCHANGED <<tables, list, doomed, moves>>

AnswerError(s) ==
    /\ request[s].status \in {"refused", "error", "lost"}
    /\ Send(s, Idle)
    /\ UNCHANGED <<tables, pages, moves>>

-----------------------------------------------------------------------------
FormStep(p) ==
    CloseForm(p) \/ \E key \in Keys(p), blank \in BOOLEAN : Submit(p, key, blank)

RemoveStep(p) == Confirm(p) \/ CloseRemove(p)

\* The controls of a page's list.
ListStep(p) ==
    \/ OpenForm(p, 0)
    \/ \E id \in DOMAIN list[p] : OpenForm(p, id) \/ OpenRemove(p, id)

Handle(s) ==
    \/ ReadSave(s) \/ WriteSave(s)
    \/ ReadOnboarding(s) \/ WriteOnboarding(s)
    \/ ReadRemove(s) \/ WriteRemove(s)

Answer(s) == Lose(s) \/ AnswerSuccess(s) \/ AnswerError(s)

Next ==
    \/ \E p \in Page : ListStep(p) \/ FormStep(p) \/ RemoveStep(p) \/ Refetch(p)
    \/ \E id \in DOMAIN list["cashiers"] : Reactivate(id)
    \/ \E tab \in {"one", "two"}, c \in Code, blank \in BOOLEAN : Onboard(tab, c, blank)
    \/ \E id \in DOMAIN rows : Sell(id)
    \/ WriteSale
    \/ \E s \in Slot : Handle(s) \/ Answer(s)

Spec == Init /\ [][Next]_vars

-----------------------------------------------------------------------------
(* Properties                                                              *)

RowRecord == [page : Page, key : Code \cup Pin, exists : BOOLEAN, active : BOOLEAN]
Status == {"none", "sent", "read", "done", "refused", "error", "lost", "over"}

\* Every variable has its type, and a page shows one dialog at a time.
TypeOK ==
    /\ rows \in Seq(RowRecord) /\ sold \subseteq DOMAIN rows /\ onboarded \in BOOLEAN
    /\ \A p \in Page : /\ list[p] \in Seq(RowRecord)
                       /\ form[p].open \in BOOLEAN /\ form[p].id \in 0..Len(rows)
                       /\ doomed[p] \in 0..Len(rows)
                       /\ ~(form[p].open /\ doomed[p] # 0)
    /\ \A s \in Slot : request[s].status \in Status /\ request[s].id \in 0..Len(rows)

\* No two stores of the owner have one code; a cashier has a store; sales keep the
\* store and the cashier they were made in.
TablesAreSound ==
    /\ \A i, j \in DOMAIN rows :
          i # j /\ rows[i].page = "stores" /\ rows[j].page = "stores" /\ Exists(i) /\ Exists(j)
              => rows[i].key # rows[j].key
    /\ \A i \in DOMAIN rows : rows[i].page = "cashiers" /\ Exists(i) => Exists(Shown)
    /\ \A i \in sold : Exists(i)

\* A save of row i that has read it and not yet written it.
WritesBack(s, i) ==
    IsSave(s) /\ request[s].status = "read" /\ request[s].id = i /\ request[s].seen[i].exists

\* A deleted row comes back only by a save that had read it before it was deleted; a
\* deactivated cashier is active again only by the reactivation, or by an edit that had
\* read it before it was deactivated.
ReturnsOnlyByOverlap ==
    [][\A i \in DOMAIN rows :
           /\ (Exists(i)' /\ ~Exists(i)) => \E s \in Slot : WritesBack(s, i)
           /\ (rows'[i].active /\ ~rows[i].active) =>
                  \E s \in Slot : /\ WritesBack(s, i)
                                  /\ request[s].seen[i].active \/ s[2] = "reactivate"]_vars

\* A form is closed under the owner's hands only when what it sent was saved, or
\* after the owner had left the form that was waiting for the answer.
ClosesWhenSaved ==
    [][\A p \in Page :
           form[p].open /\ ~form'[p].open /\ moves' = moves =>
               \E s \in Slot : /\ s[1] = p /\ request[s].status = "done" /\ request'[s] = Idle
                               /\ request[s].id = form[p].id \/ request[s].left]_vars

\* What a form lets through is refused only for a key in use, a store's blank name,
\* or a row that is gone.
FormsFit ==
    [][\A s \in Page \X {"create", "update"} :
           LET r == request[s]
           IN  request'[s].status = "refused" /\ r.status = "sent" =>
                   \/ HasKey(s[1], r.key, r.id)
                   \/ s[1] = "stores" /\ r.blank
                   \/ r.id # 0 /\ ~Exists(r.id)
                   \/ ~StoreExists(s[1])]_vars
=============================================================================
