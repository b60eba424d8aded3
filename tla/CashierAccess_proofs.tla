------------------------ MODULE CashierAccess_proofs ------------------------
(***************************************************************************)
(* Theorems about CashierAccess, for any number of the owner's tabs, of    *)
(* tills, stores and requests, and any codes.  What they need of the past  *)
(* is in the history variables the properties are stated with.             *)
(***************************************************************************)
EXTENDS CashierAccess, TLAPS

USE DEF Ticket, Worker, Cashier, history

-----------------------------------------------------------------------------
(* Requests and rows                                                       *)

\* The fields a request of each operation has, and whose operations they are.
LEMMA RequestFields ==
    ASSUME NEW r \in OwnerRequest \cup TillRequest
    PROVE  /\ r.op \in {"create", "patch", "delete", "impersonate", "login", "act", "logout"}
           /\ r \in OwnerRequest => r.op \in {"create", "patch", "delete", "impersonate"}
           /\ r \in TillRequest => r.op \in {"login", "act", "logout"}
           /\ r.op = "create" => r.store \in Store /\ r.pin \in Pin
                                 /\ r.active \in BOOLEAN \cup {Absent}
           /\ r.op = "patch" => r.pin \in Pin \cup {Absent}
                                /\ r.active \in BOOLEAN \cup {Absent}
           /\ r.op \in {"patch", "delete", "impersonate"} => r.cashier \in Cashier
           /\ r.op \in {"act", "logout"} => r.token \in Ticket
<1>1. CASE r \in OwnerRequest
    <2>1. CASE r \in [op : {"create"}, store : Store, pin : Pin, active : BOOLEAN \cup {Absent}]
        BY <1>1, <2>1, AccessAssumption
    <2>2. CASE r \in [op : {"patch"}, cashier : Cashier, pin : Pin \cup {Absent},
                      active : BOOLEAN \cup {Absent}]
        BY <1>1, <2>2, AccessAssumption
    <2>3. CASE r \in [op : {"delete", "impersonate"}, cashier : Cashier]
        BY <1>1, <2>3, AccessAssumption
    <2> QED BY <1>1, <2>1, <2>2, <2>3, AccessAssumption
<1>2. CASE r \in TillRequest
    <2>1. CASE r \in [op : {"login"}, code : Code, pin : Pin]
        BY <1>2, <2>1, AccessAssumption
    <2>2. CASE r \in [op : {"act", "logout"}, token : Ticket]
        BY <1>2, <2>2, AccessAssumption
    <2> QED BY <1>2, <2>1, <2>2, AccessAssumption
<1> QED BY <1>1, <1>2


\* The fields of a body over a row make a row, and so does a deactivated row.
LEMMA GivenFieldsMakeARow ==
    ASSUME NEW row \in Row, NEW p \in Pin \cup {Absent}, NEW a \in BOOLEAN \cup {Absent}
    PROVE  [store |-> row.store, pin |-> Given(p, row.pin), active |-> Given(a, row.active)] \in Row
<1>1. row.store \in Store /\ row.pin \in Pin /\ row.active \in BOOLEAN
    BY DEF Row
<1>2. Given(p, row.pin) \in Pin
    BY <1>1 DEF Given
<1>3. Given(a, row.active) \in BOOLEAN
    BY <1>1 DEF Given
<1> QED BY <1>1, <1>2, <1>3 DEF Row

\* A deactivated row is a row.
LEMMA DeactivatedIsARow ==
    ASSUME NEW row \in Row
    PROVE  [row EXCEPT !.active = FALSE] \in Row
BY DEF Row

-----------------------------------------------------------------------------
(* Type correctness                                                        *)

\* Rows are never removed, and what names one keeps naming one.
Tables ==
    /\ cashier \in [Cashier -> Row \cup {NoRow}]
    /\ session \in [Ticket -> Session \cup {NoRow}]
    /\ word \in [Cashier -> Row \cup {NoRow}]
    /\ barred \in [Worker -> SUBSET Cashier]
    /\ since \in [Worker -> SUBSET Cashier]
    /\ unchecked \in SUBSET Cashier
    /\ fitting \in [Worker -> SUBSET Cashier]
    /\ overwritten \in SUBSET Cashier
    /\ \A t \in Ticket : session[t] # NoRow => cashier[session[t].cashier] # NoRow
    /\ \A c \in Cashier : word[c] # NoRow <=> cashier[c] # NoRow

\* What TypeOK says of the two tables.
LEMMA TypesOfTables == TypeOK => Tables
BY DEF TypeOK, VariableTypes, Tables

\* A request that ends leaves the other handlers as they were.
LEMMA FinishTypeOK ==
    ASSUME TypeOK, NEW w \in Worker, Finish(w), Tables',
           \A c \in Cashier : cashier[c] # NoRow => cashier'[c] # NoRow
    PROVE  TypeOK'
<1>1. VariableTypes'
    BY AccessAssumption DEF TypeOK, VariableTypes, Tables, Finish, Goto, Stages
<1>2. ASSUME NEW v \in Worker, pc'[v] # "idle"
      PROVE  /\ v # w
             /\ pc'[v] = pc[v] /\ req'[v] = req[v] /\ ticket'[v] = ticket[v]
             /\ match'[v] = match[v] /\ seen'[v] = seen[v]
    BY <1>2 DEF TypeOK, VariableTypes, Finish, Goto
<1>3. ASSUME NEW v \in Worker, pc'[v] # "idle"
      PROVE  /\ req'[v] \in IF v \in Owner THEN OwnerRequest ELSE TillRequest
             /\ req'[v].op \in OpsAt(pc'[v])
             /\ ticket'[v] \in Ticket
             /\ pc'[v] = "issue" => match'[v] \in Cashier /\ cashier'[match'[v]] # NoRow
             /\ pc'[v] = "deactivate" \/ (pc'[v] \in {"validate", "save"} /\ req'[v].op = "patch") =>
                  /\ match'[v] = req'[v].cashier /\ match'[v] \in Cashier
                  /\ seen'[v] # NoRow /\ cashier'[match'[v]] # NoRow
    BY <1>2, <1>3 DEF TypeOK, StageTypes
<1>4. StageTypes'
    BY <1>3 DEF StageTypes
<1> QED BY <1>1, <1>4 DEF TypeOK, Tables

\* Early returns keep the types.
LEMMA EndUnwrittenTypeOK ==
    ASSUME TypeOK, NEW w \in Worker, EndUnwritten(w)
    PROVE  TypeOK'
<1>1. Finish(w) /\ UNCHANGED <<cashier, session, word>>
    BY DEF EndUnwritten, Forget
<1>2. Tables'
    BY <1>1, TypesOfTables DEF Tables, EndUnwritten, Forget
<1> QED BY <1>1, <1>2, FinishTypeOK

\* A step to another stage, by a handler that has found what the stage needs.
LEMMA GotoTypeOK ==
    ASSUME TypeOK, NEW w \in Worker, NEW stage \in Stages, stage # "idle", Goto(w, stage),
           UNCHANGED <<cashier, session, req, ticket, history, served>>,
           pc[w] # "idle",
           seen' \in [Worker -> Row \cup {NoRow}],
           left' \in [Worker -> SUBSET Store],
           match' \in [Worker -> Cashier \cup {0}],
           \A v \in Worker : v # w => seen'[v] = seen[v] /\ match'[v] = match[v],
           req[w].op \in OpsAt(stage),
           stage = "issue" => match'[w] \in Cashier /\ cashier[match'[w]] # NoRow,
           stage = "deactivate" \/ (stage \in {"validate", "save"} /\ req[w].op = "patch") =>
              /\ match'[w] = req[w].cashier /\ match'[w] \in Cashier
              /\ seen'[w] # NoRow /\ cashier[match'[w]] # NoRow
    PROVE  TypeOK'
<1>1. VariableTypes'
    BY DEF TypeOK, VariableTypes, Goto
<1>2. pc' \in [Worker -> Stages] /\ pc'[w] = stage /\ \A v \in Worker : v # w => pc'[v] = pc[v]
    BY DEF TypeOK, VariableTypes, Goto
<1>3. ASSUME NEW v \in Worker, pc'[v] # "idle"
      PROVE  /\ req'[v] \in IF v \in Owner THEN OwnerRequest ELSE TillRequest
             /\ req'[v].op \in OpsAt(pc'[v])
             /\ ticket'[v] \in Ticket
             /\ pc'[v] = "issue" => match'[v] \in Cashier /\ cashier'[match'[v]] # NoRow
             /\ pc'[v] = "deactivate" \/ (pc'[v] \in {"validate", "save"} /\ req'[v].op = "patch") =>
                  /\ match'[v] = req'[v].cashier /\ match'[v] \in Cashier
                  /\ seen'[v] # NoRow /\ cashier'[match'[v]] # NoRow
    <2>1. CASE v = w
        BY <1>2, <2>1 DEF TypeOK, StageTypes
    <2>2. CASE v # w
        BY <1>2, <1>3, <2>2 DEF TypeOK, StageTypes
    <2> QED BY <2>1, <2>2
<1>4. StageTypes'
    BY <1>3 DEF StageTypes
<1> QED BY <1>1, <1>4 DEF TypeOK

\* A busy handler has a request of its side, and its fields have their types.
LEMMA BusyRequest ==
    ASSUME TypeOK, NEW w \in Worker, pc[w] # "idle"
    PROVE  /\ req[w] \in OwnerRequest \cup TillRequest
           /\ req[w].op \in OpsAt(pc[w])
           /\ ticket[w] \in Ticket
BY DEF TypeOK, StageTypes

\* The opening state is typed.
LEMMA InitTypeOK == Init => TypeOK
<1> SUFFICES ASSUME Init PROVE TypeOK
    OBVIOUS
<1>1. cashier \in [Cashier -> Row \cup {NoRow}]
    BY AccessAssumption DEF Init
<1>2. VariableTypes
    BY <1>1, AccessAssumption DEF Init, VariableTypes, Stages
<1>3. StageTypes
    BY DEF Init, StageTypes
<1> QED BY <1>2, <1>3 DEF Init, TypeOK

\* A request that comes in keeps the types.
LEMMA AcceptTypeOK ==
    ASSUME TypeOK, NEW w \in Worker, Accept(w)
    PROVE  TypeOK'
<1>1. PICK r \in IF w \in Owner THEN OwnerRequest ELSE TillRequest :
        /\ req' = [req EXCEPT ![w] = r]
        /\ Goto(w, FirstStage(r.op))
        /\ left' = [left EXCEPT ![w] =
                       IF r.op = "login" THEN {s \in Store : CodeOf[s] = r.code} ELSE {}]
    BY DEF Accept
<1>2. r \in OwnerRequest \cup TillRequest
    BY <1>1
<1>3. r.op \in {"create", "patch", "delete", "impersonate", "login", "act", "logout"}
    BY <1>2, RequestFields
<1>4. /\ FirstStage(r.op) \in Stages /\ r.op \in OpsAt(FirstStage(r.op))
      /\ FirstStage(r.op) \notin {"idle", "issue", "deactivate", "save"}
      /\ FirstStage(r.op) = "validate" => r.op # "patch"
    BY <1>3 DEF FirstStage, Stages, OpsAt
<1>5. VariableTypes'
    BY <1>1, <1>2, <1>4, AccessAssumption DEF Accept, TypeOK, VariableTypes, Goto
<1>6. ASSUME NEW v \in Worker, pc'[v] # "idle"
      PROVE  /\ req'[v] \in IF v \in Owner THEN OwnerRequest ELSE TillRequest
             /\ req'[v].op \in OpsAt(pc'[v])
             /\ ticket'[v] \in Ticket
             /\ pc'[v] = "issue" => match'[v] \in Cashier /\ cashier'[match'[v]] # NoRow
             /\ pc'[v] = "deactivate" \/ (pc'[v] \in {"validate", "save"} /\ req'[v].op = "patch") =>
                  /\ match'[v] = req'[v].cashier /\ match'[v] \in Cashier
                  /\ seen'[v] # NoRow /\ cashier'[match'[v]] # NoRow
    <2>1. CASE v = w
        <3>1. req'[v] = r /\ pc'[v] = FirstStage(r.op) /\ ticket'[v] = served + 1
            BY <1>1, <2>1 DEF Accept, TypeOK, VariableTypes, Goto
        <3>2. ticket'[v] \in Ticket
            BY <3>1, AccessAssumption DEF Accept, TypeOK, VariableTypes
        <3> QED BY <1>1, <1>4, <2>1, <3>1, <3>2
    <2>2. CASE v # w
        BY <1>1, <1>6, <2>2 DEF Accept, Goto, TypeOK, VariableTypes, StageTypes
    <2> QED BY <2>1, <2>2
<1>7. StageTypes'
    BY <1>6 DEF StageTypes
<1> QED BY <1>5, <1>7 DEF TypeOK, Accept

\* _get_cashier keeps the types, and found a cashier that exists.
LEMMA ReadCashierTypeOK ==
    ASSUME TypeOK, NEW w \in Worker, ReadCashier(w)
    PROVE  TypeOK'
<1> DEFINE stage == IF req[w].op = "delete" THEN "deactivate"
                    ELSE IF req[w].op = "impersonate" THEN "issue"
                    ELSE IF req[w].pin = Absent THEN "save" ELSE "validate"
<1>1. req[w].op \in {"patch", "delete", "impersonate"} /\ req[w].cashier \in Cashier
    BY BusyRequest, RequestFields DEF ReadCashier, OpsAt
<1>2. /\ cashier[req[w].cashier] # NoRow
      /\ seen' = [seen EXCEPT ![w] = cashier[req[w].cashier]]
      /\ match' = [match EXCEPT ![w] = req[w].cashier]
      /\ Goto(w, stage)
    BY DEF ReadCashier
<1>3. stage \in Stages /\ stage # "idle" /\ req[w].op \in OpsAt(stage)
    BY <1>1 DEF Stages, OpsAt
<1>4. /\ seen' \in [Worker -> Row \cup {NoRow}] /\ match' \in [Worker -> Cashier \cup {0}]
      /\ seen'[w] # NoRow /\ match'[w] = req[w].cashier
      /\ \A v \in Worker : v # w => seen'[v] = seen[v] /\ match'[v] = match[v]
    BY <1>1, <1>2 DEF TypeOK, VariableTypes
<1>5. left' = left /\ left \in [Worker -> SUBSET Store]
    BY DEF ReadCashier, TypeOK, VariableTypes
<1> HIDE DEF stage
<1> QED BY <1>1, <1>2, <1>3, <1>4, <1>5, GotoTypeOK DEF ReadCashier

\* The serializer keeps the types.
LEMMA ValidatePinTypeOK ==
    ASSUME TypeOK, NEW w \in Worker, ValidatePin(w)
    PROVE  TypeOK'
<1> DEFINE stage == IF req[w].op = "create" THEN "insert" ELSE "save"
<1>1. req[w].op \in {"create", "patch"}
    BY BusyRequest DEF ValidatePin, OpsAt
<1>2. stage \in Stages /\ stage # "idle" /\ req[w].op \in OpsAt(stage) /\ Goto(w, stage)
    BY <1>1 DEF Stages, OpsAt, ValidatePin
<1>3. UNCHANGED local
    BY DEF ValidatePin
<1>4. req[w].op = "patch" => /\ match[w] = req[w].cashier /\ match[w] \in Cashier
                             /\ seen[w] # NoRow /\ cashier[match[w]] # NoRow
    BY DEF ValidatePin, TypeOK, StageTypes
<1>5. stage \notin {"issue", "deactivate", "validate"} /\ (stage = "save" => req[w].op = "patch")
    BY <1>1
<1> HIDE DEF stage
<1> QED BY <1>2, <1>3, <1>4, <1>5, GotoTypeOK DEF ValidatePin, local, TypeOK, VariableTypes

\* A new cashier has a new id and a typed row.
LEMMA InsertCashierTypeOK ==
    ASSUME TypeOK, NEW w \in Worker, InsertCashier(w)
    PROVE  TypeOK'
<1> DEFINE c == Len(Opening) + ticket[w]
           row == [store |-> req[w].store, pin |-> req[w].pin,
                   active |-> Given(req[w].active, TRUE)]
<1>1. req[w].op = "create" /\ ticket[w] \in Ticket /\ req[w] \in OwnerRequest \cup TillRequest
    BY BusyRequest DEF InsertCashier, OpsAt
<1>2. c \in Cashier
    BY <1>1, AccessAssumption
<1>3. row \in Row /\ row # NoRow
    <2>1. req[w].store \in Store /\ req[w].pin \in Pin /\ req[w].active \in BOOLEAN \cup {Absent}
        BY <1>1, RequestFields
    <2>2. Given(req[w].active, TRUE) \in BOOLEAN
        BY <2>1 DEF Given
    <2>3. row \in Row
        BY <2>1, <2>2 DEF Row
    <2> QED BY <2>3, AccessAssumption
<1>4. /\ cashier' = [cashier EXCEPT ![c] = row]
      /\ Answered(w, c, row) /\ Saved(w, c, row) /\ session' = session /\ Finish(w)
    BY DEF InsertCashier
<1> HIDE DEF c, row
<1>5. Tables'
    BY <1>2, <1>3, <1>4, TypesOfTables DEF Tables, Answered, Saved, Session
<1>6. \A d \in Cashier : cashier[d] # NoRow => cashier'[d] # NoRow
    BY <1>2, <1>3, <1>4 DEF TypeOK, VariableTypes
<1> QED BY <1>4, <1>5, <1>6, FinishTypeOK

\* The rest of SaveCashier and Deactivate, which change an existing row.
LEMMA ChangeRowTypeOK ==
    ASSUME TypeOK, NEW w \in Worker, NEW c \in Cashier, NEW row \in Row, NEW said \in Row,
           cashier[c] # NoRow, cashier' = [cashier EXCEPT ![c] = row],
           Answered(w, c, said), Saved(w, c, row), session' = session, Finish(w)
    PROVE  TypeOK'
<1>1. row # NoRow /\ said # NoRow
    BY AccessAssumption
<1>2. Tables'
    BY <1>1, TypesOfTables DEF Tables, Answered, Saved, Session
<1>3. \A d \in Cashier : cashier[d] # NoRow => cashier'[d] # NoRow
    BY <1>1 DEF TypeOK, VariableTypes
<1> QED BY <1>2, <1>3, FinishTypeOK

\* Where the handler writes, it has read a row, and the owner was answered about it.
LEMMA RowsToChange ==
    ASSUME TypeOK, NEW w \in Worker, pc[w] \in {"save", "deactivate"}
    PROVE  /\ req[w].op = IF pc[w] = "save" THEN "patch" ELSE "delete"
           /\ req[w].cashier \in Cashier
           /\ cashier[req[w].cashier] \in Row
           /\ seen[w] \in Row
           /\ word[req[w].cashier] \in Row
           /\ pc[w] = "save" => req[w].pin \in Pin \cup {Absent}
                                /\ req[w].active \in BOOLEAN \cup {Absent}
<1>1. req[w].op = IF pc[w] = "save" THEN "patch" ELSE "delete"
    BY BusyRequest DEF OpsAt
<1>2. /\ match[w] = req[w].cashier /\ match[w] \in Cashier
      /\ seen[w] # NoRow /\ cashier[match[w]] # NoRow
    BY <1>1 DEF TypeOK, StageTypes
<1>3. word[req[w].cashier] # NoRow
    BY <1>2 DEF TypeOK
<1>4. pc[w] = "save" => req[w].pin \in Pin \cup {Absent} /\ req[w].active \in BOOLEAN \cup {Absent}
    BY <1>1, BusyRequest, RequestFields
<1> QED BY <1>1, <1>2, <1>3, <1>4 DEF TypeOK, VariableTypes

\* A saved row is the one read with the fields of the body.
LEMMA SaveCashierTypeOK ==
    ASSUME TypeOK, NEW w \in Worker, SaveCashier(w)
    PROVE  TypeOK'
<1>1. Patched(w, seen[w]) \in Row /\ Asked(w, word[req[w].cashier]) \in Row
    BY RowsToChange, GivenFieldsMakeARow DEF SaveCashier, Patched, Asked
<1>2. req[w].cashier \in Cashier /\ cashier[req[w].cashier] # NoRow
    BY RowsToChange, AccessAssumption DEF SaveCashier
<1> QED BY <1>1, <1>2, ChangeRowTypeOK DEF SaveCashier

\* DELETE keeps the types.
LEMMA DeactivateTypeOK ==
    ASSUME TypeOK, NEW w \in Worker, Deactivate(w)
    PROVE  TypeOK'
<1> DEFINE c == req[w].cashier
<1>1. c \in Cashier /\ cashier[c] \in Row /\ word[c] \in Row
    BY RowsToChange DEF Deactivate
<1>2. [cashier[c] EXCEPT !.active = FALSE] \in Row /\ [word[c] EXCEPT !.active = FALSE] \in Row
    BY <1>1, DeactivatedIsARow
<1>3. cashier' = [cashier EXCEPT ![c] = [cashier[c] EXCEPT !.active = FALSE]]
    BY DEF Deactivate
<1>4. cashier[c] # NoRow
    BY <1>1, AccessAssumption
<1> HIDE DEF c
<1>5. /\ Answered(w, c, [word[c] EXCEPT !.active = FALSE])
      /\ Saved(w, c, [cashier[c] EXCEPT !.active = FALSE])
      /\ session' = session /\ Finish(w)
    BY DEF Deactivate, c
<1> QED BY <1>1, <1>2, <1>3, <1>4, <1>5, ChangeRowTypeOK

\* A match of the login loop is a cashier that exists.
LEMMA MatchStoreTypeOK ==
    ASSUME TypeOK, NEW w \in Worker, MatchStore(w)
    PROVE  TypeOK'
<1>1. PICK s \in left[w] :
        \/ /\ left' = [left EXCEPT ![w] = @ \ {s}]
           /\ UNCHANGED <<pc, match>>
        \/ /\ \E c \in Hits(w, s) : match' = [match EXCEPT ![w] = c]
           /\ left' = [left EXCEPT ![w] = {}]
           /\ Goto(w, "issue")
    BY DEF MatchStore
<1>2. req[w].op = "login"
    BY BusyRequest DEF MatchStore, OpsAt
<1>3. left' \in [Worker -> SUBSET Store]
    <2>1. left \in [Worker -> SUBSET Store] /\ left[w] \ {s} \in SUBSET Store
        BY DEF TypeOK, VariableTypes
    <2>2. CASE left' = [left EXCEPT ![w] = left[w] \ {s}]
        BY <2>1, <2>2
    <2>3. CASE left' = [left EXCEPT ![w] = {}]
        BY <2>1, <2>3
    <2> QED BY <1>1, <2>2, <2>3
<1>4. CASE UNCHANGED <<pc, match>>
    <2>1. UNCHANGED <<cashier, session, pc, req, ticket, seen, match, history, served>>
        BY <1>4 DEF MatchStore
    <2>2. VariableTypes'
        BY <1>3, <2>1 DEF TypeOK, VariableTypes
    <2>3. StageTypes'
        BY <2>1 DEF TypeOK, StageTypes
    <2> QED BY <2>1, <2>2, <2>3 DEF TypeOK
<1>5. CASE (\E c \in Hits(w, s) : match' = [match EXCEPT ![w] = c]) /\ Goto(w, "issue")
    <2>1. PICK c \in Hits(w, s) : match' = [match EXCEPT ![w] = c]
        BY <1>5
    <2>2. c \in Cashier /\ cashier[c] # NoRow
        BY <2>1 DEF Hits
    <2>3. match' \in [Worker -> Cashier \cup {0}] /\ match'[w] = c
          /\ \A v \in Worker : v # w => match'[v] = match[v]
        BY <2>1, <2>2 DEF TypeOK, VariableTypes
    <2>4. "issue" \in Stages /\ req[w].op \in OpsAt("issue")
        BY <1>2 DEF Stages, OpsAt
    <2> QED BY <1>3, <1>5, <2>2, <2>3, <2>4, GotoTypeOK DEF MatchStore, TypeOK, VariableTypes
<1> QED BY <1>1, <1>4, <1>5

\* A new session is of a cashier that exists.
LEMMA IssueSessionTypeOK ==
    ASSUME TypeOK, NEW w \in Worker, IssueSession(w)
    PROVE  TypeOK'
<1> DEFINE new == [cashier |-> match[w], expired |-> FALSE]
<1>1. ticket[w] \in Ticket /\ match[w] \in Cashier /\ cashier[match[w]] # NoRow
    BY DEF IssueSession, TypeOK, StageTypes
<1>2. new \in Session /\ new.cashier = match[w]
    BY <1>1 DEF Session
<1>3. session' = [session EXCEPT ![ticket[w]] = new] /\ Finish(w)
    BY DEF IssueSession
<1>4. cashier' = cashier /\ Forget(w)
    BY DEF IssueSession
<1> HIDE DEF new
<1>5. Tables'
    BY <1>1, <1>2, <1>3, <1>4, TypesOfTables DEF Tables, Forget
<1> QED BY <1>3, <1>4, <1>5, FinishTypeOK

\* Authentication and what follows it keep the types.
LEMMA AuthenticateTypeOK ==
    ASSUME TypeOK, NEW w \in Worker, Authenticate(w)
    PROVE  TypeOK'
<1>1. req[w].op \in {"act", "logout"} /\ req[w].token \in Ticket
    BY BusyRequest, RequestFields DEF Authenticate, OpsAt
<1>2. session[req[w].token] \in Session
    BY <1>1 DEF Authenticate, SessionIsGood, TypeOK, VariableTypes
<1>3. session[req[w].token].cashier \in Cashier
    BY <1>2 DEF Session
<1>4. match' \in [Worker -> Cashier \cup {0}]
      /\ \A v \in Worker : v # w => match'[v] = match[v]
    BY <1>3 DEF Authenticate, TypeOK, VariableTypes
<1>5. req[w].op \in Stages /\ req[w].op \in OpsAt(req[w].op)
      /\ req[w].op \notin {"idle", "issue", "deactivate", "validate", "save"}
    BY <1>1 DEF Stages, OpsAt
<1> QED BY <1>4, <1>5, GotoTypeOK DEF Authenticate, TypeOK, VariableTypes

\* A logout keeps the types.
LEMMA LogoutTypeOK ==
    ASSUME TypeOK, NEW w \in Worker, Logout(w)
    PROVE  TypeOK'
<1>1. req[w].token \in Ticket
    BY BusyRequest, RequestFields DEF Logout, OpsAt
<1>2. Tables'
    BY <1>1, TypesOfTables DEF Tables, Logout, Forget
<1> QED BY <1>2, FinishTypeOK DEF Logout

\* An expiry keeps the types.
LEMMA ExpireTypeOK ==
    ASSUME TypeOK, NEW t \in Ticket, Expire(t)
    PROVE  TypeOK'
<1>1. session[t] \in Session
    BY DEF Expire, TypeOK, VariableTypes
<1>2. [session[t] EXCEPT !.expired = TRUE] \in Session
      /\ [session[t] EXCEPT !.expired = TRUE].cashier = session[t].cashier
    BY <1>1 DEF Session
<1>3. session' \in [Ticket -> Session \cup {NoRow}]
    BY <1>2 DEF Expire, TypeOK, VariableTypes
<1>4. \A u \in Ticket : session'[u] # NoRow =>
        session[u] # NoRow /\ session'[u].cashier = session[u].cashier
    BY <1>2 DEF Expire, TypeOK, VariableTypes
<1> QED BY <1>3, <1>4 DEF Expire, local, TypeOK, VariableTypes, StageTypes

\* Every step of a handler keeps the types.
LEMMA StepTypeOK ==
    ASSUME TypeOK, NEW w \in Worker, Step(w)
    PROVE  TypeOK'
BY ReadCashierTypeOK, ValidatePinTypeOK, InsertCashierTypeOK, SaveCashierTypeOK,
   DeactivateTypeOK, MatchStoreTypeOK, IssueSessionTypeOK, AuthenticateTypeOK, LogoutTypeOK,
   EndUnwrittenTypeOK
DEF Step, RefuseCashier, RefusePin, RefuseLogin, RefuseToken, Act

\* Every step keeps the types.
LEMMA NextTypeOK == TypeOK /\ [Next]_vars => TypeOK'
<1> SUFFICES ASSUME TypeOK, [Next]_vars PROVE TypeOK'
    OBVIOUS
<1>1. ASSUME NEW w \in Worker, Accept(w) \/ Step(w) \/ Crash(w)
      PROVE  TypeOK'
    BY <1>1, AcceptTypeOK, StepTypeOK, EndUnwrittenTypeOK DEF Crash
<1>2. ASSUME UNCHANGED vars
      PROVE  TypeOK'
    BY <1>2 DEF vars, local, TypeOK, VariableTypes, StageTypes
<1> QED BY <1>1, <1>2, ExpireTypeOK DEF Next, Quiet

\* In every reachable state every variable has its type, no session and no handler
\* names a cashier that does not exist, and no handler writes a row it never read:
\* CashierDetailView and CashierTokenAuthentication never meet a missing row.
THEOREM TypeCorrect == Spec => []TypeOK
<1>1. Init => TypeOK
    BY InitTypeOK
<1>2. TypeOK /\ [Next]_vars => TypeOK'
    BY NextTypeOK
<1> QED BY <1>1, <1>2, PTL DEF Spec

-----------------------------------------------------------------------------
(* Names of rows                                                           *)

\* The name of the cashier a request creates is its own, and of no cashier yet.
Fresh ==
    /\ \A w \in Worker : pc[w] # "idle" =>
           ticket[w] \in 1..served /\ cashier[Len(Opening) + ticket[w]] = NoRow
    /\ \A v, w \in Worker : pc[v] # "idle" /\ pc[w] # "idle" /\ ticket[v] = ticket[w] => v = w
    /\ \A t \in Ticket : t > served => cashier[Len(Opening) + t] = NoRow

\* A request that ends keeps the names of the others new, if it only took its own.
LEMMA FinishKeepsFresh ==
    ASSUME TypeOK, Fresh, NEW w \in Worker, Finish(w), pc[w] # "idle",
           \A c \in Cashier : cashier'[c] = NoRow \/ cashier[c] # NoRow
                              \/ c = Len(Opening) + ticket[w]
    PROVE  Fresh'
<1>1. /\ pc'[w] = "idle" /\ served' = served
      /\ \A v \in Worker : v # w => pc'[v] = pc[v] /\ ticket'[v] = ticket[v]
    BY DEF TypeOK, VariableTypes, Finish, Goto
<1>2. Len(Opening) \in Nat /\ served \in Nat /\ ticket[w] \in 1..served
    BY AccessAssumption DEF Fresh, TypeOK, VariableTypes
<1>3. \A t \in Ticket : Len(Opening) + t \in Cashier
    BY <1>2, AccessAssumption
<1>4. ASSUME NEW v \in Worker, pc'[v] # "idle"
      PROVE  ticket'[v] \in 1..served' /\ cashier'[Len(Opening) + ticket'[v]] = NoRow
    <2>1. v # w /\ pc[v] # "idle" /\ ticket'[v] = ticket[v]  BY <1>1, <1>4
    <2>2. ticket[v] # ticket[w] /\ ticket[v] \in Ticket  BY <2>1, BusyRequest DEF Fresh
    <2>3. Len(Opening) + ticket[v] # Len(Opening) + ticket[w]  BY <1>2, <2>2
    <2>4. cashier[Len(Opening) + ticket[v]] = NoRow  BY <2>1 DEF Fresh
    <2>5. cashier'[Len(Opening) + ticket[v]] = NoRow  BY <1>3, <2>2, <2>3, <2>4
    <2> QED  BY <1>1, <2>1, <2>5 DEF Fresh
<1>5. ASSUME NEW t \in Ticket, t > served'
      PROVE  cashier'[Len(Opening) + t] = NoRow
    <2>1. Len(Opening) + t # Len(Opening) + ticket[w]  BY <1>1, <1>2, <1>5
    <2> QED  BY <1>1, <1>3, <1>5, <2>1 DEF Fresh
<1>6. \A u, v \in Worker : pc'[u] # "idle" /\ pc'[v] # "idle" /\ ticket'[u] = ticket'[v] => u = v
    BY <1>1 DEF Fresh
<1> QED BY <1>4, <1>5, <1>6 DEF Fresh

\* Tickets are given in order, and only an insert makes a new row.
LEMMA NextFresh == TypeOK /\ Fresh /\ [Next]_vars => Fresh'
<1> SUFFICES ASSUME TypeOK, Fresh, [Next]_vars PROVE Fresh'
    OBVIOUS
<1>1. ASSUME NEW w \in Worker, Accept(w) PROVE Fresh'
    <2>1. /\ pc[w] = "idle" /\ ticket'[w] = served + 1 /\ served' = served + 1
          /\ cashier' = cashier /\ served + 1 \in Ticket
          /\ \A v \in Worker : v # w => pc'[v] = pc[v] /\ ticket'[v] = ticket[v]
        BY <1>1, AccessAssumption DEF Accept, Goto, TypeOK, VariableTypes
    <2>2. \A v \in Worker : v # w /\ pc'[v] # "idle" => ticket'[v] \in 1..served
        BY <2>1 DEF Fresh
    <2>3. served \in Nat  BY AccessAssumption DEF TypeOK, VariableTypes
    <2>4. cashier[Len(Opening) + (served + 1)] = NoRow
        BY <2>1, <2>3 DEF Fresh
    <2>5. ASSUME NEW v \in Worker, pc'[v] # "idle"
          PROVE  ticket'[v] \in 1..served' /\ cashier'[Len(Opening) + ticket'[v]] = NoRow
        <3>1. CASE v = w  BY <2>1, <2>3, <2>4, <3>1
        <3>2. CASE v # w  BY <2>1, <2>2, <2>3, <2>5, <3>2 DEF Fresh
        <3> QED BY <3>1, <3>2
    <2>6. ASSUME NEW u \in Worker, NEW v \in Worker,
                 pc'[u] # "idle", pc'[v] # "idle", ticket'[u] = ticket'[v]
          PROVE  u = v
        <3>1. CASE u = w \/ v = w  BY <2>1, <2>2, <2>3, <2>6, <3>1
        <3>2. CASE u # w /\ v # w  BY <2>1, <2>6, <3>2 DEF Fresh
        <3> QED BY <3>1, <3>2
    <2>7. \A t \in Ticket : t > served' => cashier'[Len(Opening) + t] = NoRow
        BY <2>1, <2>3 DEF Fresh
    <2> QED BY <2>5, <2>6, <2>7 DEF Fresh
<1>2. ASSUME NEW w \in Worker, EndUnwritten(w) \/ IssueSession(w) \/ Logout(w), pc[w] # "idle"
      PROVE  Fresh'
    BY <1>2, FinishKeepsFresh DEF EndUnwritten, IssueSession, Logout, Forget
<1>3. ASSUME NEW w \in Worker, InsertCashier(w) PROVE Fresh'
    <2> DEFINE row == [store |-> req[w].store, pin |-> req[w].pin,
                       active |-> Given(req[w].active, TRUE)]
    <2>1. cashier' = [cashier EXCEPT ![Len(Opening) + ticket[w]] = row] /\ Finish(w)
          /\ pc[w] # "idle"
        BY <1>3 DEF InsertCashier
    <2> HIDE DEF row
    <2> QED BY <2>1, FinishKeepsFresh DEF TypeOK, VariableTypes
<1>4. ASSUME NEW w \in Worker, SaveCashier(w) \/ Deactivate(w) PROVE Fresh'
    <2>1. pc[w] # "idle" /\ Finish(w) /\ cashier[req[w].cashier] # NoRow
          /\ \E row : cashier' = [cashier EXCEPT ![req[w].cashier] = row]
        <3>1. pc[w] \in {"save", "deactivate"}  BY <1>4 DEF SaveCashier, Deactivate
        <3>2. CASE SaveCashier(w)  BY <3>1, <3>2, RowsToChange, AccessAssumption DEF SaveCashier
        <3>3. CASE Deactivate(w)
            <4>1. cashier' = [cashier EXCEPT ![req[w].cashier] =
                                 [cashier[req[w].cashier] EXCEPT !.active = FALSE]]
                BY <3>3 DEF Deactivate
            <4> QED BY <3>1, <3>3, <4>1, RowsToChange, AccessAssumption DEF Deactivate
        <3> QED BY <1>4, <3>2, <3>3
    <2> QED BY <2>1, FinishKeepsFresh DEF TypeOK, VariableTypes
<1>5. ASSUME UNCHANGED <<cashier, ticket, served>>,
             \A v \in Worker : pc[v] = "idle" => pc'[v] = "idle"
      PROVE  Fresh'
    BY <1>5 DEF Fresh
<1>6. ASSUME NEW w \in Worker, ReadCashier(w) \/ ValidatePin(w) \/ MatchStore(w) \/ Authenticate(w)
      PROVE  Fresh'
    <2>1. UNCHANGED <<cashier, ticket, served>> /\ pc[w] # "idle"
        BY <1>6 DEF ReadCashier, ValidatePin, MatchStore, Authenticate
    <2>2. \A v \in Worker : v # w => pc'[v] = pc[v]
        BY <1>6 DEF ReadCashier, ValidatePin, MatchStore, Authenticate, Goto, TypeOK, VariableTypes
    <2> QED BY <1>5, <2>1, <2>2
<1>7. ASSUME NEW w \in Worker, Step(w) \/ Crash(w) PROVE Fresh'
    BY <1>2, <1>3, <1>4, <1>6, <1>7
    DEF Step, Crash, RefuseCashier, RefusePin, RefuseLogin, RefuseToken, Act, IssueSession, Logout
<1>8. ASSUME NEW t \in Ticket, Expire(t) PROVE Fresh'
    BY <1>5, <1>8 DEF Expire
<1>9. ASSUME UNCHANGED vars PROVE Fresh'
    BY <1>5, <1>9 DEF vars
<1> QED BY <1>1, <1>7, <1>8, <1>9 DEF Next, Quiet

-----------------------------------------------------------------------------
(* What the owner was answered                                             *)

\* A cashier that no stale row was saved over is what the owner's answers say, a barred
\* one was deactivated by the last of them, and a view never runs as a barred cashier.
WordInv ==
    /\ TypeOK
    /\ OnlyOverlapUndoesAnswers
    /\ \A w \in Worker : \A c \in barred[w] : word[c] # NoRow /\ ~word[c].active
    /\ \A w \in Worker : pc[w] = "act" => match[w] \notin barred[w] \ overwritten

\* A handler that writes the cashiers is the owner's.
LEMMA WritersAreOwners ==
    ASSUME TypeOK, NEW w \in Worker,
           pc[w] \in {"validate", "insert", "read", "save", "deactivate"}
    PROVE  w \in Owner
<1>1. req[w].op \in {"create", "patch", "delete", "impersonate"}
    BY BusyRequest DEF OpsAt
<1>2. req[w] \notin TillRequest
    BY <1>1, BusyRequest, RequestFields
<1> QED BY <1>2 DEF TypeOK, StageTypes

\* The answer to a write says what the owner asked for, and whoever it makes active is
\* not barred any more.
LEMMA AnsweredKeepsWordInv ==
    ASSUME WordInv, TypeOK', NEW o \in Worker, NEW c \in Cashier, NEW row \in Row, NEW said \in Row,
           Answered(o, c, said), cashier' = [cashier EXCEPT ![c] = row], Finish(o),
           overwritten \subseteq overwritten', row = said \/ c \in overwritten'
    PROVE  WordInv'
<1>0. row # NoRow /\ said # NoRow
    BY AccessAssumption
<1>1. OnlyOverlapUndoesAnswers'
    BY DEF WordInv, OnlyOverlapUndoesAnswers, Answered, TypeOK, VariableTypes
<1>2. /\ pc'[o] = "idle"
      /\ \A w \in Worker : w # o => pc'[w] = pc[w] /\ match'[w] = match[w]
    BY DEF WordInv, TypeOK, VariableTypes, Finish, Goto
<1>3. ASSUME NEW w \in Worker
      PROVE  /\ \A d \in barred'[w] : d \in barred[w] /\ (said.active => d # c)
             /\ barred'[w] \subseteq Cashier
    BY DEF WordInv, TypeOK, VariableTypes, Answered
<1>4. ASSUME NEW w \in Worker, NEW d \in barred'[w]
      PROVE  word'[d] # NoRow /\ ~word'[d].active
    <2>1. d \in Cashier /\ word[d] # NoRow /\ ~word[d].active
        BY <1>3, <1>4 DEF WordInv
    <2>2. CASE d = c
        BY <1>0, <1>3, <1>4, <2>1, <2>2 DEF WordInv, TypeOK, VariableTypes, Answered
    <2>3. CASE d # c
        BY <2>1, <2>3 DEF WordInv, TypeOK, VariableTypes, Answered
    <2> QED BY <2>2, <2>3
<1>5. ASSUME NEW w \in Worker, pc'[w] = "act"
      PROVE  match'[w] \notin barred'[w] \ overwritten'
    BY <1>2, <1>3, <1>5 DEF WordInv
<1> QED BY <1>1, <1>4, <1>5 DEF WordInv

\* A step that changes no cashier keeps it, if its handler is, at the point of acting,
\* not barred.
LEMMA OtherStepsKeepWordInv ==
    ASSUME WordInv, TypeOK', NEW w \in Worker,
           UNCHANGED <<cashier, word, overwritten>>,
           \A v \in Worker : v # w => /\ pc'[v] = pc[v] /\ match'[v] = match[v]
                                      /\ barred'[v] = barred[v],
           \A c \in barred'[w] : word[c] # NoRow /\ ~word[c].active,
           pc'[w] = "act" => match'[w] \notin barred'[w] \ overwritten
    PROVE  WordInv'
<1>1. OnlyOverlapUndoesAnswers'
    BY DEF WordInv, OnlyOverlapUndoesAnswers
<1>2. \A v \in Worker : \A c \in barred'[v] : word'[c] # NoRow /\ ~word'[c].active
    BY DEF WordInv
<1>3. \A v \in Worker : pc'[v] = "act" => match'[v] \notin barred'[v] \ overwritten'
    BY DEF WordInv
<1> QED BY <1>1, <1>2, <1>3 DEF WordInv

\* A request that ends without writing keeps the invariant.
LEMMA EndedKeepsWordInv ==
    ASSUME WordInv, TypeOK', NEW w \in Worker, Finish(w),
           UNCHANGED <<cashier, word, overwritten>>, barred' = [barred EXCEPT ![w] = {}]
    PROVE  WordInv'
<1>1. /\ pc'[w] = "idle" /\ barred'[w] = {}
      /\ \A v \in Worker : v # w => /\ pc'[v] = pc[v] /\ match'[v] = match[v]
                                    /\ barred'[v] = barred[v]
    BY DEF WordInv, TypeOK, VariableTypes, Finish, Goto
<1> QED BY <1>1, OtherStepsKeepWordInv

\* The invariant holds at the start.
LEMMA InitWordInv == Init => WordInv
<1> SUFFICES ASSUME Init PROVE WordInv
    OBVIOUS
<1>1. TypeOK
    BY InitTypeOK
<1> QED BY <1>1 DEF Init, WordInv, OnlyOverlapUndoesAnswers

\* A request that comes in keeps the invariant.
LEMMA AcceptKeepsWordInv ==
    ASSUME WordInv, TypeOK', NEW w \in Worker, Accept(w)
    PROVE  WordInv'
<1>1. PICK r \in IF w \in Owner THEN OwnerRequest ELSE TillRequest :
        req' = [req EXCEPT ![w] = r] /\ Goto(w, FirstStage(r.op))
    BY DEF Accept
<1>2. /\ pc'[w] = FirstStage(r.op)
      /\ barred'[w] = {c \in Cashier : word[c] # NoRow /\ ~word[c].active}
      /\ \A v \in Worker : v # w => /\ pc'[v] = pc[v] /\ match'[v] = match[v]
                                    /\ barred'[v] = barred[v]
    BY <1>1 DEF WordInv, TypeOK, VariableTypes, Accept, Goto
<1>3. FirstStage(r.op) # "act"
    BY DEF FirstStage
<1>4. UNCHANGED <<cashier, word, overwritten>>
    BY DEF Accept
<1> QED BY <1>2, <1>3, <1>4, OtherStepsKeepWordInv

\* Queries that only read keep the invariant: authentication finds active cashiers only.
LEMMA ReadsKeepWordInv ==
    ASSUME WordInv, TypeOK', NEW w \in Worker,
           ReadCashier(w) \/ ValidatePin(w) \/ MatchStore(w) \/ Authenticate(w)
    PROVE  WordInv'
<1>1. UNCHANGED <<cashier, word, barred, overwritten, req>>
    BY DEF ReadCashier, ValidatePin, MatchStore, Authenticate
<1>2. \A v \in Worker : v # w => pc'[v] = pc[v] /\ match'[v] = match[v]
    BY DEF WordInv, TypeOK, VariableTypes, ReadCashier, ValidatePin, MatchStore, Authenticate, Goto, local
<1>3. CASE ReadCashier(w)
    <2>1. pc'[w] # "act"
        BY <1>3 DEF ReadCashier, Goto, WordInv, TypeOK, VariableTypes
    <2> QED BY <1>1, <1>2, <2>1, OtherStepsKeepWordInv DEF WordInv
<1>4. CASE ValidatePin(w)
    <2>1. pc'[w] # "act"
        BY <1>4 DEF ValidatePin, Goto, WordInv, TypeOK, VariableTypes
    <2> QED BY <1>1, <1>2, <2>1, OtherStepsKeepWordInv DEF WordInv
<1>5. CASE MatchStore(w)
    <2>1. pc'[w] \in {"match", "issue"}
        BY <1>5 DEF MatchStore, Goto, WordInv, TypeOK, VariableTypes
    <2> QED BY <1>1, <1>2, <2>1, OtherStepsKeepWordInv DEF WordInv
<1>6. CASE Authenticate(w)
    <2> DEFINE s == session[req[w].token]
    <2>0. req[w].token \in Ticket
        BY <1>6, BusyRequest, RequestFields DEF Authenticate, OpsAt, WordInv
    <2>1. s \in Session /\ cashier[s.cashier].active /\ match'[w] = s.cashier
        BY <1>6, <2>0 DEF Authenticate, SessionIsGood, WordInv, TypeOK, VariableTypes
    <2>2. match'[w] \in Cashier /\ cashier[match'[w]].active
        BY <2>1 DEF Session
    <2>3. match'[w] \notin barred'[w] \ overwritten
        BY <1>1, <2>2 DEF WordInv, OnlyOverlapUndoesAnswers
    <2> QED BY <1>1, <1>2, <2>3, OtherStepsKeepWordInv DEF WordInv
<1> QED BY <1>3, <1>4, <1>5, <1>6

\* So do those that write: over the row that was read, or unseen.
LEMMA WritesKeepWordInv ==
    ASSUME WordInv, TypeOK', NEW w \in Worker,
           InsertCashier(w) \/ SaveCashier(w) \/ Deactivate(w)
    PROVE  WordInv'
<1>1. w \in Owner /\ TypeOK
    BY WritersAreOwners DEF WordInv, InsertCashier, SaveCashier, Deactivate
<1>2. overwritten \subseteq overwritten'
    BY DEF InsertCashier, SaveCashier, Deactivate, Saved
<1>3. CASE InsertCashier(w)
    <2> DEFINE c == Len(Opening) + ticket[w]
               row == [store |-> req[w].store, pin |-> req[w].pin,
                       active |-> Given(req[w].active, TRUE)]
    <2>1. req[w].op = "create" /\ ticket[w] \in Ticket /\ req[w] \in OwnerRequest \cup TillRequest
        BY <1>1, <1>3, BusyRequest DEF InsertCashier, OpsAt
    <2>2. c \in Cashier
        BY <2>1, AccessAssumption
    <2>3. req[w].store \in Store /\ req[w].pin \in Pin /\ req[w].active \in BOOLEAN \cup {Absent}
        BY <2>1, RequestFields
    <2>4. Given(req[w].active, TRUE) \in BOOLEAN
        BY <2>3 DEF Given
    <2>5. row \in Row
        BY <2>3, <2>4 DEF Row
    <2>6. cashier' = [cashier EXCEPT ![c] = row] /\ Answered(w, c, row) /\ Finish(w)
        BY <1>3 DEF InsertCashier
    <2> HIDE DEF c, row
    <2> QED BY <1>2, <2>2, <2>5, <2>6, AnsweredKeepsWordInv
<1>4. CASE SaveCashier(w)
    <2> DEFINE c == req[w].cashier
    <2>1. c \in Cashier /\ seen[w] \in Row /\ req[w].op = "patch"
          /\ req[w].pin \in Pin \cup {Absent} /\ req[w].active \in BOOLEAN \cup {Absent}
          /\ cashier[c] \in Row
        BY <1>1, <1>4, RowsToChange DEF SaveCashier
    <2>2. word[c] \in Row
        BY <2>1, AccessAssumption DEF WordInv, TypeOK, VariableTypes
    <2>3. Patched(w, seen[w]) \in Row /\ Asked(w, word[c]) \in Row
        BY <2>1, <2>2, GivenFieldsMakeARow DEF Patched, Asked
    <2>4. Patched(w, seen[w]) = Asked(w, word[c]) \/ c \in overwritten'
        <3>1. CASE seen[w] = cashier[c] /\ cashier[c] = word[c]
            BY <3>1 DEF Patched, Asked
        <3>2. CASE seen[w] # cashier[c]
            BY <1>4, <3>2 DEF SaveCashier, Saved
        <3>3. CASE cashier[c] # word[c]
            BY <1>2, <2>1, <3>3 DEF WordInv, OnlyOverlapUndoesAnswers
        <3> QED BY <3>1, <3>2, <3>3
    <2>5. /\ cashier' = [cashier EXCEPT ![c] = Patched(w, seen[w])]
          /\ Answered(w, c, Asked(w, word[c])) /\ Finish(w)
        BY <1>4 DEF SaveCashier
    <2> HIDE DEF c
    <2> QED BY <1>2, <2>1, <2>3, <2>4, <2>5, AnsweredKeepsWordInv
<1>5. CASE Deactivate(w)
    <2> DEFINE c == req[w].cashier
               row == [cashier[c] EXCEPT !.active = FALSE]
               said == [word[c] EXCEPT !.active = FALSE]
    <2>1. c \in Cashier /\ cashier[c] \in Row
        BY <1>1, <1>5, RowsToChange DEF Deactivate
    <2>2. word[c] \in Row
        BY <2>1, AccessAssumption DEF WordInv, TypeOK, VariableTypes
    <2>3. row \in Row /\ said \in Row
        BY <2>1, <2>2, DeactivatedIsARow
    <2>4. row = said \/ c \in overwritten'
        BY <1>2, <2>1 DEF WordInv, OnlyOverlapUndoesAnswers
    <2>5. cashier' = [cashier EXCEPT ![c] = row] /\ Answered(w, c, said) /\ Finish(w)
        BY <1>5 DEF Deactivate
    <2> HIDE DEF c, row, said
    <2> QED BY <1>2, <2>1, <2>3, <2>4, <2>5, AnsweredKeepsWordInv
<1> QED BY <1>3, <1>4, <1>5

\* Every step keeps the invariant.
LEMMA NextWordInv == WordInv /\ [Next]_vars => WordInv'
<1> SUFFICES ASSUME WordInv, [Next]_vars PROVE WordInv'
    OBVIOUS
<1>0. TypeOK /\ TypeOK'
    BY NextTypeOK DEF WordInv
<1>1. ASSUME NEW w \in Worker, EndUnwritten(w) \/ IssueSession(w) \/ Logout(w)
      PROVE  WordInv'
    BY <1>0, <1>1, EndedKeepsWordInv DEF EndUnwritten, IssueSession, Logout, Forget
<1>2. ASSUME NEW w \in Worker, Accept(w) \/ Step(w) \/ Crash(w)
      PROVE  WordInv'
    BY <1>0, <1>1, <1>2, AcceptKeepsWordInv, ReadsKeepWordInv, WritesKeepWordInv
    DEF Step, Crash, RefuseCashier, RefusePin, RefuseLogin, RefuseToken, Act
<1>3. ASSUME UNCHANGED <<cashier, pc, local, word, barred, overwritten>>
      PROVE  WordInv'
    BY <1>0, <1>3 DEF WordInv, OnlyOverlapUndoesAnswers, local
<1>4. ASSUME NEW t \in Ticket, Expire(t)
      PROVE  WordInv'
    BY <1>3, <1>4 DEF Expire
<1> QED BY <1>2, <1>3, <1>4 DEF Next, Quiet, vars

\* Whatever the owner's tabs do at the same time, a cashier differs from what the
\* owner's answers say only if CashierSerializer.update saved a row over it that had
\* changed since that PATCH read it.
THEOREM OwnersWordCorrect == Spec => []OnlyOverlapUndoesAnswers
<1>1. WordInv => OnlyOverlapUndoesAnswers
    BY DEF WordInv
<1> QED BY <1>1, InitWordInv, NextWordInv, PTL DEF Spec

\* And no request that comes in after a cashier was deactivated acts as that cashier,
\* however its session, its login and the deactivation overlapped, unless the owner
\* reactivates the cashier or such a save has undone the deactivation.
THEOREM BarredCorrect == Spec => BarredNeverActs
<1>1. WordInv /\ [Next]_vars =>
        [\A w \in Worker : Act(w) => match[w] \notin barred[w] \ overwritten]_vars
    BY DEF WordInv, Act
<1> QED BY <1>1, InitWordInv, NextWordInv, PTL DEF Spec, BarredNeverActs

-----------------------------------------------------------------------------
(* PINs                                                                    *)

\* No two active cashiers of a store share a PIN at the start.
OpeningPinsDistinct ==
    \A c, d \in DOMAIN Opening :
        /\ Opening[c].active /\ Opening[d].active
        /\ Opening[c].store = Opening[d].store /\ Opening[c].pin = Opening[d].pin
        => c = d

\* The handler of w is about to write a PIN it has compared with the others'.
PinChecked(w) == pc[w] = "insert" \/ (pc[w] = "save" /\ req[w].pin # Absent)

\* What the handler of w knows as it goes towards its save: whom it changes and his
\* store, and, but for what was saved since its last query, that nobody has the PIN
\* it brings, or that the row it holds is the one there is.
KnowsOthers(w) ==
    /\ pc[w] \in {"idle", "insert"} => match[w] = 0
    /\ pc[w] = "validate" /\ req[w].op = "create" => match[w] = 0
    /\ pc[w] = "validate" /\ req[w].op = "patch" => req[w].pin # Absent
    /\ pc[w] \in {"validate", "save"} /\ req[w].op = "patch"
          => seen[w].store = cashier[req[w].cashier].store
    /\ PinChecked(w) => PinHolders(w) \subseteq since[w]
    /\ pc[w] = "save" /\ req[w].pin = Absent
          => req[w].cashier \in since[w] \/ seen[w] = cashier[req[w].cashier]

\* Whoever shares a PIN was saved unchecked, and every handler of the owner knows the
\* others' PINs but for what was saved since it looked.
PinsInv ==
    /\ TypeOK
    /\ Fresh
    /\ SharedPinsWereUnchecked
    /\ \A w \in Owner : KnowsOthers(w)

\* The PINs are distinct at the start.
LEMMA InitPinsInv == ASSUME OpeningPinsDistinct PROVE Init => PinsInv
<1> SUFFICES ASSUME Init PROVE PinsInv
    OBVIOUS
<1>1. TypeOK
    BY InitTypeOK
<1>2. \A c \in Cashier : cashier[c] # NoRow => c \in DOMAIN Opening /\ cashier[c] = Opening[c]
    BY DEF Init
<1>3. SharedPinsWereUnchecked
    BY <1>2 DEF SharedPinsWereUnchecked, SharePin, OpeningPinsDistinct
<1>4. \A w \in Owner : KnowsOthers(w)
    BY DEF Init, KnowsOthers, PinChecked
<1>5. Fresh
    <2>1. ASSUME NEW t \in Ticket PROVE cashier[Len(Opening) + t] = NoRow
        <3>1. Len(Opening) + t \in Cashier /\ Len(Opening) + t \notin DOMAIN Opening
            BY AccessAssumption
        <3> QED BY <3>1 DEF Init
    <2> QED BY <2>1 DEF Init, Fresh
<1> QED BY <1>1, <1>3, <1>4, <1>5 DEF PinsInv

\* Where no cashier changes, a handler that stays where it is knows what it knew.
LEMMA KnowledgeStays ==
    ASSUME cashier' = cashier, NEW v \in Owner, KnowsOthers(v),
           pc'[v] = pc[v], req'[v] = req[v], seen'[v] = seen[v], match'[v] = match[v],
           since'[v] = since[v]
    PROVE  KnowsOthers(v)'
<1>1. PinHolders(v)' = PinHolders(v)
    BY DEF PinHolders, StoreOf
<1> QED BY <1>1 DEF KnowsOthers, PinChecked

\* A request that ends with no cashier saved keeps the invariant.
LEMMA EndedKeepsPinsInv ==
    ASSUME PinsInv, TypeOK', Fresh', NEW w \in Worker, Finish(w), Forget(w), cashier' = cashier
    PROVE  PinsInv'
<1>1. /\ pc'[w] = "idle" /\ match'[w] = 0
      /\ \A v \in Worker : v # w => /\ pc'[v] = pc[v] /\ req'[v] = req[v]
                                    /\ seen'[v] = seen[v] /\ match'[v] = match[v]
                                    /\ since'[v] = since[v]
    BY DEF PinsInv, TypeOK, VariableTypes, Finish, Goto, Forget
<1>2. \A v \in Owner : v # w => KnowsOthers(v)'
    BY <1>1, KnowledgeStays DEF PinsInv
<1>3. KnowsOthers(w)'
    BY <1>1 DEF KnowsOthers, PinChecked
<1>4. SharedPinsWereUnchecked'
    BY DEF PinsInv, SharedPinsWereUnchecked, SharePin, Forget
<1> QED BY <1>2, <1>3, <1>4 DEF PinsInv

\* The steps that only read leave a handler knowing what it needs.
LEMMA ReadsKeepPinsInv ==
    ASSUME PinsInv, TypeOK', Fresh', NEW w \in Worker,
           Accept(w) \/ ReadCashier(w) \/ ValidatePin(w) \/ MatchStore(w) \/ Authenticate(w)
    PROVE  PinsInv'
<1>0. TypeOK
    BY DEF PinsInv
<1>1. /\ cashier' = cashier /\ since' = since /\ unchecked' = unchecked
      /\ \A v \in Worker : v # w => /\ pc'[v] = pc[v] /\ req'[v] = req[v]
                                    /\ seen'[v] = seen[v] /\ match'[v] = match[v]
    BY <1>0 DEF TypeOK, VariableTypes, Goto, local,
                Accept, ReadCashier, ValidatePin, MatchStore, Authenticate
<1>2. \A v \in Owner : v # w => KnowsOthers(v)'
    BY <1>1, KnowledgeStays DEF PinsInv
<1>3. ASSUME w \in Owner
      PROVE  KnowsOthers(w)'
    <2>0. KnowsOthers(w)
        BY <1>3 DEF PinsInv
    <2>1. CASE Accept(w)
        <3>1. PICK r \in OwnerRequest : req' = [req EXCEPT ![w] = r] /\ Goto(w, FirstStage(r.op))
            BY <1>3, <2>1 DEF Accept
        <3>2. pc'[w] = FirstStage(r.op) /\ match'[w] = 0 /\ req'[w] = r
            BY <1>0, <1>3, <2>0, <2>1, <3>1 DEF KnowsOthers, Accept, Goto, TypeOK, VariableTypes
        <3>3. /\ FirstStage(r.op) \notin {"insert", "save", "idle"}
              /\ FirstStage(r.op) = "validate" => r.op = "create"
            BY DEF FirstStage
        <3> QED BY <3>2, <3>3 DEF KnowsOthers, PinChecked
    <2>2. CASE ReadCashier(w)
        <3>1. req[w].op \in {"patch", "delete", "impersonate"} /\ req' = req
            BY <1>0, <2>2, BusyRequest DEF ReadCashier, OpsAt
        <3>2. /\ pc'[w] \in {"deactivate", "issue", "validate", "save"}
              /\ pc'[w] = "save" => req[w].pin = Absent
              /\ pc'[w] = "validate" => req[w].pin # Absent
              /\ seen'[w] = cashier[req[w].cashier]
            BY <1>0, <2>2 DEF ReadCashier, Goto, TypeOK, VariableTypes
        <3> QED BY <1>1, <3>1, <3>2 DEF KnowsOthers, PinChecked
    <2>3. CASE ValidatePin(w)
        <3>1. PinHolders(w)' = {}
            BY <2>3 DEF ValidatePin, PinHolders, StoreOf, local
        <3>2. /\ pc[w] = "validate" /\ match' = match /\ req' = req /\ seen' = seen
              /\ pc'[w] = IF req[w].op = "create" THEN "insert" ELSE "save"
            BY <1>0, <2>3 DEF ValidatePin, Goto, TypeOK, VariableTypes, local
        <3>3. req[w].op = "create" \/ (req[w].op = "patch" /\ req[w].pin # Absent)
            <4>1. req[w].op \in {"create", "patch"}
                BY <1>0, <3>2, BusyRequest DEF OpsAt
            <4>2. req[w].op = "patch" => req[w].pin # Absent
                BY <2>0, <3>2, <2>3 DEF KnowsOthers
            <4> QED BY <4>1, <4>2
        <3> QED BY <1>1, <2>0, <3>1, <3>2, <3>3 DEF KnowsOthers, PinChecked
    <2>4. ~MatchStore(w) /\ ~Authenticate(w)
        <3>1. ASSUME MatchStore(w) \/ Authenticate(w) PROVE FALSE
            <4>1. req[w].op \in {"login", "act", "logout"} /\ pc[w] # "idle"
                BY <1>0, <3>1, BusyRequest DEF MatchStore, Authenticate, OpsAt
            <4>2. req[w] \notin OwnerRequest
                BY <4>1, RequestFields
            <4> QED BY <1>0, <1>3, <4>1, <4>2 DEF TypeOK, StageTypes
        <3> QED BY <3>1
    <2> QED BY <2>1, <2>2, <2>3, <2>4
<1>4. SharedPinsWereUnchecked'
    BY <1>1 DEF PinsInv, SharedPinsWereUnchecked, SharePin
<1> QED BY <1>2, <1>3, <1>4 DEF PinsInv

\* Where an active row has its PIN from at a write of w: from the body, and w compared
\* it; or from a row read inactive, or saved again since; or from the row there is.
PinIsKnown(w, c, row) ==
    row.active =>
        \/ /\ PinChecked(w) /\ match[w] \in {0, c}
           /\ row.store = StoreOf(w) /\ row.pin = req[w].pin
        \/ req[w].pin = Absent /\ ~seen[w].active
        \/ c \in since[w] /\ cashier[c].store = row.store
        \/ /\ req[w].pin = Absent /\ cashier[c] # NoRow /\ cashier[c].active
           /\ row.store = cashier[c].store /\ row.pin = cashier[c].pin

\* Every write saves one row, which stays in its store, with a PIN of one of these.
LEMMA WriteOfARow ==
    ASSUME PinsInv, NEW w \in Worker,
           InsertCashier(w) \/ SaveCashier(w) \/ Deactivate(w)
    PROVE  \E c \in Cashier, row \in Row :
               /\ cashier' = [cashier EXCEPT ![c] = row] /\ Saved(w, c, row) /\ Finish(w)
               /\ cashier[c] # NoRow => row.store = cashier[c].store
               /\ PinIsKnown(w, c, row)
<1>0. TypeOK
    BY DEF PinsInv
<1>w. w \in Owner /\ KnowsOthers(w)
    BY <1>0, WritersAreOwners DEF PinsInv, InsertCashier, SaveCashier, Deactivate
<1>1. CASE InsertCashier(w)
    <2> DEFINE c == Len(Opening) + ticket[w]
               row == [store |-> req[w].store, pin |-> req[w].pin,
                       active |-> Given(req[w].active, TRUE)]
    <2>1. req[w].op = "create" /\ ticket[w] \in Ticket /\ req[w] \in OwnerRequest \cup TillRequest
          /\ pc[w] = "insert"
        BY <1>0, <1>1, BusyRequest DEF InsertCashier, OpsAt
    <2>2. c \in Cashier /\ cashier[c] = NoRow
        BY <2>1, AccessAssumption DEF PinsInv, Fresh
    <2>3. req[w].store \in Store /\ req[w].pin \in Pin /\ req[w].active \in BOOLEAN \cup {Absent}
        BY <2>1, RequestFields
    <2>4. Given(req[w].active, TRUE) \in BOOLEAN
        BY <2>3 DEF Given
    <2>5. row \in Row
        BY <2>3, <2>4 DEF Row
    <2>6. PinChecked(w) /\ match[w] = 0 /\ StoreOf(w) = req[w].store
        BY <1>w, <2>1 DEF KnowsOthers, StoreOf, PinChecked
    <2>7. PinIsKnown(w, c, row)
        BY <2>6 DEF PinIsKnown
    <2>8. cashier' = [cashier EXCEPT ![c] = row] /\ Saved(w, c, row) /\ Finish(w)
        BY <1>1 DEF InsertCashier
    <2> QED BY <2>2, <2>5, <2>7, <2>8
<1>2. CASE SaveCashier(w)
    <2> DEFINE c == req[w].cashier
               row == Patched(w, seen[w])
    <2>1. c \in Cashier /\ seen[w] \in Row /\ req[w].op = "patch" /\ pc[w] = "save"
          /\ req[w].pin \in Pin \cup {Absent} /\ req[w].active \in BOOLEAN \cup {Absent}
        BY <1>0, <1>2, RowsToChange DEF SaveCashier
    <2>2. /\ match[w] = c /\ cashier[c] # NoRow /\ StoreOf(w) = seen[w].store
          /\ seen[w].store = cashier[c].store
        BY <1>0, <1>w, <2>1 DEF TypeOK, StageTypes, StoreOf, KnowsOthers
    <2>3. row \in Row
        BY <2>1, GivenFieldsMakeARow DEF Patched
    <2>4. row.store = seen[w].store /\ row.pin = Given(req[w].pin, seen[w].pin)
          /\ row.active = Given(req[w].active, seen[w].active)
        BY DEF Patched
    <2>5. cashier' = [cashier EXCEPT ![c] = row] /\ Saved(w, c, row) /\ Finish(w)
        BY <1>2 DEF SaveCashier
    <2>6. CASE req[w].pin # Absent
        <3>1. PinChecked(w) /\ row.pin = req[w].pin
            BY <2>1, <2>4, <2>6 DEF PinChecked, Given
        <3>2. PinIsKnown(w, c, row)
            BY <2>2, <2>4, <3>1 DEF PinIsKnown
        <3> QED BY <2>1, <2>2, <2>3, <2>4, <2>5, <3>2
    <2>7. CASE req[w].pin = Absent
        <3>1. row.pin = seen[w].pin /\ (c \in since[w] \/ seen[w] = cashier[c])
            BY <1>w, <2>1, <2>4, <2>7 DEF KnowsOthers, Given
        <3>2. PinIsKnown(w, c, row)
            BY <2>2, <2>4, <2>7, <3>1 DEF PinIsKnown
        <3> QED BY <2>1, <2>2, <2>3, <2>4, <2>5, <3>2
    <2> QED BY <2>6, <2>7
<1>3. CASE Deactivate(w)
    <2> DEFINE c == req[w].cashier
               row == [cashier[c] EXCEPT !.active = FALSE]
    <2>1. c \in Cashier /\ cashier[c] \in Row
        BY <1>0, <1>3, RowsToChange DEF Deactivate
    <2>2. row \in Row /\ row.store = cashier[c].store /\ ~row.active
        BY <2>1, DeactivatedIsARow DEF Row
    <2>3. PinIsKnown(w, c, row)
        BY <2>2 DEF PinIsKnown
    <2>4. cashier' = [cashier EXCEPT ![c] = row] /\ Saved(w, c, row) /\ Finish(w)
        BY <1>3 DEF Deactivate
    <2> QED BY <2>1, <2>2, <2>3, <2>4
<1> QED BY <1>1, <1>2, <1>3

\* A write shares a PIN only if it is unchecked, and is noted by the other handlers.
LEMMA WritesKeepPinsInv ==
    ASSUME PinsInv, TypeOK', Fresh', NEW w \in Worker,
           InsertCashier(w) \/ SaveCashier(w) \/ Deactivate(w)
    PROVE  PinsInv'
<1>0. TypeOK /\ w \in Owner /\ KnowsOthers(w)
    BY WritersAreOwners DEF PinsInv, InsertCashier, SaveCashier, Deactivate
<1>1. PICK c \in Cashier, row \in Row :
          /\ cashier' = [cashier EXCEPT ![c] = row] /\ Saved(w, c, row) /\ Finish(w)
          /\ cashier[c] # NoRow => row.store = cashier[c].store
          /\ PinIsKnown(w, c, row)
    BY WriteOfARow
<1>2. /\ pc'[w] = "idle" /\ match'[w] = 0
      /\ \A v \in Worker : v # w => /\ pc'[v] = pc[v] /\ req'[v] = req[v]
                                    /\ seen'[v] = seen[v] /\ match'[v] = match[v]
    BY <1>0, <1>1 DEF TypeOK, VariableTypes, Finish, Goto
<1>3. \A d \in Cashier : cashier'[d] = IF d = c THEN row ELSE cashier[d]
    BY <1>0, <1>1 DEF TypeOK, VariableTypes
<1>4. ASSUME NEW d \in Cashier, d # c, SharePin(c, d)' \/ SharePin(d, c)'
      PROVE  c \in unchecked' \/ d \in unchecked'
    <2>1. /\ row.active /\ cashier[d] # NoRow /\ cashier[d].active
          /\ cashier[d].store = row.store /\ cashier[d].pin = row.pin
        BY <1>3, <1>4 DEF SharePin
    <2>2. Unchecked(w, row) => c \in unchecked'
        BY <1>1, <2>1 DEF Saved
    <2>3. CASE PinChecked(w) /\ match[w] \in {0, c}
               /\ row.store = StoreOf(w) /\ row.pin = req[w].pin
        <3>1. d # match[w]
            BY <1>4, <2>3, AccessAssumption
        <3>2. d \in PinHolders(w)
            BY <2>1, <2>3, <3>1 DEF PinHolders
        <3>3. Unchecked(w, row)
            BY <1>0, <2>1, <2>3, <3>2 DEF KnowsOthers, Unchecked
        <3> QED BY <2>2, <3>3
    <2>4. CASE req[w].pin = Absent /\ ~seen[w].active
        BY <2>2, <2>4 DEF Unchecked
    <2>5. CASE c \in since[w] /\ cashier[c].store = row.store
        BY <2>2, <2>5 DEF Unchecked
    <2>6. CASE /\ req[w].pin = Absent /\ cashier[c] # NoRow /\ cashier[c].active
               /\ row.store = cashier[c].store /\ row.pin = cashier[c].pin
        <3>1. SharePin(c, d)
            BY <2>1, <2>6 DEF SharePin
        <3>2. c \in unchecked \/ d \in unchecked
            BY <1>4, <3>1 DEF PinsInv, SharedPinsWereUnchecked
        <3>3. unchecked \subseteq unchecked'
            BY <1>1, <2>1, <2>6 DEF Saved
        <3> QED BY <3>2, <3>3
    <2> QED BY <1>1, <2>1, <2>3, <2>4, <2>5, <2>6 DEF PinIsKnown
<1>5. ASSUME NEW d \in Cashier, NEW e \in Cashier, d # c, e # c, d # e, SharePin(d, e)'
      PROVE  d \in unchecked' \/ e \in unchecked'
    <2>1. SharePin(d, e)
        BY <1>3, <1>5 DEF SharePin
    <2>2. unchecked \ {c} \subseteq unchecked'
        BY <1>1 DEF Saved
    <2> QED BY <1>5, <2>1, <2>2 DEF PinsInv, SharedPinsWereUnchecked
<1>6. SharedPinsWereUnchecked'
    BY <1>4, <1>5 DEF SharedPinsWereUnchecked
<1>7. ASSUME NEW v \in Owner, v # w
      PROVE  KnowsOthers(v)'
    <2>1. /\ pc'[v] = pc[v] /\ req'[v] = req[v] /\ seen'[v] = seen[v] /\ match'[v] = match[v]
          /\ StoreOf(v)' = StoreOf(v) /\ PinChecked(v)' = PinChecked(v)
        BY <1>2, <1>7 DEF StoreOf, PinChecked, Worker
    <2>2. pc[v] \in {"insert", "save"} => since'[v] = since[v] \cup {c}
        BY <1>1, <1>7 DEF Saved, Worker
    <2>3. KnowsOthers(v)
        BY DEF PinsInv
    <2>4. PinHolders(v)' \subseteq PinHolders(v) \cup {c}
        BY <1>3, <2>1 DEF PinHolders
    <2>5. PinChecked(v)' => PinHolders(v)' \subseteq since'[v]
        BY <2>1, <2>2, <2>3, <2>4 DEF KnowsOthers, PinChecked
    <2>6. ASSUME pc[v] \in {"validate", "save"}, req[v].op = "patch"
          PROVE  seen[v].store = cashier'[req[v].cashier].store
        <3>1. req[v].cashier \in Cashier /\ cashier[req[v].cashier] # NoRow
            BY <1>0, <2>6 DEF TypeOK, StageTypes, Worker
        <3> QED BY <1>1, <1>3, <2>3, <2>6, <3>1 DEF KnowsOthers
    <2>7. ASSUME pc[v] = "save", req[v].pin = Absent
          PROVE  req[v].cashier \in since'[v] \/ seen[v] = cashier'[req[v].cashier]
        <3>1. req[v].op = "patch" /\ v \in Worker
            BY <1>0, <2>7, BusyRequest DEF OpsAt, Worker
        <3>2. req[v].cashier \in Cashier
            BY <1>0, <2>7, <3>1 DEF TypeOK, StageTypes
        <3> QED BY <1>3, <2>2, <2>3, <2>7, <3>2 DEF KnowsOthers
    <2> QED BY <2>1, <2>3, <2>5, <2>6, <2>7 DEF KnowsOthers
<1>8. KnowsOthers(w)'
    BY <1>2 DEF KnowsOthers, PinChecked
<1> QED BY <1>6, <1>7, <1>8 DEF PinsInv

\* Every step keeps the invariant.
LEMMA NextPinsInv == PinsInv /\ [Next]_vars => PinsInv'
<1> SUFFICES ASSUME PinsInv, [Next]_vars PROVE PinsInv'
    OBVIOUS
<1>0. TypeOK' /\ Fresh'
    BY NextTypeOK, NextFresh DEF PinsInv
<1>1. ASSUME NEW w \in Worker, EndUnwritten(w) \/ IssueSession(w) \/ Logout(w)
      PROVE  PinsInv'
    BY <1>0, <1>1, EndedKeepsPinsInv DEF EndUnwritten, IssueSession, Logout
<1>2. ASSUME NEW w \in Worker, Accept(w) \/ Step(w) \/ Crash(w)
      PROVE  PinsInv'
    BY <1>0, <1>1, <1>2, ReadsKeepPinsInv, WritesKeepPinsInv
    DEF Step, Crash, RefuseCashier, RefusePin, RefuseLogin, RefuseToken, Act
<1>3. ASSUME UNCHANGED <<cashier, pc, req, local, history>>
      PROVE  PinsInv'
    <2>1. \A v \in Owner : KnowsOthers(v)'
        BY <1>3, KnowledgeStays DEF PinsInv, local, history
    <2>2. SharedPinsWereUnchecked'
        BY <1>3 DEF PinsInv, SharedPinsWereUnchecked, SharePin, history
    <2> QED BY <1>0, <2>1, <2>2 DEF PinsInv
<1> QED BY <1>2, <1>3 DEF Next, Quiet, Expire, vars

\* From an opening with distinct PINs, two active cashiers of a store share one only
\* if one of them was saved without its PIN having been compared with the other's: by a
\* reactivation without a PIN, or by a handler that looked before another save in the
\* store.  CashierSerializer.validate keeps that, with any number of the owner's tabs.
THEOREM PinsCorrect ==
    ASSUME OpeningPinsDistinct
    PROVE  Spec => []SharedPinsWereUnchecked
<1>1. Init => PinsInv
    BY InitPinsInv
<1>2. PinsInv /\ [Next]_vars => PinsInv'
    BY NextPinsInv
<1>3. PinsInv => SharedPinsWereUnchecked
    BY DEF PinsInv
<1> QED BY <1>1, <1>2, <1>3, PTL DEF Spec

-----------------------------------------------------------------------------
(* Logins                                                                  *)

\* Whoever has fitted the login of w ever since it came in fits it now, and his store
\* is still to be searched.
SearchesOn(w) ==
    pc[w] = "match" =>
        \A c \in fitting[w] : Fits(req[w], cashier[c]) /\ cashier[c].store \in left[w]

LoginInv == PinsInv /\ \A w \in Worker : SearchesOn(w)

\* A login comes in with all the stores of its code to be searched.
LEMMA AcceptKeepsSearching ==
    ASSUME TypeOK, NEW w \in Worker, Accept(w), NEW v \in Worker, SearchesOn(v)
    PROVE  SearchesOn(v)'
<1>1. PICK r \in IF w \in Owner THEN OwnerRequest ELSE TillRequest :
        /\ req' = [req EXCEPT ![w] = r]
        /\ pc' = [pc EXCEPT ![w] = FirstStage(r.op)]
        /\ left' = [left EXCEPT ![w] =
                       IF r.op = "login" THEN {s \in Store : CodeOf[s] = r.code} ELSE {}]
        /\ fitting' = [fitting EXCEPT ![w] =
                          IF r.op = "login" THEN {c \in Cashier : Fits(r, cashier[c])} ELSE {}]
    BY DEF Accept, Goto
<1>2. cashier' = cashier
    BY DEF Accept
<1>3. CASE v # w
    BY <1>1, <1>2, <1>3 DEF SearchesOn, Fits, TypeOK, VariableTypes
<1>4. CASE v = w
    <2>1. SUFFICES ASSUME pc'[w] = "match", NEW c \in fitting'[w]
                   PROVE  Fits(req'[w], cashier[c]) /\ cashier[c].store \in left'[w]
        BY <1>2, <1>4 DEF SearchesOn, Fits
    <2>2. pc'[w] = FirstStage(r.op) /\ req'[w] = r
        BY <1>1 DEF TypeOK, VariableTypes
    <2>3. r.op = "login"
        BY <2>1, <2>2 DEF FirstStage
    <2>4. c \in Cashier /\ Fits(r, cashier[c]) /\ left'[w] = {s \in Store : CodeOf[s] = r.code}
        BY <1>1, <2>1, <2>3 DEF TypeOK, VariableTypes
    <2>5. cashier[c].store \in Store
        BY <2>4 DEF Fits, TypeOK, VariableTypes, Row
    <2> QED BY <2>2, <2>4, <2>5 DEF Fits
<1> QED BY <1>3, <1>4

\* A store is passed over only when nobody in it fits.
LEMMA MatchKeepsSearching ==
    ASSUME TypeOK, NEW w \in Worker, MatchStore(w), NEW v \in Worker, SearchesOn(v)
    PROVE  SearchesOn(v)'
<1>1. cashier' = cashier /\ req' = req /\ fitting' = fitting
    BY DEF MatchStore, history
<1>2. PICK s \in left[w] :
        \/ /\ Hits(w, s) = {}
           /\ left' = [left EXCEPT ![w] = @ \ {s}]
           /\ UNCHANGED <<pc, match>>
        \/ pc' = [pc EXCEPT ![w] = "issue"] /\ left' = [left EXCEPT ![w] = {}]
    BY DEF MatchStore, Goto
<1>3. CASE v # w
    BY <1>1, <1>2, <1>3 DEF SearchesOn, Fits, TypeOK, VariableTypes
<1>4. CASE v = w
    <2>1. SUFFICES ASSUME pc'[w] = "match", NEW c \in fitting[w]
                   PROVE  Fits(req[w], cashier[c]) /\ cashier[c].store \in left'[w]
        BY <1>1, <1>4 DEF SearchesOn, Fits
    <2>2. Hits(w, s) = {} /\ left' = [left EXCEPT ![w] = @ \ {s}] /\ pc' = pc
        BY <1>2, <2>1 DEF TypeOK, VariableTypes
    <2>3. Fits(req[w], cashier[c]) /\ cashier[c].store \in left[w] /\ c \in Cashier
        BY <1>4, <2>1, <2>2 DEF SearchesOn, TypeOK, VariableTypes
    <2>4. cashier[c].store # s
        BY <2>2, <2>3 DEF Hits, Fits
    <2> QED BY <2>2, <2>3, <2>4 DEF TypeOK, VariableTypes
<1> QED BY <1>3, <1>4

\* A cashier stays in his store, so a save leaves whoever still fits to be found.
LEMMA WriteKeepsSearching ==
    ASSUME PinsInv, NEW w \in Worker, NEW v \in Worker, SearchesOn(v),
           InsertCashier(w) \/ SaveCashier(w) \/ Deactivate(w)
    PROVE  SearchesOn(v)'
<1>0. TypeOK
    BY DEF PinsInv
<1>1. PICK c \in Cashier, row \in Row :
          /\ cashier' = [cashier EXCEPT ![c] = row] /\ Saved(w, c, row) /\ Finish(w)
          /\ cashier[c] # NoRow => row.store = cashier[c].store
    BY WriteOfARow
<1>2. CASE v = w
    BY <1>0, <1>1, <1>2 DEF SearchesOn, Finish, Goto, TypeOK, VariableTypes
<1>3. CASE v # w
    <2>1. pc'[v] = pc[v] /\ req'[v] = req[v] /\ left'[v] = left[v]
        BY <1>0, <1>1, <1>3 DEF Finish, Goto, TypeOK, VariableTypes
    <2>2. fitting'[v] = {d \in fitting[v] : d # c \/ Fits(req[v], row)}
        BY <1>1, <1>3 DEF Saved
    <2>3. \A d \in Cashier : cashier'[d] = IF d = c THEN row ELSE cashier[d]
        BY <1>0, <1>1 DEF TypeOK, VariableTypes
    <2>4. SUFFICES ASSUME pc[v] = "match", NEW d \in fitting'[v]
                   PROVE  Fits(req[v], cashier'[d]) /\ cashier'[d].store \in left[v]
        BY <2>1 DEF SearchesOn, Fits
    <2>5. d \in Cashier /\ Fits(req[v], cashier[d]) /\ cashier[d].store \in left[v]
        BY <1>0, <2>2, <2>4 DEF SearchesOn, TypeOK, VariableTypes
    <2>6. CASE d = c
        BY <1>1, <2>2, <2>3, <2>4, <2>5, <2>6 DEF Fits
    <2>7. CASE d # c
        BY <2>3, <2>5, <2>7
    <2> QED BY <2>6, <2>7
<1> QED BY <1>2, <1>3

\* The other steps are not about the logins being searched.
LEMMA OthersKeepSearching ==
    ASSUME TypeOK, NEW w \in Worker, NEW v \in Worker, SearchesOn(v), cashier' = cashier,
           \/ Finish(w) /\ Forget(w)
           \/ ReadCashier(w) \/ ValidatePin(w) \/ Authenticate(w)
    PROVE  SearchesOn(v)'
<1>1. CASE Finish(w) /\ Forget(w)
    BY <1>1 DEF SearchesOn, Fits, Finish, Forget, Goto, TypeOK, VariableTypes
<1>2. CASE ReadCashier(w) \/ ValidatePin(w) \/ Authenticate(w)
    <2>1. req' = req /\ left' = left /\ fitting' = fitting
        BY <1>2 DEF ReadCashier, ValidatePin, Authenticate, local, history
    <2>2. \E stage \in Stages \ {"match"} : pc' = [pc EXCEPT ![w] = stage]
        <3>1. CASE ReadCashier(w)
            BY <3>1 DEF ReadCashier, Goto, Stages
        <3>2. CASE ValidatePin(w)
            BY <3>2 DEF ValidatePin, Goto, Stages
        <3>3. CASE Authenticate(w)
            <4>1. req[w].op \in {"act", "logout"}
                BY <3>3, BusyRequest DEF Authenticate, OpsAt
            <4> QED BY <3>3, <4>1 DEF Authenticate, Goto, Stages
        <3> QED BY <1>2, <3>1, <3>2, <3>3
    <2> QED BY <2>1, <2>2 DEF SearchesOn, Fits, TypeOK, VariableTypes
<1> QED BY <1>1, <1>2

\* Every step keeps the invariant of the logins.
LEMMA NextLoginInv == LoginInv /\ [Next]_vars => LoginInv'
<1> SUFFICES ASSUME LoginInv, [Next]_vars PROVE LoginInv'
    OBVIOUS
<1>0. PinsInv /\ TypeOK /\ PinsInv'
    BY NextPinsInv DEF LoginInv, PinsInv
<1>1. SUFFICES ASSUME NEW v \in Worker PROVE SearchesOn(v)'
    BY <1>0 DEF LoginInv
<1>2. SearchesOn(v)
    BY DEF LoginInv
<1>3. ASSUME NEW w \in Worker, EndUnwritten(w) \/ IssueSession(w) \/ Logout(w)
      PROVE  SearchesOn(v)'
    BY <1>0, <1>2, <1>3, OthersKeepSearching DEF EndUnwritten, IssueSession, Logout
<1>4. ASSUME NEW w \in Worker, ReadCashier(w) \/ ValidatePin(w) \/ Authenticate(w)
      PROVE  SearchesOn(v)'
    <2>1. cashier' = cashier
        BY <1>4 DEF ReadCashier, ValidatePin, Authenticate
    <2> QED BY <1>0, <1>2, <1>4, <2>1, OthersKeepSearching
<1>5. ASSUME NEW w \in Worker, Accept(w) \/ Step(w) \/ Crash(w)
      PROVE  SearchesOn(v)'
    BY <1>0, <1>2, <1>3, <1>4, <1>5, AcceptKeepsSearching, MatchKeepsSearching, WriteKeepsSearching
    DEF Step, Crash, RefuseCashier, RefusePin, RefuseLogin, RefuseToken, Act
<1>6. ASSUME UNCHANGED <<cashier, pc, req, local, history>>
      PROVE  SearchesOn(v)'
    BY <1>2, <1>6 DEF SearchesOn, Fits, local, history
<1> QED BY <1>5, <1>6 DEF Next, Quiet, Expire, vars

\* The first hit of a store is its only one, unless a PIN was saved unchecked.
LEMMA FirstHit ==
    ASSUME PinsInv, NEW w \in Worker, MatchStore(w), pc'[w] = "issue",
           NEW d \in Cashier, Fits(req[w], cashier[d])
    PROVE  \/ d = match'[w]
           \/ cashier[d].store # cashier[match'[w]].store
           \/ d \in unchecked \/ match'[w] \in unchecked
<1>1. pc[w] = "match"
    BY DEF MatchStore
<1>2. PICK s \in left[w] : \E c \in Hits(w, s) : match' = [match EXCEPT ![w] = c]
    BY <1>1 DEF MatchStore, PinsInv, TypeOK, VariableTypes
<1>3. PICK c \in Hits(w, s) : match' = [match EXCEPT ![w] = c]
    BY <1>2
<1>4. match'[w] = c
    BY <1>3 DEF PinsInv, TypeOK, VariableTypes
<1>5. cashier[d].store = cashier[c].store => SharePin(d, c)
    BY <1>3 DEF Hits, Fits, SharePin
<1>6. c \in Cashier
    BY <1>3 DEF Hits
<1> QED BY <1>4, <1>5, <1>6 DEF PinsInv, SharedPinsWereUnchecked

\* However many stores, of however many owners, have the code, and however cashiers are
\* saved while the loop of cashier_login goes through them, it refuses a login only if
\* nobody fitted it all the while; and the cashier it finds is the only one of his
\* store who fits, unless a PIN of that store was saved unchecked.
THEOREM LoginCorrect ==
    ASSUME OpeningPinsDistinct
    PROVE  Spec => LoginFindsWhoFits
<1>1. Init => LoginInv
    BY InitPinsInv DEF Init, LoginInv, SearchesOn
<1>2. LoginInv /\ [Next]_vars => LoginInv'
    BY NextLoginInv
<1>3. LoginInv /\ [Next]_vars =>
        [\A w \in Worker :
           /\ RefuseLogin(w) => fitting[w] = {}
           /\ MatchStore(w) /\ pc'[w] = "issue" =>
                 \A d \in Cashier : Fits(req[w], cashier[d]) =>
                     \/ d = match'[w]
                     \/ cashier[d].store # cashier[match'[w]].store
                     \/ d \in unchecked \/ match'[w] \in unchecked]_vars
    <2>1. ASSUME LoginInv, NEW w \in Worker, RefuseLogin(w)
          PROVE  fitting[w] = {}
        BY <2>1 DEF LoginInv, SearchesOn, RefuseLogin
    <2> QED BY <2>1, FirstHit DEF LoginInv
<1> QED BY <1>1, <1>2, <1>3, PTL DEF Spec, LoginFindsWhoFits
=============================================================================
