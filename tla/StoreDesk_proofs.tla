-------------------------- MODULE StoreDesk_proofs --------------------------
(***************************************************************************)
(* Theorems about StoreDesk, for any products, log and posts: a draft is   *)
(* received once unless the answer was lost, what is shown as fresh        *)
(* includes what was saved, the server takes what the forms let through,   *)
(* and the report adds up.                                                 *)
(*                                                                         *)
(* The first two do not depend on what is in an event or a body, so there  *)
(* these are typed as members of some set (DeskTyped).  The others do, and *)
(* type them fully (DeskInv): quantities and revenues are totals over the  *)
(* log, which Totals_proofs is about.                                      *)
(***************************************************************************)
EXTENDS StoreDesk, Totals_proofs

PostStatus == {"sent", "recorded", "refused", "lost"}
PostRecord(B) ==
    [op : {"receiving", "target", "delta"}, body : B, draft : Nat, watched : BOOLEAN,
     status : PostStatus, at : Nat, over : BOOLEAN]
Cache ==
    [data : Seq(Nat), stale : BOOLEAN, failed : BOOLEAN, whole : BOOLEAN,
     fetching : BOOLEAN, reading : Seq(Nat), kept : BOOLEAN]

IsLog(l) == \E E : l \in Seq(E)
ArePosts(s) == \E B : s \in Seq(PostRecord(B))

\* The types of what the theorems are about.
DeskTyped ==
    /\ IsLog(log) /\ ArePosts(post)
    /\ tab \in Tab /\ draft \in Nat
    /\ query \in [Query -> Cache]

-----------------------------------------------------------------------------
(* The log and the posts                                                   *)

\* A sequence over a set is one over a larger set.
LEMMA SeqWidened ==
    ASSUME NEW S, NEW T, S \subseteq T, NEW s \in Seq(S)
    PROVE  s \in Seq(T)
<1>1. Len(s) \in Nat /\ s \in [1..Len(s) -> S]  OBVIOUS
<1>2. s \in [1..Len(s) -> T]  BY <1>1
<1> QED  BY <1>1, <1>2

\* An event makes the log longer.
LEMMA LogGrows ==
    ASSUME NEW l, IsLog(l), NEW e
    PROVE  IsLog(Append(l, e)) /\ Len(l) \in Nat /\ Len(Append(l, e)) = Len(l) + 1
<1>1. PICK E : l \in Seq(E)  BY DEF IsLog
<1>2. l \in Seq(E \cup {e})  BY <1>1
<1>3. Append(l, e) \in Seq(E \cup {e})  BY <1>2
<1> QED  BY <1>1, <1>2, <1>3 DEF IsLog

\* The posts are a sequence of records.
LEMMA PostsFacts ==
    ASSUME NEW s, ArePosts(s)
    PROVE  /\ Len(s) \in Nat /\ DOMAIN s = 1..Len(s)
           /\ \A i \in DOMAIN s : /\ s[i].draft \in Nat /\ s[i].at \in Nat
                                  /\ s[i].op \in {"receiving", "target", "delta"}
                                  /\ s[i].watched \in BOOLEAN /\ s[i].over \in BOOLEAN
                                  /\ s[i].status \in PostStatus
<1>1. PICK B : s \in Seq(PostRecord(B))  BY DEF ArePosts
<1>2. \A i \in 1..Len(s) : s[i] \in PostRecord(B)  BY <1>1
<1> QED  BY <1>1, <1>2 DEF PostRecord

\* A press of "Simpan" adds a record.
LEMMA PostAdded ==
    ASSUME NEW s, ArePosts(s), NEW op \in {"receiving", "target", "delta"}, NEW body, NEW d \in Nat,
           NEW r, r = [op |-> op, body |-> body, draft |-> d, watched |-> TRUE,
                       status |-> "sent", at |-> 0, over |-> FALSE]
    PROVE  /\ ArePosts(Append(s, r))
           /\ DOMAIN Append(s, r) = 1..(Len(s) + 1)
           /\ Append(s, r)[Len(s) + 1] = r
           /\ \A i \in 1..Len(s) : Append(s, r)[i] = s[i]
<1>1. PICK B : s \in Seq(PostRecord(B))  BY DEF ArePosts
<1>2. PostRecord(B) \subseteq PostRecord(B \cup {body})  BY DEF PostRecord
<1>3. s \in Seq(PostRecord(B \cup {body}))  BY <1>1, <1>2, SeqWidened
<1>4. r \in PostRecord(B \cup {body})  BY DEF PostRecord, PostStatus
<1>5. Append(s, r) \in Seq(PostRecord(B \cup {body}))  BY <1>3, <1>4
<1> QED  BY <1>3, <1>4, <1>5 DEF ArePosts

\* What the server makes of a post is noted in its record.
LEMMA PostHandled ==
    ASSUME DeskTyped, NEW i \in DOMAIN post, NEW status \in PostStatus, NEW at \in Nat,
           Handled(i, status, at)
    PROVE  /\ ArePosts(post') /\ DOMAIN post' = DOMAIN post
           /\ \A j \in DOMAIN post :
                 /\ j # i => post'[j] = post[j]
                 /\ post'[j].op = post[j].op /\ post'[j].draft = post[j].draft
                 /\ post'[j].body = post[j].body
                 /\ post'[j].watched = post[j].watched /\ post'[j].over = post[j].over
           /\ post'[i].status = status /\ post'[i].at = at
<1>1. PICK B : post \in Seq(PostRecord(B))  BY DEF ArePosts, DeskTyped
<1> DEFINE r == [post[i] EXCEPT !.status = status, !.at = at]
<1>2. post[i] \in PostRecord(B)  BY <1>1
<1>3. /\ r \in PostRecord(B) /\ r.status = status /\ r.at = at
      /\ r.op = post[i].op /\ r.draft = post[i].draft /\ r.body = post[i].body
      /\ r.watched = post[i].watched /\ r.over = post[i].over
    BY <1>2 DEF PostRecord
<1>4. post' = [post EXCEPT ![i].status = status, ![i].at = at]  BY DEF Handled
<1>5. post' = [post EXCEPT ![i] = r]  BY <1>1, <1>2, <1>4 DEF PostRecord
<1> HIDE DEF r
<1>6. post' \in Seq(PostRecord(B)) /\ DOMAIN post' = DOMAIN post  BY <1>1, <1>3, <1>5
<1>7. post'[i] = r /\ \A j \in DOMAIN post : j # i => post'[j] = post[j]  BY <1>1, <1>5
<1> QED  BY <1>3, <1>6, <1>7 DEF ArePosts

-----------------------------------------------------------------------------
(* Types                                                                   *)

\* Nothing is there yet.
LEMMA InitTyped == Init => DeskTyped
<1> SUFFICES ASSUME Init PROVE DeskTyped
    OBVIOUS
<1>1. IsLog(log)  BY DEF Init, IsLog
<1>2. ArePosts(post)  BY DEF Init, ArePosts
<1>3. NotFetched \in Cache  BY DEF NotFetched, Cache
<1> QED  BY <1>1, <1>2, <1>3 DEF Init, DeskTyped, Tab

\* A fetch that is begun, and data that is stale or no longer observed, are as typed.
LEMMA CacheTyped ==
    ASSUME NEW c \in Cache
    PROVE  /\ Started(c) \in Cache /\ Left(c) \in Cache
           /\ [c EXCEPT !.stale = TRUE] \in Cache
           /\ [c EXCEPT !.fetching = FALSE, !.reading = <<>>, !.failed = TRUE] \in Cache
           /\ \A n \in Nat : [c EXCEPT !.reading = Append(@, n)] \in Cache
           /\ \A d \in Seq(Nat), b \in BOOLEAN : [NotFetched EXCEPT !.data = d, !.whole = b] \in Cache
<1>1. c.data \in Seq(Nat) /\ c.reading \in Seq(Nat) /\ <<>> \in Seq(Nat)  BY DEF Cache
<1>2. Started(c) \in Cache
    <2>1. (c.data # <<>>) \in BOOLEAN  OBVIOUS
    <2> QED  BY <1>1, <2>1 DEF Cache, Started
<1>3. Left(c) \in Cache /\ [c EXCEPT !.stale = TRUE] \in Cache  BY DEF Cache, Left
<1>4. [c EXCEPT !.fetching = FALSE, !.reading = <<>>, !.failed = TRUE] \in Cache
    BY <1>1 DEF Cache
<1>5. ASSUME NEW n \in Nat PROVE [c EXCEPT !.reading = Append(@, n)] \in Cache
    <2>1. Append(c.reading, n) \in Seq(Nat)  BY <1>1
    <2> DEFINE r == Append(c.reading, n)
    <2> HIDE DEF r
    <2>2. [c EXCEPT !.reading = r] \in Cache  BY <2>1 DEF Cache, r
    <2> QED  BY <2>2 DEF r
<1>6. ASSUME NEW d \in Seq(Nat), NEW b \in BOOLEAN
      PROVE  [NotFetched EXCEPT !.data = d, !.whole = b] \in Cache
    BY <1>1 DEF Cache, NotFetched
<1> QED  BY <1>2, <1>3, <1>4, <1>5, <1>6

\* The store, the cache and the network are what the page is not.
StoreEvent ==
    \/ \E S \in Basket : Sell(S)
    \/ \E amount \in QuickAmount : SellQuick(amount)
    \/ \E p \in Product : Archive(p) \/ Reweigh(p)

FetchStep == \E q \in Query : ReadRows(q) \/ Land(q) \/ FailFetch(q)

\* A till's event is added to the log; the page does not move.
LEMMA StoreEventFacts ==
    ASSUME DeskTyped, StoreEvent
    PROVE  IsLog(log') /\ Len(log) \in Nat /\ Len(log') = Len(log) + 1 /\ UNCHANGED <<page, query, post>>
<1>1. PICK e : log' = Append(log, e) /\ UNCHANGED <<page, query, post>>
    BY DEF StoreEvent, Sell, SellQuick, Archive, Reweigh, Record
<1> QED  BY <1>1, LogGrows DEF DeskTyped

\* A fetch changes the cache alone.
LEMMA FetchTyped ==
    ASSUME DeskTyped, FetchStep
    PROVE  query' \in [Query -> Cache] /\ UNCHANGED <<log, page, post>>
<1>1. PICK q \in Query : ReadRows(q) \/ Land(q) \/ FailFetch(q)  BY DEF FetchStep
<1>2. query[q] \in Cache /\ Len(log) \in Nat
    BY LogGrows DEF DeskTyped
<1>3. CASE ReadRows(q)
    <2>1. [query[q] EXCEPT !.reading = Append(@, Now)] \in Cache  BY <1>2, CacheTyped DEF Now
    <2> QED  BY <1>2, <1>3, <2>1 DEF ReadRows, DeskTyped
<1>4. CASE Land(q)
    <2>1. query[q].reading \in Seq(Nat) /\ query[q].kept \in BOOLEAN  BY <1>2 DEF Cache
    <2>2. [NotFetched EXCEPT !.data = query[q].reading, !.whole = query[q].kept] \in Cache
        BY <1>2, <2>1, CacheTyped
    <2> QED  BY <1>4, <2>2 DEF Land, DeskTyped
<1>5. CASE FailFetch(q)
    <2>1. [query[q] EXCEPT !.fetching = FALSE, !.reading = <<>>, !.failed = TRUE] \in Cache
        BY <1>2, CacheTyped
    <2> QED  BY <1>2, <1>5, <2>1 DEF FailFetch, DeskTyped
<1> QED  BY <1>1, <1>3, <1>4, <1>5

\* An invalidation, too, leaves a cache.
LEMMA InvalidateTyped ==
    ASSUME DeskTyped, NEW qs, Invalidate(qs)
    PROVE  query' \in [Query -> Cache]
<1> DEFINE c(q) == IF q \in qs /\ HasData(q) THEN [query[q] EXCEPT !.stale = TRUE] ELSE query[q]
           n(q) == IF q \in qs /\ Restarts(q) THEN Started(c(q)) ELSE c(q)
<1>1. ASSUME NEW q \in Query PROVE n(q) \in Cache
    <2>1. query[q] \in Cache  BY DEF DeskTyped
    <2>2. c(q) \in Cache  BY <2>1, CacheTyped
    <2> HIDE DEF c
    <2> QED  BY <2>2, CacheTyped
<1>2. query' = [q \in Query |-> n(q)]  BY DEF Invalidate
<1> HIDE DEF n
<1> QED  BY <1>1, <1>2

\* A tab that is opened starts or leaves fetches.
LEMMA OpenTabTyped ==
    ASSUME DeskTyped, NEW t \in Shows, OpenTab(t)
    PROVE  query' \in [Query -> Cache] /\ tab' \in Tab /\ draft' \in Nat
<1>1. PICK aged \in BOOLEAN :
          query' = [q \in Query |->
                       IF q \in Observes(t) /\ WantsFetch(query[q], aged) THEN Started(query[q])
                       ELSE IF Active(q) THEN Left(query[q]) ELSE query[q]]
    BY DEF OpenTab
<1>2. \A q \in Query : /\ query[q] \in Cache
                       /\ Started(query[q]) \in Cache /\ Left(query[q]) \in Cache
    BY CacheTyped DEF DeskTyped
<1>3. query' \in [Query -> Cache]  BY <1>1, <1>2
<1>4. tab' \in Tab /\ draft' \in Nat
    BY DeskAssumption DEF OpenTab, Tab, NextDraft, DeskTyped
<1> QED  BY <1>3, <1>4

-----------------------------------------------------------------------------
(* A draft is received once                                                *)

\* Of a post whose answer is lost only the status changes.
LosesOnly(r, n) ==
    /\ n.op = r.op /\ n.body = r.body /\ n.draft = r.draft
    /\ n.at = r.at /\ n.watched = r.watched /\ n.over = r.over

\* An answer is lost on its way.
LEMMA PostLost ==
    ASSUME DeskTyped, NEW i \in DOMAIN post, LosePost(i)
    PROVE  /\ ArePosts(post') /\ DOMAIN post' = DOMAIN post
           /\ \A j \in DOMAIN post : LosesOnly(post[j], post'[j])
           /\ \A j \in DOMAIN post : j # i => post'[j] = post[j]
           /\ ~post[i].over /\ post'[i].status = "lost"
<1>1. PICK B : post \in Seq(PostRecord(B))  BY DEF ArePosts, DeskTyped
<1> DEFINE r == [post[i] EXCEPT !.status = "lost"]
<1>2. post[i] \in PostRecord(B)  BY <1>1
<1>3. r \in PostRecord(B) /\ LosesOnly(post[i], r) /\ r.status = "lost"
    BY <1>2 DEF PostRecord, PostStatus, LosesOnly
<1>4. post' = [post EXCEPT ![i] = r]  BY <1>1, <1>2 DEF PostRecord, LosePost
<1> HIDE DEF r
<1>5. post' \in Seq(PostRecord(B)) /\ DOMAIN post' = DOMAIN post  BY <1>1, <1>3, <1>4
<1>6. post'[i] = r /\ \A j \in DOMAIN post : j # i => post'[j] = post[j]  BY <1>1, <1>4
<1> QED  BY <1>3, <1>5, <1>6 DEF ArePosts, LosesOnly, LosePost

\* The page is told of a post's answer.
LEMMA PostOver ==
    ASSUME DeskTyped, NEW i \in DOMAIN post, Over(i)
    PROVE  /\ ArePosts(post') /\ DOMAIN post' = DOMAIN post
           /\ \A j \in DOMAIN post : j # i => post'[j] = post[j]
           /\ post'[i].over
           /\ post'[i].op = post[i].op /\ post'[i].draft = post[i].draft /\ post'[i].at = post[i].at
           /\ post'[i].body = post[i].body
           /\ post'[i].watched = post[i].watched /\ post'[i].status = post[i].status
<1>1. PICK B : post \in Seq(PostRecord(B))  BY DEF ArePosts, DeskTyped
<1> DEFINE r == [post[i] EXCEPT !.over = TRUE]
<1>2. post[i] \in PostRecord(B)  BY <1>1
<1>3. /\ r \in PostRecord(B) /\ r.over
      /\ r.op = post[i].op /\ r.draft = post[i].draft /\ r.at = post[i].at
      /\ r.body = post[i].body
      /\ r.watched = post[i].watched /\ r.status = post[i].status
    BY <1>2 DEF PostRecord
<1>4. post' = [post EXCEPT ![i] = r]  BY <1>1, <1>2 DEF PostRecord, Over
<1> HIDE DEF r
<1>5. post' \in Seq(PostRecord(B)) /\ DOMAIN post' = DOMAIN post  BY <1>1, <1>3, <1>4
<1>6. post'[i] = r /\ \A j \in DOMAIN post : j # i => post'[j] = post[j]  BY <1>1, <1>4
<1> QED  BY <1>3, <1>5, <1>6 DEF ArePosts

\* Leaving a tab: nobody watches its posts any more.
LEMMA PostsLeft ==
    ASSUME DeskTyped, NEW t \in Shows, OpenTab(t)
    PROVE  /\ ArePosts(post') /\ DOMAIN post' = DOMAIN post
           /\ \A j \in DOMAIN post :
                 /\ post'[j].op = post[j].op /\ post'[j].draft = post[j].draft
                 /\ post'[j].body = post[j].body
                 /\ post'[j].at = post[j].at /\ post'[j].over = post[j].over
                 /\ post'[j].status = post[j].status
<1>1. PICK B : post \in Seq(PostRecord(B))  BY DEF ArePosts, DeskTyped
<1> DEFINE r(j) == [post[j] EXCEPT !.watched = FALSE]
<1>2. ASSUME NEW j \in 1..Len(post)
      PROVE  /\ r(j) \in PostRecord(B)
             /\ r(j).op = post[j].op /\ r(j).draft = post[j].draft /\ r(j).at = post[j].at
             /\ r(j).body = post[j].body
             /\ r(j).over = post[j].over /\ r(j).status = post[j].status
    <2>1. post[j] \in PostRecord(B)  BY <1>1
    <2> QED  BY <2>1 DEF PostRecord
<1>3. DOMAIN post = 1..Len(post) /\ Len(post) \in Nat  BY <1>1
<1>4. post' = [j \in 1..Len(post) |-> r(j)]  BY <1>3 DEF OpenTab
<1> HIDE DEF r
<1>5. post' \in [1..Len(post) -> PostRecord(B)]  BY <1>2, <1>4
<1>6. post' \in Seq(PostRecord(B))  BY <1>3, <1>5
<1>7. DOMAIN post' = DOMAIN post  BY <1>3, <1>4
<1> QED  BY <1>2, <1>3, <1>4, <1>6, <1>7 DEF ArePosts

\* The request of a post was refused or lost, and the page told so.
Failed(r) == r.over /\ r.status \in {"refused", "lost"}
Attempt(r, d) == r.op = "receiving" /\ r.draft = d

\* Of a draft every receiving but the last has failed.
OneAttempt(s) ==
    \A i, j \in DOMAIN s : i < j /\ s[j].op = "receiving" /\ Attempt(s[i], s[j].draft) => Failed(s[i])

\* A receiving of the draft at hand is being waited for, or has failed.
DraftAtHand(s, d, ls) ==
    \A i \in DOMAIN s : /\ s[i].draft <= d
                        /\ Attempt(s[i], d) => /\ ls # NoLines /\ s[i].watched
                                               /\ s[i].over => Failed(s[i])

DraftOf(s, d, ls) == OneAttempt(s) /\ DraftAtHand(s, d, ls)
DraftInv == DraftOf(post, draft, lines)

\* Posts are handled, over or left; the draft goes on, or is a new one.
LEMMA DraftKept ==
    ASSUME NEW s, NEW t, ArePosts(s), DOMAIN t = DOMAIN s,
           NEW d \in Nat, NEW e \in Nat, NEW ls, NEW ms,
           DraftOf(s, d, ls),
           \A i \in DOMAIN s : /\ t[i].op = s[i].op /\ t[i].draft = s[i].draft
                               /\ Failed(s[i]) => Failed(t[i]),
           \/ e > d
           \/ e = d /\ ls = NoLines
           \/ /\ e = d /\ ms # NoLines
              /\ \A i \in DOMAIN s : Attempt(s[i], d) =>
                     /\ t[i].watched = s[i].watched
                     /\ t[i].over => s[i].over \/ Failed(t[i])
    PROVE  DraftOf(t, e, ms)
<1>1. \A i \in DOMAIN s : s[i].draft \in Nat /\ s[i].draft <= d /\ DOMAIN s = 1..Len(s) /\ Len(s) \in Nat
    BY PostsFacts DEF DraftOf, DraftAtHand
<1>2. OneAttempt(t)
    BY <1>1 DEF OneAttempt, DraftOf, Attempt
<1>3. DraftAtHand(t, e, ms)
    <2> SUFFICES ASSUME NEW i \in DOMAIN s
                 PROVE  /\ t[i].draft <= e
                        /\ Attempt(t[i], e) => /\ ms # NoLines /\ t[i].watched
                                               /\ t[i].over => Failed(t[i])
        BY DEF DraftAtHand
    <2>1. t[i].draft <= e  BY <1>1
    <2>2. ASSUME Attempt(t[i], e)
          PROVE  ms # NoLines /\ t[i].watched /\ (t[i].over => Failed(t[i]))
        <3>1. e = d /\ Attempt(s[i], d)  BY <1>1, <2>2 DEF Attempt
        <3>2. ls # NoLines /\ s[i].watched /\ (s[i].over => Failed(s[i]))
            BY <3>1 DEF DraftOf, DraftAtHand
        <3> QED  BY <3>1, <3>2
    <2> QED  BY <2>1, <2>2
<1> QED  BY <1>2, <1>3 DEF DraftOf

\* Changing the lines keeps them, or makes the next draft.
LineStep ==
    \/ \E q \in Product : AddLine(q) \/ RemoveLine(q)
    \/ \E q \in Product, qty \in Typed : SetQty(q, qty)
    \/ ClearLines

\* A change of the lines leaves some, or ends the draft.
LEMMA LineStepFacts ==
    ASSUME DeskTyped, LineStep
    PROVE  /\ UNCHANGED <<log, tab, query, post>>
           /\ draft' \in Nat
           /\ draft' > draft \/ (draft' = draft /\ lines' # NoLines)
<1>1. DOMAIN NoLines = {}  BY DEF NoLines
<1>2. draft \in Nat  BY DEF DeskTyped
<1>3. ASSUME NEW q \in Product, AddLine(q)
      PROVE  draft' = draft /\ lines' # NoLines /\ UNCHANGED <<log, tab, query, post>>
    BY <1>1, <1>3 DEF AddLine
<1>4. ASSUME NEW q \in Product, NEW qty \in Typed, SetQty(q, qty)
      PROVE  draft' = draft /\ lines' # NoLines /\ UNCHANGED <<log, tab, query, post>>
    BY <1>1, <1>4 DEF SetQty
<1>5. ASSUME NEW kept, Drop(kept)
      PROVE  /\ draft' = (IF kept = {} THEN draft + 1 ELSE draft) /\ (kept # {} => lines' # NoLines)
             /\ UNCHANGED <<log, tab, query, post>>
    BY <1>1, <1>5 DEF Drop
<1>6. ASSUME NEW q \in Product, RemoveLine(q)
      PROVE  \E kept : Drop(kept)
    BY <1>6 DEF RemoveLine
<1>7. CASE ClearLines
    <2>1. Drop({})  BY <1>7 DEF ClearLines
    <2> QED  BY <1>2, <1>5, <2>1
<1> QED  BY <1>2, <1>3, <1>4, <1>5, <1>6, <1>7 DEF LineStep

\* A press of "Simpan" for the draft, which all earlier ones have failed by then.
LEMMA ReceiveDraft ==
    ASSUME DeskTyped, DraftInv, Receive
    PROVE  ArePosts(post') /\ DraftInv'
<1> DEFINE r == [op |-> "receiving", body |-> lines, draft |-> draft, watched |-> TRUE,
                 status |-> "sent", at |-> 0, over |-> FALSE]
           n == Len(post) + 1
<1>1. /\ post' = Append(post, r) /\ lines' = lines /\ draft' = draft
      /\ lines # NoLines /\ ~IsPending
    BY DEF Receive, CanSubmit, Save, page
<1>2. /\ ArePosts(post') /\ DOMAIN post' = 1..n /\ post'[n] = r
      /\ \A i \in 1..Len(post) : post'[i] = post[i]
    BY <1>1, PostAdded DEF DeskTyped
<1>3. Len(post) \in Nat /\ DOMAIN post = 1..Len(post) /\ draft \in Nat
      /\ \A i \in DOMAIN post : post[i].watched \in BOOLEAN /\ post[i].over \in BOOLEAN
    BY PostsFacts DEF DeskTyped
<1>4. r.op = "receiving" /\ r.draft = draft /\ r.watched /\ ~r.over  OBVIOUS
<1> HIDE DEF r
<1>5. ASSUME NEW i \in DOMAIN post, Attempt(post[i], draft)
      PROVE  Failed(post[i]) /\ post[i].watched
    <2>1. post[i].watched /\ (post[i].over => Failed(post[i]))
        BY <1>5 DEF DraftInv, DraftOf, DraftAtHand
    <2> QED  BY <1>1, <2>1 DEF IsPending
<1>6. OneAttempt(post')
    <2> SUFFICES ASSUME NEW i \in 1..n, NEW j \in 1..n,
                        i < j, post'[j].op = "receiving", Attempt(post'[i], post'[j].draft)
                 PROVE  Failed(post'[i])
        BY <1>2 DEF OneAttempt
    <2>1. i \in 1..Len(post) /\ post'[i] = post[i]  BY <1>2, <1>3
    <2>2. CASE j = n  BY <1>2, <1>3, <1>4, <1>5, <2>1, <2>2
    <2>3. CASE j # n
        <3>1. j \in 1..Len(post) /\ post'[j] = post[j]  BY <1>2, <1>3, <2>3
        <3> QED  BY <1>3, <2>1, <3>1 DEF DraftInv, DraftOf, OneAttempt
    <2> QED  BY <2>2, <2>3
<1>7. DraftAtHand(post', draft', lines')
    <2> SUFFICES ASSUME NEW i \in 1..n
                 PROVE  /\ post'[i].draft <= draft
                        /\ Attempt(post'[i], draft) => /\ post'[i].watched
                                                       /\ post'[i].over => Failed(post'[i])
        BY <1>1, <1>2 DEF DraftAtHand
    <2>1. CASE i = n  BY <1>2, <1>3, <1>4, <2>1
    <2>2. CASE i # n
        <3>1. i \in 1..Len(post) /\ post'[i] = post[i]  BY <1>2, <1>3, <2>2
        <3> QED  BY <1>3, <1>5, <3>1 DEF DraftInv, DraftOf, DraftAtHand
    <2> QED  BY <2>1, <2>2
<1> QED  BY <1>2, <1>6, <1>7 DEF DraftInv, DraftOf

\* An adjustment is no receiving of the draft.
LEMMA AdjustDraft ==
    ASSUME DeskTyped, DraftInv, NEW op \in {"target", "delta"}, NEW qty, Adjust(op, qty)
    PROVE  ArePosts(post') /\ DraftInv'
<1> DEFINE body == [p \in {dialog.product} |-> qty]
           r == [op |-> op, body |-> body, draft |-> draft, watched |-> TRUE,
                 status |-> "sent", at |-> 0, over |-> FALSE]
           n == Len(post) + 1
<1>1. post' = Append(post, r) /\ lines' = lines /\ draft' = draft
    BY DEF Adjust, Save, page
<1>2. /\ ArePosts(post') /\ DOMAIN post' = 1..n /\ post'[n] = r
      /\ \A i \in 1..Len(post) : post'[i] = post[i]
    <2> HIDE DEF body
    <2> QED  BY <1>1, PostAdded DEF DeskTyped
<1>3. Len(post) \in Nat /\ DOMAIN post = 1..Len(post) /\ draft \in Nat
    BY PostsFacts DEF DeskTyped
<1>4. r.op # "receiving" /\ r.draft = draft  OBVIOUS
<1> HIDE DEF r
<1>5. \A i \in 1..n : i # n => i \in 1..Len(post) /\ post'[i] = post[i]  BY <1>2, <1>3
<1>6. OneAttempt(post')
    <2> SUFFICES ASSUME NEW i \in 1..n, NEW j \in 1..n,
                        i < j, post'[j].op = "receiving", Attempt(post'[i], post'[j].draft)
                 PROVE  Failed(post'[i])
        BY <1>2 DEF OneAttempt
    <2>1. i # n /\ j # n  BY <1>2, <1>4 DEF Attempt
    <2> QED  BY <1>3, <1>5, <2>1 DEF DraftInv, DraftOf, OneAttempt
<1>7. DraftAtHand(post', draft', lines')
    <2> SUFFICES ASSUME NEW i \in 1..n
                 PROVE  /\ post'[i].draft <= draft
                        /\ Attempt(post'[i], draft) => /\ lines # NoLines /\ post'[i].watched
                                                       /\ post'[i].over => Failed(post'[i])
        BY <1>1, <1>2 DEF DraftAtHand
    <2>1. CASE i = n  BY <1>2, <1>3, <1>4, <2>1 DEF Attempt
    <2>2. CASE i # n  BY <1>3, <1>5, <2>2 DEF DraftInv, DraftOf, DraftAtHand
    <2> QED  BY <2>1, <2>2
<1> QED  BY <1>2, <1>6, <1>7 DEF DraftInv, DraftOf

\* What the server does with a post ends no wait of the page.
LEMMA HandledDraft ==
    ASSUME DeskTyped, DraftInv, NEW i \in DOMAIN post, RecordPost(i) \/ RefusePost(i)
    PROVE  /\ IsLog(log') /\ ArePosts(post') /\ UNCHANGED <<page, query>>
           /\ DraftInv'
<1>1. PICK status \in PostStatus, at \in Nat : Handled(i, status, at)
    <2>1. Now \in Nat  BY LogGrows DEF DeskTyped, Now
    <2>2. CASE RecordPost(i)
        <3>1. Handled(i, "recorded", Now + 1)  BY <2>2 DEF RecordPost
        <3> QED  BY <2>1, <3>1 DEF PostStatus
    <2>3. CASE RefusePost(i)
        <3>1. Handled(i, "refused", Now)  BY <2>3 DEF RefusePost
        <3> QED  BY <2>1, <3>1 DEF PostStatus
    <2> QED  BY <2>2, <2>3
<1>2. IsLog(log')
    BY LogGrows DEF RecordPost, RefusePost, Record, DeskTyped
<1>3. /\ ArePosts(post') /\ DOMAIN post' = DOMAIN post
      /\ \A j \in DOMAIN post :
            /\ j # i => post'[j] = post[j]
            /\ post'[j].op = post[j].op /\ post'[j].draft = post[j].draft
            /\ post'[j].watched = post[j].watched /\ post'[j].over = post[j].over
    BY <1>1, PostHandled
<1>4. \A j \in DOMAIN post : Failed(post[j]) => Failed(post'[j])
    BY <1>1, <1>3 DEF Failed, Handled
<1>5. draft' = draft /\ lines' = lines /\ UNCHANGED <<page, query>>  BY <1>1 DEF page, Handled
<1>6. DraftInv'
    BY ONLY <1>3, <1>4, <1>5, DraftInv, DraftKept, DeskTyped DEF DraftInv, DeskTyped
<1> QED  BY <1>2, <1>3, <1>5, <1>6

\* A lost answer neither: the page is told of it later.
LEMMA LostDraft ==
    ASSUME DeskTyped, DraftInv, NEW i \in DOMAIN post, LosePost(i)
    PROVE  DraftInv'
<1>1. /\ ArePosts(post) /\ draft \in Nat /\ draft' = draft /\ lines' = lines
    BY DEF LosePost, page, DeskTyped
<1>2. /\ DOMAIN post' = DOMAIN post
      /\ \A j \in DOMAIN post : LosesOnly(post[j], post'[j])
      /\ \A j \in DOMAIN post : j # i => post'[j] = post[j]
      /\ ~post[i].over
    BY PostLost
<1>3. \A j \in DOMAIN post : /\ post'[j].op = post[j].op /\ post'[j].draft = post[j].draft
                             /\ post'[j].watched = post[j].watched /\ post'[j].over = post[j].over
                             /\ Failed(post[j]) => Failed(post'[j])
    BY <1>2 DEF LosesOnly, Failed
<1> QED  BY ONLY <1>1, <1>2, <1>3, DraftInv, DraftKept DEF DraftInv

\* After an answer the receiving has failed, or its draft is a new one, or it was not watched.
LEMMA AnsweredDraft ==
    ASSUME DeskTyped, DraftInv, NEW i \in DOMAIN post, AnswerSuccess(i) \/ AnswerError(i)
    PROVE  DraftInv' /\ draft' \in Nat
<1>1. ArePosts(post) /\ draft \in Nat  BY DEF DeskTyped
<1>2. Over(i) /\ ~post[i].over  BY DEF AnswerSuccess, AnswerError
<1>3. /\ DOMAIN post' = DOMAIN post
      /\ \A j \in DOMAIN post : j # i => post'[j] = post[j]
      /\ post'[i].over
      /\ post'[i].op = post[i].op /\ post'[i].draft = post[i].draft
      /\ post'[i].watched = post[i].watched /\ post'[i].status = post[i].status
    BY <1>2, PostOver
<1>4. \A j \in DOMAIN post : /\ post'[j].op = post[j].op /\ post'[j].draft = post[j].draft
                             /\ post'[j].watched = post[j].watched
                             /\ Failed(post[j]) => Failed(post'[j])
    BY <1>2, <1>3 DEF Failed
<1>5. CASE draft' = draft /\ lines' = lines /\ (post[i].op = "receiving" => Failed(post'[i]) \/ ~post[i].watched)
    <2>1. \A j \in DOMAIN post : Attempt(post[j], draft) /\ post'[j].over => post[j].over \/ Failed(post'[j])
        BY <1>3, <1>5 DEF DraftInv, DraftOf, DraftAtHand, Attempt
    <2>2. \/ draft' = draft /\ lines = NoLines
          \/ /\ draft' = draft /\ lines' # NoLines
             /\ \A j \in DOMAIN post : Attempt(post[j], draft) =>
                    /\ post'[j].watched = post[j].watched
                    /\ post'[j].over => post[j].over \/ Failed(post'[j])
        BY <1>4, <1>5, <2>1
    <2>3. draft' \in Nat  BY <1>1, <1>5
    <2>4. DraftInv'
        BY ONLY <1>1, <1>3, <1>4, <2>2, <2>3, DraftInv, DraftKept DEF DraftInv
    <2> QED  BY <2>3, <2>4
<1>6. CASE NextDraft
    <2>1. draft' \in Nat /\ (draft' > draft \/ (draft' = draft /\ lines = NoLines))
        BY <1>1, <1>6 DEF NextDraft
    <2>2. DraftInv'
        BY ONLY <1>1, <1>3, <1>4, <2>1, DraftInv, DraftKept DEF DraftInv
    <2> QED  BY <2>1, <2>2
<1>7. CASE AnswerError(i)
    <2>1. Failed(post'[i]) /\ draft' = draft /\ lines' = lines
        BY <1>3, <1>7 DEF AnswerError, Failed
    <2> QED  BY <1>5, <2>1
<1>8. CASE AnswerSuccess(i)
    <2>1. CASE post[i].watched /\ post[i].op = "receiving"
        BY <1>6, <1>8, <2>1 DEF AnswerSuccess, Succeed
    <2>2. CASE ~(post[i].watched /\ post[i].op = "receiving")
        <3>1. draft' = draft /\ lines' = lines  BY <1>8, <2>2 DEF AnswerSuccess, Succeed
        <3> QED  BY <1>5, <2>2, <3>1
    <2> QED  BY <2>1, <2>2
<1> QED  BY <1>7, <1>8

\* The tab that is opened has an empty draft of its own.
LEMMA OpenTabDraft ==
    ASSUME DeskTyped, DraftInv, NEW t \in Shows, OpenTab(t)
    PROVE  DraftInv'
<1>1. ArePosts(post) /\ draft \in Nat  BY DEF DeskTyped
<1>2. draft' \in Nat /\ (draft' > draft \/ (draft' = draft /\ lines = NoLines))
    BY <1>1 DEF OpenTab, NextDraft
<1>3. /\ DOMAIN post' = DOMAIN post
      /\ \A j \in DOMAIN post : /\ post'[j].op = post[j].op /\ post'[j].draft = post[j].draft
                                /\ post'[j].over = post[j].over /\ post'[j].status = post[j].status
    BY PostsLeft
<1>4. \A j \in DOMAIN post : /\ post'[j].op = post[j].op /\ post'[j].draft = post[j].draft
                             /\ Failed(post[j]) => Failed(post'[j])
    BY <1>3 DEF Failed
<1> QED  BY ONLY <1>1, <1>2, <1>3, <1>4, DraftInv, DraftKept DEF DraftInv

\* Every step, by who takes it.
LEMMA NextDraftInv == DeskTyped /\ DraftInv /\ [Next]_vars => DeskTyped' /\ DraftInv'
<1> SUFFICES ASSUME DeskTyped, DraftInv, [Next]_vars
             PROVE  DeskTyped' /\ DraftInv'
    OBVIOUS
<1>1. CASE UNCHANGED <<page, post>> /\ IsLog(log') /\ query' \in [Query -> Cache]
    BY <1>1 DEF DeskTyped, DraftInv, page
<1>2. CASE UNCHANGED vars
    BY <1>2, <1>1 DEF vars, DeskTyped
<1>3. CASE StoreEvent
    BY <1>1, <1>3, StoreEventFacts DEF DeskTyped
<1>4. CASE FetchStep
    BY <1>1, <1>4, FetchTyped DEF DeskTyped
<1>5. ASSUME NEW t \in Shows, OpenTab(t) PROVE DeskTyped' /\ DraftInv'
    <2>1. log' = log  BY <1>5 DEF OpenTab
    <2> QED  BY <1>5, <2>1, OpenTabTyped, OpenTabDraft, PostsLeft DEF DeskTyped
<1>6. CASE Focus
    <2>1. PICK q \in Query : query' = [query EXCEPT ![q] = Started(@)]  BY <1>6 DEF Focus
    <2>2. Started(query[q]) \in Cache  BY CacheTyped DEF DeskTyped
    <2>3. query' \in [Query -> Cache]  BY <2>1, <2>2 DEF DeskTyped
    <2> QED  BY <1>1, <1>6, <2>3 DEF Focus, DeskTyped
<1>7. CASE LineStep
    <2>1. DraftInv'
        <3>1. /\ ArePosts(post) /\ post' = post /\ draft \in Nat /\ draft' \in Nat
              /\ draft' > draft \/ (draft' = draft /\ lines' # NoLines)
            BY <1>7, LineStepFacts DEF DeskTyped
        <3> QED  BY ONLY <3>1, DraftInv, DraftKept DEF DraftInv
    <2> QED  BY <1>7, <2>1, LineStepFacts DEF DeskTyped
<1>8. CASE Receive
    BY <1>8, ReceiveDraft DEF Receive, Save, page, DeskTyped
<1>9. ASSUME NEW op \in {"target", "delta"}, NEW qty, Adjust(op, qty) PROVE DeskTyped' /\ DraftInv'
    BY <1>9, AdjustDraft DEF Adjust, Save, page, DeskTyped
<1>10. CASE CloseDialog \/ \E p \in Product : OpenDialog(p)
    BY <1>10 DEF CloseDialog, OpenDialog, DeskTyped, DraftInv
<1>11. ASSUME NEW i \in DOMAIN post, RecordPost(i) \/ RefusePost(i) PROVE DeskTyped' /\ DraftInv'
    BY <1>11, HandledDraft DEF DeskTyped, page
<1>12. ASSUME NEW i \in DOMAIN post, LosePost(i) PROVE DeskTyped' /\ DraftInv'
    BY <1>12, LostDraft, PostLost DEF DeskTyped, LosePost, page
<1>13. ASSUME NEW i \in DOMAIN post, AnswerSuccess(i) PROVE DeskTyped' /\ DraftInv'
    <2>1. DraftInv' /\ draft' \in Nat  BY <1>13, AnsweredDraft
    <2>2. Over(i) /\ Invalidate(Invalidated)  BY <1>13 DEF AnswerSuccess
    <2>3. ArePosts(post') /\ log' = log /\ tab' = tab  BY <2>2, PostOver DEF Over
    <2>4. query' \in [Query -> Cache]  BY <2>2, InvalidateTyped
    <2> QED  BY <2>1, <2>3, <2>4 DEF DeskTyped
<1>14. ASSUME NEW i \in DOMAIN post, AnswerError(i) PROVE DeskTyped' /\ DraftInv'
    <2>1. DraftInv'  BY <1>14, AnsweredDraft
    <2>2. Over(i) /\ UNCHANGED <<draft, query>>  BY <1>14 DEF AnswerError
    <2>3. ArePosts(post') /\ log' = log /\ tab' = tab  BY <2>2, PostOver DEF Over
    <2> QED  BY <2>1, <2>2, <2>3 DEF DeskTyped
<1>15. CASE Next
    <2>1. CASE OwnerStep
        BY <2>1, <1>5, <1>6, <1>7, <1>8, <1>9, <1>10
        DEF OwnerStep, ReceivingStep, AdjustmentStep, LineStep
    <2>2. CASE StoreStep  BY <2>2, <1>3, <1>11 DEF StoreStep, StoreEvent
    <2> QED  BY <1>15, <2>1, <2>2, <1>4, <1>12, <1>13, <1>14 DEF Next, FetchStep
<1> QED  BY <1>2, <1>15

\* No post, no attempt.
LEMMA InitDraft == Init => DraftInv
BY DEF Init, DraftInv, DraftOf, OneAttempt, DraftAtHand

\* A receiving that failed and was not refused was lost.
LEMMA FailedOrLost ==
    ASSUME DeskTyped, DraftInv PROVE DraftReceivedOnce
BY DEF DraftInv, DraftOf, OneAttempt, Failed, Attempt, DraftReceivedOnce

\* Of a draft whose receiving was recorded another receiving is sent only when the answer
\* to the first was lost: for any number of drafts, tabs left and answers late.
THEOREM DraftCorrect == Spec => []DraftReceivedOnce
<1>1. Spec => [](DeskTyped /\ DraftInv)
    BY InitTyped, InitDraft, NextDraftInv, PTL DEF Spec
<1>2. DeskTyped /\ DraftInv => DraftReceivedOnce
    BY FailedOrLost
<1> QED  BY <1>1, <1>2, PTL

-----------------------------------------------------------------------------
(* What is fresh includes what was saved                                   *)

\* What a receiving or an adjustment writes to.
Own == Query \ {"report"}

\* The page was told of the success of post r.
Told(r) == r.status = "recorded" /\ r.over

\* Fresh data of a whole fetch, and a whole fetch on its way that has read, are not
\* older than a post the page was told of.
Covers(c, s) ==
    \A i \in DOMAIN s : Told(s[i]) =>
        /\ c.data # <<>> /\ ~c.stale /\ c.whole => c.data[1] >= s[i].at
        /\ c.fetching /\ c.kept /\ c.reading # <<>> => c.reading[1] >= s[i].at

\* A whole fetch on its way is of a query that is shown and has data, so that an
\* invalidation starts it again.
IsRestarted(c, on) == c.fetching /\ c.kept => on /\ c.data # <<>>

PostsIn(s, n) == \A i \in DOMAIN s : s[i].at <= n /\ (s[i].status = "sent" => ~s[i].over)

CachesOf(qs, t, s) ==
    \A q \in Own : Covers(qs[q], s) /\ IsRestarted(qs[q], q \in Observes(t))

FreshInv == PostsIn(post, Len(log)) /\ CachesOf(query, tab, post)

\* Nothing new was told.
LEMMA CoversFewer ==
    ASSUME NEW c, NEW s, NEW t, Covers(c, s),
           \A i \in DOMAIN t : Told(t[i]) => i \in DOMAIN s /\ Told(s[i]) /\ t[i].at = s[i].at
    PROVE  Covers(c, t)
BY DEF Covers

\* The same for all queries.
LEMMA CachesFewer ==
    ASSUME NEW qs, NEW u, NEW s, NEW t, CachesOf(qs, u, s),
           \A i \in DOMAIN t : Told(t[i]) => i \in DOMAIN s /\ Told(s[i]) /\ t[i].at = s[i].at
    PROVE  CachesOf(qs, u, t)
BY CoversFewer DEF CachesOf

\* A fetch that begins, and one that is left.
LEMMA CoversStarted ==
    ASSUME NEW c \in Cache, NEW s, Covers(c, s)
    PROVE  /\ Covers(Started(c), s) /\ IsRestarted(Started(c), TRUE)
           /\ Covers(Left(c), s) /\ ~Left(c).kept
<1>1. /\ Started(c).data = c.data /\ Started(c).stale = c.stale /\ Started(c).whole = c.whole
      /\ Started(c).reading = <<>> /\ Started(c).kept = (c.data # <<>>)
    BY DEF Cache, Started
<1>2. /\ Left(c).data = c.data /\ Left(c).stale = c.stale /\ Left(c).whole = c.whole
      /\ ~Left(c).kept
    BY DEF Cache, Left
<1>3. Covers(Started(c), s) /\ IsRestarted(Started(c), TRUE)
    BY <1>1 DEF Covers, IsRestarted
<1>4. Covers(Left(c), s)
    BY <1>2 DEF Covers
<1> QED  BY <1>2, <1>3, <1>4

\* Reading, landing and failing: a landing fetch has read, and was whole.
LEMMA FetchFresh ==
    ASSUME DeskTyped, FreshInv, FetchStep
    PROVE  FreshInv'
<1>1. PICK r \in Query : ReadRows(r) \/ Land(r) \/ FailFetch(r)  BY DEF FetchStep
<1>2. UNCHANGED <<log, tab, post>>  BY FetchTyped DEF page
<1>3. /\ Len(log) \in Nat /\ query \in [Query -> Cache] /\ ArePosts(post)
      /\ \A i \in DOMAIN post : post[i].at \in Nat /\ post[i].at <= Len(log)
    BY LogGrows, PostsFacts DEF DeskTyped, FreshInv, PostsIn
<1>4. ASSUME NEW q \in Own PROVE Covers(query'[q], post) /\ IsRestarted(query'[q], q \in Observes(tab))
    <2> DEFINE c == query[q]
               n == query'[q]
    <2>1. /\ c \in Cache /\ c.reading \in Seq(Nat) /\ c.data \in Seq(Nat) /\ c.kept \in BOOLEAN
          /\ Covers(c, post) /\ IsRestarted(c, q \in Observes(tab)) /\ q \in Query
        BY <1>3 DEF Own, Cache, FreshInv, CachesOf
    <2>2. CASE q # r
        <3>1. n = c  BY <1>1, <1>3, <2>2 DEF ReadRows, Land, FailFetch, Own
        <3> QED  BY <2>1, <3>1
    <2>3. CASE q = r /\ ReadRows(r)
        <3>1. Len(c.reading) < 1  BY <2>3 DEF ReadRows, Reads, Own
        <3>2. c.reading = <<>>  BY <2>1, <3>1
        <3>3. n = [c EXCEPT !.reading = Append(<<>>, Len(log))]
            BY <1>3, <2>1, <2>3, <3>2 DEF ReadRows, Now
        <3>4. /\ n.data = c.data /\ n.stale = c.stale /\ n.whole = c.whole
              /\ n.fetching = c.fetching /\ n.kept = c.kept /\ n.reading = Append(<<>>, Len(log))
            BY <2>1, <3>3 DEF Cache
        <3>5. n.reading[1] = Len(log)  BY <1>3, <3>4
        <3> HIDE DEF c, n
        <3>6. Covers(n, post)  BY <1>3, <2>1, <3>4, <3>5 DEF Covers
        <3>7. IsRestarted(n, q \in Observes(tab))  BY <2>1, <3>4 DEF IsRestarted
        <3> QED  BY <3>6, <3>7 DEF n
    <2>4. CASE q = r /\ Land(r)
        <3>1. c.fetching /\ Len(c.reading) = 1  BY <2>4 DEF Land, Reads, Own
        <3>2. c.reading # <<>>
            <4>1. Len(<<>>) = 0  OBVIOUS
            <4> QED  BY <3>1, <4>1
        <3>3. n = [NotFetched EXCEPT !.data = c.reading, !.whole = c.kept]
            BY <1>3, <2>1, <2>4 DEF Land
        <3>4. n.data = c.reading /\ n.whole = c.kept /\ ~n.fetching
            BY <3>3 DEF NotFetched
        <3> HIDE DEF c, n
        <3> QED  BY <2>1, <3>1, <3>2, <3>4 DEF Covers, IsRestarted, n
    <2>5. CASE q = r /\ FailFetch(r)
        <3>1. n = [c EXCEPT !.fetching = FALSE, !.reading = <<>>, !.failed = TRUE]
            BY <1>3, <2>1, <2>5 DEF FailFetch
        <3>2. n.data = c.data /\ n.stale = c.stale /\ n.whole = c.whole /\ ~n.fetching
            BY <2>1, <3>1 DEF Cache
        <3> HIDE DEF c, n
        <3> QED  BY <2>1, <3>2 DEF Covers, IsRestarted, n
    <2> QED  BY <1>1, <2>2, <2>3, <2>4, <2>5
<1> QED  BY <1>2, <1>4 DEF FreshInv, CachesOf

\* A fetch that is left no longer counts as whole.
LEMMA OpenTabFresh ==
    ASSUME DeskTyped, FreshInv, NEW t \in Shows, OpenTab(t)
    PROVE  FreshInv'
<1>1. PICK aged \in BOOLEAN :
          query' = [q \in Query |->
                       IF q \in Observes(t) /\ WantsFetch(query[q], aged) THEN Started(query[q])
                       ELSE IF Active(q) THEN Left(query[q]) ELSE query[q]]
    BY DEF OpenTab
<1>2. t \in Tab /\ tab \in Tab /\ t # tab /\ tab' = t /\ log' = log
    BY DeskAssumption DEF OpenTab, Tab, DeskTyped
<1>3. /\ DOMAIN post' = DOMAIN post
      /\ \A j \in DOMAIN post : /\ post'[j].at = post[j].at /\ post'[j].over = post[j].over
                                /\ post'[j].status = post[j].status
    BY PostsLeft
<1>4. PostsIn(post', Len(log)')  BY <1>2, <1>3 DEF FreshInv, PostsIn
<1>5. CachesOf(query', tab', post)
    <2> SUFFICES ASSUME NEW q \in Own
                 PROVE  Covers(query'[q], post) /\ IsRestarted(query'[q], q \in Observes(t))
        BY <1>2 DEF CachesOf
    <2>1. /\ q \in Query /\ query[q] \in Cache
          /\ Covers(query[q], post) /\ IsRestarted(query[q], q \in Observes(tab))
        BY DEF Own, DeskTyped, FreshInv, CachesOf
    <2>2. CASE q \in Observes(t) /\ WantsFetch(query[q], aged)
        BY <1>1, <2>1, <2>2, CoversStarted
    <2>3. CASE ~(q \in Observes(t) /\ WantsFetch(query[q], aged)) /\ Active(q)
        <3>1. query'[q] = Left(query[q])  BY <1>1, <2>1, <2>3
        <3> QED  BY <2>1, <3>1, CoversStarted DEF IsRestarted
    <2>4. CASE ~(q \in Observes(t) /\ WantsFetch(query[q], aged)) /\ ~Active(q)
        <3>1. query'[q] = query[q]  BY <1>1, <2>1, <2>4
        <3> QED  BY <2>1, <2>4, <3>1 DEF Active, IsRestarted
    <2> QED  BY <2>2, <2>3, <2>4
<1>6. CachesOf(query', tab', post')
    BY <1>3, <1>5, CachesFewer DEF Told
<1> QED  BY <1>4, <1>6 DEF FreshInv

\* A success the page is told of makes its queries stale, and starts again the fetches
\* that would count.
LEMMA SuccessFresh ==
    ASSUME DeskTyped, FreshInv, NEW i \in DOMAIN post, AnswerSuccess(i)
    PROVE  FreshInv'
<1>1. Over(i) /\ Invalidate(Invalidated) /\ post[i].status = "recorded"
    BY DEF AnswerSuccess
<1>2. UNCHANGED <<log, tab>>  BY <1>1 DEF Over
<1>3. /\ DOMAIN post' = DOMAIN post
      /\ \A j \in DOMAIN post : j # i => post'[j] = post[j]
      /\ post'[i].at = post[i].at /\ post'[i].status = post[i].status
    BY <1>1, PostOver
<1>4. PostsIn(post', Len(log)')  BY <1>1, <1>2, <1>3 DEF FreshInv, PostsIn
<1>5. ASSUME NEW q \in Own PROVE Covers(query'[q], post') /\ IsRestarted(query'[q], q \in Observes(tab))
    <2> DEFINE c == query[q]
               d == [c EXCEPT !.stale = TRUE]
    <2>1. /\ q \in Query /\ q \in Invalidated /\ c \in Cache
          /\ IsRestarted(c, q \in Observes(tab))
        BY DEF Own, Query, Invalidated, DeskTyped, FreshInv, CachesOf
    <2>2. /\ d.stale /\ d.data = c.data /\ d.fetching = c.fetching /\ d.kept = c.kept
          /\ d \in Cache
        BY <2>1 DEF Cache
    <2>3. query'[q] = IF Restarts(q) THEN Started(IF HasData(q) THEN d ELSE c)
                      ELSE IF HasData(q) THEN d ELSE c
        BY <1>1, <2>1 DEF Invalidate
    <2>4. HasData(q) <=> c.data # <<>>  BY DEF HasData
    <2> HIDE DEF c, d
    <2>5. CASE Restarts(q)
        <3>1. HasData(q) /\ q \in Observes(tab)  BY <2>5 DEF Restarts, Active
        <3>2. query'[q] = Started(d)  BY <2>3, <2>5, <3>1
        <3>3. Started(d).stale /\ Started(d).reading = <<>> /\ Started(d).data = d.data
            BY <2>2 DEF Started, Cache
        <3> QED  BY <2>2, <2>4, <3>1, <3>2, <3>3 DEF Covers, IsRestarted
    <2>6. CASE ~Restarts(q) /\ HasData(q)
        <3>1. query'[q] = d /\ q \notin Observes(tab)  BY <2>3, <2>6 DEF Restarts, Active
        <3> QED  BY <2>1, <2>2, <3>1 DEF Covers, IsRestarted
    <2>7. CASE ~Restarts(q) /\ ~HasData(q)
        <3>1. query'[q] = c /\ c.data = <<>>  BY <2>3, <2>4, <2>7
        <3> QED  BY <2>1, <3>1 DEF Covers, IsRestarted
    <2> QED  BY <2>5, <2>6, <2>7
<1> QED  BY <1>2, <1>4, <1>5 DEF FreshInv, CachesOf

\* A post is recorded at the end of the log before the page is told.
LEMMA RecordedFresh ==
    ASSUME DeskTyped, FreshInv, NEW i \in DOMAIN post, RecordPost(i) \/ RefusePost(i)
    PROVE  FreshInv'
<1>1. Len(log) \in Nat /\ \A j \in DOMAIN post : post[j].at \in Nat
    BY LogGrows, PostsFacts DEF DeskTyped
<1>2. PICK status \in PostStatus, at \in Nat :
          /\ Handled(i, status, at) /\ status # "sent" /\ at <= Len(log')
          /\ Len(log') \in Nat /\ Len(log) <= Len(log')
    <2>1. CASE RecordPost(i)
        <3>1. Handled(i, "recorded", Len(log) + 1) /\ \E e : log' = Append(log, e)
            BY <2>1 DEF RecordPost, Record, Now
        <3>2. Len(log') = Len(log) + 1  BY <3>1, LogGrows DEF DeskTyped
        <3> QED  BY <1>1, <3>1, <3>2 DEF PostStatus
    <2>2. CASE RefusePost(i)
        <3>1. Handled(i, "refused", Len(log)) /\ log' = log
            BY <2>2 DEF RefusePost, Now
        <3> QED  BY <1>1, <3>1 DEF PostStatus
    <2> QED  BY <2>1, <2>2
<1>3. /\ DOMAIN post' = DOMAIN post
      /\ \A j \in DOMAIN post : j # i => post'[j] = post[j]
      /\ post'[i].over = post[i].over /\ post'[i].at = at /\ post'[i].status = status
    BY <1>2, PostHandled
<1>4. post[i].status = "sent" /\ UNCHANGED <<tab, query>>  BY <1>2 DEF Handled, page
<1>5. ~post[i].over  BY <1>4 DEF FreshInv, PostsIn
<1>6. PostsIn(post', Len(log'))
    BY <1>1, <1>2, <1>3 DEF FreshInv, PostsIn
<1>7. CachesOf(query, tab, post')
    BY <1>3, <1>5, CachesFewer DEF Told, FreshInv
<1> QED  BY <1>4, <1>6, <1>7 DEF FreshInv

\* A press of "Simpan" has not been told of.
LEMMA PressFresh ==
    ASSUME DeskTyped, FreshInv, NEW op \in {"receiving", "target", "delta"}, NEW body, Save(op, body)
    PROVE  FreshInv'
<1> DEFINE r == [op |-> op, body |-> body, draft |-> draft, watched |-> TRUE,
                 status |-> "sent", at |-> 0, over |-> FALSE]
           n == Len(post) + 1
<1>1. post' = Append(post, r) /\ UNCHANGED <<log, tab, query>>
    BY DEF Save, page
<1>2. /\ DOMAIN post' = 1..n /\ post'[n] = r
      /\ \A i \in 1..Len(post) : post'[i] = post[i]
    BY <1>1, PostAdded DEF DeskTyped
<1>3. Len(log) \in Nat /\ Len(post) \in Nat /\ DOMAIN post = 1..Len(post)
    BY LogGrows, PostsFacts DEF DeskTyped
<1>4. r.status = "sent" /\ ~r.over /\ r.at = 0  OBVIOUS
<1> HIDE DEF r
<1>5. \A i \in 1..n : i # n => i \in 1..Len(post) /\ post'[i] = post[i]  BY <1>2, <1>3
<1>6. PostsIn(post', Len(log))
    BY <1>2, <1>3, <1>4, <1>5 DEF FreshInv, PostsIn
<1>7. CachesOf(query, tab, post')
    <2>1. \A i \in DOMAIN post' : Told(post'[i]) =>
              i \in DOMAIN post /\ Told(post[i]) /\ post'[i].at = post[i].at
        BY <1>2, <1>3, <1>4, <1>5 DEF Told
    <2> QED  BY <2>1, CachesFewer DEF FreshInv
<1> QED  BY <1>1, <1>6, <1>7 DEF FreshInv

\* Every step, by who takes it.
LEMMA NextFresh == DeskTyped /\ FreshInv /\ [Next]_vars => FreshInv'
<1> SUFFICES ASSUME DeskTyped, FreshInv, [Next]_vars
             PROVE  FreshInv'
    OBVIOUS
<1>1. CASE UNCHANGED <<log, tab, query, post>>
    BY <1>1 DEF FreshInv
<1>2. CASE StoreEvent
    <2>1. /\ Len(log) \in Nat /\ Len(log') = Len(log) + 1 /\ UNCHANGED <<tab, query, post>>
        BY <1>2, StoreEventFacts DEF page
    <2>2. \A i \in DOMAIN post : post[i].at \in Nat  BY PostsFacts DEF DeskTyped
    <2> QED  BY <2>1, <2>2 DEF FreshInv, PostsIn
<1>3. CASE Focus
    <2>1. PICK q \in Query : Active(q) /\ query' = [query EXCEPT ![q] = Started(@)]
        BY <1>3 DEF Focus
    <2>2. query[q] \in Cache /\ q \in Observes(tab) /\ query \in [Query -> Cache]
        BY <2>1 DEF DeskTyped, Active
    <2>3. ASSUME NEW o \in Own PROVE Covers(query'[o], post) /\ IsRestarted(query'[o], o \in Observes(tab))
        <3>1. Covers(query[o], post) /\ IsRestarted(query[o], o \in Observes(tab)) /\ o \in Query
            BY DEF FreshInv, CachesOf, Own
        <3>2. CASE o = q  BY <2>1, <2>2, <3>1, <3>2, CoversStarted
        <3>3. CASE o # q  BY <2>1, <2>2, <3>1, <3>3
        <3> QED  BY <3>2, <3>3
    <2> QED  BY <1>3, <2>3 DEF Focus, page, FreshInv, CachesOf
<1>4. CASE Receive
    <2>1. Save("receiving", lines)  BY <1>4 DEF Receive
    <2> QED  BY <2>1, PressFresh
<1>5. ASSUME NEW op \in {"target", "delta"}, NEW qty, Adjust(op, qty) PROVE FreshInv'
    <2>1. \E body : Save(op, body)  BY <1>5 DEF Adjust
    <2> QED  BY <2>1, PressFresh
<1>6. ASSUME NEW i \in DOMAIN post, LosePost(i) PROVE FreshInv'
    <2>1. /\ DOMAIN post' = DOMAIN post
          /\ \A j \in DOMAIN post : LosesOnly(post[j], post'[j])
          /\ \A j \in DOMAIN post : j # i => post'[j] = post[j]
          /\ post'[i].status = "lost" /\ UNCHANGED <<log, tab, query>>
        BY <1>6, PostLost DEF LosePost, page
    <2>2. PostsIn(post', Len(log))  BY <2>1 DEF FreshInv, PostsIn, LosesOnly
    <2>3. CachesOf(query, tab, post')
        <3>1. \A j \in DOMAIN post' : Told(post'[j]) =>
                  j \in DOMAIN post /\ Told(post[j]) /\ post'[j].at = post[j].at
            BY <2>1 DEF Told
        <3> QED  BY <3>1, CachesFewer DEF FreshInv
    <2> QED  BY <2>1, <2>2, <2>3 DEF FreshInv
<1>7. ASSUME NEW i \in DOMAIN post, AnswerError(i) PROVE FreshInv'
    <2>1. Over(i) /\ post[i].status \in {"refused", "lost"} /\ UNCHANGED <<log, tab, query>>
        BY <1>7 DEF AnswerError, Over
    <2>2. /\ DOMAIN post' = DOMAIN post
          /\ \A j \in DOMAIN post : j # i => post'[j] = post[j]
          /\ post'[i].at = post[i].at /\ post'[i].status = post[i].status
        BY <2>1, PostOver
    <2>3. PostsIn(post', Len(log))  BY <2>1, <2>2 DEF FreshInv, PostsIn
    <2>4. CachesOf(query, tab, post')
        <3>1. \A j \in DOMAIN post' : Told(post'[j]) =>
                  j \in DOMAIN post /\ Told(post[j]) /\ post'[j].at = post[j].at
            BY <2>1, <2>2 DEF Told
        <3> QED  BY <3>1, CachesFewer DEF FreshInv
    <2> QED  BY <2>1, <2>3, <2>4 DEF FreshInv
<1>8. CASE UNCHANGED vars
    BY <1>1, <1>8 DEF vars, page
<1>9. CASE Next
    <2>1. CASE OwnerStep
        <3>1. LineStep => FreshInv'
            BY <1>1, LineStepFacts
        <3>2. CloseDialog \/ (\E p \in Product : OpenDialog(p)) => FreshInv'
            BY <1>1 DEF CloseDialog, OpenDialog
        <3> QED  BY <2>1, <3>1, <3>2, <1>3, <1>4, <1>5, OpenTabFresh
                 DEF OwnerStep, ReceivingStep, AdjustmentStep, LineStep
    <2>2. CASE StoreStep  BY <2>2, <1>2, RecordedFresh DEF StoreStep, StoreEvent
    <2> QED  BY <1>9, <2>1, <2>2, <1>6, <1>7, FetchFresh, SuccessFresh DEF Next, FetchStep
<1> QED  BY <1>8, <1>9

\* Nothing is fetched or told of at first.
LEMMA InitFresh == Init => FreshInv
BY DEF Init, FreshInv, PostsIn, CachesOf, Covers, IsRestarted, NotFetched, Own

\* Stock and movements shown as fresh include every receiving and adjustment the page
\* was told of, whenever fetches begin, read, land, fail and tabs are left.
THEOREM FreshCorrect == Spec => []ReadsOwnWrites
<1>1. Spec => [](DeskTyped /\ DraftInv)
    BY InitTyped, InitDraft, NextDraftInv, PTL DEF Spec
<1>2. Spec => []FreshInv
    BY <1>1, InitFresh, NextFresh, PTL DEF Spec
<1>3. FreshInv => ReadsOwnWrites
    BY DEF FreshInv, CachesOf, Covers, Own, Told, ReadsOwnWrites, Shown, HasData
<1> QED  BY <1>2, <1>3, PTL

-----------------------------------------------------------------------------
(* What is in the log, and in the bodies                                   *)

Amounts == [Product -> Nat]
Quantities == [Product -> Int]

\* The lines of a sale make its total; a sale without products has no lines.
AddsUp(e) == e.total = Total(e.revenue) \/ \A p \in Product : e.revenue[p] = 0

\* Only a sale brings revenue, and for products that it takes from the stock.
TakesWhatItSells(e) ==
    \A p \in Product : /\ e.kind = "sale" => e.delta[p] <= 0
                       /\ e.revenue[p] > 0 => e.kind = "sale" /\ e.delta[p] < 0

EventRecord ==
    [kind : {"none", "sale", "archive", "edit", "receiving", "target", "delta"}, delta : Quantities,
     revenue : Amounts, total : Nat, archived : SUBSET Product, byWeight : SUBSET Product]

Event == {e \in EventRecord : AddsUp(e) /\ TakesWhatItSells(e)}

\* Quantities of some products.
Body == UNION {[S -> Int] : S \in SUBSET Product}

\* What was in stock, archived and sold by weight at position n of a log.
QtyIn(l, n, p) == Total([i \in 1..n |-> l[i].delta[p]])
ArchivedIn(l, n) == UNION {l[i].archived : i \in 1..n}
ByWeightIn(l, n) == IF n = 0 THEN SoldByWeight ELSE l[n].byWeight
EverIn(l, n) == UNION {ByWeightIn(l, m) : m \in 0..n}

LogInv == log \in Seq(Event)

\* These are the model's.
LEMMA SameTables ==
    \A n, p : /\ QtyAt(n, p) = QtyIn(log, n, p) /\ Archived(n) = ArchivedIn(log, n)
              /\ ByWeight(n) = ByWeightIn(log, n) /\ EverByWeight(n) = EverIn(log, n)
BY DEF QtyAt, QtyIn, Archived, ArchivedIn, ByWeight, ByWeightIn, EverByWeight, EverIn

\* Numbers up to n are finitely many.
LEMMA Positions == \A n \in Nat : IsFiniteSet(1..n)
BY FS_Interval

\* What is in stock is a number, and what is archived or sold by weight are products.
LEMMA TablesTyped ==
    ASSUME NEW l \in Seq(Event), NEW n \in 0..Len(l)
    PROVE  /\ \A p \in Product : QtyIn(l, n, p) \in Int
           /\ ArchivedIn(l, n) \subseteq Product
           /\ ByWeightIn(l, n) \subseteq Product /\ EverIn(l, n) \subseteq Product
<1>1. n \in Nat /\ \A i \in 1..n : l[i] \in Event
    <2>1. Len(l) \in Nat /\ \A i \in 1..Len(l) : l[i] \in Event  OBVIOUS
    <2> QED  BY <2>1
<1>2. \A i \in 1..n : /\ l[i].delta \in [Product -> Int] /\ l[i].archived \in SUBSET Product
                      /\ l[i].byWeight \in SUBSET Product
    BY <1>1 DEF Event, EventRecord, Quantities
<1>3. ASSUME NEW p \in Product PROVE QtyIn(l, n, p) \in Int
    <2> DEFINE f == [i \in 1..n |-> l[i].delta[p]]
    <2>1. f \in [1..n -> Int]  BY <1>2
    <2> HIDE DEF f
    <2>2. Total(f) \in Int  BY <1>1, <2>1, Positions, TotalType
    <2> QED  BY <2>2 DEF QtyIn, f
<1>4. \A m \in 0..n : ByWeightIn(l, m) \subseteq Product
    <2>1. \A m \in 0..n : m = 0 \/ m \in 1..n  BY <1>1
    <2> QED  BY <1>2, <2>1, DeskAssumption DEF ByWeightIn
<1>5. n \in 0..n  BY <1>1
<1> QED  BY <1>2, <1>3, <1>4, <1>5 DEF ArchivedIn, EverIn

\* What was is not changed by what comes after.
LEMMA TablesStable ==
    ASSUME NEW l \in Seq(Event), NEW e, NEW n \in 0..Len(l)
    PROVE  /\ \A p : QtyIn(Append(l, e), n, p) = QtyIn(l, n, p)
           /\ ArchivedIn(Append(l, e), n) = ArchivedIn(l, n)
           /\ ByWeightIn(Append(l, e), n) = ByWeightIn(l, n)
           /\ EverIn(Append(l, e), n) = EverIn(l, n)
<1>1. \A i \in 1..n : Append(l, e)[i] = l[i]
    <2>1. Len(l) \in Nat /\ \A i \in 1..Len(l) : Append(l, e)[i] = l[i]  OBVIOUS
    <2> QED  BY <2>1
<1>2. \A m \in 0..n : ByWeightIn(Append(l, e), m) = ByWeightIn(l, m)
    <2>1. \A m \in 0..n : m = 0 \/ m \in 1..n  OBVIOUS
    <2> QED  BY <1>1, <2>1 DEF ByWeightIn
<1>3. n \in 0..n  OBVIOUS
<1> QED  BY <1>1, <1>2, <1>3 DEF QtyIn, ArchivedIn, EverIn

\* What was ever sold by weight remains that.
LEMMA EverGrows ==
    ASSUME NEW l \in Seq(Event), NEW e, NEW n \in 0..Len(l)
    PROVE  /\ ByWeightIn(l, n) \subseteq EverIn(l, n) /\ EverIn(l, n) \subseteq EverIn(l, Len(l))
           /\ EverIn(l, Len(l)) \subseteq EverIn(Append(l, e), Len(Append(l, e)))
<1>1. Len(l) \in Nat /\ n \in Nat /\ Len(Append(l, e)) = Len(l) + 1  OBVIOUS
<1>2. \A k, m \in Nat : k <= m => EverIn(Append(l, e), k) \subseteq EverIn(Append(l, e), m)
    <2>1. \A k, m \in Nat : k <= m => 0..k \subseteq 0..m  OBVIOUS
    <2> QED  BY <2>1 DEF EverIn
<1>3. \A k, m \in Nat : k <= m => EverIn(l, k) \subseteq EverIn(l, m)
    <2>1. \A k, m \in Nat : k <= m => 0..k \subseteq 0..m  OBVIOUS
    <2> QED  BY <2>1 DEF EverIn
<1>4. EverIn(Append(l, e), Len(l)) = EverIn(l, Len(l))
    <2>1. Len(l) \in 0..Len(l)  BY <1>1
    <2> QED  BY <2>1, TablesStable
<1>5. ByWeightIn(l, n) \subseteq EverIn(l, n)
    <2>1. n \in 0..n  BY <1>1
    <2> QED  BY <2>1 DEF EverIn
<1> QED  BY <1>1, <1>2, <1>3, <1>4, <1>5

\* Nothing happened.
LEMMA NothingTyped ==
    ASSUME LogInv
    PROVE  /\ [p \in Product |-> 0] \in Quantities /\ [p \in Product |-> 0] \in Amounts
           /\ Nothing.delta = [p \in Product |-> 0] /\ Nothing.revenue = [p \in Product |-> 0]
           /\ Nothing.total = 0 /\ Nothing.archived = {} /\ Nothing.byWeight \in SUBSET Product
           /\ Nothing \in EventRecord
<1>1. ByWeight(Now) \in SUBSET Product
    <2>1. Len(log) \in 0..Len(log)  BY DEF LogInv
    <2> QED  BY <2>1, TablesTyped, SameTables DEF LogInv, Now
<1> QED  BY <1>1 DEF Nothing, EventRecord, Quantities, Amounts

\* The events of the store.
LEMMA StoreEventTyped ==
    ASSUME LogInv, StoreEvent
    PROVE  /\ \E e \in Event : log' = Append(log, e)
           /\ UNCHANGED <<page, query, post>>
<1>1. ASSUME NEW S \in Basket, Sell(S)
      PROVE  \E e \in Event : log' = Append(log, e)
    <2> DEFINE charged == [p \in Product |-> IF p \in S THEN Price[p] ELSE 0]
               moved == [p \in Product |-> IF p \in S THEN -1000 ELSE 0]
               e == [Nothing EXCEPT !.kind = "sale", !.revenue = charged, !.total = Total(charged),
                                    !.delta = moved]
    <2>1. log' = Append(log, e)  BY <1>1 DEF Sell, Record
    <2>2. /\ charged \in Amounts /\ moved \in Quantities
          /\ \A p \in Product : moved[p] <= 0 /\ (charged[p] > 0 => moved[p] < 0)
        BY DeskAssumption DEF Amounts, Quantities
    <2> HIDE DEF charged, moved
    <2>3. Total(charged) \in Nat  BY <2>2, DeskAssumption, TotalOfNaturals DEF Amounts
    <2>4. /\ e \in EventRecord /\ e.total = Total(e.revenue)
          /\ e.kind = "sale" /\ e.delta = moved /\ e.revenue = charged
        BY <2>2, <2>3, NothingTyped DEF EventRecord
    <2> HIDE DEF e
    <2> QED  BY <2>1, <2>2, <2>4 DEF Event, AddsUp, TakesWhatItSells
<1>2. ASSUME NEW amount \in QuickAmount, SellQuick(amount)
      PROVE  \E e \in Event : log' = Append(log, e)
    <2> DEFINE e == [Nothing EXCEPT !.kind = "sale", !.total = amount]
    <2>1. log' = Append(log, e)  BY <1>2 DEF SellQuick, Record
    <2>2. amount \in Nat  BY DeskAssumption
    <2>3. e \in EventRecord /\ e.revenue = Nothing.revenue /\ e.delta = Nothing.delta
        BY <2>2, NothingTyped DEF EventRecord
    <2> HIDE DEF e
    <2>4. e \in Event  BY <2>3, NothingTyped DEF Event, AddsUp, TakesWhatItSells
    <2> QED  BY <2>1, <2>4
<1>3. ASSUME NEW p \in Product, Archive(p)
      PROVE  \E e \in Event : log' = Append(log, e)
    <2> DEFINE e == [Nothing EXCEPT !.kind = "archive", !.archived = {p}]
    <2>1. log' = Append(log, e)  BY <1>3 DEF Archive, Record
    <2>2. e \in EventRecord /\ e.revenue = Nothing.revenue /\ e.kind = "archive"
        BY NothingTyped DEF EventRecord
    <2> HIDE DEF e
    <2>3. e \in Event  BY <2>2, NothingTyped DEF Event, AddsUp, TakesWhatItSells
    <2> QED  BY <2>1, <2>3
<1>4. ASSUME NEW p \in Product, Reweigh(p)
      PROVE  \E e \in Event : log' = Append(log, e)
    <2> DEFINE S == (Nothing.byWeight \cup {p}) \ (Nothing.byWeight \cap {p})
               e == [Nothing EXCEPT !.kind = "edit", !.byWeight = S]
    <2>1. log' = Append(log, e)  BY <1>4 DEF Reweigh, Record
    <2>2. S \in SUBSET Product  BY NothingTyped
    <2> HIDE DEF S
    <2>3. e \in EventRecord /\ e.revenue = Nothing.revenue /\ e.kind = "edit"
        BY <2>2, NothingTyped DEF EventRecord
    <2> HIDE DEF e
    <2>4. e \in Event  BY <2>3, NothingTyped DEF Event, AddsUp, TakesWhatItSells
    <2> QED  BY <2>1, <2>4
<1>5. UNCHANGED <<page, query, post>>
    BY DEF StoreEvent, Sell, SellQuick, Archive, Reweigh
<1>6. \E e \in Event : log' = Append(log, e)
    BY <1>1, <1>2, <1>3, <1>4 DEF StoreEvent
<1> QED  BY <1>5, <1>6

-----------------------------------------------------------------------------
(* What is in the cache, on the page and in a post                         *)

\* Positions in a log of n events, one for each of the k reads of a query.
CacheIn(c, k, n) ==
    /\ Len(c.data) \in {0, k} /\ Len(c.reading) <= k
    /\ \A i \in 1..Len(c.data) : c.data[i] <= n
    /\ \A i \in 1..Len(c.reading) : c.reading[i] <= n

CacheInv == \A q \in Query : CacheIn(query[q], Reads(q), Len(log))

\* A draft and a dialog exist on their tab only, and what they hold as sold by weight was
\* so once.
Lines == UNION {[S -> Nat] : S \in SUBSET Product}

PageOf(ls, t, d) ==
    /\ ls \in Lines /\ (ls # NoLines => t = "penerimaan")
    /\ d \in [product : Product \cup {NoProduct}, qty : Int]
    /\ d # Closed => t = "stok" /\ d.product \in Product

PageInv == PageOf(lines, tab, dialog) /\ weighed \subseteq EverIn(log, Len(log))

\* What the forms let through, when what is in S was once sold by weight, and why it may
\* be refused all the same.
FitsBody(S, op, body) ==
    \A p \in DOMAIN body :
        /\ p \in S \/ IsWhole(body[p])
        /\ IF op = "receiving" THEN body[p] > 0 ELSE IsCents(body[p])

Excused(op, body, l, n) ==
    \E p \in DOMAIN body :
        \/ p \in ArchivedIn(l, n)
        \/ op = "target" /\ body[p] = QtyIn(l, n, p)
        \/ ~FitsColumns(op, body[p], QtyIn(l, n, p))
        \/ p \in EverIn(l, n) \ ByWeightIn(l, n) /\ ~IsWhole(body[p])
        \/ p \in EverIn(l, n) /\ op = "receiving" /\ ~IsCents(body[p])

PostsFit(s, l) ==
    \A i \in DOMAIN s :
        /\ s[i].body \in Body /\ FitsBody(EverIn(l, Len(l)), s[i].op, s[i].body)
        /\ s[i].status = "refused" => Excused(s[i].op, s[i].body, l, s[i].at)

PostsInv == PostsFit(post, log)

DeskInv == LogInv /\ CacheInv /\ PageInv /\ PostsInv

\* Positions in a log are positions in a longer one.
LEMMA CacheInLonger ==
    ASSUME NEW c \in Cache, NEW k \in Nat, NEW n \in Nat, NEW m \in Nat, n <= m, CacheIn(c, k, n)
    PROVE  CacheIn(c, k, m)
<1>1. /\ Len(c.data) \in Nat /\ \A i \in 1..Len(c.data) : c.data[i] \in Nat
      /\ Len(c.reading) \in Nat /\ \A i \in 1..Len(c.reading) : c.reading[i] \in Nat
    BY DEF Cache
<1> QED  BY <1>1 DEF CacheIn

\* So they are after a fetch is begun, left or failed, and when data is stale.
LEMMA CacheInKept ==
    ASSUME NEW c \in Cache, NEW k \in Nat, NEW n \in Nat, CacheIn(c, k, n)
    PROVE  /\ CacheIn(Started(c), k, n) /\ CacheIn(Left(c), k, n)
           /\ CacheIn([c EXCEPT !.stale = TRUE], k, n)
           /\ CacheIn([c EXCEPT !.fetching = FALSE, !.reading = <<>>, !.failed = TRUE], k, n)
<1>1. Len(<<>>) = 0  OBVIOUS
<1>2. /\ Started(c).data = c.data /\ Started(c).reading = <<>>
      /\ Left(c).data = c.data /\ Left(c).reading = c.reading
    BY DEF Cache, Started, Left
<1>3. /\ [c EXCEPT !.stale = TRUE].data = c.data /\ [c EXCEPT !.stale = TRUE].reading = c.reading
      /\ [c EXCEPT !.fetching = FALSE, !.reading = <<>>, !.failed = TRUE].data = c.data
      /\ [c EXCEPT !.fetching = FALSE, !.reading = <<>>, !.failed = TRUE].reading = <<>>
    BY DEF Cache
<1> QED  BY <1>1, <1>2, <1>3 DEF CacheIn

\* A query is read once or twice.
LEMMA ReadsTyped == \A q : Reads(q) \in {1, 2}
BY DEF Reads

\* Fetches read at the end of the log.
LEMMA FetchIn ==
    ASSUME DeskTyped, CacheInv, FetchStep
    PROVE  CacheInv'
<1>1. PICK q \in Query : ReadRows(q) \/ Land(q) \/ FailFetch(q)  BY DEF FetchStep
<1>2. log' = log /\ query \in [Query -> Cache] /\ Len(log) \in Nat
    BY FetchTyped, LogGrows DEF DeskTyped
<1> DEFINE c == query[q]
           k == Reads(q)
<1>3. c \in Cache /\ k \in Nat /\ CacheIn(c, k, Len(log))
    BY <1>2, ReadsTyped DEF CacheInv
<1>4. c.reading \in Seq(Nat) /\ c.data \in Seq(Nat)  BY <1>3 DEF Cache
<1>5. CacheIn(query'[q], k, Len(log))
    <2>1. CASE ReadRows(q)
        <3> DEFINE r == Append(c.reading, Len(log))
        <3>1. query'[q] = [c EXCEPT !.reading = r] /\ Len(c.reading) < k
            BY <1>2, <1>4, <2>1 DEF ReadRows, Now
        <3>2. Len(r) = Len(c.reading) + 1 /\ \A i \in 1..Len(r) : r[i] = IF i <= Len(c.reading) THEN c.reading[i] ELSE Len(log)
            BY <1>2, <1>4
        <3> HIDE DEF r
        <3>3. query'[q].reading = r /\ query'[q].data = c.data  BY <1>3, <3>1 DEF Cache
        <3> QED  BY <1>2, <1>3, <1>4, <3>1, <3>2, <3>3 DEF CacheIn
    <2>2. CASE Land(q)
        <3>1. query'[q] = [NotFetched EXCEPT !.data = c.reading, !.whole = c.kept] /\ Len(c.reading) = k
            BY <1>2, <2>2 DEF Land
        <3>2. query'[q].data = c.reading /\ query'[q].reading = <<>> /\ Len(<<>>) = 0
            BY <3>1 DEF NotFetched
        <3> QED  BY <1>3, <1>4, <3>1, <3>2 DEF CacheIn
    <2>3. CASE FailFetch(q)
        <3>1. query'[q] = [c EXCEPT !.fetching = FALSE, !.reading = <<>>, !.failed = TRUE]
            BY <1>2, <2>3 DEF FailFetch
        <3> QED  BY <1>2, <1>3, <3>1, CacheInKept
    <2> QED  BY <1>1, <2>1, <2>2, <2>3
<1>6. \A o \in Query : o # q => query'[o] = query[o]
    BY <1>1, <1>2 DEF ReadRows, Land, FailFetch
<1> QED  BY <1>2, <1>5, <1>6 DEF CacheInv

\* A step that starts, leaves or makes stale each query, or does nothing to it.
LEMMA CacheMarked ==
    ASSUME DeskTyped, CacheInv, log' = log,
           \A q \in Query : query'[q] \in {query[q], Started(query[q]), Left(query[q]),
                                           [query[q] EXCEPT !.stale = TRUE],
                                           Started([query[q] EXCEPT !.stale = TRUE])}
    PROVE  CacheInv'
<1>1. Len(log) \in Nat  BY LogGrows DEF DeskTyped
<1>2. ASSUME NEW q \in Query PROVE CacheIn(query'[q], Reads(q), Len(log))
    <2> DEFINE c == query[q]
               d == [c EXCEPT !.stale = TRUE]
    <2>1. c \in Cache /\ Reads(q) \in Nat /\ CacheIn(c, Reads(q), Len(log))
        BY ReadsTyped DEF DeskTyped, CacheInv
    <2>2. d \in Cache /\ CacheIn(d, Reads(q), Len(log))
        BY <1>1, <2>1, CacheInKept, CacheTyped
    <2>3. query'[q] \in {c, Started(c), Left(c), d, Started(d)}  OBVIOUS
    <2> HIDE DEF c, d
    <2>4. /\ CacheIn(Started(c), Reads(q), Len(log)) /\ CacheIn(Left(c), Reads(q), Len(log))
          /\ CacheIn(Started(d), Reads(q), Len(log))
        BY <1>1, <2>1, <2>2, CacheInKept
    <2> QED  BY <2>1, <2>2, <2>3, <2>4
<1> QED  BY <1>2 DEF CacheInv

-----------------------------------------------------------------------------
(* The log grows by events, and posts stay as they fit                     *)

\* What a post records is an event: a difference to what is in stock, or what was typed.
LEMMA RecordTyped ==
    ASSUME DeskTyped, LogInv, PostsInv, NEW i \in DOMAIN post, RecordPost(i)
    PROVE  \E e \in Event : log' = Append(log, e)
<1> DEFINE r == post[i]
           moved == MovedBy(r.op, r.body)
           e == [Nothing EXCEPT !.kind = r.op, !.delta = moved]
<1>1. log' = Append(log, e) /\ IsTaken(r.op, r.body)  BY DEF RecordPost, Record
<1>2. r.body \in Body  BY DEF PostsInv, PostsFit
<1>3. Len(log) \in Nat /\ \A p \in Product : QtyAt(Len(log), p) \in Int
    <2>1. Len(log) \in Nat  BY DEF LogInv
    <2>2. Len(log) \in 0..Len(log)  BY <2>1
    <2> QED  BY <2>1, <2>2, TablesTyped, SameTables DEF LogInv
<1>4. \A p \in DOMAIN r.body : p \in Product /\ r.body[p] \in Int  BY <1>2 DEF Body
<1>5. moved \in Quantities
    BY <1>3, <1>4 DEF MovedBy, Moved, Quantities, Now
<1> HIDE DEF moved
<1>6. r.op \in {"receiving", "target", "delta"}  BY PostsFacts DEF DeskTyped
<1>7. e \in EventRecord /\ e.revenue = Nothing.revenue /\ e.kind # "sale"
    BY <1>5, <1>6, NothingTyped DEF EventRecord
<1> HIDE DEF e
<1>8. e \in Event  BY <1>7, NothingTyped DEF Event, AddsUp, TakesWhatItSells
<1> QED  BY <1>1, <1>8

\* Posts that go on as they were, but for what became of them.
LEMMA PostsKept ==
    ASSUME NEW s, NEW t, NEW l, PostsFit(s, l), DOMAIN t = DOMAIN s,
           \A j \in DOMAIN s : /\ t[j].op = s[j].op /\ t[j].body = s[j].body
                               /\ t[j].status = "refused" => s[j].status = "refused" /\ t[j].at = s[j].at
    PROVE  PostsFit(t, l)
BY DEF PostsFit

\* What excused a refusal stays in the log.
LEMMA PostsLonger ==
    ASSUME NEW l \in Seq(Event), NEW e, NEW s, PostsFit(s, l),
           \A i \in DOMAIN s : s[i].at \in 0..Len(l)
    PROVE  PostsFit(s, Append(l, e))
<1> DEFINE S == EverIn(l, Len(l))
           T == EverIn(Append(l, e), Len(Append(l, e)))
<1>1. S \subseteq T
    <2>1. Len(l) \in 0..Len(l)  OBVIOUS
    <2> QED  BY <2>1, EverGrows
<1> SUFFICES ASSUME NEW i \in DOMAIN s
             PROVE  /\ s[i].body \in Body /\ FitsBody(T, s[i].op, s[i].body)
                    /\ s[i].status = "refused" => Excused(s[i].op, s[i].body, Append(l, e), s[i].at)
    BY DEF PostsFit
<1> HIDE DEF T
<1>2. s[i].body \in Body /\ FitsBody(S, s[i].op, s[i].body)  BY DEF PostsFit
<1> HIDE DEF S
<1>3. FitsBody(T, s[i].op, s[i].body)  BY <1>1, <1>2 DEF FitsBody
<1>4. ASSUME s[i].status = "refused"
      PROVE  Excused(s[i].op, s[i].body, Append(l, e), s[i].at)
    <2>1. Excused(s[i].op, s[i].body, l, s[i].at)  BY <1>4 DEF PostsFit
    <2>2. /\ \A p : QtyIn(Append(l, e), s[i].at, p) = QtyIn(l, s[i].at, p)
          /\ ArchivedIn(Append(l, e), s[i].at) = ArchivedIn(l, s[i].at)
          /\ ByWeightIn(Append(l, e), s[i].at) = ByWeightIn(l, s[i].at)
          /\ EverIn(Append(l, e), s[i].at) = EverIn(l, s[i].at)
        BY TablesStable
    <2> QED  BY <2>1, <2>2 DEF Excused
<1> QED  BY <1>2, <1>3, <1>4

\* A whole number of units is a number of hundredths, and less than one hundredth is not.
LEMMA Thousandths ==
    ASSUME NEW n \in Int
    PROVE  /\ IsWhole(n) => IsCents(n)
           /\ n > 0 /\ n < 10 => ~IsCents(n)
BY DEF IsWhole, IsCents

\* A refusal of what fits the form has its excuse.
LEMMA RefusedExcused ==
    ASSUME NEW op \in {"receiving", "target", "delta"}, NEW body \in Body,
           FitsBody(EverIn(log, Len(log)), op, body), ~IsTaken(op, body)
    PROVE  Excused(op, body, log, Len(log))
<1> DEFINE Ever == EverIn(log, Len(log))
<1>1. \A p \in DOMAIN body : p \in Product /\ body[p] \in Int  BY DEF Body
<1>2. CASE DOMAIN body \cap Archived(Now) # {}
    BY <1>2, SameTables DEF Excused, Now
<1>3. ASSUME NEW p \in DOMAIN body,
             ~(/\ IsCents(body[p]) /\ (p \in ByWeight(Now) \/ IsWhole(body[p]))
               /\ FitsColumns(op, body[p], QtyAt(Now, p))
               /\ op = "receiving" => body[p] >= 10
               /\ op = "target" => body[p] # QtyAt(Now, p))
      PROVE  Excused(op, body, log, Len(log))
    <2>1. /\ IsWhole(body[p]) => IsCents(body[p])
          /\ body[p] > 0 /\ body[p] < 10 => ~IsCents(body[p])
        BY <1>1, Thousandths
    <2>2. /\ p \in Ever \/ IsWhole(body[p])
          /\ IF op = "receiving" THEN body[p] > 0 ELSE IsCents(body[p])
        BY DEF FitsBody
    <2>3. CASE op = "target" /\ body[p] = QtyAt(Now, p)
        BY <2>3, SameTables DEF Excused, Now
    <2>4. CASE ~FitsColumns(op, body[p], QtyAt(Now, p))
        BY <2>4, SameTables DEF Excused, Now
    <2>5. CASE p \notin ByWeight(Now) /\ ~IsWhole(body[p])
        BY <2>2, <2>5, SameTables DEF Excused, Now
    <2>6. CASE op = "receiving" /\ ~IsCents(body[p])
        BY <2>1, <2>2, <2>6 DEF Excused
    <2>7. CASE op = "receiving" /\ ~(body[p] >= 10)
        <3>1. ~IsCents(body[p])  BY <1>1, <2>1, <2>2, <2>7
        <3> QED  BY <2>6, <2>7, <3>1
    <2> QED  BY <1>3, <2>2, <2>3, <2>4, <2>5, <2>6, <2>7
<1> QED  BY <1>2, <1>3 DEF IsTaken

-----------------------------------------------------------------------------
(* The desk, step by step                                                  *)

\* The log grows by an event or stays.
LogStep == log' = log \/ \E e \in Event : log' = Append(log, e)

\* The posts of the page are of the log so far.
LEMMA LogStepPosts ==
    ASSUME DeskTyped, FreshInv, LogInv, PostsInv, LogStep
    PROVE  LogInv' /\ PostsFit(post, log') /\ Len(log) \in Nat /\ Len(log') \in Nat /\ Len(log) <= Len(log')
<1>1. log \in Seq(Event) /\ Len(log) \in Nat  BY DEF LogInv
<1>2. \A i \in DOMAIN post : post[i].at \in 0..Len(log)
    BY <1>1, PostsFacts DEF DeskTyped, FreshInv, PostsIn
<1>3. CASE log' = log  BY <1>1, <1>3 DEF LogInv, PostsInv
<1>4. ASSUME NEW e \in Event, log' = Append(log, e)
      PROVE  LogInv' /\ PostsFit(post, log') /\ Len(log') \in Nat /\ Len(log) <= Len(log')
    <2>1. Append(log, e) \in Seq(Event) /\ Len(Append(log, e)) = Len(log) + 1  BY <1>1
    <2>2. PostsFit(post, Append(log, e))
        BY <1>1, <1>2, PostsLonger DEF PostsInv
    <2> QED  BY <1>1, <1>4, <2>1, <2>2 DEF LogInv
<1> QED  BY <1>1, <1>3, <1>4 DEF LogStep

\* What the page holds stays what it was.
LEMMA LogStepPage ==
    ASSUME LogInv, PageInv, LogStep, UNCHANGED page
    PROVE  PageInv'
<1>1. log \in Seq(Event) /\ Len(log) \in 0..Len(log)  BY DEF LogInv
<1>2. EverIn(log, Len(log)) \subseteq EverIn(log', Len(log'))
    BY <1>1, EverGrows DEF LogStep
<1> QED  BY <1>2 DEF PageInv, page

\* A product is held as it was once.
LEMMA PickedOnce ==
    ASSUME LogInv, NEW p, NEW n \in 0..Len(log), Pick(p, n), weighed \subseteq EverIn(log, Len(log))
    PROVE  weighed' \subseteq EverIn(log, Len(log))
<1>1. ByWeightIn(log, n) \subseteq EverIn(log, n) /\ EverIn(log, n) \subseteq EverIn(log, Len(log))
    BY EverGrows DEF LogInv
<1>2. ByWeight(n) \subseteq EverIn(log, Len(log))  BY <1>1, SameTables
<1> QED  BY <1>2 DEF Pick

\* Positions in the cache stay positions in the log.
LEMMA LogStepCache ==
    ASSUME DeskTyped, CacheInv, Len(log) \in Nat, Len(log') \in Nat, Len(log) <= Len(log'), query' = query
    PROVE  CacheInv'
<1>1. \A q \in Query : query[q] \in Cache /\ Reads(q) \in Nat  BY ReadsTyped DEF DeskTyped
<1>2. \A q \in Query : CacheIn(query[q], Reads(q), Len(log'))
    BY <1>1, CacheInLonger DEF CacheInv
<1> QED  BY <1>2 DEF CacheInv

\* Changes of the lines are made on the tab that has them.
LEMMA LineStepDesk ==
    ASSUME DeskTyped, LogInv, PageInv, LineStep
    PROVE  PageInv' /\ UNCHANGED <<log, query, post>>
<1>1. /\ lines \in Lines /\ dialog \in [product : Product \cup {NoProduct}, qty : Int]
      /\ dialog # Closed => tab = "stok" /\ dialog.product \in Product
    BY DEF PageInv, PageOf
<1>2. \A p \in DOMAIN lines : p \in Product /\ lines[p] \in Nat  BY <1>1 DEF Lines
<1>3. ASSUME NEW p \in Product, AddLine(p)
      PROVE  /\ lines' \in Lines /\ tab = "penerimaan" /\ UNCHANGED <<tab, dialog, log, query, post>>
             /\ weighed' \subseteq EverIn(log, Len(log))
    <2>1. /\ lines' = [r \in DOMAIN lines \cup {p} |-> IF r = p THEN 1000 ELSE lines[r]]
          /\ tab = "penerimaan" /\ UNCHANGED <<tab, dialog, log, query, post>>
        BY <1>3 DEF AddLine
    <2>2. (DOMAIN lines \cup {p}) \in SUBSET Product  BY <1>2
    <2>3. lines' \in [DOMAIN lines \cup {p} -> Nat]  BY <1>2, <2>1
    <2>4. weighed' \subseteq EverIn(log, Len(log))
        BY <1>3, PickedOnce DEF AddLine, Now, PageInv
    <2>5. lines' \in Lines  BY <2>2, <2>3 DEF Lines
    <2> QED  BY <2>1, <2>4, <2>5
<1>4. ASSUME NEW p \in Product, NEW qty \in Typed, SetQty(p, qty)
      PROVE  lines' \in Lines /\ tab = "penerimaan" /\ UNCHANGED <<tab, dialog, weighed, log, query, post>>
    <2>1. /\ lines' = [lines EXCEPT ![p] = qty]
          /\ tab = "penerimaan" /\ UNCHANGED <<tab, dialog, weighed, log, query, post>>
        BY <1>4 DEF SetQty
    <2>2. qty \in Nat  BY DeskAssumption
    <2> QED  BY <1>1, <2>1, <2>2 DEF Lines
<1>5. ASSUME NEW kept, kept \subseteq DOMAIN lines, Drop(kept)
      PROVE  lines' \in Lines /\ tab = "penerimaan" /\ UNCHANGED <<tab, dialog, weighed, log, query, post>>
    <2>1. /\ lines' = [p \in kept |-> lines[p]]
          /\ tab = "penerimaan" /\ UNCHANGED <<tab, dialog, weighed, log, query, post>>
        BY <1>5 DEF Drop
    <2>2. kept \in SUBSET Product /\ lines' \in [kept -> Nat]  BY <1>2, <1>5, <2>1
    <2> QED  BY <2>1, <2>2 DEF Lines
<1>6. /\ lines' \in Lines /\ tab = "penerimaan" /\ UNCHANGED <<tab, dialog, log, query, post>>
      /\ weighed' \subseteq EverIn(log, Len(log))
    BY <1>3, <1>4, <1>5 DEF LineStep, RemoveLine, ClearLines, PageInv
<1> QED  BY <1>1, <1>6 DEF PageInv, PageOf

\* The dialog is opened with what the list shows, and is closed.
LEMMA DialogStepDesk ==
    ASSUME DeskTyped, LogInv, CacheInv, PageInv, CloseDialog \/ \E p \in Product : OpenDialog(p)
    PROVE  PageInv' /\ UNCHANGED <<log, query, post>>
<1>1. /\ lines \in Lines /\ (lines # NoLines => tab = "penerimaan")
      /\ weighed \subseteq EverIn(log, Len(log))
    BY DEF PageInv, PageOf
<1>2. CASE CloseDialog
    <2>1. dialog' = Closed /\ UNCHANGED <<log, tab, lines, weighed, query, post>>
        BY <1>2 DEF CloseDialog
    <2>2. Closed \in [product : Product \cup {NoProduct}, qty : Int]  BY DEF Closed
    <2> QED  BY <1>1, <2>1, <2>2 DEF PageInv, PageOf
<1>3. ASSUME NEW p \in Product, OpenDialog(p)
      PROVE  PageInv' /\ UNCHANGED <<log, query, post>>
    <2> DEFINE n == query["stock"].data[1]
    <2>1. /\ dialog' = [product |-> p, qty |-> QtyAt(n, p)]
          /\ UNCHANGED <<log, tab, lines, query, post>> /\ Shown("stock") /\ Pick(p, n)
        BY <1>3 DEF OpenDialog
    <2>2. tab = "stok" /\ query["stock"].data # <<>>
        BY <2>1 DEF Shown, Active, Observes, HasData, DeskTyped, Tab
    <2>3. n \in 0..Len(log)
        <3>1. query["stock"] \in Cache /\ CacheIn(query["stock"], 1, Len(log))
            BY DEF DeskTyped, CacheInv, Query, Reads
        <3>2. query["stock"].data \in Seq(Nat)  BY <3>1 DEF Cache
        <3>3. Len(query["stock"].data) = 1  BY <2>2, <3>1, <3>2 DEF CacheIn
        <3>4. Len(log) \in Nat  BY DEF LogInv
        <3> QED  BY <3>1, <3>2, <3>3, <3>4 DEF CacheIn
    <2> HIDE DEF n
    <2>4. QtyAt(n, p) \in Int  BY <2>3, TablesTyped, SameTables DEF LogInv
    <2>5. dialog' \in [product : Product \cup {NoProduct}, qty : Int] /\ dialog'.product = p
        BY <2>1, <2>4
    <2>6. weighed' \subseteq EverIn(log, Len(log))  BY <1>1, <2>1, <2>3, PickedOnce
    <2> QED  BY <1>1, <2>1, <2>2, <2>5, <2>6 DEF PageInv, PageOf
<1> QED  BY <1>2, <1>3

\* A press of "Simpan" sends what fits the form.
LEMMA SaveDesk ==
    ASSUME DeskTyped, PostsInv, NEW op \in {"receiving", "target", "delta"},
           NEW body \in Body, FitsBody(EverIn(log, Len(log)), op, body), Save(op, body)
    PROVE  PostsInv' /\ UNCHANGED <<log, page, query>>
<1> DEFINE r == [op |-> op, body |-> body, draft |-> draft, watched |-> TRUE,
                 status |-> "sent", at |-> 0, over |-> FALSE]
<1>1. post' = Append(post, r) /\ UNCHANGED <<log, page, query>>  BY DEF Save
<1>2. /\ DOMAIN post' = 1..(Len(post) + 1) /\ post'[Len(post) + 1] = r
      /\ \A i \in 1..Len(post) : post'[i] = post[i]
    BY <1>1, PostAdded DEF DeskTyped
<1>3. Len(post) \in Nat /\ DOMAIN post = 1..Len(post)  BY PostsFacts DEF DeskTyped
<1>4. r.op = op /\ r.body = body /\ r.status = "sent"  OBVIOUS
<1> HIDE DEF r
<1>5. \A i \in DOMAIN post' : (i \in DOMAIN post /\ post'[i] = post[i]) \/ post'[i] = r
    BY <1>2, <1>3
<1>6. PostsFit(post', log)  BY <1>4, <1>5 DEF PostsInv, PostsFit
<1> QED  BY <1>1, <1>6 DEF PostsInv

\* The receiving and the adjustment that can be pressed fit their forms.
LEMMA PressDesk ==
    ASSUME DeskTyped, PageInv, PostsInv,
           Receive \/ \E op \in {"target", "delta"}, qty \in Int : Adjust(op, qty)
    PROVE  PostsInv' /\ UNCHANGED <<log, page, query>>
<1> DEFINE Ever == EverIn(log, Len(log))
<1>0. weighed \subseteq Ever  BY DEF PageInv
<1> HIDE DEF Ever
<1>1. CASE Receive
    <2>1. lines \in Body
        <3>1. lines \in Lines  BY DEF PageInv, PageOf
        <3> QED  BY <3>1 DEF Lines, Body
    <2>2. FitsBody(Ever, "receiving", lines)  BY <1>0, <1>1 DEF Receive, CanSubmit, FitsBody
    <2> QED  BY <1>1, <2>1, <2>2, SaveDesk DEF Receive, Ever
<1>2. ASSUME NEW op \in {"target", "delta"}, NEW qty \in Int, Adjust(op, qty)
      PROVE  PostsInv' /\ UNCHANGED <<log, page, query>>
    <2> DEFINE body == [p \in {dialog.product} |-> qty]
    <2>1. dialog.product \in Product /\ FitsForm(dialog.product, op, qty) /\ Save(op, body)
        BY <1>2 DEF Adjust, PageInv, PageOf
    <2>2. /\ body \in Body
          /\ \A p \in DOMAIN body : p = dialog.product /\ body[p] = qty
        BY <2>1 DEF Body
    <2>3. IsCents(qty) /\ (dialog.product \in Ever \/ IsWhole(qty))
        BY <1>0, <2>1, Thousandths DEF FitsForm
    <2> HIDE DEF body
    <2>4. FitsBody(Ever, op, body)  BY <2>2, <2>3 DEF FitsBody
    <2> QED  BY <2>1, <2>2, <2>4, SaveDesk DEF Ever
<1> QED  BY <1>1, <1>2

\* The server takes a post, or has an excuse.
LEMMA ServerDesk ==
    ASSUME DeskTyped, FreshInv, DeskInv, NEW i \in DOMAIN post, RecordPost(i) \/ RefusePost(i)
    PROVE  DeskInv'
<1>1. LogStep  BY RecordTyped DEF DeskInv, LogStep, RefusePost
<1>2. /\ LogInv' /\ PostsFit(post, log')
      /\ Len(log) \in Nat /\ Len(log') \in Nat /\ Len(log) <= Len(log')
    BY <1>1, LogStepPosts DEF DeskInv
<1>3. UNCHANGED <<page, query>>  BY DEF RecordPost, RefusePost, Handled
<1>4. CacheInv'  BY <1>2, <1>3, LogStepCache DEF DeskInv
<1>5. PageInv'  BY <1>1, <1>3, LogStepPage DEF DeskInv
<1>6. CASE RecordPost(i)
    <2>1. Handled(i, "recorded", Len(log) + 1)  BY <1>6 DEF RecordPost, Now
    <2>2. /\ DOMAIN post' = DOMAIN post /\ post'[i].status = "recorded"
          /\ \A j \in DOMAIN post :
                /\ j # i => post'[j] = post[j]
                /\ post'[j].op = post[j].op /\ post'[j].body = post[j].body
        BY <1>2, <2>1, PostHandled DEF PostStatus
    <2>3. PostsFit(post', log')  BY <1>2, <2>2, PostsKept
    <2> QED  BY <1>2, <1>4, <1>5, <2>3 DEF DeskInv, PostsInv
<1>7. CASE RefusePost(i)
    <2>1. /\ Handled(i, "refused", Len(log)) /\ log' = log
          /\ ~IsTaken(post[i].op, post[i].body)
        BY <1>7 DEF RefusePost, Now
    <2>2. /\ DOMAIN post' = DOMAIN post /\ post'[i].status = "refused" /\ post'[i].at = Len(log)
          /\ \A j \in DOMAIN post :
                /\ j # i => post'[j] = post[j]
                /\ post'[j].op = post[j].op /\ post'[j].body = post[j].body
        BY <1>2, <2>1, PostHandled DEF PostStatus
    <2>3. /\ post[i].op \in {"receiving", "target", "delta"} /\ post[i].body \in Body
          /\ FitsBody(EverIn(log, Len(log)), post[i].op, post[i].body)
        BY PostsFacts DEF DeskTyped, DeskInv, PostsInv, PostsFit
    <2>4. Excused(post[i].op, post[i].body, log, Len(log))  BY <2>1, <2>3, RefusedExcused
    <2>5. PostsFit(post', log')
        <3> SUFFICES ASSUME NEW j \in DOMAIN post
                     PROVE  /\ post'[j].body \in Body
                            /\ FitsBody(EverIn(log, Len(log)), post'[j].op, post'[j].body)
                            /\ post'[j].status = "refused"
                                  => Excused(post'[j].op, post'[j].body, log', post'[j].at)
            BY <2>1, <2>2 DEF PostsFit
        <3>1. /\ post[j].body \in Body /\ FitsBody(EverIn(log, Len(log)), post[j].op, post[j].body)
              /\ post[j].status = "refused" => Excused(post[j].op, post[j].body, log, post[j].at)
            BY DEF DeskInv, PostsInv, PostsFit
        <3>2. CASE j = i  BY <2>1, <2>2, <2>3, <2>4, <3>2
        <3>3. CASE j # i  BY <2>1, <2>2, <3>1, <3>3
        <3> QED  BY <3>2, <3>3
    <2> QED  BY <1>2, <1>4, <1>5, <2>5 DEF DeskInv, PostsInv
<1> QED  BY <1>6, <1>7

\* An answer, and one that is lost, change no post but in its status.
LEMMA AnswerDesk ==
    ASSUME DeskTyped, DeskInv, NEW i \in DOMAIN post,
           LosePost(i) \/ AnswerSuccess(i) \/ AnswerError(i)
    PROVE  DeskInv'
<1>1. /\ lines \in Lines /\ (lines # NoLines => tab = "penerimaan")
      /\ dialog \in [product : Product \cup {NoProduct}, qty : Int]
      /\ dialog # Closed => tab = "stok" /\ dialog.product \in Product
      /\ weighed \subseteq EverIn(log, Len(log))
    BY DEF DeskInv, PageInv, PageOf
<1>2. NoLines \in Lines /\ Closed \in [product : Product \cup {NoProduct}, qty : Int]
    BY DEF NoLines, Lines, Closed
<1>3. CASE LosePost(i)
    <2>1. /\ DOMAIN post' = DOMAIN post /\ post'[i].status = "lost" /\ UNCHANGED <<log, page, query>>
          /\ \A j \in DOMAIN post : LosesOnly(post[j], post'[j])
          /\ \A j \in DOMAIN post : j # i => post'[j] = post[j]
        BY <1>3, PostLost DEF LosePost
    <2>2. PostsFit(post', log)
        <3>1. \A j \in DOMAIN post : /\ post'[j].op = post[j].op /\ post'[j].body = post[j].body
                                     /\ post'[j].status = "refused" =>
                                           post[j].status = "refused" /\ post'[j].at = post[j].at
            BY <2>1 DEF LosesOnly
        <3> QED  BY <2>1, <3>1, PostsKept DEF DeskInv, PostsInv
    <2> QED  BY <2>1, <2>2 DEF DeskInv, LogInv, CacheInv, PageInv, PostsInv, page
<1>4. CASE AnswerSuccess(i) \/ AnswerError(i)
    <2>1. Over(i)  BY <1>4 DEF AnswerSuccess, AnswerError
    <2>2. /\ DOMAIN post' = DOMAIN post
          /\ \A j \in DOMAIN post : j # i => post'[j] = post[j]
          /\ post'[i].op = post[i].op /\ post'[i].body = post[i].body
          /\ post'[i].at = post[i].at /\ post'[i].status = post[i].status
        BY <2>1, PostOver
    <2>3. PostsFit(post', log)
        <3>1. \A j \in DOMAIN post : /\ post'[j].op = post[j].op /\ post'[j].body = post[j].body
                                     /\ post'[j].status = "refused" =>
                                           post[j].status = "refused" /\ post'[j].at = post[j].at
            BY <2>2
        <3> QED  BY <2>2, <3>1, PostsKept DEF DeskInv, PostsInv
    <2>4. log' = log /\ tab' = tab /\ weighed' = weighed  BY <2>1 DEF Over
    <2>5. lines' \in {lines, NoLines} /\ dialog' \in {dialog, Closed}
        BY <1>4 DEF AnswerSuccess, AnswerError, Succeed
    <2>6. PageInv'  BY <1>1, <1>2, <2>4, <2>5 DEF PageInv, PageOf
    <2>7. CacheInv'
        <3>1. CASE AnswerError(i)
            BY <2>4, <3>1 DEF AnswerError, DeskInv, CacheInv
        <3>2. CASE AnswerSuccess(i)
            <4>1. \A q \in Query : query'[q] \in {query[q], Started(query[q]), Left(query[q]),
                                                  [query[q] EXCEPT !.stale = TRUE],
                                                  Started([query[q] EXCEPT !.stale = TRUE])}
                BY <3>2 DEF AnswerSuccess, Invalidate
            <4> QED  BY <2>4, <4>1, CacheMarked DEF DeskInv
        <3> QED  BY <1>4, <3>1, <3>2
    <2> QED  BY <2>3, <2>4, <2>6, <2>7 DEF DeskInv, LogInv, PostsInv
<1> QED  BY <1>3, <1>4

\* A tab that is opened starts with no draft and no dialog.
LEMMA OpenTabDesk ==
    ASSUME DeskTyped, DeskInv, NEW t \in Shows, OpenTab(t)
    PROVE  DeskInv'
<1>1. log' = log /\ lines' = NoLines /\ dialog' = Closed /\ weighed' = {}  BY DEF OpenTab, Unmount
<1>2. NoLines \in Lines /\ Closed \in [product : Product \cup {NoProduct}, qty : Int]
    BY DEF NoLines, Lines, Closed
<1>3. PageInv'  BY <1>1, <1>2 DEF PageInv, PageOf
<1>4. PostsFit(post', log)
    <2>1. /\ DOMAIN post' = DOMAIN post
          /\ \A j \in DOMAIN post :
                /\ post'[j].op = post[j].op /\ post'[j].body = post[j].body
                /\ post'[j].at = post[j].at /\ post'[j].status = post[j].status
        BY PostsLeft
    <2> QED  BY <2>1, PostsKept DEF DeskInv, PostsInv
<1>5. CacheInv'
    <2>1. PICK aged \in BOOLEAN :
              query' = [q \in Query |->
                           IF q \in Observes(t) /\ WantsFetch(query[q], aged) THEN Started(query[q])
                           ELSE IF Active(q) THEN Left(query[q]) ELSE query[q]]
        BY DEF OpenTab
    <2>2. \A q \in Query : query'[q] \in {query[q], Started(query[q]), Left(query[q]),
                                          [query[q] EXCEPT !.stale = TRUE],
                                          Started([query[q] EXCEPT !.stale = TRUE])}
        BY <2>1
    <2> QED  BY <1>1, <2>2, CacheMarked DEF DeskInv
<1> QED  BY <1>1, <1>3, <1>4, <1>5 DEF DeskInv, LogInv, PostsInv

\* Every step, by who takes it.
LEMMA NextDesk == DeskTyped /\ FreshInv /\ DeskInv /\ [Next]_vars => DeskInv'
<1> SUFFICES ASSUME DeskTyped, FreshInv, DeskInv, [Next]_vars
             PROVE  DeskInv'
    OBVIOUS
<1>1. CASE UNCHANGED <<log, page, query, post>>
    BY <1>1 DEF DeskInv, LogInv, CacheInv, PageInv, PostsInv, page
<1>2. CASE StoreEvent
    <2>1. LogStep /\ UNCHANGED <<page, query, post>>  BY <1>2, StoreEventTyped DEF LogStep, DeskInv
    <2>2. /\ LogInv' /\ PostsFit(post, log')
          /\ Len(log) \in Nat /\ Len(log') \in Nat /\ Len(log) <= Len(log')
        BY <2>1, LogStepPosts DEF DeskInv
    <2>3. CacheInv' /\ PageInv'  BY <2>1, <2>2, LogStepCache, LogStepPage DEF DeskInv
    <2> QED  BY <2>1, <2>2, <2>3 DEF DeskInv, PostsInv
<1>3. CASE FetchStep
    <2>1. CacheInv' /\ UNCHANGED <<log, page, post>>  BY <1>3, FetchIn, FetchTyped DEF DeskInv
    <2> QED  BY <2>1 DEF DeskInv, LogInv, PageInv, PostsInv, page
<1>4. CASE Focus
    <2>1. PICK q \in Query : query' = [query EXCEPT ![q] = Started(@)]  BY <1>4 DEF Focus
    <2>2. \A o \in Query : query'[o] \in {query[o], Started(query[o]), Left(query[o]),
                                          [query[o] EXCEPT !.stale = TRUE],
                                          Started([query[o] EXCEPT !.stale = TRUE])}
        BY <2>1 DEF DeskTyped
    <2>3. UNCHANGED <<log, page, post>>  BY <1>4 DEF Focus
    <2>4. CacheInv'  BY <2>2, <2>3, CacheMarked DEF DeskInv
    <2> QED  BY <2>3, <2>4 DEF DeskInv, LogInv, PageInv, PostsInv, page
<1>5. CASE LineStep
    <2>1. PageInv' /\ UNCHANGED <<log, query, post>>  BY <1>5, LineStepDesk DEF DeskInv
    <2> QED  BY <2>1 DEF DeskInv, LogInv, CacheInv, PostsInv
<1>6. CASE CloseDialog \/ \E p \in Product : OpenDialog(p)
    <2>1. PageInv' /\ UNCHANGED <<log, query, post>>  BY <1>6, DialogStepDesk DEF DeskInv
    <2> QED  BY <2>1 DEF DeskInv, LogInv, CacheInv, PostsInv
<1>7. CASE Receive \/ \E op \in {"target", "delta"}, qty \in Int : Adjust(op, qty)
    <2>1. PostsInv' /\ UNCHANGED <<log, page, query>>  BY <1>7, PressDesk DEF DeskInv
    <2> QED  BY <2>1 DEF DeskInv, LogInv, CacheInv, PageInv, page
<1>8. CASE UNCHANGED vars
    BY <1>1, <1>8 DEF vars
<1>9. CASE Next
    <2>1. CASE OwnerStep
        <3>1. Signed \subseteq Int /\ Counted \cup {dialog.qty} \subseteq Int
            BY DeskAssumption DEF Signed, DeskInv, PageInv, PageOf
        <3> QED  BY <2>1, <3>1, <1>4, <1>5, <1>6, <1>7, OpenTabDesk
                 DEF OwnerStep, ReceivingStep, AdjustmentStep, LineStep
    <2>2. CASE StoreStep  BY <2>2, <1>2, ServerDesk DEF StoreStep, StoreEvent
    <2> QED  BY <1>9, <2>1, <2>2, <1>3, AnswerDesk DEF Next, FetchStep
<1> QED  BY <1>8, <1>9

\* An empty desk.
LEMMA InitDesk == Init => DeskInv
<1> SUFFICES ASSUME Init PROVE DeskInv
    OBVIOUS
<1>1. LogInv  BY DEF Init, LogInv
<1>2. CacheInv
    <2>1. Len(<<>>) = 0  OBVIOUS
    <2>2. \A q \in Query : query[q].data = <<>> /\ query[q].reading = <<>>
        BY DEF Init, NotFetched
    <2> QED  BY <2>1, <2>2, ReadsTyped DEF CacheInv, CacheIn
<1>3. PageInv  BY DEF Init, PageInv, PageOf, NoLines, Lines, Closed
<1>4. PostsInv  BY DEF Init, PostsInv, PostsFit
<1> QED  BY <1>1, <1>2, <1>3, <1>4 DEF DeskInv

\* The invariants of the desk, together.
LEMMA DeskCorrect == Spec => [](DeskTyped /\ DraftInv /\ FreshInv /\ DeskInv)
<1>1. Spec => [](DeskTyped /\ DraftInv)
    BY InitTyped, InitDraft, NextDraftInv, PTL DEF Spec
<1>2. Spec => []FreshInv
    BY <1>1, InitFresh, NextFresh, PTL DEF Spec
<1>3. Spec => []DeskInv
    BY <1>1, <1>2, InitDesk, NextDesk, PTL DEF Spec
<1> QED  BY <1>1, <1>2, <1>3, PTL

\* Every variable keeps its type: quantities are numbers however they were summed up, a
\* position in the cache or in a post is one of the log, and a draft and a dialog exist
\* on their tab only.
THEOREM TypeCorrect == Spec => []TypeOK
<1>1. DeskTyped /\ DraftInv /\ FreshInv /\ DeskInv => TypeOK
    <2> SUFFICES ASSUME DeskTyped, DraftInv, FreshInv, DeskInv PROVE TypeOK
        OBVIOUS
    <2>1. Len(log) \in Nat /\ \A i \in 1..Len(log) : log[i] \in Event  BY DEF DeskInv, LogInv
    <2>2. \A i \in 1..Now : /\ log[i].delta \in [Product -> Int]
                            /\ log[i].archived \cup log[i].byWeight \subseteq Product
        BY <2>1 DEF Event, EventRecord, Quantities, Now
    <2>3. /\ DOMAIN lines \subseteq Product /\ \A p \in DOMAIN lines : lines[p] \in Nat
          /\ lines # NoLines => tab = "penerimaan"
          /\ dialog.product \in Product \cup {NoProduct} /\ dialog.qty \in Int
          /\ dialog # Closed => tab = "stok"
        BY DEF DeskInv, PageInv, PageOf, Lines
    <2>6. weighed \subseteq Product
        <3>1. Len(log) \in 0..Len(log)  BY <2>1
        <3> QED  BY <3>1, TablesTyped DEF DeskInv, LogInv, PageInv
    <2>4. \A q \in Query : /\ Len(query[q].data) \in {0, Reads(q)}
                           /\ Len(query[q].reading) <= Reads(q)
                           /\ {query[q].stale, query[q].failed, query[q].whole,
                               query[q].fetching, query[q].kept} \subseteq BOOLEAN
        <3> SUFFICES ASSUME NEW q \in Query
                     PROVE  /\ Len(query[q].data) \in {0, Reads(q)}
                            /\ Len(query[q].reading) <= Reads(q)
                            /\ {query[q].stale, query[q].failed, query[q].whole,
                                query[q].fetching, query[q].kept} \subseteq BOOLEAN
            OBVIOUS
        <3>1. query[q] \in Cache /\ CacheIn(query[q], Reads(q), Len(log))
            BY DEF DeskTyped, DeskInv, CacheInv
        <3> QED  BY <3>1 DEF Cache, CacheIn
    <2>5. \A i \in DOMAIN post : /\ post[i].op \in {"receiving", "target", "delta"}
                                 /\ post[i].at \in 0..Now /\ post[i].draft \in 0..draft
        BY <2>1, PostsFacts
        DEF DeskTyped, FreshInv, PostsIn, DraftInv, DraftOf, DraftAtHand, Now
    <2> QED  BY <2>2, <2>3, <2>4, <2>5, <2>6 DEF TypeOK, DeskTyped
<1> QED  BY <1>1, DeskCorrect, PTL

\* What a form let through is refused only because the product was archived, the quantity
\* is there already, the request or the stock it leaves has too many digits, the product
\* is no longer sold by weight, or a weight was received with more than two decimals,
\* whatever was sold, archived, edited and adjusted between the form and the server.
THEOREM FormsCorrect == Spec => []FormsFit
<1>1. DeskInv => FormsFit
    BY SameTables DEF DeskInv, PostsInv, PostsFit, Excused, FormsFit
<1> QED  BY <1>1, DeskCorrect, PTL

-----------------------------------------------------------------------------
(* The report                                                              *)

\* Of numbers over a finite set one is the greatest.
LEMMA Greatest ==
    ASSUME NEW C, IsFiniteSet(C), C # {}, NEW w \in [C -> Nat]
    PROVE  \E x \in C : \A y \in C : w[x] >= w[y]
<1> DEFINE most == Total(w)
           T == {most - w[x] : x \in C}
<1>1. most \in Nat /\ \A x \in C : w[x] <= most  BY TotalOfNaturals
<1> HIDE DEF most
<1>2. T \in SUBSET Nat /\ T # {}  BY <1>1
<1>3. PICK n \in T : \A m \in T : n <= m
    <2> HIDE DEF T
    <2> QED  BY <1>2, LeastNumber
<1>4. PICK x \in C : n = most - w[x]  OBVIOUS
<1>5. \A y \in C : most - w[x] <= most - w[y]  BY <1>3, <1>4
<1> QED  BY <1>1, <1>5

\* The best k of C, when ordered by w.
IsBest(S, C, w, k) ==
    /\ S \in SUBSET C /\ Cardinality(S) = k
    /\ \A p \in S, r \in C \ S : w[p] >= w[r]

\* There are a best k for each k up to the size.
LEMMA BestExist ==
    ASSUME NEW C, IsFiniteSet(C), NEW w \in [C -> Nat], NEW k \in 0..Cardinality(C)
    PROVE  \E S : IsBest(S, C, w, k)
<1> DEFINE Missing == {j \in 0..Cardinality(C) : ~\E S : IsBest(S, C, w, j)}
<1>1. Cardinality(C) \in Nat  BY FS_CardinalityType
<1>2. SUFFICES ASSUME Missing # {} PROVE FALSE
    OBVIOUS
<1>3. Missing \in SUBSET Nat  OBVIOUS
<1>4. PICK j \in Missing : \A i \in Missing : j <= i
    <2> HIDE DEF Missing
    <2> QED  BY <1>2, <1>3, LeastNumber
<1>5. IsBest({}, C, w, 0)  BY FS_EmptySet DEF IsBest
<1>6. j > 0 /\ j - 1 \in 0..Cardinality(C) /\ j - 1 \notin Missing
    <2>1. j # 0  BY <1>5
    <2>2. j \in 0..Cardinality(C)  OBVIOUS
    <2> HIDE DEF Missing
    <2> QED  BY <1>1, <1>4, <2>1, <2>2
<1>7. PICK S : IsBest(S, C, w, j - 1)  BY <1>6
<1>8. IsFiniteSet(S) /\ S \in SUBSET C /\ C \ S # {}
    <2>1. S \in SUBSET C /\ Cardinality(S) = j - 1  BY <1>7 DEF IsBest
    <2>2. j \in 0..Cardinality(C)  OBVIOUS
    <2>3. S # C  BY <1>1, <2>1, <2>2
    <2> QED  BY <2>1, <2>3, FS_Subset
<1>9. PICK x \in C \ S : \A y \in C \ S : w[x] >= w[y]
    <2> DEFINE v == [y \in C \ S |-> w[y]]
    <2>1. IsFiniteSet(C \ S) /\ v \in [C \ S -> Nat] /\ \A y \in C \ S : v[y] = w[y]
        BY FS_Subset
    <2> HIDE DEF v
    <2>2. PICK x \in C \ S : \A y \in C \ S : v[x] >= v[y]  BY <1>8, <2>1, Greatest
    <2> QED  BY <2>1, <2>2
<1>10. Cardinality(S \cup {x}) = j
    <2>1. Cardinality(S \cup {x}) = Cardinality(S) + 1  BY <1>8, FS_AddElement
    <2>2. Cardinality(S) = j - 1 /\ j \in Int  BY <1>7 DEF IsBest
    <2> QED  BY <2>1, <2>2
<1>11. IsBest(S \cup {x}, C, w, j)  BY <1>7, <1>8, <1>9, <1>10 DEF IsBest
<1> QED  BY <1>4, <1>11

\* The amounts of the sales without products, at position n.
QuickIn(n) ==
    Total([i \in 1..n |-> IF \A p \in Product : log[i].revenue[p] = 0 THEN log[i].total ELSE 0])

\* Events are counted and added up.
LEMMA EventsTyped ==
    ASSUME LogInv, NEW n \in 0..Len(log)
    PROVE  /\ n \in Nat /\ IsFiniteSet(1..n)
           /\ \A i \in 1..n : /\ log[i].revenue \in [Product -> Nat] /\ log[i].total \in Nat
                              /\ log[i].delta \in [Product -> Int]
                              /\ AddsUp(log[i]) /\ TakesWhatItSells(log[i])
<1>1. Len(log) \in Nat /\ \A i \in 1..Len(log) : log[i] \in Event  BY DEF LogInv
<1>2. n \in Nat /\ \A i \in 1..n : log[i] \in Event  BY <1>1
<1> QED  BY <1>2, Positions DEF Event, EventRecord, Amounts, Quantities

\* What a product brought is a number, and nothing if it was not sold.
LEMMA RevenueTyped ==
    ASSUME LogInv, NEW n \in 0..Len(log), NEW p \in Product
    PROVE  /\ Revenue(p, n) \in Nat /\ UnitsSold(p, n) \in Nat
           /\ p \notin Sold(n) => Revenue(p, n) = 0
<1> DEFINE f == [i \in 1..n |-> log[i].revenue[p]]
           g == [i \in 1..n |-> IF log[i].kind = "sale" THEN -log[i].delta[p] ELSE 0]
<1>1. /\ IsFiniteSet(1..n) /\ f \in [1..n -> Nat] /\ g \in [1..n -> Nat]
      /\ \A i \in 1..n : f[i] > 0 => g[i] > 0
    BY EventsTyped DEF TakesWhatItSells
<1>2. Revenue(p, n) = Total(f) /\ UnitsSold(p, n) = Total(g)
    BY DEF Revenue, UnitsSold, Between
<1> HIDE DEF f, g
<1>3. Total(f) \in Nat /\ Total(g) \in Nat /\ \A i \in 1..n : g[i] <= Total(g)
    BY <1>1, TotalOfNaturals
<1>4. ASSUME p \notin Sold(n) PROVE Total(f) = 0
    <2>1. Total(g) <= 0  BY <1>2, <1>3, <1>4 DEF Sold
    <2>2. \A i \in 1..n : f[i] = 0
        <3> SUFFICES ASSUME NEW i \in 1..n PROVE f[i] = 0
            OBVIOUS
        <3>1. g[i] \in Nat /\ g[i] <= Total(g) /\ f[i] \in Nat  BY <1>1, <1>3
        <3>2. ~(f[i] > 0)  BY <1>1, <1>3, <2>1, <3>1
        <3> QED  BY <3>1, <3>2
    <2>3. f \in [1..n -> Int]  BY <1>1
    <2> QED  BY <1>1, <2>2, <2>3, TotalOfZeros
<1> QED  BY <1>2, <1>3, <1>4

\* Added up by product or by sale, the lines of the export and the sales without
\* products are the gross revenue.
LEMMA GrossAddsUp ==
    ASSUME LogInv, NEW n \in 0..Len(log)
    PROVE  /\ CsvTotal(n) + QuickIn(n) = Gross(n)
           /\ CsvTotal(n) \in Nat /\ QuickIn(n) \in Nat
<1> DEFINE D == 1..n
           f == [i \in D |-> log[i].revenue]
           h == [i \in D |-> log[i].total]
           q == [i \in D |-> IF \A p \in Product : log[i].revenue[p] = 0 THEN log[i].total ELSE 0]
           rows == RowSums(f, D)
           r == [p \in Product |-> Revenue(p, n)]
<1>1. /\ IsFiniteSet(D) /\ IsFiniteSet(Product) /\ \A i \in D : f[i] \in [Product -> Nat]
      /\ h \in [D -> Int] /\ q \in [D -> Nat] /\ q \in [D -> Int]
    BY EventsTyped, DeskAssumption
<1>2. Gross(n) = Total(h) /\ QuickIn(n) = Total(q) /\ CsvTotal(n) = Total(r)
    BY DEF Gross, Between, QuickIn, CsvTotal
<1>3. r = ColumnSums(f, D, Product)
    BY DEF Revenue, Between, ColumnSums, ColumnOf
<1>4. r \in [Product -> Nat]  BY RevenueTyped
<1>5. ASSUME NEW i \in D PROVE rows[i] \in Int /\ h[i] = rows[i] + q[i]
    <2> DEFINE e == f[i]
    <2>1. /\ e \in [Product -> Nat] /\ e \in [Product -> Int] /\ rows[i] = Total(e)
          /\ q[i] = IF \A p \in Product : e[p] = 0 THEN h[i] ELSE 0
          /\ h[i] = Total(e) \/ \A p \in Product : e[p] = 0
          /\ h[i] \in Int
        BY <1>1, EventsTyped DEF AddsUp, RowSums
    <2> HIDE DEF e, f, h, q, rows
    <2>2. Total(e) \in Int  BY <1>1, <2>1, TotalType
    <2>3. CASE \A p \in Product : e[p] = 0
        <3>1. Total(e) = 0  BY <1>1, <2>1, <2>3, TotalOfZeros
        <3> QED  BY <2>1, <2>3, <3>1
    <2>4. CASE ~\A p \in Product : e[p] = 0
        BY <2>1, <2>2, <2>4
    <2> QED  BY <2>3, <2>4
<1>6. rows \in [D -> Int]  BY <1>5 DEF RowSums
<1>7. \A i \in D : f[i] \in [Product -> Int]  BY <1>1
<1> HIDE DEF D, f, h, q, r, rows
<1>8. Total(h) = Total(rows) + Total(q)
    <2>1. IsFiniteSet(D) /\ rows \in Numbers(D) /\ q \in Numbers(D) /\ h \in Numbers(D)
        BY <1>1, <1>6 DEF Numbers
    <2>2. \A i \in D : h[i] = rows[i] + q[i]  BY <1>5
    <2> QED  BY <2>1, <2>2, ColumnsAdded
<1>9. Total(rows) = Total(r)  BY <1>1, <1>3, <1>7, TotalSwap DEF rows
<1>10. Total(q) \in Nat /\ Total(r) \in Nat  BY <1>1, <1>4, TotalOfNaturals
<1> QED  BY <1>2, <1>8, <1>9, <1>10

\* The best sellers were sold, and are all that was sold when that is few.
LEMMA BestSellersFacts ==
    ASSUME LogInv, NEW n \in 0..Len(log)
    PROVE  /\ BestSellers(n) \in SUBSET Sold(n) /\ Sold(n) \in SUBSET Product
           /\ Cardinality(Sold(n)) <= TopSize => BestSellers(n) = Sold(n)
<1> DEFINE C == Sold(n)
           w == [p \in C |-> UnitsSold(p, n)]
           k == IF Cardinality(C) < TopSize THEN Cardinality(C) ELSE TopSize
           IsChosen(S) == /\ Cardinality(S) = k
                          /\ \A p \in S, r \in C \ S : UnitsSold(p, n) >= UnitsSold(r, n)
<1>1. C \in SUBSET Product  BY DEF Sold
<1>2. IsFiniteSet(C) /\ Cardinality(C) \in Nat
    BY <1>1, FS_Subset, FS_CardinalityType, DeskAssumption
<1>3. w \in [C -> Nat]  BY <1>1, RevenueTyped
<1>4. k \in 0..Cardinality(C) /\ (Cardinality(C) <= TopSize => k = Cardinality(C))
    BY <1>2, DeskAssumption
<1>5. BestSellers(n) = CHOOSE S \in SUBSET C : IsChosen(S)
    BY DEF BestSellers, Candidates
<1>6. \E S \in SUBSET C : IsChosen(S)
    <2>1. PICK S : IsBest(S, C, w, k)
        <3> HIDE DEF C, w, k
        <3> QED  BY <1>2, <1>3, <1>4, BestExist
    <2>2. S \in SUBSET C /\ Cardinality(S) = k /\ \A p \in S, r \in C \ S : w[p] >= w[r]
        BY <2>1 DEF IsBest
    <2>3. \A p \in C : w[p] = UnitsSold(p, n)  OBVIOUS
    <2> HIDE DEF C, w, k
    <2> QED  BY <2>2, <2>3
<1>7. BestSellers(n) \in SUBSET C /\ Cardinality(BestSellers(n)) = k
    <2> HIDE DEF C, k
    <2> QED  BY <1>5, <1>6
<1>8. ASSUME Cardinality(C) <= TopSize PROVE BestSellers(n) = C
    <2> HIDE DEF C, k
    <2> QED  BY <1>2, <1>4, <1>7, <1>8, FS_Subset
<1> QED  BY <1>1, <1>7, <1>8

\* What the best sellers brought is part of what the export lists, or all of it.
LEMMA BestBrought ==
    ASSUME LogInv, NEW n \in 0..Len(log)
    PROVE  LET best == Total([p \in BestSellers(n) |-> Revenue(p, n)])
           IN  /\ best \in Nat /\ best <= CsvTotal(n)
               /\ Cardinality(Sold(n)) <= TopSize => best = CsvTotal(n)
<1> DEFINE B == BestSellers(n)
           r == [p \in Product |-> Revenue(p, n)]
<1>1. B \in SUBSET Product /\ IsFiniteSet(Product) /\ IsFiniteSet(B)
    BY BestSellersFacts, FS_Subset, DeskAssumption
<1>2. r \in [Product -> Nat] /\ Part(r, B) \in [B -> Nat]
    BY <1>1, RevenueTyped DEF Part
<1>3. [p \in B |-> Revenue(p, n)] = Part(r, B) /\ CsvTotal(n) = Total(r)
    BY <1>1 DEF Part, CsvTotal
<1>4. Cardinality(Sold(n)) <= TopSize => \A p \in Product \ B : r[p] = 0
    BY BestSellersFacts, RevenueTyped
<1> HIDE DEF B, r
<1>5. Total(Part(r, B)) \in Nat /\ Total(Part(r, B)) <= Total(r)
    BY <1>1, <1>2, TotalOfNaturals, TotalOfPartOfNaturals
<1>6. (\A p \in Product \ B : r[p] = 0) => Total(Part(r, B)) = Total(r)
    BY <1>1, <1>2, TotalOfPartOfNaturals
<1> QED  BY <1>3, <1>4, <1>5, <1>6 DEF B

\* The report adds up, for any number of sales, products and best sellers.
THEOREM ReportCorrect == Spec => []ReportsAgree
<1>1. DeskTyped /\ DeskInv => ReportsAgree
    <2> SUFFICES ASSUME DeskTyped, DeskInv, Shown("report") PROVE ReportsAgree
        BY DEF ReportsAgree
    <2> DEFINE n == query["report"].data[1]
               m == query["report"].data[2]
               quick == Between(LAMBDA i : IF \A p \in Product : log[i].revenue[p] = 0
                                           THEN log[i].total ELSE 0, n)
               best == Total([p \in BestSellers(m) |-> Revenue(p, m)])
    <2>1. n \in 0..Len(log) /\ m \in 0..Len(log)
        <3> DEFINE d == query["report"].data
        <3>1. CacheIn(query["report"], 2, Len(log)) /\ d \in Seq(Nat) /\ d # <<>>
            BY DEF Shown, HasData, DeskTyped, Cache, DeskInv, CacheInv, Query, Reads
        <3>2. Len(log) \in Nat  BY DEF DeskInv, LogInv
        <3>3. Len(d) = 2 /\ \A i \in 1..Len(d) : d[i] \in Nat /\ d[i] <= Len(log)
            BY <3>1 DEF CacheIn
        <3> QED  BY <3>2, <3>3
    <2>2. quick = QuickIn(n)  BY DEF Between, QuickIn
    <2> HIDE DEF quick, n, m
    <2>3. /\ CsvTotal(n) + quick = Gross(n) /\ CsvTotal(n) \in Nat /\ quick \in Nat
        BY <2>1, <2>2, GrossAddsUp DEF DeskInv
    <2>4. /\ best \in Nat /\ best <= CsvTotal(m)
          /\ Cardinality(Sold(m)) <= TopSize => best = CsvTotal(m)
        BY <2>1, BestBrought DEF DeskInv
    <2> HIDE DEF best
    <2>5. n = m => best + quick <= Gross(n)  BY <2>3, <2>4
    <2>6. n = m /\ Cardinality(Sold(m)) <= TopSize => best + quick = Gross(n)  BY <2>3, <2>4
    <2> QED  BY <2>3, <2>5, <2>6 DEF ReportsAgree, quick, best, n, m
<1> QED  BY <1>1, DeskCorrect, PTL
=============================================================================
