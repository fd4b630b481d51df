------------------------- MODULE WalletsScreenProofs -------------------------
(***************************************************************************)
(* The wallets screen, for any number of identities, pages and wallets.    *)
(*                                                                         *)
(* Identities: a retired one is drawn over before the effects that retire  *)
(* what it has on the wire, so Apart speaks of `live`, the identity those  *)
(* effects have run for: every read is its, and so is every write whose    *)
(* answer would ask for its pages again.                                   *)
(*                                                                         *)
(* Removals: RemovalInv follows a record that is gone, from the verdict of *)
(* the API through its mark to the read that no longer shows it.           *)
(* Locks: FormsInv ties what is open to what is drawn and to the wire.     *)
(* Checks: CheckInv ties who waits to the fetch that is waited for.        *)
(* Saves: ScreenInv ties a save to every read that is, or may become, the  *)
(* page beside it, and what is counted to the page the tab may go to.      *)
(***************************************************************************)
EXTENDS WalletsScreen, FiniteSetTheorems, TLAPS

\* The records of the tab, by their fields.
TabField == {"shown", "live", "queries", "form", "formReq", "editing", "removing", "pending",
             "settled", "notice", "editor", "panel", "rowReq", "waiters", "gone"}

IsTab(t)     == t = [field \in TabField |-> t[field]]
IsView(v)    == v = [field \in {"gen", "page"} |-> v[field]]
IsRequest(r) == r = [field \in {"kind", "id", "label", "gen", "answer"} |-> r[field]]
IsQuery(q)   == q = [field \in {"data", "failed", "after", "fetch"} |-> q[field]]

\* An entry of the cache holds, or is about to hold, rows read for the identity of its key.
OfItsKey(key, q) ==
    q # None => /\ IsQuery(q)
                /\ q.data # None => q.data.by = key[1]
                /\ q.fetch # None => q.fetch = [snap |-> q.fetch.snap, total |-> q.fetch.total]
                /\ q.fetch # None /\ q.fetch.snap # None => q.fetch.snap.by = key[1]

CacheOK(queries) ==
    /\ queries = [key \in QueryKey |-> queries[key]]
    /\ \A key \in QueryKey : OfItsKey(key, queries[key])

\* Only the identity whose effects have run reads.
ReadsAreOf(queries, gen) ==
    \A key \in QueryKey : queries[key] # None /\ queries[key].fetch # None => key[1] = gen

Core(t) ==
    /\ IsTab(t) /\ IsView(t.shown) /\ IsView(t.live)
    /\ CacheOK(t.queries) /\ ReadsAreOf(t.queries, t.live.gen)

RequestsOK(t) ==
    /\ t.formReq # None => IsRequest(t.formReq)
    /\ t.rowReq # None => IsRequest(t.rowReq)

\* A save, or a rename, that is answered asks for the pages of its own identity.
FormOf(t, gen) == t.formReq # None => t.formReq.gen = gen
RenameOf(t, gen) == t.rowReq # None /\ t.rowReq.kind = "patch" => t.rowReq.gen = gen

Apart(t) == Core(t) /\ RequestsOK(t) /\ FormOf(t, t.live.gen) /\ RenameOf(t, t.live.gen)

\* What most steps leave alone: the cache and the identity its effects have run for.
Kept(t, u) ==
    /\ IsTab(u) /\ IsView(u.shown) /\ u.live = t.live /\ u.queries = t.queries
    /\ u.formReq \in {t.formReq, None} /\ u.rowReq \in {t.rowReq, None}

LEMMA KeptApart == ASSUME NEW t, NEW u, Apart(t), Kept(t, u) PROVE Apart(u)
BY DEF Apart, Core, Kept, RequestsOK, FormOf, RenameOf

\* What a step that reads or asks again leaves alone.
SameRequests(t, u) ==
    u.live = t.live /\ u.formReq = t.formReq /\ u.rowReq = t.rowReq

LEMMA CoreIsEnough ==
  ASSUME NEW t, NEW u, Apart(t), Core(u), SameRequests(t, u)
  PROVE  Apart(u)
BY DEF Apart, RequestsOK, FormOf, RenameOf, SameRequests

-----------------------------------------------------------------------------
(* The cache. *)

LEMMA KeyIsAKey ==
  ASSUME NEW v, IsView(v)
  PROVE  Key(v)[1] = v.gen
BY DEF Key

LEMMA StartedIsOfItsKey ==
  ASSUME NEW key, NEW q, OfItsKey(key, q)
  PROVE  /\ OfItsKey(key, Started(q))
         /\ OfItsKey(key, [Unread EXCEPT !.fetch = Asking])
         /\ q # None => OfItsKey(key, [q EXCEPT !.fetch = Asking])
<1>1. Asking = [snap |-> None, total |-> None]
  BY DEF Asking
<1>2. OfItsKey(key, [Unread EXCEPT !.fetch = Asking])
  BY <1>1 DEF OfItsKey, Unread, IsQuery
<1>3. ASSUME q # None PROVE OfItsKey(key, [q EXCEPT !.fetch = Asking])
  BY <1>1, <1>3 DEF OfItsKey, IsQuery
<1> QED
  BY <1>2, <1>3 DEF Started

\* Fetches that end start only reads of the view whose effects have run.
LEMMA HeardKeeps ==
  ASSUME NEW t, Core(t), NEW keys, NEW outcome, NEW snap
  PROVE  /\ Core(Heard(t, keys, outcome, snap))
         /\ SameRequests(t, Heard(t, keys, outcome, snap))
         /\ outcome # "ok" => Heard(t, keys, outcome, snap).shown = t.shown
<1> DEFINE told == {waiter \in t.waiters : Key(waiter.view) \in keys}
           on == {waiter \in told : ReadsOn(t, waiter)}
           again == {Key(waiter.view) : waiter \in on}
           report == {waiter \in told \ on : waiter.current}
           settles == {waiter \in told \ on : waiter.kind = "settle" /\ waiter.stage = "fetching"
                                               /\ ViewIsCurrent(t, waiter)}
           waiters == (t.waiters \ told) \union {[waiter EXCEPT !.stage = "fetching"] : waiter \in on}
           queries == [key \in QueryKey |-> IF key \in again THEN Started(t.queries[key])
                                                             ELSE t.queries[key]]
           editor == IF t.editor = None \/ report = {} THEN t.editor
                     ELSE LET waiter == CHOOSE waiter \in report : TRUE
                          IN  Reported(t.editor, Found(t, waiter, outcome, snap), outcome)
           notice == IF settles # {} /\ outcome # "ok" THEN "not refreshed" ELSE t.notice
           page == IF settles # {} /\ outcome = "ok" /\ DOMAIN snap.rows = {}
                   THEN LastPage(snap) ELSE t.shown.page
           u == [t EXCEPT !.waiters = waiters, !.queries = queries, !.editor = editor,
                          !.notice = notice, !.shown.page = page]
<1>1. Heard(t, keys, outcome, snap) = u
  BY DEF Heard
<1>2. \A key \in again : key[1] = t.live.gen
  <2>1. ASSUME NEW waiter \in on PROVE Key(waiter.view)[1] = t.live.gen
    BY KeyIsAKey DEF ReadsOn, ViewIsCurrent, Core
  <2> QED
    BY <2>1
<1>3. outcome # "ok" => page = t.shown.page
  OBVIOUS
<1> HIDE DEF told, on, again, report, settles, waiters, editor, notice, page
<1>4. CacheOK(queries)
  <2>1. \A key \in QueryKey : OfItsKey(key, queries[key])
    BY StartedIsOfItsKey DEF Core, CacheOK
  <2> QED
    BY <2>1 DEF CacheOK
<1>5. ReadsAreOf(queries, t.live.gen)
  BY <1>2 DEF Core, ReadsAreOf
<1> HIDE DEF queries
<1>6. /\ IsTab(u) /\ u.queries = queries /\ u.live = t.live
      /\ u.formReq = t.formReq /\ u.rowReq = t.rowReq
      /\ u.shown = [t.shown EXCEPT !.page = page]
  BY DEF Core, IsTab, TabField
<1>7. IsView(u.shown) /\ (page = t.shown.page => u.shown = t.shown)
  BY <1>6 DEF Core, IsView
<1> HIDE DEF u
<1>8. Core(u)
  BY <1>4, <1>5, <1>6, <1>7 DEF Core
<1> QED
  BY <1>1, <1>3, <1>6, <1>7, <1>8 DEF SameRequests

\* The pages of the identity whose effects have run may be asked for again.
LEMMA RefreshKeeps ==
  ASSUME NEW t, Core(t), NEW gen, gen = t.live.gen, NEW overtaken
  PROVE  /\ Core(Refresh(t, gen, overtaken))
         /\ SameRequests(t, Refresh(t, gen, overtaken))
         /\ Refresh(t, gen, overtaken).shown = t.shown
<1> DEFINE keys == {key \in QueryKey : key[1] = gen /\ t.queries[key] # None}
           running == {key \in keys : t.queries[key].fetch # None}
           queries == [key \in QueryKey |->
                         IF key \in keys THEN [t.queries[key] EXCEPT !.fetch = Asking]
                                         ELSE t.queries[key]]
           asked == [t EXCEPT !.queries = queries]
           resumed == Heard(asked, running, "cancelled", None)
           seen == {key \in running : t.queries[key].data # None}
<1>1. Refresh(t, gen, overtaken) = IF overtaken THEN Heard(resumed, seen, "cancelled", None)
                                   ELSE resumed
  BY DEF Refresh
<1>2. CacheOK(queries)
  <2>1. \A key \in QueryKey : OfItsKey(key, queries[key])
    BY StartedIsOfItsKey DEF Core, CacheOK
  <2> QED
    BY <2>1 DEF CacheOK
<1>3. ReadsAreOf(queries, t.live.gen)
  BY DEF Core, ReadsAreOf
<1> HIDE DEF queries
<1>4. /\ IsTab(asked) /\ asked.queries = queries /\ asked.live = t.live
      /\ asked.formReq = t.formReq /\ asked.rowReq = t.rowReq /\ asked.shown = t.shown
  BY DEF Core, IsTab, TabField
<1> HIDE DEF asked
<1>5. Core(asked)
  BY <1>2, <1>3, <1>4 DEF Core
<1> QED
  BY <1>1, <1>4, <1>5, HeardKeeps DEF SameRequests

-----------------------------------------------------------------------------
(* What a render does. *)

LEMMA RenderedKeeps ==
  ASSUME NEW t, Core(t), RequestsOK(t), FormOf(t, t.live.gen),
         RenameOf(t, t.live.gen) \/ (t.editing = 0 /\ t.shown = t.live)
  PROVE  Apart(Rendered(t))
<1> DEFINE r == Retired(t)
           n == RowForms(r)
           m == Mounted(r)
<1>1. /\ IsTab(r) /\ r.shown = t.shown /\ r.live = t.live /\ r.queries = t.queries
      /\ r.formReq = t.formReq /\ r.rowReq = t.rowReq
      /\ (t.editing = 0 => r.editing = 0)
  BY DEF Core, IsTab, TabField, Retired
<1> HIDE DEF r
<1>2. /\ IsTab(n) /\ n.shown = r.shown /\ n.live = r.live /\ n.queries = r.queries
      /\ n.formReq = r.formReq /\ n.rowReq = r.rowReq
      /\ (r.editing = 0 => n.editor = None)
  BY <1>1 DEF IsTab, TabField, RowForms
<1>3. PICK pending, waiters, form, owned :
        /\ m = [[n EXCEPT !.pending = pending]
                   EXCEPT !.rowReq = IF owned THEN n.rowReq ELSE None,
                          !.waiters = waiters, !.form = form]
        /\ owned = IF r.rowReq = None THEN TRUE
                   ELSE IF r.rowReq.kind = "patch" THEN n.editor # None \/ r.shown # r.live
                   ELSE [n EXCEPT !.pending = pending].panel # None
  <2> HIDE DEF n
  <2> QED
    BY <1>2 DEF Mounted, n, IsTab, TabField
<1> HIDE DEF n, m
<1>4. /\ IsTab(m) /\ m.shown = n.shown /\ m.live = n.live /\ m.queries = n.queries
      /\ m.formReq = n.formReq /\ m.rowReq = (IF owned THEN n.rowReq ELSE None)
  BY <1>2, <1>3 DEF IsTab, TabField
<1>5. Core(m)
  BY <1>1, <1>2, <1>4 DEF Core
<1>6. RequestsOK(m) /\ FormOf(m, m.live.gen)
  BY <1>1, <1>2, <1>4 DEF RequestsOK, FormOf
<1>7. RenameOf(m, m.live.gen)
  BY <1>1, <1>2, <1>3, <1>4 DEF RenameOf
<1> QED
  BY <1>5, <1>6, <1>7 DEF Apart, Rendered, m, r

LEMMA BecomesApart ==
  ASSUME NEW t, Apart(t), Becomes(t)
  PROVE  Apart(tab')
BY RenderedKeeps DEF Apart, Becomes

LEMMA KeptBecomesApart ==
  ASSUME NEW t, Apart(tab), Kept(tab, t), Becomes(t)
  PROVE  Apart(tab')
BY KeptApart, BecomesApart

LEMMA ReadBecomesApart ==
  ASSUME NEW t, Apart(tab), Core(t), SameRequests(tab, t), Becomes(t)
  PROVE  Apart(tab')
BY CoreIsEnough, BecomesApart

-----------------------------------------------------------------------------
(* The list. *)

LEMMA TurnPageKeeps == ASSUME Apart(tab), TurnPage PROVE Apart(tab')
<1>1. PICK page : Becomes([tab EXCEPT !.shown.page = page])
  BY DEF TurnPage
<1>2. Kept(tab, [tab EXCEPT !.shown.page = page])
  BY DEF Apart, Core, Kept, IsTab, TabField, IsView
<1> QED
  BY <1>1, <1>2, KeptBecomesApart

LEMMA SessionChangesKeep == ASSUME Apart(tab), SessionChanges PROVE Apart(tab')
<1>1. PICK gen : Becomes([tab EXCEPT !.shown.gen = gen])
  BY DEF SessionChanges
<1>2. Kept(tab, [tab EXCEPT !.shown.gen = gen])
  BY DEF Apart, Core, Kept, IsTab, TabField, IsView
<1> QED
  BY <1>1, <1>2, KeptBecomesApart

\* One entry of the cache is written, and stays a read of the identity of its key.
LEMMA WrittenKeeps ==
  ASSUME NEW t, Core(t), NEW key \in QueryKey, NEW q, OfItsKey(key, q),
         q # None /\ q.fetch # None => key[1] = t.live.gen
  PROVE  /\ Core([t EXCEPT !.queries[key] = q])
         /\ SameRequests(t, [t EXCEPT !.queries[key] = q])
<1> DEFINE queries == [t.queries EXCEPT ![key] = q]
           u == [t EXCEPT !.queries = queries]
<1>1. [t EXCEPT !.queries[key] = q] = u
  OBVIOUS
<1>2. CacheOK(queries) /\ ReadsAreOf(queries, t.live.gen)
  BY DEF Core, CacheOK, ReadsAreOf
<1> HIDE DEF queries
<1>3. /\ IsTab(u) /\ u.queries = queries /\ u.live = t.live /\ u.shown = t.shown
      /\ u.formReq = t.formReq /\ u.rowReq = t.rowReq
  BY DEF Core, IsTab, TabField
<1> QED
  BY <1>1, <1>2, <1>3 DEF Core, SameRequests

\* One statement of a read of the list.
ReadsList(key) == CountList(key) \/ ServeList(key)

\* What it leaves of the read that waits for it: the total counted now or before, and the
\* present rows of the page, or none yet.
Reads(key, snap, total) ==
    /\ tab' = [tab EXCEPT !.queries[key].fetch = [snap |-> snap, total |-> total]]
    /\ snap # None => /\ snap.by = key[1] /\ snap.version = server.version
                      /\ DOMAIN snap.rows \subseteq DOMAIN server.rows /\ snap.total = total
    /\ \/ total = Cardinality(DOMAIN server.rows)
       \/ total = tab.queries[key].fetch.total /\ total # None

LEMMA ReadsListEffect ==
  ASSUME NEW key \in QueryKey, ReadsList(key)
  PROVE  /\ tab.queries[key] # None /\ tab.queries[key].fetch # None
         /\ UNCHANGED <<server, issued>>
         /\ \E snap, total : Reads(key, snap, total)
<1>1. ASSUME NEW total, NEW snap, snap = Snapshot(key[1], key[2], total)
      PROVE  /\ snap.by = key[1] /\ snap.version = server.version
             /\ DOMAIN snap.rows \subseteq DOMAIN server.rows /\ snap.total = total
  BY <1>1 DEF Snapshot, RowsOfPage
<1>2. CASE CountList(key)
  <2> DEFINE total == Cardinality(DOMAIN server.rows)
             past == (key[2] - 1) * PageSize >= total
             snap == IF past THEN Snapshot(key[1], key[2], total) ELSE None
  <2>1. tab' = [tab EXCEPT !.queries[key].fetch = [snap |-> snap, total |-> total]]
    BY <1>2 DEF CountList
  <2>2. snap # None => snap = Snapshot(key[1], key[2], total)
    OBVIOUS
  <2> HIDE DEF past, snap
  <2>3. Reads(key, snap, total)
    BY <1>1, <2>1, <2>2 DEF Reads
  <2> QED
    BY <1>2, <2>3 DEF CountList
<1>3. CASE ServeList(key)
  <2> DEFINE total == tab.queries[key].fetch.total
             snap == Snapshot(key[1], key[2], total)
  <2>1. /\ tab' = [tab EXCEPT !.queries[key].fetch = [snap |-> snap, total |-> total]]
        /\ total # None
    BY <1>3 DEF ServeList
  <2> HIDE DEF snap
  <2>2. Reads(key, snap, total)
    BY <1>1, <2>1 DEF Reads, snap
  <2> QED
    BY <1>3, <2>2 DEF ServeList
<1> QED
  BY <1>2, <1>3 DEF ReadsList

LEMMA ReadsListKeeps ==
  ASSUME Apart(tab), NEW key \in QueryKey, ReadsList(key)
  PROVE  Apart(tab')
<1>1. /\ tab.queries[key] # None /\ tab.queries[key].fetch # None
      /\ \E snap, total : Reads(key, snap, total)
  BY ReadsListEffect
<1>2. PICK snap, total : Reads(key, snap, total)
  BY <1>1
<1> DEFINE q == [tab.queries[key] EXCEPT !.fetch = [snap |-> snap, total |-> total]]
<1>3. tab' = [tab EXCEPT !.queries[key] = q]
  BY <1>1, <1>2 DEF Apart, Core, CacheOK, Reads
<1>4. OfItsKey(key, q)
  BY <1>1, <1>2 DEF Apart, Core, CacheOK, OfItsKey, IsQuery, Reads
<1>5. key[1] = tab.live.gen
  BY <1>1 DEF Apart, Core, ReadsAreOf
<1> HIDE DEF q
<1> QED
  BY <1>3, <1>4, <1>5, WrittenKeeps, CoreIsEnough DEF Apart

LEMMA CollectedKeeps ==
  ASSUME NEW t, Core(t)
  PROVE  Core(Collected(t)) /\ SameRequests(t, Collected(t))
<1> DEFINE queries == [key \in QueryKey |->
                         IF t.queries[key] # None /\ t.queries[key].fetch = None
                            /\ key # Key(t.live) THEN None ELSE t.queries[key]]
           u == [t EXCEPT !.queries = queries]
<1>1. Collected(t) = u
  BY DEF Collected
<1>2. CacheOK(queries) /\ ReadsAreOf(queries, t.live.gen)
  BY DEF Core, CacheOK, ReadsAreOf, OfItsKey
<1> HIDE DEF queries
<1>3. /\ IsTab(u) /\ u.queries = queries /\ u.live = t.live /\ u.shown = t.shown
      /\ u.formReq = t.formReq /\ u.rowReq = t.rowReq
  BY DEF Core, IsTab, TabField
<1> QED
  BY <1>1, <1>2, <1>3 DEF Core, SameRequests

LEMMA ListAnswersKeeps ==
  ASSUME Apart(tab), NEW key \in QueryKey, NEW answer, ListAnswers(key, answer)
  PROVE  Apart(tab')
<1> DEFINE query == tab.queries[key]
           ok == ListWallets(answer).code = ""
           snap == IF ok THEN query.fetch.snap ELSE None
           now == [query EXCEPT !.fetch = None, !.failed = ~ok, !.data = IF ok THEN snap ELSE @,
                                !.after = IF ok THEN {entry.id : entry \in tab.settled} ELSE @]
           arrived == [tab EXCEPT !.queries[key] = now]
           heard == Heard(arrived, {key}, IF ok THEN "ok" ELSE "failed", snap)
<1>1. query # None /\ query.fetch # None /\ Becomes(Collected(heard))
  BY DEF ListAnswers
<1>2. PICK failed, after :
        now = [query EXCEPT !.fetch = None, !.failed = failed,
                            !.data = IF ok THEN snap ELSE @, !.after = after]
  BY Zenon
<1>3. ok /\ snap # None => snap.by = key[1]
  BY <1>1 DEF Apart, Core, CacheOK, OfItsKey
<1>4. OfItsKey(key, now) /\ now.fetch = None
  <2>1. query.data # None => query.data.by = key[1]
    BY <1>1 DEF Apart, Core, CacheOK, OfItsKey
  <2>2. IsQuery(query)
    BY <1>1 DEF Apart, Core, CacheOK, OfItsKey
  <2> HIDE DEF ok, snap, now, query
  <2>3. now = [data |-> IF ok THEN snap ELSE query.data, failed |-> failed, after |-> after,
               fetch |-> None]
    BY <1>2, <2>2 DEF IsQuery
  <2> QED
    BY <1>3, <2>1, <2>3 DEF OfItsKey, IsQuery
<1> HIDE DEF now, ok, snap
<1>5. Core(arrived) /\ SameRequests(tab, arrived)
  BY <1>4, WrittenKeeps DEF Apart
<1> HIDE DEF arrived
<1>6. Core(heard) /\ SameRequests(arrived, heard)
  BY <1>5, HeardKeeps
<1> HIDE DEF heard
<1>7. Core(Collected(heard)) /\ SameRequests(tab, Collected(heard))
  BY <1>5, <1>6, CollectedKeeps DEF SameRequests
<1> QED
  BY <1>1, <1>7, ReadBecomesApart

LEMMA RetryListKeeps == ASSUME Apart(tab), RetryList PROVE Apart(tab')
<1> DEFINE key == Key(tab.shown)
           t == [tab EXCEPT !.queries[key] = Started(@)]
           q == Started(tab.queries[key])
<1>1. tab.shown = tab.live /\ Becomes(t)
  BY DEF RetryList, Press
<1>2. key[1] = tab.live.gen
  BY <1>1, KeyIsAKey DEF Apart, Core
<1> HIDE DEF key
<1>3. CASE key \in QueryKey
  <2>1. OfItsKey(key, q)
    BY <1>3, StartedIsOfItsKey DEF Apart, Core, CacheOK
  <2>2. t = [tab EXCEPT !.queries[key] = q]
    BY <1>3 DEF Apart, Core, CacheOK
  <2> HIDE DEF t, q
  <2> QED
    BY <1>1, <1>2, <1>3, <2>1, <2>2, WrittenKeeps, ReadBecomesApart DEF Apart
<1>4. CASE key \notin QueryKey
  <2>1. [tab.queries EXCEPT ![key] = q] = tab.queries
    BY <1>4 DEF Apart, Core, CacheOK
  <2>2. t = [tab EXCEPT !.queries = [tab.queries EXCEPT ![key] = q]]
    OBVIOUS
  <2>3. t = tab
    BY <2>1, <2>2 DEF Apart, Core, IsTab, TabField
  <2> HIDE DEF t
  <2> QED
    BY <1>1, <2>3, BecomesApart
<1> QED
  BY <1>3, <1>4

-----------------------------------------------------------------------------
(* The create form. *)

LEMMA RequestBecomesApart ==
  ASSUME NEW t, Apart(tab), Becomes(t),
         IsTab(t), IsView(t.shown), t.live = tab.live, t.queries = tab.queries,
         RequestsOK(t), FormOf(t, tab.live.gen), RenameOf(t, tab.live.gen)
  PROVE  Apart(tab')
<1>1. Apart(t)
  BY DEF Apart, Core
<1> QED
  BY <1>1, BecomesApart

LEMMA RefreshApart ==
  ASSUME NEW t, Apart(t), NEW gen, gen = t.live.gen, NEW overtaken
  PROVE  Apart(Refresh(t, gen, overtaken))
BY RefreshKeeps, CoreIsEnough DEF Apart

LEMMA SubmitCreateKeeps == ASSUME Apart(tab), SubmitCreate PROVE Apart(tab')
<1> DEFINE req == [kind |-> "create", id |-> 0, label |-> "old", gen |-> tab.shown.gen,
                   answer |-> None]
           form == [NewForm EXCEPT !.status = "submitting"]
           t == [tab EXCEPT !.form = form, !.formReq = req]
<1>1. tab.shown = tab.live /\ Becomes(t)
  BY DEF SubmitCreate, Press
<1>2. IsRequest(req) /\ req.gen = tab.shown.gen
  BY DEF IsRequest
<1> HIDE DEF req, form
<1>3. /\ IsTab(t) /\ t.shown = tab.shown /\ t.live = tab.live /\ t.queries = tab.queries
      /\ t.formReq = req /\ t.rowReq = tab.rowReq
  BY DEF Apart, Core, IsTab, TabField
<1> HIDE DEF t
<1>4. RequestsOK(t) /\ FormOf(t, tab.live.gen) /\ RenameOf(t, tab.live.gen)
  BY <1>1, <1>2, <1>3 DEF Apart, RequestsOK, FormOf, RenameOf
<1> QED
  BY <1>1, <1>3, <1>4, RequestBecomesApart DEF Apart, Core

LEMMA SubmitInvalidDraftKeeps == ASSUME Apart(tab), SubmitInvalidDraft PROVE Apart(tab')
<1>1. Becomes([tab EXCEPT !.form = NewForm])
  BY DEF SubmitInvalidDraft
<1>2. Kept(tab, [tab EXCEPT !.form = NewForm])
  BY DEF Apart, Core, Kept, IsTab, TabField
<1> QED
  BY <1>1, <1>2, KeptBecomesApart

LEMMA ServeCreateKeeps == ASSUME Apart(tab), NEW reply, ServeCreate(reply) PROVE Apart(tab')
<1> DEFINE req == [tab.formReq EXCEPT !.answer = reply]
<1>1. tab.formReq # None /\ tab' = [tab EXCEPT !.formReq = req]
  BY DEF ServeCreate
<1>2. IsRequest(req) /\ req.gen = tab.live.gen
  BY <1>1 DEF Apart, RequestsOK, FormOf, IsRequest
<1> HIDE DEF req
<1>3. /\ IsTab(tab') /\ tab'.shown = tab.shown /\ tab'.live = tab.live
      /\ tab'.queries = tab.queries /\ tab'.formReq = req /\ tab'.rowReq = tab.rowReq
  BY <1>1 DEF Apart, Core, IsTab, TabField
<1> QED
  BY <1>2, <1>3 DEF Apart, Core, RequestsOK, FormOf, RenameOf

LEMMA CreateAnsweredKeeps ==
  ASSUME Apart(tab), NEW answer, NEW overtaken, CreateAnswered(answer, overtaken)
  PROVE  Apart(tab')
<1>1. PICK form :
        LET settled == [tab EXCEPT !.formReq = None, !.form = form] IN
        \/ Becomes(HandleSaved(settled, tab.formReq.gen, overtaken))
        \/ Becomes(settled)
  BY DEF CreateAnswered
<1>2. tab.formReq # None
  BY DEF CreateAnswered
<1> DEFINE settled == [tab EXCEPT !.formReq = None, !.form = form]
           gen == tab.formReq.gen
           asked == Refresh(settled, gen, overtaken)
           saved == [asked EXCEPT !.shown.page = 1]
<1>3. Kept(tab, settled)
  BY DEF Apart, Core, Kept, IsTab, TabField
<1>4. gen = tab.live.gen
  BY <1>2 DEF Apart, FormOf
<1>5. Becomes(saved) \/ Becomes(settled)
  BY <1>1 DEF HandleSaved
<1>6. settled.live = tab.live
  BY <1>3 DEF Kept
<1> HIDE DEF settled, gen
<1>7. Apart(asked)
  BY <1>3, <1>4, <1>6, KeptApart, RefreshApart
<1> HIDE DEF asked
<1>8. Kept(asked, saved)
  BY <1>7 DEF Apart, Core, Kept, IsTab, TabField, IsView
<1> HIDE DEF saved
<1> QED
  BY <1>3, <1>5, <1>7, <1>8, KeptBecomesApart, KeptApart, BecomesApart

LEMMA CheckListKeeps == ASSUME Apart(tab), NEW overtaken, CheckList(overtaken) PROVE Apart(tab')
<1>1. tab.shown = tab.live /\ Becomes(Refresh(tab, tab.shown.gen, overtaken))
  BY DEF CheckList, Press
<1> QED
  BY <1>1, RefreshApart, BecomesApart

-----------------------------------------------------------------------------
(* The label editor. *)

LEMMA OpenKeeps ==
  ASSUME Apart(tab), NEW id, OpenEditor(id) \/ OpenRemoval(id)
  PROVE  Apart(tab')
<1>1. \/ Becomes([tab EXCEPT !.editing = id, !.notice = ""])
      \/ Becomes([tab EXCEPT !.removing = id, !.notice = ""])
  BY DEF OpenEditor, OpenRemoval
<1>2. /\ Kept(tab, [tab EXCEPT !.editing = id, !.notice = ""])
      /\ Kept(tab, [tab EXCEPT !.removing = id, !.notice = ""])
  BY DEF Apart, Core, Kept, IsTab, TabField
<1> QED
  BY <1>1, <1>2, KeptBecomesApart

LEMMA CloseKeeps ==
  ASSUME Apart(tab), CloseEditor \/ CancelRemoval
  PROVE  Apart(tab')
<1>1. \/ Becomes([tab EXCEPT !.editing = 0])
      \/ Becomes([tab EXCEPT !.removing = 0, !.pending = FALSE])
  BY DEF CloseEditor, CancelRemoval
<1>2. Kept(tab, [tab EXCEPT !.editing = 0])
  BY DEF Apart, Core, Kept, IsTab, TabField
<1>3. Kept(tab, [tab EXCEPT !.removing = 0, !.pending = FALSE])
  BY DEF Apart, Core, Kept, IsTab, TabField
<1> QED
  BY <1>1, <1>2, <1>3, KeptBecomesApart

\* A request for the row is of the identity that is on screen when it is pressed.
LEMMA AskKeeps ==
  ASSUME Apart(tab), tab.shown = tab.live, NEW kind, NEW id, NEW label, NEW t, Becomes(t),
         IsTab(t), t.shown = tab.shown, t.live = tab.live, t.queries = tab.queries,
         t.formReq = tab.formReq, t.rowReq = Ask(kind, id, label)
  PROVE  Apart(tab')
<1>1. IsRequest(t.rowReq) /\ t.rowReq.gen = tab.live.gen
  BY DEF Ask, IsRequest
<1>2. RequestsOK(t) /\ FormOf(t, tab.live.gen) /\ RenameOf(t, tab.live.gen)
  BY <1>1 DEF Apart, RequestsOK, FormOf, RenameOf
<1> QED
  BY <1>2, RequestBecomesApart DEF Apart, Core

LEMMA SubmitLabelKeeps == ASSUME Apart(tab), SubmitLabel PROVE Apart(tab')
<1>1. PICK req, waiters, editor :
        /\ req = Ask("patch", tab.editing, "new")
        /\ Becomes([tab EXCEPT !.rowReq = req, !.waiters = waiters, !.editor = editor])
  BY DEF SubmitLabel
<1>2. tab.shown = tab.live
  BY DEF SubmitLabel, Press
<1> DEFINE t == [tab EXCEPT !.rowReq = req, !.waiters = waiters, !.editor = editor]
<1>3. /\ IsTab(t) /\ t.shown = tab.shown /\ t.live = tab.live /\ t.queries = tab.queries
      /\ t.formReq = tab.formReq /\ t.rowReq = req
  BY DEF Apart, Core, IsTab, TabField
<1>4. Becomes(t)
  BY <1>1
<1> HIDE DEF t
<1> QED
  BY <1>1, <1>2, <1>3, <1>4, AskKeeps

LEMMA SubmitInvalidLabelKeeps == ASSUME Apart(tab), SubmitInvalidLabel PROVE Apart(tab')
<1>1. PICK waiters, editor : Becomes([tab EXCEPT !.waiters = waiters, !.editor = editor])
  BY DEF SubmitInvalidLabel
<1>2. Kept(tab, [tab EXCEPT !.waiters = waiters, !.editor = editor])
  BY DEF Apart, Core, Kept, IsTab, TabField
<1> QED
  BY <1>1, <1>2, KeptBecomesApart

LEMMA LabelAnsweredKeeps ==
  ASSUME Apart(tab), NEW answer, NEW overtaken, LabelAnswered(answer, overtaken)
  PROVE  Apart(tab')
<1> DEFINE free == [tab EXCEPT !.rowReq = None]
           gen == tab.rowReq.gen
           asked == Refresh(free, gen, overtaken)
           updated == [asked EXCEPT !.editing = 0, !.notice = "updated"]
<1>1. PICK editor : Becomes(updated) \/ Becomes([free EXCEPT !.editor = editor])
  BY DEF LabelAnswered, HandleUpdated
<1>2. gen = tab.live.gen
  BY DEF LabelAnswered, Apart, RenameOf
<1>3. Kept(tab, free) /\ free.live = tab.live
  BY DEF Apart, Core, Kept, IsTab, TabField
<1> DEFINE failed == [free EXCEPT !.editor = editor]
<1>4. Kept(tab, failed)
  BY DEF Apart, Core, Kept, IsTab, TabField
<1> HIDE DEF free, failed, gen
<1>5. Apart(asked)
  BY <1>2, <1>3, KeptApart, RefreshApart
<1> HIDE DEF asked
<1>6. Kept(asked, updated)
  BY <1>5 DEF Apart, Core, Kept, IsTab, TabField
<1>7. Becomes(updated) \/ Becomes(failed)
  BY <1>1 DEF failed
<1> HIDE DEF updated
<1> QED
  BY <1>4, <1>5, <1>6, <1>7, KeptBecomesApart, KeptApart, BecomesApart

LEMMA ReadBackKeeps == ASSUME Apart(tab), NEW overtaken, ReadBack(overtaken) PROVE Apart(tab')
<1> DEFINE unheard == Unheard(tab.waiters)
           quiet == [tab EXCEPT !.waiters = unheard]
           told == Refresh(quiet, tab.shown.gen, overtaken)
<1>1. PICK check :
        Becomes([told EXCEPT !.waiters = @ \union {check},
                             !.editor = [@ EXCEPT !.read = "reading", !.found = None]])
  BY DEF ReadBack
<1>2. tab.shown = tab.live
  BY DEF ReadBack, Press
<1> HIDE DEF unheard
<1>3. Kept(tab, quiet) /\ quiet.live = tab.live
  BY DEF Apart, Core, Kept, IsTab, TabField
<1> HIDE DEF quiet
<1>4. Apart(told)
  BY <1>2, <1>3, KeptApart, RefreshApart
<1> HIDE DEF told
<1>5. Kept(told, [told EXCEPT !.waiters = @ \union {check},
                              !.editor = [@ EXCEPT !.read = "reading", !.found = None]])
  BY <1>4 DEF Apart, Core, Kept, IsTab, TabField
<1> QED
  BY <1>1, <1>4, <1>5, KeptApart, BecomesApart

-----------------------------------------------------------------------------
(* The removal confirmation. *)

LEMMA PanelAsksKeep == ASSUME Apart(tab), Remove \/ Verify PROVE Apart(tab')
<1>1. PICK kind, id, pending, panel :
        Becomes([tab EXCEPT !.rowReq = Ask(kind, id, "old"), !.pending = pending, !.panel = panel])
  <2>1. CASE Remove
    BY <2>1 DEF Remove
  <2>2. CASE Verify
    <3> DEFINE req == Ask("get", tab.removing, "old")
               panel == [tab.panel EXCEPT !.check = "checking"]
    <3>1. Becomes([tab EXCEPT !.rowReq = req, !.panel.check = "checking"])
      BY <2>2 DEF Verify
    <3> HIDE DEF req
    <3>2. [tab EXCEPT !.rowReq = req, !.panel.check = "checking"]
            = [tab EXCEPT !.rowReq = req, !.pending = tab.pending, !.panel = panel]
      BY DEF Apart, Core, IsTab, TabField
    <3> HIDE DEF panel
    <3>3. Becomes([tab EXCEPT !.rowReq = req, !.pending = tab.pending, !.panel = panel])
      BY <3>1, <3>2
    <3> QED
      BY <3>3, Zenon DEF req
  <2> QED
    BY <2>1, <2>2
<1>2. tab.shown = tab.live
  BY DEF Remove, Verify, Press
<1> DEFINE req == Ask(kind, id, "old")
           t == [tab EXCEPT !.rowReq = req, !.pending = pending, !.panel = panel]
<1>3. Becomes(t)
  BY <1>1
<1>4. req = Ask(kind, id, "old")
  OBVIOUS
<1> HIDE DEF req
<1>5. /\ IsTab(t) /\ t.shown = tab.shown /\ t.live = tab.live /\ t.queries = tab.queries
      /\ t.formReq = tab.formReq /\ t.rowReq = req
  BY DEF Apart, Core, IsTab, TabField
<1> HIDE DEF t
<1> QED
  BY <1>2, <1>3, <1>4, <1>5, AskKeeps

LEMMA ServeRowKeeps == ASSUME Apart(tab), NEW reply, ServeRow(reply) PROVE Apart(tab')
<1> DEFINE req == [tab.rowReq EXCEPT !.answer = reply]
<1>1. tab.rowReq # None /\ tab' = [tab EXCEPT !.rowReq = req]
  BY DEF ServeRow
<1>2. /\ IsRequest(req) /\ req.gen = tab.rowReq.gen /\ req.kind = tab.rowReq.kind
  BY <1>1 DEF Apart, RequestsOK, IsRequest
<1> HIDE DEF req
<1>3. /\ IsTab(tab') /\ tab'.shown = tab.shown /\ tab'.live = tab.live
      /\ tab'.queries = tab.queries /\ tab'.formReq = tab.formReq /\ tab'.rowReq = req
  BY <1>1 DEF Apart, Core, IsTab, TabField
<1> QED
  BY <1>1, <1>2, <1>3 DEF Apart, Core, RequestsOK, FormOf, RenameOf

\* What a row that is gone closes, and the pages it asks for again.
LEMMA GoneKeeps ==
  ASSUME Apart(tab), NEW how, NEW overtaken, Becomes(Gone(tab, how, overtaken))
  PROVE  Apart(tab')
<1> DEFINE settled == tab.settled \union {[id |-> tab.removing, page |-> tab.shown.page]}
           gone == tab.gone \union {tab.removing}
           closed == [tab EXCEPT !.removing = 0, !.pending = FALSE, !.rowReq = None,
                                 !.settled = settled, !.gone = gone]
           noticed == [closed EXCEPT !.notice = how]
           told == Refresh(noticed, tab.shown.gen, overtaken)
           waits == [told EXCEPT !.waiters = @ \union {SettleOf(tab.shown)}]
<1>1. Gone(tab, how, overtaken) = IF tab.shown # tab.live THEN closed ELSE waits
  BY DEF Gone
<1> HIDE DEF settled, gone
<1>2. Kept(tab, closed) /\ Kept(tab, noticed)
  BY DEF Apart, Core, Kept, IsTab, TabField
<1> HIDE DEF closed, noticed
<1>3. CASE tab.shown # tab.live
  BY <1>1, <1>2, <1>3, KeptBecomesApart
<1>4. CASE tab.shown = tab.live
  <2>1. Apart(told)
    BY <1>2, <1>4, KeptApart, RefreshApart DEF Kept
  <2> HIDE DEF told
  <2>2. Kept(told, waits)
    BY <2>1 DEF Apart, Core, Kept, IsTab, TabField
  <2> HIDE DEF waits
  <2> QED
    BY <1>1, <1>4, <2>1, <2>2, KeptApart, BecomesApart
<1> QED
  BY <1>3, <1>4

LEMMA RowAnswersKeep ==
  ASSUME Apart(tab), NEW answer, NEW overtaken,
         RemovalAnswered(answer, overtaken) \/ CheckAnswered(answer, overtaken)
  PROVE  Apart(tab')
<1>1. CASE RemovalAnswered(answer, overtaken)
  <2>1. PICK state :
          \/ Becomes(Gone(tab, "removed", overtaken))
          \/ Becomes(Gone(tab, "unavailable", overtaken))
          \/ Becomes([tab EXCEPT !.rowReq = None, !.pending = FALSE, !.panel.state = state])
    BY <1>1 DEF RemovalAnswered
  <2>2. Kept(tab, [tab EXCEPT !.rowReq = None, !.pending = FALSE, !.panel.state = state])
    BY DEF Apart, Core, Kept, IsTab, TabField
  <2> QED
    BY <2>1, <2>2, GoneKeeps, KeptBecomesApart
<1>2. CASE CheckAnswered(answer, overtaken)
  <2>1. PICK check :
          \/ Becomes(Gone(tab, "unavailable", overtaken))
          \/ Becomes([tab EXCEPT !.rowReq = None, !.panel.check = check])
    BY <1>2 DEF CheckAnswered
  <2>2. Kept(tab, [tab EXCEPT !.rowReq = None, !.panel.check = check])
    BY DEF Apart, Core, Kept, IsTab, TabField
  <2> QED
    BY <2>1, <2>2, GoneKeeps, KeptBecomesApart
<1> QED
  BY <1>1, <1>2

-----------------------------------------------------------------------------
(* The effects of a change of identity or page. *)

LEMMA CacheEffectsKeep ==
  ASSUME NEW t, Core(t)
  PROVE  LET u == CacheEffects(t) IN
         /\ Core(u) /\ u.shown = t.shown /\ u.live = t.shown
         /\ u.formReq = t.formReq /\ u.rowReq = t.rowReq
<1> DEFINE left == {key \in QueryKey : /\ t.queries[key] # None /\ key # Key(t.shown)
                                       /\ key = Key(t.live) \/ t.shown.gen # t.live.gen}
           queries == [key \in QueryKey |->
                         IF key \in left THEN None
                         ELSE IF key = Key(t.shown) THEN Started(t.queries[key])
                         ELSE t.queries[key]]
           moved == [t EXCEPT !.live = t.shown, !.queries = queries]
<1>1. CacheEffects(t) = Heard(moved, left, "cancelled", None)
  BY DEF CacheEffects
<1>2. CacheOK(queries)
  <2>1. \A key \in QueryKey : OfItsKey(key, None)
    BY DEF OfItsKey
  <2>2. \A key \in QueryKey : OfItsKey(key, queries[key])
    BY <2>1, StartedIsOfItsKey DEF Core, CacheOK
  <2> QED
    BY <2>2 DEF CacheOK
<1>3. ReadsAreOf(queries, t.shown.gen)
  <2>1. ASSUME NEW key \in QueryKey, queries[key] # None, queries[key].fetch # None
        PROVE  key[1] = t.shown.gen
    <3>1. CASE key = Key(t.shown)
      BY <3>1, KeyIsAKey DEF Core
    <3>2. CASE key # Key(t.shown)
      BY <2>1, <3>2 DEF Core, ReadsAreOf
    <3> QED
      BY <3>1, <3>2
  <2> QED
    BY <2>1 DEF ReadsAreOf
<1> HIDE DEF queries, left
<1>4. /\ IsTab(moved) /\ moved.queries = queries /\ moved.live = t.shown
      /\ moved.shown = t.shown /\ moved.formReq = t.formReq /\ moved.rowReq = t.rowReq
  BY DEF Core, IsTab, TabField
<1> HIDE DEF moved
<1>5. Core(moved)
  BY <1>2, <1>3, <1>4 DEF Core
<1> QED
  BY <1>1, <1>4, <1>5, HeardKeeps DEF SameRequests

\* A new identity starts with no request of the form and with no editor, so that the
\* rename of the retired one, if it is still on the wire, has nobody left to answer.
LEMMA RunEffectsKeep == ASSUME Apart(tab), RunEffects PROVE Apart(tab')
<1> DEFINE u == CacheEffects(tab)
           formed == [u EXCEPT !.form = NewForm, !.formReq = None]
           new == [formed EXCEPT !.editing = 0, !.removing = 0, !.pending = FALSE,
                                 !.settled = {}, !.notice = "", !.gone = {}]
<1>1. Becomes(IF tab.shown.gen = tab.live.gen THEN u ELSE new)
  BY DEF RunEffects, AfterEffects, PageForNewIdentity, FormForNewIdentity
<1>2. /\ Core(u) /\ u.shown = tab.shown /\ u.live = tab.shown
      /\ u.formReq = tab.formReq /\ u.rowReq = tab.rowReq
  BY CacheEffectsKeep DEF Apart
<1> HIDE DEF u
<1>3. CASE tab.shown.gen = tab.live.gen
  <2>1. Apart(u)
    BY <1>2, <1>3 DEF Apart, RequestsOK, FormOf, RenameOf
  <2> QED
    BY <1>1, <1>3, <2>1, BecomesApart
<1>4. CASE tab.shown.gen # tab.live.gen
  <2>1. /\ IsTab(formed) /\ formed.shown = u.shown /\ formed.live = u.live
        /\ formed.queries = u.queries /\ formed.formReq = None /\ formed.rowReq = u.rowReq
    BY <1>2 DEF Core, IsTab, TabField
  <2> HIDE DEF formed
  <2>2. /\ IsTab(new) /\ new.shown = u.shown /\ new.live = u.live
        /\ new.queries = u.queries /\ new.formReq = None /\ new.rowReq = u.rowReq
        /\ new.editing = 0
    BY <2>1 DEF IsTab, TabField
  <2> HIDE DEF new
  <2>3. Core(new) /\ RequestsOK(new) /\ FormOf(new, new.live.gen) /\ new.shown = new.live
    BY <1>2, <2>2 DEF Apart, Core, RequestsOK, FormOf
  <2>4. tab' = Rendered(new)
    BY <1>1, <1>4 DEF Becomes
  <2> QED
    BY <2>2, <2>3, <2>4, RenderedKeeps
<1> QED
  BY <1>3, <1>4

-----------------------------------------------------------------------------
(* The screen. *)

LEMMA InitApart == ASSUME PageInit PROVE Apart(tab)
<1>1. IsTab(tab) /\ IsView(tab.shown) /\ IsView(tab.live)
  BY DEF PageInit, IsTab, TabField, IsView
<1>2. tab.queries = [key \in QueryKey |-> None] /\ tab.formReq = None /\ tab.rowReq = None
  BY DEF PageInit
<1>3. CacheOK(tab.queries) /\ ReadsAreOf(tab.queries, tab.live.gen)
  BY <1>2 DEF CacheOK, OfItsKey, ReadsAreOf
<1> QED
  BY <1>1, <1>2, <1>3 DEF Apart, Core, RequestsOK, FormOf, RenameOf

LEMMA PageNextKeeps == ASSUME Apart(tab), PageNext PROVE Apart(tab')
<1>1. CASE FormPresses
  BY <1>1, SubmitCreateKeeps, SubmitInvalidDraftKeeps, CheckListKeeps DEF FormPresses
<1>2. CASE EditorPresses
  BY <1>2, CloseKeeps, SubmitLabelKeeps, SubmitInvalidLabelKeeps, ReadBackKeeps DEF EditorPresses
<1>3. CASE PanelPresses
  BY <1>3, CloseKeeps, PanelAsksKeep DEF PanelPresses
<1>4. CASE PagePresses
  BY <1>4, TurnPageKeeps, RetryListKeeps, OpenKeeps DEF PagePresses
<1>5. CASE Serves
  <2>1. LateWrite => tab' = tab
    BY DEF LateWrite
  <2> QED
    BY <1>5, <2>1, ReadsListKeeps, ServeCreateKeeps, ServeRowKeeps DEF Serves, ReadsList
<1>6. CASE ListEnds
  BY <1>6, ListAnswersKeeps DEF ListEnds
<1>7. CASE RowAnswers
  BY <1>7, LabelAnsweredKeeps, RowAnswersKeep DEF RowAnswers
<1>8. CASE CreateAnswers
  BY <1>8, CreateAnsweredKeeps DEF CreateAnswers
<1>9. CASE SessionChanges \/ RunEffects
  BY <1>9, SessionChangesKeep, RunEffectsKeep
<1> QED
  BY <1>1, <1>2, <1>3, <1>4, <1>5, <1>6, <1>7, <1>8, <1>9 DEF PageNext

LEMMA ApartMeansApart == ASSUME Apart(tab) PROVE IdentitiesAreApart
<1>1. RowsOfThePresentedIdentity
  <2>1. CASE Data(tab) = None
    BY <2>1 DEF RowsOfThePresentedIdentity
  <2>2. CASE Data(tab) # None
    <3> DEFINE key == Key(tab.shown)
    <3>1. key \in QueryKey /\ tab.queries[key] # None /\ Data(tab) = tab.queries[key].data
      BY <2>2 DEF Data
    <3>2. key[1] = tab.shown.gen
      BY KeyIsAKey DEF Apart, Core
    <3> HIDE DEF key
    <3> QED
      BY <2>2, <3>1, <3>2 DEF RowsOfThePresentedIdentity, Apart, Core, CacheOK, OfItsKey
  <2> QED
    BY <2>1, <2>2
<1>2. NoReadForRetiredIdentity
  BY DEF NoReadForRetiredIdentity, Apart, Core, ReadsAreOf
<1> QED
  BY <1>1, <1>2 DEF IdentitiesAreApart

\* Rows that are on screen were read with the credential of the identity they are
\* shown to, and once a change of identity has taken effect nothing reads for the
\* retired one: identityKeys.ts, IdentityCacheGuard and readBackWallet.
THEOREM IdentitySafety == Spec => []IdentitiesAreApart
<1>1. Init => Apart(tab)
  BY InitApart DEF Init
<1>2. Apart(tab) /\ [Next]_vars => Apart(tab)'
  <2>1. ASSUME Apart(tab), [Next]_vars PROVE Apart(tab')
    <3>1. CASE UNCHANGED pageVars
      BY <2>1, <3>1 DEF pageVars
    <3>2. CASE PageStep
      BY <2>1, <3>2, PageNextKeeps DEF PageStep
    <3> QED
      BY <2>1, <3>1, <3>2 DEF Next, CallStep, OpenScreen, vars
  <2> QED
    BY <2>1
<1>3. Apart(tab) => IdentitiesAreApart
  BY ApartMeansApart
<1> QED
  BY <1>1, <1>2, <1>3, PTL DEF Spec

-----------------------------------------------------------------------------
\* The records two tabs agree on.
Same(t, u, fields) == \A field \in fields : u[field] = t[field]

-----------------------------------------------------------------------------
(* The server. *)

Saved(s) == Initial \union s.created

ServerOK(s) ==
    /\ s = [field \in {"rows", "version", "created"} |-> s[field]]
    /\ DOMAIN s.rows \subseteq Saved(s) /\ Saved(s) \subseteq Wallet
    /\ s.version \in Nat

\* What the writes of anybody have in common: no saved record comes back.
Later(s, next) ==
    /\ Saved(s) \subseteq Saved(next)
    /\ DOMAIN next.rows \intersect Saved(s) \subseteq DOMAIN s.rows
    /\ s.version <= next.version

LEMMA LaterIsReflexive == ASSUME ServerOK(server) PROVE Later(server, server)
BY DEF ServerOK, Later

LEMMA InsertIsLater ==
  ASSUME ServerOK(server), InsertRow
  PROVE  ServerOK(server') /\ Later(server, server')
<1>1. PICK id \in Unsaved :
        server' = [rows |-> With(server.rows, id, "old"), version |-> server.version + 1,
                   created |-> server.created \union {id}]
  BY DEF InsertRow
<1>2. id \in Wallet /\ id \notin Saved(server)
  BY DEF Unsaved, Saved
<1>3. DOMAIN With(server.rows, id, "old") = DOMAIN server.rows \union {id}
  BY DEF With
<1>4. /\ DOMAIN server'.rows = DOMAIN server.rows \union {id}
      /\ Saved(server') = Saved(server) \union {id}
      /\ server'.version = server.version + 1
  BY <1>1, <1>3 DEF Saved
<1>5. server' = [field \in {"rows", "version", "created"} |-> server'[field]]
  BY <1>1
<1> QED
  BY <1>2, <1>4, <1>5 DEF ServerOK, Later

LEMMA UpdateIsLater ==
  ASSUME ServerOK(server), NEW write, UpdateRow(write)
  PROVE  ServerOK(server') /\ Later(server, server')
<1> DEFINE updated == With(server.rows, write.id, write.label)
<1>1. DOMAIN updated = DOMAIN server.rows
  BY DEF With, UpdateRow
<1>2. server' = [server EXCEPT !.rows = updated, !.version = @ + 1]
  BY DEF UpdateRow
<1> HIDE DEF updated
<1>3. /\ server' = [field \in {"rows", "version", "created"} |-> server'[field]]
      /\ server'.rows = updated /\ server'.created = server.created
      /\ server'.version = server.version + 1
  BY <1>2 DEF ServerOK
<1> QED
  BY <1>1, <1>3 DEF ServerOK, Later, Saved

LEMMA DeleteIsLater ==
  ASSUME ServerOK(server), NEW write, DeleteRow(write)
  PROVE  /\ ServerOK(server') /\ Later(server, server')
         /\ write.id \notin DOMAIN server'.rows
<1> DEFINE kept == Without(server.rows, write.id)
<1>1. DOMAIN kept = DOMAIN server.rows \ {write.id}
  BY DEF Without
<1>2. server' = [server EXCEPT !.rows = kept, !.version = @ + 1]
  BY DEF DeleteRow
<1> HIDE DEF kept
<1>3. /\ server' = [field \in {"rows", "version", "created"} |-> server'[field]]
      /\ server'.rows = kept /\ server'.created = server.created
      /\ server'.version = server.version + 1
  BY <1>2 DEF ServerOK
<1> QED
  BY <1>1, <1>3 DEF ServerOK, Later, Saved

-----------------------------------------------------------------------------
(* A record that is gone. *)

\* The one entry of the cache is that of the view whose effects have run.
OneEntry(t) == \A key \in QueryKey : t.queries[key] # None => key = Key(t.live)

\* An entry of the cache shows a record, or is about to.
Holds(q, id) ==
    /\ q # None
    /\ \/ q.data # None /\ id \in DOMAIN q.data.rows
       \/ q.fetch # None /\ q.fetch.snap # None /\ id \in DOMAIN q.fetch.snap.rows

Held(t, id) == \E key \in QueryKey : Holds(t.queries[key], id)

\* A record that is gone stays marked until no read can show it any more.
Marked(t, id) == \E entry \in t.settled : entry.id = id

\* No read of the page a marked record was removed from is from before its removal.
ReadsAreLater(t) ==
    t.shown.gen = t.live.gen =>
      \A entry \in t.settled : \A key \in QueryKey :
         LET q == t.queries[key]
         IN  key[2] = entry.page /\ q # None /\ q.fetch # None /\ q.fetch.snap # None
               => entry.id \notin DOMAIN q.fetch.snap.rows

GoneOK(t, s) ==
    /\ \A entry \in t.settled : entry.id \in t.gone
    /\ \A id \in t.gone : /\ id \in Saved(s) /\ id \notin DOMAIN s.rows
                          /\ Held(t, id) => Marked(t, id)
    /\ t.removing # 0 => t.removing \in Saved(s) /\ t.removing \notin t.gone
    /\ \A id : Held(t, id) => id \in Saved(s)

\* What the API has answered a removal, or the read after it, is so.
SaysGone(request) ==
    /\ request # None /\ request.kind # "patch"
    /\ request.answer \in {Answer(404, "RESOURCE_NOT_FOUND"), Answer(204, "none")}

VerdictOK(t, s) == SaysGone(t.rowReq) => t.rowReq.id \notin DOMAIN s.rows

\* The request of the confirmation is for the record it was opened for.
RequestOfPanel(t) ==
    t.rowReq # None /\ t.rowReq.kind # "patch" => t.removing = 0 \/ t.rowReq.id = t.removing

PanelOK(t) ==
    /\ t.panel # None => t.removing # 0 /\ Drawn(t, t.removing)
    /\ t.rowReq # None /\ t.rowReq.kind # "patch" => t.panel # None /\ t.rowReq.id = t.removing

\* What holds of a tab that is about to be drawn, and what drawing it adds.
RemovalPart(t, s) == OneEntry(t) /\ GoneOK(t, s) /\ VerdictOK(t, s) /\ RequestOfPanel(t)
RemovalReady(t, s) == RemovalPart(t, s) /\ ReadsAreLater(t)
RemovalOK(t, s) == RemovalReady(t, s) /\ PanelOK(t)

LEMMA RenderedRemoval ==
  ASSUME NEW t, NEW s, Core(t), RemovalReady(t, s)
  PROVE  /\ RemovalOK(Rendered(t), s)
         /\ Rendered(t).shown = t.shown /\ Rendered(t).live = t.live
<1> DEFINE r == Retired(t)
           n == RowForms(r)
           m == Mounted(r)
           missing(id) == id # 0 /\ Data(t) # None /\ ~Drawn(t, id)
           drops(entry) == /\ Data(t) # None /\ entry.page = t.shown.page
                           /\ entry.id \in t.queries[Key(t.shown)].after
                           /\ ~Drawn(t, entry.id)
<1>1. /\ IsTab(r)
      /\ Same(t, r, {"shown", "live", "queries", "rowReq", "gone", "panel"})
      /\ r.removing = (IF missing(t.removing) THEN 0 ELSE t.removing)
      /\ r.settled = {entry \in t.settled : ~drops(entry)}
  BY DEF Core, IsTab, TabField, Retired, Same
<1>2. Data(r) = Data(t) /\ \A id : Drawn(r, id) = Drawn(t, id)
  BY <1>1 DEF Data, Drawn, Same
<1> HIDE DEF r
<1>3. /\ IsTab(n)
      /\ Same(r, n, {"shown", "live", "queries", "rowReq", "gone", "settled", "removing"})
      /\ n.panel # None => r.removing # 0 /\ Drawn(r, r.removing)
  BY <1>1 DEF IsTab, TabField, RowForms, Same
<1>4. PICK pending, waiters, form, owned :
        /\ m = [[n EXCEPT !.pending = pending]
                   EXCEPT !.rowReq = IF owned THEN n.rowReq ELSE None,
                          !.waiters = waiters, !.form = form]
        /\ owned = IF r.rowReq = None THEN TRUE
                   ELSE IF r.rowReq.kind = "patch" THEN n.editor # None \/ r.shown # r.live
                   ELSE [n EXCEPT !.pending = pending].panel # None
  <2> HIDE DEF n
  <2> QED
    BY <1>3 DEF Mounted, n, IsTab, TabField, Same
<1> HIDE DEF n, m
<1>5. /\ Same(r, m, {"shown", "live", "queries", "gone", "settled", "removing"})
      /\ m.panel = n.panel
      /\ m.rowReq = (IF owned THEN r.rowReq ELSE None)
  BY <1>3, <1>4 DEF IsTab, TabField, Same
<1>6. /\ m.shown = t.shown /\ m.live = t.live /\ m.queries = t.queries /\ m.gone = t.gone
      /\ m.settled = {entry \in t.settled : ~drops(entry)}
      /\ m.removing \in {t.removing, 0} /\ m.rowReq \in {t.rowReq, None}
  BY <1>1, <1>5 DEF Same
<1>7. OneEntry(m) /\ VerdictOK(m, s)
  <2>1. OneEntry(m)
    BY <1>6 DEF RemovalReady, RemovalPart, OneEntry
  <2>2. m.rowReq # None => m.rowReq = t.rowReq
    BY <1>6
  <2> QED
    BY <2>1, <2>2 DEF RemovalReady, RemovalPart, VerdictOK, SaysGone
<1>8. PanelOK(m)
  <2>1. Data(m) = Data(r) /\ \A id : Drawn(m, id) = Drawn(r, id)
    BY <1>5 DEF Data, Drawn, Same
  <2>2. m.panel # None => m.removing # 0 /\ Drawn(m, m.removing)
    BY <1>3, <1>5, <2>1 DEF Same
  <2>3. m.rowReq # None /\ m.rowReq.kind # "patch" => m.panel # None
    <3>1. [n EXCEPT !.pending = pending].panel = n.panel
      BY <1>3 DEF IsTab, TabField
    <3> QED
      BY <3>1, <1>4, <1>5
  <2> QED
    BY <2>2, <2>3, <1>6 DEF PanelOK, RemovalReady, RemovalPart, RequestOfPanel
<1>9. GoneOK(m, s)
  <2>1. \A id : Held(m, id) = Held(t, id)
    BY <1>6 DEF Held
  <2>2. ASSUME NEW entry \in t.settled, drops(entry) PROVE ~Held(t, entry.id)
    <3> DEFINE key == Key(t.shown)
    <3>1. key \in QueryKey /\ t.queries[key] # None /\ Data(t) = t.queries[key].data
      BY <2>2 DEF Data
    <3>2. key = Key(t.live)
      BY <3>1 DEF RemovalReady, RemovalPart, OneEntry
    <3>3. t.shown.gen = t.live.gen /\ key[2] = entry.page
      BY <2>2, <3>2 DEF Key
    <3>4. ~Holds(t.queries[key], entry.id)
      <4> HIDE DEF key
      <4>1. entry.id \notin DOMAIN t.queries[key].data.rows
        BY <2>2, <3>1 DEF Drawn
      <4> QED
        BY <4>1, <3>1, <3>3 DEF Holds, RemovalReady, RemovalPart, GoneOK, ReadsAreLater
    <3>5. \A other \in QueryKey : t.queries[other] # None => other = key
      BY <3>2 DEF RemovalReady, RemovalPart, OneEntry
    <3> HIDE DEF key
    <3> QED
      BY <3>4, <3>5 DEF Held, Holds
  <2>3. \A id \in t.gone : Held(t, id) => Marked(m, id)
    BY <2>2, <1>6 DEF RemovalReady, RemovalPart, GoneOK, Marked
  <2> QED
    BY <1>6, <2>1, <2>3 DEF RemovalReady, RemovalPart, GoneOK
<1>10. ReadsAreLater(m)
  BY <1>6 DEF RemovalReady, RemovalPart, ReadsAreLater
<1> QED
  BY <1>6, <1>7, <1>8, <1>9, <1>10 DEF RemovalOK, RemovalReady, RemovalPart, PanelOK, RequestOfPanel, Rendered, m, r

-----------------------------------------------------------------------------
(* None is no record. *)

NoneIsNoRecord == None # [field \in DOMAIN None |-> None[field]]

LEMMA RecordIsNotNone ==
  ASSUME NoneIsNoRecord, NEW fields, NEW r, r = [field \in fields |-> r[field]]
  PROVE  r # None
<1>1. DOMAIN r = fields
  OBVIOUS
<1> QED
  BY <1>1 DEF NoneIsNoRecord

LEMMA AskingIsNotNone ==
  ASSUME NoneIsNoRecord
  PROVE  Asking # None /\ \A snap, total : [snap |-> snap, total |-> total] # None
<1>1. ASSUME NEW snap, NEW total PROVE [snap |-> snap, total |-> total] # None
  <2> DEFINE r == [snap |-> snap, total |-> total]
  <2>1. r = [field \in {"snap", "total"} |-> r[field]]
    OBVIOUS
  <2> HIDE DEF r
  <2>2. r # None
    BY <2>1, RecordIsNotNone
  <2> QED
    BY <2>2 DEF r
<1> QED
  BY <1>1 DEF Asking

\* A fetch that is started is running, and has been answered nothing new.
LEMMA StartedIsAsked ==
  ASSUME NoneIsNoRecord, NEW q, q # None => IsQuery(q)
  PROVE  /\ Started(q) # None /\ Started(q).fetch # None
         /\ q # None /\ q.fetch # None => Started(q) = q
         /\ q = None \/ q.fetch = None => Started(q).fetch = Asking
         /\ \A id : Holds(Started(q), id) => Holds(q, id)
<1>1. CASE q = None
  <2> DEFINE new == [Unread EXCEPT !.fetch = Asking]
  <2>1. Started(q) = new
    BY <1>1 DEF Started
  <2>2. IsQuery(new) /\ new.fetch = Asking /\ new.data = None
    BY DEF Unread, IsQuery
  <2> HIDE DEF new
  <2>3. new # None
    BY <2>2, RecordIsNotNone DEF IsQuery
  <2>4. Asking.snap = None
    BY DEF Asking
  <2> QED
    BY <1>1, <2>1, <2>2, <2>3, <2>4, AskingIsNotNone DEF Holds
<1>2. CASE q # None /\ q.fetch # None
  BY <1>2 DEF Started
<1>3. CASE q # None /\ q.fetch = None
  <2> DEFINE new == [q EXCEPT !.fetch = Asking]
  <2>1. Started(q) = new
    BY <1>3 DEF Started
  <2>2. IsQuery(new) /\ new.fetch = Asking /\ new.data = q.data
    BY <1>3 DEF IsQuery
  <2> HIDE DEF new
  <2>3. new # None
    BY <2>2, RecordIsNotNone DEF IsQuery
  <2>4. Asking.snap = None
    BY DEF Asking
  <2> QED
    BY <1>3, <2>1, <2>2, <2>3, <2>4, AskingIsNotNone DEF Holds
<1> QED
  BY <1>1, <1>2, <1>3

\* What the end of fetches leaves alone, and which fetch it starts.
Untouched == {"live", "form", "formReq", "editing", "removing", "pending", "settled", "panel",
              "rowReq", "gone"}

LEMMA HeardEffect ==
  ASSUME NEW t, Core(t), NEW keys, NEW outcome, NEW snap
  PROVE  LET u == Heard(t, keys, outcome, snap) IN
         /\ Same(t, u, Untouched) /\ u.shown.gen = t.shown.gen
         /\ \A key \in QueryKey :
              u.queries[key] # t.queries[key] =>
                key \in keys /\ key = Key(t.live) /\ u.queries[key] = Started(t.queries[key])
<1> DEFINE told == {waiter \in t.waiters : Key(waiter.view) \in keys}
           on == {waiter \in told : ReadsOn(t, waiter)}
           again == {Key(waiter.view) : waiter \in on}
           queries == [key \in QueryKey |-> IF key \in again THEN Started(t.queries[key])
                                                             ELSE t.queries[key]]
<1>1. PICK waiters, editor, notice, page :
        Heard(t, keys, outcome, snap) =
          [t EXCEPT !.waiters = waiters, !.queries = queries, !.editor = editor,
                    !.notice = notice, !.shown.page = page]
  BY Zenon DEF Heard
<1>2. \A key \in again : key \in keys /\ key = Key(t.live)
  BY DEF ReadsOn, ViewIsCurrent
<1>3. \A key \in QueryKey : queries[key] # t.queries[key] =>
        key \in again /\ queries[key] = Started(t.queries[key])
  OBVIOUS
<1> HIDE DEF queries, again
<1> DEFINE u == [t EXCEPT !.waiters = waiters, !.queries = queries, !.editor = editor,
                          !.notice = notice, !.shown.page = page]
<1>4. /\ Same(t, u, Untouched) /\ u.queries = queries
      /\ u.shown = [t.shown EXCEPT !.page = page]
  BY DEF Core, IsTab, TabField, Same, Untouched
<1>5. u.shown.gen = t.shown.gen
  BY <1>4 DEF Core, IsView
<1> HIDE DEF u
<1> QED
  BY <1>1, <1>2, <1>3, <1>4, <1>5 DEF u

\* An entry that is read again, and what a refresh of an identity does.
Renewed(q) == [q EXCEPT !.fetch = Asking]

Refreshed(t, u, gen) ==
    /\ Same(t, u, Untouched) /\ u.shown = t.shown
    /\ \A key \in QueryKey :
         /\ key[1] # gen \/ t.queries[key] = None => u.queries[key] = t.queries[key]
         /\ key[1] = gen /\ t.queries[key] # None => u.queries[key] = Renewed(t.queries[key])

LEMMA RefreshEffect ==
  ASSUME NoneIsNoRecord, NEW t, Core(t), NEW gen, gen = t.live.gen, NEW overtaken
  PROVE  Refreshed(t, Refresh(t, gen, overtaken), gen)
<1> DEFINE keys == {key \in QueryKey : key[1] = gen /\ t.queries[key] # None}
           running == {key \in keys : t.queries[key].fetch # None}
           queries == [key \in QueryKey |->
                         IF key \in keys THEN [t.queries[key] EXCEPT !.fetch = Asking]
                                         ELSE t.queries[key]]
           asked == [t EXCEPT !.queries = queries]
           resumed == Heard(asked, running, "cancelled", None)
           seen == {key \in running : t.queries[key].data # None}
           u == Refresh(t, gen, overtaken)
<1>1. u = IF overtaken THEN Heard(resumed, seen, "cancelled", None) ELSE resumed
  BY DEF Refresh
<1>2. CacheOK(queries)
  <2>1. \A key \in QueryKey : OfItsKey(key, queries[key])
    BY StartedIsOfItsKey DEF Core, CacheOK
  <2> QED
    BY <2>1 DEF CacheOK
<1>3. ReadsAreOf(queries, t.live.gen)
  BY DEF Core, ReadsAreOf
<1>4. ASSUME NEW key \in running PROVE key \in QueryKey /\ Started(queries[key]) = queries[key]
  <2>1. IsQuery(t.queries[key])
    BY DEF Core, CacheOK, OfItsKey
  <2>2. queries[key] = [t.queries[key] EXCEPT !.fetch = Asking]
    OBVIOUS
  <2> HIDE DEF queries
  <2>3. IsQuery(queries[key]) /\ queries[key].fetch = Asking
    BY <2>1, <2>2 DEF IsQuery
  <2>4. queries[key] # None
    BY <2>3, RecordIsNotNone DEF IsQuery
  <2> QED
    BY <2>3, <2>4, StartedIsAsked, AskingIsNotNone
<1>5. \A key \in QueryKey :
        /\ key[1] # gen \/ t.queries[key] = None => queries[key] = t.queries[key]
        /\ key[1] = gen /\ t.queries[key] # None =>
             queries[key] = Renewed(t.queries[key])
  BY DEF Renewed
<1>6. seen \subseteq running
  OBVIOUS
<1> HIDE DEF queries, running, seen
<1>7. /\ IsTab(asked) /\ asked.queries = queries /\ asked.shown = t.shown
      /\ Same(t, asked, Untouched)
  BY DEF Core, IsTab, TabField, Same, Untouched
<1> HIDE DEF asked
<1>8. Core(asked)
  BY <1>2, <1>3, <1>7 DEF Core, Same, Untouched
<1>9. /\ Core(resumed) /\ Same(asked, resumed, Untouched) /\ resumed.shown = asked.shown
      /\ \A key \in QueryKey : resumed.queries[key] = queries[key]
  BY <1>4, <1>7, <1>8, HeardKeeps, HeardEffect
<1> HIDE DEF resumed
<1>10. /\ Same(resumed, u, Untouched) /\ u.shown = resumed.shown
       /\ \A key \in QueryKey : u.queries[key] = queries[key]
  <2>1. CASE overtaken
    <3> DEFINE again == Heard(resumed, seen, "cancelled", None)
    <3>1. Same(resumed, again, Untouched) /\ again.shown = resumed.shown
      BY <1>9, HeardKeeps, HeardEffect
    <3>2. ASSUME NEW key \in QueryKey PROVE again.queries[key] = queries[key]
      <4>1. \/ again.queries[key] = resumed.queries[key]
            \/ key \in seen /\ again.queries[key] = Started(resumed.queries[key])
        BY <1>9, HeardEffect
      <4> HIDE DEF again
      <4> QED
        BY <4>1, <1>4, <1>6, <1>9
    <3> HIDE DEF again
    <3>3. u = again
      BY <2>1, <1>1 DEF again
    <3> QED
      BY <3>1, <3>2, <3>3
  <2>2. CASE ~overtaken
    BY <2>2, <1>1, <1>9 DEF Same
  <2> QED
    BY <2>1, <2>2
<1> HIDE DEF u
<1>11. Same(t, u, Untouched) /\ u.shown = t.shown
  BY <1>7, <1>9, <1>10 DEF Same
<1> QED
  BY <1>5, <1>10, <1>11 DEF u, Refreshed

-----------------------------------------------------------------------------
(* Steps that only close a confirmation, or ask for the list again. *)

Plain(t, u) ==
    /\ IsTab(u) /\ IsView(u.shown) /\ u.shown.gen = t.shown.gen
    /\ Same(t, u, {"live", "queries", "settled", "gone"})
    /\ u.removing \in {t.removing, 0}
    /\ u.rowReq \in {t.rowReq, None} \/ u.rowReq.kind = "patch"

LEMMA PlainKeeps ==
  ASSUME NEW t, NEW u, NEW s, Core(t), RemovalReady(t, s), Plain(t, u)
  PROVE  Core(u) /\ RemovalReady(u, s)
<1>1. /\ u.live = t.live /\ u.queries = t.queries /\ u.settled = t.settled /\ u.gone = t.gone
  BY DEF Plain, Same
<1>2. Core(u)
  BY <1>1 DEF Core, Plain
<1>3. OneEntry(u)
  BY <1>1 DEF RemovalReady, RemovalPart, OneEntry
<1>4. GoneOK(u, s)
  <2>1. \A id : (Held(u, id) <=> Held(t, id)) /\ (Marked(u, id) <=> Marked(t, id))
    BY <1>1 DEF Held, Marked
  <2> QED
    BY <1>1, <2>1 DEF Plain, RemovalReady, RemovalPart, GoneOK
<1>6. ReadsAreLater(u)
  BY <1>1 DEF Plain, RemovalReady, ReadsAreLater
<1>5. VerdictOK(u, s) /\ RequestOfPanel(u)
  BY DEF Plain, RemovalReady, RemovalPart, VerdictOK, SaysGone, RequestOfPanel
<1> QED
  BY <1>2, <1>3, <1>4, <1>5, <1>6 DEF RemovalReady, RemovalPart

\* Entries that hold no more than before, and read nothing from before a removal.
LEMMA FewerHeld ==
  ASSUME NEW t, NEW u, NEW s, RemovalPart(t, s), OneEntry(u), ReadsAreLater(u),
         Same(t, u, {"settled", "gone", "removing", "rowReq"}),
         \A key \in QueryKey : \A id : Holds(u.queries[key], id) => Held(t, id)
  PROVE  RemovalReady(u, s)
<1>1. \A id : Held(u, id) => Held(t, id)
  BY DEF Held
<1>2. /\ u.settled = t.settled /\ u.gone = t.gone /\ u.removing = t.removing
      /\ u.rowReq = t.rowReq
  BY DEF Same
<1> QED
  BY <1>1, <1>2 DEF RemovalReady, RemovalPart, GoneOK, Marked, VerdictOK, RequestOfPanel

LEMMA RefreshRemoval ==
  ASSUME NoneIsNoRecord, NEW t, NEW s, Core(t), RemovalPart(t, s),
         NEW gen, gen = t.live.gen, NEW overtaken
  PROVE  LET u == Refresh(t, gen, overtaken) IN
         /\ Core(u) /\ RemovalReady(u, s) /\ u.shown = t.shown
         /\ \A key \in QueryKey : u.queries[key] # None => u.queries[key].fetch = Asking
<1> DEFINE u == Refresh(t, gen, overtaken)
<1>1. Core(u) /\ Refreshed(t, u, gen)
  BY RefreshKeeps, RefreshEffect
<1> HIDE DEF u
<1>2. /\ u.live = t.live /\ u.shown = t.shown
      /\ Same(t, u, {"settled", "gone", "removing", "rowReq"})
  BY <1>1 DEF Same, Untouched, Refreshed
<1>3. ASSUME NEW key \in QueryKey, u.queries[key] # None
      PROVE  /\ t.queries[key] # None /\ key = Key(t.live)
             /\ u.queries[key] = Renewed(t.queries[key])
  <2>1. t.queries[key] # None
    BY <1>1, <1>3 DEF Refreshed
  <2>2. key = Key(t.live)
    BY <2>1 DEF RemovalReady, RemovalPart, OneEntry
  <2>3. key[1] = gen
    BY <2>2, KeyIsAKey DEF Core
  <2> QED
    BY <1>1, <2>1, <2>2, <2>3 DEF Refreshed
<1>4. ASSUME NEW key \in QueryKey, u.queries[key] # None
      PROVE  u.queries[key].fetch = Asking /\ u.queries[key].data = t.queries[key].data
  <2>1. t.queries[key] # None /\ u.queries[key] = Renewed(t.queries[key])
    BY <1>3, <1>4
  <2>2. IsQuery(t.queries[key])
    BY <2>1 DEF Core, CacheOK, OfItsKey
  <2> QED
    BY <2>1, <2>2 DEF IsQuery, Renewed
<1>5. Asking.snap = None
  BY DEF Asking
<1>6. OneEntry(u)
  BY <1>2, <1>3 DEF OneEntry
<1>7. ReadsAreLater(u)
  BY <1>4, <1>5 DEF ReadsAreLater
<1>8. \A key \in QueryKey : \A id : Holds(u.queries[key], id) => Held(t, id)
  <2>1. ASSUME NEW key \in QueryKey, NEW id, Holds(u.queries[key], id) PROVE Held(t, id)
    BY <1>3, <1>4, <1>5, <2>1 DEF Holds, Held
  <2> QED
    BY <2>1
<1>9. RemovalReady(u, s)
  BY <1>2, <1>6, <1>7, <1>8, FewerHeld
<1> QED
  BY <1>1, <1>2, <1>4, <1>9 DEF u

\* A step that only draws forgets a request of a row, or keeps it.
LEMMA RenderedRequest ==
  ASSUME NEW t, Core(t)
  PROVE  Rendered(t).rowReq \in {t.rowReq, None}
<1> DEFINE r == Retired(t)
           n == RowForms(r)
           m == Mounted(r)
<1>1. IsTab(r) /\ r.rowReq = t.rowReq
  BY DEF Core, IsTab, TabField, Retired
<1> HIDE DEF r
<1>2. IsTab(n) /\ n.rowReq = r.rowReq
  BY <1>1 DEF IsTab, TabField, RowForms
<1>3. PICK pending, waiters, form, owned :
        m = [[n EXCEPT !.pending = pending]
                EXCEPT !.rowReq = IF owned THEN n.rowReq ELSE None,
                       !.waiters = waiters, !.form = form]
  <2> HIDE DEF n
  <2> QED
    BY <1>2 DEF Mounted, n, IsTab, TabField
<1> HIDE DEF n, m
<1> QED
  BY <1>1, <1>2, <1>3 DEF IsTab, TabField, Rendered, m, r

LEMMA BecomesRemoval ==
  ASSUME NEW t, Core(t), RemovalReady(t, server), Becomes(t)
  PROVE  /\ RemovalOK(tab', server) /\ tab'.shown = t.shown /\ tab'.live = t.live
         /\ tab'.rowReq \in {t.rowReq, None}
BY RenderedRemoval, RenderedRequest DEF Becomes

\* Nothing is asked about a record whose removal was confirmed.
AsksOfNoneGone ==
    tab'.rowReq \notin {tab.rowReq, None} /\ tab'.rowReq.kind # "patch"
      => tab'.rowReq.id \notin tab.gone

\* What every step but a change of identity and its effects keeps.
RemovalKept ==
    /\ RemovalOK(tab', server) /\ tab'.shown.gen = tab.shown.gen /\ tab'.live = tab.live
    /\ AsksOfNoneGone

LEMMA PlainBecomes ==
  ASSUME Core(tab), RemovalReady(tab, server), NEW t, Plain(tab, t), Becomes(t)
  PROVE  RemovalKept
BY PlainKeeps, BecomesRemoval DEF Plain, Same, RemovalKept, AsksOfNoneGone

\* Something plain, a refresh, and something plain again.
LEMMA RefreshBecomes ==
  ASSUME NoneIsNoRecord, Core(tab), RemovalReady(tab, server), NEW before, Plain(tab, before),
         NEW gen, gen = tab.live.gen, NEW overtaken,
         NEW after, Plain(Refresh(before, gen, overtaken), after), Becomes(after)
  PROVE  RemovalKept
<1> DEFINE u == Refresh(before, gen, overtaken)
<1>1. /\ Core(before) /\ RemovalReady(before, server)
      /\ before.live = tab.live /\ before.shown.gen = tab.shown.gen
  BY PlainKeeps DEF Plain, Same
<1>2. /\ Core(u) /\ RemovalReady(u, server)
      /\ u.live = tab.live /\ u.shown.gen = tab.shown.gen /\ u.rowReq = before.rowReq
  <2>1. gen = before.live.gen /\ RemovalPart(before, server)
    BY <1>1 DEF RemovalReady
  <2>2. Core(u) /\ RemovalReady(u, server) /\ u.shown = before.shown
    BY <1>1, <2>1, RefreshRemoval
  <2>3. u.live = before.live /\ u.rowReq = before.rowReq
    BY <1>1, <2>1, RefreshKeeps DEF SameRequests
  <2> QED
    BY <1>1, <2>2, <2>3
<1> HIDE DEF u
<1>3. /\ Core(after) /\ RemovalReady(after, server)
      /\ after.live = tab.live /\ after.shown.gen = tab.shown.gen
  BY <1>2, PlainKeeps DEF u, Plain, Same
<1>4. after.rowReq \in {tab.rowReq, None} \/ after.rowReq.kind = "patch"
  BY <1>2 DEF u, Plain
<1> QED
  BY <1>3, <1>4, BecomesRemoval DEF RemovalKept, AsksOfNoneGone

RemovalInv ==
    /\ Apart(tab) /\ ServerOK(server) /\ RemovalOK(tab, server)
    /\ issued \in Nat /\ tab.live.gen \in 0..issued /\ tab.shown.gen \in 0..issued

\* The presses that neither ask for the list nor open a confirmation.
PlainPress ==
    \/ TurnPage \/ SubmitCreate \/ SubmitInvalidDraft \/ CloseEditor \/ CancelRemoval
    \/ SubmitLabel \/ SubmitInvalidLabel \/ \E id \in Wallet : OpenEditor(id)

LEMMA PlainPressKeeps == ASSUME RemovalInv, PlainPress PROVE RemovalKept
<1>1. Core(tab) /\ RemovalReady(tab, server)
  BY DEF RemovalInv, Apart, RemovalOK
<1>2. \E t : Plain(tab, t) /\ Becomes(t)
  <2>1. CASE TurnPage
    <3>1. PICK page : Becomes([tab EXCEPT !.shown.page = page])
      BY <2>1 DEF TurnPage
    <3>2. Plain(tab, [tab EXCEPT !.shown.page = page])
      BY <1>1 DEF Core, IsTab, TabField, IsView, Plain, Same
    <3> QED
      BY <3>1, <3>2
  <2>2. CASE SubmitCreate
    <3>1. PICK form, req : Becomes([tab EXCEPT !.form = form, !.formReq = req])
      BY <2>2 DEF SubmitCreate
    <3>2. Plain(tab, [tab EXCEPT !.form = form, !.formReq = req])
      BY <1>1 DEF Core, IsTab, TabField, Plain, Same
    <3> QED
      BY <3>1, <3>2
  <2>3. CASE SubmitInvalidDraft
    <3>1. PICK form : Becomes([tab EXCEPT !.form = form])
      BY <2>3 DEF SubmitInvalidDraft
    <3>2. Plain(tab, [tab EXCEPT !.form = form])
      BY <1>1 DEF Core, IsTab, TabField, Plain, Same
    <3> QED
      BY <3>1, <3>2
  <2>4. CASE CloseEditor
    <3>1. Becomes([tab EXCEPT !.editing = 0])
      BY <2>4 DEF CloseEditor
    <3>2. Plain(tab, [tab EXCEPT !.editing = 0])
      BY <1>1 DEF Core, IsTab, TabField, Plain, Same
    <3> QED
      BY <3>1, <3>2
  <2>5. CASE CancelRemoval
    <3>1. Becomes([tab EXCEPT !.removing = 0, !.pending = FALSE])
      BY <2>5 DEF CancelRemoval
    <3>2. Plain(tab, [tab EXCEPT !.removing = 0, !.pending = FALSE])
      BY <1>1 DEF Core, IsTab, TabField, Plain, Same
    <3> QED
      BY <3>1, <3>2
  <2>6. CASE SubmitLabel
    <3>1. PICK req, waiters, editor :
            /\ req.kind = "patch"
            /\ Becomes([tab EXCEPT !.rowReq = req, !.waiters = waiters, !.editor = editor])
      BY <2>6 DEF SubmitLabel, Ask
    <3>2. Plain(tab, [tab EXCEPT !.rowReq = req, !.waiters = waiters, !.editor = editor])
      BY <1>1, <3>1 DEF Core, IsTab, TabField, Plain, Same
    <3> QED
      BY <3>1, <3>2
  <2>7. CASE SubmitInvalidLabel
    <3>1. PICK waiters, editor : Becomes([tab EXCEPT !.waiters = waiters, !.editor = editor])
      BY <2>7 DEF SubmitInvalidLabel
    <3>2. Plain(tab, [tab EXCEPT !.waiters = waiters, !.editor = editor])
      BY <1>1 DEF Core, IsTab, TabField, Plain, Same
    <3> QED
      BY <3>1, <3>2
  <2>8. CASE \E id \in Wallet : OpenEditor(id)
    <3>1. PICK id \in Wallet : Becomes([tab EXCEPT !.editing = id, !.notice = ""])
      BY <2>8 DEF OpenEditor
    <3>2. Plain(tab, [tab EXCEPT !.editing = id, !.notice = ""])
      BY <1>1 DEF Core, IsTab, TabField, Plain, Same
    <3> QED
      BY <3>1, <3>2
  <2> QED
    BY <2>1, <2>2, <2>3, <2>4, <2>5, <2>6, <2>7, <2>8 DEF PlainPress
<1> QED
  BY <1>1, <1>2, PlainBecomes

LEMMA CreateAnsweredRemoval ==
  ASSUME NoneIsNoRecord, RemovalInv, NEW answer, NEW overtaken, CreateAnswered(answer, overtaken)
  PROVE  RemovalKept
<1>1. Core(tab) /\ RemovalReady(tab, server)
  BY DEF RemovalInv, Apart, RemovalOK
<1>2. PICK form :
        LET settled == [tab EXCEPT !.formReq = None, !.form = form] IN
        \/ Becomes(HandleSaved(settled, tab.formReq.gen, overtaken))
        \/ Becomes(settled)
  BY DEF CreateAnswered
<1> DEFINE settled == [tab EXCEPT !.formReq = None, !.form = form]
           gen == tab.formReq.gen
           asked == Refresh(settled, gen, overtaken)
           saved == [asked EXCEPT !.shown.page = 1]
<1>3. Becomes(saved) \/ Becomes(settled)
  BY <1>2 DEF HandleSaved
<1>4. Plain(tab, settled)
  BY <1>1 DEF Core, IsTab, TabField, Plain, Same
<1>5. gen = tab.live.gen
  BY DEF CreateAnswered, RemovalInv, Apart, FormOf
<1> HIDE DEF settled, gen
<1>6. Core(settled) /\ settled.live = tab.live
  BY <1>1, <1>4, PlainKeeps DEF Plain, Same
<1>7. Core(asked)
  BY <1>5, <1>6, RefreshKeeps
<1> HIDE DEF asked
<1>8. Plain(asked, saved)
  BY <1>7 DEF Core, IsTab, TabField, IsView, Plain, Same
<1> HIDE DEF saved
<1> QED
  BY <1>1, <1>3, <1>4, <1>5, <1>8, PlainBecomes, RefreshBecomes DEF asked

LEMMA PlainIsReflexive == ASSUME NEW t, Core(t) PROVE Plain(t, t)
BY DEF Core, Plain, Same

LEMMA CheckListRemoval ==
  ASSUME NoneIsNoRecord, RemovalInv, NEW overtaken, CheckList(overtaken)
  PROVE  RemovalKept
<1>1. Core(tab) /\ RemovalReady(tab, server)
  BY DEF RemovalInv, Apart, RemovalOK
<1>2. tab.shown = tab.live /\ Becomes(Refresh(tab, tab.shown.gen, overtaken))
  BY DEF CheckList, Press
<1>3. Core(Refresh(tab, tab.shown.gen, overtaken))
  BY <1>1, <1>2, RefreshKeeps
<1> QED
  BY <1>1, <1>2, <1>3, PlainIsReflexive, RefreshBecomes

LEMMA LabelAnsweredRemoval ==
  ASSUME NoneIsNoRecord, RemovalInv, NEW answer, NEW overtaken, LabelAnswered(answer, overtaken)
  PROVE  RemovalKept
<1>1. Core(tab) /\ RemovalReady(tab, server)
  BY DEF RemovalInv, Apart, RemovalOK
<1> DEFINE free == [tab EXCEPT !.rowReq = None]
           gen == tab.rowReq.gen
           asked == Refresh(free, gen, overtaken)
           updated == [asked EXCEPT !.editing = 0, !.notice = "updated"]
<1>2. PICK editor : Becomes(updated) \/ Becomes([free EXCEPT !.editor = editor])
  BY DEF LabelAnswered, HandleUpdated
<1> DEFINE failed == [free EXCEPT !.editor = editor]
<1>3. gen = tab.live.gen
  BY DEF LabelAnswered, RemovalInv, Apart, RenameOf
<1>4. Plain(tab, free) /\ Plain(tab, failed)
  BY <1>1 DEF Core, IsTab, TabField, Plain, Same
<1>5. Becomes(updated) \/ Becomes(failed)
  BY <1>2
<1> HIDE DEF free, failed, gen
<1>6. Core(free) /\ free.live = tab.live
  BY <1>1, <1>4, PlainKeeps DEF Plain, Same
<1>7. Core(asked)
  BY <1>3, <1>6, RefreshKeeps
<1> HIDE DEF asked
<1>8. Plain(asked, updated)
  BY <1>7 DEF Core, IsTab, TabField, Plain, Same
<1> HIDE DEF updated
<1> QED
  BY <1>1, <1>3, <1>4, <1>5, <1>8, PlainBecomes, RefreshBecomes DEF asked

LEMMA ReadBackRemoval ==
  ASSUME NoneIsNoRecord, RemovalInv, NEW overtaken, ReadBack(overtaken)
  PROVE  RemovalKept
<1>1. Core(tab) /\ RemovalReady(tab, server)
  BY DEF RemovalInv, Apart, RemovalOK
<1> DEFINE unheard == Unheard(tab.waiters)
           quiet == [tab EXCEPT !.waiters = unheard]
           gen == tab.shown.gen
           told == Refresh(quiet, gen, overtaken)
<1>2. PICK check :
        Becomes([told EXCEPT !.waiters = @ \union {check},
                             !.editor = [@ EXCEPT !.read = "reading", !.found = None]])
  BY DEF ReadBack
<1> DEFINE after == [told EXCEPT !.waiters = @ \union {check},
                                 !.editor = [@ EXCEPT !.read = "reading", !.found = None]]
<1>3. gen = tab.live.gen /\ Becomes(after)
  BY <1>2 DEF ReadBack, Press
<1> HIDE DEF unheard, gen
<1>4. Plain(tab, quiet)
  BY <1>1 DEF Core, IsTab, TabField, Plain, Same
<1> HIDE DEF quiet
<1>5. Core(quiet) /\ quiet.live = tab.live
  BY <1>1, <1>4, PlainKeeps DEF Plain, Same
<1>6. Core(told)
  BY <1>3, <1>5, RefreshKeeps
<1> HIDE DEF told
<1>7. Plain(told, after)
  BY <1>6 DEF Core, IsTab, TabField, Plain, Same
<1> HIDE DEF after
<1> QED
  BY <1>1, <1>3, <1>4, <1>7, RefreshBecomes DEF told

-----------------------------------------------------------------------------
(* The confirmation. *)

LEMMA DrawnIsHeld == ASSUME NEW t, NEW id, Drawn(t, id) PROVE Held(t, id)
<1>1. /\ Key(t.shown) \in QueryKey /\ t.queries[Key(t.shown)] # None
      /\ Data(t) = t.queries[Key(t.shown)].data
  BY DEF Drawn, Data
<1> QED
  BY <1>1 DEF Drawn, Held, Holds

LEMMA OpenRemovalKeeps ==
  ASSUME RemovalInv, NEW id \in Wallet, OpenRemoval(id)
  PROVE  RemovalKept
<1> DEFINE t == [tab EXCEPT !.removing = id, !.notice = ""]
<1>1. Core(tab) /\ RemovalReady(tab, server) /\ PanelOK(tab)
  BY DEF RemovalInv, Apart, RemovalOK
<1>2. /\ Becomes(t) /\ Drawn(tab, id) /\ tab.removing = 0
      /\ \A entry \in tab.settled : entry.id # id
  BY DEF OpenRemoval, RowIsFree
<1>3. /\ IsTab(t) /\ Same(tab, t, {"shown", "live", "queries", "settled", "gone", "rowReq"})
      /\ t.removing = id
  BY <1>1 DEF Core, IsTab, TabField, Same
<1> HIDE DEF t
<1>4. /\ t.shown = tab.shown /\ t.live = tab.live /\ t.queries = tab.queries
      /\ t.settled = tab.settled /\ t.gone = tab.gone /\ t.rowReq = tab.rowReq
  BY <1>3 DEF Same
<1>5. Core(t)
  BY <1>1, <1>3, <1>4 DEF Core
<1>6. id \in Saved(server) /\ id \notin tab.gone
  <2>1. Held(tab, id)
    BY <1>2, DrawnIsHeld
  <2> QED
    BY <2>1, <1>1, <1>2 DEF RemovalReady, RemovalPart, GoneOK, Marked
<1>7. GoneOK(t, server)
  <2>1. \A other : (Held(t, other) <=> Held(tab, other)) /\ (Marked(t, other) <=> Marked(tab, other))
    BY <1>4 DEF Held, Marked
  <2> QED
    BY <1>1, <1>3, <1>4, <1>6, <2>1 DEF RemovalReady, RemovalPart, GoneOK
<1>8. RequestOfPanel(t) /\ VerdictOK(t, server)
  BY <1>1, <1>2, <1>4 DEF PanelOK, RequestOfPanel, RemovalReady, RemovalPart, VerdictOK
<1>9. OneEntry(t) /\ ReadsAreLater(t)
  BY <1>1, <1>4 DEF RemovalReady, RemovalPart, OneEntry, ReadsAreLater
<1>10. RemovalReady(t, server)
  BY <1>7, <1>8, <1>9 DEF RemovalReady, RemovalPart
<1> QED
  BY <1>2, <1>4, <1>5, <1>10, BecomesRemoval DEF RemovalKept, AsksOfNoneGone

LEMMA NoneIsNoAnswer ==
  ASSUME NoneIsNoRecord, NEW status, NEW body
  PROVE  Answer(status, body) # None
<1>1. Answer(status, body) = [field \in {"status", "body"} |-> Answer(status, body)[field]]
  BY DEF Answer
<1> QED
  BY <1>1, RecordIsNotNone

\* A request of the confirmation is for the record it was opened for.
LEMMA PanelAsksRemoval ==
  ASSUME NoneIsNoRecord, RemovalInv, Remove \/ Verify
  PROVE  RemovalKept
<1>1. Core(tab) /\ RemovalReady(tab, server) /\ PanelOK(tab)
  BY DEF RemovalInv, Apart, RemovalOK
<1>2. PICK req, pending, panel :
        /\ req.answer = None /\ req.id = tab.removing /\ req.kind # "patch"
        /\ Becomes([tab EXCEPT !.rowReq = req, !.pending = pending, !.panel = panel])
  <2>1. CASE Remove
    BY <2>1 DEF Remove, Ask
  <2>2. CASE Verify
    <3> DEFINE req == Ask("get", tab.removing, "old")
               panel == [tab.panel EXCEPT !.check = "checking"]
    <3>1. Becomes([tab EXCEPT !.rowReq = req, !.panel.check = "checking"])
      BY <2>2 DEF Verify
    <3>2. req.answer = None /\ req.id = tab.removing /\ req.kind # "patch"
      BY DEF Ask
    <3> HIDE DEF req
    <3>3. [tab EXCEPT !.rowReq = req, !.panel.check = "checking"]
            = [tab EXCEPT !.rowReq = req, !.pending = tab.pending, !.panel = panel]
      BY <1>1 DEF Core, IsTab, TabField
    <3> HIDE DEF panel
    <3>4. Becomes([tab EXCEPT !.rowReq = req, !.pending = tab.pending, !.panel = panel])
      BY <3>1, <3>3
    <3> QED
      BY <3>2, <3>4
  <2> QED
    BY <2>1, <2>2
<1> DEFINE t == [tab EXCEPT !.rowReq = req, !.pending = pending, !.panel = panel]
<1>3. Becomes(t)
  BY <1>2
<1>4. /\ IsTab(t) /\ t.rowReq = req
      /\ Same(tab, t, {"shown", "live", "queries", "settled", "gone", "removing"})
  BY <1>1 DEF Core, IsTab, TabField, Same
<1> HIDE DEF t
<1>5. /\ t.shown = tab.shown /\ t.live = tab.live /\ t.queries = tab.queries
      /\ t.settled = tab.settled /\ t.gone = tab.gone /\ t.removing = tab.removing
  BY <1>4 DEF Same
<1>6. Core(t)
  BY <1>1, <1>4, <1>5 DEF Core
<1>7. GoneOK(t, server)
  <2>1. \A id : (Held(t, id) <=> Held(tab, id)) /\ (Marked(t, id) <=> Marked(tab, id))
    BY <1>5 DEF Held, Marked
  <2> QED
    BY <1>1, <1>5, <2>1 DEF RemovalReady, RemovalPart, GoneOK
<1>8. RequestOfPanel(t) /\ VerdictOK(t, server)
  BY <1>2, <1>4, <1>5, NoneIsNoAnswer DEF RequestOfPanel, VerdictOK, SaysGone
<1>9. OneEntry(t) /\ ReadsAreLater(t)
  BY <1>1, <1>5 DEF RemovalReady, RemovalPart, OneEntry, ReadsAreLater
<1>10. RemovalReady(t, server)
  BY <1>7, <1>8, <1>9 DEF RemovalReady, RemovalPart
<1>11. tab.removing \notin tab.gone
  <2>1. tab.panel # None
    BY DEF Remove, Verify
  <2> QED
    BY <2>1, <1>1 DEF PanelOK, RemovalReady, RemovalPart, GoneOK
<1> QED
  BY <1>2, <1>3, <1>4, <1>5, <1>6, <1>10, <1>11, BecomesRemoval DEF RemovalKept, AsksOfNoneGone

\* The end of attemptOnce, status by status.
LEMMA AttemptByStatus ==
  ASSUME NEW answer, NEW guard, answer.status \in Nat
  PROVE  /\ answer.status = 0 => AttemptOnce(answer, guard) = Failed(answer.body, 0)
         /\ answer.status > 0 /\ answer.status \notin 200..299 =>
              AttemptOnce(answer, guard) = ToApiError(answer)
         /\ answer.status \in 200..299 =>
              \/ \E data : AttemptOnce(answer, guard) = Returned(data, answer.status)
              \/ AttemptOnce(answer, guard) = Unexpected(answer.status)
<1>1. answer.status \in 200..299 =>
        AttemptOnce(answer, guard) \in {Returned("none", answer.status),
          Returned(answer.body, answer.status), Unexpected(answer.status)}
  BY DEF AttemptOnce
<1>2. answer.status \in 200..299 =>
        \/ \E data : AttemptOnce(answer, guard) = Returned(data, answer.status)
        \/ AttemptOnce(answer, guard) = Unexpected(answer.status)
  BY <1>1, Zenon
<1> QED
  BY <1>2 DEF AttemptOnce

LEMMA FailedFields ==
  /\ \A code, status : Failed(code, status).code = code /\ Failed(code, status).status = status
  /\ \A status : /\ Unexpected(status).code = "UNEXPECTED_RESPONSE"
                 /\ Unexpected(status).status = status
<1>1. \A code, status : Failed(code, status).code = code /\ Failed(code, status).status = status
  BY DEF Failed
<1> QED
  BY <1>1 DEF Unexpected

LEMMA ReturnedFields ==
  \A data, status : /\ Returned(data, status).code # "RESOURCE_NOT_FOUND"
                    /\ Returned(data, status).status = status
BY DEF Returned

LEMMA ErrorFields ==
  ASSUME NEW r, NEW body, NEW status, r = Failed(body, status) \/ r = Unexpected(status)
  PROVE  (r.code = body \/ r.code = "UNEXPECTED_RESPONSE") /\ r.status = status
BY FailedFields

LEMMA SuccessFields ==
  ASSUME NEW r, NEW status, (\E data : r = Returned(data, status)) \/ r = Unexpected(status)
  PROVE  r.code # "RESOURCE_NOT_FOUND" /\ r.status = status
BY FailedFields, ReturnedFields

LEMMA AttemptCodes ==
  ASSUME NEW answer, NEW guard, NEW result, result = AttemptOnce(answer, guard),
         answer.status \in Nat, answer.status = 0 => answer.body = "TIMEOUT"
  PROVE  /\ result.code = "RESOURCE_NOT_FOUND" => answer.body = "RESOURCE_NOT_FOUND"
         /\ result.status = answer.status
<1>1. CASE answer.status = 0
  <2>1. result = Failed(answer.body, 0)
    BY <1>1, AttemptByStatus
  <2>2. result.code = answer.body /\ result.status = 0
    BY <2>1 DEF Failed
  <2> QED
    BY <1>1, <2>2
<1>2. CASE answer.status > 0 /\ answer.status \notin 200..299
  <2>1. result = Failed(answer.body, answer.status) \/ result = Unexpected(answer.status)
    BY <1>2, AttemptByStatus, Zenon DEF ToApiError
  <2> QED
    BY <2>1, ErrorFields
<1>3. CASE answer.status \in 200..299
  <2>1. (\E data : result = Returned(data, answer.status)) \/ result = Unexpected(answer.status)
    BY <1>3, AttemptByStatus
  <2> QED
    BY <2>1, SuccessFields
<1> QED
  BY <1>1, <1>2, <1>3

\* An answer mangled on the way says of no record that it is gone.
LEMMA MangledAnswers ==
  ASSUME NEW answer \in Mangled
  PROVE  answer.status = 200 /\ answer.body # "RESOURCE_NOT_FOUND"
<1> DEFINE other == "other row"
<1>1. answer = Answer(200, "none") \/ answer = Answer(200, other)
  BY Zenon DEF Mangled
<1>2. other # "RESOURCE_NOT_FOUND"
  BY Zenon
<1> HIDE DEF other
<1> QED
  BY <1>1, <1>2 DEF Answer

\* What the client makes of the answers that say a record is gone.
LEMMA GoneAnswers ==
  ASSUME NEW answer \in Answers
  PROVE  /\ DeleteWallet(answer).code = "" => answer = Answer(204, "none")
         /\ DeleteWallet(answer).code = "RESOURCE_NOT_FOUND" => answer = Answer(404, "RESOURCE_NOT_FOUND")
         /\ GetWallet(answer).code = "RESOURCE_NOT_FOUND" => answer = Answer(404, "RESOURCE_NOT_FOUND")
<1>1. /\ answer.status \in Nat
      /\ answer.status = 204 => answer = Answer(204, "none")
      /\ answer.body = "RESOURCE_NOT_FOUND" => answer = Answer(404, "RESOURCE_NOT_FOUND")
      /\ answer.status = 0 => answer.body = "TIMEOUT"
  <2>1. CASE answer \in Replies
    BY <2>1 DEF Replies, Answer
  <2>2. CASE answer \in Lost
    BY <2>2 DEF Lost, Answer
  <2>3. CASE answer \in Mangled
    BY <2>3, MangledAnswers
  <2> QED
    BY <2>1, <2>2, <2>3 DEF Answers
<1> DEFINE blank == ""
<1>2. blank # "UNEXPECTED_RESPONSE"
  BY Zenon
<1>3. PICK guard, result :
        /\ result = AttemptOnce(answer, guard)
        /\ DeleteWallet(answer) = IF result.code = blank /\ ~(result.status = 204 /\ result.data = "none")
                                  THEN Unexpected(result.status) ELSE result
        /\ GetWallet(answer) = AboutTarget(RequireData(result))
  BY Zenon DEF DeleteWallet, GetWallet
<1> HIDE DEF blank
<1>4. /\ result.code = "RESOURCE_NOT_FOUND" => answer.body = "RESOURCE_NOT_FOUND"
      /\ result.status = answer.status
  BY <1>1, <1>3, AttemptCodes
<1>5. \A status : Unexpected(status).code = "UNEXPECTED_RESPONSE"
  BY FailedFields
<1>6. DeleteWallet(answer).code = blank => answer.status = 204
  BY <1>2, <1>3, <1>4, <1>5
<1>7. DeleteWallet(answer).code = "RESOURCE_NOT_FOUND" => result.code = "RESOURCE_NOT_FOUND"
  BY <1>3, <1>5
<1>8. GetWallet(answer).code = "RESOURCE_NOT_FOUND" => result.code = "RESOURCE_NOT_FOUND"
  <2>1. \A status : Unexpected(status).code # "RESOURCE_NOT_FOUND"
    BY <1>5
  <2>2. RequireData(result).code = "RESOURCE_NOT_FOUND" => result.code = "RESOURCE_NOT_FOUND"
    BY <2>1, Zenon DEF RequireData
  <2>3. \A r : AboutTarget(r).code = "RESOURCE_NOT_FOUND" => r.code = "RESOURCE_NOT_FOUND"
    BY <2>1, Zenon DEF AboutTarget
  <2>4. GetWallet(answer) = AboutTarget(RequireData(result))
    BY <1>3
  <2> QED
    BY <2>2, <2>3, <2>4
<1>9. /\ DeleteWallet(answer).code = blank => answer = Answer(204, "none")
      /\ DeleteWallet(answer).code = "RESOURCE_NOT_FOUND" => answer = Answer(404, "RESOURCE_NOT_FOUND")
      /\ GetWallet(answer).code = "RESOURCE_NOT_FOUND" => answer = Answer(404, "RESOURCE_NOT_FOUND")
  BY <1>1, <1>4, <1>6, <1>7, <1>8
<1> QED
  BY <1>9, Zenon DEF blank

LEMMA GoneIsNotLost ==
  ASSUME NEW answer, answer \in {Answer(404, "RESOURCE_NOT_FOUND"), Answer(204, "none")}
  PROVE  answer \notin Lost \union Mangled
<1>1. answer.status = 204 \/ answer.body = "RESOURCE_NOT_FOUND"
  BY DEF Answer
<1>2. answer \notin Lost
  BY <1>1 DEF Lost, Answer
<1> QED
  BY <1>1, <1>2, MangledAnswers

LEMMA GoneRemoval ==
  ASSUME NoneIsNoRecord, RemovalInv, NEW how, NEW overtaken,
         SaysGone(tab.rowReq), Becomes(Gone(tab, how, overtaken))
  PROVE  RemovalKept
<1> DEFINE settled == tab.settled \union {[id |-> tab.removing, page |-> tab.shown.page]}
           gone == tab.gone \union {tab.removing}
           closed == [tab EXCEPT !.removing = 0, !.pending = FALSE, !.rowReq = None,
                                 !.settled = settled, !.gone = gone]
           noticed == [closed EXCEPT !.notice = how]
           gen == tab.shown.gen
           told == Refresh(noticed, gen, overtaken)
           waits == [told EXCEPT !.waiters = @ \union {SettleOf(tab.shown)}]
<1>1. Core(tab) /\ RemovalReady(tab, server) /\ PanelOK(tab)
  BY DEF RemovalInv, Apart, RemovalOK
<1>2. Becomes(IF tab.shown # tab.live THEN closed ELSE waits)
  BY DEF Gone
<1>3. /\ \A entry \in settled : entry.id \in gone
      /\ \A id \in gone : id \in tab.gone \/ (id = tab.removing /\ \E entry \in settled : entry.id = id)
      /\ tab.settled \subseteq settled /\ tab.removing \in gone
      /\ \A entry \in settled : entry \in tab.settled \/ entry.page = tab.shown.page
  <2>1. \A entry \in settled :
          entry \in tab.settled \/ (entry.id = tab.removing /\ entry.page = tab.shown.page)
    OBVIOUS
  <2>2. \E entry \in settled : entry.id = tab.removing
    <3> DEFINE entry == [id |-> tab.removing, page |-> tab.shown.page]
    <3>1. entry \in settled /\ entry.id = tab.removing
      OBVIOUS
    <3> HIDE DEF entry, settled
    <3> QED
      BY <3>1
  <2> QED
    BY <1>1, <2>1, <2>2 DEF RemovalReady, RemovalPart, GoneOK
<1>4. tab.removing \in Saved(server) /\ tab.removing \notin DOMAIN server.rows
  <2>1. tab.removing # 0 /\ tab.rowReq.id = tab.removing
    BY <1>1 DEF SaysGone, PanelOK
  <2> QED
    BY <2>1, <1>1 DEF RemovalReady, RemovalPart, GoneOK, VerdictOK
<1> HIDE DEF settled, gone, gen
<1>5. ASSUME NEW t, t \in {closed, noticed}
      PROVE  /\ IsTab(t) /\ Same(tab, t, {"shown", "live", "queries"})
             /\ t.settled = settled /\ t.gone = gone /\ t.removing = 0 /\ t.rowReq = None
  BY <1>1, <1>5 DEF Core, IsTab, TabField, Same
<1>6. ASSUME NEW t, t \in {closed, noticed}
      PROVE  Core(t) /\ RemovalPart(t, server) /\ t.shown = tab.shown /\ t.live = tab.live
  <2> HIDE DEF closed, noticed
  <2>1. /\ IsTab(t) /\ t.shown = tab.shown /\ t.live = tab.live /\ t.queries = tab.queries
        /\ t.settled = settled /\ t.gone = gone /\ t.removing = 0 /\ t.rowReq = None
    BY <1>5, <1>6 DEF Same
  <2>2. Core(t)
    BY <2>1, <1>1 DEF Core
  <2>3. OneEntry(t) /\ RequestOfPanel(t) /\ VerdictOK(t, server)
    BY <2>1, <1>1 DEF RemovalReady, RemovalPart, OneEntry, RequestOfPanel, VerdictOK, SaysGone
  <2>4. GoneOK(t, server)
    <3>1. \A id : Held(t, id) <=> Held(tab, id)
      BY <2>1 DEF Held
    <3>2. \A id \in gone : Held(tab, id) => \E entry \in settled : entry.id = id
      BY <1>1, <1>3 DEF RemovalReady, RemovalPart, GoneOK, Marked
    <3>3. \A id \in gone : id \in Saved(server) /\ id \notin DOMAIN server.rows
      BY <1>1, <1>3, <1>4 DEF RemovalReady, RemovalPart, GoneOK
    <3> QED
      BY <2>1, <1>1, <1>3, <3>1, <3>2, <3>3 DEF RemovalReady, RemovalPart, GoneOK, Marked
  <2> QED
    BY <2>1, <2>2, <2>3, <2>4 DEF RemovalPart
<1>7. CASE tab.shown # tab.live
  <2>1. closed.settled = settled /\ closed.queries = tab.queries /\ closed.rowReq = None
    BY <1>5 DEF Same
  <2>2. Core(closed) /\ RemovalPart(closed, server) /\ closed.shown = tab.shown /\ closed.live = tab.live
    BY <1>6
  <2> HIDE DEF closed
  <2>3. ReadsAreLater(closed)
    <3>1. ASSUME tab.shown.gen = tab.live.gen, NEW entry \in settled, NEW key \in QueryKey,
                 key[2] = entry.page, tab.queries[key] # None
          PROVE  entry \in tab.settled
      <4>1. key = <<tab.live.gen, tab.live.page>>
        BY <3>1, <1>1 DEF RemovalReady, RemovalPart, OneEntry, Key
      <4>2. tab.shown.page # tab.live.page
        BY <1>7, <3>1, <1>1 DEF Core, IsView
      <4> QED
        BY <1>3, <3>1, <4>1, <4>2
    <3> QED
      BY <2>1, <2>2, <3>1, <1>1 DEF RemovalReady, ReadsAreLater
  <2>4. Becomes(closed) /\ RemovalReady(closed, server)
    BY <1>2, <1>7, <2>2, <2>3 DEF RemovalReady
  <2> QED
    BY <2>1, <2>2, <2>4, BecomesRemoval DEF RemovalKept, AsksOfNoneGone
<1>8. CASE tab.shown = tab.live
  <2>1. /\ Core(noticed) /\ RemovalPart(noticed, server)
        /\ noticed.shown = tab.shown /\ noticed.live = tab.live /\ noticed.rowReq = None
    BY <1>5, <1>6
  <2> HIDE DEF noticed
  <2>2. gen = noticed.live.gen
    BY <2>1, <1>8 DEF gen
  <2>3. /\ Core(told) /\ RemovalReady(told, server)
        /\ told.shown = tab.shown /\ told.live = tab.live /\ told.rowReq = None
    <3>1. Core(told) /\ RemovalReady(told, server) /\ told.shown = noticed.shown
      BY <2>1, <2>2, RefreshRemoval
    <3>2. told.live = noticed.live /\ told.rowReq = noticed.rowReq
      BY <2>1, <2>2, RefreshKeeps DEF SameRequests
    <3> QED
      BY <2>1, <3>1, <3>2
  <2> HIDE DEF told
  <2>4. Plain(told, waits)
    BY <2>3 DEF Core, IsTab, TabField, Plain, Same
  <2> HIDE DEF waits
  <2>5. /\ Core(waits) /\ RemovalReady(waits, server)
        /\ waits.shown.gen = tab.shown.gen /\ waits.live = tab.live
        /\ waits.rowReq = None \/ waits.rowReq.kind = "patch"
    BY <2>3, <2>4, PlainKeeps DEF Plain, Same
  <2>6. Becomes(waits)
    BY <1>2, <1>8
  <2> QED
    BY <2>5, <2>6, BecomesRemoval DEF RemovalKept, AsksOfNoneGone
<1> QED
  BY <1>7, <1>8

LEMMA RowAnswersRemoval ==
  ASSUME NoneIsNoRecord, RemovalInv, NEW answer \in Answers, NEW overtaken,
         RemovalAnswered(answer, overtaken) \/ CheckAnswered(answer, overtaken)
  PROVE  RemovalKept
<1>1. Core(tab) /\ RemovalReady(tab, server)
  BY DEF RemovalInv, Apart, RemovalOK
<1>2. /\ tab.rowReq # None /\ tab.rowReq.kind # "patch"
      /\ Arrives(tab.rowReq, answer)
  BY DEF RemovalAnswered, CheckAnswered
<1>3. answer \in {Answer(404, "RESOURCE_NOT_FOUND"), Answer(204, "none")} => SaysGone(tab.rowReq)
  BY <1>2, GoneIsNotLost DEF Arrives, SaysGone
<1>4. CASE RemovalAnswered(answer, overtaken)
  <2>1. PICK state :
          \/ DeleteWallet(answer).code = "" /\ Becomes(Gone(tab, "removed", overtaken))
          \/ /\ DeleteWallet(answer).code = "RESOURCE_NOT_FOUND"
             /\ Becomes(Gone(tab, "unavailable", overtaken))
          \/ Becomes([tab EXCEPT !.rowReq = None, !.pending = FALSE, !.panel.state = state])
    BY <1>4 DEF RemovalAnswered
  <2>2. \/ /\ answer \in {Answer(404, "RESOURCE_NOT_FOUND"), Answer(204, "none")}
           /\ \E how : Becomes(Gone(tab, how, overtaken))
        \/ Becomes([tab EXCEPT !.rowReq = None, !.pending = FALSE, !.panel.state = state])
    BY <2>1, GoneAnswers, Zenon
  <2>3. Plain(tab, [tab EXCEPT !.rowReq = None, !.pending = FALSE, !.panel.state = state])
    BY <1>1 DEF Core, IsTab, TabField, Plain, Same
  <2> QED
    BY <1>1, <1>3, <2>2, <2>3, GoneRemoval, PlainBecomes
<1>5. CASE CheckAnswered(answer, overtaken)
  <2>1. PICK check :
          \/ /\ GetWallet(answer).code = "RESOURCE_NOT_FOUND"
             /\ Becomes(Gone(tab, "unavailable", overtaken))
          \/ Becomes([tab EXCEPT !.rowReq = None, !.panel.check = check])
    BY <1>5 DEF CheckAnswered
  <2>2. Plain(tab, [tab EXCEPT !.rowReq = None, !.panel.check = check])
    BY <1>1 DEF Core, IsTab, TabField, Plain, Same
  <2> QED
    BY <1>1, <1>3, <2>1, <2>2, GoneAnswers, GoneRemoval, PlainBecomes
<1> QED
  BY <1>4, <1>5

-----------------------------------------------------------------------------
(* The list. *)

\* Every entry holds less than it did, and reads nothing that it did not.
Quieter(t, u) ==
    /\ u.live = t.live /\ u.shown.gen = t.shown.gen
    /\ Same(t, u, {"settled", "gone", "removing", "rowReq"})
    /\ \A key \in QueryKey :
         LET q == t.queries[key]
             r == u.queries[key]
         IN  /\ r # None => q # None \/ key = Key(t.live)
             /\ \A id : Holds(r, id) => Holds(q, id)
             /\ r # None /\ r.fetch # None /\ r.fetch.snap # None => q # None /\ q.fetch = r.fetch

LEMMA QuieterKeeps ==
  ASSUME NEW t, NEW u, NEW s, RemovalReady(t, s), Quieter(t, u)
  PROVE  RemovalReady(u, s)
<1>1. RemovalPart(t, s)
  BY DEF RemovalReady
<1>2. OneEntry(u)
  BY <1>1 DEF RemovalPart, OneEntry, Quieter
<1>3. ReadsAreLater(u)
  BY DEF RemovalReady, ReadsAreLater, Quieter, Same
<1>4. \A key \in QueryKey : \A id : Holds(u.queries[key], id) => Held(t, id)
  BY DEF Quieter, Held
<1>5. Same(t, u, {"settled", "gone", "removing", "rowReq"})
  BY DEF Quieter
<1> QED
  BY <1>1, <1>2, <1>3, <1>4, <1>5, FewerHeld

LEMMA HeardIsQuieter ==
  ASSUME NoneIsNoRecord, NEW t, Core(t), NEW keys, NEW outcome, NEW snap
  PROVE  Quieter(t, Heard(t, keys, outcome, snap))
<1> DEFINE u == Heard(t, keys, outcome, snap)
<1>1. /\ Same(t, u, Untouched) /\ u.shown.gen = t.shown.gen
      /\ \A key \in QueryKey :
           u.queries[key] # t.queries[key] =>
             key \in keys /\ key = Key(t.live) /\ u.queries[key] = Started(t.queries[key])
  BY HeardEffect
<1> HIDE DEF u
<1>2. \A key \in QueryKey : t.queries[key] # None => IsQuery(t.queries[key])
  BY DEF Core, CacheOK, OfItsKey
<1>3. Asking.snap = None
  BY DEF Asking
<1>4. ASSUME NEW key \in QueryKey
      PROVE  /\ u.queries[key] # None => t.queries[key] # None \/ key = Key(t.live)
             /\ \A id : Holds(u.queries[key], id) => Holds(t.queries[key], id)
             /\ u.queries[key] # None /\ u.queries[key].fetch # None
                  /\ u.queries[key].fetch.snap # None
                => t.queries[key] # None /\ t.queries[key].fetch = u.queries[key].fetch
  <2> DEFINE q == t.queries[key]
             r == u.queries[key]
  <2>1. r = q \/ (key = Key(t.live) /\ r = Started(q))
    BY <1>1
  <2>2. q # None => IsQuery(q)
    BY <1>2
  <2> HIDE DEF q, r
  <2>3. /\ \A id : Holds(Started(q), id) => Holds(q, id)
        /\ q # None /\ q.fetch # None => Started(q) = q
        /\ q = None \/ q.fetch = None => Started(q).fetch = Asking
    BY <2>2, StartedIsAsked
  <2>4. /\ r # None => q # None \/ key = Key(t.live)
        /\ \A id : Holds(r, id) => Holds(q, id)
        /\ r # None /\ r.fetch # None /\ r.fetch.snap # None => q # None /\ q.fetch = r.fetch
    BY <2>1, <2>3, <1>3
  <2> QED
    BY <2>4 DEF q, r
<1> QED
  BY <1>1, <1>4 DEF Quieter, Same, Untouched, u

LEMMA CollectedIsQuieter ==
  ASSUME NEW t, Core(t)
  PROVE  Quieter(t, Collected(t))
<1> DEFINE queries == [key \in QueryKey |->
                         IF t.queries[key] # None /\ t.queries[key].fetch = None
                            /\ key # Key(t.live) THEN None ELSE t.queries[key]]
           u == [t EXCEPT !.queries = queries]
<1>1. Collected(t) = u
  BY DEF Collected
<1>2. \A key \in QueryKey : queries[key] \in {t.queries[key], None}
  OBVIOUS
<1> HIDE DEF queries
<1>3. /\ u.live = t.live /\ u.shown = t.shown /\ u.queries = queries
      /\ Same(t, u, {"settled", "gone", "removing", "rowReq"})
  BY DEF Core, IsTab, TabField, Same
<1> HIDE DEF u
<1> QED
  BY <1>1, <1>2, <1>3 DEF Quieter, Holds

LEMMA QuieterBecomes ==
  ASSUME Core(tab), RemovalReady(tab, server), NEW t, Core(t), RemovalReady(t, server),
         t.shown.gen = tab.shown.gen, t.live = tab.live, t.rowReq = tab.rowReq, Becomes(t)
  PROVE  RemovalKept
BY BecomesRemoval DEF RemovalKept, AsksOfNoneGone

\* One entry of the cache is written, and holds less than it did.
LEMMA WrittenIsQuieter ==
  ASSUME NEW t, Core(t), NEW key \in QueryKey, NEW q,
         t.queries[key] # None \/ key = Key(t.live),
         \A id : Holds(q, id) => Holds(t.queries[key], id),
         q # None /\ q.fetch # None /\ q.fetch.snap # None
           => t.queries[key] # None /\ t.queries[key].fetch = q.fetch
  PROVE  Quieter(t, [t EXCEPT !.queries[key] = q])
<1> DEFINE queries == [t.queries EXCEPT ![key] = q]
           u == [t EXCEPT !.queries = queries]
<1>1. [t EXCEPT !.queries[key] = q] = u
  OBVIOUS
<1>2. queries[key] = q /\ \A other \in QueryKey : other # key => queries[other] = t.queries[other]
  BY DEF Core, CacheOK
<1> HIDE DEF queries
<1>3. /\ u.live = t.live /\ u.shown = t.shown /\ u.queries = queries
      /\ Same(t, u, {"settled", "gone", "removing", "rowReq"})
  BY DEF Core, IsTab, TabField, Same
<1> HIDE DEF u
<1>4. ASSUME NEW other \in QueryKey
      PROVE  /\ queries[other] # None => t.queries[other] # None \/ other = Key(t.live)
             /\ \A id : Holds(queries[other], id) => Holds(t.queries[other], id)
             /\ queries[other] # None /\ queries[other].fetch # None
                  /\ queries[other].fetch.snap # None
                => t.queries[other] # None /\ t.queries[other].fetch = queries[other].fetch
  BY <1>2
<1> QED
  BY <1>1, <1>3, <1>4 DEF Quieter

LEMMA ListAnswersRemoval ==
  ASSUME NoneIsNoRecord, RemovalInv, NEW key \in QueryKey, NEW answer, ListAnswers(key, answer)
  PROVE  RemovalKept
<1> DEFINE query == tab.queries[key]
           ok == ListWallets(answer).code = ""
           snap == IF ok THEN query.fetch.snap ELSE None
           now == [query EXCEPT !.fetch = None, !.failed = ~ok, !.data = IF ok THEN snap ELSE @,
                                !.after = IF ok THEN {entry.id : entry \in tab.settled} ELSE @]
           arrived == [tab EXCEPT !.queries[key] = now]
           heard == Heard(arrived, {key}, IF ok THEN "ok" ELSE "failed", snap)
           collected == Collected(heard)
<1>1. query # None /\ query.fetch # None /\ Becomes(collected)
  BY DEF ListAnswers
<1>2. Core(tab) /\ RemovalReady(tab, server)
  BY DEF RemovalInv, Apart, RemovalOK
<1>3. /\ OfItsKey(key, now) /\ now.fetch = None
      /\ now.data = IF ok THEN query.fetch.snap ELSE query.data
  <2>1. PICK failed, after :
          now = [query EXCEPT !.fetch = None, !.failed = failed,
                              !.data = IF ok THEN snap ELSE @, !.after = after]
    BY Zenon
  <2>2. ok /\ snap # None => snap.by = key[1]
    BY <1>1, <1>2 DEF Core, CacheOK, OfItsKey
  <2>3. /\ IsQuery(query) /\ query.data # None => query.data.by = key[1]
    BY <1>1, <1>2 DEF Core, CacheOK, OfItsKey
  <2>4. IsQuery(query)
    BY <1>1, <1>2 DEF Core, CacheOK, OfItsKey
  <2>5. ok => snap = query.fetch.snap
    OBVIOUS
  <2> HIDE DEF ok, snap, now, query
  <2>6. now = [data |-> IF ok THEN snap ELSE query.data, failed |-> failed, after |-> after,
               fetch |-> None]
    BY <2>1, <2>4 DEF IsQuery
  <2> QED
    BY <2>2, <2>3, <2>4, <2>5, <2>6 DEF OfItsKey, IsQuery
<1>4. \A id : Holds(now, id) => Holds(query, id)
  <2> HIDE DEF ok, now, query
  <2> QED
    BY <1>1, <1>3 DEF Holds
<1> HIDE DEF now, ok, snap
<1>5. /\ Core(arrived) /\ Quieter(tab, arrived)
  BY <1>1, <1>2, <1>3, <1>4, WrittenKeeps, WrittenIsQuieter
<1> HIDE DEF arrived
<1>6. Core(heard) /\ Quieter(arrived, heard)
  BY <1>5, HeardKeeps, HeardIsQuieter
<1> HIDE DEF heard
<1>7. Core(collected) /\ Quieter(heard, collected)
  BY <1>6, CollectedKeeps, CollectedIsQuieter
<1> HIDE DEF collected
<1>8. RemovalReady(collected, server)
  BY <1>2, <1>5, <1>6, <1>7, QuieterKeeps
<1>9. /\ collected.shown.gen = tab.shown.gen /\ collected.live = tab.live
      /\ collected.rowReq = tab.rowReq
  BY <1>5, <1>6, <1>7 DEF Quieter, Same
<1> QED
  BY <1>1, <1>2, <1>7, <1>8, <1>9, QuieterBecomes

LEMMA RetryListRemoval == ASSUME NoneIsNoRecord, RemovalInv, RetryList PROVE RemovalKept
<1> DEFINE key == Key(tab.shown)
           t == [tab EXCEPT !.queries[key] = Started(@)]
           q == Started(tab.queries[key])
<1>1. tab.shown = tab.live /\ Becomes(t)
  BY DEF RetryList, Press
<1>2. Core(tab) /\ RemovalReady(tab, server)
  BY DEF RemovalInv, Apart, RemovalOK
<1>3. key[1] = tab.live.gen /\ key = Key(tab.live)
  BY <1>1, <1>2, KeyIsAKey DEF Core
<1> HIDE DEF key
<1>4. CASE key \in QueryKey
  <2>1. OfItsKey(key, tab.queries[key]) /\ (tab.queries[key] # None => IsQuery(tab.queries[key]))
    BY <1>2, <1>4 DEF Core, CacheOK, OfItsKey
  <2>2. OfItsKey(key, q)
    BY <2>1, StartedIsOfItsKey
  <2>3. /\ \A id : Holds(q, id) => Holds(tab.queries[key], id)
        /\ q.fetch # None /\ q.fetch.snap # None
             => tab.queries[key] # None /\ tab.queries[key].fetch = q.fetch
    <3> DEFINE r == tab.queries[key]
    <3>1. r # None => IsQuery(r)
      BY <2>1
    <3> HIDE DEF r
    <3>2. /\ \A id : Holds(Started(r), id) => Holds(r, id)
          /\ r # None /\ r.fetch # None => Started(r) = r
          /\ r = None \/ r.fetch = None => Started(r).fetch = Asking
      BY <3>1, StartedIsAsked
    <3>3. Asking.snap = None
      BY DEF Asking
    <3> QED
      BY <3>2, <3>3 DEF r
  <2>4. t = [tab EXCEPT !.queries[key] = q]
    BY <1>2, <1>4 DEF Core, CacheOK
  <2> HIDE DEF t, q
  <2>5. Core(t) /\ Quieter(tab, t)
    BY <1>2, <1>3, <1>4, <2>2, <2>3, <2>4, WrittenKeeps, WrittenIsQuieter
  <2> QED
    BY <1>1, <1>2, <2>5, QuieterKeeps, QuieterBecomes DEF Quieter, Same
<1>5. CASE key \notin QueryKey
  <2>1. [tab.queries EXCEPT ![key] = q] = tab.queries
    BY <1>2, <1>5 DEF Core, CacheOK
  <2>2. t = [tab EXCEPT !.queries = [tab.queries EXCEPT ![key] = q]]
    OBVIOUS
  <2>3. t = tab
    BY <1>2, <2>1, <2>2 DEF Core, IsTab, TabField
  <2> QED
    BY <1>1, <1>2, <2>3, QuieterBecomes
<1> QED
  BY <1>4, <1>5

-----------------------------------------------------------------------------
(* A change of identity or page, and its effects. *)

LEMMA NoEntryOfNobody ==
  ASSUME NEW t, Core(t), OneEntry(t), t.live.gen = 0, NEW key \in QueryKey
  PROVE  t.queries[key] = None
<1>1. \A gen \in Generation : gen # 0
  BY WalletAssumption DEF Generation
<1>2. key[1] \in Generation
  BY DEF QueryKey
<1> QED
  BY <1>1, <1>2, KeyIsAKey DEF Core, OneEntry

LEMMA SessionChangesRemoval ==
  ASSUME RemovalInv, SessionChanges
  PROVE  /\ RemovalOK(tab', server) /\ tab'.live = tab.live /\ AsksOfNoneGone
         /\ issued' \in Nat /\ issued <= issued' /\ tab'.shown.gen \in 0..issued'
<1>1. PICK gen \in {0, issued + 1} :
        /\ issued' = IF gen = 0 THEN issued ELSE gen
        /\ Becomes([tab EXCEPT !.shown.gen = gen])
  BY DEF SessionChanges
<1> DEFINE t == [tab EXCEPT !.shown.gen = gen]
<1>2. Core(tab) /\ RemovalReady(tab, server) /\ issued \in Nat /\ tab.live.gen \in 0..issued
  BY DEF RemovalInv, Apart, RemovalOK
<1>3. /\ IsTab(t) /\ IsView(t.shown) /\ t.shown.gen = gen
      /\ Same(tab, t, {"live", "queries", "settled", "gone", "removing", "rowReq"})
  BY <1>2 DEF Core, IsTab, TabField, IsView, Same
<1>4. Becomes(t)
  BY <1>1
<1> HIDE DEF t
<1>5. /\ t.live = tab.live /\ t.queries = tab.queries /\ t.settled = tab.settled
      /\ t.gone = tab.gone /\ t.removing = tab.removing /\ t.rowReq = tab.rowReq
  BY <1>3 DEF Same
<1>6. Core(t)
  BY <1>2, <1>3, <1>5 DEF Core
<1>7. RemovalPart(t, server)
  <2>1. \A id : (Held(t, id) <=> Held(tab, id)) /\ (Marked(t, id) <=> Marked(tab, id))
    BY <1>5 DEF Held, Marked
  <2> QED
    BY <1>2, <1>5, <2>1 DEF RemovalReady, RemovalPart, OneEntry, GoneOK, VerdictOK, RequestOfPanel
<1>8. ReadsAreLater(t)
  <2>1. CASE t.live.gen = 0
    BY <2>1, <1>6, <1>7, NoEntryOfNobody DEF RemovalPart, ReadsAreLater
  <2>2. CASE t.live.gen # 0
    <3>1. t.shown.gen # t.live.gen
      BY <2>2, <1>1, <1>2, <1>3, <1>5
    <3> QED
      BY <3>1 DEF ReadsAreLater
  <2> QED
    BY <2>1, <2>2
<1>9. /\ RemovalOK(tab', server) /\ tab'.shown = t.shown /\ tab'.live = t.live
      /\ AsksOfNoneGone
  BY <1>4, <1>5, <1>6, <1>7, <1>8, BecomesRemoval DEF RemovalReady, AsksOfNoneGone
<1>10. issued' \in Nat /\ issued <= issued' /\ gen \in 0..issued'
  BY <1>1, <1>2
<1> QED
  BY <1>3, <1>5, <1>9, <1>10

\* What the effects leave: one entry, of the page on screen, that holds no more than it did.
LEMMA CacheEffectsLeave ==
  ASSUME NoneIsNoRecord, NEW t, Core(t), OneEntry(t)
  PROVE  LET u == CacheEffects(t) IN
         /\ OneEntry(u) /\ Same(t, u, {"settled", "gone", "removing", "rowReq"})
         /\ \A key \in QueryKey :
              /\ \A id : Holds(u.queries[key], id) => Holds(t.queries[key], id)
              /\ u.queries[key] # None /\ u.queries[key].fetch # None
                   /\ u.queries[key].fetch.snap # None
                 => t.queries[key] # None /\ t.queries[key].fetch = u.queries[key].fetch
<1> DEFINE left == {key \in QueryKey : /\ t.queries[key] # None /\ key # Key(t.shown)
                                       /\ key = Key(t.live) \/ t.shown.gen # t.live.gen}
           queries == [key \in QueryKey |->
                         IF key \in left THEN None
                         ELSE IF key = Key(t.shown) THEN Started(t.queries[key])
                         ELSE t.queries[key]]
           moved == [t EXCEPT !.live = t.shown, !.queries = queries]
           u == Heard(moved, left, "cancelled", None)
<1>1. CacheEffects(t) = u
  BY DEF CacheEffects
<1>2. ASSUME NEW key \in QueryKey
      PROVE  \/ key = Key(t.shown) /\ queries[key] = Started(t.queries[key])
             \/ key # Key(t.shown) /\ queries[key] = None
  BY DEF OneEntry
<1>3. CacheOK(queries)
  <2>1. \A key \in QueryKey : OfItsKey(key, None)
    BY DEF OfItsKey
  <2>2. \A key \in QueryKey : OfItsKey(key, queries[key])
    BY <2>1, StartedIsOfItsKey DEF Core, CacheOK
  <2> QED
    BY <2>2 DEF CacheOK
<1> HIDE DEF queries, left
<1>4. ReadsAreOf(queries, t.shown.gen)
  <2>1. \A key \in QueryKey : queries[key] # None => key = Key(t.shown)
    BY <1>2
  <2> QED
    BY <2>1, KeyIsAKey DEF Core, ReadsAreOf
<1>5. /\ IsTab(moved) /\ moved.queries = queries /\ moved.live = t.shown /\ moved.shown = t.shown
      /\ Same(t, moved, {"settled", "gone", "removing", "rowReq"})
  BY DEF Core, IsTab, TabField, Same
<1> HIDE DEF moved
<1>6. Core(moved)
  BY <1>3, <1>4, <1>5 DEF Core
<1>7. Quieter(moved, u)
  BY <1>6, HeardIsQuieter
<1> HIDE DEF u
<1>8. OneEntry(u)
  BY <1>2, <1>5, <1>7 DEF OneEntry, Quieter
<1>9. Same(t, u, {"settled", "gone", "removing", "rowReq"})
  BY <1>5, <1>7 DEF Quieter, Same
<1>10. ASSUME NEW key \in QueryKey
       PROVE  /\ \A id : Holds(u.queries[key], id) => Holds(t.queries[key], id)
              /\ u.queries[key] # None /\ u.queries[key].fetch # None
                   /\ u.queries[key].fetch.snap # None
                 => t.queries[key] # None /\ t.queries[key].fetch = u.queries[key].fetch
  <2> DEFINE q == t.queries[key]
             r == queries[key]
             s == u.queries[key]
  <2>1. q # None => IsQuery(q)
    BY DEF Core, CacheOK, OfItsKey
  <2>2. r = Started(q) \/ r = None
    BY <1>2
  <2>3. /\ \A id : Holds(s, id) => Holds(r, id)
        /\ s # None /\ s.fetch # None /\ s.fetch.snap # None => r # None /\ r.fetch = s.fetch
    BY <1>5, <1>7 DEF Quieter
  <2> HIDE DEF q, r, s
  <2>4. /\ \A id : Holds(Started(q), id) => Holds(q, id)
        /\ q # None /\ q.fetch # None => Started(q) = q
        /\ q = None \/ q.fetch = None => Started(q).fetch = Asking
    BY <2>1, StartedIsAsked
  <2>5. Asking.snap = None
    BY DEF Asking
  <2>6. \A id : Holds(s, id) => Holds(q, id)
    BY <2>2, <2>3, <2>4 DEF Holds
  <2>7. s # None /\ s.fetch # None /\ s.fetch.snap # None => q # None /\ q.fetch = s.fetch
    BY <2>2, <2>3, <2>4, <2>5
  <2> QED
    BY <2>6, <2>7 DEF q, s
<1> QED
  BY <1>1, <1>8, <1>9, <1>10

LEMMA RunEffectsRemoval ==
  ASSUME NoneIsNoRecord, RemovalInv, RunEffects
  PROVE  /\ RemovalOK(tab', server) /\ tab'.live = tab.shown /\ tab'.shown = tab.shown
         /\ AsksOfNoneGone
<1> DEFINE u == CacheEffects(tab)
           formed == [u EXCEPT !.form = NewForm, !.formReq = None]
           new == [formed EXCEPT !.editing = 0, !.removing = 0, !.pending = FALSE,
                                 !.settled = {}, !.notice = "", !.gone = {}]
<1>1. Becomes(IF tab.shown.gen = tab.live.gen THEN u ELSE new)
  BY DEF RunEffects, AfterEffects, PageForNewIdentity, FormForNewIdentity
<1>2. Core(tab) /\ RemovalReady(tab, server) /\ OneEntry(tab)
  BY DEF RemovalInv, Apart, RemovalOK, RemovalReady, RemovalPart
<1>3. /\ Core(u) /\ u.shown = tab.shown /\ u.live = tab.shown
      /\ OneEntry(u) /\ Same(tab, u, {"settled", "gone", "removing", "rowReq"})
      /\ \A key \in QueryKey :
           /\ \A id : Holds(u.queries[key], id) => Holds(tab.queries[key], id)
           /\ u.queries[key] # None /\ u.queries[key].fetch # None
                /\ u.queries[key].fetch.snap # None
              => tab.queries[key] # None /\ tab.queries[key].fetch = u.queries[key].fetch
  BY <1>2, CacheEffectsKeep, CacheEffectsLeave
<1> HIDE DEF u
<1>4. CASE tab.shown.gen = tab.live.gen
  <2>1. ReadsAreLater(u)
    BY <1>2, <1>3, <1>4 DEF RemovalReady, ReadsAreLater, Same
  <2>2. RemovalReady(u, server)
    BY <1>2, <1>3, <2>1, FewerHeld DEF RemovalReady, Held
  <2> QED
    BY <1>1, <1>3, <1>4, <2>2, BecomesRemoval DEF Same, AsksOfNoneGone
<1>5. CASE tab.shown.gen # tab.live.gen
  <2>1. /\ IsTab(formed) /\ Same(u, formed, {"shown", "live", "queries", "rowReq"})
    BY <1>3 DEF Core, IsTab, TabField, Same
  <2> HIDE DEF formed
  <2>2. /\ IsTab(new) /\ Same(formed, new, {"shown", "live", "queries", "rowReq"})
        /\ new.removing = 0 /\ new.settled = {} /\ new.gone = {}
    BY <2>1 DEF IsTab, TabField, Same
  <2> HIDE DEF new
  <2>3. /\ new.shown = tab.shown /\ new.live = tab.shown /\ new.queries = u.queries
        /\ new.rowReq = tab.rowReq
    BY <1>3, <2>1, <2>2 DEF Same
  <2>4. Core(new)
    BY <1>3, <2>2, <2>3 DEF Core
  <2>5. \A id : Held(new, id) => Held(tab, id)
    BY <1>3, <2>3 DEF Held
  <2>6. GoneOK(new, server)
    BY <1>2, <2>2, <2>5 DEF RemovalReady, RemovalPart, GoneOK
  <2>7. OneEntry(new) /\ VerdictOK(new, server) /\ RequestOfPanel(new) /\ ReadsAreLater(new)
    BY <1>2, <1>3, <2>2, <2>3
    DEF RemovalReady, RemovalPart, OneEntry, VerdictOK, RequestOfPanel, ReadsAreLater
  <2>8. RemovalReady(new, server)
    BY <2>6, <2>7 DEF RemovalReady, RemovalPart
  <2> QED
    BY <1>1, <1>5, <2>3, <2>4, <2>8, BecomesRemoval DEF AsksOfNoneGone
<1> QED
  BY <1>4, <1>5

-----------------------------------------------------------------------------
(* What the server does. *)

\* Whatever is written meanwhile, what is gone stays gone.
LEMMA LaterKeeps ==
  ASSUME NEW t, NEW s, NEW next, RemovalOK(t, s), Later(s, next)
  PROVE  RemovalOK(t, next)
<1>1. GoneOK(t, next)
  BY DEF RemovalOK, RemovalReady, RemovalPart, GoneOK, Later
<1>2. VerdictOK(t, next)
  <2>1. SaysGone(t.rowReq) => t.rowReq.id \in Saved(s)
    BY DEF RemovalOK, RemovalReady, RemovalPart, GoneOK, PanelOK, SaysGone
  <2> QED
    BY <2>1 DEF RemovalOK, RemovalReady, RemovalPart, VerdictOK, Later
<1> QED
  BY <1>1, <1>2 DEF RemovalOK, RemovalReady, RemovalPart

LEMMA ReadsListRemoval ==
  ASSUME NoneIsNoRecord, RemovalInv, NEW key \in QueryKey, ReadsList(key)
  PROVE  RemovalKept
<1>1. Core(tab) /\ RemovalReady(tab, server) /\ PanelOK(tab) /\ ServerOK(server)
  BY DEF RemovalInv, Apart, RemovalOK
<1>2. /\ tab.queries[key] # None /\ tab.queries[key].fetch # None
      /\ \E snap, total : Reads(key, snap, total)
  BY ReadsListEffect
<1> PICK snap, total : Reads(key, snap, total)
  BY <1>2
<1> DEFINE q == [tab.queries[key] EXCEPT !.fetch = [snap |-> snap, total |-> total]]
           queries == [tab.queries EXCEPT ![key] = q]
<1>3. tab' = [tab EXCEPT !.queries = queries]
  BY <1>1, <1>2 DEF Core, CacheOK, Reads
<1>4. snap # None => DOMAIN snap.rows \subseteq DOMAIN server.rows
  BY DEF Reads
<1>5. q # None /\ q.data = tab.queries[key].data /\ q.fetch.snap = snap
  <2>1. IsQuery(q) /\ q.data = tab.queries[key].data /\ q.fetch.snap = snap
    BY <1>1, <1>2 DEF Core, CacheOK, OfItsKey, IsQuery
  <2> HIDE DEF q
  <2> QED
    BY <2>1, RecordIsNotNone DEF IsQuery
<1> HIDE DEF q
<1>6. queries[key] = q /\ \A other \in QueryKey : other # key => queries[other] = tab.queries[other]
  BY <1>1 DEF Core, CacheOK
<1> HIDE DEF queries
<1>7. /\ IsTab(tab') /\ tab'.queries = queries
      /\ Same(tab, tab', {"shown", "live", "settled", "gone", "removing", "rowReq", "panel"})
  BY <1>1, <1>3 DEF Core, IsTab, TabField, Same
<1>8. /\ tab'.shown = tab.shown /\ tab'.live = tab.live /\ tab'.settled = tab.settled
      /\ tab'.gone = tab.gone /\ tab'.removing = tab.removing /\ tab'.rowReq = tab.rowReq
      /\ tab'.panel = tab.panel
  BY <1>7 DEF Same
<1>9. \A id : Held(tab', id) => Held(tab, id) \/ id \in DOMAIN server.rows
  <2>1. ASSUME NEW other \in QueryKey, NEW id, Holds(queries[other], id)
        PROVE  Held(tab, id) \/ id \in DOMAIN server.rows
    <3>1. CASE other = key
      BY <2>1, <3>1, <1>2, <1>4, <1>5, <1>6 DEF Holds, Held
    <3>2. CASE other # key
      BY <2>1, <3>2, <1>6 DEF Held
    <3> QED
      BY <3>1, <3>2
  <2> QED
    BY <2>1, <1>7 DEF Held
<1>10. OneEntry(tab')
  BY <1>1, <1>2, <1>6, <1>7, <1>8 DEF RemovalReady, RemovalPart, OneEntry
<1>11. GoneOK(tab', server)
  BY <1>1, <1>8, <1>9 DEF RemovalReady, RemovalPart, GoneOK, Marked, ServerOK
<1>12. ReadsAreLater(tab')
  <2>1. \A entry \in tab.settled : entry.id \notin DOMAIN server.rows
    BY <1>1 DEF RemovalReady, RemovalPart, GoneOK
  <2>2. snap # None => \A entry \in tab.settled : entry.id \notin DOMAIN snap.rows
    BY <2>1, <1>4
  <2> QED
    BY <1>1, <1>2, <1>5, <1>6, <1>7, <1>8, <2>2 DEF RemovalReady, ReadsAreLater
<1>13. VerdictOK(tab', server) /\ RequestOfPanel(tab')
  BY <1>1, <1>8 DEF RemovalReady, RemovalPart, VerdictOK, RequestOfPanel
<1>14. PanelOK(tab')
  <2>1. Data(tab) # None => Data(tab') = Data(tab)
    BY <1>5, <1>6, <1>7, <1>8 DEF Data
  <2> QED
    BY <1>1, <1>8, <2>1 DEF PanelOK, Drawn
<1> QED
  BY <1>8, <1>10, <1>11, <1>12, <1>13, <1>14
  DEF RemovalKept, RemovalOK, RemovalReady, RemovalPart, AsksOfNoneGone

LEMMA ServeCreateRemoval ==
  ASSUME RemovalInv, NEW reply, ServeCreate(reply)
  PROVE  /\ RemovalOK(tab', server') /\ ServerOK(server')
         /\ tab'.shown = tab.shown /\ tab'.live = tab.live /\ tab'.rowReq = tab.rowReq
<1> DEFINE req == [tab.formReq EXCEPT !.answer = reply]
<1>1. Core(tab) /\ RemovalOK(tab, server) /\ ServerOK(server)
  BY DEF RemovalInv, Apart
<1>2. tab' = [tab EXCEPT !.formReq = req]
  BY DEF ServeCreate
<1>3. ServerOK(server') /\ Later(server, server')
  BY <1>1, InsertIsLater, LaterIsReflexive DEF ServeCreate, CreateHandler
<1> HIDE DEF req
<1>4. /\ tab'.shown = tab.shown /\ tab'.live = tab.live /\ tab'.rowReq = tab.rowReq
      /\ tab'.queries = tab.queries /\ tab'.settled = tab.settled /\ tab'.gone = tab.gone
      /\ tab'.removing = tab.removing /\ tab'.panel = tab.panel
  BY <1>1, <1>2 DEF Core, IsTab, TabField
<1>5. RemovalOK(tab', server)
  <2>1. \A id : (Held(tab', id) <=> Held(tab, id)) /\ (Marked(tab', id) <=> Marked(tab, id))
                /\ (Drawn(tab', id) <=> Drawn(tab, id))
    BY <1>4 DEF Held, Marked, Drawn, Data
  <2>2. GoneOK(tab', server) /\ PanelOK(tab')
    BY <1>1, <1>4, <2>1 DEF RemovalOK, RemovalReady, RemovalPart, GoneOK, PanelOK
  <2>3. OneEntry(tab') /\ VerdictOK(tab', server) /\ RequestOfPanel(tab') /\ ReadsAreLater(tab')
    BY <1>1, <1>4
    DEF RemovalOK, RemovalReady, RemovalPart, OneEntry, VerdictOK, RequestOfPanel, ReadsAreLater
  <2> QED
    BY <2>2, <2>3 DEF RemovalOK, RemovalReady, RemovalPart
<1> QED
  BY <1>3, <1>4, <1>5, LaterKeeps

LEMMA ServeRowRemoval ==
  ASSUME RemovalInv, NEW reply \in Replies, ServeRow(reply)
  PROVE  /\ RemovalOK(tab', server') /\ ServerOK(server')
         /\ tab'.shown = tab.shown /\ tab'.live = tab.live
         /\ tab'.rowReq.id = tab.rowReq.id /\ tab'.rowReq.kind = tab.rowReq.kind
<1> DEFINE req == [tab.rowReq EXCEPT !.answer = reply]
<1>1. Core(tab) /\ RemovalOK(tab, server) /\ ServerOK(server)
  BY DEF RemovalInv, Apart
<1>2. tab.rowReq # None /\ tab' = [tab EXCEPT !.rowReq = req] /\ RowHandler(tab.rowReq, reply)
  BY DEF ServeRow
<1>3. /\ req.answer = reply /\ req.id = tab.rowReq.id /\ req.kind = tab.rowReq.kind
  BY <1>2 DEF RemovalInv, Apart, RequestsOK, IsRequest
<1>4. /\ ServerOK(server') /\ Later(server, server')
      /\ tab.rowReq.kind # "patch" /\ reply \in {Answer(404, "RESOURCE_NOT_FOUND"), Answer(204, "none")}
           => tab.rowReq.id \notin DOMAIN server'.rows
  <2>1. CASE UpdateRow(tab.rowReq) /\ tab.rowReq.kind = "patch"
    BY <1>1, <2>1, UpdateIsLater
  <2>2. CASE DeleteRow(tab.rowReq)
    BY <1>1, <2>2, DeleteIsLater
  <2>3. CASE /\ UNCHANGED server
             /\ \/ reply = Answer(404, "RESOURCE_NOT_FOUND") /\ tab.rowReq.id \notin DOMAIN server.rows
                \/ reply \in {Answer(200, "row"), Answer(503, "SERVICE_UNAVAILABLE")}
    <3>1. \/ tab.rowReq.id \notin DOMAIN server.rows
          \/ reply \notin {Answer(404, "RESOURCE_NOT_FOUND"), Answer(204, "none")}
      BY <2>3 DEF Answer
    <3> QED
      BY <1>1, <2>3, <3>1, LaterIsReflexive
  <2> QED
    BY <1>2, <2>1, <2>2, <2>3 DEF RowHandler
<1> HIDE DEF req
<1>5. /\ tab'.shown = tab.shown /\ tab'.live = tab.live /\ tab'.rowReq = req
      /\ tab'.queries = tab.queries /\ tab'.settled = tab.settled /\ tab'.gone = tab.gone
      /\ tab'.removing = tab.removing /\ tab'.panel = tab.panel
  BY <1>1, <1>2 DEF Core, IsTab, TabField
<1>6. RemovalOK(tab, server')
  BY <1>1, <1>4, LaterKeeps
<1>7. \A id : (Held(tab', id) <=> Held(tab, id)) /\ (Marked(tab', id) <=> Marked(tab, id))
              /\ (Drawn(tab', id) <=> Drawn(tab, id))
  BY <1>5 DEF Held, Marked, Drawn, Data
<1>8. GoneOK(tab', server') /\ PanelOK(tab') /\ RequestOfPanel(tab')
  BY <1>2, <1>3, <1>5, <1>6, <1>7
  DEF RemovalOK, RemovalReady, RemovalPart, GoneOK, PanelOK, RequestOfPanel
<1>9. OneEntry(tab') /\ ReadsAreLater(tab')
  BY <1>5, <1>6 DEF RemovalOK, RemovalReady, RemovalPart, OneEntry, ReadsAreLater
<1>10. VerdictOK(tab', server')
  BY <1>3, <1>4, <1>5 DEF VerdictOK, SaysGone
<1> QED
  BY <1>3, <1>4, <1>5, <1>8, <1>9, <1>10 DEF RemovalOK, RemovalReady, RemovalPart

LEMMA LateWriteRemoval ==
  ASSUME RemovalInv, LateWrite
  PROVE  RemovalOK(tab', server') /\ ServerOK(server') /\ tab' = tab
<1>1. ServerOK(server') /\ Later(server, server') /\ tab' = tab
  BY InsertIsLater, UpdateIsLater, DeleteIsLater, LaterIsReflexive DEF LateWrite, RemovalInv
<1> QED
  BY <1>1, LaterKeeps DEF RemovalInv

-----------------------------------------------------------------------------
(* Removals. *)

LEMMA InitRemoval == ASSUME PageInit PROVE RemovalInv
<1>1. /\ tab.removing = 0 /\ tab.settled = {} /\ tab.gone = {} /\ tab.panel = None /\ tab.rowReq = None
      /\ \A key \in QueryKey : tab.queries[key] = None
      /\ tab.shown.gen = 1 /\ tab.live.gen = 0 /\ issued = 1
  BY DEF PageInit
<1>2. ServerOK(server)
  <2>1. /\ server = [rows |-> [id \in Initial |-> "old"], version |-> 0, created |-> {}]
        /\ Initial \subseteq Wallet
    BY WalletAssumption DEF PageInit
  <2> QED
    BY <2>1 DEF ServerOK, Saved
<1>3. \A id : ~Held(tab, id)
  BY <1>1 DEF Held, Holds
<1>4. RemovalOK(tab, server)
  BY <1>1, <1>3
  DEF RemovalOK, RemovalReady, RemovalPart, OneEntry, GoneOK, VerdictOK, SaysGone, RequestOfPanel,
      ReadsAreLater, PanelOK
<1> QED
  BY <1>1, <1>2, <1>4, InitApart DEF RemovalInv

\* What every step keeps, and what none of them asks.
RemovalStep ==
    /\ RemovalOK(tab', server') /\ ServerOK(server')
    /\ issued' \in Nat /\ tab'.live.gen \in 0..issued' /\ tab'.shown.gen \in 0..issued'
    /\ AsksOfNoneGone

LEMMA KeptIsAStep ==
  ASSUME RemovalInv, RemovalKept, UNCHANGED <<server, issued>>
  PROVE  RemovalStep
BY DEF RemovalInv, RemovalKept, RemovalStep

LEMMA ServesRemoval == ASSUME NoneIsNoRecord, RemovalInv, Serves PROVE RemovalStep
<1>1. CASE \E key \in QueryKey : ReadsList(key)
  BY <1>1, ReadsListRemoval, ReadsListEffect, KeptIsAStep
<1>2. CASE \E reply \in Replies : ServeCreate(reply)
  <2>1. PICK reply \in Replies : ServeCreate(reply)
    BY <1>2
  <2>2. issued' = issued
    BY <2>1 DEF ServeCreate
  <2> QED
    BY <2>1, <2>2, ServeCreateRemoval DEF RemovalInv, RemovalStep, AsksOfNoneGone
<1>3. CASE \E reply \in Replies : ServeRow(reply)
  <2>1. PICK reply \in Replies : ServeRow(reply)
    BY <1>3
  <2>2. issued' = issued /\ tab.rowReq # None
    BY <2>1 DEF ServeRow
  <2>3. tab.rowReq.kind # "patch" => tab.rowReq.id \notin tab.gone
    BY <2>2 DEF RemovalInv, RemovalOK, RemovalReady, RemovalPart, PanelOK, GoneOK
  <2> QED
    BY <2>1, <2>2, <2>3, ServeRowRemoval DEF RemovalInv, RemovalStep, AsksOfNoneGone
<1>4. CASE LateWrite
  <2>1. issued' = issued
    BY <1>4 DEF LateWrite
  <2> QED
    BY <1>4, <2>1, LateWriteRemoval DEF RemovalInv, RemovalStep, AsksOfNoneGone
<1> QED
  BY <1>1, <1>2, <1>3, <1>4 DEF Serves, ReadsList

LEMMA PressesRemoval ==
  ASSUME NoneIsNoRecord, RemovalInv, FormPresses \/ EditorPresses \/ PanelPresses \/ PagePresses
  PROVE  RemovalStep
<1>1. RemovalKept
  <2>1. CASE FormPresses
    BY <2>1, PlainPressKeeps, CheckListRemoval DEF FormPresses, PlainPress
  <2>2. CASE EditorPresses
    BY <2>2, PlainPressKeeps, ReadBackRemoval DEF EditorPresses, PlainPress
  <2>3. CASE PanelPresses
    BY <2>3, PlainPressKeeps, PanelAsksRemoval DEF PanelPresses, PlainPress
  <2>4. CASE PagePresses
    BY <2>4, PlainPressKeeps, RetryListRemoval, OpenRemovalKeeps DEF PagePresses, PlainPress
  <2> QED
    BY <2>1, <2>2, <2>3, <2>4
<1>2. Press
  BY DEF FormPresses, EditorPresses, PanelPresses, PagePresses, SubmitCreate, SubmitInvalidDraft,
         CheckList, CloseEditor, SubmitLabel, SubmitInvalidLabel, ReadBack, CancelRemoval, Remove,
         Verify, TurnPage, RetryList, OpenEditor, OpenRemoval
<1> QED
  BY <1>1, <1>2, KeptIsAStep DEF Press

LEMMA AnswersRemoval ==
  ASSUME NoneIsNoRecord, RemovalInv, ListEnds \/ RowAnswers \/ CreateAnswers
  PROVE  RemovalStep
<1>1. CASE ListEnds
  <2>1. PICK key \in QueryKey, answer \in ListAnswer : ListAnswers(key, answer)
    BY <1>1 DEF ListEnds
  <2>2. UNCHANGED <<server, issued>>
    BY <2>1 DEF ListAnswers
  <2> QED
    BY <2>1, <2>2, ListAnswersRemoval, KeptIsAStep
<1>2. CASE RowAnswers
  <2>1. PICK answer \in Answers, overtaken \in BOOLEAN :
          LabelAnswered(answer, overtaken) \/ RemovalAnswered(answer, overtaken)
          \/ CheckAnswered(answer, overtaken)
    BY <1>2 DEF RowAnswers
  <2>2. UNCHANGED <<server, issued>>
    BY <2>1 DEF LabelAnswered, RemovalAnswered, CheckAnswered
  <2> QED
    BY <2>1, <2>2, LabelAnsweredRemoval, RowAnswersRemoval, KeptIsAStep
<1>3. CASE CreateAnswers
  <2>1. PICK answer \in Answers, overtaken \in BOOLEAN : CreateAnswered(answer, overtaken)
    BY <1>3 DEF CreateAnswers
  <2>2. UNCHANGED <<server, issued>>
    BY <2>1 DEF CreateAnswered
  <2> QED
    BY <2>1, <2>2, CreateAnsweredRemoval, KeptIsAStep
<1> QED
  BY <1>1, <1>2, <1>3

LEMMA PageNextRemoval == ASSUME NoneIsNoRecord, RemovalInv, PageNext PROVE RemovalStep
<1>1. CASE SessionChanges
  <2>1. server' = server
    BY <1>1 DEF SessionChanges
  <2>2. issued \in Nat /\ tab.live.gen \in 0..issued /\ ServerOK(server)
    BY DEF RemovalInv
  <2>3. /\ RemovalOK(tab', server) /\ tab'.live = tab.live /\ AsksOfNoneGone
        /\ issued' \in Nat /\ issued <= issued' /\ tab'.shown.gen \in 0..issued'
    BY <1>1, SessionChangesRemoval
  <2> QED
    BY <2>1, <2>2, <2>3 DEF RemovalStep
<1>2. CASE RunEffects
  <2>1. server' = server /\ issued' = issued
    BY <1>2 DEF RunEffects
  <2> QED
    BY <1>2, <2>1, RunEffectsRemoval DEF RemovalInv, RemovalStep
<1> QED
  BY <1>1, <1>2, ServesRemoval, PressesRemoval, AnswersRemoval DEF PageNext

LEMMA RemovalInvHolds == ASSUME NoneIsNoRecord PROVE Spec => []RemovalInv
<1>1. Init => RemovalInv
  BY InitRemoval DEF Init
<1>2. RemovalInv /\ [Next]_vars => RemovalInv'
  <2>1. ASSUME RemovalInv, [Next]_vars PROVE RemovalInv'
    <3>1. CASE UNCHANGED pageVars
      BY <2>1, <3>1
      DEF pageVars, RemovalInv, RemovalOK, RemovalReady, RemovalPart, VerdictOK, GoneOK, PanelOK
    <3>2. CASE PageStep
      <4>1. PageNext
        BY <3>2 DEF PageStep
      <4> QED
        BY <2>1, <4>1, PageNextKeeps, PageNextRemoval DEF RemovalInv, RemovalStep
    <3> QED
      BY <2>1, <3>1, <3>2 DEF Next, CallStep, OpenScreen, vars
  <2> QED
    BY <2>1
<1> QED
  BY <1>1, <1>2, PTL DEF Spec

\* A wallet the list marks as removed, or that was said to be removed or unavailable
\* under the identity on screen, is not on the server, whatever was lost, answered late
\* or written by a request nobody waited for any more: WalletsPage.tsx, onRemoved and
\* settleRemoval.
THEOREM RemovedIsRemoved == ASSUME NoneIsNoRecord PROVE Spec => []SettledMeansGone
<1>1. RemovalInv => SettledMeansGone
  BY DEF RemovalInv, RemovalOK, RemovalReady, RemovalPart, GoneOK, SettledMeansGone
<1> QED
  BY <1>1, RemovalInvHolds, PTL

\* A wallet whose removal was confirmed is not deleted again by the identity it was
\* confirmed to, although the list may still show it: RemoveWalletPanel.tsx and the
\* settled rows of WalletsPage.tsx.
THEOREM RemovedOnce == ASSUME NoneIsNoRecord PROVE Spec => NoSecondDelete
<1> DEFINE Once == tab'.rowReq # None /\ tab'.rowReq.kind = "delete" /\ tab'.rowReq # tab.rowReq
                     => tab'.rowReq.id \notin tab.gone
<1>1. RemovalInv /\ [Next]_vars => [Once]_pageVars
  <2>1. ASSUME RemovalInv, [Next]_vars, ~UNCHANGED pageVars PROVE Once
    <3>1. PageNext
      BY <2>1 DEF Next, CallStep, OpenScreen, PageStep, vars
    <3>2. AsksOfNoneGone
      BY <2>1, <3>1, PageNextRemoval DEF RemovalStep
    <3> QED
      BY <3>2 DEF AsksOfNoneGone
  <2> QED
    BY <2>1
<1>2. Spec => [][Once]_pageVars
  BY <1>1, RemovalInvHolds, PTL DEF Spec
<1> QED
  BY <1>2 DEF NoSecondDelete

-----------------------------------------------------------------------------
(* The forms on screen. *)

\* With rows on screen, what is open has its form there.
DrawnForms(t) ==
    Data(t) # None => /\ t.editing # 0 => t.editor # None
                      /\ t.removing # 0 => t.panel # None

\* The page is locked for the removal the confirmation on screen has on the wire.
PendingOK(t) ==
    t.pending => /\ t.removing # 0
                 /\ t.panel # None => t.rowReq # None /\ t.rowReq.kind = "delete"

\* What the confirmation is made of.
Confirmation == {"removing", "pending", "panel", "rowReq"}

LEMMA SamePending ==
  ASSUME NEW t, NEW u, PendingOK(t), Same(t, u, Confirmation)
  PROVE  PendingOK(u)
BY DEF PendingOK, Same, Confirmation

LEMMA NewFormsAreNotNone == ASSUME NoneIsNoRecord PROVE NewEditor # None /\ NewPanel # None
<1>1. NewEditor = [field \in {"status", "attempt", "read", "found"} |-> NewEditor[field]]
  BY DEF NewEditor
<1>2. NewPanel = [field \in {"state", "check"} |-> NewPanel[field]]
  BY DEF NewPanel
<1> QED
  BY <1>1, <1>2, RecordIsNotNone

LEMMA RenderedForms ==
  ASSUME NoneIsNoRecord, NEW t, IsTab(t), PendingOK(t)
  PROVE  PendingOK(Rendered(t)) /\ DrawnForms(Rendered(t))
<1> DEFINE r == Retired(t)
           n == RowForms(r)
           m == Mounted(r)
           missing(id) == id # 0 /\ Data(t) # None /\ ~Drawn(t, id)
           opens == r.panel = None /\ r.removing # 0 /\ Drawn(r, r.removing)
<1>1. /\ IsTab(r) /\ Same(t, r, {"shown", "queries", "rowReq", "panel"})
      /\ r.editing = (IF missing(t.editing) THEN 0 ELSE t.editing)
      /\ r.removing = (IF missing(t.removing) THEN 0 ELSE t.removing)
      /\ r.pending = (t.pending /\ ~missing(t.removing))
  BY DEF IsTab, TabField, Retired, Same
<1>2. Data(r) = Data(t) /\ \A id : Drawn(r, id) = Drawn(t, id)
  BY <1>1 DEF Data, Drawn, Same
<1> HIDE DEF r
<1>3. /\ IsTab(n) /\ Same(r, n, {"shown", "queries", "rowReq", "editing", "removing", "pending"})
      /\ n.editor = IF r.editing # 0 /\ Drawn(r, r.editing)
                    THEN (IF r.editor = None THEN NewEditor ELSE r.editor) ELSE None
      /\ n.panel = IF r.removing # 0 /\ Drawn(r, r.removing)
                   THEN (IF r.panel = None THEN NewPanel ELSE r.panel) ELSE None
  BY <1>1 DEF IsTab, TabField, RowForms, Same
<1>4. PICK waiters, form, owned :
        /\ m = [[n EXCEPT !.pending = n.pending /\ ~opens]
                   EXCEPT !.rowReq = IF owned THEN n.rowReq ELSE None,
                          !.waiters = waiters, !.form = form]
        /\ owned = IF r.rowReq = None THEN TRUE
                   ELSE IF r.rowReq.kind = "patch" THEN n.editor # None \/ r.shown # r.live
                   ELSE n.panel # None
  <2> HIDE DEF n
  <2> QED
    BY <1>3 DEF Mounted, n, IsTab, TabField, Same
<1> HIDE DEF n, m
<1>5. /\ Same(n, m, {"shown", "queries", "editing", "removing", "editor", "panel"})
      /\ m.pending = (n.pending /\ ~opens)
      /\ m.rowReq = (IF owned THEN n.rowReq ELSE None)
  <2> DEFINE locked == n.pending /\ ~opens
             p == [n EXCEPT !.pending = locked]
  <2>1. m = [p EXCEPT !.rowReq = IF owned THEN n.rowReq ELSE None, !.waiters = waiters, !.form = form]
    BY <1>4
  <2> HIDE DEF locked
  <2>2. IsTab(p) /\ p.pending = locked
        /\ Same(n, p, {"shown", "queries", "editing", "removing", "editor", "panel"})
    BY <1>3 DEF IsTab, TabField, Same
  <2> HIDE DEF p
  <2>3. /\ Same(p, m, {"shown", "queries", "editing", "removing", "editor", "panel", "pending"})
        /\ m.rowReq = (IF owned THEN n.rowReq ELSE None)
    BY <2>1, <2>2 DEF IsTab, TabField, Same
  <2> QED
    BY <2>2, <2>3 DEF Same, locked
<1> HIDE DEF opens
<1>6. /\ m.editing = r.editing /\ m.removing = r.removing /\ m.editor = n.editor
      /\ m.panel = n.panel /\ n.pending = r.pending /\ n.rowReq = r.rowReq
      /\ m.shown = t.shown /\ m.queries = t.queries /\ r.panel = t.panel /\ r.rowReq = t.rowReq
  BY <1>1, <1>3, <1>5 DEF Same
<1>7. Data(m) = Data(t)
  BY <1>6 DEF Data
<1>8. DrawnForms(m)
  <2>1. Data(t) # None => /\ r.editing # 0 => Drawn(r, r.editing)
                          /\ r.removing # 0 => Drawn(r, r.removing)
    BY <1>1, <1>2
  <2> QED
    BY <1>3, <1>6, <1>7, <2>1, NewFormsAreNotNone DEF DrawnForms
<1>9. PendingOK(m)
  <2>1. ASSUME m.pending PROVE t.pending /\ m.removing = t.removing /\ ~opens
    BY <1>1, <1>5, <1>6, <2>1
  <2>2. ASSUME m.pending, m.panel # None PROVE t.panel # None /\ t.rowReq.kind = "delete" /\ owned
    <3>1. r.removing # 0 /\ Drawn(r, r.removing)
      BY <2>2, <1>3, <1>6
    <3>2. t.panel # None
      BY <2>1, <2>2, <3>1, <1>6 DEF opens
    <3>3. t.rowReq # None /\ t.rowReq.kind = "delete"
      BY <2>1, <2>2, <3>2 DEF PendingOK
    <3> QED
      BY <1>4, <1>6, <2>2, <3>2, <3>3
  <2>3. m.pending => m.removing # 0
    BY <2>1 DEF PendingOK
  <2>4. m.pending /\ m.panel # None => m.rowReq # None /\ m.rowReq.kind = "delete"
    BY <1>5, <1>6, <2>1, <2>2 DEF PendingOK
  <2> QED
    BY <2>3, <2>4 DEF PendingOK
<1> QED
  BY <1>8, <1>9 DEF Rendered, m, r

LEMMA BecomesForms ==
  ASSUME NoneIsNoRecord, NEW t, IsTab(t), PendingOK(t), Becomes(t)
  PROVE  PendingOK(tab') /\ DrawnForms(tab')
BY RenderedForms DEF Becomes

\* No read, and no end of one, touches the confirmation.
Calm(t, u) == IsTab(u) /\ Same(t, u, Confirmation)

LEMMA CalmBecomes ==
  ASSUME NoneIsNoRecord, PendingOK(tab), NEW t, Calm(tab, t), Becomes(t)
  PROVE  PendingOK(tab') /\ DrawnForms(tab')
BY SamePending, BecomesForms DEF Calm

LEMMA HeardIsCalm ==
  ASSUME NEW t, IsTab(t), NEW keys, NEW outcome, NEW snap
  PROVE  Calm(t, Heard(t, keys, outcome, snap))
<1>1. PICK waiters, queries, editor, notice, page :
        Heard(t, keys, outcome, snap) =
          [t EXCEPT !.waiters = waiters, !.queries = queries, !.editor = editor,
                    !.notice = notice, !.shown.page = page]
  BY Zenon DEF Heard
<1> DEFINE u == [t EXCEPT !.waiters = waiters, !.queries = queries, !.editor = editor,
                          !.notice = notice, !.shown.page = page]
<1>2. Calm(t, u)
  BY DEF IsTab, TabField, Calm, Same, Confirmation
<1> HIDE DEF u
<1> QED
  BY <1>1, <1>2 DEF u

LEMMA CalmAgain ==
  ASSUME NEW t, NEW u, NEW v, Calm(t, u), Calm(u, v)
  PROVE  Calm(t, v)
BY DEF Calm, Same

LEMMA RefreshIsCalm ==
  ASSUME NEW t, IsTab(t), NEW gen, NEW overtaken
  PROVE  Calm(t, Refresh(t, gen, overtaken))
<1>1. PICK queries, running, seen :
        LET resumed == Heard([t EXCEPT !.queries = queries], running, "cancelled", None)
        IN  Refresh(t, gen, overtaken) = IF overtaken THEN Heard(resumed, seen, "cancelled", None)
                                                      ELSE resumed
  BY Zenon DEF Refresh
<1> DEFINE asked == [t EXCEPT !.queries = queries]
           resumed == Heard(asked, running, "cancelled", None)
<1>2. Calm(t, asked)
  BY DEF IsTab, TabField, Calm, Same, Confirmation
<1>3. Refresh(t, gen, overtaken) = IF overtaken THEN Heard(resumed, seen, "cancelled", None)
                                                ELSE resumed
  BY <1>1
<1> HIDE DEF asked
<1>4. Calm(t, resumed)
  BY <1>2, HeardIsCalm, CalmAgain DEF Calm
<1> HIDE DEF resumed
<1>5. Calm(resumed, Heard(resumed, seen, "cancelled", None))
  BY <1>4, HeardIsCalm DEF Calm
<1> QED
  BY <1>3, <1>4, <1>5, CalmAgain

LEMMA CacheEffectsAreCalm == ASSUME NEW t, IsTab(t) PROVE Calm(t, CacheEffects(t))
<1>1. PICK queries, left :
        CacheEffects(t) =
          Heard([t EXCEPT !.live = t.shown, !.queries = queries], left, "cancelled", None)
  BY Zenon DEF CacheEffects
<1> DEFINE moved == [t EXCEPT !.live = t.shown, !.queries = queries]
<1>2. Calm(t, moved)
  BY DEF IsTab, TabField, Calm, Same, Confirmation
<1> HIDE DEF moved
<1>3. Calm(moved, Heard(moved, left, "cancelled", None))
  BY <1>2, HeardIsCalm DEF Calm
<1> QED
  BY <1>1, <1>2, <1>3, CalmAgain DEF moved

LEMMA CollectedIsCalm == ASSUME NEW t, IsTab(t) PROVE Calm(t, Collected(t))
<1>1. PICK queries : Collected(t) = [t EXCEPT !.queries = queries]
  BY Zenon DEF Collected
<1>2. Calm(t, [t EXCEPT !.queries = queries])
  BY DEF IsTab, TabField, Calm, Same, Confirmation
<1> QED
  BY <1>1, <1>2

FormsInv == RemovalInv /\ PendingOK(tab) /\ DrawnForms(tab)

\* Presses and effects that leave the confirmation alone.
CalmPress ==
    \/ TurnPage \/ SubmitCreate \/ SubmitInvalidDraft \/ CloseEditor \/ SubmitInvalidLabel
    \/ (\E id \in Wallet : OpenEditor(id)) \/ RetryList \/ SessionChanges

LEMMA CalmPressForms ==
  ASSUME NoneIsNoRecord, FormsInv, CalmPress
  PROVE  PendingOK(tab') /\ DrawnForms(tab')
<1>1. IsTab(tab)
  BY DEF FormsInv, RemovalInv, Apart, Core
<1>2. PICK u : Calm(tab, u) /\ Becomes(u)
  <2>1. CASE TurnPage
    <3>1. PICK page : Becomes([tab EXCEPT !.shown.page = page])
      BY <2>1 DEF TurnPage
    <3>2. Calm(tab, [tab EXCEPT !.shown.page = page])
      BY <1>1 DEF IsTab, TabField, Calm, Same, Confirmation
    <3> QED
      BY <3>1, <3>2
  <2>2. CASE SubmitCreate
    <3>1. PICK form, req : Becomes([tab EXCEPT !.form = form, !.formReq = req])
      BY <2>2 DEF SubmitCreate
    <3>2. Calm(tab, [tab EXCEPT !.form = form, !.formReq = req])
      BY <1>1 DEF IsTab, TabField, Calm, Same, Confirmation
    <3> QED
      BY <3>1, <3>2
  <2>3. CASE SubmitInvalidDraft
    <3>1. PICK form : Becomes([tab EXCEPT !.form = form])
      BY <2>3 DEF SubmitInvalidDraft
    <3>2. Calm(tab, [tab EXCEPT !.form = form])
      BY <1>1 DEF IsTab, TabField, Calm, Same, Confirmation
    <3> QED
      BY <3>1, <3>2
  <2>4. CASE CloseEditor
    <3>1. Becomes([tab EXCEPT !.editing = 0])
      BY <2>4 DEF CloseEditor
    <3>2. Calm(tab, [tab EXCEPT !.editing = 0])
      BY <1>1 DEF IsTab, TabField, Calm, Same, Confirmation
    <3> QED
      BY <3>1, <3>2
  <2>5. CASE SubmitInvalidLabel
    <3>1. PICK waiters, editor : Becomes([tab EXCEPT !.waiters = waiters, !.editor = editor])
      BY <2>5 DEF SubmitInvalidLabel
    <3>2. Calm(tab, [tab EXCEPT !.waiters = waiters, !.editor = editor])
      BY <1>1 DEF IsTab, TabField, Calm, Same, Confirmation
    <3> QED
      BY <3>1, <3>2
  <2>6. CASE \E id \in Wallet : OpenEditor(id)
    <3>1. PICK id \in Wallet : Becomes([tab EXCEPT !.editing = id, !.notice = ""])
      BY <2>6 DEF OpenEditor
    <3>2. Calm(tab, [tab EXCEPT !.editing = id, !.notice = ""])
      BY <1>1 DEF IsTab, TabField, Calm, Same, Confirmation
    <3> QED
      BY <3>1, <3>2
  <2>7. CASE RetryList
    <3>1. Becomes([tab EXCEPT !.queries[Key(tab.shown)] = Started(@)])
      BY <2>7 DEF RetryList
    <3> DEFINE queries == [tab.queries EXCEPT ![Key(tab.shown)] = Started(@)]
    <3>2. Becomes([tab EXCEPT !.queries = queries])
      BY <3>1
    <3> HIDE DEF queries
    <3>3. Calm(tab, [tab EXCEPT !.queries = queries])
      BY <1>1 DEF IsTab, TabField, Calm, Same, Confirmation
    <3> QED
      BY <3>2, <3>3
  <2>8. CASE SessionChanges
    <3>1. PICK gen : Becomes([tab EXCEPT !.shown.gen = gen])
      BY <2>8 DEF SessionChanges
    <3>2. Calm(tab, [tab EXCEPT !.shown.gen = gen])
      BY <1>1 DEF IsTab, TabField, Calm, Same, Confirmation
    <3> QED
      BY <3>1, <3>2
  <2> QED
    BY <2>1, <2>2, <2>3, <2>4, <2>5, <2>6, <2>7, <2>8 DEF CalmPress
<1> QED
  BY <1>2, CalmBecomes DEF FormsInv

\* What refreshes the list leaves the confirmation alone too.
LEMMA CalmRefreshForms ==
  ASSUME NoneIsNoRecord, FormsInv, NEW answer, NEW overtaken,
         CheckList(overtaken) \/ ReadBack(overtaken) \/ CreateAnswered(answer, overtaken)
  PROVE  PendingOK(tab') /\ DrawnForms(tab')
<1>1. IsTab(tab) /\ PendingOK(tab)
  BY DEF FormsInv, RemovalInv, Apart, Core
<1>2. CASE CheckList(overtaken)
  <2>1. Becomes(Refresh(tab, tab.shown.gen, overtaken))
    BY <1>2 DEF CheckList
  <2> QED
    BY <1>1, <2>1, RefreshIsCalm, CalmBecomes
<1>3. CASE ReadBack(overtaken)
  <2> DEFINE unheard == Unheard(tab.waiters)
             quiet == [tab EXCEPT !.waiters = unheard]
             told == Refresh(quiet, tab.shown.gen, overtaken)
  <2>1. PICK check :
          Becomes([told EXCEPT !.waiters = @ \union {check},
                               !.editor = [@ EXCEPT !.read = "reading", !.found = None]])
    BY <1>3 DEF ReadBack
  <2> DEFINE after == [told EXCEPT !.waiters = @ \union {check},
                                   !.editor = [@ EXCEPT !.read = "reading", !.found = None]]
  <2>2. Becomes(after)
    BY <2>1
  <2> HIDE DEF unheard
  <2>3. Calm(tab, quiet)
    BY <1>1 DEF IsTab, TabField, Calm, Same, Confirmation
  <2> HIDE DEF quiet
  <2>4. Calm(quiet, told)
    BY <2>3, RefreshIsCalm DEF Calm
  <2> HIDE DEF told
  <2>5. Calm(told, after)
    BY <2>4 DEF IsTab, TabField, Calm, Same, Confirmation
  <2> HIDE DEF after
  <2> QED
    BY <1>1, <2>2, <2>3, <2>4, <2>5, CalmAgain, CalmBecomes
<1>4. CASE CreateAnswered(answer, overtaken)
  <2>1. PICK form :
          LET settled == [tab EXCEPT !.formReq = None, !.form = form] IN
          \/ Becomes(HandleSaved(settled, tab.formReq.gen, overtaken))
          \/ Becomes(settled)
    BY <1>4 DEF CreateAnswered
  <2> DEFINE settled == [tab EXCEPT !.formReq = None, !.form = form]
             asked == Refresh(settled, tab.formReq.gen, overtaken)
             saved == [asked EXCEPT !.shown.page = 1]
  <2>2. Becomes(saved) \/ Becomes(settled)
    BY <2>1 DEF HandleSaved
  <2>3. Calm(tab, settled)
    BY <1>1 DEF IsTab, TabField, Calm, Same, Confirmation
  <2> HIDE DEF settled
  <2>4. Calm(settled, asked)
    BY <2>3, RefreshIsCalm DEF Calm
  <2> HIDE DEF asked
  <2>5. Calm(asked, saved)
    BY <2>4 DEF IsTab, TabField, Calm, Same, Confirmation
  <2> HIDE DEF saved
  <2> QED
    BY <1>1, <2>2, <2>3, <2>4, <2>5, CalmAgain, CalmBecomes
<1> QED
  BY <1>2, <1>3, <1>4

LEMMA ListAnswersForms ==
  ASSUME NoneIsNoRecord, FormsInv, NEW key \in QueryKey, NEW answer, ListAnswers(key, answer)
  PROVE  PendingOK(tab') /\ DrawnForms(tab')
<1>1. IsTab(tab) /\ PendingOK(tab)
  BY DEF FormsInv, RemovalInv, Apart, Core
<1>2. PICK queries, outcome, snap :
        Becomes(Collected(Heard([tab EXCEPT !.queries = queries], {key}, outcome, snap)))
  BY Zenon DEF ListAnswers
<1> DEFINE arrived == [tab EXCEPT !.queries = queries]
           heard == Heard(arrived, {key}, outcome, snap)
<1>3. Calm(tab, arrived)
  BY <1>1 DEF IsTab, TabField, Calm, Same, Confirmation
<1>4. Becomes(Collected(heard))
  BY <1>2
<1> HIDE DEF arrived
<1>5. Calm(tab, heard)
  BY <1>3, HeardIsCalm, CalmAgain DEF Calm
<1> HIDE DEF heard
<1>6. Calm(tab, Collected(heard))
  BY <1>5, CollectedIsCalm, CalmAgain DEF Calm
<1> QED
  BY <1>1, <1>4, <1>6, CalmBecomes

LEMMA ConfirmationPressForms ==
  ASSUME NoneIsNoRecord, FormsInv,
         CancelRemoval \/ Remove \/ Verify \/ SubmitLabel \/ \E id \in Wallet : OpenRemoval(id)
  PROVE  PendingOK(tab') /\ DrawnForms(tab')
<1>1. IsTab(tab) /\ PendingOK(tab) /\ PanelOK(tab)
  BY DEF FormsInv, RemovalInv, RemovalOK, Apart, Core
<1>2. PICK t : IsTab(t) /\ PendingOK(t) /\ Becomes(t)
  <2>1. CASE CancelRemoval
    <3>1. Becomes([tab EXCEPT !.removing = 0, !.pending = FALSE])
      BY <2>1 DEF CancelRemoval
    <3>2. LET t == [tab EXCEPT !.removing = 0, !.pending = FALSE] IN IsTab(t) /\ PendingOK(t)
      BY <1>1 DEF IsTab, TabField, PendingOK
    <3> QED
      BY <3>1, <3>2
  <2>2. CASE Remove
    <3>1. PICK req, panel :
            /\ req = [field \in {"kind", "id", "label", "gen", "answer"} |-> req[field]]
            /\ req.kind = "delete"
            /\ Becomes([tab EXCEPT !.rowReq = req, !.pending = TRUE, !.panel = panel])
      BY <2>2 DEF Remove, Ask
    <3>2. req # None
      BY <3>1, RecordIsNotNone
    <3>3. tab.removing # 0
      BY <1>1, <2>2 DEF Remove, PanelOK
    <3>4. LET t == [tab EXCEPT !.rowReq = req, !.pending = TRUE, !.panel = panel]
          IN  IsTab(t) /\ PendingOK(t)
      BY <1>1, <3>1, <3>2, <3>3 DEF IsTab, TabField, PendingOK
    <3> QED
      BY <3>1, <3>4
  <2>3. CASE Verify
    <3>1. PICK req, check : Becomes([tab EXCEPT !.rowReq = req, !.panel.check = check])
      BY <2>3 DEF Verify
    <3>2. ~tab.pending
      BY <1>1, <2>3 DEF Verify, PendingOK
    <3>3. LET t == [tab EXCEPT !.rowReq = req, !.panel.check = check] IN IsTab(t) /\ PendingOK(t)
      BY <1>1, <3>2 DEF IsTab, TabField, PendingOK
    <3> QED
      BY <3>1, <3>3
  <2>4. CASE SubmitLabel
    <3>1. PICK req, waiters, editor :
            Becomes([tab EXCEPT !.rowReq = req, !.waiters = waiters, !.editor = editor])
      BY <2>4 DEF SubmitLabel
    <3>2. tab.pending => tab.panel = None
      BY <1>1, <2>4 DEF SubmitLabel, PendingOK
    <3>3. LET t == [tab EXCEPT !.rowReq = req, !.waiters = waiters, !.editor = editor]
          IN  IsTab(t) /\ PendingOK(t)
      BY <1>1, <3>2 DEF IsTab, TabField, PendingOK
    <3> QED
      BY <3>1, <3>3
  <2>5. CASE \E id \in Wallet : OpenRemoval(id)
    <3>1. PICK id \in Wallet : OpenRemoval(id)
      BY <2>5
    <3>2. Becomes([tab EXCEPT !.removing = id, !.notice = ""]) /\ tab.removing = 0
      BY <3>1 DEF OpenRemoval, RowIsFree
    <3>3. LET t == [tab EXCEPT !.removing = id, !.notice = ""] IN IsTab(t) /\ PendingOK(t)
      BY <1>1, <3>2 DEF IsTab, TabField, PendingOK
    <3> QED
      BY <3>2, <3>3
  <2> QED
    BY <2>1, <2>2, <2>3, <2>4, <2>5
<1> QED
  BY <1>2, BecomesForms

LEMMA LabelAnsweredForms ==
  ASSUME NoneIsNoRecord, FormsInv, NEW answer, NEW overtaken, LabelAnswered(answer, overtaken)
  PROVE  PendingOK(tab') /\ DrawnForms(tab')
<1> DEFINE free == [tab EXCEPT !.rowReq = None]
           asked == Refresh(free, tab.rowReq.gen, overtaken)
           updated == [asked EXCEPT !.editing = 0, !.notice = "updated"]
<1>1. IsTab(tab) /\ PendingOK(tab)
  BY DEF FormsInv, RemovalInv, Apart, Core
<1>2. PICK editor : Becomes(updated) \/ Becomes([free EXCEPT !.editor = editor])
  BY DEF LabelAnswered, HandleUpdated
<1> DEFINE failed == [free EXCEPT !.editor = editor]
<1>3. tab.pending => tab.panel = None
  BY <1>1 DEF LabelAnswered, PendingOK
<1>4. IsTab(free) /\ PendingOK(free)
  BY <1>1, <1>3 DEF IsTab, TabField, PendingOK
<1>5. Becomes(updated) \/ Becomes(failed)
  BY <1>2
<1> HIDE DEF free
<1>6. Calm(free, failed)
  BY <1>4 DEF IsTab, TabField, Calm, Same, Confirmation
<1>7. Calm(free, asked)
  BY <1>4, RefreshIsCalm
<1> HIDE DEF asked, failed
<1>8. Calm(asked, updated)
  BY <1>7 DEF IsTab, TabField, Calm, Same, Confirmation
<1> HIDE DEF updated
<1> QED
  BY <1>4, <1>5, <1>6, <1>7, <1>8, CalmAgain, SamePending, BecomesForms DEF Calm

LEMMA GoneForms ==
  ASSUME NoneIsNoRecord, FormsInv, NEW how, NEW overtaken, Becomes(Gone(tab, how, overtaken))
  PROVE  PendingOK(tab') /\ DrawnForms(tab')
<1> DEFINE settled == tab.settled \union {[id |-> tab.removing, page |-> tab.shown.page]}
           gone == tab.gone \union {tab.removing}
           closed == [tab EXCEPT !.removing = 0, !.pending = FALSE, !.rowReq = None,
                                 !.settled = settled, !.gone = gone]
           noticed == [closed EXCEPT !.notice = how]
           told == Refresh(noticed, tab.shown.gen, overtaken)
           waits == [told EXCEPT !.waiters = @ \union {SettleOf(tab.shown)}]
<1>1. IsTab(tab)
  BY DEF FormsInv, RemovalInv, Apart, Core
<1>2. Becomes(closed) \/ Becomes(waits)
  BY DEF Gone
<1> HIDE DEF settled, gone
<1>3. IsTab(closed) /\ PendingOK(closed)
  BY <1>1 DEF IsTab, TabField, PendingOK
<1> HIDE DEF closed
<1>4. Calm(closed, noticed)
  BY <1>3 DEF IsTab, TabField, Calm, Same, Confirmation
<1> HIDE DEF noticed
<1>5. Calm(noticed, told)
  BY <1>4, RefreshIsCalm DEF Calm
<1> HIDE DEF told
<1>6. Calm(told, waits)
  BY <1>5 DEF IsTab, TabField, Calm, Same, Confirmation
<1> HIDE DEF waits
<1> QED
  BY <1>2, <1>3, <1>4, <1>5, <1>6, CalmAgain, SamePending, BecomesForms DEF Calm

LEMMA RowAnswersForms ==
  ASSUME NoneIsNoRecord, FormsInv, NEW answer, NEW overtaken,
         RemovalAnswered(answer, overtaken) \/ CheckAnswered(answer, overtaken)
  PROVE  PendingOK(tab') /\ DrawnForms(tab')
<1>1. IsTab(tab) /\ PendingOK(tab) /\ PanelOK(tab)
  BY DEF FormsInv, RemovalInv, RemovalOK, Apart, Core
<1>2. CASE RemovalAnswered(answer, overtaken)
  <2>1. PICK state :
          \/ Becomes(Gone(tab, "removed", overtaken))
          \/ Becomes(Gone(tab, "unavailable", overtaken))
          \/ Becomes([tab EXCEPT !.rowReq = None, !.pending = FALSE, !.panel.state = state])
    BY <1>2 DEF RemovalAnswered
  <2> DEFINE t == [tab EXCEPT !.rowReq = None, !.pending = FALSE, !.panel.state = state]
  <2>2. IsTab(t) /\ PendingOK(t)
    BY <1>1 DEF IsTab, TabField, PendingOK
  <2>3. \/ \E how : Becomes(Gone(tab, how, overtaken))
        \/ Becomes(t)
    BY <2>1
  <2> HIDE DEF t
  <2> QED
    BY <2>2, <2>3, GoneForms, BecomesForms
<1>3. CASE CheckAnswered(answer, overtaken)
  <2>1. PICK check :
          \/ Becomes(Gone(tab, "unavailable", overtaken))
          \/ Becomes([tab EXCEPT !.rowReq = None, !.panel.check = check])
    BY <1>3 DEF CheckAnswered
  <2> DEFINE t == [tab EXCEPT !.rowReq = None, !.panel.check = check]
  <2>2. ~tab.pending
    BY <1>1, <1>3 DEF CheckAnswered, PanelOK, PendingOK
  <2>3. IsTab(t) /\ PendingOK(t)
    BY <1>1, <2>2 DEF IsTab, TabField, PendingOK
  <2>4. \/ \E how : Becomes(Gone(tab, how, overtaken))
        \/ Becomes(t)
    BY <2>1
  <2> HIDE DEF t
  <2> QED
    BY <2>3, <2>4, GoneForms, BecomesForms
<1> QED
  BY <1>2, <1>3

LEMMA RunEffectsForms ==
  ASSUME NoneIsNoRecord, FormsInv, RunEffects
  PROVE  PendingOK(tab') /\ DrawnForms(tab')
<1> DEFINE u == CacheEffects(tab)
           formed == [u EXCEPT !.form = NewForm, !.formReq = None]
           new == [formed EXCEPT !.editing = 0, !.removing = 0, !.pending = FALSE,
                                 !.settled = {}, !.notice = "", !.gone = {}]
<1>1. IsTab(tab) /\ PendingOK(tab)
  BY DEF FormsInv, RemovalInv, Apart, Core
<1>2. Becomes(u) \/ Becomes(new)
  BY DEF RunEffects, AfterEffects, PageForNewIdentity, FormForNewIdentity
<1>3. Calm(tab, u)
  BY <1>1, CacheEffectsAreCalm
<1> HIDE DEF u
<1>4. IsTab(formed)
  BY <1>3 DEF Calm, IsTab, TabField
<1> HIDE DEF formed
<1>5. IsTab(new) /\ PendingOK(new)
  BY <1>4 DEF IsTab, TabField, PendingOK
<1> HIDE DEF new
<1> QED
  BY <1>1, <1>2, <1>3, <1>5, CalmBecomes, BecomesForms

\* What arrives at the server, or is answered there, is not on screen yet.
LEMMA ServesForms ==
  ASSUME NoneIsNoRecord, FormsInv, Serves
  PROVE  PendingOK(tab') /\ DrawnForms(tab')
<1>1. Core(tab) /\ PendingOK(tab) /\ DrawnForms(tab)
  BY DEF FormsInv, RemovalInv, Apart
<1>2. CASE \E key \in QueryKey : ReadsList(key)
  <2>1. PICK key \in QueryKey : /\ tab.queries[key] # None
                                /\ \E snap, total : Reads(key, snap, total)
    BY <1>2, ReadsListEffect
  <2> PICK snap, total : Reads(key, snap, total)
    BY <2>1
  <2> DEFINE fetch == [snap |-> snap, total |-> total]
             queries == [tab.queries EXCEPT ![key].fetch = fetch]
  <2>2. tab.queries[key] # None /\ tab' = [tab EXCEPT !.queries = queries]
    BY <2>1 DEF Reads
  <2> HIDE DEF fetch
  <2>3. \A other \in QueryKey :
          tab.queries[other] = None \/ queries[other].data = tab.queries[other].data
    BY <1>1 DEF Core, CacheOK, OfItsKey, IsQuery
  <2>4. \A other \in QueryKey : tab.queries[other] = None => queries[other] = None
    BY <1>1, <2>2 DEF Core, CacheOK
  <2> HIDE DEF queries
  <2>5. /\ IsTab(tab') /\ Same(tab, tab', Confirmation) /\ tab'.queries = queries
        /\ tab'.shown = tab.shown /\ tab'.editing = tab.editing /\ tab'.editor = tab.editor
    BY <1>1, <2>2 DEF Core, IsTab, TabField, Same, Confirmation
  <2>6. Data(tab') # None => Data(tab) # None
    BY <2>3, <2>4, <2>5 DEF Data
  <2> QED
    BY <1>1, <2>5, <2>6, SamePending DEF DrawnForms, Same, Confirmation
<1>3. CASE \E reply \in Replies : ServeCreate(reply)
  <2>1. PICK req : tab' = [tab EXCEPT !.formReq = req]
    BY <1>3 DEF ServeCreate
  <2>2. /\ Same(tab, tab', Confirmation) /\ tab'.queries = tab.queries
        /\ tab'.shown = tab.shown /\ tab'.editing = tab.editing /\ tab'.editor = tab.editor
    BY <1>1, <2>1 DEF Core, IsTab, TabField, Same, Confirmation
  <2> QED
    BY <1>1, <2>2, SamePending DEF DrawnForms, Data, Same, Confirmation
<1>4. CASE \E reply \in Replies : ServeRow(reply)
  <2>1. PICK reply \in Replies : ServeRow(reply)
    BY <1>4
  <2> DEFINE req == [tab.rowReq EXCEPT !.answer = reply]
  <2>2. tab.rowReq # None /\ tab' = [tab EXCEPT !.rowReq = req]
    BY <2>1 DEF ServeRow
  <2>3. IsRequest(req) /\ req.kind = tab.rowReq.kind
    BY <2>2 DEF FormsInv, RemovalInv, Apart, RequestsOK, IsRequest
  <2> HIDE DEF req
  <2>4. req # None
    BY <2>3, RecordIsNotNone DEF IsRequest
  <2>5. /\ tab'.pending = tab.pending /\ tab'.removing = tab.removing /\ tab'.panel = tab.panel
        /\ tab'.rowReq = req /\ tab'.queries = tab.queries
        /\ tab'.shown = tab.shown /\ tab'.editing = tab.editing /\ tab'.editor = tab.editor
    BY <1>1, <2>2 DEF Core, IsTab, TabField
  <2> QED
    BY <1>1, <2>3, <2>4, <2>5 DEF PendingOK, DrawnForms, Data
<1>5. CASE LateWrite
  BY <1>1, <1>5 DEF LateWrite
<1> QED
  BY <1>2, <1>3, <1>4, <1>5 DEF Serves, ReadsList

LEMMA PageNextForms ==
  ASSUME NoneIsNoRecord, FormsInv, PageNext
  PROVE  PendingOK(tab') /\ DrawnForms(tab')
<1>1. CASE FormPresses
  BY <1>1, CalmPressForms, CalmRefreshForms DEF FormPresses, CalmPress
<1>2. CASE EditorPresses
  BY <1>2, CalmPressForms, CalmRefreshForms, ConfirmationPressForms DEF EditorPresses, CalmPress
<1>3. CASE PanelPresses
  BY <1>3, ConfirmationPressForms DEF PanelPresses
<1>4. CASE PagePresses
  BY <1>4, CalmPressForms, ConfirmationPressForms DEF PagePresses, CalmPress
<1>5. CASE ListEnds
  BY <1>5, ListAnswersForms DEF ListEnds
<1>6. CASE RowAnswers
  BY <1>6, LabelAnsweredForms, RowAnswersForms DEF RowAnswers
<1>7. CASE CreateAnswers
  BY <1>7, CalmRefreshForms DEF CreateAnswers
<1>8. CASE SessionChanges
  BY <1>8, CalmPressForms DEF CalmPress
<1>9. CASE RunEffects
  BY <1>9, RunEffectsForms
<1> QED
  BY <1>1, <1>2, <1>3, <1>4, <1>5, <1>6, <1>7, <1>8, <1>9, ServesForms DEF PageNext

\* With rows on screen, what is open has its form there, and the page is locked only for
\* a removal that is on the wire, so that no control is disabled for something nobody can
\* see or end: WalletsPage.tsx, the rows' `disabled` and the effects that close what the
\* list no longer shows.
THEOREM NothingIsLockedForNothing == ASSUME NoneIsNoRecord PROVE Spec => []NoDeadScreen
<1>1. Init => PendingOK(tab) /\ DrawnForms(tab)
  <2>1. ASSUME Init PROVE tab.editing = 0 /\ tab.removing = 0
    BY <2>1 DEF Init, PageInit
  <2>2. ASSUME Init PROVE ~tab.pending
    BY <2>2 DEF Init, PageInit
  <2> QED
    BY <2>1, <2>2 DEF PendingOK, DrawnForms
<1>2. FormsInv /\ [Next]_vars => PendingOK(tab)' /\ DrawnForms(tab)'
  <2>1. ASSUME FormsInv, [Next]_vars PROVE PendingOK(tab') /\ DrawnForms(tab')
    <3>1. CASE UNCHANGED pageVars
      BY <2>1, <3>1 DEF pageVars, FormsInv
    <3>2. CASE PageStep
      BY <2>1, <3>2, PageNextForms DEF PageStep
    <3> QED
      BY <2>1, <3>1, <3>2 DEF Next, CallStep, OpenScreen, vars
  <2> QED
    BY <2>1
<1>3. PendingOK(tab) /\ DrawnForms(tab) => NoDeadScreen
  BY DEF PendingOK, DrawnForms, NoDeadScreen
<1> QED
  BY <1>1, <1>2, <1>3, RemovalInvHolds, PTL DEF Spec, FormsInv

-----------------------------------------------------------------------------
(* The check of one row. *)

IsWaiter(w) == w = [field \in {"kind", "view", "id", "stage", "current", "asked", "attempt"} |-> w[field]]
IsEditor(e) == e = [field \in {"status", "attempt", "read", "found"} |-> e[field]]

\* The fetch a waiter waits for is running, and one it asked for itself, if the server has
\* answered it, was answered after the press.
OnWire(queries, w) ==
    LET q == queries[Key(w.view)]
    IN  /\ q # None /\ q.fetch # None
        /\ w.stage = "fetching" /\ q.fetch.snap # None => q.fetch.snap.version >= w.asked

\* What a check that is heard was asked for, and by whom.
AskedBy(t, s, w) ==
    /\ w.kind = "check" /\ Key(w.view) \in QueryKey
    /\ w.asked \in Nat /\ w.asked <= s.version
    /\ t.editor # None /\ w.attempt = t.editor.attempt

EditorOK(t) ==
    t.editor # None =>
      /\ IsEditor(t.editor)
      /\ t.editor.read = "reading" => \E w \in t.waiters : w.current
      /\ t.editor.read = "found" => /\ t.editor.found.version >= t.editor.found.asked
                                    /\ t.editor.found.attempt = t.editor.attempt

WaitersOK(t, s) ==
    /\ \A w \in t.waiters : IsWaiter(w)
    /\ \A w \in t.waiters : w.current => AskedBy(t, s, w)

ChecksOK(t, s) ==
    /\ WaitersOK(t, s) /\ EditorOK(t)
    /\ \A w \in t.waiters : w.current => OnWire(t.queries, w)

\* The fetches of `keys` have ended: what is on the wire for them was not answered yet.
ChecksReady(t, s, keys, outcome, snap) ==
    /\ WaitersOK(t, s) /\ EditorOK(t)
    /\ \A w \in t.waiters : w.current =>
         /\ Key(w.view) \notin keys => OnWire(t.queries, w)
         /\ Key(w.view) \in keys /\ outcome = "ok" /\ w.stage = "fetching" => snap.version >= w.asked
    /\ \A key \in keys : LET q == t.queries[key]
                         IN  q = None \/ q.fetch = None \/ q.fetch.snap = None

\* What a check is made of.
Checking == {"waiters", "editor", "queries"}

LEMMA SameChecks ==
  ASSUME NEW t, NEW u, NEW s, ChecksOK(t, s), Same(t, u, Checking)
  PROVE  ChecksOK(u, s)
<1>1. u.waiters = t.waiters /\ u.editor = t.editor /\ u.queries = t.queries
  BY DEF Same, Checking
<1> QED
  BY <1>1 DEF ChecksOK, WaitersOK, AskedBy, EditorOK

LEMMA ReportedFields ==
  ASSUME NEW e, IsEditor(e), NEW found, NEW outcome
  PROVE  LET r == Reported(e, found, outcome) IN
         /\ IsEditor(r) /\ r.attempt = e.attempt /\ r.found = found
         /\ r.read # "reading" /\ (r.read = "found" => found # None)
BY DEF Reported, IsEditor

LEMMA HeardChecks ==
  ASSUME NoneIsNoRecord, NEW t, IsTab(t), CacheOK(t.queries), NEW s, NEW keys, NEW outcome, NEW snap,
         keys \subseteq QueryKey, ChecksReady(t, s, keys, outcome, snap)
  PROVE  LET u == Heard(t, keys, outcome, snap) IN
         /\ ChecksOK(u, s)
         /\ t.editor # None => u.editor # None /\ u.editor.attempt = t.editor.attempt
<1> DEFINE told == {waiter \in t.waiters : Key(waiter.view) \in keys}
           on == {waiter \in told : ReadsOn(t, waiter)}
           again == {Key(waiter.view) : waiter \in on}
           report == {waiter \in told \ on : waiter.current}
           waiters == (t.waiters \ told) \union {[waiter EXCEPT !.stage = "fetching"] : waiter \in on}
           queries == [key \in QueryKey |-> IF key \in again THEN Started(t.queries[key])
                                                             ELSE t.queries[key]]
           editor == IF t.editor = None \/ report = {} THEN t.editor
                     ELSE LET waiter == CHOOSE waiter \in report : TRUE
                          IN  Reported(t.editor, Found(t, waiter, outcome, snap), outcome)
           u == Heard(t, keys, outcome, snap)
<1>1. u.waiters = waiters /\ u.editor = editor /\ u.queries = queries
  <2>1. PICK notice, page :
          u = [t EXCEPT !.waiters = waiters, !.queries = queries, !.editor = editor,
                        !.notice = notice, !.shown.page = page]
    BY Zenon DEF Heard
  <2> HIDE DEF waiters, editor, queries, u
  <2> QED
    BY <2>1 DEF IsTab, TabField
<1>2. /\ \A w \in t.waiters : IsWaiter(w)
      /\ \A w \in t.waiters : w.current => AskedBy(t, s, w)
      /\ t.editor # None => IsEditor(t.editor)
  BY DEF ChecksReady, WaitersOK, EditorOK
<1>3. \A key \in QueryKey : t.queries[key] # None => IsQuery(t.queries[key])
  BY DEF CacheOK, OfItsKey
<1>4. Asking.snap = None
  BY DEF Asking
<1>5. \A w \in report : w \in t.waiters /\ w.current /\ Key(w.view) \in keys
  OBVIOUS
<1>6. /\ \A w \in waiters : \/ w \in t.waiters /\ Key(w.view) \notin keys
                            \/ \E v \in on : w = [v EXCEPT !.stage = "fetching"]
      /\ \A v \in on : /\ v \in t.waiters /\ Key(v.view) \in keys /\ Key(v.view) \in again
                       /\ [v EXCEPT !.stage = "fetching"] \in waiters
      /\ \A w \in t.waiters : w \in waiters \/ w \in on \/ (w.current => w \in report)
  OBVIOUS
<1>7. \A key \in QueryKey : /\ key \in again => queries[key] = Started(t.queries[key])
                            /\ key \notin again => queries[key] = t.queries[key]
  OBVIOUS
<1>8. \/ editor = t.editor /\ (t.editor = None \/ report = {})
      \/ t.editor # None /\ \E w \in report : editor = Reported(t.editor, Found(t, w, outcome, snap), outcome)
  <2>1. CASE t.editor = None \/ report = {}
    BY <2>1
  <2>2. CASE ~(t.editor = None \/ report = {})
    <3> DEFINE w == CHOOSE w \in report : TRUE
    <3>1. editor = Reported(t.editor, Found(t, w, outcome, snap), outcome)
      BY <2>2
    <3>2. w \in report
      <4> HIDE DEF report
      <4> QED
        BY <2>2
    <3> HIDE DEF editor, report, w
    <3> QED
      BY <2>2, <3>1, <3>2
  <2> QED
    BY <2>1, <2>2
<1> HIDE DEF told, on, again, report, waiters, queries, editor, u
<1>9. /\ t.editor # None => editor # None /\ IsEditor(editor) /\ editor.attempt = t.editor.attempt
      /\ t.editor = None => editor = None
  <2>1. ASSUME t.editor # None, NEW found
        PROVE  LET r == Reported(t.editor, found, outcome)
               IN  r # None /\ IsEditor(r) /\ r.attempt = t.editor.attempt
    <3> DEFINE r == Reported(t.editor, found, outcome)
    <3>1. IsEditor(r) /\ r.attempt = t.editor.attempt
      BY <1>2, <2>1, ReportedFields
    <3> HIDE DEF r
    <3>2. r # None
      BY <3>1, RecordIsNotNone DEF IsEditor
    <3> QED
      BY <3>1, <3>2 DEF r
  <2> QED
    BY <1>2, <1>8, <2>1
<1>10. ASSUME NEW v \in on
       PROVE  LET w == [v EXCEPT !.stage = "fetching"] IN
              /\ IsWaiter(w) /\ w.current = v.current /\ w.view = v.view
              /\ w.kind = v.kind /\ w.asked = v.asked /\ w.attempt = v.attempt
  BY <1>2, <1>6 DEF IsWaiter
<1>11. ASSUME NEW w \in waiters, w.current
       PROVE  IsWaiter(w) /\ AskedBy(u, s, w) /\ OnWire(queries, w)
  <2>1. CASE w \in t.waiters /\ Key(w.view) \notin keys
    <3>1. AskedBy(u, s, w)
      BY <1>1, <1>2, <1>9, <1>11, <2>1 DEF AskedBy
    <3>2. OnWire(t.queries, w) /\ Key(w.view) \in QueryKey
      BY <1>2, <1>11, <2>1 DEF ChecksReady, AskedBy
    <3>3. queries[Key(w.view)] = t.queries[Key(w.view)]
      BY <1>3, <1>7, <3>2, StartedIsAsked DEF OnWire
    <3> QED
      BY <1>2, <2>1, <3>1, <3>2, <3>3 DEF OnWire
  <2>2. CASE \E v \in on : w = [v EXCEPT !.stage = "fetching"]
    <3>1. PICK v \in on : w = [v EXCEPT !.stage = "fetching"]
      BY <2>2
    <3>2. /\ IsWaiter(w) /\ w.current = v.current /\ w.view = v.view
          /\ w.kind = v.kind /\ w.asked = v.asked /\ w.attempt = v.attempt
      BY <1>10, <3>1
    <3>3. AskedBy(t, s, v)
      BY <1>2, <1>6, <1>11, <3>2
    <3>4. AskedBy(u, s, w)
      BY <1>1, <1>9, <3>2, <3>3 DEF AskedBy
    <3> DEFINE key == Key(v.view)
               q == t.queries[key]
    <3>5. key \in QueryKey /\ key \in keys /\ queries[key] = Started(q) /\ Key(w.view) = key
      BY <1>6, <1>7, <3>2, <3>3 DEF AskedBy
    <3>6. q = None \/ q.fetch = None \/ q.fetch.snap = None
      BY <3>5 DEF ChecksReady
    <3>7. q # None => IsQuery(q)
      BY <1>3, <3>5
    <3> HIDE DEF q, key
    <3>8. Started(q) # None /\ Started(q).fetch # None /\ Started(q).fetch.snap = None
      BY <1>4, <3>6, <3>7, StartedIsAsked
    <3> QED
      BY <3>2, <3>4, <3>5, <3>8 DEF OnWire
  <2> QED
    BY <1>6, <2>1, <2>2
<1>12. \A w \in waiters : IsWaiter(w)
  BY <1>2, <1>6, <1>10
<1>13. EditorOK(u)
  <2>1. CASE editor = t.editor /\ (t.editor = None \/ report = {})
    <3>1. ASSUME editor # None, editor.read = "reading" PROVE \E w \in waiters : w.current
      <4>1. PICK v \in t.waiters : v.current
        BY <2>1, <3>1 DEF ChecksReady, EditorOK
      <4>2. v \in waiters \/ v \in on
        BY <1>6, <2>1, <3>1, <4>1
      <4> QED
        BY <1>6, <1>10, <4>1, <4>2
    <3>2. editor # None /\ editor.read = "found" => /\ editor.found.version >= editor.found.asked
                                                     /\ editor.found.attempt = editor.attempt
      BY <2>1 DEF ChecksReady, EditorOK
    <3> QED
      BY <1>1, <1>9, <2>1, <3>1, <3>2 DEF EditorOK
  <2>2. CASE /\ t.editor # None
             /\ \E w \in report : editor = Reported(t.editor, Found(t, w, outcome, snap), outcome)
    <3>1. PICK w \in report : editor = Reported(t.editor, Found(t, w, outcome, snap), outcome)
      BY <2>2
    <3> DEFINE found == Found(t, w, outcome, snap)
    <3>2. /\ editor.found = found /\ editor.read # "reading"
          /\ editor.read = "found" => found # None
      BY <1>2, <2>2, <3>1, ReportedFields
    <3>3. found # None => /\ outcome = "ok" /\ w.stage = "fetching"
                          /\ found.version = snap.version /\ found.asked = w.asked
                          /\ found.attempt = w.attempt
      BY DEF Found
    <3> HIDE DEF found
    <3>4. AskedBy(t, s, w) /\ Key(w.view) \in keys /\ w \in t.waiters /\ w.current
      BY <1>2, <1>5
    <3>5. found # None => found.version >= found.asked /\ found.attempt = t.editor.attempt
      BY <3>3, <3>4 DEF AskedBy, ChecksReady
    <3> QED
      BY <1>1, <1>9, <2>2, <3>2, <3>5 DEF EditorOK
  <2> QED
    BY <1>8, <2>1, <2>2
<1> QED
  BY <1>1, <1>9, <1>11, <1>12, <1>13 DEF ChecksOK, WaitersOK, u

\* A check nobody listens to any more is heard of no more.
LEMMA UnheardWaiters ==
  ASSUME NEW waiters, \A w \in waiters : IsWaiter(w), NEW v \in Unheard(waiters)
  PROVE  IsWaiter(v) /\ ~v.current
<1>1. PICK w \in waiters : v = [w EXCEPT !.current = FALSE]
  BY DEF Unheard
<1> QED
  BY <1>1 DEF IsWaiter

LEMMA RenderedChecks ==
  ASSUME NoneIsNoRecord, NEW t, IsTab(t), NEW s, ChecksOK(t, s)
  PROVE  /\ ChecksOK(Rendered(t), s)
         /\ Rendered(t).editor # None => Drawn(Rendered(t), Rendered(t).editing)
<1> DEFINE r == Retired(t)
           n == RowForms(r)
           m == Mounted(r)
<1>1. IsTab(r) /\ Same(t, r, Checking) /\ r.shown = t.shown
  BY DEF IsTab, TabField, Retired, Same, Checking
<1> HIDE DEF r
<1>2. /\ IsTab(n) /\ n.waiters = r.waiters /\ n.queries = r.queries /\ n.editing = r.editing
      /\ n.shown = r.shown
      /\ n.editor = IF r.editing # 0 /\ Drawn(r, r.editing)
                    THEN (IF r.editor = None THEN NewEditor ELSE r.editor) ELSE None
  BY <1>1 DEF IsTab, TabField, RowForms
<1>3. PICK pending, form, owned :
        m = [[n EXCEPT !.pending = pending]
                EXCEPT !.rowReq = IF owned THEN n.rowReq ELSE None,
                       !.waiters = IF n.editor # None THEN n.waiters ELSE Unheard(n.waiters),
                       !.form = form]
  <2> HIDE DEF n
  <2> QED
    BY <1>2 DEF Mounted, n, IsTab, TabField
<1> HIDE DEF n, m
<1>4. /\ m.editor = n.editor /\ m.queries = n.queries /\ m.editing = n.editing /\ m.shown = n.shown
      /\ m.waiters = IF n.editor # None THEN n.waiters ELSE Unheard(n.waiters)
  <2> DEFINE p == [n EXCEPT !.pending = pending]
             ws == IF n.editor # None THEN n.waiters ELSE Unheard(n.waiters)
  <2>1. /\ IsTab(p) /\ p.editor = n.editor /\ p.queries = n.queries /\ p.editing = n.editing
        /\ p.shown = n.shown
    BY <1>2 DEF IsTab, TabField
  <2>2. m = [p EXCEPT !.rowReq = IF owned THEN n.rowReq ELSE None, !.waiters = ws, !.form = form]
    BY <1>3
  <2> HIDE DEF p, ws
  <2>3. /\ m.editor = p.editor /\ m.queries = p.queries /\ m.editing = p.editing
        /\ m.shown = p.shown /\ m.waiters = ws
    BY <2>1, <2>2 DEF IsTab, TabField
  <2> QED
    BY <2>1, <2>3 DEF ws
<1>5. ChecksOK(r, s)
  BY <1>1, SameChecks
<1>6. ChecksOK(m, s)
  <2>1. CASE n.editor = None
    <3>1. \A w \in m.waiters : IsWaiter(w) /\ ~w.current
      BY <1>2, <1>4, <1>5, <2>1, UnheardWaiters DEF ChecksOK, WaitersOK
    <3> QED
      BY <1>4, <2>1, <3>1 DEF ChecksOK, WaitersOK, EditorOK
  <2>2. CASE n.editor # None /\ r.editor # None
    <3>1. m.editor = r.editor /\ m.waiters = r.waiters /\ m.queries = r.queries
      BY <1>2, <1>4, <2>2
    <3> QED
      BY <1>5, <3>1, SameChecks DEF Same, Checking
  <2>3. CASE n.editor # None /\ r.editor = None
    <3>1. m.editor = NewEditor /\ m.waiters = r.waiters /\ m.queries = r.queries
      BY <1>2, <1>4, <2>3
    <3>2. \A w \in r.waiters : IsWaiter(w) /\ ~w.current
      BY <1>5, <2>3 DEF ChecksOK, WaitersOK, AskedBy
    <3>3. IsEditor(NewEditor) /\ NewEditor.read = "idle"
      BY DEF NewEditor, IsEditor
    <3> QED
      BY <3>1, <3>2, <3>3 DEF ChecksOK, WaitersOK, EditorOK
  <2> QED
    BY <2>1, <2>2, <2>3
<1>7. m.editor # None => Drawn(m, m.editing)
  <2>1. m.editing = r.editing /\ m.queries = r.queries /\ m.shown = r.shown /\ m.editor = n.editor
    BY <1>2, <1>4
  <2>2. \A id : Drawn(m, id) <=> Drawn(r, id)
    BY <2>1 DEF Drawn, Data
  <2> QED
    BY <1>2, <2>1, <2>2
<1> QED
  BY <1>6, <1>7 DEF Rendered, m, r

LEMMA ReadyChecks ==
  ASSUME NEW t, NEW s, ChecksOK(t, s), NEW keys, NEW outcome, NEW snap, outcome # "ok",
         \A key \in keys : LET q == t.queries[key]
                           IN  q = None \/ q.fetch = None \/ q.fetch.snap = None
  PROVE  ChecksReady(t, s, keys, outcome, snap)
BY DEF ChecksOK, ChecksReady

LEMMA RefreshChecks ==
  ASSUME NoneIsNoRecord, NEW t, Core(t), NEW s, ChecksOK(t, s), NEW gen, gen = t.live.gen,
         NEW overtaken
  PROVE  LET u == Refresh(t, gen, overtaken) IN
         /\ ChecksOK(u, s)
         /\ t.editor # None => u.editor # None /\ u.editor.attempt = t.editor.attempt
<1> DEFINE keys == {key \in QueryKey : key[1] = gen /\ t.queries[key] # None}
           running == {key \in keys : t.queries[key].fetch # None}
           queries == [key \in QueryKey |->
                         IF key \in keys THEN [t.queries[key] EXCEPT !.fetch = Asking]
                                         ELSE t.queries[key]]
           asked == [t EXCEPT !.queries = queries]
           resumed == Heard(asked, running, "cancelled", None)
           seen == {key \in running : t.queries[key].data # None}
<1>1. Refresh(t, gen, overtaken) = IF overtaken THEN Heard(resumed, seen, "cancelled", None)
                                                ELSE resumed
  BY DEF Refresh
<1>2. CacheOK(queries) /\ ReadsAreOf(queries, gen)
  <2>1. \A key \in QueryKey : OfItsKey(key, queries[key])
    BY StartedIsOfItsKey DEF Core, CacheOK
  <2>2. ReadsAreOf(queries, gen)
    BY DEF Core, ReadsAreOf
  <2> QED
    BY <2>1, <2>2 DEF CacheOK
<1>3. \A key \in QueryKey :
        \/ queries[key] = t.queries[key]
        \/ queries[key] # None /\ queries[key].fetch = Asking
  <2>1. ASSUME NEW key \in keys PROVE queries[key] # None /\ queries[key].fetch = Asking
    <3> DEFINE q == [t.queries[key] EXCEPT !.fetch = Asking]
    <3>1. IsQuery(q) /\ q.fetch = Asking
      BY DEF Core, CacheOK, OfItsKey, IsQuery
    <3>2. queries[key] = q
      OBVIOUS
    <3> HIDE DEF q, queries
    <3> QED
      BY <3>1, <3>2, RecordIsNotNone DEF IsQuery
  <2> QED
    BY <2>1
<1>4. \A key \in running : /\ key \in QueryKey /\ queries[key].fetch = Asking
  BY DEF Core, CacheOK, OfItsKey, IsQuery
<1>5. seen \subseteq running
  OBVIOUS
<1>6. Asking.snap = None
  BY DEF Asking
<1> HIDE DEF keys, running, queries, seen
<1>7. /\ IsTab(asked) /\ asked.queries = queries /\ asked.live = t.live /\ asked.shown = t.shown
      /\ asked.waiters = t.waiters /\ asked.editor = t.editor
  BY DEF Core, IsTab, TabField
<1> HIDE DEF asked
<1>8. Core(asked)
  BY <1>2, <1>7 DEF Core
<1>9. ChecksOK(asked, s)
  <2>1. ASSUME NEW w \in t.waiters, w.current PROVE OnWire(queries, w)
    BY <1>3, <1>6, <2>1, AskingIsNotNone DEF ChecksOK, WaitersOK, AskedBy, OnWire
  <2> QED
    BY <1>7, <2>1 DEF ChecksOK, WaitersOK, AskedBy, EditorOK
<1>10. ChecksReady(asked, s, running, "cancelled", None)
  BY <1>4, <1>6, <1>7, <1>9, ReadyChecks
<1>11. /\ ChecksOK(resumed, s) /\ Core(resumed)
       /\ t.editor # None => resumed.editor # None /\ resumed.editor.attempt = t.editor.attempt
  BY <1>4, <1>7, <1>8, <1>10, HeardChecks, HeardKeeps DEF Core
<1>12. \A key \in running : resumed.queries[key].fetch.snap = None
  <2>1. ASSUME NEW key \in running PROVE resumed.queries[key].fetch.snap = None
    <3>1. resumed.queries[key] = queries[key] \/ resumed.queries[key] = Started(queries[key])
      BY <1>4, <1>7, <1>8, HeardEffect
    <3>2. queries[key] = None => Started(queries[key]).fetch = Asking
      BY StartedIsAsked
    <3>3. queries[key].fetch # None
      BY <1>4, AskingIsNotNone
    <3>4. queries[key] # None => IsQuery(queries[key])
      BY <1>2, <1>4 DEF CacheOK, OfItsKey
    <3>5. queries[key] # None => Started(queries[key]) = queries[key]
      BY <3>3, <3>4, StartedIsAsked
    <3> QED
      BY <1>4, <1>6, <3>1, <3>2, <3>5
  <2> QED
    BY <2>1
<1> HIDE DEF resumed
<1>13. LET u == Heard(resumed, seen, "cancelled", None) IN
       /\ ChecksOK(u, s)
       /\ resumed.editor # None => u.editor # None /\ u.editor.attempt = resumed.editor.attempt
  <2>1. ChecksReady(resumed, s, seen, "cancelled", None)
    BY <1>5, <1>11, <1>12, ReadyChecks
  <2> QED
    BY <1>4, <1>5, <1>11, <2>1, HeardChecks DEF Core
<1> QED
  BY <1>1, <1>11, <1>13

CheckInv ==
    /\ RemovalInv /\ ChecksOK(tab, server)
    /\ tab.editor # None => Drawn(tab, tab.editing)

CheckKept ==
    /\ ChecksOK(tab', server')
    /\ tab'.editor # None => Drawn(tab', tab'.editing)

LEMMA ChecksBecome ==
  ASSUME NoneIsNoRecord, NEW t, IsTab(t), ChecksOK(t, server), Becomes(t), server' = server
  PROVE  CheckKept
BY RenderedChecks DEF Becomes, CheckKept

\* Steps that neither read nor touch the editor.
Still(t, u) == IsTab(u) /\ Same(t, u, Checking)

LEMMA StillBecomes ==
  ASSUME NoneIsNoRecord, ChecksOK(tab, server), NEW t, Still(tab, t), Becomes(t), server' = server
  PROVE  CheckKept
BY SameChecks, ChecksBecome DEF Still

StillPress ==
    \/ TurnPage \/ SubmitCreate \/ SubmitInvalidDraft \/ CloseEditor \/ CancelRemoval
    \/ Remove \/ Verify \/ SessionChanges \/ \E id \in Wallet : OpenEditor(id) \/ OpenRemoval(id)

LEMMA StillPressChecks ==
  ASSUME NoneIsNoRecord, CheckInv, StillPress
  PROVE  CheckKept
<1>1. IsTab(tab) /\ ChecksOK(tab, server)
  BY DEF CheckInv, RemovalInv, Apart, Core
<1>2. server' = server
  BY DEF StillPress, Press, TurnPage, SubmitCreate, SubmitInvalidDraft, CloseEditor, CancelRemoval,
         Remove, Verify, SessionChanges, OpenEditor, OpenRemoval
<1>3. PICK u : Still(tab, u) /\ Becomes(u)
  <2>1. CASE TurnPage
    <3>1. PICK page : Becomes([tab EXCEPT !.shown.page = page])
      BY <2>1 DEF TurnPage
    <3>2. Still(tab, [tab EXCEPT !.shown.page = page])
      BY <1>1 DEF IsTab, TabField, Still, Same, Checking
    <3> QED
      BY <3>1, <3>2
  <2>2. CASE SubmitCreate
    <3>1. PICK form, req : Becomes([tab EXCEPT !.form = form, !.formReq = req])
      BY <2>2 DEF SubmitCreate
    <3>2. Still(tab, [tab EXCEPT !.form = form, !.formReq = req])
      BY <1>1 DEF IsTab, TabField, Still, Same, Checking
    <3> QED
      BY <3>1, <3>2
  <2>3. CASE SubmitInvalidDraft
    <3>1. PICK form : Becomes([tab EXCEPT !.form = form])
      BY <2>3 DEF SubmitInvalidDraft
    <3>2. Still(tab, [tab EXCEPT !.form = form])
      BY <1>1 DEF IsTab, TabField, Still, Same, Checking
    <3> QED
      BY <3>1, <3>2
  <2>4. CASE CloseEditor
    <3>1. Becomes([tab EXCEPT !.editing = 0])
      BY <2>4 DEF CloseEditor
    <3>2. Still(tab, [tab EXCEPT !.editing = 0])
      BY <1>1 DEF IsTab, TabField, Still, Same, Checking
    <3> QED
      BY <3>1, <3>2
  <2>5. CASE CancelRemoval
    <3>1. Becomes([tab EXCEPT !.removing = 0, !.pending = FALSE])
      BY <2>5 DEF CancelRemoval
    <3>2. Still(tab, [tab EXCEPT !.removing = 0, !.pending = FALSE])
      BY <1>1 DEF IsTab, TabField, Still, Same, Checking
    <3> QED
      BY <3>1, <3>2
  <2>6. CASE Remove
    <3>1. PICK req, panel : Becomes([tab EXCEPT !.rowReq = req, !.pending = TRUE, !.panel = panel])
      BY <2>6 DEF Remove
    <3>2. Still(tab, [tab EXCEPT !.rowReq = req, !.pending = TRUE, !.panel = panel])
      BY <1>1 DEF IsTab, TabField, Still, Same, Checking
    <3> QED
      BY <3>1, <3>2
  <2>7. CASE Verify
    <3>1. PICK req, check : Becomes([tab EXCEPT !.rowReq = req, !.panel.check = check])
      BY <2>7 DEF Verify
    <3>2. Still(tab, [tab EXCEPT !.rowReq = req, !.panel.check = check])
      BY <1>1 DEF IsTab, TabField, Still, Same, Checking
    <3> QED
      BY <3>1, <3>2
  <2>8. CASE SessionChanges
    <3>1. PICK gen : Becomes([tab EXCEPT !.shown.gen = gen])
      BY <2>8 DEF SessionChanges
    <3>2. Still(tab, [tab EXCEPT !.shown.gen = gen])
      BY <1>1 DEF IsTab, TabField, Still, Same, Checking
    <3> QED
      BY <3>1, <3>2
  <2>9. CASE \E id \in Wallet : OpenEditor(id) \/ OpenRemoval(id)
    <3>1. PICK id \in Wallet : OpenEditor(id) \/ OpenRemoval(id)
      BY <2>9
    <3>2. \/ Becomes([tab EXCEPT !.editing = id, !.notice = ""])
          \/ Becomes([tab EXCEPT !.removing = id, !.notice = ""])
      BY <3>1 DEF OpenEditor, OpenRemoval
    <3>3. /\ Still(tab, [tab EXCEPT !.editing = id, !.notice = ""])
          /\ Still(tab, [tab EXCEPT !.removing = id, !.notice = ""])
      BY <1>1 DEF IsTab, TabField, Still, Same, Checking
    <3> QED
      BY <3>2, <3>3
  <2> QED
    BY <2>1, <2>2, <2>3, <2>4, <2>5, <2>6, <2>7, <2>8, <2>9 DEF StillPress
<1> QED
  BY <1>1, <1>2, <1>3, StillBecomes

\* A submission, or a draft the editor refuses, retires the checks of the one before.
LEMMA SubmitChecks ==
  ASSUME NoneIsNoRecord, CheckInv, SubmitLabel \/ SubmitInvalidLabel
  PROVE  CheckKept
<1>1. IsTab(tab) /\ ChecksOK(tab, server)
  BY DEF CheckInv, RemovalInv, Apart, Core
<1> DEFINE unheard == Unheard(tab.waiters)
<1>2. PICK req, editor :
        /\ IsEditor(editor) /\ editor.read = "idle"
        /\ Becomes([tab EXCEPT !.rowReq = req, !.waiters = unheard, !.editor = editor])
  <2>1. ASSUME NEW status, NEW attempt
        PROVE  LET editor == [NewEditor EXCEPT !.status = status, !.attempt = attempt]
               IN  IsEditor(editor) /\ editor.read = "idle"
    BY DEF NewEditor, IsEditor
  <2>2. CASE SubmitLabel
    <3>1. PICK req, status, attempt :
            Becomes([tab EXCEPT !.rowReq = req, !.waiters = unheard,
                                !.editor = [NewEditor EXCEPT !.status = status, !.attempt = attempt]])
      BY <2>2, Zenon DEF SubmitLabel
    <3> QED
      BY <2>1, <3>1
  <2>3. CASE SubmitInvalidLabel
    <3> DEFINE editor == [NewEditor EXCEPT !.attempt = tab.editor.attempt]
    <3>1. Becomes([tab EXCEPT !.waiters = unheard, !.editor = editor])
      BY <2>3 DEF SubmitInvalidLabel
    <3>2. IsEditor(editor) /\ editor.read = "idle"
      BY DEF NewEditor, IsEditor
    <3> HIDE DEF editor, unheard
    <3>3. [tab EXCEPT !.waiters = unheard, !.editor = editor]
            = [tab EXCEPT !.rowReq = tab.rowReq, !.waiters = unheard, !.editor = editor]
      BY <1>1 DEF IsTab, TabField
    <3>4. Becomes([tab EXCEPT !.rowReq = tab.rowReq, !.waiters = unheard, !.editor = editor])
      BY <3>1, <3>3
    <3> QED
      BY <3>2, <3>4
  <2> QED
    BY <2>2, <2>3
<1> DEFINE t == [tab EXCEPT !.rowReq = req, !.waiters = unheard, !.editor = editor]
<1>3. Becomes(t) /\ server' = server
  BY <1>2 DEF SubmitLabel, SubmitInvalidLabel, Press
<1>4. \A w \in unheard : IsWaiter(w) /\ ~w.current
  BY <1>1, UnheardWaiters DEF ChecksOK, WaitersOK
<1> HIDE DEF unheard
<1>5. IsTab(t) /\ t.editor = editor /\ t.waiters = unheard
  BY <1>1 DEF IsTab, TabField
<1> HIDE DEF t
<1>6. ChecksOK(t, server)
  BY <1>2, <1>4, <1>5 DEF ChecksOK, WaitersOK, EditorOK
<1> QED
  BY <1>3, <1>5, <1>6, ChecksBecome

LEMMA CheckListChecks ==
  ASSUME NoneIsNoRecord, CheckInv, NEW overtaken, CheckList(overtaken)
  PROVE  CheckKept
<1>1. Core(tab) /\ ChecksOK(tab, server)
  BY DEF CheckInv, RemovalInv, Apart
<1>2. tab.shown = tab.live /\ server' = server /\ Becomes(Refresh(tab, tab.shown.gen, overtaken))
  BY DEF CheckList, Press
<1>3. ChecksOK(Refresh(tab, tab.shown.gen, overtaken), server)
  BY <1>1, <1>2, RefreshChecks
<1>4. IsTab(Refresh(tab, tab.shown.gen, overtaken))
  BY <1>1, RefreshIsCalm DEF Calm, Core
<1> QED
  BY <1>2, <1>3, <1>4, ChecksBecome

LEMMA CreateAnsweredChecks ==
  ASSUME NoneIsNoRecord, CheckInv, NEW answer, NEW overtaken, CreateAnswered(answer, overtaken)
  PROVE  CheckKept
<1>1. Core(tab) /\ ChecksOK(tab, server)
  BY DEF CheckInv, RemovalInv, Apart
<1>2. PICK form :
        LET settled == [tab EXCEPT !.formReq = None, !.form = form] IN
        \/ Becomes(HandleSaved(settled, tab.formReq.gen, overtaken))
        \/ Becomes(settled)
  BY DEF CreateAnswered
<1> DEFINE settled == [tab EXCEPT !.formReq = None, !.form = form]
           gen == tab.formReq.gen
           asked == Refresh(settled, gen, overtaken)
           saved == [asked EXCEPT !.shown.page = 1]
<1>3. (Becomes(saved) \/ Becomes(settled)) /\ server' = server
  BY <1>2 DEF HandleSaved, CreateAnswered
<1>4. Still(tab, settled) /\ Core(settled) /\ settled.live = tab.live
  BY <1>1 DEF Core, IsTab, TabField, Still, Same, Checking
<1>5. gen = tab.live.gen
  BY DEF CreateAnswered, CheckInv, RemovalInv, Apart, FormOf
<1> HIDE DEF settled, gen
<1>6. ChecksOK(settled, server)
  BY <1>1, <1>4, SameChecks DEF Still
<1>7. ChecksOK(asked, server) /\ IsTab(asked)
  BY <1>4, <1>5, <1>6, RefreshChecks, RefreshKeeps DEF Core
<1> HIDE DEF asked
<1>8. Still(asked, saved)
  BY <1>7 DEF IsTab, TabField, Still, Same, Checking
<1> HIDE DEF saved
<1> QED
  BY <1>3, <1>4, <1>6, <1>7, <1>8, SameChecks, ChecksBecome DEF Still

LEMMA LabelAnsweredChecks ==
  ASSUME NoneIsNoRecord, CheckInv, NEW answer, NEW overtaken, LabelAnswered(answer, overtaken)
  PROVE  CheckKept
<1> DEFINE free == [tab EXCEPT !.rowReq = None]
           gen == tab.rowReq.gen
           asked == Refresh(free, gen, overtaken)
           updated == [asked EXCEPT !.editing = 0, !.notice = "updated"]
<1>1. Core(tab) /\ ChecksOK(tab, server)
  BY DEF CheckInv, RemovalInv, Apart
<1>2. Core(free) /\ Still(tab, free) /\ free.live = tab.live
  BY <1>1 DEF Core, IsTab, TabField, Still, Same, Checking
<1>3. gen = tab.live.gen /\ server' = server
  BY DEF LabelAnswered, CheckInv, RemovalInv, Apart, RenameOf
<1>4. free.editor = tab.editor
  BY <1>1 DEF Core, IsTab, TabField
<1>5. PICK status :
        \/ Becomes(updated)
        \/ Becomes([free EXCEPT !.editor = IF free.editor = None THEN None
                                           ELSE [free.editor EXCEPT !.status = status]])
  BY <1>4, Zenon DEF LabelAnswered, HandleUpdated
<1> DEFINE editor == IF free.editor = None THEN None ELSE [free.editor EXCEPT !.status = status]
           failed == [free EXCEPT !.editor = editor]
<1>6. Becomes(updated) \/ Becomes(failed)
  BY <1>5
<1> HIDE DEF free, gen
<1>7. ChecksOK(free, server)
  BY <1>1, <1>2, SameChecks DEF Still
<1>8. /\ free.editor = None => editor = None
      /\ free.editor # None => /\ IsEditor(editor) /\ editor # None
                               /\ editor.read = free.editor.read
                               /\ editor.found = free.editor.found
                               /\ editor.attempt = free.editor.attempt
  <2>1. CASE free.editor # None
    <3> DEFINE e == [free.editor EXCEPT !.status = status]
    <3>1. /\ IsEditor(e) /\ e.read = free.editor.read /\ e.found = free.editor.found
          /\ e.attempt = free.editor.attempt
      BY <1>7, <2>1 DEF ChecksOK, EditorOK, IsEditor
    <3>2. editor = e
      BY <2>1
    <3> HIDE DEF e, editor
    <3> QED
      BY <2>1, <3>1, <3>2, RecordIsNotNone DEF IsEditor
  <2> QED
    BY <2>1
<1> HIDE DEF editor
<1>9. /\ IsTab(failed) /\ failed.editor = editor /\ failed.waiters = free.waiters
      /\ failed.queries = free.queries
  BY <1>2 DEF Core, IsTab, TabField
<1> HIDE DEF failed
<1>10. ChecksOK(failed, server)
  BY <1>7, <1>8, <1>9 DEF ChecksOK, WaitersOK, AskedBy, EditorOK
<1>11. ChecksOK(asked, server) /\ IsTab(asked)
  BY <1>2, <1>3, <1>7, RefreshChecks, RefreshKeeps DEF Core
<1> HIDE DEF asked
<1>12. Still(asked, updated)
  BY <1>11 DEF IsTab, TabField, Still, Same, Checking
<1> HIDE DEF updated
<1> QED
  BY <1>3, <1>6, <1>9, <1>10, <1>11, <1>12, SameChecks, ChecksBecome DEF Still

LEMMA ReadBackChecks ==
  ASSUME NoneIsNoRecord, CheckInv, NEW overtaken, ReadBack(overtaken)
  PROVE  CheckKept
<1> DEFINE unheard == Unheard(tab.waiters)
           quiet == [tab EXCEPT !.waiters = unheard]
           gen == tab.shown.gen
           key == Key(tab.shown)
           told == Refresh(quiet, gen, overtaken)
           check == [kind |-> "check", view |-> tab.shown, id |-> tab.editing, stage |-> "refreshing",
                     current |-> TRUE, asked |-> server.version, attempt |-> tab.editor.attempt]
           editor == [told.editor EXCEPT !.read = "reading", !.found = None]
           waiters == told.waiters \union {check}
           after == [told EXCEPT !.waiters = waiters, !.editor = editor]
<1>1. Core(tab) /\ ChecksOK(tab, server) /\ server.version \in Nat
  BY DEF CheckInv, RemovalInv, Apart, ServerOK
<1>2. tab.editor # None /\ tab.editor.read # "reading"
  BY DEF ReadBack
<1>3. gen = tab.live.gen /\ server' = server
  BY DEF ReadBack, Press
<1>4. Becomes(after)
  BY Zenon DEF ReadBack
<1>5. key \in QueryKey /\ key[1] = gen /\ tab.queries[key] # None
  BY <1>1, <1>2, KeyIsAKey DEF CheckInv, Drawn, Data, Core
<1>6. /\ IsWaiter(check) /\ check.current /\ check.kind = "check" /\ check.stage = "refreshing"
      /\ Key(check.view) = key /\ check.asked = server.version
      /\ check.attempt = tab.editor.attempt
  BY DEF IsWaiter
<1> HIDE DEF key, check, gen
<1>7. \A w \in unheard : IsWaiter(w) /\ ~w.current
  BY <1>1, UnheardWaiters DEF ChecksOK, WaitersOK
<1> HIDE DEF unheard
<1>8. /\ Core(quiet) /\ quiet.live = tab.live /\ quiet.queries = tab.queries
      /\ quiet.editor = tab.editor /\ quiet.waiters = unheard
  BY <1>1 DEF Core, IsTab, TabField
<1> HIDE DEF quiet
<1>9. ChecksOK(quiet, server)
  BY <1>1, <1>2, <1>7, <1>8 DEF ChecksOK, WaitersOK, EditorOK
<1>10. /\ ChecksOK(told, server)
       /\ told.editor # None /\ told.editor.attempt = tab.editor.attempt
  BY <1>2, <1>3, <1>8, <1>9, RefreshChecks
<1>11. IsTab(told)
  BY <1>3, <1>8, RefreshKeeps DEF Core
<1>12. told.queries[key] # None /\ told.queries[key].fetch = Asking
  <2>1. told.queries[key] = Renewed(tab.queries[key])
    <3>1. gen = quiet.live.gen
      BY <1>3, <1>8
    <3>2. Refreshed(quiet, told, gen)
      BY <1>8, <3>1, RefreshEffect
    <3> HIDE DEF told
    <3> QED
      BY <3>2, <1>5, <1>8 DEF Refreshed
  <2>2. IsQuery(tab.queries[key])
    BY <1>1, <1>5 DEF Core, CacheOK, OfItsKey
  <2> HIDE DEF told
  <2>3. IsQuery(told.queries[key]) /\ told.queries[key].fetch = Asking
    BY <2>1, <2>2 DEF IsQuery, Renewed
  <2> QED
    BY <2>3, RecordIsNotNone DEF IsQuery
<1> HIDE DEF told
<1>13. /\ IsEditor(editor) /\ editor.read = "reading" /\ editor.attempt = told.editor.attempt
  BY <1>10 DEF ChecksOK, EditorOK, IsEditor
<1> HIDE DEF editor
<1>14. editor # None
  BY <1>13, RecordIsNotNone DEF IsEditor
<1>15. \A w \in waiters : w \in told.waiters \/ w = check
  OBVIOUS
<1>16. check \in waiters
  OBVIOUS
<1> HIDE DEF waiters
<1>17. /\ IsTab(after) /\ after.waiters = waiters /\ after.editor = editor
       /\ after.queries = told.queries
  BY <1>11 DEF IsTab, TabField
<1> HIDE DEF after
<1>18. ASSUME NEW w \in waiters, w.current
       PROVE  AskedBy(after, server, w) /\ OnWire(after.queries, w)
  <2>1. CASE w \in told.waiters
    <3>1. AskedBy(told, server, w) /\ OnWire(told.queries, w)
      BY <1>10, <1>18, <2>1 DEF ChecksOK, WaitersOK
    <3> QED
      BY <1>13, <1>14, <1>17, <3>1 DEF AskedBy
  <2>2. CASE w = check
    <3>1. AskedBy(after, server, w)
      BY <1>1, <1>5, <1>6, <1>10, <1>13, <1>14, <1>17, <2>2 DEF AskedBy
    <3>2. OnWire(after.queries, w)
      BY <1>6, <1>12, <1>17, <2>2, AskingIsNotNone DEF OnWire
    <3> QED
      BY <3>1, <3>2
  <2> QED
    BY <1>15, <2>1, <2>2
<1>19. \A w \in waiters : IsWaiter(w)
  BY <1>6, <1>10, <1>15 DEF ChecksOK, WaitersOK
<1>20. EditorOK(after)
  BY <1>6, <1>13, <1>16, <1>17 DEF EditorOK
<1>21. ChecksOK(after, server)
  BY <1>17, <1>18, <1>19, <1>20 DEF ChecksOK, WaitersOK
<1> QED
  BY <1>3, <1>4, <1>17, <1>21, ChecksBecome

LEMMA GoneChecks ==
  ASSUME NoneIsNoRecord, CheckInv, NEW how, NEW overtaken, Becomes(Gone(tab, how, overtaken)),
         server' = server
  PROVE  CheckKept
<1> DEFINE settled == tab.settled \union {[id |-> tab.removing, page |-> tab.shown.page]}
           gone == tab.gone \union {tab.removing}
           closed == [tab EXCEPT !.removing = 0, !.pending = FALSE, !.rowReq = None,
                                 !.settled = settled, !.gone = gone]
           noticed == [closed EXCEPT !.notice = how]
           gen == tab.shown.gen
           told == Refresh(noticed, gen, overtaken)
           settle == SettleOf(tab.shown)
           waiters == told.waiters \union {settle}
           waits == [told EXCEPT !.waiters = waiters]
<1>1. Core(tab) /\ ChecksOK(tab, server)
  BY DEF CheckInv, RemovalInv, Apart
<1>2. Becomes(IF tab.shown # tab.live THEN closed ELSE waits)
  BY DEF Gone
<1> HIDE DEF settled, gone, gen
<1>3. Core(closed) /\ Still(tab, closed) /\ closed.live = tab.live
  BY <1>1 DEF Core, IsTab, TabField, Still, Same, Checking
<1> HIDE DEF closed
<1>4. Core(noticed) /\ Still(closed, noticed) /\ noticed.live = tab.live
  BY <1>3 DEF Core, IsTab, TabField, Still, Same, Checking
<1> HIDE DEF noticed
<1>5. ChecksOK(closed, server) /\ ChecksOK(noticed, server)
  BY <1>1, <1>3, <1>4, SameChecks DEF Still
<1>6. CASE tab.shown # tab.live
  BY <1>2, <1>3, <1>5, <1>6, ChecksBecome DEF Still
<1>7. CASE tab.shown = tab.live
  <2>1. gen = noticed.live.gen
    BY <1>4, <1>7 DEF gen
  <2>2. ChecksOK(told, server) /\ IsTab(told)
    BY <1>4, <1>5, <2>1, RefreshChecks, RefreshKeeps DEF Core
  <2> HIDE DEF told
  <2>3. IsWaiter(settle) /\ ~settle.current
    BY DEF SettleOf, IsWaiter
  <2> HIDE DEF settle
  <2>4. \A w \in waiters : IsWaiter(w) /\ (w.current => w \in told.waiters)
    BY <2>2, <2>3 DEF ChecksOK, WaitersOK
  <2>5. told.waiters \subseteq waiters
    OBVIOUS
  <2> HIDE DEF waiters
  <2>6. /\ IsTab(waits) /\ waits.waiters = waiters /\ waits.editor = told.editor
        /\ waits.queries = told.queries
    BY <2>2 DEF IsTab, TabField
  <2> HIDE DEF waits
  <2>7. ChecksOK(waits, server)
    BY <2>2, <2>4, <2>5, <2>6 DEF ChecksOK, WaitersOK, AskedBy, EditorOK
  <2> QED
    BY <1>2, <1>7, <2>6, <2>7, ChecksBecome
<1> QED
  BY <1>6, <1>7

LEMMA RowAnswersChecks ==
  ASSUME NoneIsNoRecord, CheckInv, NEW answer, NEW overtaken,
         RemovalAnswered(answer, overtaken) \/ CheckAnswered(answer, overtaken)
  PROVE  CheckKept
<1>1. IsTab(tab) /\ ChecksOK(tab, server) /\ server' = server
  BY DEF CheckInv, RemovalInv, Apart, Core, RemovalAnswered, CheckAnswered
<1>2. PICK state, check :
        \/ \E how : Becomes(Gone(tab, how, overtaken))
        \/ Becomes([tab EXCEPT !.rowReq = None, !.pending = FALSE, !.panel.state = state])
        \/ Becomes([tab EXCEPT !.rowReq = None, !.panel.check = check])
  <2>1. CASE RemovalAnswered(answer, overtaken)
    <3>1. PICK state :
            \/ Becomes(Gone(tab, "removed", overtaken))
            \/ Becomes(Gone(tab, "unavailable", overtaken))
            \/ Becomes([tab EXCEPT !.rowReq = None, !.pending = FALSE, !.panel.state = state])
      BY <2>1 DEF RemovalAnswered
    <3> QED
      BY <3>1
  <2>2. CASE CheckAnswered(answer, overtaken)
    BY <2>2 DEF CheckAnswered
  <2> QED
    BY <2>1, <2>2
<1>3. /\ Still(tab, [tab EXCEPT !.rowReq = None, !.pending = FALSE, !.panel.state = state])
      /\ Still(tab, [tab EXCEPT !.rowReq = None, !.panel.check = check])
  BY <1>1 DEF IsTab, TabField, Still, Same, Checking
<1> QED
  BY <1>1, <1>2, <1>3, GoneChecks, StillBecomes

-----------------------------------------------------------------------------
(* The reads a check waits for. *)

LEMMA NotAnswered ==
  ASSUME NEW answer, NEW guard, answer.status = 0
  PROVE  AttemptOnce(answer, guard).code = answer.body
<1>1. AttemptOnce(answer, guard) = Failed(answer.body, 0)
  BY AttemptByStatus
<1> QED
  BY <1>1 DEF Failed

\* A page is read from nothing but an answer with status 200.
LEMMA PagesAreAnswered ==
  ASSUME NEW answer \in ListAnswer, ListWallets(answer).code = ""
  PROVE  answer.status = 200
<1> DEFINE blank == ""
<1>1. CASE answer = Answer(0, "TIMEOUT")
  <2> DEFINE guard == {"page", "other page"}
             once == AttemptOnce(answer, guard)
  <2>1. answer.status = 0 /\ answer.body = "TIMEOUT"
    BY <1>1 DEF Answer
  <2>2. once.code = answer.body
    BY Zenon, <2>1, NotAnswered
  <2>3. once.code # blank
    <3>1. "TIMEOUT" # blank
      BY Zenon
    <3> HIDE DEF once, blank
    <3> QED
      BY <2>1, <2>2, <3>1
  <2>4. ListWallets(answer) = RequirePagination(RequireData(once))
    BY Zenon DEF ListWallets
  <2> HIDE DEF once
  <2>5. RequireData(once) = once
    BY <2>3, Zenon DEF RequireData
  <2>6. RequirePagination(once) = once
    BY <2>3, Zenon DEF RequirePagination
  <2> QED
    BY <2>3, <2>4, <2>5, <2>6, Zenon
<1>2. CASE answer # Answer(0, "TIMEOUT")
  <2>1. \E body : answer = Answer(200, body)
    BY <1>2, Zenon DEF ListAnswer
  <2>2. PICK body : answer = Answer(200, body)
    BY <2>1
  <2>3. Answer(200, body).status = 200
    BY DEF Answer
  <2> QED
    BY <2>2, <2>3, Zenon
<1> QED
  BY <1>1, <1>2

\* The entries that are dropped, and those that are asked for again, are not those of a check.
LEMMA CollectedChecks ==
  ASSUME NEW t, Core(t), NEW s, ChecksOK(t, s)
  PROVE  ChecksOK(Collected(t), s)
<1> DEFINE queries == [key \in QueryKey |->
                         IF t.queries[key] # None /\ t.queries[key].fetch = None
                            /\ key # Key(t.live) THEN None ELSE t.queries[key]]
           u == [t EXCEPT !.queries = queries]
<1>1. Collected(t) = u
  BY DEF Collected
<1>2. \A key \in QueryKey : t.queries[key] # None /\ t.queries[key].fetch # None
                              => queries[key] = t.queries[key]
  OBVIOUS
<1> HIDE DEF queries
<1>3. u.queries = queries /\ u.waiters = t.waiters /\ u.editor = t.editor
  BY DEF Core, IsTab, TabField
<1> HIDE DEF u
<1>4. \A w \in t.waiters : w.current => OnWire(queries, w)
  BY <1>2 DEF ChecksOK, WaitersOK, AskedBy, OnWire
<1> QED
  BY <1>1, <1>3, <1>4 DEF ChecksOK, WaitersOK, AskedBy, EditorOK

LEMMA ListAnswersChecks ==
  ASSUME NoneIsNoRecord, CheckInv, NEW key \in QueryKey, NEW answer \in ListAnswer,
         ListAnswers(key, answer)
  PROVE  CheckKept
<1> DEFINE query == tab.queries[key]
           ok == ListWallets(answer).code = ""
           snap == IF ok THEN query.fetch.snap ELSE None
           now == [query EXCEPT !.fetch = None, !.failed = ~ok, !.data = IF ok THEN snap ELSE @,
                                !.after = IF ok THEN {entry.id : entry \in tab.settled} ELSE @]
           arrived == [tab EXCEPT !.queries[key] = now]
           outcome == IF ok THEN "ok" ELSE "failed"
           heard == Heard(arrived, {key}, outcome, snap)
           collected == Collected(heard)
<1>1. /\ query # None /\ query.fetch # None /\ Becomes(collected)
      /\ answer.status = 200 => query.fetch.snap # None
      /\ server' = server
  BY DEF ListAnswers
<1>2. Core(tab) /\ ChecksOK(tab, server)
  BY DEF CheckInv, RemovalInv, Apart
<1>3. /\ OfItsKey(key, now) /\ now.fetch = None
  <2>1. PICK failed, after :
          now = [query EXCEPT !.fetch = None, !.failed = failed,
                              !.data = IF ok THEN snap ELSE @, !.after = after]
    BY Zenon
  <2>2. ok /\ snap # None => snap.by = key[1]
    BY <1>1, <1>2 DEF Core, CacheOK, OfItsKey
  <2>3. /\ IsQuery(query) /\ query.data # None => query.data.by = key[1]
    BY <1>1, <1>2 DEF Core, CacheOK, OfItsKey
  <2>4. IsQuery(query)
    BY <1>1, <1>2 DEF Core, CacheOK, OfItsKey
  <2> HIDE DEF ok, snap, now, query
  <2>6. now = [data |-> IF ok THEN snap ELSE query.data, failed |-> failed, after |-> after,
               fetch |-> None]
    BY <2>1, <2>4 DEF IsQuery
  <2> QED
    BY <2>2, <2>3, <2>4, <2>6 DEF OfItsKey, IsQuery
<1>4. ok => query.fetch.snap # None
  BY <1>1, PagesAreAnswered, Zenon
<1>5. ok => snap = query.fetch.snap
  OBVIOUS
<1>6. outcome = "ok" => ok
  OBVIOUS
<1> HIDE DEF now, ok, snap, outcome
<1> DEFINE queries == [tab.queries EXCEPT ![key] = now]
<1>7. /\ Core(arrived) /\ arrived.queries = queries
      /\ arrived.waiters = tab.waiters /\ arrived.editor = tab.editor
  <2>1. Core(arrived)
    BY <1>2, <1>3, WrittenKeeps
  <2>2. arrived = [tab EXCEPT !.queries = queries]
    OBVIOUS
  <2> HIDE DEF arrived, queries
  <2> QED
    BY <1>2, <2>1, <2>2 DEF Core, IsTab, TabField
<1>8. queries[key] = now /\ \A other \in QueryKey : other # key => queries[other] = tab.queries[other]
  BY <1>2 DEF Core, CacheOK
<1> HIDE DEF arrived, queries
<1>9. \A w \in tab.waiters : w.current => AskedBy(tab, server, w) /\ OnWire(tab.queries, w)
  BY <1>2 DEF ChecksOK, WaitersOK
<1>10. ASSUME NEW w \in tab.waiters, w.current, Key(w.view) = key, ok, w.stage = "fetching"
       PROVE  snap.version >= w.asked
  BY <1>4, <1>5, <1>9, <1>10 DEF OnWire
<1>11. ASSUME NEW w \in tab.waiters, w.current, Key(w.view) # key
       PROVE  OnWire(queries, w)
  BY <1>8, <1>9, <1>11 DEF OnWire, AskedBy
<1>12. ChecksReady(arrived, server, {key}, outcome, snap)
  <2>1. WaitersOK(arrived, server) /\ EditorOK(arrived)
    BY <1>2, <1>7 DEF ChecksOK, WaitersOK, AskedBy, EditorOK
  <2> QED
    BY <1>3, <1>6, <1>7, <1>8, <1>10, <1>11, <2>1 DEF ChecksReady
<1>13. ChecksOK(heard, server) /\ Core(heard)
  BY <1>7, <1>12, HeardChecks, HeardKeeps DEF Core
<1> HIDE DEF heard
<1>14. ChecksOK(collected, server) /\ Core(collected)
  BY <1>13, CollectedChecks, CollectedKeeps
<1> HIDE DEF collected
<1> QED
  BY <1>1, <1>14, ChecksBecome DEF Core

LEMMA RetryListChecks ==
  ASSUME NoneIsNoRecord, CheckInv, RetryList
  PROVE  CheckKept
<1> DEFINE key == Key(tab.shown)
           q == Started(tab.queries[key])
           queries == [tab.queries EXCEPT ![key] = q]
           t == [tab EXCEPT !.queries = queries]
<1>1. tab.queries[key].fetch = None /\ Becomes(t) /\ server' = server
  BY DEF RetryList, Press
<1>2. Core(tab) /\ ChecksOK(tab, server)
  BY DEF CheckInv, RemovalInv, Apart
<1> HIDE DEF key, q
<1>3. \A other \in QueryKey : other # key => queries[other] = tab.queries[other]
  BY <1>2 DEF Core, CacheOK
<1>4. \A w \in tab.waiters : w.current => OnWire(queries, w)
  BY <1>1, <1>2, <1>3 DEF ChecksOK, WaitersOK, AskedBy, OnWire
<1> HIDE DEF queries
<1>5. IsTab(t) /\ t.queries = queries /\ t.waiters = tab.waiters /\ t.editor = tab.editor
  BY <1>2 DEF Core, IsTab, TabField
<1> HIDE DEF t
<1>6. ChecksOK(t, server)
  BY <1>2, <1>4, <1>5 DEF ChecksOK, WaitersOK, AskedBy, EditorOK
<1> QED
  BY <1>1, <1>5, <1>6, ChecksBecome

LEMMA RunEffectsChecks ==
  ASSUME NoneIsNoRecord, CheckInv, RunEffects
  PROVE  CheckKept
<1> DEFINE left == {key \in QueryKey : /\ tab.queries[key] # None /\ key # Key(tab.shown)
                                       /\ key = Key(tab.live) \/ tab.shown.gen # tab.live.gen}
           queries == [key \in QueryKey |->
                         IF key \in left THEN None
                         ELSE IF key = Key(tab.shown) THEN Started(tab.queries[key])
                         ELSE tab.queries[key]]
           moved == [tab EXCEPT !.live = tab.shown, !.queries = queries]
           u == CacheEffects(tab)
           formed == [u EXCEPT !.form = NewForm, !.formReq = None]
           new == [formed EXCEPT !.editing = 0, !.removing = 0, !.pending = FALSE,
                                 !.settled = {}, !.notice = "", !.gone = {}]
<1>1. Core(tab) /\ ChecksOK(tab, server)
  BY DEF CheckInv, RemovalInv, Apart
<1>2. u = Heard(moved, left, "cancelled", None)
  BY DEF CacheEffects
<1>3. (Becomes(u) \/ Becomes(new)) /\ server' = server
  BY DEF RunEffects, AfterEffects, PageForNewIdentity, FormForNewIdentity
<1>4. \A key \in QueryKey : /\ key \in left => queries[key] = None
                            /\ key \notin left =>
                                 queries[key] \in {tab.queries[key], Started(tab.queries[key])}
  OBVIOUS
<1>5. left \subseteq QueryKey
  OBVIOUS
<1>6. CacheOK(queries)
  <2>1. \A key \in QueryKey : OfItsKey(key, None)
    BY DEF OfItsKey
  <2>2. \A key \in QueryKey : OfItsKey(key, queries[key])
    BY <1>1, <2>1, StartedIsOfItsKey DEF Core, CacheOK
  <2> QED
    BY <2>2 DEF CacheOK
<1> HIDE DEF queries, left, u
<1>7. /\ IsTab(moved) /\ moved.queries = queries
      /\ moved.waiters = tab.waiters /\ moved.editor = tab.editor
  BY <1>1 DEF Core, IsTab, TabField
<1> HIDE DEF moved
<1>8. ASSUME NEW w \in tab.waiters, w.current, Key(w.view) \notin left
      PROVE  OnWire(queries, w)
  <2> DEFINE q == tab.queries[Key(w.view)]
  <2>1. Key(w.view) \in QueryKey /\ OnWire(tab.queries, w)
    BY <1>1, <1>8 DEF ChecksOK, WaitersOK, AskedBy
  <2>2. IsQuery(q) /\ q # None /\ q.fetch # None
    BY <1>1, <2>1 DEF Core, CacheOK, OfItsKey, OnWire
  <2>3. queries[Key(w.view)] \in {q, Started(q)}
    BY <1>4, <1>8, <2>1
  <2> HIDE DEF q
  <2>4. Started(q) = q
    BY <2>2, StartedIsAsked
  <2>5. queries[Key(w.view)] = tab.queries[Key(w.view)]
    BY <2>3, <2>4 DEF q
  <2> QED
    BY <2>1, <2>5 DEF OnWire
<1>9. WaitersOK(moved, server) /\ EditorOK(moved)
  BY <1>1, <1>7 DEF ChecksOK, WaitersOK, AskedBy, EditorOK
<1>10. ChecksReady(moved, server, left, "cancelled", None)
  BY <1>4, <1>5, <1>7, <1>8, <1>9 DEF ChecksReady
<1>11. ChecksOK(u, server)
  BY <1>2, <1>5, <1>6, <1>7, <1>10, HeardChecks
<1>12. IsTab(u)
  BY <1>1, CacheEffectsAreCalm DEF u, Calm, Core
<1>13. Still(u, formed)
  BY <1>12 DEF IsTab, TabField, Still, Same, Checking
<1> HIDE DEF formed
<1>14. Still(formed, new)
  BY <1>13 DEF IsTab, TabField, Still, Same, Checking
<1> HIDE DEF new
<1>15. ChecksOK(new, server) /\ IsTab(new)
  BY <1>11, <1>13, <1>14, SameChecks DEF Still
<1> QED
  BY <1>3, <1>11, <1>12, <1>15, ChecksBecome

\* Whatever is written meanwhile, what was asked for before it stays so.
LEMMA LaterChecks ==
  ASSUME NEW t, NEW s, NEW next, ChecksOK(t, s), ServerOK(s), ServerOK(next), Later(s, next)
  PROVE  ChecksOK(t, next)
<1>1. s.version \in Nat /\ next.version \in Nat /\ s.version <= next.version
  BY DEF ServerOK, Later
<1>2. \A w : AskedBy(t, s, w) => AskedBy(t, next, w)
  BY <1>1 DEF AskedBy
<1> QED
  BY <1>2 DEF ChecksOK, WaitersOK

\* The server answers a read: from its present rows, which a check asked for before.
LEMMA ReadsListChecks ==
  ASSUME NoneIsNoRecord, CheckInv, NEW key \in QueryKey, ReadsList(key)
  PROVE  CheckKept
<1>1. /\ Core(tab) /\ ChecksOK(tab, server) /\ server.version \in Nat
      /\ tab.editor # None => Drawn(tab, tab.editing)
  BY DEF CheckInv, RemovalInv, Apart, ServerOK
<1>2. /\ tab.queries[key] # None /\ tab.queries[key].fetch # None /\ server' = server
      /\ \E snap, total : Reads(key, snap, total)
  BY ReadsListEffect
<1> PICK snap, total : Reads(key, snap, total)
  BY <1>2
<1> DEFINE q == [tab.queries[key] EXCEPT !.fetch = [snap |-> snap, total |-> total]]
           queries == [tab.queries EXCEPT ![key] = q]
<1>3. tab' = [tab EXCEPT !.queries = queries]
  BY <1>1, <1>2 DEF Core, CacheOK, Reads
<1>4. snap # None => snap.version = server.version
  BY DEF Reads
<1>5. /\ q # None /\ q.data = tab.queries[key].data
      /\ q.fetch # None /\ q.fetch.snap = snap
  <2>1. /\ IsQuery(q) /\ q.data = tab.queries[key].data
        /\ q.fetch = [snap |-> snap, total |-> total] /\ q.fetch.snap = snap
    BY <1>1, <1>2 DEF Core, CacheOK, OfItsKey, IsQuery
  <2> HIDE DEF q
  <2> QED
    BY <2>1, RecordIsNotNone, AskingIsNotNone DEF IsQuery
<1> HIDE DEF q
<1>6. queries[key] = q /\ \A other \in QueryKey : other # key => queries[other] = tab.queries[other]
  BY <1>1 DEF Core, CacheOK
<1> HIDE DEF queries
<1>7. /\ IsTab(tab') /\ tab'.queries = queries /\ tab'.shown = tab.shown
      /\ tab'.waiters = tab.waiters /\ tab'.editor = tab.editor /\ tab'.editing = tab.editing
  BY <1>1, <1>3 DEF Core, IsTab, TabField
<1>8. ASSUME NEW w \in tab.waiters, w.current PROVE OnWire(queries, w)
  <2>1. AskedBy(tab, server, w) /\ OnWire(tab.queries, w)
    BY <1>1, <1>8 DEF ChecksOK, WaitersOK
  <2>2. CASE Key(w.view) = key
    BY <1>1, <1>4, <1>5, <1>6, <2>1, <2>2 DEF OnWire, AskedBy
  <2>3. CASE Key(w.view) # key
    BY <1>6, <2>1, <2>3 DEF OnWire, AskedBy
  <2> QED
    BY <2>2, <2>3
<1>9. ChecksOK(tab', server)
  BY <1>1, <1>7, <1>8 DEF ChecksOK, WaitersOK, AskedBy, EditorOK
<1>10. \A id : Drawn(tab, id) => Drawn(tab', id)
  <2>1. Data(tab) # None => Data(tab') = Data(tab)
    BY <1>2, <1>5, <1>6, <1>7 DEF Data
  <2> QED
    BY <2>1 DEF Drawn
<1> QED
  BY <1>1, <1>2, <1>7, <1>9, <1>10 DEF CheckKept

LEMMA ServesChecks ==
  ASSUME NoneIsNoRecord, CheckInv, Serves
  PROVE  CheckKept
<1>1. CASE \E key \in QueryKey : ReadsList(key)
  BY <1>1, ReadsListChecks
<1>2. CASE (\E reply \in Replies : ServeCreate(reply) \/ ServeRow(reply)) \/ LateWrite
  <2>1. /\ Core(tab) /\ ChecksOK(tab, server) /\ ServerOK(server)
        /\ tab.editor # None => Drawn(tab, tab.editing)
    BY DEF CheckInv, RemovalInv, Apart
  <2>2. ServerOK(server') /\ Later(server, server')
    BY <1>2, <2>1, InsertIsLater, UpdateIsLater, DeleteIsLater, LaterIsReflexive
    DEF ServeCreate, CreateHandler, ServeRow, RowHandler, LateWrite
  <2>3. /\ tab'.queries = tab.queries /\ tab'.shown = tab.shown /\ tab'.waiters = tab.waiters
        /\ tab'.editor = tab.editor /\ tab'.editing = tab.editing
    <3>1. CASE \E reply \in Replies : ServeCreate(reply)
      <4>1. PICK req : tab' = [tab EXCEPT !.formReq = req]
        BY <3>1 DEF ServeCreate
      <4> QED
        BY <2>1, <4>1 DEF Core, IsTab, TabField
    <3>2. CASE \E reply \in Replies : ServeRow(reply)
      <4>1. PICK req : tab' = [tab EXCEPT !.rowReq = req]
        BY <3>2 DEF ServeRow
      <4> QED
        BY <2>1, <4>1 DEF Core, IsTab, TabField
    <3>3. CASE LateWrite
      BY <3>3 DEF LateWrite
    <3> QED
      BY <1>2, <3>1, <3>2, <3>3
  <2>4. ChecksOK(tab, server')
    BY <2>1, <2>2, LaterChecks
  <2>5. ChecksOK(tab', server') /\ \A id : Drawn(tab', id) <=> Drawn(tab, id)
    BY <2>3, <2>4 DEF ChecksOK, WaitersOK, AskedBy, EditorOK, Drawn, Data
  <2> QED
    BY <2>1, <2>3, <2>5 DEF CheckKept
<1> QED
  BY <1>1, <1>2 DEF Serves, ReadsList

LEMMA PageNextChecks == ASSUME NoneIsNoRecord, CheckInv, PageNext PROVE CheckKept
<1>1. CASE FormPresses
  BY <1>1, StillPressChecks, CheckListChecks DEF FormPresses, StillPress
<1>2. CASE EditorPresses
  BY <1>2, StillPressChecks, SubmitChecks, ReadBackChecks DEF EditorPresses, StillPress
<1>3. CASE PanelPresses
  BY <1>3, StillPressChecks DEF PanelPresses, StillPress
<1>4. CASE PagePresses
  BY <1>4, StillPressChecks, RetryListChecks DEF PagePresses, StillPress
<1>5. CASE ListEnds
  BY <1>5, ListAnswersChecks DEF ListEnds
<1>6. CASE RowAnswers
  BY <1>6, LabelAnsweredChecks, RowAnswersChecks DEF RowAnswers
<1>7. CASE CreateAnswers
  BY <1>7, CreateAnsweredChecks DEF CreateAnswers
<1>8. CASE SessionChanges
  BY <1>8, StillPressChecks DEF StillPress
<1> QED
  BY <1>1, <1>2, <1>3, <1>4, <1>5, <1>6, <1>7, <1>8, ServesChecks, RunEffectsChecks DEF PageNext

LEMMA CheckInvHolds == ASSUME NoneIsNoRecord PROVE Spec => []CheckInv
<1> DEFINE Checked == ChecksOK(tab, server) /\ (tab.editor # None => Drawn(tab, tab.editing))
<1>1. Init => Checked
  <2>1. ASSUME Init PROVE tab.editor = None /\ tab.waiters = {}
    BY <2>1 DEF Init, PageInit
  <2> QED
    BY <2>1 DEF ChecksOK, WaitersOK, EditorOK
<1>2. RemovalInv /\ Checked /\ [Next]_vars => Checked'
  <2>1. ASSUME CheckInv, [Next]_vars PROVE CheckKept
    <3>1. CASE UNCHANGED pageVars
      BY <2>1, <3>1 DEF pageVars, CheckInv, CheckKept
    <3>2. CASE PageStep
      BY <2>1, <3>2, PageNextChecks DEF PageStep
    <3> QED
      BY <2>1, <3>1, <3>2 DEF Next, CallStep, OpenScreen, vars
  <2> QED
    BY <2>1 DEF CheckInv, CheckKept
<1> HIDE DEF Checked
<1>3. Spec => []Checked
  BY <1>1, <1>2, RemovalInvHolds, PTL DEF Spec
<1>4. RemovalInv /\ Checked => CheckInv
  BY DEF CheckInv, Checked
<1> QED
  BY <1>3, <1>4, RemovalInvHolds, PTL

\* The label "Check the list" reports was read from the server after the press that asked
\* for it, and is reported under the submission it was asked about: WalletsPage.tsx,
\* readBackWallet, and the attempts of WalletLabelEditor.tsx.
THEOREM ChecksReportThePresent == ASSUME NoneIsNoRecord PROVE Spec => []ReadBackIsFresh
<1>1. CheckInv => ReadBackIsFresh
  BY DEF CheckInv, ChecksOK, EditorOK, ReadBackIsFresh
<1> QED
  BY <1>1, CheckInvHolds, PTL

\* While an editor says that the list is being read, one of its checks waits for a fetch
\* that is running, whatever was cancelled, refreshed or left meanwhile, so that nobody
\* waits for a read that was forgotten: WalletsPage.tsx, readBackWallet, and the
\* cancellations of walletQueries.ts.
THEOREM ChecksWaitForARead == ASSUME NoneIsNoRecord PROVE Spec => []ChecksAreOnTheWire
<1>1. CheckInv => ChecksAreOnTheWire
  BY DEF CheckInv, ChecksOK, WaitersOK, EditorOK, AskedBy, OnWire, ChecksAreOnTheWire
<1> QED
  BY <1>1, CheckInvHolds, PTL

-----------------------------------------------------------------------------
(* The last page of a list. *)

\* How many rows the server may count.
Counts == 0..Cardinality(Wallet)

LEMMA RowsAreCounted ==
  ASSUME NEW S, S \subseteq Wallet
  PROVE  Cardinality(S) \in Counts
<1>1. IsFiniteSet(S) /\ Cardinality(S) <= Cardinality(Wallet)
  BY WalletAssumption, FS_Subset
<1>2. Cardinality(S) \in Nat /\ Cardinality(Wallet) \in Nat
  BY <1>1, WalletAssumption, FS_CardinalityType
<1> QED
  BY <1>1, <1>2 DEF Counts

\* A page that arrives empty leads to one that somebody may ask for.
Repairs(snap) == DOMAIN snap.rows = {} => LastPage(snap) \in Page

\* Whatever rows it stands beside: they were read after it was counted.
LEMMA ATotalNamesAPage ==
  ASSUME NEW snap, snap.total \in Counts
  PROVE  Repairs(snap)
<1>1. 1..TotalPages(snap) \subseteq Page /\ 1 \in Page
  BY PagesAssumption, WalletAssumption DEF TotalPages, Counts
<1>2. TotalPages(snap) \in Int
  <2>1. snap.total \in Nat /\ PageSize \in Nat \ {0}
    BY WalletAssumption DEF Counts
  <2> QED
    BY <2>1 DEF TotalPages
<1>3. LastPage(snap) = 1 \/ LastPage(snap) \in 1..TotalPages(snap)
  BY <1>2 DEF LastPage
<1> QED
  BY <1>1, <1>3 DEF Repairs

-----------------------------------------------------------------------------
(* What the tab shows and remembers. *)

IsPanel(p) == p = [field \in {"state", "check"} |-> p[field]]

EditorTyped(e) == IsEditor(e) /\ e.read \in {"idle", "reading", "found", "unreadable"}
PanelTyped(p)  == IsPanel(p) /\ p.state \in {"idle", "removing", "unconfirmed", "failed"}
FormTyped(f)   == f.status \in {"idle", "submitting", "saved", "unconfirmed", "failed"}

FieldsOK(t) ==
    /\ IsTab(t) /\ t.shown \in View /\ t.live \in View
    /\ t.editing \in Wallet \union {0} /\ t.removing \in Wallet \union {0}
    /\ t.pending \in BOOLEAN
    /\ \A entry \in t.settled : entry.id \in Wallet /\ entry.page \in Page
    /\ FormTyped(t.form)
    /\ t.editor # None => EditorTyped(t.editor)
    /\ t.panel # None => PanelTyped(t.panel)

Fields == {"shown", "live", "editing", "removing", "pending", "settled", "form", "editor", "panel"}

LEMMA SameFields == ASSUME NEW t, NEW u, FieldsOK(t), IsTab(u), Same(t, u, Fields) PROVE FieldsOK(u)
<1>1. /\ u.shown = t.shown /\ u.live = t.live /\ u.editing = t.editing /\ u.removing = t.removing
      /\ u.pending = t.pending /\ u.settled = t.settled /\ u.form = t.form
      /\ u.editor = t.editor /\ u.panel = t.panel
  BY DEF Same, Fields
<1> QED
  BY <1>1 DEF FieldsOK

LEMMA NewFormsAreTyped == EditorTyped(NewEditor) /\ PanelTyped(NewPanel) /\ FormTyped(NewForm)
BY DEF EditorTyped, IsEditor, PanelTyped, IsPanel, FormTyped, NewEditor, NewPanel, NewForm

LEMMA RenderedFields ==
  ASSUME NEW t, FieldsOK(t)
  PROVE  LET u == Rendered(t) IN
         /\ FieldsOK(u) /\ Same(t, u, {"shown", "live", "queries"})
         /\ u.form = IF t.shown.gen = 0 THEN NewForm ELSE t.form
<1> DEFINE r == Retired(t)
           n == RowForms(r)
           m == Mounted(r)
           opens == r.panel = None /\ r.removing # 0 /\ Drawn(r, r.removing)
           kept == {"shown", "live", "queries", "form"}
<1>1. /\ IsTab(r) /\ Same(t, r, kept \union {"editor", "panel"})
      /\ r.editing \in {t.editing, 0} /\ r.removing \in {t.removing, 0}
      /\ r.pending \in BOOLEAN /\ r.settled \subseteq t.settled
  BY DEF FieldsOK, IsTab, TabField, Retired, Same
<1> HIDE DEF r
<1>2. /\ IsTab(n) /\ Same(r, n, kept \union {"editing", "removing", "pending", "settled"})
      /\ n.editor \in {r.editor, NewEditor, None} /\ n.panel \in {r.panel, NewPanel, None}
  BY <1>1 DEF IsTab, TabField, RowForms, Same
<1>3. PICK waiters, request :
        m = [[n EXCEPT !.pending = n.pending /\ ~opens]
               EXCEPT !.rowReq = request, !.waiters = waiters,
                      !.form = IF r.shown.gen = 0 THEN NewForm ELSE n.form]
  <2> HIDE DEF n
  <2> QED
    BY <1>2 DEF Mounted, n, IsTab, TabField, Same
<1> HIDE DEF n, m
<1>4. /\ IsTab(m) /\ Same(n, m, {"shown", "live", "queries", "editing", "removing", "settled",
                                 "editor", "panel"})
      /\ m.pending = (n.pending /\ ~opens)
      /\ m.form = IF r.shown.gen = 0 THEN NewForm ELSE n.form
  <2> DEFINE locked == n.pending /\ ~opens
             form == IF r.shown.gen = 0 THEN NewForm ELSE n.form
             p == [n EXCEPT !.pending = locked]
  <2>1. m = [p EXCEPT !.rowReq = request, !.waiters = waiters, !.form = form]
    BY <1>3
  <2> HIDE DEF locked, form
  <2>2. IsTab(p) /\ p.pending = locked
        /\ Same(n, p, {"shown", "live", "queries", "editing", "removing", "settled", "editor", "panel"})
    BY <1>2 DEF IsTab, TabField, Same
  <2> HIDE DEF p
  <2>3. /\ IsTab(m) /\ m.form = form /\ m.pending = p.pending
        /\ Same(p, m, {"shown", "live", "queries", "editing", "removing", "settled", "editor", "panel"})
    BY <2>1, <2>2 DEF IsTab, TabField, Same
  <2> QED
    BY <2>2, <2>3 DEF Same, locked, form
<1>5. m.pending \in BOOLEAN
  BY <1>4
<1> HIDE DEF opens
<1>6. /\ m.shown = t.shown /\ m.live = t.live /\ m.queries = t.queries
      /\ m.form = IF t.shown.gen = 0 THEN NewForm ELSE t.form
      /\ m.editing \in {t.editing, 0} /\ m.removing \in {t.removing, 0}
      /\ m.settled \subseteq t.settled
      /\ m.editor \in {t.editor, NewEditor, None} /\ m.panel \in {t.panel, NewPanel, None}
  BY <1>1, <1>2, <1>4 DEF Same
<1>7. FieldsOK(m)
  BY <1>4, <1>5, <1>6, NewFormsAreTyped DEF FieldsOK
<1> QED
  BY <1>6, <1>7 DEF Rendered, m, r, Same

LEMMA HeardFields ==
  ASSUME NEW t, FieldsOK(t), NEW keys, NEW outcome, NEW snap, outcome = "ok" => Repairs(snap)
  PROVE  FieldsOK(Heard(t, keys, outcome, snap))
<1> DEFINE told == {waiter \in t.waiters : Key(waiter.view) \in keys}
           on == {waiter \in told : ReadsOn(t, waiter)}
           report == {waiter \in told \ on : waiter.current}
           settles == {waiter \in told \ on : waiter.kind = "settle" /\ waiter.stage = "fetching"
                                               /\ ViewIsCurrent(t, waiter)}
           editor == IF t.editor = None \/ report = {} THEN t.editor
                     ELSE LET waiter == CHOOSE waiter \in report : TRUE
                          IN  Reported(t.editor, Found(t, waiter, outcome, snap), outcome)
           page == IF settles # {} /\ outcome = "ok" /\ DOMAIN snap.rows = {}
                   THEN LastPage(snap) ELSE t.shown.page
           u == Heard(t, keys, outcome, snap)
<1>1. PICK waiters, queries, notice :
        u = [t EXCEPT !.waiters = waiters, !.queries = queries, !.editor = editor,
                      !.notice = notice, !.shown.page = page]
  BY Zenon DEF Heard
<1>2. page \in Page
  BY DEF FieldsOK, View, Repairs
<1>3. editor # None => EditorTyped(editor)
  <2>1. ASSUME t.editor # None, NEW found PROVE EditorTyped(Reported(t.editor, found, outcome))
    BY <2>1 DEF FieldsOK, EditorTyped, IsEditor, Reported
  <2> HIDE DEF report
  <2> QED
    BY <2>1 DEF FieldsOK
<1> HIDE DEF editor, page, u
<1>4. /\ IsTab(u) /\ u.editor = editor /\ u.shown = [t.shown EXCEPT !.page = page]
      /\ Same(t, u, Fields \ {"shown", "editor"})
  BY <1>1 DEF FieldsOK, IsTab, TabField, Fields, Same
<1>5. u.shown \in View
  BY <1>2, <1>4 DEF FieldsOK, View
<1>6. /\ u.live = t.live /\ u.editing = t.editing /\ u.removing = t.removing
      /\ u.pending = t.pending /\ u.settled = t.settled /\ u.form = t.form /\ u.panel = t.panel
  BY <1>4 DEF Same, Fields
<1>7. FieldsOK(u)
  BY <1>3, <1>4, <1>5, <1>6 DEF FieldsOK
<1> QED
  BY <1>7 DEF u

LEMMA CancelledFields ==
  ASSUME NEW t, FieldsOK(t), NEW keys
  PROVE  FieldsOK(Heard(t, keys, "cancelled", None))
BY HeardFields

\* A refresh or the effects of a view write the cache and end reads by cancellation.
LEMMA WrittenFields ==
  ASSUME NEW t, FieldsOK(t), NEW queries
  PROVE  FieldsOK([t EXCEPT !.queries = queries])
<1> DEFINE u == [t EXCEPT !.queries = queries]
<1>1. IsTab(u) /\ Same(t, u, Fields)
  BY DEF FieldsOK, IsTab, TabField, Fields, Same
<1> HIDE DEF u
<1> QED
  BY <1>1, SameFields DEF u

LEMMA RefreshFields ==
  ASSUME NEW t, FieldsOK(t), NEW gen, NEW overtaken
  PROVE  FieldsOK(Refresh(t, gen, overtaken))
<1>1. PICK queries, running, seen :
        LET resumed == Heard([t EXCEPT !.queries = queries], running, "cancelled", None)
        IN  Refresh(t, gen, overtaken) = IF overtaken THEN Heard(resumed, seen, "cancelled", None)
                                                      ELSE resumed
  BY Zenon DEF Refresh
<1> QED
  BY <1>1, WrittenFields, CancelledFields

LEMMA CollectedFields == ASSUME NEW t, FieldsOK(t) PROVE FieldsOK(Collected(t))
<1>1. PICK queries : Collected(t) = [t EXCEPT !.queries = queries]
  BY Zenon DEF Collected
<1> QED
  BY <1>1, WrittenFields

LEMMA CacheEffectsFields == ASSUME NEW t, FieldsOK(t) PROVE FieldsOK(CacheEffects(t))
<1>1. PICK queries, left :
        CacheEffects(t) =
          Heard([t EXCEPT !.live = t.shown, !.queries = queries], left, "cancelled", None)
  BY Zenon DEF CacheEffects
<1> DEFINE moved == [t EXCEPT !.live = t.shown, !.queries = queries]
<1>2. FieldsOK(moved)
  BY DEF FieldsOK, IsTab, TabField
<1> HIDE DEF moved
<1>3. FieldsOK(Heard(moved, left, "cancelled", None))
  BY <1>2, CancelledFields
<1> QED
  BY <1>1, <1>3 DEF moved

-----------------------------------------------------------------------------
(* A save and the reads after it. *)

IsSaved(form) == form.status = "saved"

\* A read that has been answered can be followed, and is from after the save it will be
\* shown beside.
FetchOK(q, form) ==
    q # None /\ q.fetch # None =>
      /\ q.fetch.total # None => q.fetch.total \in Counts
      /\ q.fetch.snap # None => /\ Repairs(q.fetch.snap)
                                /\ IsSaved(form) => q.fetch.snap.version >= form.version

\* So are the rows of an entry that is not being read.
RowsOK(q, form) ==
    q # None /\ q.fetch = None /\ ~q.failed /\ IsSaved(form) =>
      q.data # None /\ q.data.version >= form.version

EntriesOK(t) == \A key \in QueryKey : FetchOK(t.queries[key], t.form) /\ RowsOK(t.queries[key], t.form)

SavedBefore(form, s) == IsSaved(form) => form.version \in Nat /\ form.version <= s.version

\* The view whose effects have run has its entry.
HasEntry(t) == t.live.gen # 0 => t.queries[Key(t.live)] # None

ScreenReady(t, s) == FieldsOK(t) /\ EntriesOK(t) /\ SavedBefore(t.form, s) /\ HasEntry(t)

\* An entry is left alone, dropped, or asked for again.
Asked(q, r) ==
    \/ r = q \/ r = None
    \/ r.fetch # None /\ (r.fetch = Asking \/ (q # None /\ r.fetch = q.fetch))

Follows(t, u) ==
    /\ u.live = t.live
    /\ \A key \in QueryKey : Asked(t.queries[key], u.queries[key])
    /\ \A key \in QueryKey : key = Key(t.live) /\ t.queries[key] # None => u.queries[key] # None

LEMMA AskedKeeps ==
  ASSUME NEW q, NEW r, NEW form, FetchOK(q, form), RowsOK(q, form), Asked(q, r)
  PROVE  FetchOK(r, form) /\ RowsOK(r, form)
<1>1. CASE r = q
  BY <1>1
<1>2. CASE r = None
  BY <1>2 DEF FetchOK, RowsOK
<1>3. CASE r # None /\ r.fetch # None /\ r.fetch = Asking
  BY <1>3 DEF FetchOK, RowsOK, Asking
<1>4. CASE r # None /\ r.fetch # None /\ q # None /\ r.fetch = q.fetch
  BY <1>4 DEF FetchOK, RowsOK
<1> QED
  BY <1>1, <1>2, <1>3, <1>4 DEF Asked

LEMMA FollowsOnwards ==
  ASSUME NEW t, NEW u, NEW v, Follows(t, u), Follows(u, v)
  PROVE  Follows(t, v)
<1>1. ASSUME NEW key \in QueryKey PROVE Asked(t.queries[key], v.queries[key])
  <2> DEFINE q == t.queries[key]
             r == u.queries[key]
             w == v.queries[key]
  <2>1. Asked(q, r) /\ Asked(r, w)
    BY DEF Follows
  <2> HIDE DEF q, r, w
  <2>2. Asked(q, w)
    BY <2>1 DEF Asked
  <2> QED
    BY <2>2 DEF q, w
<1> QED
  BY <1>1 DEF Follows

LEMMA SameFollows == ASSUME NEW t, NEW u, Same(t, u, {"live", "queries"}) PROVE Follows(t, u)
BY DEF Same, Follows, Asked

LEMMA StartedIsAskedFor ==
  ASSUME NoneIsNoRecord, NEW q, q # None => IsQuery(q)
  PROVE  Asked(q, Started(q)) /\ Started(q) # None
BY StartedIsAsked DEF Asked

LEMMA RenewedIsAskedFor ==
  ASSUME NoneIsNoRecord, NEW q, IsQuery(q)
  PROVE  Asked(q, Renewed(q)) /\ Renewed(q) # None
         /\ Renewed(q).fetch # None /\ Renewed(q).fetch = Asking
<1> DEFINE r == Renewed(q)
<1>1. IsQuery(r) /\ r.fetch = Asking
  BY DEF Renewed, IsQuery
<1> HIDE DEF r
<1>2. r # None /\ r.fetch # None
  BY <1>1, RecordIsNotNone, AskingIsNotNone DEF IsQuery
<1>3. Asked(q, r) /\ r # None /\ r.fetch # None /\ r.fetch = Asking
  BY <1>1, <1>2 DEF Asked
<1> QED
  BY <1>3 DEF r

LEMMA HeardFollows ==
  ASSUME NoneIsNoRecord, NEW t, Core(t), NEW keys, NEW outcome, NEW snap
  PROVE  Follows(t, Heard(t, keys, outcome, snap))
<1> DEFINE u == Heard(t, keys, outcome, snap)
<1>1. /\ Same(t, u, Untouched)
      /\ \A key \in QueryKey :
           u.queries[key] # t.queries[key] => u.queries[key] = Started(t.queries[key])
  BY HeardEffect
<1> HIDE DEF u
<1>2. \A key \in QueryKey : t.queries[key] # None => IsQuery(t.queries[key])
  BY DEF Core, CacheOK, OfItsKey
<1>3. \A key \in QueryKey : /\ Asked(t.queries[key], u.queries[key])
                            /\ t.queries[key] # None => u.queries[key] # None
  BY <1>1, <1>2, StartedIsAskedFor DEF Asked
<1>4. u.live = t.live
  BY <1>1 DEF Same, Untouched
<1> QED
  BY <1>3, <1>4 DEF Follows, u

LEMMA RefreshFollows ==
  ASSUME NoneIsNoRecord, NEW t, Core(t), NEW gen, gen = t.live.gen, NEW overtaken
  PROVE  Follows(t, Refresh(t, gen, overtaken))
<1> DEFINE u == Refresh(t, gen, overtaken)
<1>1. Refreshed(t, u, gen)
  BY RefreshEffect
<1> HIDE DEF u
<1>2. \A key \in QueryKey : t.queries[key] # None => IsQuery(t.queries[key])
  BY DEF Core, CacheOK, OfItsKey
<1>3. \A key \in QueryKey : /\ Asked(t.queries[key], u.queries[key])
                            /\ t.queries[key] # None => u.queries[key] # None
  BY <1>1, <1>2, RenewedIsAskedFor DEF Asked, Refreshed
<1>4. u.live = t.live
  BY <1>1 DEF Refreshed, Same, Untouched
<1> QED
  BY <1>3, <1>4 DEF Follows, u

LEMMA CollectedFollows == ASSUME NEW t, IsTab(t) PROVE Follows(t, Collected(t))
<1> DEFINE queries == [key \in QueryKey |->
                         IF t.queries[key] # None /\ t.queries[key].fetch = None
                            /\ key # Key(t.live) THEN None ELSE t.queries[key]]
           u == [t EXCEPT !.queries = queries]
<1>1. Collected(t) = u
  BY DEF Collected
<1>2. /\ \A key \in QueryKey : queries[key] \in {t.queries[key], None}
      /\ \A key \in QueryKey : key = Key(t.live) => queries[key] = t.queries[key]
  OBVIOUS
<1> HIDE DEF queries
<1>3. u.live = t.live /\ u.queries = queries
  BY DEF IsTab, TabField
<1> HIDE DEF u
<1> QED
  BY <1>1, <1>2, <1>3 DEF Follows, Asked

\* What a step does to the screen that saves nothing.
LEMMA FollowsReady ==
  ASSUME NEW t, NEW u, NEW s, ScreenReady(t, s), FieldsOK(u), Follows(t, u),
         u.form = t.form \/ ~IsSaved(u.form)
  PROVE  ScreenReady(u, s)
<1>1. EntriesOK(u)
  <2>1. SUFFICES ASSUME NEW key \in QueryKey
                 PROVE  FetchOK(u.queries[key], u.form) /\ RowsOK(u.queries[key], u.form)
    BY DEF EntriesOK
  <2> DEFINE q == t.queries[key]
             r == u.queries[key]
  <2>2. Asked(q, r) /\ FetchOK(q, t.form) /\ RowsOK(q, t.form)
    BY DEF ScreenReady, EntriesOK, Follows
  <2> HIDE DEF q, r
  <2>3. FetchOK(r, t.form) /\ RowsOK(r, t.form)
    BY <2>2, AskedKeeps
  <2>4. FetchOK(r, u.form) /\ RowsOK(r, u.form)
    BY <2>3 DEF FetchOK, RowsOK
  <2> QED
    BY <2>4 DEF r
<1>2. HasEntry(u)
  <2>1. t.live \in View /\ u.live = t.live
    BY DEF ScreenReady, FieldsOK, Follows
  <2>2. t.live.gen # 0 => Key(t.live) \in QueryKey
    BY <2>1 DEF View, Key, QueryKey
  <2> QED
    BY <2>1, <2>2 DEF ScreenReady, HasEntry, Follows
<1> QED
  BY <1>1, <1>2 DEF ScreenReady, SavedBefore

\* A screen without a session has no form that was saved.
FormGone(t) == t.shown.gen = 0 => ~IsSaved(t.form)

ScreenKept == ScreenReady(tab', server') /\ FormGone(tab')

LEMMA ReadyBecomes ==
  ASSUME NEW t, ScreenReady(t, server), Becomes(t), server' = server
  PROVE  ScreenKept
<1> DEFINE u == Rendered(t)
<1>1. /\ FieldsOK(u) /\ Same(t, u, {"shown", "live", "queries"})
      /\ u.form = IF t.shown.gen = 0 THEN NewForm ELSE t.form
  BY RenderedFields DEF ScreenReady
<1>2. tab' = u
  BY DEF Becomes
<1> HIDE DEF u
<1>3. ~IsSaved(NewForm)
  BY DEF IsSaved, NewForm
<1>4. Follows(t, u) /\ u.shown = t.shown
  BY <1>1, SameFollows DEF Same
<1>5. ScreenReady(u, server)
  BY <1>1, <1>3, <1>4, FollowsReady
<1> QED
  BY <1>1, <1>2, <1>3, <1>4, <1>5 DEF ScreenKept, FormGone

ScreenInv == CheckInv /\ ScreenReady(tab, server) /\ FormGone(tab)

-----------------------------------------------------------------------------
(* What is pressed and answered. *)

LEMMA SameReady ==
  ASSUME NEW t, NEW u, NEW s, ScreenReady(t, s), FieldsOK(u), Same(t, u, {"live", "queries"}),
         u.form = t.form \/ ~IsSaved(u.form)
  PROVE  ScreenReady(u, s)
BY SameFollows, FollowsReady

\* Presses that ask for no page, and a change of identity.
QuietPress == PlainPress \/ Remove \/ Verify \/ SessionChanges \/ \E id \in Wallet : OpenRemoval(id)

LEMMA QuietPressScreen == ASSUME ScreenInv, QuietPress PROVE ScreenKept
<1>1. FieldsOK(tab) /\ ScreenReady(tab, server)
  BY DEF ScreenInv, ScreenReady
<1>2. server' = server
  BY DEF QuietPress, PlainPress, TurnPage, SubmitCreate, SubmitInvalidDraft, CloseEditor,
         CancelRemoval, SubmitLabel, SubmitInvalidLabel, OpenEditor, Remove, Verify,
         SessionChanges, OpenRemoval, Press
<1>3. PICK u : /\ Becomes(u) /\ FieldsOK(u) /\ Same(tab, u, {"live", "queries"})
               /\ u.form = tab.form \/ ~IsSaved(u.form)
  <2>1. CASE TurnPage
    <3>1. PICK page \in Page : Becomes([tab EXCEPT !.shown.page = page])
      BY <2>1 DEF TurnPage
    <3> DEFINE u == [tab EXCEPT !.shown.page = page]
    <3>2. /\ IsTab(u) /\ Same(tab, u, Fields \ {"shown"}) /\ Same(tab, u, {"live", "queries"})
          /\ u.shown = [tab.shown EXCEPT !.page = page] /\ u.form = tab.form
      BY <1>1 DEF FieldsOK, IsTab, TabField, Fields, Same
    <3>3. u.shown \in View
      BY <1>1, <3>2 DEF FieldsOK, View
    <3> HIDE DEF u
    <3>4. FieldsOK(u)
      BY <1>1, <3>2, <3>3 DEF FieldsOK, Fields, Same
    <3> QED
      BY <3>1, <3>2, <3>4 DEF u
  <2>2. CASE SubmitCreate
    <3> DEFINE form == [NewForm EXCEPT !.status = "submitting"]
    <3>1. PICK request : Becomes([tab EXCEPT !.form = form, !.formReq = request])
      BY <2>2 DEF SubmitCreate
    <3>2. FormTyped(form) /\ ~IsSaved(form)
      BY DEF NewForm, FormTyped, IsSaved
    <3> HIDE DEF form
    <3> DEFINE u == [tab EXCEPT !.form = form, !.formReq = request]
    <3>3. FieldsOK(u) /\ Same(tab, u, {"live", "queries"}) /\ u.form = form
      BY <1>1, <3>2 DEF FieldsOK, IsTab, TabField, Same
    <3> QED
      BY <3>1, <3>2, <3>3
  <2>3. CASE SubmitInvalidDraft
    <3> DEFINE u == [tab EXCEPT !.form = NewForm]
    <3>1. Becomes(u) /\ ~IsSaved(NewForm)
      BY <2>3 DEF SubmitInvalidDraft, IsSaved, NewForm
    <3>2. FieldsOK(u) /\ Same(tab, u, {"live", "queries"}) /\ u.form = NewForm
      BY <1>1, NewFormsAreTyped DEF FieldsOK, IsTab, TabField, Same
    <3> QED
      BY <3>1, <3>2
  <2>4. CASE CloseEditor
    <3> DEFINE u == [tab EXCEPT !.editing = 0]
    <3>1. Becomes(u)
      BY <2>4 DEF CloseEditor
    <3>2. FieldsOK(u) /\ Same(tab, u, {"live", "queries"}) /\ u.form = tab.form
      BY <1>1 DEF FieldsOK, IsTab, TabField, Same
    <3> QED
      BY <3>1, <3>2
  <2>5. CASE CancelRemoval
    <3> DEFINE u == [tab EXCEPT !.removing = 0, !.pending = FALSE]
    <3>1. Becomes(u)
      BY <2>5 DEF CancelRemoval
    <3>2. FieldsOK(u) /\ Same(tab, u, {"live", "queries"}) /\ u.form = tab.form
      BY <1>1 DEF FieldsOK, IsTab, TabField, Same
    <3> QED
      BY <3>1, <3>2
  <2>6. CASE SubmitLabel
    <3> DEFINE editor == [NewEditor EXCEPT !.status = "submitting", !.attempt = tab.editor.attempt + 1]
    <3>1. PICK request, waiters :
            Becomes([tab EXCEPT !.rowReq = request, !.waiters = waiters, !.editor = editor])
      BY <2>6 DEF SubmitLabel
    <3>2. EditorTyped(editor)
      BY DEF NewEditor, EditorTyped, IsEditor
    <3> HIDE DEF editor
    <3> DEFINE u == [tab EXCEPT !.rowReq = request, !.waiters = waiters, !.editor = editor]
    <3>3. FieldsOK(u) /\ Same(tab, u, {"live", "queries"}) /\ u.form = tab.form
      BY <1>1, <3>2 DEF FieldsOK, IsTab, TabField, Same
    <3> QED
      BY <3>1, <3>3
  <2>7. CASE SubmitInvalidLabel
    <3> DEFINE editor == [NewEditor EXCEPT !.attempt = tab.editor.attempt]
    <3>1. PICK waiters : Becomes([tab EXCEPT !.waiters = waiters, !.editor = editor])
      BY <2>7 DEF SubmitInvalidLabel
    <3>2. EditorTyped(editor)
      BY DEF NewEditor, EditorTyped, IsEditor
    <3> HIDE DEF editor
    <3> DEFINE u == [tab EXCEPT !.waiters = waiters, !.editor = editor]
    <3>3. FieldsOK(u) /\ Same(tab, u, {"live", "queries"}) /\ u.form = tab.form
      BY <1>1, <3>2 DEF FieldsOK, IsTab, TabField, Same
    <3> QED
      BY <3>1, <3>3
  <2>8. CASE \E id \in Wallet : OpenEditor(id)
    <3>1. PICK id \in Wallet : Becomes([tab EXCEPT !.editing = id, !.notice = ""])
      BY <2>8 DEF OpenEditor
    <3> DEFINE u == [tab EXCEPT !.editing = id, !.notice = ""]
    <3>2. FieldsOK(u) /\ Same(tab, u, {"live", "queries"}) /\ u.form = tab.form
      BY <1>1 DEF FieldsOK, IsTab, TabField, Same
    <3> QED
      BY <3>1, <3>2
  <2>9. CASE \E id \in Wallet : OpenRemoval(id)
    <3>1. PICK id \in Wallet : Becomes([tab EXCEPT !.removing = id, !.notice = ""])
      BY <2>9 DEF OpenRemoval
    <3> DEFINE u == [tab EXCEPT !.removing = id, !.notice = ""]
    <3>2. FieldsOK(u) /\ Same(tab, u, {"live", "queries"}) /\ u.form = tab.form
      BY <1>1 DEF FieldsOK, IsTab, TabField, Same
    <3> QED
      BY <3>1, <3>2
  <2>10. CASE Remove
    <3> DEFINE panel == [NewPanel EXCEPT !.state = "removing"]
    <3>1. PICK request : Becomes([tab EXCEPT !.rowReq = request, !.pending = TRUE, !.panel = panel])
      BY <2>10 DEF Remove
    <3>2. PanelTyped(panel)
      BY DEF NewPanel, PanelTyped, IsPanel
    <3> HIDE DEF panel
    <3> DEFINE u == [tab EXCEPT !.rowReq = request, !.pending = TRUE, !.panel = panel]
    <3>3. FieldsOK(u) /\ Same(tab, u, {"live", "queries"}) /\ u.form = tab.form
      BY <1>1, <3>2 DEF FieldsOK, IsTab, TabField, Same
    <3> QED
      BY <3>1, <3>3
  <2>11. CASE Verify
    <3> DEFINE panel == [tab.panel EXCEPT !.check = "checking"]
    <3>1. PICK request : Becomes([tab EXCEPT !.rowReq = request, !.panel = panel])
      BY <2>11 DEF Verify
    <3>2. tab.panel # None
      BY <2>11 DEF Verify
    <3>3. PanelTyped(panel)
      BY <1>1, <3>2 DEF FieldsOK, PanelTyped, IsPanel
    <3> HIDE DEF panel
    <3> DEFINE u == [tab EXCEPT !.rowReq = request, !.panel = panel]
    <3>4. FieldsOK(u) /\ Same(tab, u, {"live", "queries"}) /\ u.form = tab.form
      BY <1>1, <3>3 DEF FieldsOK, IsTab, TabField, Same
    <3> QED
      BY <3>1, <3>4
  <2>12. CASE SessionChanges
    <3>1. PICK gen \in {0, issued + 1} :
            gen <= MaxGeneration /\ Becomes([tab EXCEPT !.shown.gen = gen])
      BY <2>12 DEF SessionChanges
    <3>2. gen \in Generation \union {0}
      BY <3>1, WalletAssumption DEF ScreenInv, CheckInv, RemovalInv, Generation
    <3> DEFINE u == [tab EXCEPT !.shown.gen = gen]
    <3>3. /\ IsTab(u) /\ Same(tab, u, Fields \ {"shown"}) /\ Same(tab, u, {"live", "queries"})
          /\ u.shown = [tab.shown EXCEPT !.gen = gen] /\ u.form = tab.form
      BY <1>1 DEF FieldsOK, IsTab, TabField, Fields, Same
    <3>4. u.shown \in View
      BY <1>1, <3>2, <3>3 DEF FieldsOK, View
    <3> HIDE DEF u
    <3>5. FieldsOK(u)
      BY <1>1, <3>3, <3>4 DEF FieldsOK, Fields, Same
    <3> QED
      BY <3>1, <3>3, <3>5 DEF u
  <2> QED
    BY <2>1, <2>2, <2>3, <2>4, <2>5, <2>6, <2>7, <2>8, <2>9, <2>10, <2>11, <2>12
    DEF QuietPress, PlainPress
<1> QED
  BY <1>1, <1>2, <1>3, SameReady, ReadyBecomes

LEMMA CheckListScreen ==
  ASSUME NoneIsNoRecord, ScreenInv, NEW overtaken, CheckList(overtaken)
  PROVE  ScreenKept
<1> DEFINE u == Refresh(tab, tab.shown.gen, overtaken)
<1>1. Core(tab) /\ ScreenReady(tab, server)
  BY DEF ScreenInv, CheckInv, RemovalInv, Apart
<1>2. tab.shown = tab.live /\ Becomes(u) /\ server' = server
  BY DEF CheckList, Press
<1>3. Follows(tab, u) /\ Refreshed(tab, u, tab.shown.gen) /\ FieldsOK(u)
  BY <1>1, <1>2, RefreshFollows, RefreshEffect, RefreshFields DEF ScreenReady
<1> HIDE DEF u
<1>4. u.form = tab.form
  BY <1>3 DEF Refreshed, Same, Untouched
<1> QED
  BY <1>1, <1>2, <1>3, <1>4, FollowsReady, ReadyBecomes

LEMMA ReadBackScreen ==
  ASSUME NoneIsNoRecord, ScreenInv, NEW overtaken, ReadBack(overtaken)
  PROVE  ScreenKept
<1> DEFINE unheard == Unheard(tab.waiters)
           quiet == [tab EXCEPT !.waiters = unheard]
           told == Refresh(quiet, tab.shown.gen, overtaken)
           editor == [told.editor EXCEPT !.read = "reading", !.found = None]
<1>1. Core(tab) /\ ScreenReady(tab, server) /\ IsTab(tab) /\ ChecksOK(tab, server)
  BY DEF ScreenInv, CheckInv, RemovalInv, Apart, Core
<1>2. PICK waiters : Becomes([told EXCEPT !.waiters = waiters, !.editor = editor])
  BY DEF ReadBack
<1>3. tab.shown = tab.live /\ server' = server /\ tab.editor # None
  BY DEF ReadBack, Press
<1>4. \A w \in unheard : IsWaiter(w) /\ ~w.current
  BY <1>1, UnheardWaiters DEF ChecksOK, WaitersOK
<1> HIDE DEF unheard
<1>5. /\ Core(quiet) /\ quiet.live = tab.live /\ quiet.queries = tab.queries /\ quiet.form = tab.form
      /\ quiet.editor = tab.editor /\ quiet.waiters = unheard /\ Same(tab, quiet, Fields)
  BY <1>1 DEF Core, IsTab, TabField, Same, Fields
<1> HIDE DEF quiet
<1>6. ChecksOK(quiet, server)
  <2>1. tab.editor.read # "reading"
    BY DEF ReadBack
  <2> QED
    BY <1>1, <1>3, <1>4, <1>5, <2>1 DEF ChecksOK, WaitersOK, EditorOK
<1>7. FieldsOK(quiet) /\ Follows(tab, quiet)
  BY <1>1, <1>5, SameFields, SameFollows DEF ScreenReady, Core, Same
<1>8. /\ Follows(quiet, told) /\ FieldsOK(told) /\ told.form = quiet.form /\ told.editor # None
  <2>1. tab.shown.gen = quiet.live.gen
    BY <1>3, <1>5
  <2>2. Follows(quiet, told) /\ Refreshed(quiet, told, tab.shown.gen) /\ FieldsOK(told)
    BY <1>5, <1>7, <2>1, RefreshFollows, RefreshEffect, RefreshFields
  <2>3. told.editor # None
    BY <1>3, <1>5, <1>6, <2>1, RefreshChecks
  <2> HIDE DEF told
  <2> QED
    BY <2>2, <2>3 DEF Refreshed, Same, Untouched
<1>9. EditorTyped(editor)
  BY <1>8 DEF FieldsOK, EditorTyped, IsEditor
<1> HIDE DEF told, editor
<1> DEFINE u == [told EXCEPT !.waiters = waiters, !.editor = editor]
<1>10. /\ FieldsOK(u) /\ Same(told, u, {"live", "queries"}) /\ u.form = told.form
  BY <1>8, <1>9 DEF FieldsOK, IsTab, TabField, Same
<1> HIDE DEF u
<1>11. Follows(tab, u) /\ u.form = tab.form
  BY <1>5, <1>7, <1>8, <1>10, SameFollows, FollowsOnwards
<1>12. ScreenReady(u, server)
  BY <1>1, <1>10, <1>11, FollowsReady
<1> QED
  BY <1>2, <1>3, <1>12, ReadyBecomes DEF u

\* The save that is reported and the request for every page of its identity are one step.
LEMMA CreateAnsweredScreen ==
  ASSUME NoneIsNoRecord, ScreenInv, NEW answer, NEW overtaken, CreateAnswered(answer, overtaken)
  PROVE  ScreenKept
<1> DEFINE result == CreateWallet(answer)
           form == [status |-> IF result.code = "" THEN "saved"
                               ELSE IF IsUnconfirmedWrite(result) THEN "unconfirmed" ELSE "failed",
                    version |-> server.version]
           settled == [tab EXCEPT !.formReq = None, !.form = form]
           gen == tab.formReq.gen
           asked == Refresh(settled, gen, overtaken)
           saved == [asked EXCEPT !.shown.page = 1]
<1>1. /\ Core(tab) /\ ScreenReady(tab, server) /\ IsTab(tab) /\ FieldsOK(tab)
      /\ OneEntry(tab) /\ server.version \in Nat
  BY DEF ScreenInv, CheckInv, RemovalInv, Apart, Core, ScreenReady, ServerOK, RemovalOK, RemovalReady,
         RemovalPart
<1>2. IF result.code = "" THEN Becomes(saved) ELSE Becomes(settled)
  BY Zenon DEF CreateAnswered, HandleSaved
<1>3. gen = tab.live.gen /\ server' = server
  BY DEF CreateAnswered, ScreenInv, CheckInv, RemovalInv, Apart, FormOf
<1>4. /\ FormTyped(form) /\ form.version = server.version
      /\ result.code # "" => ~IsSaved(form)
  <2> HIDE DEF result
  <2> QED
    BY DEF FormTyped, IsSaved
<1> HIDE DEF form, gen, result
<1>5. /\ FieldsOK(settled) /\ settled.form = form
      /\ settled.shown = tab.shown /\ settled.live = tab.live /\ settled.queries = tab.queries
  BY <1>1, <1>4 DEF FieldsOK, IsTab, TabField
<1> HIDE DEF settled
<1>6. CASE result.code # ""
  <2>1. ScreenReady(settled, server)
    BY <1>1, <1>4, <1>5, <1>6, SameReady DEF Same
  <2> QED
    BY <1>2, <1>3, <1>6, <2>1, ReadyBecomes
<1>7. CASE result.code = ""
  <2>1. Core(settled)
    BY <1>1, <1>5 DEF Core, FieldsOK
  <2>2. Refreshed(settled, asked, gen) /\ Follows(settled, asked) /\ FieldsOK(asked)
    BY <1>3, <1>5, <2>1, RefreshEffect, RefreshFollows, RefreshFields
  <2> HIDE DEF asked
  <2>3. asked.form = form /\ asked.live = tab.live
    BY <1>5, <2>2 DEF Refreshed, Same, Untouched
  <2>4. /\ IsTab(saved) /\ Same(asked, saved, Fields \ {"shown"}) /\ saved.queries = asked.queries
        /\ saved.shown = [asked.shown EXCEPT !.page = 1]
    BY <2>2 DEF FieldsOK, IsTab, TabField, Same, Fields
  <2> HIDE DEF saved
  <2>5. saved.shown \in View
    BY <2>2, <2>4, WalletAssumption DEF FieldsOK, View
  <2>6. FieldsOK(saved) /\ saved.form = form /\ saved.live = tab.live
    BY <2>2, <2>3, <2>4, <2>5 DEF FieldsOK, Same, Fields
  <2>7. ASSUME NEW key \in QueryKey, saved.queries[key] # None
        PROVE  saved.queries[key].fetch # None /\ saved.queries[key].fetch = Asking
    <3>1. asked.queries[key] # None
      BY <2>4, <2>7
    <3>2. settled.queries[key] # None
      BY <2>2, <3>1 DEF Refreshed
    <3>3. key[1] = gen
      BY <1>1, <1>3, <1>5, <3>2, KeyIsAKey DEF OneEntry, Core
    <3>4. IsQuery(settled.queries[key])
      BY <2>1, <3>2 DEF Core, CacheOK, OfItsKey
    <3>5. asked.queries[key] = Renewed(settled.queries[key])
      BY <2>2, <3>2, <3>3 DEF Refreshed
    <3> QED
      BY <2>4, <3>4, <3>5, RenewedIsAskedFor
  <2>8. EntriesOK(saved)
    BY <2>7 DEF EntriesOK, FetchOK, RowsOK, Asking
  <2>9. SavedBefore(saved.form, server)
    <3>1. saved.form.version = server.version
      BY <1>4, <2>6
    <3> QED
      BY <1>1, <3>1 DEF SavedBefore
  <2>10. HasEntry(saved)
    <3>1. tab.live.gen # 0 => Key(tab.live) \in QueryKey /\ tab.queries[Key(tab.live)] # None
      BY <1>1 DEF ScreenReady, HasEntry, FieldsOK, View, Key, QueryKey
    <3> QED
      BY <1>5, <2>2, <2>4, <2>6, <3>1 DEF Follows, HasEntry
  <2>11. ScreenReady(saved, server)
    BY <2>6, <2>8, <2>9, <2>10 DEF ScreenReady
  <2> QED
    BY <1>2, <1>3, <1>7, <2>11, ReadyBecomes
<1> QED
  BY <1>6, <1>7

LEMMA LabelAnsweredScreen ==
  ASSUME NoneIsNoRecord, ScreenInv, NEW answer, NEW overtaken, LabelAnswered(answer, overtaken)
  PROVE  ScreenKept
<1> DEFINE free == [tab EXCEPT !.rowReq = None]
           gen == tab.rowReq.gen
           asked == Refresh(free, gen, overtaken)
           updated == [asked EXCEPT !.editing = 0, !.notice = "updated"]
<1>1. Core(tab) /\ ScreenReady(tab, server) /\ FieldsOK(tab)
  BY DEF ScreenInv, CheckInv, RemovalInv, Apart, ScreenReady
<1>2. PICK status :
        \/ Becomes(updated)
        \/ Becomes([free EXCEPT !.editor = IF @ = None THEN None ELSE [@ EXCEPT !.status = status]])
  BY DEF LabelAnswered, HandleUpdated
<1>3. gen = tab.live.gen /\ server' = server
  BY DEF LabelAnswered, ScreenInv, CheckInv, RemovalInv, Apart, RenameOf
<1> HIDE DEF gen
<1>4. FieldsOK(free) /\ Same(tab, free, {"live", "queries", "form", "editor", "shown"})
  BY <1>1 DEF FieldsOK, IsTab, TabField, Same
<1> HIDE DEF free
<1>5. Follows(tab, free) /\ free.form = tab.form /\ Core(free) /\ free.live = tab.live
  <2>1. free.shown = tab.shown /\ free.live = tab.live /\ free.queries = tab.queries
    BY <1>4 DEF Same
  <2> QED
    BY <1>1, <1>4, <2>1, SameFollows DEF Core, FieldsOK, Same
<1>6. CASE Becomes(updated)
  <2>1. Follows(free, asked) /\ Refreshed(free, asked, gen) /\ FieldsOK(asked)
    BY <1>3, <1>4, <1>5, RefreshFollows, RefreshEffect, RefreshFields
  <2> HIDE DEF asked
  <2>2. asked.form = free.form
    BY <2>1 DEF Refreshed, Same, Untouched
  <2>3. FieldsOK(updated) /\ Same(asked, updated, {"live", "queries"}) /\ updated.form = asked.form
    BY <2>1 DEF FieldsOK, IsTab, TabField, Same
  <2> HIDE DEF updated
  <2>4. Follows(tab, updated)
    BY <1>5, <2>1, <2>3, SameFollows, FollowsOnwards
  <2> QED
    BY <1>1, <1>3, <1>5, <1>6, <2>2, <2>3, <2>4, FollowsReady, ReadyBecomes
<1>7. CASE ~Becomes(updated)
  <2> DEFINE editor == IF free.editor = None THEN None ELSE [free.editor EXCEPT !.status = status]
             failed == [free EXCEPT !.editor = editor]
  <2>1. Becomes(failed)
    BY <1>2, <1>7
  <2>2. editor # None => EditorTyped(editor)
    BY <1>4 DEF FieldsOK, EditorTyped, IsEditor
  <2> HIDE DEF editor
  <2>3. FieldsOK(failed) /\ Same(free, failed, {"live", "queries"}) /\ failed.form = free.form
    BY <1>4, <2>2 DEF FieldsOK, IsTab, TabField, Same
  <2> HIDE DEF failed
  <2>4. Follows(tab, failed)
    BY <1>5, <2>3, SameFollows, FollowsOnwards
  <2> QED
    BY <1>1, <1>3, <1>5, <2>1, <2>3, <2>4, FollowsReady, ReadyBecomes
<1> QED
  BY <1>6, <1>7

LEMMA GoneScreen ==
  ASSUME NoneIsNoRecord, ScreenInv, tab.removing # 0, server' = server,
         NEW how, NEW overtaken, Becomes(Gone(tab, how, overtaken))
  PROVE  ScreenKept
<1> DEFINE settled == tab.settled \union {[id |-> tab.removing, page |-> tab.shown.page]}
           gone == tab.gone \union {tab.removing}
           closed == [tab EXCEPT !.removing = 0, !.pending = FALSE, !.rowReq = None,
                                 !.settled = settled, !.gone = gone]
           noticed == [closed EXCEPT !.notice = how]
           told == Refresh(noticed, tab.shown.gen, overtaken)
           waits == [told EXCEPT !.waiters = @ \union {SettleOf(tab.shown)}]
<1>1. Core(tab) /\ ScreenReady(tab, server) /\ FieldsOK(tab)
  BY DEF ScreenInv, CheckInv, RemovalInv, Apart, ScreenReady
<1>2. Becomes(IF tab.shown # tab.live THEN closed ELSE waits)
  BY DEF Gone
<1>3. \A entry \in settled : entry.id \in Wallet /\ entry.page \in Page
  BY <1>1 DEF FieldsOK, View
<1> HIDE DEF settled, gone
<1>4. FieldsOK(closed) /\ Same(tab, closed, {"live", "queries", "form", "shown"})
  BY <1>1, <1>3 DEF FieldsOK, IsTab, TabField, Same
<1> HIDE DEF closed
<1>5. Follows(tab, closed) /\ closed.form = tab.form
  BY <1>4, SameFollows DEF Same
<1>6. CASE tab.shown # tab.live
  BY <1>1, <1>2, <1>4, <1>5, <1>6, FollowsReady, ReadyBecomes
<1>7. CASE tab.shown = tab.live
  <2>1. FieldsOK(noticed) /\ Same(closed, noticed, {"live", "queries", "form", "shown"})
    BY <1>4 DEF FieldsOK, IsTab, TabField, Same
  <2> HIDE DEF noticed
  <2>2. /\ noticed.shown = tab.shown /\ noticed.live = tab.live /\ noticed.queries = tab.queries
        /\ noticed.form = tab.form
    BY <1>4, <2>1 DEF Same
  <2>3. Core(noticed)
    BY <1>1, <2>1, <2>2 DEF Core, FieldsOK
  <2>4. tab.shown.gen = noticed.live.gen
    BY <1>7, <2>2
  <2>5. Follows(noticed, told) /\ Refreshed(noticed, told, tab.shown.gen) /\ FieldsOK(told)
    BY <2>1, <2>3, <2>4, RefreshFollows, RefreshEffect, RefreshFields
  <2> HIDE DEF told
  <2>6. told.form = noticed.form
    BY <2>5 DEF Refreshed, Same, Untouched
  <2>7. FieldsOK(waits) /\ Same(told, waits, {"live", "queries"}) /\ waits.form = told.form
    BY <2>5 DEF FieldsOK, IsTab, TabField, Same
  <2>8. Becomes(waits)
    BY <1>2, <1>7
  <2> HIDE DEF waits
  <2>9. Follows(tab, noticed) /\ Follows(told, waits)
    BY <2>2, <2>7, SameFollows DEF Same
  <2>10. Follows(tab, waits)
    BY <2>5, <2>9, FollowsOnwards
  <2> QED
    BY <1>1, <2>2, <2>6, <2>7, <2>8, <2>10, FollowsReady, ReadyBecomes
<1> QED
  BY <1>6, <1>7

LEMMA RowAnswersScreen ==
  ASSUME NoneIsNoRecord, ScreenInv, NEW answer, NEW overtaken,
         RemovalAnswered(answer, overtaken) \/ CheckAnswered(answer, overtaken)
  PROVE  ScreenKept
<1>1. ScreenReady(tab, server) /\ FieldsOK(tab) /\ PanelOK(tab)
  BY DEF ScreenInv, CheckInv, RemovalInv, RemovalOK, ScreenReady
<1>2. server' = server /\ tab.panel # None /\ tab.removing # 0
  BY <1>1 DEF RemovalAnswered, CheckAnswered, PanelOK
<1>3. PanelTyped(tab.panel)
  BY <1>1, <1>2 DEF FieldsOK
<1>4. CASE RemovalAnswered(answer, overtaken)
  <2>1. PICK state \in {"unconfirmed", "failed"} :
          \/ Becomes(Gone(tab, "removed", overtaken))
          \/ Becomes(Gone(tab, "unavailable", overtaken))
          \/ Becomes([tab EXCEPT !.rowReq = None, !.pending = FALSE, !.panel.state = state])
    <3> DEFINE state == IF IsUnconfirmedRemoval(DeleteWallet(answer)) THEN "unconfirmed" ELSE "failed"
    <3>1. state \in {"unconfirmed", "failed"}
      BY Zenon
    <3>2. \/ Becomes(Gone(tab, "removed", overtaken))
          \/ Becomes(Gone(tab, "unavailable", overtaken))
          \/ Becomes([tab EXCEPT !.rowReq = None, !.pending = FALSE, !.panel.state = state])
      BY <1>4 DEF RemovalAnswered
    <3> HIDE DEF state
    <3> QED
      BY <3>1, <3>2
  <2> DEFINE panel == [tab.panel EXCEPT !.state = state]
             t == [tab EXCEPT !.rowReq = None, !.pending = FALSE, !.panel = panel]
  <2>2. PanelTyped(panel)
    BY <1>3, <2>1 DEF PanelTyped, IsPanel
  <2>3. (\E how : Becomes(Gone(tab, how, overtaken))) \/ Becomes(t)
    BY <2>1
  <2> HIDE DEF panel
  <2>4. FieldsOK(t) /\ Same(tab, t, {"live", "queries"}) /\ t.form = tab.form
    BY <1>1, <2>2 DEF FieldsOK, IsTab, TabField, Same
  <2> HIDE DEF t
  <2> QED
    BY <1>1, <1>2, <2>3, <2>4, GoneScreen, SameReady, ReadyBecomes
<1>5. CASE CheckAnswered(answer, overtaken)
  <2>1. PICK check :
          \/ Becomes(Gone(tab, "unavailable", overtaken))
          \/ Becomes([tab EXCEPT !.rowReq = None, !.panel.check = check])
    BY <1>5 DEF CheckAnswered
  <2> DEFINE panel == [tab.panel EXCEPT !.check = check]
             t == [tab EXCEPT !.rowReq = None, !.panel = panel]
  <2>2. PanelTyped(panel)
    BY <1>3 DEF PanelTyped, IsPanel
  <2>3. (\E how : Becomes(Gone(tab, how, overtaken))) \/ Becomes(t)
    BY <2>1
  <2> HIDE DEF panel
  <2>4. FieldsOK(t) /\ Same(tab, t, {"live", "queries"}) /\ t.form = tab.form
    BY <1>1, <2>2 DEF FieldsOK, IsTab, TabField, Same
  <2> HIDE DEF t
  <2> QED
    BY <1>1, <1>2, <2>3, <2>4, GoneScreen, SameReady, ReadyBecomes
<1> QED
  BY <1>4, <1>5

\* What the effects of a view ask for, and that they ask for the page they are of.
LEMMA CacheEffectsAsk ==
  ASSUME NoneIsNoRecord, NEW t, Core(t), OneEntry(t), FieldsOK(t)
  PROVE  LET u == CacheEffects(t) IN
         /\ u.form = t.form /\ HasEntry(u)
         /\ \A key \in QueryKey : Asked(t.queries[key], u.queries[key])
<1> DEFINE left == {key \in QueryKey : /\ t.queries[key] # None /\ key # Key(t.shown)
                                       /\ key = Key(t.live) \/ t.shown.gen # t.live.gen}
           queries == [key \in QueryKey |->
                         IF key \in left THEN None
                         ELSE IF key = Key(t.shown) THEN Started(t.queries[key])
                         ELSE t.queries[key]]
           moved == [t EXCEPT !.live = t.shown, !.queries = queries]
           u == Heard(moved, left, "cancelled", None)
<1>1. CacheEffects(t) = u
  BY DEF CacheEffects
<1>2. ASSUME NEW key \in QueryKey
      PROVE  \/ key = Key(t.shown) /\ queries[key] = Started(t.queries[key])
             \/ key # Key(t.shown) /\ queries[key] = None
  BY DEF OneEntry
<1>3. CacheOK(queries)
  <2>1. \A key \in QueryKey : OfItsKey(key, None)
    BY DEF OfItsKey
  <2>2. \A key \in QueryKey : OfItsKey(key, queries[key])
    BY <2>1, StartedIsOfItsKey DEF Core, CacheOK
  <2> QED
    BY <2>2 DEF CacheOK
<1> HIDE DEF queries, left
<1>4. ReadsAreOf(queries, t.shown.gen)
  <2>1. \A key \in QueryKey : queries[key] # None => key = Key(t.shown)
    BY <1>2
  <2> QED
    BY <2>1, KeyIsAKey DEF Core, ReadsAreOf
<1>5. /\ IsTab(moved) /\ moved.queries = queries /\ moved.live = t.shown /\ moved.shown = t.shown
      /\ moved.form = t.form
  BY DEF Core, IsTab, TabField
<1> HIDE DEF moved
<1>6. Core(moved)
  BY <1>3, <1>4, <1>5 DEF Core
<1>7. Follows(moved, u) /\ Same(moved, u, Untouched)
  BY <1>6, HeardFollows, HeardEffect
<1> HIDE DEF u
<1>8. u.form = t.form /\ u.live = t.shown
  BY <1>5, <1>7 DEF Same, Untouched
<1>9. \A key \in QueryKey : t.queries[key] # None => IsQuery(t.queries[key])
  BY DEF Core, CacheOK, OfItsKey
<1>10. \A key \in QueryKey : Asked(t.queries[key], queries[key])
  BY <1>2, <1>9, StartedIsAskedFor DEF Asked
<1>11. ASSUME NEW key \in QueryKey PROVE Asked(t.queries[key], u.queries[key])
  <2> DEFINE q == t.queries[key]
             r == queries[key]
             w == u.queries[key]
  <2>1. Asked(q, r) /\ Asked(r, w)
    BY <1>5, <1>7, <1>10 DEF Follows
  <2> HIDE DEF q, r, w
  <2>2. Asked(q, w)
    BY <2>1 DEF Asked
  <2> QED
    BY <2>2 DEF q, w
<1>12. HasEntry(u)
  <2>1. SUFFICES ASSUME t.shown.gen # 0 PROVE u.queries[Key(t.shown)] # None
    BY <1>8 DEF HasEntry
  <2>2. Key(t.shown) \in QueryKey
    BY <2>1 DEF FieldsOK, View, Key, QueryKey
  <2>3. queries[Key(t.shown)] # None
    BY <1>2, <1>9, <2>2, StartedIsAskedFor
  <2> QED
    BY <1>5, <1>7, <2>2, <2>3 DEF Follows
<1> QED
  BY <1>1, <1>8, <1>11, <1>12

LEMMA RunEffectsScreen == ASSUME NoneIsNoRecord, ScreenInv, RunEffects PROVE ScreenKept
<1> DEFINE u == CacheEffects(tab)
           formed == [u EXCEPT !.form = NewForm, !.formReq = None]
           new == [formed EXCEPT !.editing = 0, !.removing = 0, !.pending = FALSE,
                                 !.settled = {}, !.notice = "", !.gone = {}]
<1>1. Becomes(IF tab.shown.gen = tab.live.gen THEN u ELSE new)
  BY DEF RunEffects, AfterEffects, PageForNewIdentity, FormForNewIdentity
<1>2. /\ Core(tab) /\ OneEntry(tab) /\ ScreenReady(tab, server) /\ FieldsOK(tab) /\ server' = server
  BY DEF RunEffects, ScreenInv, CheckInv, RemovalInv, Apart, RemovalOK, RemovalReady, RemovalPart,
         ScreenReady
<1>3. /\ u.form = tab.form /\ HasEntry(u) /\ FieldsOK(u)
      /\ \A key \in QueryKey : Asked(tab.queries[key], u.queries[key])
  BY <1>2, CacheEffectsAsk, CacheEffectsFields
<1> HIDE DEF u
<1>4. EntriesOK(u)
  BY <1>2, <1>3, AskedKeeps DEF ScreenReady, EntriesOK
<1>5. ScreenReady(u, server)
  BY <1>2, <1>3, <1>4 DEF ScreenReady
<1>6. CASE tab.shown.gen = tab.live.gen
  BY <1>1, <1>2, <1>5, <1>6, ReadyBecomes
<1>7. CASE tab.shown.gen # tab.live.gen
  <2>1. FieldsOK(formed) /\ Same(u, formed, {"live", "queries"}) /\ formed.form = NewForm
    BY <1>3, NewFormsAreTyped DEF FieldsOK, IsTab, TabField, Same
  <2> HIDE DEF formed
  <2>2. FieldsOK(new) /\ Same(formed, new, {"live", "queries"}) /\ new.form = NewForm
    BY <2>1 DEF FieldsOK, IsTab, TabField, Same
  <2>3. Becomes(new)
    BY <1>1, <1>7
  <2> HIDE DEF new
  <2>4. ~IsSaved(NewForm)
    BY DEF IsSaved, NewForm
  <2>5. Same(u, new, {"live", "queries"})
    BY <2>1, <2>2 DEF Same
  <2>6. ScreenReady(new, server)
    BY <1>5, <2>2, <2>4, <2>5, SameReady
  <2> QED
    BY <1>2, <2>3, <2>6, ReadyBecomes
<1> QED
  BY <1>6, <1>7

-----------------------------------------------------------------------------
(* Reads, and the server. *)

\* A page that arrives is from after every save reported meanwhile; a read that fails says so.
LEMMA ListAnswersScreen ==
  ASSUME NoneIsNoRecord, ScreenInv, NEW key \in QueryKey, NEW answer \in ListAnswer,
         ListAnswers(key, answer)
  PROVE  ScreenKept
<1> DEFINE query == tab.queries[key]
           ok == ListWallets(answer).code = ""
           snap == IF ok THEN query.fetch.snap ELSE None
           now == [query EXCEPT !.fetch = None, !.failed = ~ok, !.data = IF ok THEN snap ELSE @,
                                !.after = IF ok THEN {entry.id : entry \in tab.settled} ELSE @]
           arrived == [tab EXCEPT !.queries[key] = now]
           outcome == IF ok THEN "ok" ELSE "failed"
           heard == Heard(arrived, {key}, outcome, snap)
           collected == Collected(heard)
<1>1. /\ query # None /\ query.fetch # None /\ Becomes(collected)
      /\ answer.status = 200 => query.fetch.snap # None
      /\ server' = server
  BY DEF ListAnswers
<1>2. Core(tab) /\ ScreenReady(tab, server) /\ FieldsOK(tab) /\ FetchOK(query, tab.form)
  BY DEF ScreenInv, CheckInv, RemovalInv, Apart, ScreenReady, EntriesOK
<1>3. OfItsKey(key, now) /\ now # None /\ now.fetch = None
      /\ (ok => now.data = query.fetch.snap) /\ (~ok => now.failed)
  <2>1. /\ IsQuery(query) /\ query.data # None => query.data.by = key[1]
        /\ ok /\ snap # None => snap.by = key[1]
    BY <1>1, <1>2 DEF Core, CacheOK, OfItsKey
  <2>2. IsQuery(query)
    BY <1>1, <1>2 DEF Core, CacheOK, OfItsKey
  <2>3. ok => snap = query.fetch.snap
    OBVIOUS
  <2>4. PICK after :
          now = [query EXCEPT !.fetch = None, !.failed = ~ok, !.data = IF ok THEN snap ELSE @,
                              !.after = after]
    BY Zenon
  <2> HIDE DEF ok, snap, now, query
  <2>5. now = [data |-> IF ok THEN snap ELSE query.data, failed |-> ~ok, after |-> after,
               fetch |-> None]
    BY <2>2, <2>4 DEF IsQuery
  <2>6. IsQuery(now) /\ now.fetch = None /\ now.data = IF ok THEN snap ELSE query.data
    BY <2>5 DEF IsQuery
  <2>7. ~ok => now.failed
    BY <2>5
  <2>8. now # None
    BY <2>6, RecordIsNotNone DEF IsQuery
  <2> QED
    BY <2>1, <2>2, <2>3, <2>6, <2>7, <2>8 DEF OfItsKey
<1>4. ok => query.fetch.snap # None
  BY <1>1, PagesAreAnswered, Zenon
<1>5. outcome = "ok" => Repairs(snap)
  <2>1. outcome = "ok" => ok
    OBVIOUS
  <2>2. ok => Repairs(query.fetch.snap)
    BY <1>1, <1>2, <1>4 DEF FetchOK
  <2> QED
    BY <2>1, <2>2
<1>6. FetchOK(now, tab.form) /\ RowsOK(now, tab.form)
  <2> HIDE DEF ok, now, query
  <2> QED
    BY <1>1, <1>2, <1>3, <1>4 DEF FetchOK, RowsOK
<1> HIDE DEF now, ok, snap, outcome
<1>7. Core(arrived)
  BY <1>1, <1>2, <1>3, WrittenKeeps
<1> DEFINE queries == [tab.queries EXCEPT ![key] = now]
<1>8. arrived = [tab EXCEPT !.queries = queries]
  OBVIOUS
<1>9. queries[key] = now /\ \A other \in QueryKey : other # key => queries[other] = tab.queries[other]
  BY <1>2 DEF Core, CacheOK
<1> HIDE DEF arrived, queries
<1>10. arrived.queries = queries /\ arrived.form = tab.form /\ arrived.live = tab.live
  BY <1>2, <1>8 DEF Core, IsTab, TabField
<1>11. FieldsOK(arrived)
  BY <1>2, <1>8, WrittenFields
<1>12. EntriesOK(arrived)
  <2>1. SUFFICES ASSUME NEW other \in QueryKey
                 PROVE  FetchOK(queries[other], tab.form) /\ RowsOK(queries[other], tab.form)
    BY <1>10 DEF EntriesOK
  <2> QED
    BY <1>2, <1>6, <1>9 DEF ScreenReady, EntriesOK
<1>13. HasEntry(arrived)
  <2>1. tab.live.gen # 0 => Key(tab.live) \in QueryKey /\ tab.queries[Key(tab.live)] # None
    BY <1>2 DEF ScreenReady, HasEntry, FieldsOK, View, Key, QueryKey
  <2> QED
    BY <1>3, <1>9, <1>10, <2>1 DEF HasEntry
<1>14. ScreenReady(arrived, server)
  BY <1>2, <1>10, <1>11, <1>12, <1>13 DEF ScreenReady
<1>15. Core(heard) /\ FieldsOK(heard) /\ Follows(arrived, heard) /\ Same(arrived, heard, Untouched)
  BY <1>5, <1>7, <1>11, HeardKeeps, HeardFields, HeardFollows, HeardEffect
<1> HIDE DEF heard
<1>16. heard.form = arrived.form
  BY <1>15 DEF Same, Untouched
<1>17. FieldsOK(collected) /\ Follows(heard, collected) /\ collected.form = heard.form
  <2>1. PICK read : collected = [heard EXCEPT !.queries = read]
    BY Zenon DEF Collected
  <2> HIDE DEF collected
  <2>2. collected.form = heard.form
    BY <1>15, <2>1 DEF Core, IsTab, TabField
  <2> QED
    BY <1>15, <2>2, CollectedFields, CollectedFollows DEF Core, collected
<1> HIDE DEF collected
<1>18. ScreenReady(collected, server)
  BY <1>14, <1>15, <1>16, <1>17, FollowsOnwards, FollowsReady
<1> QED
  BY <1>1, <1>18, ReadyBecomes

LEMMA RetryListScreen == ASSUME NoneIsNoRecord, ScreenInv, RetryList PROVE ScreenKept
<1> DEFINE key == Key(tab.shown)
           q == Started(tab.queries[key])
           queries == [tab.queries EXCEPT ![key] = q]
           t == [tab EXCEPT !.queries = queries]
<1>1. tab.shown = tab.live /\ tab.shown.gen # 0 /\ Becomes(t) /\ server' = server
  BY DEF RetryList, Press
<1>2. Core(tab) /\ ScreenReady(tab, server) /\ FieldsOK(tab)
  BY DEF ScreenInv, CheckInv, RemovalInv, Apart, ScreenReady
<1>3. key \in QueryKey
  BY <1>1, <1>2 DEF FieldsOK, View, Key, QueryKey
<1>4. tab.queries[key] # None => IsQuery(tab.queries[key])
  BY <1>2, <1>3 DEF Core, CacheOK, OfItsKey
<1> HIDE DEF key
<1>5. Asked(tab.queries[key], q) /\ q # None
  BY <1>4, StartedIsAskedFor
<1> HIDE DEF q
<1>6. queries[key] = q /\ \A other \in QueryKey : other # key => queries[other] = tab.queries[other]
  BY <1>2, <1>3 DEF Core, CacheOK
<1> HIDE DEF queries
<1>7. t.live = tab.live /\ t.form = tab.form /\ t.queries = queries
  BY <1>2 DEF Core, IsTab, TabField
<1>8. FieldsOK(t)
  BY <1>2, WrittenFields
<1> HIDE DEF t
<1>9. Follows(tab, t)
  BY <1>5, <1>6, <1>7 DEF Follows, Asked
<1> QED
  BY <1>1, <1>2, <1>7, <1>8, <1>9, FollowsReady, ReadyBecomes

\* A statement of a read sees the present rows, which are from after every save that is
\* reported, and whatever it has counted names a page somebody may ask for.
LEMMA ReadsListScreen ==
  ASSUME NoneIsNoRecord, ScreenInv, NEW key \in QueryKey, ReadsList(key)
  PROVE  ScreenKept
<1>1. /\ Core(tab) /\ ScreenReady(tab, server) /\ FieldsOK(tab) /\ FormGone(tab)
      /\ ServerOK(server)
  BY DEF ScreenInv, CheckInv, RemovalInv, Apart, ScreenReady
<1>2. /\ tab.queries[key] # None /\ tab.queries[key].fetch # None /\ server' = server
      /\ \E snap, total : Reads(key, snap, total)
  BY ReadsListEffect
<1> PICK snap, total : Reads(key, snap, total)
  BY <1>2
<1> DEFINE q == [tab.queries[key] EXCEPT !.fetch = [snap |-> snap, total |-> total]]
           queries == [tab.queries EXCEPT ![key] = q]
<1>3. tab' = [tab EXCEPT !.queries = queries]
  BY <1>1, <1>2 DEF Core, CacheOK, Reads
<1>4. /\ total \in Counts
      /\ snap # None => snap.version = server.version /\ Repairs(snap)
  <2>1. Cardinality(DOMAIN server.rows) \in Counts
    BY <1>1, RowsAreCounted DEF ServerOK
  <2>2. tab.queries[key].fetch.total # None => tab.queries[key].fetch.total \in Counts
    BY <1>1, <1>2 DEF ScreenReady, EntriesOK, FetchOK
  <2>3. total \in Counts
    BY <2>1, <2>2 DEF Reads
  <2> QED
    BY <2>3, ATotalNamesAPage DEF Reads
<1>5. q # None /\ q.fetch # None /\ q.fetch.snap = snap /\ q.fetch.total = total
  <2>1. /\ IsQuery(q) /\ q.fetch = [snap |-> snap, total |-> total]
        /\ q.fetch.snap = snap /\ q.fetch.total = total
    BY <1>1, <1>2 DEF Core, CacheOK, OfItsKey, IsQuery
  <2> HIDE DEF q
  <2> QED
    BY <2>1, RecordIsNotNone, AskingIsNotNone DEF IsQuery
<1> HIDE DEF q
<1>6. queries[key] = q /\ \A other \in QueryKey : other # key => queries[other] = tab.queries[other]
  BY <1>1 DEF Core, CacheOK
<1> HIDE DEF queries
<1>7. /\ tab'.queries = queries /\ tab'.shown = tab.shown /\ tab'.live = tab.live
      /\ tab'.form = tab.form
  BY <1>1, <1>3 DEF Core, IsTab, TabField
<1>8. FieldsOK(tab')
  BY <1>1, <1>3, WrittenFields
<1>9. FetchOK(q, tab.form) /\ RowsOK(q, tab.form)
  <2>1. IsSaved(tab.form) /\ snap # None => snap.version >= tab.form.version
    BY <1>1, <1>4 DEF ScreenReady, SavedBefore, ServerOK
  <2> QED
    BY <1>4, <1>5, <2>1 DEF FetchOK, RowsOK
<1>10. EntriesOK(tab')
  <2>1. SUFFICES ASSUME NEW other \in QueryKey
                 PROVE  FetchOK(queries[other], tab.form) /\ RowsOK(queries[other], tab.form)
    BY <1>7 DEF EntriesOK
  <2> QED
    BY <1>1, <1>6, <1>9 DEF ScreenReady, EntriesOK
<1>11. HasEntry(tab')
  <2>1. tab.live.gen # 0 => Key(tab.live) \in QueryKey /\ tab.queries[Key(tab.live)] # None
    BY <1>1 DEF ScreenReady, HasEntry, FieldsOK, View, Key, QueryKey
  <2> QED
    BY <1>5, <1>6, <1>7, <2>1 DEF HasEntry
<1>12. SavedBefore(tab'.form, server')
  BY <1>1, <1>2, <1>7 DEF ScreenReady
<1>13. FormGone(tab')
  BY <1>1, <1>7 DEF FormGone
<1> QED
  BY <1>8, <1>10, <1>11, <1>12, <1>13 DEF ScreenKept, ScreenReady

LEMMA ServesScreen == ASSUME NoneIsNoRecord, ScreenInv, Serves PROVE ScreenKept
<1>1. CASE \E key \in QueryKey : ReadsList(key)
  BY <1>1, ReadsListScreen
<1>2. CASE (\E reply \in Replies : ServeCreate(reply) \/ ServeRow(reply)) \/ LateWrite
  <2>1. /\ Core(tab) /\ ScreenReady(tab, server) /\ FieldsOK(tab) /\ FormGone(tab)
        /\ ServerOK(server)
    BY DEF ScreenInv, CheckInv, RemovalInv, Apart, ScreenReady
  <2>2. ServerOK(server') /\ Later(server, server')
    BY <1>2, <2>1, InsertIsLater, UpdateIsLater, DeleteIsLater, LaterIsReflexive
    DEF ServeCreate, CreateHandler, ServeRow, RowHandler, LateWrite
  <2>3. IsTab(tab') /\ Same(tab, tab', Fields \union {"queries"})
    <3>1. CASE \E reply \in Replies : ServeCreate(reply)
      <4>1. PICK req : tab' = [tab EXCEPT !.formReq = req]
        BY <3>1 DEF ServeCreate
      <4> QED
        BY <2>1, <4>1 DEF Core, IsTab, TabField, Same, Fields
    <3>2. CASE \E reply \in Replies : ServeRow(reply)
      <4>1. PICK req : tab' = [tab EXCEPT !.rowReq = req]
        BY <3>2 DEF ServeRow
      <4> QED
        BY <2>1, <4>1 DEF Core, IsTab, TabField, Same, Fields
    <3>3. CASE LateWrite
      BY <2>1, <3>3 DEF LateWrite, Core, Same
    <3> QED
      BY <1>2, <3>1, <3>2, <3>3
  <2>4. /\ tab'.queries = tab.queries /\ tab'.shown = tab.shown /\ tab'.live = tab.live
        /\ tab'.form = tab.form /\ Same(tab, tab', Fields)
    BY <2>3 DEF Same, Fields
  <2>5. FieldsOK(tab')
    BY <2>1, <2>3, <2>4, SameFields
  <2>6. SavedBefore(tab.form, server')
    BY <2>1, <2>2 DEF ScreenReady, SavedBefore, Later, ServerOK
  <2> QED
    BY <2>1, <2>4, <2>5, <2>6 DEF ScreenKept, ScreenReady, EntriesOK, HasEntry, FormGone
<1> QED
  BY <1>1, <1>2 DEF Serves, ReadsList

LEMMA PageNextScreen == ASSUME NoneIsNoRecord, ScreenInv, PageNext PROVE ScreenKept
<1>1. CASE FormPresses
  BY <1>1, QuietPressScreen, CheckListScreen DEF FormPresses, QuietPress, PlainPress
<1>2. CASE EditorPresses
  BY <1>2, QuietPressScreen, ReadBackScreen DEF EditorPresses, QuietPress, PlainPress
<1>3. CASE PanelPresses
  BY <1>3, QuietPressScreen DEF PanelPresses, QuietPress, PlainPress
<1>4. CASE PagePresses
  BY <1>4, QuietPressScreen, RetryListScreen DEF PagePresses, QuietPress, PlainPress
<1>5. CASE ListEnds
  BY <1>5, ListAnswersScreen DEF ListEnds
<1>6. CASE RowAnswers
  BY <1>6, LabelAnsweredScreen, RowAnswersScreen DEF RowAnswers
<1>7. CASE CreateAnswers
  BY <1>7, CreateAnsweredScreen DEF CreateAnswers
<1>8. CASE SessionChanges
  BY <1>8, QuietPressScreen DEF QuietPress
<1> QED
  BY <1>1, <1>2, <1>3, <1>4, <1>5, <1>6, <1>7, <1>8, ServesScreen, RunEffectsScreen DEF PageNext

LEMMA InitScreen == ASSUME PageInit PROVE ScreenReady(tab, server) /\ FormGone(tab)
<1>1. /\ IsTab(tab) /\ tab.shown = [gen |-> 1, page |-> 1] /\ tab.live = [gen |-> 0, page |-> 1]
      /\ tab.editing = 0 /\ tab.removing = 0 /\ tab.pending = FALSE /\ tab.settled = {}
      /\ tab.form = NewForm /\ tab.editor = None /\ tab.panel = None
      /\ \A key \in QueryKey : tab.queries[key] = None
  BY DEF PageInit, IsTab, TabField
<1>2. tab.shown \in View /\ tab.live \in View
  BY <1>1, WalletAssumption DEF View, Generation
<1>3. FieldsOK(tab)
  BY <1>1, <1>2, NewFormsAreTyped DEF FieldsOK
<1>4. ~IsSaved(tab.form)
  BY <1>1 DEF IsSaved, NewForm
<1>5. EntriesOK(tab)
  BY <1>1 DEF EntriesOK, FetchOK, RowsOK
<1> QED
  BY <1>1, <1>3, <1>4, <1>5 DEF ScreenReady, SavedBefore, HasEntry, FormGone

LEMMA ScreenInvHolds == ASSUME NoneIsNoRecord PROVE Spec => []ScreenInv
<1> DEFINE Screened == ScreenReady(tab, server) /\ FormGone(tab)
<1>1. Init => Screened
  BY InitScreen DEF Init
<1>2. CheckInv /\ Screened /\ [Next]_vars => Screened'
  <2>1. ASSUME ScreenInv, [Next]_vars PROVE ScreenKept
    <3>1. CASE UNCHANGED pageVars
      BY <2>1, <3>1 DEF pageVars, ScreenInv, ScreenKept
    <3>2. CASE PageStep
      BY <2>1, <3>2, PageNextScreen DEF PageStep
    <3> QED
      BY <2>1, <3>1, <3>2 DEF Next, CallStep, OpenScreen, vars
  <2> QED
    BY <2>1 DEF ScreenInv, ScreenKept
<1> HIDE DEF Screened
<1>3. Spec => []Screened
  BY <1>1, <1>2, CheckInvHolds, PTL DEF Spec
<1>4. CheckInv /\ Screened => ScreenInv
  BY DEF ScreenInv, Screened
<1> QED
  BY <1>3, <1>4, CheckInvHolds, PTL

\* What the tab shows and remembers has its type; the page on screen is one somebody may
\* ask for also after a removal that emptied it, although the total that names that page
\* was counted before the rows were read: WalletsPage.tsx, settleRemoval.
THEOREM PageTypes == ASSUME NoneIsNoRecord PROVE Spec => []PageTypeOK
<1>1. ScreenInv => PageTypeOK
  <2>1. SUFFICES ASSUME ScreenInv PROVE PageTypeOK
    OBVIOUS
  <2>2. FieldsOK(tab) /\ Core(tab)
    BY <2>1 DEF ScreenInv, ScreenReady, CheckInv, RemovalInv, Apart
  <2>3. ASSUME NEW key \in QueryKey, tab.queries[key] # None, tab.queries[key].fetch # None,
               tab.queries[key].fetch.snap # None
        PROVE  tab.queries[key].fetch.snap.by \in Generation
    <3>1. tab.queries[key].fetch.snap.by = key[1]
      BY <2>2, <2>3 DEF Core, CacheOK, OfItsKey
    <3> QED
      BY <3>1 DEF QueryKey
  <2> QED
    BY <2>2, <2>3 DEF PageTypeOK, FieldsOK, FormTyped, EditorTyped, PanelTyped
<1> QED
  BY <1>1, ScreenInvHolds, PTL

\* Beside a save confirmation, the page that has been read is one from after the save: the
\* confirmation and the request for every page of the identity are one step, and no read
\* answered before it is taken for the page: walletQueries.ts, refreshWalletLists.
THEOREM ASaveIsShown == ASSUME NoneIsNoRecord PROVE Spec => []SaveIsOnThePage
<1>1. ScreenInv => SaveIsOnThePage
  <2> DEFINE query == tab.queries[Key(tab.shown)]
  <2>1. SUFFICES ASSUME ScreenInv, tab.form.status = "saved", tab.shown = tab.live,
                        query.fetch = None, ~query.failed
                 PROVE  query.data.version >= tab.form.version
    BY DEF SaveIsOnThePage
  <2>2. ScreenReady(tab, server) /\ FieldsOK(tab) /\ IsSaved(tab.form) /\ tab.shown.gen # 0
    BY <2>1 DEF ScreenInv, ScreenReady, FormGone, IsSaved
  <2>3. Key(tab.shown) \in QueryKey
    BY <2>2 DEF FieldsOK, View, Key, QueryKey
  <2>4. query # None /\ RowsOK(query, tab.form)
    BY <2>1, <2>2, <2>3 DEF ScreenReady, HasEntry, EntriesOK
  <2> QED
    BY <2>1, <2>2, <2>4 DEF RowsOK
<1> QED
  BY <1>1, ScreenInvHolds, PTL
=============================================================================
