----------------------------- MODULE WalletsPage -----------------------------
(***************************************************************************)
(* The wallets screen of one browser tab: the identity-bound query cache,  *)
(* the create form, the label editor, the removal confirmation and the     *)
(* page that owns them, against a server that may answer late, lose an     *)
(* answer, or carry out a write nobody waits for any more.                 *)
(*                                                                         *)
(* `tab` is everything the tab holds. React draws a new identity or page   *)
(* (`shown`) before it runs the effects that retire the old one (`live`    *)
(* is what they have seen): an answer may land in between. A press cannot, *)
(* React runs pending effects before it handles one.                       *)
(***************************************************************************)
EXTENDS ApiRequest, FiniteSets

CONSTANTS Wallet,         \* ids of saved wallets: newer ones are larger
          Initial,        \* those saved at the start
          PageSize,
          Page,           \* pages of the list somebody may ask for
          MaxGeneration,  \* identities the tab is given (bound of the model)
          MaxPresses,     \* what the user does (bound of the model)
          None

ASSUME WalletAssumption ==
    /\ Wallet \subseteq Nat \ {0} /\ IsFiniteSet(Wallet) /\ Initial \subseteq Wallet
    /\ PageSize \in Nat \ {0} /\ Page \subseteq Nat \ {0} /\ 1 \in Page
    /\ MaxGeneration \in Nat \ {0} /\ MaxPresses \in Nat

\* Somebody may be taken to any page the server can name: one statement of a read counts
\* the rows, the next selects those of the page, and the rows may change in between.
ASSUME PagesAssumption ==
    \A total \in 0..Cardinality(Wallet) : 1..((total + PageSize - 1) \div PageSize) \subseteq Page

VARIABLES server,   \* the rows of the account, and how many writes they have seen
          tab,      \* what the tab shows and remembers
          late,     \* writes on the wire whose caller has gone
          issued,   \* generations handed out
          presses

pageVars == <<server, tab, late, issued, presses>>

Label == {"old", "new"}
Generation == 1..MaxGeneration
View == [gen : Generation \union {0}, page : Page]

KeyOfAccount(view) == <<1, view.page>>
Key(view) == <<view.gen, view.page>>
QueryKey == Generation \X Page

-----------------------------------------------------------------------------
(* The server: newest first, PageSize rows a page.                          *)

Newer(rows, id) == Cardinality({other \in DOMAIN rows : other > id})
RowsOfPage(rows, page) ==
    {id \in DOMAIN rows : Newer(rows, id) \div PageSize = page - 1}

\* The rows of the page as they are now, beside the total counted before.
Snapshot(gen, page, total) ==
    [rows |-> [id \in RowsOfPage(server.rows, page) |-> server.rows[id]],
     total |-> total, version |-> server.version, by |-> gen]

TotalPages(snap) == (snap.total + PageSize - 1) \div PageSize

Without(rows, id) == [other \in DOMAIN rows \ {id} |-> rows[other]]
With(rows, id, label) == [other \in DOMAIN rows \union {id} |-> IF other = id THEN label ELSE rows[other]]

Unsaved == {id \in Wallet \ Initial : id \notin server.created}

InsertRow ==
    \E id \in Unsaved :
        /\ \A other \in Unsaved : id <= other
        /\ server' = [rows |-> With(server.rows, id, "old"), version |-> server.version + 1,
                      created |-> server.created \union {id}]

UpdateRow(write) ==
    /\ write.id \in DOMAIN server.rows
    /\ server' = [server EXCEPT !.rows = With(@, write.id, write.label), !.version = @ + 1]

DeleteRow(write) ==
    /\ write.id \in DOMAIN server.rows
    /\ server' = [server EXCEPT !.rows = Without(@, write.id), !.version = @ + 1]

Answer(status, body) == [status |-> status, body |-> body]

\* What the API answers, and what it does for it. A connection to the database
\* that is lost after the statement took effect is answered 500 like any other.
CreateHandler(reply) ==
    \/ reply = Answer(201, "row") /\ InsertRow
    \/ reply = Answer(409, "RESOURCE_CONFLICT") /\ Unsaved = {} /\ UNCHANGED server
    \/ reply = Answer(503, "SERVICE_UNAVAILABLE") /\ UNCHANGED server
    \/ reply = Answer(500, "INTERNAL_SERVER_ERROR") /\ (InsertRow \/ UNCHANGED server)

RowHandler(request, reply) ==
    \/ request.kind = "get" /\ reply = Answer(200, "row") /\ request.id \in DOMAIN server.rows
       /\ UNCHANGED server
    \/ request.kind = "patch" /\ reply = Answer(200, "row") /\ UpdateRow(request)
    \/ request.kind = "delete" /\ reply = Answer(204, "none") /\ DeleteRow(request)
    \/ reply = Answer(404, "RESOURCE_NOT_FOUND") /\ request.id \notin DOMAIN server.rows
       /\ UNCHANGED server
    \/ reply = Answer(503, "SERVICE_UNAVAILABLE") /\ UNCHANGED server
    \/ reply = Answer(500, "INTERNAL_SERVER_ERROR") /\ request.kind = "patch" /\ UpdateRow(request)
    \/ reply = Answer(500, "INTERNAL_SERVER_ERROR") /\ request.kind = "delete" /\ DeleteRow(request)

\* What may arrive in place of an answer, before or after the API has acted.
Lost == {Answer(0, "TIMEOUT"), Answer(502, "garbled"), Answer(404, "garbled")}
\* What may arrive in place of the API's own success.
Mangled == {Answer(200, "none"), Answer(200, "other row")}

Arrives(request, answer) ==
    \/ answer \in Lost
    \/ request.answer # None /\ answer \in {request.answer} \union Mangled

-----------------------------------------------------------------------------
(* The query cache, as TanStack Query keeps it with gcTime 0 and no retry.  *)

Unread == [data |-> None, failed |-> FALSE, after |-> {}, fetch |-> None]
Asking == [snap |-> None, total |-> None]

\* A fetch that is already running is joined.
Started(query) ==
    IF query = None THEN [Unread EXCEPT !.fetch = Asking]
    ELSE IF query.fetch # None THEN query ELSE [query EXCEPT !.fetch = Asking]

Data(t) ==
    IF Key(t.shown) \notin QueryKey THEN None ELSE IF t.queries[Key(t.shown)] = None THEN None
    ELSE t.queries[Key(t.shown)].data

Drawn(t, id) == Data(t) # None /\ id \in DOMAIN Data(t).rows

\* A check nobody listens to any more still reads.
Unheard(waiters) == {[waiter EXCEPT !.current = FALSE] : waiter \in waiters}

NewEditor == [status |-> "idle", attempt |-> 0, read |-> "idle", found |-> None]
NewPanel == [state |-> "idle", check |-> "idle"]
NewForm == [status |-> "idle", version |-> 0]

RowForms(t) ==
    LET data == Data(t)
    IN  [t EXCEPT
           !.editor = IF t.editing # 0 /\ Drawn(t, t.editing)
                      THEN (IF @ = None THEN NewEditor ELSE @) ELSE None,
           !.panel = IF t.removing # 0 /\ Drawn(t, t.removing)
                     THEN (IF @ = None THEN NewPanel ELSE @) ELSE None]

RetiredNothing(t) == t

\* A page that has arrived without the row an operation was opened for ends the
\* operation, and one read after a removal without its row releases the row.
Retired(t) ==
    LET missing(id) == id # 0 /\ Data(t) # None /\ ~Drawn(t, id)
    IN  [t EXCEPT
           !.editing = IF missing(@) THEN 0 ELSE @,
           !.removing = IF missing(@) THEN 0 ELSE @,
           !.pending = @ /\ ~missing(t.removing),
           !.settled = {entry \in @ :
                ~(/\ Data(t) # None /\ entry.page = t.shown.page
                  /\ entry.id \in t.queries[Key(t.shown)].after
                  /\ ~Drawn(t, entry.id))}]

\* The editor and the confirmation are mounted while their row is on screen. A
\* confirmation mounts idle, and says so. Nothing an unmounted one reads is heard,
\* and what it had on the wire is aborted: by an effect, so a label answered
\* before that effect is still reported.
Mounted(t) ==
    LET opens == t.panel = None /\ t.removing # 0 /\ Drawn(t, t.removing)
        next == [RowForms(t) EXCEPT !.pending = @ /\ ~opens]
        owned == IF t.rowReq = None THEN TRUE
                 ELSE IF t.rowReq.kind = "patch" THEN next.editor # None \/ t.shown # t.live
                 ELSE next.panel # None
    IN  [next EXCEPT
           !.rowReq = IF owned THEN @ ELSE None,
           !.waiters = IF next.editor # None THEN @ ELSE Unheard(@),
           !.form = IF t.shown.gen = 0 THEN NewForm ELSE @]

Rendered(t) == Mounted(Retired(t))

-----------------------------------------------------------------------------
(* Waiting for the list: the check of one row (readBackWallet) and the      *)
(* refresh after a removal (settleRemoval) first wait for the refetch, then *)
(* read the page themselves, and ask after each wait whether the view they  *)
(* were started for is still the one on screen.                             *)

ViewIsCurrent(t, waiter) == t.live = waiter.view

ReadsForAnyView(t, waiter) == waiter.stage = "refreshing"
ReadsOn(t, waiter) == waiter.stage = "refreshing" /\ ViewIsCurrent(t, waiter)

\* What a check that ends reports to its editor.
FoundInCache(t, waiter, outcome, snap) ==
    LET data == t.queries[Key(waiter.view)].data
    IN  IF data # None /\ waiter.id \in DOMAIN data.rows
        THEN [label |-> data.rows[waiter.id], version |-> data.version,
              asked |-> waiter.asked, attempt |-> waiter.attempt]
        ELSE None

Found(t, waiter, outcome, snap) ==
    IF /\ outcome = "ok" /\ waiter.stage = "fetching" /\ ViewIsCurrent(t, waiter)
       /\ waiter.id \in DOMAIN snap.rows
    THEN [label |-> snap.rows[waiter.id], version |-> snap.version,
          asked |-> waiter.asked, attempt |-> waiter.attempt]
    ELSE None

Reported(editor, found, outcome) ==
    [editor EXCEPT !.found = found,
                   !.read = IF found # None THEN "found"
                            ELSE IF outcome = "ok" THEN "idle" ELSE "unreadable"]

\* The end of settleRemoval: the page is repaired if the removal emptied it.
LastPageOfNone(snap) == TotalPages(snap)
LastPage(snap) == IF TotalPages(snap) > 1 THEN TotalPages(snap) ELSE 1

\* The fetches of `keys` have ended: with an answer, an error or a cancellation.
Heard(t, keys, outcome, snap) ==
    LET told == {waiter \in t.waiters : Key(waiter.view) \in keys}
        on == {waiter \in told : ReadsOn(t, waiter)}
        again == {Key(waiter.view) : waiter \in on}
        report == {waiter \in told \ on : waiter.current}
        settles == {waiter \in told \ on : waiter.kind = "settle" /\ waiter.stage = "fetching"
                                            /\ ViewIsCurrent(t, waiter)}
    IN  [t EXCEPT
           !.waiters = (@ \ told) \union {[waiter EXCEPT !.stage = "fetching"] : waiter \in on},
           !.queries = [key \in QueryKey |-> IF key \in again THEN Started(@[key]) ELSE @[key]],
           !.editor = IF @ = None \/ report = {} THEN @
                      ELSE LET waiter == CHOOSE waiter \in report : TRUE
                           IN  Reported(@, Found(t, waiter, outcome, snap), outcome),
           !.notice = IF settles # {} /\ outcome # "ok" THEN "not refreshed" ELSE @,
           !.shown.page = IF settles # {} /\ outcome = "ok" /\ DOMAIN snap.rows = {}
                          THEN LastPage(snap) ELSE @]

\* refreshWalletLists: what the identity has on the wire is cancelled, then every
\* page it holds is asked for again. A check resumed by the cancellation may have
\* its own read cancelled by that second half (`overtaken`).
RefreshForgettingChecks(t, gen, overtaken) ==
    LET keys == {key \in QueryKey : key[1] = gen /\ t.queries[key] # None}
    IN  [t EXCEPT !.queries = [key \in QueryKey |->
                    IF key \in keys THEN [@[key] EXCEPT !.fetch = Asking] ELSE @[key]],
                  !.waiters = {}]

RefreshWithoutCancel(t, gen, overtaken) ==
    [t EXCEPT !.queries = [key \in QueryKey |->
        IF key[1] # gen \/ @[key] = None THEN @[key]
        ELSE IF @[key].data # None THEN [@[key] EXCEPT !.fetch = Asking]
        ELSE Started(@[key])]]

Refresh(t, gen, overtaken) ==
    LET keys == {key \in QueryKey : key[1] = gen /\ t.queries[key] # None}
        running == {key \in keys : t.queries[key].fetch # None}
        asked == [t EXCEPT !.queries = [key \in QueryKey |->
                    IF key \in keys THEN [@[key] EXCEPT !.fetch = Asking] ELSE @[key]]]
        resumed == Heard(asked, running, "cancelled", None)
    IN  IF overtaken THEN Heard(resumed, {key \in running : t.queries[key].data # None}, "cancelled", None)
                     ELSE resumed

-----------------------------------------------------------------------------
PageInit ==
    /\ server = [rows |-> [id \in Initial |-> "old"], version |-> 0, created |-> {}]
    /\ tab = [shown |-> [gen |-> 1, page |-> 1], live |-> [gen |-> 0, page |-> 1],
              queries |-> [key \in QueryKey |-> None],
              form |-> NewForm, formReq |-> None,
              editing |-> 0, removing |-> 0, pending |-> FALSE, settled |-> {}, notice |-> "",
              editor |-> None, panel |-> None, rowReq |-> None,
              waiters |-> {}, gone |-> {}]
    /\ late = {} /\ issued = 1 /\ presses = 0

Unanswered(request) ==
    IF request = None \/ request.kind = "get" \/ request.answer # None THEN {}
    ELSE {[request EXCEPT !.answer = None]}

\* The tab becomes t; a write it no longer waits for stays on the wire.
Becomes(t) ==
    /\ tab' = Rendered(t)
    /\ late' = late \union (IF tab'.formReq = None THEN Unanswered(tab.formReq) ELSE {})
                    \union (IF tab'.rowReq = None THEN Unanswered(tab.rowReq) ELSE {})

Press ==
    /\ presses < MaxPresses /\ presses' = presses + 1
    /\ tab.shown = tab.live /\ tab.shown.gen # 0
    /\ UNCHANGED <<server, issued>>

\* A sign-out, or a sign-in or replacement of the credential, here or in another tab.
SessionChanges ==
    /\ \E gen \in {0, issued + 1} :
        /\ gen <= MaxGeneration /\ gen # tab.shown.gen
        /\ issued' = IF gen = 0 THEN issued ELSE gen
        /\ Becomes([tab EXCEPT !.shown.gen = gen])
    /\ UNCHANGED <<server, presses>>

TurnPage ==
    /\ Press
    /\ \E page \in Page \ {tab.shown.page} : Becomes([tab EXCEPT !.shown.page = page])

\* IdentityCacheGuard and useQuery: nothing is kept or asked for a retired identity,
\* nor for the page that was left, and the page on screen is asked for.
CacheEffects(t) ==
    LET left == {key \in QueryKey : /\ t.queries[key] # None /\ key # Key(t.shown)
                                    /\ key = Key(t.live) \/ t.shown.gen # t.live.gen}
        moved == [t EXCEPT !.live = t.shown,
                    !.queries = [key \in QueryKey |->
                        IF key \in left THEN None
                        ELSE IF key = Key(t.shown) THEN Started(@[key]) ELSE @[key]]]
    IN  Heard(moved, left, "cancelled", None)

FormForNewIdentity(t) == [t EXCEPT !.form = NewForm, !.formReq = None]

PageForNewIdentity(t) ==
    [t EXCEPT !.editing = 0, !.removing = 0, !.pending = FALSE, !.settled = {}, !.notice = "",
              !.gone = {}]

AfterEffects(t) ==
    IF t.shown.gen = t.live.gen THEN CacheEffects(t)
    ELSE PageForNewIdentity(FormForNewIdentity(CacheEffects(t)))

RunEffects ==
    /\ tab.shown # tab.live
    /\ Becomes(AfterEffects(tab))
    /\ UNCHANGED <<server, issued, presses>>

-----------------------------------------------------------------------------
(* Reads of the list: two statements, the count and then the page of rows,  *)
(* and only the count if the page lies past the end.                        *)

CountList(key) ==
    LET fetch == tab.queries[key].fetch
        total == Cardinality(DOMAIN server.rows)
        past == (key[2] - 1) * PageSize >= total
    IN  /\ tab.queries[key] # None /\ fetch # None /\ fetch.total = None
        /\ tab' = [tab EXCEPT !.queries[key].fetch =
                      [snap |-> IF past THEN Snapshot(key[1], key[2], total) ELSE None,
                       total |-> total]]
        /\ UNCHANGED <<server, late, issued, presses>>

ServeList(key) ==
    LET fetch == tab.queries[key].fetch
    IN  /\ tab.queries[key] # None /\ fetch # None
        /\ fetch.snap = None /\ fetch.total # None
        /\ tab' = [tab EXCEPT !.queries[key].fetch =
                      [snap |-> Snapshot(key[1], key[2], fetch.total), total |-> fetch.total]]
        /\ UNCHANGED <<server, late, issued, presses>>

\* An entry nobody observes and nothing fetches is collected.
Collected(t) ==
    [t EXCEPT !.queries = [key \in QueryKey |->
        IF @[key] # None /\ @[key].fetch = None /\ key # Key(t.live) THEN None ELSE @[key]]]

ListAnswers(key, answer) ==
    LET query == tab.queries[key]
        ok == ListWallets(answer).code = ""
        snap == IF ok THEN query.fetch.snap ELSE None
        now == [query EXCEPT !.fetch = None, !.failed = ~ok, !.data = IF ok THEN snap ELSE @,
                             !.after = IF ok THEN {entry.id : entry \in tab.settled} ELSE @]
        arrived == [tab EXCEPT !.queries[key] = now]
    IN  /\ query # None /\ query.fetch # None
        /\ answer.status = 200 => query.fetch.snap # None
        /\ Becomes(Collected(Heard(arrived, {key}, IF ok THEN "ok" ELSE "failed", snap)))
        /\ UNCHANGED <<server, issued, presses>>

ListAnswer == {Answer(200, "page"), Answer(200, "other page"), Answer(0, "TIMEOUT")}

RetryList ==
    /\ Press
    /\ tab.queries[Key(tab.shown)].failed /\ tab.queries[Key(tab.shown)].fetch = None
    /\ Becomes([tab EXCEPT !.queries[Key(tab.shown)] = Started(@)])

-----------------------------------------------------------------------------
(* The create form.                                                         *)

SubmitCreate ==
    /\ Press
    /\ tab.formReq = None
    /\ Becomes([tab EXCEPT !.form = [NewForm EXCEPT !.status = "submitting"],
                           !.formReq = [kind |-> "create", id |-> 0, label |-> "old",
                                        gen |-> tab.shown.gen, answer |-> None]])

\* A draft the form refuses itself ends the previous attempt all the same.
SubmitInvalidDraft ==
    /\ Press
    /\ tab.form.status \in {"failed", "unconfirmed"}
    /\ Becomes([tab EXCEPT !.form = NewForm])

ServeCreate(reply) ==
    /\ tab.formReq # None /\ tab.formReq.answer = None
    /\ CreateHandler(reply)
    /\ tab' = [tab EXCEPT !.formReq.answer = reply]
    /\ UNCHANGED <<late, issued, presses>>

\* This identity's pages are read again and the URL returns to page 1.
HandleSaved(t, gen, overtaken) == [Refresh(t, gen, overtaken) EXCEPT !.shown.page = 1]

CreateAnswered(answer, overtaken) ==
    LET result == CreateWallet(answer)
        settled == [tab EXCEPT !.formReq = None,
                      !.form = [status |-> IF result.code = "" THEN "saved"
                                           ELSE IF IsUnconfirmedWrite(result) THEN "unconfirmed"
                                           ELSE "failed",
                                version |-> server.version]]
    IN  /\ tab.formReq # None
        /\ Arrives(tab.formReq, answer)
        /\ Becomes(IF result.code = "" THEN HandleSaved(settled, tab.formReq.gen, overtaken)
                                        ELSE settled)
        /\ UNCHANGED <<server, issued, presses>>

CheckList(overtaken) ==
    /\ Press
    /\ tab.form.status = "unconfirmed"
    /\ Becomes(Refresh(tab, tab.shown.gen, overtaken))

-----------------------------------------------------------------------------
(* The label editor and the removal confirmation: one row at a time.        *)

RowIsFree(id) == Drawn(tab, id) /\ tab.editing = 0 /\ tab.removing = 0

OpenEditor(id) ==
    /\ Press
    /\ RowIsFree(id)
    /\ Becomes([tab EXCEPT !.editing = id, !.notice = ""])

CloseEditor ==
    /\ Press
    /\ tab.editor # None /\ tab.rowReq = None
    /\ Becomes([tab EXCEPT !.editing = 0])

Ask(kind, id, label) == [kind |-> kind, id |-> id, label |-> label, gen |-> tab.shown.gen, answer |-> None]

SubmitLabelKeepingReads ==
    /\ Press
    /\ tab.editor # None /\ tab.rowReq = None
    /\ Becomes([tab EXCEPT !.rowReq = Ask("patch", tab.editing, "new"),
                           !.editor = [@ EXCEPT !.status = "submitting", !.attempt = @ + 1]])

\* A read of an earlier attempt is retired with its message.
SubmitLabel ==
    /\ Press
    /\ tab.editor # None /\ tab.rowReq = None
    /\ Becomes([tab EXCEPT !.rowReq = Ask("patch", tab.editing, "new"),
                           !.waiters = Unheard(@),
                           !.editor = [NewEditor EXCEPT !.status = "submitting",
                                                        !.attempt = tab.editor.attempt + 1]])

SubmitInvalidLabel ==
    /\ Press
    /\ tab.editor # None /\ tab.rowReq = None
    /\ Becomes([tab EXCEPT !.waiters = Unheard(@),
                           !.editor = [NewEditor EXCEPT !.attempt = tab.editor.attempt]])

HandleUpdated(t, gen, overtaken) ==
    [Refresh(t, gen, overtaken) EXCEPT !.editing = 0, !.notice = "updated"]

LabelAnswered(answer, overtaken) ==
    LET result == UpdateWalletLabel(answer)
        free == [tab EXCEPT !.rowReq = None]
        failed == [free EXCEPT !.editor = IF @ = None THEN None
                                          ELSE [@ EXCEPT !.status = IF IsUnconfirmedWrite(result)
                                                                    THEN "unconfirmed" ELSE "failed"]]
    IN  /\ tab.rowReq # None /\ tab.rowReq.kind = "patch"
        /\ Arrives(tab.rowReq, answer)
        /\ Becomes(IF result.code = "" THEN HandleUpdated(free, tab.rowReq.gen, overtaken)
                                        ELSE failed)
        /\ UNCHANGED <<server, issued, presses>>

\* "Check the list": the row as a request that leaves now finds it.
ReadBack(overtaken) ==
    /\ Press
    /\ tab.editor # None /\ tab.editor.status = "unconfirmed" /\ tab.editor.read # "reading"
    /\ LET check == [kind |-> "check", view |-> tab.shown, id |-> tab.editing, stage |-> "refreshing",
                     current |-> TRUE, asked |-> server.version, attempt |-> tab.editor.attempt]
           told == Refresh([tab EXCEPT !.waiters = Unheard(@)], tab.shown.gen, overtaken)
       IN  Becomes([told EXCEPT !.waiters = @ \union {check},
                                !.editor = [@ EXCEPT !.read = "reading", !.found = None]])

OpenRemoval(id) ==
    /\ Press
    /\ RowIsFree(id) /\ \A entry \in tab.settled : entry.id # id
    /\ Becomes([tab EXCEPT !.removing = id, !.notice = ""])

CancelRemoval ==
    /\ Press
    /\ tab.panel # None /\ tab.rowReq = None
    /\ Becomes([tab EXCEPT !.removing = 0, !.pending = FALSE])

Remove ==
    /\ Press
    /\ tab.panel # None /\ tab.rowReq = None
    /\ Becomes([tab EXCEPT !.rowReq = Ask("delete", tab.removing, "old"), !.pending = TRUE,
                           !.panel = [NewPanel EXCEPT !.state = "removing"]])

Verify ==
    /\ Press
    /\ tab.panel # None /\ tab.rowReq = None /\ tab.panel.state = "unconfirmed"
    /\ Becomes([tab EXCEPT !.rowReq = Ask("get", tab.removing, "old"), !.panel.check = "checking"])

ServeRow(reply) ==
    /\ tab.rowReq # None /\ tab.rowReq.answer = None
    /\ RowHandler(tab.rowReq, reply)
    /\ tab' = [tab EXCEPT !.rowReq.answer = reply]
    /\ UNCHANGED <<late, issued, presses>>

SettleOf(view) == [kind |-> "settle", view |-> view, id |-> 0, stage |-> "refreshing",
                   current |-> FALSE, asked |-> 0, attempt |-> 0]

\* onGone, and settleRemoval up to its first wait.
GoneWithoutMark(t, how, overtaken) ==
    LET closed == [t EXCEPT !.removing = 0, !.pending = FALSE, !.rowReq = None,
                            !.gone = @ \union {t.removing}]
        told == Refresh([closed EXCEPT !.notice = how], t.shown.gen, overtaken)
    IN  IF t.shown # t.live THEN closed
        ELSE [told EXCEPT !.waiters = @ \union {SettleOf(t.shown)}]

Gone(t, how, overtaken) ==
    LET closed == [t EXCEPT !.removing = 0, !.pending = FALSE, !.rowReq = None,
                            !.settled = @ \union {[id |-> t.removing, page |-> t.shown.page]},
                            !.gone = @ \union {t.removing}]
        told == Refresh([closed EXCEPT !.notice = how], t.shown.gen, overtaken)
    IN  IF t.shown # t.live THEN closed
        ELSE [told EXCEPT !.waiters = @ \union {SettleOf(t.shown)}]

RemovalAnswered(answer, overtaken) ==
    LET result == DeleteWallet(answer)
        open == [tab EXCEPT !.rowReq = None, !.pending = FALSE,
                   !.panel.state = IF IsUnconfirmedRemoval(result) THEN "unconfirmed" ELSE "failed"]
    IN  /\ tab.rowReq # None /\ tab.rowReq.kind = "delete"
        /\ Arrives(tab.rowReq, answer)
        /\ Becomes(CASE result.code = "" -> Gone(tab, "removed", overtaken)
                     [] result.code = "RESOURCE_NOT_FOUND" -> Gone(tab, "unavailable", overtaken)
                     [] OTHER -> open)
        /\ UNCHANGED <<server, issued, presses>>

CheckAnswered(answer, overtaken) ==
    LET result == GetWallet(answer)
    IN  /\ tab.rowReq # None /\ tab.rowReq.kind = "get"
        /\ Arrives(tab.rowReq, answer)
        /\ Becomes(IF result.code = "RESOURCE_NOT_FOUND" THEN Gone(tab, "unavailable", overtaken)
                   ELSE [tab EXCEPT !.rowReq = None,
                           !.panel.check = IF result.code = "" THEN "present" ELSE "indeterminate"])
        /\ UNCHANGED <<server, issued, presses>>

\* A write whose caller has gone reaches the server after all, or never does.
LateWrite ==
    /\ \E write \in late :
        /\ late' = late \ {write}
        /\ \/ write.kind = "create" /\ InsertRow
           \/ write.kind = "patch" /\ UpdateRow(write)
           \/ write.kind = "delete" /\ DeleteRow(write)
           \/ UNCHANGED server
    /\ UNCHANGED <<tab, issued, presses>>

-----------------------------------------------------------------------------
Replies == {Answer(200, "row"), Answer(201, "row"), Answer(204, "none"),
            Answer(404, "RESOURCE_NOT_FOUND"), Answer(409, "RESOURCE_CONFLICT"),
            Answer(500, "INTERNAL_SERVER_ERROR"), Answer(503, "SERVICE_UNAVAILABLE")}
Answers == Replies \union Lost \union Mangled

\* The controls of the screen.
FormPresses ==
    SubmitCreate \/ SubmitInvalidDraft \/ \E overtaken \in BOOLEAN : CheckList(overtaken)
EditorPresses ==
    CloseEditor \/ SubmitLabel \/ SubmitInvalidLabel \/ \E overtaken \in BOOLEAN : ReadBack(overtaken)
PanelPresses == CancelRemoval \/ Remove \/ Verify
PagePresses ==
    TurnPage \/ RetryList \/ \E id \in Wallet : OpenEditor(id) \/ OpenRemoval(id)

Serves ==
    \/ \E key \in QueryKey : CountList(key) \/ ServeList(key)
    \/ \E reply \in Replies : ServeCreate(reply) \/ ServeRow(reply)
    \/ LateWrite

ListEnds == \E key \in QueryKey, answer \in ListAnswer : ListAnswers(key, answer)

RowAnswers ==
    \E answer \in Answers, overtaken \in BOOLEAN :
        LabelAnswered(answer, overtaken) \/ RemovalAnswered(answer, overtaken)
        \/ CheckAnswered(answer, overtaken)

CreateAnswers == \E answer \in Answers, overtaken \in BOOLEAN : CreateAnswered(answer, overtaken)

PageNext ==
    \/ FormPresses \/ EditorPresses \/ PanelPresses \/ PagePresses
    \/ Serves \/ ListEnds \/ RowAnswers \/ CreateAnswers \/ SessionChanges \/ RunEffects

-----------------------------------------------------------------------------
(* What the tab shows and remembers has its type.                           *)
PageTypeOK ==
    /\ tab.shown \in View /\ tab.live \in View
    /\ tab.editing \in Wallet \union {0} /\ tab.removing \in Wallet \union {0}
    /\ tab.pending \in BOOLEAN
    /\ \A entry \in tab.settled : entry.id \in Wallet /\ entry.page \in Page
    /\ \A key \in QueryKey : tab.queries[key] = None \/ tab.queries[key].fetch = None
                             \/ tab.queries[key].fetch.snap = None
                             \/ tab.queries[key].fetch.snap.by \in Generation
    /\ tab.form.status \in {"idle", "submitting", "saved", "unconfirmed", "failed"}
    /\ tab.editor = None \/ tab.editor.read \in {"idle", "reading", "found", "unreadable"}
    /\ tab.panel = None \/ tab.panel.state \in {"idle", "removing", "unconfirmed", "failed"}

(* The rows on screen were read with the credential of the identity they    *)
(* are shown to: identityKeys.ts, "never share a cache entry".              *)
RowsOfThePresentedIdentity == Data(tab) # None => Data(tab).by = tab.shown.gen

(* Once the effects of a change of identity have run, nothing reads for the *)
(* retired one: not the fetches it had, and not a check or a refresh that   *)
(* was waiting and goes on (WalletsPage.tsx, readBackWallet).               *)
NoReadForRetiredIdentity ==
    \A key \in QueryKey :
        tab.queries[key] # None /\ tab.queries[key].fetch # None => key[1] = tab.live.gen

(* Two identities of one tab share neither rows nor reads.                  *)
IdentitiesAreApart == RowsOfThePresentedIdentity /\ NoReadForRetiredIdentity

(* Beside a save confirmation, the page that has been read is one from      *)
(* after the save: walletQueries.ts, refreshWalletLists.                    *)
SaveIsOnThePage ==
    LET query == tab.queries[Key(tab.shown)]
    IN  tab.form.status = "saved" /\ tab.shown = tab.live /\ query.fetch = None /\ ~query.failed
            => query.data.version >= tab.form.version

(* What "Check the list" says was read from the server after the press, and *)
(* for the submission it stands under.                                      *)
ReadBackIsFresh ==
    tab.editor # None /\ tab.editor.read = "found" =>
        /\ tab.editor.found.version >= tab.editor.found.asked
        /\ tab.editor.found.attempt = tab.editor.attempt

(* What a user is told is being read is on the wire: a check waits for a    *)
(* running fetch of the page it was asked for, whatever else refreshes,     *)
(* cancels or leaves that page, so the timer of that request ends it.       *)
ChecksAreOnTheWire ==
    tab.editor # None /\ tab.editor.read = "reading" =>
        \E waiter \in tab.waiters :
            /\ waiter.kind = "check" /\ waiter.current
            /\ tab.queries[Key(waiter.view)] # None /\ tab.queries[Key(waiter.view)].fetch # None

(* A record said to be removed, or unavailable, is not on the server.       *)
SettledMeansGone ==
    \A id \in {entry.id : entry \in tab.settled} \union tab.gone : id \notin DOMAIN server.rows

(* With rows on screen, an open operation has its form on screen, so that   *)
(* the disabled actions of the others can be freed, and the page is locked  *)
(* only while a removal is on the wire.                                     *)
NoDeadScreen ==
    Data(tab) # None =>
        /\ tab.editing # 0 => tab.editor # None
        /\ tab.removing # 0 => tab.panel # None
        /\ tab.pending => tab.rowReq # None /\ tab.rowReq.kind = "delete"

(* A record whose removal was confirmed is not deleted again under the same *)
(* identity, whatever the list still shows.                                 *)
NoSecondDelete ==
    [][tab'.rowReq # None /\ tab'.rowReq.kind = "delete" /\ tab'.rowReq # tab.rowReq
         => tab'.rowReq.id \notin tab.gone]_pageVars
=============================================================================
