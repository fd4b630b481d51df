----------------------------- MODULE AuthSession -----------------------------
(***************************************************************************)
(* The sign-in state of the browser tabs of one user agent                 *)
(* (src/frontend/src/auth): the AuthProvider of every tab, the credential  *)
(* they share in localStorage, the storage notifications between them, and *)
(* the session table of the server behind /auth and /users/me.             *)
(*                                                                         *)
(* JavaScript runs one task at a time, so a handler is one action up to its*)
(* next await. The code tells operations apart by a generation number that *)
(* every change of identity raises; a request in flight carries a flag     *)
(* here, "current", which the same changes take away. A notification is a  *)
(* count, because its handler reads the store again. An aborted request    *)
(* may still deliver an answer it had already.                             *)
(*                                                                         *)
(* Not modelled: registration, logoutProblem, the memory-only fallback for *)
(* a blocked localStorage, and a sign-in whose answer is lost, which       *)
(* leaves a session on the server no tab knows of. Bounds: the tokens the  *)
(* server issues, and MaxInFlight requests of a tab.                       *)
(***************************************************************************)
EXTENDS Integers, FiniteSets

CONSTANTS
    Tab, Token, User,
    None,               \* no credential, no user
    UserOf,             \* [Token -> User]: user_sessions.user_id
    NoticesMayBeLate,   \* may an answer or a click overtake a notification
    MaxInFlight

ASSUME AuthAssumption ==
    /\ None \notin Token \cup User
    /\ UserOf \in [Token -> User]
    /\ NoticesMayBeLate \in BOOLEAN
    /\ MaxInFlight \in Nat

VARIABLES
    sessions,   \* user_sessions: the tokens the server accepts
    issued,     \* every token the server has issued
    shared,     \* the credential in localStorage, or None
    notices,    \* storage events not yet delivered, per tab
    tab,        \* the provider of every tab
    ops         \* the requests of every tab that are in flight

vars == <<sessions, issued, shared, notices, tab, ops>>

Stage == {"unmounted", "rendered", "mounted"}
Status == {"restoring", "anonymous", "authenticated", "unavailable"}
NoData == [token |-> None, user |-> None]

\* cred is credentialRef, announced the last value the storage module reported
\* or wrote, data the DataSession, user that of the session.
Provider == [stage : Stage, status : Status, user : User \cup {None},
             cred : Token \cup {None}, announced : Token \cup {None},
             data : [token : Token, user : User] \cup {NoData}]

Unmounted == [stage |-> "unmounted", status |-> "anonymous", user |-> None, cred |-> None,
              announced |-> None, data |-> NoData]

\* "login" is the POST of a sign-in and "me" its identity check. boundary is the
\* shared credential a sign-in that is current started from. A token the server no longer accepts
\* never becomes valid again, so a request may be answered with success exactly
\* when its token was accepted as it was sent, and with a 401 once it is not.
Op == [kind : {"validate", "login", "me", "logout", "data"}, current : BOOLEAN,
       token : Token \cup {None}, boundary : Token \cup {None}, accepted : BOOLEAN]

Request(kind, current, token, boundary) ==
    [kind |-> kind, current |-> current, token |-> token, boundary |-> boundary,
     accepted |-> token \in sessions]

AuthInit ==
    /\ sessions = {} /\ issued = {}
    /\ shared = None
    /\ notices = [t \in Tab |-> 0]
    /\ tab = [t \in Tab |-> Unmounted]
    /\ ops = [t \in Tab |-> {}]

-----------------------------------------------------------------------------
(* What a handler does, on the state s of its tab: the provider, the requests, *)
(* and the shared credential.                                                  *)

State(t) == [me |-> tab[t], ops |-> ops[t], shared |-> shared]
Without(t, o) == [State(t) EXCEPT !.ops = @ \ {o}]

\* Every other open document is notified when a step changed the store.
Become(t, s) ==
    /\ tab' = [tab EXCEPT ![t] = s.me]
    /\ ops' = [ops EXCEPT ![t] = s.ops]
    /\ shared' = s.shared
    /\ notices' = IF s.shared = shared THEN notices
                  ELSE [u \in Tab |-> IF u = t \/ tab[u].stage = "unmounted" THEN notices[u]
                                      ELSE notices[u] + 1]

Show(s, status) == [s EXCEPT !.me.status = status, !.me.user = None]
Bind(s, token) == [s EXCEPT !.me.cred = token]
Clear(s) == [s EXCEPT !.shared = None, !.me.announced = None]
WriteUnannounced(s, token) == [s EXCEPT !.shared = token]

Write(s, token) == [s EXCEPT !.shared = token, !.me.announced = token]

EndIdentityKeepingRequests(s) == [s EXCEPT !.me.data = NoData]

\* The boundary of a sign-in matters only while it is current.
EndIdentity(s) ==
    [s EXCEPT !.me.data = NoData,
              !.ops = {[o EXCEPT !.current = FALSE, !.boundary = None] : o \in s.ops}]

\* startIdentity, then the request of the new identity.
StartIdentity(s, kind, token, boundary) ==
    LET ended == EndIdentity(s)
    IN  [ended EXCEPT !.ops = @ \cup {Request(kind, TRUE, token, boundary)}]

SignOut(s) == Show(Bind(EndIdentity(s), None), "anonymous")

RestoreInPlace(s, token) ==
    Show(Bind([s EXCEPT !.ops = @ \cup {Request("validate", TRUE, token, None)}], token),
         "restoring")

Restore(s, token) ==
    Show(Bind(StartIdentity(s, "validate", token, None), token), "restoring")

SyncIgnoringTheMissing(s, value) ==
    CASE value = s.me.cred -> s
      [] value # s.me.cred /\ value = None -> SignOut(s)
      [] value # s.me.cred /\ value # None -> Restore(s, value)

\* The same credential needs nothing, except on a loading screen whose credential
\* has gone: no request is coming for it.
SyncFromStorage(s, value) ==
    CASE value = s.me.cred /\ value = None /\ s.me.status = "restoring" -> Show(s, "anonymous")
      [] value = s.me.cred /\ ~(value = None /\ s.me.status = "restoring") -> s
      [] value # s.me.cred /\ value = None -> SignOut(s)
      [] value # s.me.cred /\ value # None -> Restore(s, value)

UnauthorizedForAnyone(s, sentToken) == Clear(SignOut(s))

\* A 401 ends only the credential it was sent with.
OnUnauthorized(s, sentToken) ==
    IF sentToken = s.me.cred /\ s.shared = sentToken THEN Clear(SignOut(s)) ELSE s

Authenticate(s, token) ==
    [s EXCEPT !.me.status = "authenticated", !.me.user = UserOf[token],
              !.me.data = [token |-> token, user |-> UserOf[token]]]

Reconcile(s) == IF s.me.stage = "mounted" THEN SyncFromStorage(s, s.shared) ELSE s

-----------------------------------------------------------------------------
(* The life of a document, and notifications. *)

ServerUnchanged == UNCHANGED <<sessions, issued>>

\* The first render of a new document reads the store; the subscription comes with
\* the effects.
Render(t) ==
    /\ tab[t].stage = "unmounted" /\ ops[t] = {}
    /\ tab' = [tab EXCEPT ![t] = [Unmounted EXCEPT !.stage = "rendered",
                    !.status = IF shared = None THEN "anonymous" ELSE "restoring"]]
    /\ UNCHANGED <<sessions, issued, shared, notices, ops>>

Subscribe(t) ==
    /\ tab[t].stage = "rendered"
    /\ Become(t, SyncFromStorage([State(t) EXCEPT !.me.stage = "mounted",
                                                  !.me.announced = shared], shared))
    /\ ServerUnchanged

\* The teardown of the provider, or the end of the document: its requests may
\* still be answered.
Unmount(t) ==
    /\ tab[t].stage = "mounted"
    /\ tab' = [tab EXCEPT ![t] = Unmounted]
    /\ ops' = [ops EXCEPT ![t] = EndIdentity(State(t)).ops]
    /\ notices' = [notices EXCEPT ![t] = 0]
    /\ UNCHANGED <<sessions, issued, shared>>

\* One notification: heard by a subscriber only, and dropped when the store holds
\* what this document announced or wrote last.
Deliver(t) ==
    /\ notices[t] > 0
    /\ notices' = [notices EXCEPT ![t] = @ - 1]
    /\ LET heard == tab[t].stage = "mounted" /\ shared # tab[t].announced
           s == SyncFromStorage([State(t) EXCEPT !.me.announced = shared], shared)
       IN  /\ tab' = IF heard THEN [tab EXCEPT ![t] = s.me] ELSE tab
           /\ ops' = IF heard THEN [ops EXCEPT ![t] = s.ops] ELSE ops
    /\ UNCHANGED <<sessions, issued, shared>>

-----------------------------------------------------------------------------
(* What a user does. *)

CanAct(t) ==
    /\ tab[t].stage = "mounted"
    /\ NoticesMayBeLate \/ notices[t] = 0

\* login: the form is shown to whoever is not authenticated (GuestOnly).
Login(t) ==
    /\ CanAct(t) /\ Cardinality(ops[t]) < MaxInFlight
    /\ tab[t].status \in {"anonymous", "unavailable"}
    /\ Become(t, StartIdentity(State(t), "login", None, shared))
    /\ ServerUnchanged

\* The finally block of logout, for a sign-out that is still current.
FinishLogout(s, credential) ==
    LET cleared == IF s.shared \in {credential, None} THEN Clear(s) ELSE s
    IN  Show(IF s.me.cred = credential THEN Bind(cleared, None) ELSE cleared, "anonymous")

\* logout: one at a time (signingOut of ShellLayout). A tab without a credential
\* asks the server nothing.
Logout(t) ==
    LET credential == tab[t].cred
    IN  /\ CanAct(t) /\ Cardinality(ops[t]) < MaxInFlight
        /\ tab[t].status = "authenticated"
        /\ ~\E o \in ops[t] : o.kind = "logout" /\ o.current
        /\ Become(t, IF credential = None THEN FinishLogout(EndIdentity(State(t)), None)
                     ELSE StartIdentity(State(t), "logout", credential, None))
        /\ ServerUnchanged

RetryRestore(t) ==
    /\ CanAct(t) /\ Cardinality(ops[t]) < MaxInFlight
    /\ tab[t].status = "unavailable"
    /\ Become(t, IF shared = None THEN SignOut(State(t)) ELSE Restore(State(t), shared))
    /\ ServerUnchanged

SignOutLocally(t) ==
    /\ CanAct(t)
    /\ tab[t].status = "unavailable"
    /\ Become(t, Clear(SignOut(State(t))))
    /\ ServerUnchanged

\* A data view reads or writes through the capability it was handed.
DataRequest(t) ==
    /\ CanAct(t) /\ Cardinality(ops[t]) < MaxInFlight
    /\ tab[t].data # NoData
    /\ ops' = [ops EXCEPT ![t] = @ \cup {Request("data", FALSE, tab[t].data.token, None)}]
    /\ UNCHANGED <<sessions, issued, shared, notices, tab>>

-----------------------------------------------------------------------------
(* The server. *)

\* A session expires, the purge removes it, or a logout whose answer is still on
\* its way, or lost, has revoked it.
Expire ==
    /\ \E token \in sessions : sessions' = sessions \ {token}
    /\ UNCHANGED <<issued, shared, notices, tab, ops>>

-----------------------------------------------------------------------------
(* Answers. *)

Arrives(t, o) == o \in ops[t] /\ (NoticesMayBeLate \/ notices[t] = 0)

Answered(t, o, kind) == Arrives(t, o) /\ o.kind = kind /\ o.accepted

\* The sign-in may be stored: nobody changed identity or credential meanwhile.
MayStore(o) == o.current /\ shared = o.boundary

\* The server issued a token. A superseded sign-in drops it and follows the store.
LoginAnswered(t, o) ==
    /\ Arrives(t, o) /\ o.kind = "login"
    /\ \E token \in Token \ issued :
        /\ issued' = issued \cup {token}
        /\ sessions' = sessions \cup {token}
        /\ Become(t, IF MayStore(o)
                     THEN LET s == Bind(Write(Without(t, o), token), token)
                              me == [Request("me", TRUE, token, None) EXCEPT !.accepted = TRUE]
                          IN  [s EXCEPT !.ops = @ \cup {me}]
                     ELSE Reconcile(Without(t, o)))

\* The identity check of a sign-in.
MeAnswered(t, o) ==
    /\ Answered(t, o, "me")
    /\ Become(t, CASE ~o.current -> Without(t, o)
                   [] o.current /\ shared # o.token -> Reconcile(Without(t, o))
                   [] o.current /\ shared = o.token -> Authenticate(Without(t, o), o.token))
    /\ ServerUnchanged

ValidateAnswered(t, o) ==
    /\ Answered(t, o, "validate")
    /\ Become(t, IF o.current THEN Authenticate(Without(t, o), o.token) ELSE Without(t, o))
    /\ ServerUnchanged

LogoutAnswered(t, o) ==
    /\ Answered(t, o, "logout")
    /\ Become(t, IF o.current THEN FinishLogout(Without(t, o), o.token) ELSE Without(t, o))
    /\ sessions' = sessions \ {o.token}
    /\ UNCHANGED issued

DataAnswered(t, o) ==
    /\ Answered(t, o, "data")
    /\ Become(t, Without(t, o))
    /\ ServerUnchanged

\* The catch blocks of an operation that is still current, after a 401 or any
\* other failure. One whose identity has ended changes nothing.
Caught(s, o, unauthorized) ==
    CASE o.kind = "me" /\ s.shared = o.token -> Clear(Bind(s, None))
      [] o.kind = "validate" /\ unauthorized ->
            Show(Bind(IF s.shared = o.token THEN Clear(s) ELSE s, None), "anonymous")
      [] o.kind = "validate" /\ ~unauthorized -> Show(s, "unavailable")
      [] o.kind = "logout" -> FinishLogout(s, o.token)
      [] OTHER -> s

\* The unauthorized callback runs first and may end the identity of the request.
Rejected(t, o) ==
    LET acts == o.token = tab[t].cred /\ shared = o.token
        s == OnUnauthorized(Without(t, o), o.token)
    IN  /\ Arrives(t, o) /\ o.kind # "login" /\ o.token \notin sessions
        /\ Become(t, IF o.current /\ ~acts THEN Caught(s, o, TRUE) ELSE s)
        /\ ServerUnchanged

\* No answer: the network, a timeout, an error of the server, or the abort that
\* came with the end of the identity.
Failed(t, o) ==
    /\ Arrives(t, o)
    /\ Become(t, IF o.current THEN Caught(Without(t, o), o, FALSE) ELSE Without(t, o))
    /\ ServerUnchanged

Settle(t, o) ==
    \/ LoginAnswered(t, o) \/ MeAnswered(t, o) \/ ValidateAnswered(t, o)
    \/ LogoutAnswered(t, o) \/ DataAnswered(t, o) \/ Rejected(t, o) \/ Failed(t, o)

-----------------------------------------------------------------------------
UserStep(t) == Login(t) \/ Logout(t) \/ RetryRestore(t) \/ SignOutLocally(t) \/ DataRequest(t)

TabStep(t) ==
    \/ Render(t) \/ Subscribe(t) \/ Unmount(t) \/ Deliver(t)
    \/ UserStep(t)
    \/ \E o \in ops[t] : Settle(t, o)

Next == Expire \/ \E t \in Tab : TabStep(t)

Spec == AuthInit /\ [][Next]_vars

\* Effects run, notifications arrive, and the request an identity waits for is
\* answered or times out.
SettleCurrent(t) == \E o \in ops[t] : o.current /\ Settle(t, o)

FairSpec ==
    /\ Spec
    /\ \A t \in Tab : WF_vars(Subscribe(t)) /\ WF_vars(Deliver(t)) /\ WF_vars(SettleCurrent(t))

-----------------------------------------------------------------------------
(* Properties. *)

\* Types.
AuthTypeOK ==
    /\ sessions \subseteq issued /\ issued \subseteq Token
    /\ shared \in issued \cup {None}
    /\ notices \in [Tab -> Nat]
    /\ tab \in [Tab -> Provider]
    /\ ops \in [Tab -> SUBSET Op]

\* A tab waits for at most one request of its current identity, and the one it
\* waits for carries the credential the tab is bound to.
OneRequestOfTheIdentity ==
    \A t \in Tab : \A o \in ops[t] : o.current =>
        /\ o.kind # "login" => o.token = tab[t].cred
        /\ \A p \in ops[t] : p.current => p = o

\* A screen that shows one user never acts as another: the capability of a tab
\* carries the credential the tab is bound to, both are those of the user the
\* session names, and so is the request it waits for (AuthProvider.tsx,
\* credentialRef and openDataSession).
OneIdentity ==
    /\ OneRequestOfTheIdentity
    /\ \A t \in Tab :
        LET p == tab[t]
        IN  p.stage = "mounted" =>
                /\ p.status = "authenticated" => p.cred # None /\ p.user = UserOf[p.cred]
                /\ p.data # NoData => /\ p.status = "authenticated"
                                      /\ p.data = [token |-> p.cred, user |-> p.user]

\* Nothing a tab hears late removes a credential that is not its own from the
\* store. Only the user can: signing out locally clears whatever is stored.
OnlyOwnCredentialCleared ==
    [][shared # None /\ shared' = None =>
        \E t \in Tab : \/ tab[t].cred = shared /\ tab'[t].cred = None
                       \/ SignOutLocally(t)]_vars

\* A tab that has heard every notification is bound to the stored credential.
TabsFollowTheStore ==
    \A t \in Tab : tab[t].stage = "mounted" /\ notices[t] = 0 => tab[t].cred = shared

\* AuthProvider.tsx: on a sign-out "every other tab is told through the storage
\* notification that it is gone". A tab that has heard every notification shows no
\* session while the store holds no credential.
SignOutIsHeard ==
    \A t \in Tab : tab[t].stage = "mounted" /\ notices[t] = 0 /\ shared = None =>
        tab[t].status # "authenticated"

\* The loading screen always ends.
RestoringEnds == \A t \in Tab : tab[t].status = "restoring" ~> tab[t].status # "restoring"
=============================================================================
