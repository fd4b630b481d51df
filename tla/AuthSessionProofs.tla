-------------------------- MODULE AuthSessionProofs --------------------------
(***************************************************************************)
(* The identity of every tab, for any number of tabs, tokens, users and    *)
(* requests, with notifications late or not. OneIdentity is not inductive: *)
(* an answer makes a tab authenticated under the token of its request, so  *)
(* the invariant, Sound, says of the request a tab waits for which screen  *)
(* it was asked from, and that the tab holds no capability while it waits. *)
(*                                                                         *)
(* What a tab is bound to follows the store when no notification is late:  *)
(* FollowInv says that a subscriber has reported what it is bound to, so   *)
(* that one without a notification to hear is bound to what is stored.     *)
(***************************************************************************)
EXTENDS AuthSession, TLAPS

StateSet == [me : Provider, ops : SUBSET Op, shared : Token \cup {None}]

\* The user and the capability shown are those of the bound credential.
Bound(me) ==
    /\ me.status = "authenticated" => me.cred # None /\ me.user = UserOf[me.cred]
    /\ me.data # NoData => /\ me.status = "authenticated"
                           /\ me.data = [token |-> me.cred, user |-> me.user]

\* The request o of the current identity fits the screen it was asked from.
Serves(me, o) ==
    /\ o.kind # "data" /\ me.data = NoData
    /\ o.kind # "login" => o.token = me.cred /\ o.token # None
    /\ o.kind \in {"login", "me"} => me.status # "authenticated"
    /\ o.kind = "validate" => me.status = "restoring"

Sound(s) ==
    /\ s \in StateSet
    /\ Bound(s.me)
    /\ \A o \in s.ops : o.current => Serves(s.me, o) /\ \A p \in s.ops : p.current => p = o

\* No request is waited for.
Quiet(s) == \A o \in s.ops : ~o.current

AuthInv == AuthTypeOK /\ \A t \in Tab : Sound(State(t))

-----------------------------------------------------------------------------
(* What the helpers of the handlers leave behind. *)

LEMMA EndIdentityQuiets ==
  ASSUME NEW s \in StateSet
  PROVE  /\ EndIdentity(s) \in StateSet
         /\ EndIdentity(s).shared = s.shared
         /\ EndIdentity(s).me.data = NoData
         /\ EndIdentity(s).me.status = s.me.status
         /\ EndIdentity(s).me.cred = s.me.cred
         /\ EndIdentity(s).me.user = s.me.user
         /\ Quiet(EndIdentity(s))
<1> DEFINE ended == {[o EXCEPT !.current = FALSE, !.boundary = None] : o \in s.ops}
<1>1. s.me \in Provider /\ s.ops \in SUBSET Op
  BY DEF StateSet
<1>2. ended \in SUBSET Op /\ \A o \in ended : ~o.current
  BY <1>1 DEF Op
<1>3. [s.me EXCEPT !.data = NoData] \in Provider
  BY <1>1 DEF Provider
<1>4. EndIdentity(s) = [s EXCEPT !.me = [s.me EXCEPT !.data = NoData], !.ops = ended]
  BY DEF EndIdentity, StateSet
<1> HIDE DEF ended
<1>5. EndIdentity(s) \in StateSet /\ EndIdentity(s).ops = ended
  BY <1>2, <1>3, <1>4 DEF StateSet
<1>6. EndIdentity(s).me = [s.me EXCEPT !.data = NoData] /\ EndIdentity(s).shared = s.shared
  BY <1>4 DEF StateSet
<1> QED
  BY <1>1, <1>2, <1>5, <1>6 DEF Quiet, Provider

LEMMA ShowFacts ==
  ASSUME NEW s \in StateSet, NEW status \in Status
  PROVE  /\ Show(s, status) \in StateSet
         /\ Show(s, status).ops = s.ops /\ Show(s, status).shared = s.shared
         /\ Show(s, status).me.status = status
         /\ Show(s, status).me.cred = s.me.cred
         /\ Show(s, status).me.data = s.me.data
<1>1. s.me \in Provider
  BY DEF StateSet
<1> QED
  BY <1>1 DEF Show, StateSet, Provider

LEMMA BindFacts ==
  ASSUME NEW s \in StateSet, NEW token \in Token \cup {None}
  PROVE  /\ Bind(s, token) \in StateSet
         /\ Bind(s, token).ops = s.ops /\ Bind(s, token).shared = s.shared
         /\ Bind(s, token).me.status = s.me.status
         /\ Bind(s, token).me.cred = token
         /\ Bind(s, token).me.data = s.me.data
         /\ Bind(s, token).me.user = s.me.user
<1>1. s.me \in Provider
  BY DEF StateSet
<1> QED
  BY <1>1 DEF Bind, StateSet, Provider

LEMMA WriteFacts ==
  ASSUME NEW s \in StateSet, NEW token \in Token
  PROVE  /\ Write(s, token) \in StateSet
         /\ Write(s, token).ops = s.ops /\ Write(s, token).shared = token
         /\ Write(s, token).me.status = s.me.status
         /\ Write(s, token).me.data = s.me.data
<1>1. s.me \in Provider
  BY DEF StateSet
<1> QED
  BY <1>1 DEF Write, StateSet, Provider

LEMMA ClearFacts ==
  ASSUME NEW s \in StateSet
  PROVE  /\ Clear(s) \in StateSet
         /\ Clear(s).ops = s.ops /\ Clear(s).shared = None
         /\ Clear(s).me.status = s.me.status /\ Clear(s).me.cred = s.me.cred
         /\ Clear(s).me.data = s.me.data /\ Clear(s).me.user = s.me.user
<1>1. s.me \in Provider
  BY DEF StateSet
<1> QED
  BY <1>1 DEF Clear, StateSet, Provider

LEMMA RequestIsOp ==
  ASSUME NEW kind \in {"validate", "login", "me", "logout", "data"}, NEW current \in BOOLEAN,
         NEW token \in Token \cup {None}, NEW boundary \in Token \cup {None}
  PROVE  /\ Request(kind, current, token, boundary) \in Op
         /\ Request(kind, current, token, boundary).kind = kind
         /\ Request(kind, current, token, boundary).current = current
         /\ Request(kind, current, token, boundary).token = token
BY DEF Request, Op

\* One request joins a state in which none is waited for.
LEMMA AskedIsSound ==
  ASSUME NEW s \in StateSet, NEW o, Bound(s.me), o.current => Serves(s.me, o),
         \A p \in s.ops \ {o} : ~p.current
  PROVE  Sound(s)
BY DEF Sound

\* A sign-out binds nothing and waits for nothing.
LEMMA SignOutIsSound ==
  ASSUME NEW s \in StateSet
  PROVE  /\ Sound(SignOut(s))
         /\ SignOut(s).shared = s.shared
         /\ SignOut(s).me.cred = None
<1> DEFINE e == EndIdentity(s)
           b == Bind(e, None)
<1>1. e \in StateSet /\ e.shared = s.shared /\ Quiet(e) /\ e.me.data = NoData
  BY EndIdentityQuiets
<1> HIDE DEF e
<1>2. /\ b \in StateSet /\ b.shared = s.shared /\ Quiet(b)
      /\ b.me.data = NoData /\ b.me.cred = None
  BY <1>1, BindFacts DEF Quiet
<1> HIDE DEF b
<1>3. "anonymous" \in Status
  BY DEF Status
<1>4. SignOut(s) = Show(b, "anonymous")
  BY DEF SignOut, b, e
<1>5. /\ SignOut(s) \in StateSet /\ SignOut(s).shared = s.shared /\ Quiet(SignOut(s))
      /\ SignOut(s).me.data = NoData /\ SignOut(s).me.cred = None
      /\ SignOut(s).me.status = "anonymous"
  BY <1>2, <1>3, <1>4, ShowFacts DEF Quiet
<1> QED
  BY <1>5 DEF Sound, Bound, Quiet

\* startIdentity, then one request: nothing else is waited for.
Started(s, n, o) ==
    /\ n \in StateSet
    /\ n.shared = s.shared
    /\ n.me.data = NoData /\ n.me.status = s.me.status
    /\ n.me.cred = s.me.cred /\ n.me.user = s.me.user
    /\ \A p \in n.ops \ {o} : ~p.current

LEMMA StartFacts ==
  ASSUME NEW s \in StateSet, NEW kind \in {"validate", "login", "me", "logout", "data"},
         NEW token \in Token \cup {None}, NEW boundary \in Token \cup {None}
  PROVE  LET n == StartIdentity(s, kind, token, boundary)
             o == Request(kind, TRUE, token, boundary)
         IN  Started(s, n, o)
<1> DEFINE e == EndIdentity(s)
           o == Request(kind, TRUE, token, boundary)
           n == StartIdentity(s, kind, token, boundary)
<1>1. /\ e \in StateSet /\ e.shared = s.shared /\ Quiet(e) /\ e.me.data = NoData
      /\ e.me.status = s.me.status /\ e.me.cred = s.me.cred /\ e.me.user = s.me.user
  BY EndIdentityQuiets
<1>2. o \in Op
  BY RequestIsOp
<1>3. n = [e EXCEPT !.ops = @ \cup {o}]
  BY DEF StartIdentity
<1> HIDE DEF e, o, n
<1>4. n \in StateSet /\ n.shared = e.shared /\ n.me = e.me /\ n.ops = e.ops \cup {o}
  BY <1>1, <1>2, <1>3 DEF StateSet
<1>5. \A p \in n.ops \ {o} : ~p.current
  BY <1>1, <1>4 DEF Quiet
<1> QED
  BY <1>1, <1>4, <1>5 DEF Started, n, o

\* A restore waits for one identity check, of the credential it binds.
LEMMA RestoreIsSound ==
  ASSUME NEW s \in StateSet, NEW token \in Token
  PROVE  /\ Sound(Restore(s, token))
         /\ Restore(s, token).shared = s.shared
<1> DEFINE o == Request("validate", TRUE, token, None)
           n == StartIdentity(s, "validate", token, None)
           b == Bind(n, token)
<1>0. token # None /\ token \in Token \cup {None} /\ None \in Token \cup {None}
  BY AuthAssumption
<1>1. o.kind = "validate" /\ o.token = token
  BY DEF Request
<1>2. /\ n \in StateSet /\ n.shared = s.shared /\ n.me.data = NoData
      /\ \A p \in n.ops \ {o} : ~p.current
  BY <1>0, StartFacts DEF Started
<1> HIDE DEF n, o
<1>3. /\ b \in StateSet /\ b.shared = s.shared /\ b.me.data = NoData /\ b.me.cred = token
      /\ \A p \in b.ops \ {o} : ~p.current
  BY <1>2, BindFacts
<1> HIDE DEF b
<1>4. "restoring" \in Status
  BY DEF Status
<1>5. Restore(s, token) = Show(b, "restoring")
  BY DEF Restore, b, n
<1> DEFINE r == Restore(s, token)
<1>6. /\ r \in StateSet /\ r.shared = s.shared /\ r.me.data = NoData /\ r.me.cred = token
      /\ r.me.status = "restoring" /\ \A p \in r.ops \ {o} : ~p.current
  BY <1>3, <1>4, <1>5, ShowFacts
<1> HIDE DEF r
<1>7. Bound(r.me) /\ Serves(r.me, o)
  BY <1>0, <1>1, <1>6 DEF Bound, Serves
<1>8. Sound(r)
  BY <1>6, <1>7, AskedIsSound
<1> QED
  BY <1>6, <1>8 DEF r

\* Following the store keeps a state sound, whatever the store holds.
LEMMA SyncIsSound ==
  ASSUME NEW s, Sound(s), NEW value \in Token \cup {None}
  PROVE  /\ Sound(SyncFromStorage(s, value))
         /\ SyncFromStorage(s, value).shared = s.shared
<1>1. s \in StateSet
  BY DEF Sound
<1>2. CASE value = s.me.cred /\ value = None /\ s.me.status = "restoring"
  <2> DEFINE n == Show(s, "anonymous")
  <2>1. SyncFromStorage(s, value) = n
    BY <1>2 DEF SyncFromStorage
  <2>2. "anonymous" \in Status
    BY DEF Status
  <2>3. /\ n \in StateSet /\ n.ops = s.ops /\ n.shared = s.shared
        /\ n.me.status = "anonymous" /\ n.me.cred = s.me.cred /\ n.me.data = s.me.data
    BY <1>1, <2>2, ShowFacts
  <2> HIDE DEF n
  <2>4. Bound(n.me)
    BY <1>2, <2>3 DEF Sound, Bound
  <2>5. ASSUME NEW o \in s.ops, o.current PROVE Serves(n.me, o)
    BY <1>2, <2>3, <2>5 DEF Sound, Serves
  <2> QED
    BY <2>1, <2>3, <2>4, <2>5 DEF Sound
<1>3. CASE value = s.me.cred /\ ~(value = None /\ s.me.status = "restoring")
  BY <1>3 DEF SyncFromStorage
<1>4. CASE value # s.me.cred /\ value = None
  BY <1>1, <1>4, SignOutIsSound DEF SyncFromStorage
<1>5. CASE value # s.me.cred /\ value # None
  BY <1>1, <1>5, RestoreIsSound DEF SyncFromStorage
<1> QED
  BY <1>2, <1>3, <1>4, <1>5

LEMMA ClearIsSound ==
  ASSUME NEW s, Sound(s)
  PROVE  /\ Sound(Clear(s))
         /\ Clear(s).shared = None
         /\ Clear(s).me.cred = s.me.cred
         /\ Clear(s).ops = s.ops
<1> DEFINE n == Clear(s)
<1>1. s \in StateSet
  BY DEF Sound
<1>3. /\ n \in StateSet /\ n.ops = s.ops /\ n.shared = None
      /\ n.me.status = s.me.status /\ n.me.cred = s.me.cred
      /\ n.me.data = s.me.data /\ n.me.user = s.me.user
  BY <1>1, ClearFacts
<1> HIDE DEF n
<1>4. Bound(n.me) /\ \A o \in s.ops : Serves(s.me, o) => Serves(n.me, o)
  BY <1>3 DEF Sound, Bound, Serves
<1>5. Sound(n)
  BY <1>3, <1>4 DEF Sound
<1> QED
  BY <1>3, <1>5 DEF n

\* A screen that shows nobody is sound when nothing is waited for.
LEMMA QuietIsSound ==
  ASSUME NEW s \in StateSet, Quiet(s), Bound(s.me)
  PROVE  Sound(s)
BY DEF Sound, Quiet

\* What a tab is bound to and waits for is all that soundness is about.
LEMMA SameIdentityIsSound ==
  ASSUME NEW s, Sound(s), NEW n \in StateSet, n.ops \subseteq s.ops,
         n.me.status = s.me.status, n.me.cred = s.me.cred,
         n.me.data = s.me.data, n.me.user = s.me.user
  PROVE  Sound(n)
<1>1. Bound(n.me) /\ \A o \in s.ops : Serves(s.me, o) => Serves(n.me, o)
  BY DEF Sound, Bound, Serves
<1> QED
  BY <1>1 DEF Sound

\* The tab as it is, with one request less.
LEMMA WithoutFacts ==
  ASSUME AuthInv, NEW t \in Tab, NEW o \in ops[t]
  PROVE  /\ State(t) \in StateSet /\ State(t).me = tab[t] /\ State(t).ops = ops[t]
         /\ State(t).shared = shared
         /\ Without(t, o) \in StateSet /\ Without(t, o).me = tab[t]
         /\ Without(t, o).ops = ops[t] \ {o} /\ Without(t, o).shared = shared
         /\ Sound(Without(t, o)) /\ Sound(State(t))
         /\ o \in Op
         /\ o.current => Serves(tab[t], o) /\ Quiet(Without(t, o))
<1>1. Sound(State(t)) /\ State(t) \in StateSet
  BY DEF AuthInv, Sound
<1>2. State(t).me = tab[t] /\ State(t).ops = ops[t] /\ State(t).shared = shared
  BY DEF State
<1>3. /\ Without(t, o) \in StateSet /\ Without(t, o).me = tab[t]
      /\ Without(t, o).ops = ops[t] \ {o} /\ Without(t, o).shared = shared
  BY <1>1, <1>2 DEF Without, StateSet
<1>4. Sound(Without(t, o))
  BY <1>1, <1>2, <1>3, SameIdentityIsSound
<1>5. o.current => Serves(tab[t], o) /\ \A p \in ops[t] : p.current => p = o
  BY <1>1, <1>2 DEF Sound
<1>6. o \in Op
  BY <1>1, <1>2 DEF StateSet
<1> QED
  BY <1>1, <1>2, <1>3, <1>4, <1>5, <1>6 DEF Quiet

\* The end of a request this tab waited for, without data and with nothing else asked.
LEMMA EndedIsSound ==
  ASSUME NEW n \in StateSet, Quiet(n), n.me.data = NoData, n.me.status # "authenticated"
  PROVE  Sound(n)
BY QuietIsSound DEF Bound

\* An answer authenticates a tab that waits for nothing more, as its bound credential.
LEMMA AuthenticateIsSound ==
  ASSUME NEW s \in StateSet, Quiet(s), s.me.cred \in Token
  PROVE  /\ Sound(Authenticate(s, s.me.cred))
         /\ Authenticate(s, s.me.cred).shared = s.shared
<1> DEFINE token == s.me.cred
           n == Authenticate(s, token)
<1>1. s.me \in Provider /\ UserOf[token] \in User /\ token # None
  BY AuthAssumption DEF StateSet
<1>2. /\ n \in StateSet /\ n.ops = s.ops /\ n.shared = s.shared
      /\ n.me.status = "authenticated" /\ n.me.cred = token /\ n.me.user = UserOf[token]
      /\ n.me.data = [token |-> token, user |-> UserOf[token]]
  BY <1>1 DEF Authenticate, StateSet, Provider, Status
<1> HIDE DEF n
<1>3. Quiet(n) /\ Bound(n.me)
  BY <1>1, <1>2 DEF Quiet, Bound
<1>4. Sound(n)
  BY <1>2, <1>3, QuietIsSound
<1> QED
  BY <1>2, <1>4 DEF n

-----------------------------------------------------------------------------
(* A step of one tab keeps the invariant when it leaves that tab sound.      *)

LEMMA TabStepKeeps ==
  ASSUME AuthInv, NEW t \in Tab, NEW s, Sound(s),
         tab' = [tab EXCEPT ![t] = s.me], ops' = [ops EXCEPT ![t] = s.ops],
         shared' = s.shared, notices' \in [Tab -> Nat],
         s.shared \in issued' \cup {None}, sessions' \subseteq issued', issued' \subseteq Token
  PROVE  AuthInv'
<1>1. s \in StateSet
  BY DEF Sound
<1>2. AuthTypeOK'
  BY <1>1 DEF AuthInv, AuthTypeOK, StateSet
<1>3. ASSUME NEW u \in Tab PROVE Sound(State(u))'
  <2>1. CASE u = t
    <3> DEFINE n == [me |-> tab'[u], ops |-> ops'[u], shared |-> shared']
    <3>1. n.me = s.me /\ n.ops = s.ops /\ n.shared = s.shared
      BY <2>1 DEF AuthInv, AuthTypeOK
    <3>2. n \in StateSet
      BY <1>1, <3>1 DEF StateSet
    <3>3. Sound(n)
      <4> HIDE DEF n
      <4> QED
        BY <3>1, <3>2, SameIdentityIsSound
    <3> QED
      BY <3>3 DEF State, Sound, StateSet, Bound, Serves
  <2>2. CASE u # t
    <3> DEFINE n == [me |-> tab'[u], ops |-> ops'[u], shared |-> shared']
    <3>1. n.me = State(u).me /\ n.ops = State(u).ops /\ n.shared = s.shared
      BY <2>2 DEF AuthInv, AuthTypeOK, State
    <3>2. Sound(State(u))
      BY DEF AuthInv
    <3>3. n \in StateSet
      BY <1>1, <3>1, <3>2 DEF Sound, StateSet
    <3>4. Sound(n)
      <4> HIDE DEF n
      <4> QED
        BY <3>1, <3>2, <3>3, SameIdentityIsSound
    <3> QED
      BY <3>4 DEF State, Sound, StateSet, Bound, Serves
  <2> QED
    BY <2>1, <2>2
<1> QED
  BY <1>2, <1>3 DEF AuthInv

LEMMA BecomeKeeps ==
  ASSUME AuthInv, NEW t \in Tab, NEW s, Sound(s), Become(t, s),
         s.shared \in issued' \cup {None}, sessions' \subseteq issued', issued' \subseteq Token
  PROVE  AuthInv'
<1>1. notices' \in [Tab -> Nat]
  BY DEF AuthInv, AuthTypeOK, Become
<1> QED
  BY <1>1, TabStepKeeps DEF Become

\* The common case: nothing new on the server, the store as it was or emptied.
LEMMA QuietBecomeKeeps ==
  ASSUME AuthInv, NEW t \in Tab, NEW s, Sound(s), Become(t, s),
         s.shared \in {shared, None}, UNCHANGED issued, sessions' \subseteq sessions
  PROVE  AuthInv'
<1>1. s.shared \in issued' \cup {None} /\ sessions' \subseteq issued' /\ issued' \subseteq Token
  BY DEF AuthInv, AuthTypeOK
<1> QED
  BY <1>1, BecomeKeeps

-----------------------------------------------------------------------------
(* The steps.                                                                *)

LEMMA TabIsSound ==
  ASSUME AuthInv, NEW t \in Tab
  PROVE  /\ State(t) \in StateSet /\ Sound(State(t))
         /\ State(t).me = tab[t] /\ State(t).ops = ops[t] /\ State(t).shared = shared
         /\ tab[t] \in Provider /\ Bound(tab[t]) /\ shared \in Token \cup {None}
BY DEF AuthInv, Sound, State, StateSet

LEMMA InitAuthInv == AuthInit => AuthInv
<1> SUFFICES ASSUME AuthInit PROVE AuthInv
  OBVIOUS
<1>1. Unmounted \in Provider /\ Unmounted.data = NoData /\ Unmounted.status = "anonymous"
  BY DEF Unmounted, Provider, Stage, Status
<1>2. AuthTypeOK
  BY <1>1 DEF AuthInit, AuthTypeOK
<1>3. ASSUME NEW t \in Tab PROVE Sound(State(t))
  <2>1. State(t) = [me |-> Unmounted, ops |-> {}, shared |-> None]
    BY DEF AuthInit, State
  <2> QED
    BY <1>1, <2>1 DEF Sound, StateSet, Bound
<1> QED
  BY <1>2, <1>3 DEF AuthInv

\* A document is rendered, subscribes, is told, or ends.
LEMMA DocumentKeeps ==
  ASSUME AuthInv, NEW t \in Tab, Render(t) \/ Subscribe(t) \/ Unmount(t) \/ Deliver(t)
  PROVE  AuthInv'
<1>1. /\ State(t) \in StateSet /\ Sound(State(t))
      /\ State(t).me = tab[t] /\ State(t).ops = ops[t] /\ State(t).shared = shared
      /\ tab[t] \in Provider /\ shared \in Token \cup {None}
  BY TabIsSound
<1>2. shared \in issued \cup {None} /\ sessions \subseteq issued /\ issued \subseteq Token
  BY DEF AuthInv, AuthTypeOK
<1>3. notices \in [Tab -> Nat]
  BY DEF AuthInv, AuthTypeOK
<1>4. CASE Render(t)
  <2> DEFINE me == [Unmounted EXCEPT !.stage = "rendered",
                      !.status = IF shared = None THEN "anonymous" ELSE "restoring"]
             s == [me |-> me, ops |-> {}, shared |-> shared]
  <2>1. me \in Provider /\ me.data = NoData /\ me.status # "authenticated"
    BY DEF Unmounted, Provider, Stage, Status
  <2>2. tab' = [tab EXCEPT ![t] = me] /\ ops[t] = {}
    BY <1>4 DEF Render
  <2> HIDE DEF me
  <2>3. Sound(s) /\ s.me = me /\ s.ops = {} /\ s.shared = shared
    BY <1>1, <2>1 DEF Sound, StateSet, Bound
  <2>4. ops' = [ops EXCEPT ![t] = {}]
    BY <1>4, <2>2 DEF Render, AuthInv, AuthTypeOK
  <2> HIDE DEF s
  <2> QED
    BY <1>2, <1>3, <1>4, <2>2, <2>3, <2>4, TabStepKeeps DEF Render
<1>5. CASE Subscribe(t)
  <2> DEFINE n == [State(t) EXCEPT !.me.stage = "mounted", !.me.announced = shared]
             s == SyncFromStorage(n, shared)
  <2>1. /\ n \in StateSet /\ n.ops = State(t).ops /\ n.shared = shared
        /\ n.me.status = State(t).me.status /\ n.me.cred = State(t).me.cred
        /\ n.me.data = State(t).me.data /\ n.me.user = State(t).me.user
    BY <1>1 DEF StateSet, Provider, Stage
  <2>2. Become(t, s)
    BY <1>5 DEF Subscribe
  <2> HIDE DEF n
  <2>3. Sound(n)
    BY <1>1, <2>1, SameIdentityIsSound
  <2>4. Sound(s) /\ s.shared = shared
    BY <1>1, <2>1, <2>3, SyncIsSound
  <2> HIDE DEF s
  <2> QED
    BY <1>5, <2>2, <2>4, QuietBecomeKeeps DEF Subscribe, ServerUnchanged
<1>6. CASE Unmount(t)
  <2> DEFINE e == EndIdentity(State(t))
             s == [me |-> Unmounted, ops |-> e.ops, shared |-> shared]
  <2>1. e \in StateSet /\ Quiet(e)
    BY <1>1, EndIdentityQuiets
  <2>2. Unmounted \in Provider /\ Unmounted.data = NoData /\ Unmounted.status = "anonymous"
    BY DEF Unmounted, Provider, Stage, Status
  <2>3. tab' = [tab EXCEPT ![t] = Unmounted] /\ ops' = [ops EXCEPT ![t] = e.ops]
    BY <1>6 DEF Unmount
  <2> HIDE DEF e
  <2>4. Sound(s) /\ s.me = Unmounted /\ s.ops = e.ops /\ s.shared = shared
    BY <1>1, <2>1, <2>2 DEF Sound, StateSet, Bound, Quiet
  <2>5. notices' \in [Tab -> Nat]
    BY <1>3, <1>6 DEF Unmount
  <2> HIDE DEF s
  <2> QED
    BY <1>2, <1>6, <2>3, <2>4, <2>5, TabStepKeeps DEF Unmount
<1>7. CASE Deliver(t)
  <2> DEFINE n == [State(t) EXCEPT !.me.announced = shared]
             f == SyncFromStorage(n, shared)
             heard == tab[t].stage = "mounted" /\ shared # tab[t].announced
  <2>1. /\ n \in StateSet /\ n.ops = State(t).ops /\ n.shared = shared
        /\ n.me.status = State(t).me.status /\ n.me.cred = State(t).me.cred
        /\ n.me.data = State(t).me.data /\ n.me.user = State(t).me.user
    BY <1>1 DEF StateSet, Provider
  <2>2. /\ tab' = IF heard THEN [tab EXCEPT ![t] = f.me] ELSE tab
        /\ ops' = IF heard THEN [ops EXCEPT ![t] = f.ops] ELSE ops
    BY <1>7 DEF Deliver
  <2> HIDE DEF n
  <2>3. Sound(n)
    BY <1>1, <2>1, SameIdentityIsSound
  <2>4. Sound(f) /\ f.shared = shared
    BY <1>1, <2>1, <2>3, SyncIsSound
  <2>5. notices' \in [Tab -> Nat]
    BY <1>3, <1>7 DEF Deliver
  <2> HIDE DEF f, heard
  <2>6. CASE heard
    BY <1>2, <1>7, <2>2, <2>4, <2>5, <2>6, TabStepKeeps DEF Deliver
  <2>7. CASE ~heard
    <3>1. tab' = [tab EXCEPT ![t] = State(t).me] /\ ops' = [ops EXCEPT ![t] = State(t).ops]
      BY <1>1, <2>2, <2>7 DEF AuthInv, AuthTypeOK
    <3> QED
      BY <1>1, <1>2, <1>7, <2>5, <3>1, TabStepKeeps DEF Deliver
  <2> QED
    BY <2>6, <2>7
<1> QED
  BY <1>4, <1>5, <1>6, <1>7

\* What a user does.
LEMMA UserKeeps ==
  ASSUME AuthInv, NEW t \in Tab, UserStep(t)
  PROVE  AuthInv'
<1>1. /\ State(t) \in StateSet /\ Sound(State(t))
      /\ State(t).me = tab[t] /\ State(t).ops = ops[t] /\ State(t).shared = shared
      /\ tab[t] \in Provider /\ Bound(tab[t]) /\ shared \in Token \cup {None}
  BY TabIsSound
<1>0. None \in Token \cup {None}
  OBVIOUS
<1>2. CASE Login(t)
  <2> DEFINE s == StartIdentity(State(t), "login", None, shared)
             o == Request("login", TRUE, None, shared)
  <2>1. /\ s \in StateSet /\ s.shared = shared /\ s.me.data = NoData
        /\ s.me.status = tab[t].status /\ \A p \in s.ops \ {o} : ~p.current
    <3>1. "login" \in {"validate", "login", "me", "logout", "data"}
      OBVIOUS
    <3> QED
      <4>1. Started(State(t), s, o)
        BY <1>0, <1>1, <3>1, StartFacts
      <4> QED
        BY <1>1, <4>1 DEF Started
  <2>2. o.kind = "login"
    BY DEF Request
  <2>3. tab[t].status \in {"anonymous", "unavailable"} /\ Become(t, s)
    BY <1>2 DEF Login
  <2> HIDE DEF s, o
  <2>4. Bound(s.me) /\ Serves(s.me, o)
    BY <2>1, <2>2, <2>3 DEF Bound, Serves
  <2>5. Sound(s)
    BY <2>1, <2>4, AskedIsSound
  <2> QED
    BY <1>2, <2>1, <2>3, <2>5, QuietBecomeKeeps DEF Login, ServerUnchanged
<1>3. CASE Logout(t)
  <2> DEFINE credential == tab[t].cred
             s == StartIdentity(State(t), "logout", credential, None)
             o == Request("logout", TRUE, credential, None)
  <2>1. credential # None /\ credential \in Token \cup {None} /\ tab[t].status = "authenticated"
    BY <1>1, <1>3 DEF Logout, Bound, Provider
  <2>2. Become(t, s)
    BY <1>3, <2>1 DEF Logout
  <2>3. /\ s \in StateSet /\ s.shared = shared /\ s.me.data = NoData
        /\ s.me.status = tab[t].status /\ s.me.cred = tab[t].cred /\ s.me.user = tab[t].user
        /\ \A p \in s.ops \ {o} : ~p.current
    <3>1. "logout" \in {"validate", "login", "me", "logout", "data"}
      OBVIOUS
    <3> QED
      <4>1. Started(State(t), s, o)
        BY <1>0, <1>1, <2>1, <3>1, StartFacts
      <4> QED
        BY <1>1, <4>1 DEF Started
  <2>4. o.kind = "logout" /\ o.token = credential
    BY DEF Request
  <2> HIDE DEF s, o
  <2>5. Bound(s.me) /\ Serves(s.me, o)
    BY <1>1, <2>1, <2>3, <2>4 DEF Bound, Serves
  <2>6. Sound(s)
    BY <2>3, <2>5, AskedIsSound
  <2> QED
    BY <1>3, <2>2, <2>3, <2>6, QuietBecomeKeeps DEF Logout, ServerUnchanged
<1>4. CASE RetryRestore(t)
  <2> DEFINE s == IF shared = None THEN SignOut(State(t)) ELSE Restore(State(t), shared)
  <2>1. Sound(s) /\ s.shared = shared
    BY <1>1, SignOutIsSound, RestoreIsSound
  <2>2. Become(t, s)
    BY <1>4 DEF RetryRestore
  <2> HIDE DEF s
  <2> QED
    BY <1>4, <2>1, <2>2, QuietBecomeKeeps DEF RetryRestore, ServerUnchanged
<1>5. CASE SignOutLocally(t)
  <2> DEFINE s == Clear(SignOut(State(t)))
  <2>1. Sound(s) /\ s.shared = None
    BY <1>1, SignOutIsSound, ClearIsSound
  <2>2. Become(t, s)
    BY <1>5 DEF SignOutLocally
  <2> HIDE DEF s
  <2> QED
    BY <1>5, <2>1, <2>2, QuietBecomeKeeps DEF SignOutLocally, ServerUnchanged
<1>6. CASE DataRequest(t)
  <2> DEFINE o == Request("data", FALSE, tab[t].data.token, None)
             s == [me |-> tab[t], ops |-> ops[t] \cup {o}, shared |-> shared]
  <2>1. tab[t].data # NoData /\ ops' = [ops EXCEPT ![t] = ops[t] \cup {o}]
    BY <1>6 DEF DataRequest, AuthInv, AuthTypeOK
  <2>2. tab[t].data.token \in Token
    BY <1>1, <2>1 DEF Provider
  <2>3. o \in Op /\ ~o.current
    BY <2>2 DEF Request, Op
  <2> HIDE DEF o
  <2>4. s \in StateSet /\ s.me = tab[t] /\ s.ops = ops[t] \cup {o} /\ s.shared = shared
    BY <1>1, <2>3 DEF StateSet
  <2> HIDE DEF s
  <2>5. Sound(s)
    BY <1>1, <2>3, <2>4 DEF Sound
  <2>6. tab' = [tab EXCEPT ![t] = s.me] /\ ops' = [ops EXCEPT ![t] = s.ops]
    BY <1>6, <2>1, <2>4 DEF DataRequest, AuthInv, AuthTypeOK
  <2>7. notices' \in [Tab -> Nat] /\ shared \in issued' \cup {None}
        /\ sessions' \subseteq issued' /\ issued' \subseteq Token
    BY <1>6 DEF DataRequest, AuthInv, AuthTypeOK
  <2> QED
    BY <1>6, <2>4, <2>5, <2>6, <2>7, TabStepKeeps DEF DataRequest
<1> QED
  BY <1>2, <1>3, <1>4, <1>5, <1>6 DEF UserStep

\* n follows s in the same tab, and empties the store only of the credential bound in s.
Follows(s, n) ==
    /\ Sound(n)
    /\ \/ n.shared = s.shared
       \/ n.shared = None /\ n.me.cred = None /\ s.shared \in {s.me.cred, None}

LEMMA ReconcileFollows == ASSUME NEW s, Sound(s) PROVE Follows(s, Reconcile(s))
<1>1. s.shared \in Token \cup {None}
  BY DEF Sound, StateSet
<1>2. CASE s.me.stage = "mounted"
  BY <1>1, <1>2, SyncIsSound DEF Reconcile, Follows
<1>3. CASE s.me.stage # "mounted"
  BY <1>3 DEF Reconcile, Follows
<1> QED
  BY <1>2, <1>3

LEMMA UnauthorizedFollows ==
  ASSUME NEW s, Sound(s), NEW token PROVE Follows(s, OnUnauthorized(s, token))
<1>1. s \in StateSet
  BY DEF Sound
<1>2. CASE token = s.me.cred /\ s.shared = token
  BY <1>1, <1>2, SignOutIsSound, ClearIsSound DEF OnUnauthorized, Follows
<1>3. CASE ~(token = s.me.cred /\ s.shared = token)
  BY <1>3 DEF OnUnauthorized, Follows
<1> QED
  BY <1>2, <1>3

LEMMA FinishLogoutFollows ==
  ASSUME NEW s \in StateSet, Quiet(s), s.me.data = NoData
  PROVE  Follows(s, FinishLogout(s, s.me.cred))
<1> DEFINE credential == s.me.cred
           c == IF s.shared \in {credential, None} THEN Clear(s) ELSE s
           b == Bind(c, None)
           n == Show(b, "anonymous")
<1>0. None \in Token \cup {None} /\ "anonymous" \in Status
  BY DEF Status
<1>1. /\ c \in StateSet /\ Quiet(c) /\ c.me.data = NoData
      /\ c.shared = s.shared \/ (c.shared = None /\ s.shared \in {s.me.cred, None})
  BY ClearFacts DEF Quiet
<1> HIDE DEF c
<1>2. /\ b \in StateSet /\ Quiet(b) /\ b.me.data = NoData /\ b.shared = c.shared
      /\ b.me.cred = None
  BY <1>0, <1>1, BindFacts DEF Quiet
<1> HIDE DEF b
<1>3. FinishLogout(s, s.me.cred) = n
  BY DEF FinishLogout, b, c
<1>5. /\ n \in StateSet /\ Quiet(n) /\ n.me.data = NoData /\ n.shared = b.shared
      /\ n.me.status = "anonymous" /\ n.me.cred = None
  BY <1>0, <1>2, ShowFacts DEF Quiet
<1> HIDE DEF n
<1> QED
  BY <1>1, <1>2, <1>3, <1>5, EndedIsSound DEF Follows

\* The catch block of the request a tab waited for.
LEMMA CaughtFollows ==
  ASSUME NEW s \in StateSet, Sound(s), Quiet(s), NEW o, Serves(s.me, o),
         NEW unauthorized \in BOOLEAN
  PROVE  Follows(s, Caught(s, o, unauthorized))
<1>0. None \in Token \cup {None} /\ {"anonymous", "unavailable"} \subseteq Status
  BY DEF Status
<1>1. s.me.data = NoData
  BY DEF Serves
<1>2. CASE o.kind = "me" /\ s.shared = o.token
  <2> DEFINE b == Bind(s, None)
             n == Clear(b)
  <2>1. /\ b \in StateSet /\ Quiet(b) /\ b.me.data = NoData
        /\ b.me.status = s.me.status /\ b.me.cred = None
    BY <1>0, <1>1, BindFacts DEF Quiet
  <2> HIDE DEF b
  <2>2. /\ n \in StateSet /\ Quiet(n) /\ n.me.data = NoData /\ n.shared = None
        /\ n.me.status = s.me.status /\ n.me.cred = None
    BY <2>1, ClearFacts DEF Quiet
  <2>3. Caught(s, o, unauthorized) = n
    BY <1>2 DEF Caught, b
  <2> HIDE DEF n
  <2>4. s.me.status # "authenticated" /\ s.shared = s.me.cred
    BY <1>2 DEF Serves
  <2> QED
    BY <2>2, <2>3, <2>4, EndedIsSound DEF Follows
<1>3. CASE o.kind = "validate" /\ unauthorized
  <2> DEFINE c == IF s.shared = o.token THEN Clear(s) ELSE s
             b == Bind(c, None)
             n == Show(b, "anonymous")
  <2>1. /\ c \in StateSet /\ Quiet(c) /\ c.me.data = NoData
        /\ c.shared = s.shared \/ (c.shared = None /\ s.shared = o.token)
    BY <1>1, ClearFacts DEF Quiet
  <2> HIDE DEF c
  <2>2. /\ b \in StateSet /\ Quiet(b) /\ b.me.data = NoData /\ b.shared = c.shared
        /\ b.me.cred = None
    BY <1>0, <2>1, BindFacts DEF Quiet
  <2> HIDE DEF b
  <2>3. Caught(s, o, unauthorized) = n
    BY <1>3 DEF Caught, b, c
  <2>4. /\ n \in StateSet /\ Quiet(n) /\ n.me.data = NoData /\ n.shared = b.shared
        /\ n.me.status = "anonymous" /\ n.me.cred = None
    BY <1>0, <2>2, ShowFacts DEF Quiet
  <2> HIDE DEF n
  <2>5. o.token = s.me.cred
    BY <1>3 DEF Serves
  <2> QED
    BY <2>1, <2>2, <2>3, <2>4, <2>5, EndedIsSound DEF Follows
<1>4. CASE o.kind = "validate" /\ ~unauthorized
  <2> DEFINE n == Show(s, "unavailable")
  <2>1. /\ n \in StateSet /\ Quiet(n) /\ n.me.data = NoData /\ n.shared = s.shared
        /\ n.me.status = "unavailable"
    BY <1>0, <1>1, ShowFacts DEF Quiet
  <2>2. Caught(s, o, unauthorized) = n
    BY <1>4 DEF Caught
  <2> HIDE DEF n
  <2> QED
    BY <2>1, <2>2, EndedIsSound DEF Follows
<1>5. CASE o.kind = "logout"
  <2>1. Caught(s, o, unauthorized) = FinishLogout(s, s.me.cred)
    BY <1>5 DEF Caught, Serves
  <2> QED
    BY <1>1, <2>1, FinishLogoutFollows
<1>6. CASE o.kind \notin {"validate", "logout"} /\ ~(o.kind = "me" /\ s.shared = o.token)
  BY <1>6 DEF Caught, Follows
<1> QED
  BY <1>2, <1>3, <1>4, <1>5, <1>6

\* What the answer to one request does to its tab.
LEMMA AnswerKeeps ==
  ASSUME AuthInv, NEW t \in Tab, NEW o \in ops[t], Settle(t, o)
  PROVE  /\ AuthInv'
         /\ shared # None /\ shared' = None => tab[t].cred = shared /\ tab'[t].cred = None
<1> DEFINE w == Without(t, o)
           OwnCleared == shared # None /\ shared' = None => tab[t].cred = shared /\ tab'[t].cred = None
<1>1. /\ w \in StateSet /\ w.me = tab[t] /\ w.ops = ops[t] \ {o} /\ w.shared = shared
      /\ Sound(w) /\ o \in Op
      /\ o.current => Serves(tab[t], o) /\ Quiet(w)
  BY WithoutFacts
<1>2. tab \in [Tab -> Provider] /\ sessions \subseteq issued /\ issued \subseteq Token
      /\ shared \in issued \cup {None}
  BY DEF AuthInv, AuthTypeOK
<1> HIDE DEF w
<1>3. ASSUME NEW s, Follows(w, s), Become(t, s), UNCHANGED issued, sessions' \subseteq sessions
      PROVE  AuthInv' /\ OwnCleared
  <2>1. Sound(s) /\ s.shared \in {shared, None}
    BY <1>1, <1>3 DEF Follows
  <2>2. AuthInv'
    BY <1>3, <2>1, QuietBecomeKeeps
  <2>3. tab'[t] = s.me /\ shared' = s.shared
    BY <1>2, <1>3 DEF Become
  <2> QED
    BY <1>1, <1>3, <2>2, <2>3 DEF Follows
<1>w. Follows(w, w)
  BY <1>1 DEF Follows
<1>4. CASE LoginAnswered(t, o)
  <2>1. PICK token \in Token \ issued :
          /\ issued' = issued \cup {token}
          /\ sessions' = sessions \cup {token}
          /\ Become(t, IF MayStore(o)
                       THEN LET s == Bind(Write(w, token), token)
                                me == [Request("me", TRUE, token, None) EXCEPT !.accepted = TRUE]
                            IN  [s EXCEPT !.ops = @ \cup {me}]
                       ELSE Reconcile(w))
    BY <1>4 DEF LoginAnswered, w
  <2>2. CASE MayStore(o)
    <3> DEFINE b == Bind(Write(w, token), token)
               me == [Request("me", TRUE, token, None) EXCEPT !.accepted = TRUE]
               s == [b EXCEPT !.ops = @ \cup {me}]
    <3>1. Become(t, s)
      BY <2>1, <2>2
    <3>2. o.current /\ o.kind = "login"
      BY <1>4, <2>2 DEF MayStore, LoginAnswered
    <3>3. token \in Token \cup {None} /\ token # None
      BY AuthAssumption
    <3>4. /\ Write(w, token) \in StateSet /\ Write(w, token).ops = w.ops
          /\ Write(w, token).shared = token /\ Write(w, token).me.status = w.me.status
          /\ Write(w, token).me.data = w.me.data
      BY <1>1, WriteFacts
    <3>5. /\ b \in StateSet /\ b.ops = w.ops /\ b.shared = token
          /\ b.me.status = tab[t].status /\ b.me.data = tab[t].data /\ b.me.cred = token
      BY <1>1, <3>3, <3>4, BindFacts
    <3>6. me \in Op /\ me.kind = "me" /\ me.token = token
      BY DEF Request, Op
    <3> HIDE DEF b, me
    <3>7. /\ s \in StateSet /\ s.ops = w.ops \cup {me} /\ s.me = b.me /\ s.shared = token
      BY <3>5, <3>6 DEF StateSet
    <3> HIDE DEF s
    <3>8. Serves(s.me, me) /\ Bound(s.me)
      BY <1>1, <3>2, <3>3, <3>5, <3>6, <3>7 DEF Serves, Bound
    <3>9. Sound(s)
      BY <1>1, <3>2, <3>7, <3>8, AskedIsSound DEF Quiet
    <3>10. AuthInv'
      BY <1>2, <2>1, <3>1, <3>7, <3>9, BecomeKeeps
    <3> QED
      BY <3>1, <3>3, <3>7, <3>10 DEF Become
  <2>3. CASE ~MayStore(o)
    <3> DEFINE s == Reconcile(w)
    <3>1. Become(t, s)
      BY <2>1, <2>3
    <3>2. Sound(s) /\ (s.shared = shared \/ shared = None
                         \/ (s.shared = None /\ s.me.cred = None /\ shared = tab[t].cred))
      BY <1>1, ReconcileFollows DEF Follows
    <3> HIDE DEF s
    <3>3. s.shared \in issued' \cup {None} /\ sessions' \subseteq issued' /\ issued' \subseteq Token
      <4>1. s.shared \in {shared, None}
        BY <1>1, ReconcileFollows DEF Follows, s
      <4> QED
        BY <1>2, <2>1, <4>1
    <3>4. AuthInv'
      BY <3>1, <3>2, <3>3, BecomeKeeps
    <3>5. tab'[t] = s.me /\ shared' = s.shared
      BY <1>2, <3>1 DEF Become
    <3> QED
      BY <3>2, <3>4, <3>5
  <2> QED
    BY <2>2, <2>3
<1>5. CASE MeAnswered(t, o)
  <2>0. o.kind = "me" /\ UNCHANGED issued /\ sessions' \subseteq sessions
    BY <1>5 DEF MeAnswered, Answered, ServerUnchanged
  <2>1. CASE ~o.current
    BY <1>3, <1>5, <1>w, <2>0, <2>1 DEF MeAnswered, w
  <2>2. CASE o.current /\ shared # o.token
    BY <1>1, <1>3, <1>5, <2>0, <2>2, ReconcileFollows DEF MeAnswered, w
  <2>3. CASE o.current /\ shared = o.token
    <3>1. o.token = w.me.cred /\ w.me.cred \in Token
      BY <1>1, <2>0, <2>3 DEF Serves, Op
    <3>2. Follows(w, Authenticate(w, o.token))
      BY <1>1, <2>3, <3>1, AuthenticateIsSound DEF Follows
    <3>3. Become(t, Authenticate(w, o.token))
      BY <1>5, <2>3 DEF MeAnswered, w
    <3> QED
      BY <1>3, <2>0, <3>2, <3>3
  <2> QED
    BY <2>1, <2>2, <2>3
<1>6. CASE ValidateAnswered(t, o)
  <2>0. o.kind = "validate" /\ UNCHANGED issued /\ sessions' \subseteq sessions
    BY <1>6 DEF ValidateAnswered, Answered, ServerUnchanged
  <2>1. CASE ~o.current
    BY <1>3, <1>6, <1>w, <2>0, <2>1 DEF ValidateAnswered, w
  <2>2. CASE o.current
    <3>1. o.token = w.me.cred /\ w.me.cred \in Token
      BY <1>1, <2>0, <2>2 DEF Serves, Op
    <3>2. Follows(w, Authenticate(w, o.token))
      BY <1>1, <2>2, <3>1, AuthenticateIsSound DEF Follows
    <3>3. Become(t, Authenticate(w, o.token))
      BY <1>6, <2>2 DEF ValidateAnswered, w
    <3> QED
      BY <1>3, <2>0, <3>2, <3>3
  <2> QED
    BY <2>1, <2>2
<1>7. CASE LogoutAnswered(t, o)
  <2>0. o.kind = "logout" /\ UNCHANGED issued /\ sessions' \subseteq sessions
    BY <1>7 DEF LogoutAnswered, Answered
  <2>1. CASE ~o.current
    BY <1>3, <1>7, <1>w, <2>0, <2>1 DEF LogoutAnswered, w
  <2>2. CASE o.current
    <3>1. o.token = w.me.cred /\ w.me.data = NoData
      BY <1>1, <2>0, <2>2 DEF Serves
    <3>2. Follows(w, FinishLogout(w, o.token))
      BY <1>1, <2>2, <3>1, FinishLogoutFollows
    <3>3. Become(t, FinishLogout(w, o.token))
      BY <1>7, <2>2 DEF LogoutAnswered, w
    <3> QED
      BY <1>3, <2>0, <3>2, <3>3
  <2> QED
    BY <2>1, <2>2
<1>8. CASE DataAnswered(t, o)
  BY <1>3, <1>8, <1>w DEF DataAnswered, ServerUnchanged, w
<1>9. CASE Rejected(t, o)
  <2> DEFINE acts == o.token = tab[t].cred /\ shared = o.token
             s == OnUnauthorized(w, o.token)
  <2>0. /\ Become(t, IF o.current /\ ~acts THEN Caught(s, o, TRUE) ELSE s)
        /\ UNCHANGED issued /\ sessions' \subseteq sessions
    BY <1>9 DEF Rejected, ServerUnchanged, w
  <2>1. CASE o.current /\ ~acts
    <3>1. s = w
      BY <1>1, <2>1 DEF OnUnauthorized
    <3>2. Follows(w, Caught(w, o, TRUE))
      BY <1>1, <2>1, CaughtFollows
    <3> QED
      BY <1>3, <2>0, <2>1, <3>1, <3>2
  <2>2. CASE ~(o.current /\ ~acts)
    <3>1. Follows(w, s)
      BY <1>1, UnauthorizedFollows
    <3> HIDE DEF s
    <3> QED
      BY <1>3, <2>0, <2>2, <3>1
  <2> QED
    BY <2>1, <2>2
<1>10. CASE Failed(t, o)
  <2>0. /\ Become(t, IF o.current THEN Caught(w, o, FALSE) ELSE w)
        /\ UNCHANGED issued /\ sessions' \subseteq sessions
    BY <1>10 DEF Failed, ServerUnchanged, w
  <2>1. CASE o.current
    <3>1. Follows(w, Caught(w, o, FALSE))
      BY <1>1, <2>1, CaughtFollows
    <3> QED
      BY <1>3, <2>0, <2>1, <3>1
  <2>2. CASE ~o.current
    BY <1>3, <1>w, <2>0, <2>2
  <2> QED
    BY <2>1, <2>2
<1> QED
  BY <1>4, <1>5, <1>6, <1>7, <1>8, <1>9, <1>10 DEF Settle

LEMMA ExpireKeeps == ASSUME AuthInv, Expire PROVE AuthInv'
<1>1. AuthTypeOK'
  BY DEF AuthInv, AuthTypeOK, Expire
<1>2. ASSUME NEW t \in Tab PROVE Sound(State(t))'
  <2>1. Sound(State(t)) /\ State(t)' = State(t)
    BY DEF AuthInv, Expire, State
  <2> QED
    BY <2>1 DEF Sound, StateSet, Bound, Serves
<1> QED
  BY <1>1, <1>2 DEF AuthInv

LEMMA StepKeepsAuth == AuthInv /\ [Next]_vars => AuthInv'
<1> SUFFICES ASSUME AuthInv, [Next]_vars PROVE AuthInv'
  OBVIOUS
<1>1. CASE Expire
  BY <1>1, ExpireKeeps
<1>2. ASSUME NEW t \in Tab, TabStep(t) PROVE AuthInv'
  <2>1. CASE Render(t) \/ Subscribe(t) \/ Unmount(t) \/ Deliver(t)
    BY <2>1, DocumentKeeps
  <2>2. CASE UserStep(t)
    BY <2>2, UserKeeps
  <2>3. CASE \E o \in ops[t] : Settle(t, o)
    BY <2>3, AnswerKeeps
  <2> QED
    BY <1>2, <2>1, <2>2, <2>3 DEF TabStep
<1>3. CASE UNCHANGED vars
  <2>1. AuthTypeOK'
    BY <1>3 DEF vars, AuthInv, AuthTypeOK
  <2>2. ASSUME NEW t \in Tab PROVE Sound(State(t))'
    <3>1. Sound(State(t)) /\ State(t)' = State(t)
      BY <1>3 DEF vars, AuthInv, State
    <3> QED
      BY <3>1 DEF Sound, StateSet, Bound, Serves
  <2> QED
    BY <2>1, <2>2 DEF AuthInv
<1> QED
  BY <1>1, <1>2, <1>3 DEF Next

\* In every tab the user shown, the capability handed out, the bound credential and
\* the request waited for are of one identity, whatever the other tabs do and
\* however late answers and notifications come: credentialRef, openDataSession and
\* the generation counter of AuthProvider.tsx.
THEOREM AuthSafety == Spec => [](AuthTypeOK /\ OneIdentity)
<1>1. AuthInv => AuthTypeOK /\ OneIdentity
  <2> SUFFICES ASSUME AuthInv PROVE OneIdentity
    BY DEF AuthInv
  <2>1. ASSUME NEW t \in Tab
        PROVE  /\ Bound(tab[t])
               /\ \A o \in ops[t] : o.current =>
                    Serves(tab[t], o) /\ \A p \in ops[t] : p.current => p = o
    BY TabIsSound DEF Sound
  <2>2. OneRequestOfTheIdentity
    BY <2>1 DEF OneRequestOfTheIdentity, Serves
  <2> QED
    BY <2>1, <2>2 DEF OneIdentity, Bound
<1> QED
  BY InitAuthInv, StepKeepsAuth, <1>1, PTL DEF Spec

\* The store is emptied of no credential but the one the tab that empties it is bound
\* to, and lets go of, except by the user's own hand: onUnauthorized and the catch
\* blocks of AuthProvider.tsx.
THEOREM OwnCredentialSafety == Spec => OnlyOwnCredentialCleared
<1> DEFINE Own == shared # None /\ shared' = None =>
                      \E t \in Tab : \/ tab[t].cred = shared /\ tab'[t].cred = None
                                     \/ SignOutLocally(t)
<1>1. AuthInv /\ [Next]_vars => [Own]_vars
  <2> SUFFICES ASSUME AuthInv, Next, shared # None, shared' = None
               PROVE  \E t \in Tab : \/ tab[t].cred = shared /\ tab'[t].cred = None
                                     \/ SignOutLocally(t)
    OBVIOUS
  <2>1. PICK t \in Tab : TabStep(t)
    BY DEF Next, Expire
  <2>2. /\ State(t) \in StateSet /\ Sound(State(t)) /\ State(t).shared = shared
        /\ shared \in Token \cup {None}
    BY TabIsSound
  <2>3. CASE Render(t) \/ Unmount(t) \/ Deliver(t) \/ DataRequest(t)
    BY <2>3 DEF Render, Unmount, Deliver, DataRequest
  <2>4. CASE Subscribe(t)
    <3> DEFINE n == [State(t) EXCEPT !.me.stage = "mounted", !.me.announced = shared]
               s == SyncFromStorage(n, shared)
    <3>1. /\ n \in StateSet /\ n.ops = State(t).ops /\ n.shared = shared
          /\ n.me.status = State(t).me.status /\ n.me.cred = State(t).me.cred
          /\ n.me.data = State(t).me.data /\ n.me.user = State(t).me.user
      BY <2>2 DEF StateSet, Provider, Stage
    <3> HIDE DEF n
    <3>2. Sound(n)
      BY <2>2, <3>1, SameIdentityIsSound
    <3>3. s.shared = shared
      BY <2>2, <3>1, <3>2, SyncIsSound
    <3> QED
      BY <2>4, <3>3 DEF Subscribe, Become, n
  <2>5. CASE Login(t)
    <3> DEFINE s == StartIdentity(State(t), "login", None, shared)
    <3>1. "login" \in {"validate", "login", "me", "logout", "data"} /\ None \in Token \cup {None}
      OBVIOUS
    <3>2. Started(State(t), s, Request("login", TRUE, None, shared))
      BY <2>2, <3>1, StartFacts
    <3>3. s.shared = shared
      BY <2>2, <3>2 DEF Started
    <3> QED
      BY <2>5, <3>3 DEF Login, Become
  <2>6. CASE Logout(t)
    <3> DEFINE s == StartIdentity(State(t), "logout", tab[t].cred, None)
    <3>1. "logout" \in {"validate", "login", "me", "logout", "data"} /\ None \in Token \cup {None}
      OBVIOUS
    <3>2. tab[t].cred # None /\ tab[t].cred \in Token \cup {None}
      BY <2>6, TabIsSound DEF Logout, Bound, Provider
    <3>3. Started(State(t), s, Request("logout", TRUE, tab[t].cred, None))
      BY <2>2, <3>1, <3>2, StartFacts
    <3>4. s.shared = shared
      BY <2>2, <3>3 DEF Started
    <3> QED
      BY <2>6, <3>2, <3>4 DEF Logout, Become
  <2>7. CASE RetryRestore(t)
    <3>1. Become(t, Restore(State(t), shared)) /\ shared \in Token
      BY <2>2, <2>7 DEF RetryRestore
    <3>2. Restore(State(t), shared).shared = shared
      BY <2>2, <3>1, RestoreIsSound
    <3> QED
      BY <3>1, <3>2 DEF Become
  <2>8. CASE SignOutLocally(t)
    BY <2>8
  <2>9. CASE \E o \in ops[t] : Settle(t, o)
    BY <2>9, AnswerKeeps
  <2> QED
    BY <2>1, <2>3, <2>4, <2>5, <2>6, <2>7, <2>8, <2>9 DEF TabStep, UserStep
<1> QED
  BY InitAuthInv, StepKeepsAuth, <1>1, PTL DEF Spec, OnlyOwnCredentialCleared

-----------------------------------------------------------------------------
(* What a tab is bound to, what it last reported of the store, and the store. *)

\* A subscriber has reported what it is bound to; one that has heard every
\* notification is bound to what is stored.
FollowInv ==
    \A t \in Tab : tab[t].stage = "mounted" =>
        /\ tab[t].announced = tab[t].cred
        /\ notices[t] = 0 => tab[t].cred = shared

\* The same of the state of a tab that has nothing to hear.
InTouch(s) == s.me.stage = "mounted" => s.me.announced = s.me.cred /\ s.me.cred = s.shared

\* The same document, which has reported what it had.
SameReport(s, n) == n.me.stage = s.me.stage /\ n.me.announced = s.me.announced

LEMMA HelpersReport ==
  ASSUME NEW s \in StateSet
  PROVE  /\ SameReport(s, EndIdentity(s))
         /\ \A status \in Status : SameReport(s, Show(s, status))
         /\ \A token \in Token \cup {None} : SameReport(s, Bind(s, token))
         /\ \A token \in Token : /\ Write(s, token).me.stage = s.me.stage
                                 /\ Write(s, token).me.announced = token
         /\ Clear(s).me.stage = s.me.stage /\ Clear(s).me.announced = None
<1>1. s.me \in Provider
  BY DEF StateSet
<1>2. SameReport(s, EndIdentity(s))
  <2>1. EndIdentity(s).me = [s.me EXCEPT !.data = NoData]
    BY DEF EndIdentity, StateSet
  <2> QED
    BY <1>1, <2>1 DEF SameReport, Provider
<1>3. ASSUME NEW status \in Status PROVE SameReport(s, Show(s, status))
  BY <1>1 DEF SameReport, Show, StateSet, Provider
<1>4. ASSUME NEW token \in Token \cup {None} PROVE SameReport(s, Bind(s, token))
  BY <1>1 DEF SameReport, Bind, StateSet, Provider
<1>5. ASSUME NEW token \in Token
      PROVE  Write(s, token).me.stage = s.me.stage /\ Write(s, token).me.announced = token
  BY <1>1 DEF Write, StateSet, Provider
<1>6. Clear(s).me.stage = s.me.stage /\ Clear(s).me.announced = None
  BY <1>1 DEF Clear, StateSet, Provider
<1> QED
  BY <1>2, <1>3, <1>4, <1>5, <1>6

\* The same document, bound to what it was bound to, with the store as it was.
SameBinding(s, n) ==
    SameReport(s, n) /\ n \in StateSet /\ n.shared = s.shared /\ n.me.cred = s.me.cred

LEMMA StartReports ==
  ASSUME NEW s \in StateSet, NEW kind \in {"validate", "login", "me", "logout", "data"},
         NEW token \in Token \cup {None}, NEW boundary \in Token \cup {None}
  PROVE  SameBinding(s, StartIdentity(s, kind, token, boundary))
<1> DEFINE e == EndIdentity(s)
           o == Request(kind, TRUE, token, boundary)
           n == StartIdentity(s, kind, token, boundary)
<1>1. e \in StateSet /\ SameReport(s, e)
  BY EndIdentityQuiets, HelpersReport
<1>2. n = [e EXCEPT !.ops = @ \cup {o}]
  BY DEF StartIdentity
<1>3. Started(s, n, o)
  BY StartFacts
<1> HIDE DEF e, o, n
<1>4. n.me = e.me
  BY <1>1, <1>2 DEF StateSet
<1> QED
  BY <1>1, <1>3, <1>4 DEF SameBinding, SameReport, Started, n

LEMMA SignOutReports ==
  ASSUME NEW s \in StateSet
  PROVE  /\ SameReport(s, SignOut(s)) /\ SignOut(s) \in StateSet
         /\ SignOut(s).shared = s.shared /\ SignOut(s).me.cred = None
<1> DEFINE e == EndIdentity(s)
           b == Bind(e, None)
<1>0. None \in Token \cup {None} /\ "anonymous" \in Status
  BY DEF Status
<1>1. e \in StateSet /\ SameReport(s, e)
  BY EndIdentityQuiets, HelpersReport
<1>2. SignOut(s) = Show(b, "anonymous")
  BY DEF SignOut
<1> HIDE DEF e
<1>3. b \in StateSet /\ SameReport(e, b)
  BY <1>0, <1>1, BindFacts, HelpersReport
<1> HIDE DEF b
<1>4. SameReport(b, Show(b, "anonymous")) /\ Show(b, "anonymous") \in StateSet
  BY <1>0, <1>3, HelpersReport, ShowFacts
<1> QED
  BY <1>1, <1>2, <1>3, <1>4, SignOutIsSound DEF SameReport

LEMMA RestoreReports ==
  ASSUME NEW s \in StateSet, NEW token \in Token
  PROVE  /\ SameReport(s, Restore(s, token)) /\ Restore(s, token).shared = s.shared
         /\ Restore(s, token).me.cred = token
<1> DEFINE n == StartIdentity(s, "validate", token, None)
           b == Bind(n, token)
<1>0. token \in Token \cup {None} /\ None \in Token \cup {None} /\ "restoring" \in Status
  BY DEF Status
<1>1. SameReport(s, n) /\ n \in StateSet /\ n.shared = s.shared
  BY <1>0, StartReports DEF SameBinding
<1>2. Restore(s, token) = Show(b, "restoring")
  BY DEF Restore
<1> HIDE DEF n
<1>3. b \in StateSet /\ SameReport(n, b) /\ b.me.cred = token /\ b.shared = n.shared
  BY <1>0, <1>1, BindFacts, HelpersReport
<1> HIDE DEF b
<1> DEFINE r == Show(b, "restoring")
<1>4. SameReport(b, r) /\ r.me.cred = b.me.cred /\ r.shared = b.shared
  BY <1>0, <1>3, ShowFacts, HelpersReport
<1> HIDE DEF r
<1>5. Restore(s, token) = r
  BY <1>2 DEF r
<1> QED
  BY <1>1, <1>3, <1>4, <1>5 DEF SameReport

\* Following the store binds what is stored.
LEMMA SyncReports ==
  ASSUME NEW s \in StateSet, NEW value \in Token \cup {None}
  PROVE  /\ SameReport(s, SyncFromStorage(s, value))
         /\ SyncFromStorage(s, value).shared = s.shared
         /\ SyncFromStorage(s, value).me.cred = value
<1>1. CASE value = s.me.cred /\ value = None /\ s.me.status = "restoring"
  <2>1. SyncFromStorage(s, value) = Show(s, "anonymous") /\ "anonymous" \in Status
    BY <1>1 DEF SyncFromStorage, Status
  <2>2. /\ SameReport(s, Show(s, "anonymous")) /\ Show(s, "anonymous").shared = s.shared
        /\ Show(s, "anonymous").me.cred = s.me.cred
    BY <2>1, ShowFacts, HelpersReport
  <2> QED
    BY <1>1, <2>1, <2>2
<1>2. CASE value = s.me.cred /\ ~(value = None /\ s.me.status = "restoring")
  <2>1. SyncFromStorage(s, value) = s
    BY <1>2 DEF SyncFromStorage
  <2> QED
    BY <1>2, <2>1 DEF SameReport
<1>3. CASE value # s.me.cred /\ value = None
  <2>1. SyncFromStorage(s, value) = SignOut(s)
    BY <1>3 DEF SyncFromStorage
  <2> QED
    BY <1>3, <2>1, SignOutReports
<1>4. CASE value # s.me.cred /\ value # None
  <2>1. SyncFromStorage(s, value) = Restore(s, value)
    BY <1>4 DEF SyncFromStorage
  <2> QED
    BY <1>4, <2>1, RestoreReports
<1> QED
  BY <1>1, <1>2, <1>3, <1>4

\* A tab that signs out with the store emptied is in touch.
LEMMA ClearedIsInTouch ==
  ASSUME NEW s \in StateSet, s.me.cred = None PROVE InTouch(Clear(s))
BY ClearFacts, HelpersReport DEF InTouch

LEMMA FinishLogoutInTouch ==
  ASSUME NEW s \in StateSet, InTouch(s)
  PROVE  InTouch(FinishLogout(s, s.me.cred))
<1> DEFINE c == IF s.shared \in {s.me.cred, None} THEN Clear(s) ELSE s
           b == Bind(c, None)
<1>0. None \in Token \cup {None} /\ "anonymous" \in Status
  BY DEF Status
<1>1. FinishLogout(s, s.me.cred) = Show(b, "anonymous")
  BY DEF FinishLogout
<1>2. /\ c \in StateSet /\ c.me.stage = s.me.stage
      /\ s.me.stage = "mounted" => c.shared = None /\ c.me.announced = None
  BY ClearFacts, HelpersReport DEF InTouch
<1> HIDE DEF c
<1>3. /\ b \in StateSet /\ b.me.stage = s.me.stage /\ b.me.cred = None
      /\ s.me.stage = "mounted" => b.shared = None /\ b.me.announced = None
  BY <1>0, <1>2, BindFacts, HelpersReport DEF SameReport
<1> HIDE DEF b
<1> DEFINE n == Show(b, "anonymous")
<1>4. /\ n.me.stage = s.me.stage /\ n.me.cred = None
      /\ s.me.stage = "mounted" => n.shared = None /\ n.me.announced = None
  BY <1>0, <1>3, ShowFacts, HelpersReport DEF SameReport
<1> HIDE DEF n
<1>5. FinishLogout(s, s.me.cred) = n
  BY <1>1 DEF n
<1> QED
  BY <1>4, <1>5 DEF InTouch

LEMMA CaughtInTouch ==
  ASSUME NEW s \in StateSet, InTouch(s), NEW o, Serves(s.me, o), NEW unauthorized \in BOOLEAN
  PROVE  InTouch(Caught(s, o, unauthorized))
<1>0. None \in Token \cup {None} /\ {"anonymous", "unavailable"} \subseteq Status
  BY DEF Status
<1>1. CASE o.kind = "me" /\ s.shared = o.token
  <2>1. Caught(s, o, unauthorized) = Clear(Bind(s, None))
    BY <1>1 DEF Caught
  <2>2. Bind(s, None) \in StateSet /\ Bind(s, None).me.cred = None
    BY <1>0, BindFacts
  <2> QED
    BY <2>1, <2>2, ClearedIsInTouch
<1>2. CASE o.kind = "validate" /\ unauthorized
  <2> DEFINE c == IF s.shared = o.token THEN Clear(s) ELSE s
             b == Bind(c, None)
             n == Show(b, "anonymous")
  <2>1. o.token = s.me.cred
    BY <1>2 DEF Serves
  <2>2. /\ c \in StateSet /\ c.me.stage = s.me.stage
        /\ s.me.stage = "mounted" => c.shared = None /\ c.me.announced = None
    BY <2>1, ClearFacts, HelpersReport DEF InTouch
  <2>3. Caught(s, o, unauthorized) = n
    BY <1>2 DEF Caught
  <2> HIDE DEF c
  <2>4. /\ b \in StateSet /\ b.me.stage = s.me.stage /\ b.me.cred = None
        /\ s.me.stage = "mounted" => b.shared = None /\ b.me.announced = None
    BY <1>0, <2>2, BindFacts, HelpersReport DEF SameReport
  <2> HIDE DEF b
  <2>5. /\ n.me.stage = s.me.stage /\ n.me.cred = None
        /\ s.me.stage = "mounted" => n.shared = None /\ n.me.announced = None
    BY <1>0, <2>4, ShowFacts, HelpersReport DEF SameReport
  <2> HIDE DEF n
  <2> QED
    BY <2>3, <2>5 DEF InTouch
<1>3. CASE o.kind = "validate" /\ ~unauthorized
  <2> DEFINE n == Show(s, "unavailable")
  <2>1. n.me.cred = s.me.cred /\ n.shared = s.shared /\ SameReport(s, n)
    BY <1>0, ShowFacts, HelpersReport
  <2>2. Caught(s, o, unauthorized) = n
    BY <1>3 DEF Caught
  <2> HIDE DEF n
  <2> QED
    BY <2>1, <2>2 DEF InTouch, SameReport
<1>4. CASE o.kind = "logout"
  <2>1. Caught(s, o, unauthorized) = FinishLogout(s, s.me.cred)
    BY <1>4 DEF Caught, Serves
  <2> QED
    BY <2>1, FinishLogoutInTouch
<1>5. CASE o.kind \notin {"validate", "logout"} /\ ~(o.kind = "me" /\ s.shared = o.token)
  BY <1>5 DEF Caught
<1> QED
  BY <1>1, <1>2, <1>3, <1>4, <1>5

\* A tab that reconciles with what is stored already is left in touch.
LEMMA ReconcileInTouch ==
  ASSUME NEW s \in StateSet, InTouch(s) PROVE InTouch(Reconcile(s))
<1>1. s.shared \in Token \cup {None}
  BY DEF StateSet
<1>2. CASE s.me.stage = "mounted"
  <2> DEFINE n == SyncFromStorage(s, s.shared)
  <2>1. SameReport(s, n) /\ n.shared = s.shared /\ n.me.cred = s.shared
    BY <1>1, SyncReports
  <2>2. Reconcile(s) = n
    BY <1>2 DEF Reconcile
  <2> HIDE DEF n
  <2> QED
    BY <1>2, <2>1, <2>2 DEF InTouch, SameReport
<1>3. CASE s.me.stage # "mounted"
  BY <1>3 DEF Reconcile
<1> QED
  BY <1>2, <1>3

LEMMA UnauthorizedInTouch ==
  ASSUME NEW s \in StateSet, InTouch(s), NEW token PROVE InTouch(OnUnauthorized(s, token))
<1>1. SignOut(s) \in StateSet /\ SignOut(s).me.cred = None
  BY SignOutReports
<1> QED
  BY <1>1, ClearedIsInTouch DEF OnUnauthorized

LEMMA AuthenticateInTouch ==
  ASSUME NEW s \in StateSet, InTouch(s), NEW token \in Token PROVE InTouch(Authenticate(s, token))
<1> DEFINE n == Authenticate(s, token)
<1>1. n.me.stage = s.me.stage /\ n.me.announced = s.me.announced /\ n.me.cred = s.me.cred
      /\ n.shared = s.shared
  BY DEF Authenticate, StateSet, Provider
<1> HIDE DEF n
<1> QED
  BY <1>1 DEF InTouch, n

-----------------------------------------------------------------------------
\* A step of a tab leaves it in touch, and the others something to hear.
LEMMA BecomeFollows ==
  ASSUME AuthInv, FollowInv, NEW t \in Tab, NEW s, InTouch(s), Become(t, s)
  PROVE  FollowInv'
<1>1. tab \in [Tab -> Provider] /\ notices \in [Tab -> Nat]
  BY DEF AuthInv, AuthTypeOK
<1>2. ASSUME NEW u \in Tab, u # t, tab'[u].stage = "mounted"
      PROVE  /\ tab'[u].announced = tab'[u].cred
             /\ notices'[u] = 0 => tab'[u].cred = shared'
  <2>1. tab'[u] = tab[u] /\ shared' = s.shared
    BY <1>1, <1>2 DEF Become
  <2>2. tab[u].announced = tab[u].cred /\ (notices[u] = 0 => tab[u].cred = shared)
    BY <1>2, <2>1 DEF FollowInv
  <2>3. CASE s.shared = shared
    BY <2>1, <2>2, <2>3 DEF Become
  <2>4. CASE s.shared # shared
    <3>1. notices'[u] = notices[u] + 1
      BY <1>2, <2>1, <2>4 DEF Become
    <3> QED
      BY <1>1, <2>1, <2>2, <3>1
  <2> QED
    BY <2>3, <2>4
<1>3. tab'[t] = s.me /\ shared' = s.shared
  BY <1>1 DEF Become
<1> QED
  BY <1>2, <1>3 DEF FollowInv, InTouch

LEMMA DocumentFollows ==
  ASSUME AuthInv, FollowInv, NEW t \in Tab, Render(t) \/ Subscribe(t) \/ Unmount(t) \/ Deliver(t)
  PROVE  FollowInv'
<1>1. /\ State(t) \in StateSet /\ State(t).me = tab[t] /\ State(t).shared = shared
      /\ tab[t] \in Provider /\ shared \in Token \cup {None}
  BY TabIsSound
<1>2. tab \in [Tab -> Provider] /\ notices \in [Tab -> Nat]
  BY DEF AuthInv, AuthTypeOK
<1>3. CASE Render(t)
  <2>1. \A u \in Tab : IF u = t THEN tab'[u].stage = "rendered" ELSE tab'[u] = tab[u]
    BY <1>2, <1>3 DEF Render, Unmounted
  <2> QED
    BY <1>3, <2>1 DEF Render, FollowInv
<1>4. CASE Subscribe(t)
  <2> DEFINE n == [State(t) EXCEPT !.me.stage = "mounted", !.me.announced = shared]
             s == SyncFromStorage(n, shared)
  <2>1. n \in StateSet /\ n.me.announced = shared /\ n.shared = shared
    BY <1>1 DEF StateSet, Provider, Stage
  <2>2. Become(t, s)
    BY <1>4 DEF Subscribe
  <2> HIDE DEF n
  <2>3. SameReport(n, s) /\ s.shared = shared /\ s.me.cred = shared
    BY <1>1, <2>1, SyncReports
  <2> HIDE DEF s
  <2>4. InTouch(s)
    BY <2>1, <2>3 DEF InTouch, SameReport
  <2> QED
    BY <2>2, <2>4, BecomeFollows
<1>5. CASE Unmount(t)
  <2>1. \A u \in Tab : IF u = t THEN tab'[u].stage = "unmounted"
                       ELSE tab'[u] = tab[u] /\ notices'[u] = notices[u]
    BY <1>2, <1>5 DEF Unmount, Unmounted
  <2> QED
    BY <1>5, <2>1 DEF Unmount, FollowInv
<1>6. CASE Deliver(t)
  <2> DEFINE n == [State(t) EXCEPT !.me.announced = shared]
             s == SyncFromStorage(n, shared)
             heard == tab[t].stage = "mounted" /\ shared # tab[t].announced
  <2>1. n \in StateSet /\ n.me.announced = shared /\ n.shared = shared
    BY <1>1 DEF StateSet, Provider
  <2>2. tab' = IF heard THEN [tab EXCEPT ![t] = s.me] ELSE tab
    BY <1>6 DEF Deliver
  <2> HIDE DEF n
  <2>3. SameReport(n, s) /\ s.me.cred = shared
    BY <1>1, <2>1, SyncReports
  <2> HIDE DEF s
  <2>4. shared' = shared /\ \A u \in Tab : u # t => tab'[u] = tab[u] /\ notices'[u] = notices[u]
    BY <1>2, <1>6, <2>2 DEF Deliver
  <2>5. tab'[t].stage = "mounted" => tab'[t].announced = shared /\ tab'[t].cred = shared
    <3>1. CASE heard
      BY <1>2, <2>1, <2>2, <2>3, <3>1 DEF SameReport
    <3>2. CASE ~heard
      BY <2>2, <3>2 DEF FollowInv
    <3> QED
      BY <3>1, <3>2
  <2> QED
    BY <2>4, <2>5 DEF FollowInv
<1> QED
  BY <1>3, <1>4, <1>5, <1>6

\* A tab that may act has heard every notification.
LEMMA ActsInTouch ==
  ASSUME AuthInv, FollowInv, NEW t \in Tab, notices[t] = 0
  PROVE  InTouch(State(t))
BY TabIsSound DEF FollowInv, InTouch

LEMMA UserFollows ==
  ASSUME AuthInv, FollowInv, ~NoticesMayBeLate, NEW t \in Tab, UserStep(t)
  PROVE  FollowInv'
<1>1. /\ State(t) \in StateSet /\ State(t).me = tab[t] /\ State(t).shared = shared
      /\ tab[t] \in Provider /\ Bound(tab[t]) /\ shared \in Token \cup {None}
  BY TabIsSound
<1>2. notices[t] = 0
  BY DEF UserStep, Login, Logout, RetryRestore, SignOutLocally, DataRequest, CanAct
<1>3. InTouch(State(t))
  BY <1>2, ActsInTouch
<1>4. None \in Token \cup {None}
  OBVIOUS
<1>5. CASE Login(t)
  <2> DEFINE s == StartIdentity(State(t), "login", None, shared)
  <2>0. "login" \in {"validate", "login", "me", "logout", "data"}
    OBVIOUS
  <2>1. SameReport(State(t), s) /\ s.shared = shared /\ s.me.cred = State(t).me.cred
    <3>1. SameBinding(State(t), s)
      BY <1>1, <1>4, <2>0, StartReports
    <3> QED
      BY <1>1, <3>1 DEF SameBinding
  <2>2. Become(t, s)
    BY <1>5 DEF Login
  <2> HIDE DEF s
  <2> QED
    BY <1>1, <1>3, <2>1, <2>2, BecomeFollows DEF InTouch, SameReport
<1>6. CASE Logout(t)
  <2> DEFINE s == StartIdentity(State(t), "logout", tab[t].cred, None)
  <2>0. "logout" \in {"validate", "login", "me", "logout", "data"}
    OBVIOUS
  <2>1. tab[t].cred # None /\ tab[t].cred \in Token \cup {None}
    BY <1>1, <1>6 DEF Logout, Bound, Provider
  <2>2. SameReport(State(t), s) /\ s.shared = shared /\ s.me.cred = State(t).me.cred
    <3>1. SameBinding(State(t), s)
      BY <1>1, <1>4, <2>0, <2>1, StartReports
    <3> QED
      BY <1>1, <3>1 DEF SameBinding
  <2>3. Become(t, s)
    BY <1>6, <2>1 DEF Logout
  <2> HIDE DEF s
  <2> QED
    BY <1>1, <1>3, <2>2, <2>3, BecomeFollows DEF InTouch, SameReport
<1>7. CASE RetryRestore(t)
  <2> DEFINE s == IF shared = None THEN SignOut(State(t)) ELSE Restore(State(t), shared)
  <2>1. SameReport(State(t), s) /\ s.shared = shared /\ s.me.cred = shared
    BY <1>1, SignOutReports, RestoreReports
  <2>2. Become(t, s) /\ tab[t].stage = "mounted"
    BY <1>7 DEF RetryRestore, CanAct
  <2> HIDE DEF s
  <2> QED
    BY <1>1, <1>3, <2>1, <2>2, BecomeFollows DEF InTouch, SameReport
<1>8. CASE SignOutLocally(t)
  <2>1. SignOut(State(t)) \in StateSet /\ SignOut(State(t)).me.cred = None
    BY <1>1, SignOutReports
  <2>2. InTouch(Clear(SignOut(State(t))))
    BY <2>1, ClearedIsInTouch
  <2> QED
    BY <1>8, <2>2, BecomeFollows DEF SignOutLocally
<1>9. CASE DataRequest(t)
  BY <1>9 DEF DataRequest, FollowInv
<1> QED
  BY <1>5, <1>6, <1>7, <1>8, <1>9 DEF UserStep

LEMMA AnswerFollows ==
  ASSUME AuthInv, FollowInv, ~NoticesMayBeLate, NEW t \in Tab, NEW o \in ops[t], Settle(t, o)
  PROVE  FollowInv'
<1> DEFINE w == Without(t, o)
<1>1. /\ w \in StateSet /\ w.me = tab[t] /\ w.shared = shared /\ o \in Op
      /\ o.current => Serves(w.me, o)
  BY WithoutFacts
<1>2. notices[t] = 0
  BY DEF Settle, LoginAnswered, MeAnswered, ValidateAnswered, LogoutAnswered, DataAnswered,
         Rejected, Failed, Answered, Arrives
<1> HIDE DEF w
<1>3. InTouch(w)
  BY <1>1, <1>2, ActsInTouch, TabIsSound DEF InTouch
<1>4. ASSUME NEW s, InTouch(s), Become(t, s) PROVE FollowInv'
  BY <1>4, BecomeFollows
<1>5. CASE LoginAnswered(t, o)
  <2>1. PICK token \in Token \ issued :
            Become(t, IF MayStore(o)
                      THEN LET s == Bind(Write(w, token), token)
                               me == [Request("me", TRUE, token, None) EXCEPT !.accepted = TRUE]
                           IN  [s EXCEPT !.ops = @ \cup {me}]
                      ELSE Reconcile(w))
    BY <1>5 DEF LoginAnswered, w
  <2>2. CASE MayStore(o)
    <3> DEFINE v == Write(w, token)
               b == Bind(v, token)
               me == [Request("me", TRUE, token, None) EXCEPT !.accepted = TRUE]
               s == [b EXCEPT !.ops = @ \cup {me}]
    <3>1. Become(t, s)
      BY <2>1, <2>2
    <3>2. v \in StateSet /\ v.shared = token /\ v.me.announced = token
      BY <1>1, WriteFacts, HelpersReport
    <3> HIDE DEF v
    <3>3. b \in StateSet /\ b.shared = token /\ b.me.announced = token /\ b.me.cred = token
      BY <3>2, BindFacts, HelpersReport DEF SameReport
    <3> HIDE DEF b, me
    <3>4. s.me = b.me /\ s.shared = b.shared
      BY <3>3 DEF StateSet
    <3> HIDE DEF s
    <3> QED
      BY <1>4, <3>1, <3>3, <3>4 DEF InTouch
  <2>3. CASE ~MayStore(o)
    BY <1>1, <1>3, <1>4, <2>1, <2>3, ReconcileInTouch
  <2> QED
    BY <2>2, <2>3
<1>6. CASE MeAnswered(t, o)
  <2>1. CASE ~o.current
    BY <1>3, <1>4, <1>6, <2>1 DEF MeAnswered, w
  <2>2. CASE o.current /\ shared # o.token
    BY <1>1, <1>3, <1>4, <1>6, <2>2, ReconcileInTouch DEF MeAnswered, w
  <2>3. CASE o.current /\ shared = o.token
    <3>1. o.token \in Token
      BY <1>1, <1>6, <2>3 DEF Serves, Op, MeAnswered, Answered
    <3>2. Become(t, Authenticate(w, o.token))
      BY <1>6, <2>3 DEF MeAnswered, w
    <3> QED
      BY <1>1, <1>3, <1>4, <3>1, <3>2, AuthenticateInTouch
  <2> QED
    BY <2>1, <2>2, <2>3
<1>7. CASE ValidateAnswered(t, o)
  <2>1. CASE ~o.current
    BY <1>3, <1>4, <1>7, <2>1 DEF ValidateAnswered, w
  <2>2. CASE o.current
    <3>1. o.token \in Token
      BY <1>1, <1>7, <2>2 DEF Serves, Op, ValidateAnswered, Answered
    <3>2. Become(t, Authenticate(w, o.token))
      BY <1>7, <2>2 DEF ValidateAnswered, w
    <3> QED
      BY <1>1, <1>3, <1>4, <3>1, <3>2, AuthenticateInTouch
  <2> QED
    BY <2>1, <2>2
<1>8. CASE LogoutAnswered(t, o)
  <2>1. CASE ~o.current
    BY <1>3, <1>4, <1>8, <2>1 DEF LogoutAnswered, w
  <2>2. CASE o.current
    <3>1. o.token = w.me.cred
      BY <1>1, <1>8, <2>2 DEF Serves, LogoutAnswered, Answered
    <3>2. Become(t, FinishLogout(w, w.me.cred))
      BY <1>8, <2>2, <3>1 DEF LogoutAnswered, w
    <3> QED
      BY <1>1, <1>3, <1>4, <3>2, FinishLogoutInTouch
  <2> QED
    BY <2>1, <2>2
<1>9. CASE DataAnswered(t, o)
  BY <1>3, <1>4, <1>9 DEF DataAnswered, w
<1>10. CASE Rejected(t, o)
  <2> DEFINE acts == o.token = tab[t].cred /\ shared = o.token
             s == OnUnauthorized(w, o.token)
  <2>0. Become(t, IF o.current /\ ~acts THEN Caught(s, o, TRUE) ELSE s)
    BY <1>10 DEF Rejected, w
  <2>1. CASE o.current /\ ~acts
    <3>1. s = w
      BY <1>1, <2>1 DEF OnUnauthorized
    <3>2. InTouch(Caught(w, o, TRUE))
      BY <1>1, <1>3, <2>1, CaughtInTouch
    <3> QED
      BY <1>4, <2>0, <2>1, <3>1, <3>2
  <2>2. CASE ~(o.current /\ ~acts)
    <3>1. InTouch(s)
      BY <1>1, <1>3, UnauthorizedInTouch
    <3> HIDE DEF s
    <3> QED
      BY <1>4, <2>0, <2>2, <3>1
  <2> QED
    BY <2>1, <2>2
<1>11. CASE Failed(t, o)
  <2>1. CASE o.current
    <3>1. Become(t, Caught(w, o, FALSE))
      BY <1>11, <2>1 DEF Failed, w
    <3>2. InTouch(Caught(w, o, FALSE))
      BY <1>1, <1>3, <2>1, CaughtInTouch
    <3> QED
      BY <1>4, <3>1, <3>2
  <2>2. CASE ~o.current
    BY <1>3, <1>4, <1>11, <2>2 DEF Failed, w
  <2> QED
    BY <2>1, <2>2
<1> QED
  BY <1>5, <1>6, <1>7, <1>8, <1>9, <1>10, <1>11 DEF Settle

\* TabsFollowTheStore, for any number of tabs, tokens, users and requests, when a
\* notification comes before the next answer and the next click: a tab that has heard
\* every notification is bound to the stored credential, whichever tabs signed in, out
\* or lost their session, and in whatever order (syncFromStorage, subscribeToToken).
THEOREM TabsFollow ==
  ASSUME ~NoticesMayBeLate PROVE Spec => []TabsFollowTheStore
<1>1. AuthInit => FollowInv
  BY DEF AuthInit, FollowInv, Unmounted
<1>2. AuthInv /\ FollowInv /\ [Next]_vars => FollowInv'
  <2> SUFFICES ASSUME AuthInv, FollowInv, [Next]_vars PROVE FollowInv'
    OBVIOUS
  <2>1. CASE Expire \/ UNCHANGED vars
    BY <2>1 DEF Expire, vars, FollowInv
  <2>2. ASSUME NEW t \in Tab, TabStep(t) PROVE FollowInv'
    BY <2>2, DocumentFollows, UserFollows, AnswerFollows DEF TabStep
  <2> QED
    BY <2>1, <2>2 DEF Next
<1>3. FollowInv => TabsFollowTheStore
  BY DEF FollowInv, TabsFollowTheStore
<1> QED
  BY InitAuthInv, StepKeepsAuth, <1>1, <1>2, <1>3, PTL DEF Spec
=============================================================================
