---------------------------- MODULE BrowserWallet ----------------------------
(***************************************************************************)
(* useBrowserWallet: the account and the chain of an injected wallet.      *)
(*                                                                         *)
(* The wallet is another program.  It decides an answer at one moment and  *)
(* the page hears of it at another, in any order against the other answers *)
(* and against the events the wallet announces, which keep their order.    *)
(* A state set by the hook is drawn by a later render.                     *)
(***************************************************************************)
EXTENDS Naturals, Sequences, FiniteSets

CONSTANTS Account, Chain,
          None,         \* null: nothing answered yet, no account, no chain
          Nobody,       \* the empty account list
          Unreadable,   \* a payload that no parser accepts
          Declined,     \* error 4001
          Failed,       \* any other rejection
          MaxConnects   \* bound: presses of Connect wallet

\* What stands for no answer, or for an unusable one, is no account and no chain.
ASSUME WalletAssumption ==
    {None, Nobody, Unreadable, Declined, Failed} \cap (Account \cup Chain) = {}

VARIABLES wallet,  \* what the wallet is on, and its use of the bounds
          news,    \* events announced and not yet heard, oldest first
          hook,    \* state, refs and last drawn state of the hook
          asks     \* the hook's requests, answered by the wallet or not

walletVars == <<wallet, news, hook, asks>>

Waiting(status) == [status |-> status, account |-> None, chain |-> None]

Connected(account, chain) ==
    [status |-> "connected", account |-> account, chain |-> chain]

Ask(step, attempt, since, account, connect) ==
    [step |-> step, attempt |-> attempt, since |-> since, account |-> account,
     connect |-> connect, said |-> None]

\* apply: an answer of a newer attempt or of a screen that is gone changes nothing.
Apply(h, attempt, state) ==
    IF h.mounted /\ h.attempt = attempt THEN [h EXCEPT !.state = state] ELSE h

Retired(h) == [h EXCEPT !.attempt = @ + 1]
\* readChain prefers a chain announced after the attempt began to its answer.
ChainAsAnswered(c) == c.said
ChainNow(c) == IF hook.seq # c.since THEN hook.announced ELSE c.said

HasAnyChain(c) == c.said # Failed
HasChain(c) == c.said # Failed /\ ChainNow(c) \in Chain

\* The finally of connect, at the end of its last request.
Finished(h, c) == IF c.connect THEN [h EXCEPT !.connecting = FALSE] ELSE h
-----------------------------------------------------------------------------
\* Before the first effects: without a provider there is nobody to ask.
NewHook(state) ==
    [state |-> state, drawn |-> state, attempt |-> 1, connecting |-> FALSE,
     seq |-> 0, announced |-> None, mounted |-> TRUE, connects |-> 0]

\* Bound: the changes of mind and the faults the wallet has left.
NewWallet(account, chain, listening, moves, faults) ==
    [account |-> account, chain |-> chain, listening |-> listening,
     moves |-> moves, faults |-> faults]

\* The quiet read at load, and the subscription of a provider that can unsubscribe.
WalletLoad(moves, faults) ==
    /\ \E a \in Account \cup {Nobody}, c \in Chain, l \in BOOLEAN :
           wallet = NewWallet(a, c, l, moves, faults)
    /\ news = <<>>
    /\ \/ hook = NewHook(Waiting("unsupported")) /\ asks = {} /\ ~wallet.listening
       \/ /\ hook = NewHook(Waiting("checking"))
          /\ asks = {Ask("accounts", 1, 0, None, FALSE)}

\* The quiet read is over and found the wallet connected.
WalletConnected(listening, moves) ==
    /\ \E a \in Account, c \in Chain : wallet = NewWallet(a, c, listening, moves, 0)
    /\ news = <<>>
    /\ hook = NewHook(Connected(wallet.account, wallet.chain))
    /\ asks = {}
-----------------------------------------------------------------------------
Announced(kind, payload) ==
    IF wallet.listening THEN Append(news, [kind |-> kind, payload |-> payload]) ELSE news

\* A fault of the wallet, or none.
MayFault(fault) == fault => wallet.faults > 0

\* Bound: a screen that is left only waits for its answers.
MayMove == hook.mounted /\ wallet.moves > 0

Moved(w, fault) == [w EXCEPT !.moves = @ - 1, !.faults = @ - (IF fault THEN 1 ELSE 0)]

\* The user picks another account in the wallet, or withdraws this site's access.
WalletSwitchesAccount ==
    \E account \in (Account \cup {Nobody}) \ {wallet.account}, fault \in BOOLEAN :
        /\ MayMove /\ MayFault(fault)
        /\ wallet' = Moved([wallet EXCEPT !.account = account], fault)
        /\ news' = Announced("accountsChanged", IF fault THEN Unreadable ELSE account)
        /\ UNCHANGED <<hook, asks>>

WalletSwitchesChain ==
    \E chain \in Chain \ {wallet.chain}, fault \in BOOLEAN :
        /\ MayMove /\ MayFault(fault)
        /\ wallet' = Moved([wallet EXCEPT !.chain = chain], fault)
        /\ news' = Announced("chainChanged", IF fault THEN Unreadable ELSE chain)
        /\ UNCHANGED <<hook, asks>>

\* The wallet loses its own connection.
WalletDisconnects ==
    /\ MayMove /\ MayFault(TRUE)
    /\ wallet' = Moved(wallet, TRUE)
    /\ news' = Announced("disconnect", None)
    /\ UNCHANGED <<hook, asks>>

Answered(c, said) == (asks \ {c}) \cup {[c EXCEPT !.said = said]}

\* The wallet decides an answer that needs no prompt.
WalletAnswers ==
    \E c \in asks, fault \in {None, Unreadable, Failed} :
        /\ c.said = None /\ c.step # "request"
        /\ MayFault(fault # None)
        /\ asks' = Answered(c, CASE fault # None         -> fault
                                 [] c.step = "accounts"  -> wallet.account
                                 [] c.step = "chain"     -> wallet.chain)
        /\ wallet' = [wallet EXCEPT !.faults = @ - (IF fault = None THEN 0 ELSE 1)]
        /\ UNCHANGED <<news, hook>>

\* The user answers the prompt of eth_requestAccounts; a grant is announced too.
WalletGrants ==
    \E c \in asks, account \in Account :
        /\ c.said = None /\ c.step = "request"
        /\ asks' = Answered(c, account)
        /\ wallet' = [wallet EXCEPT !.account = account]
        /\ news' = IF wallet.account = account THEN news
                   ELSE Announced("accountsChanged", account)
        /\ UNCHANGED hook

WalletRefuses ==
    \E c \in asks, said \in {Declined, Nobody, Failed, Unreadable} :
        /\ c.said = None /\ c.step = "request"
        /\ asks' = Answered(c, said)
        /\ UNCHANGED <<wallet, news, hook>>
-----------------------------------------------------------------------------
\* accounts[0], or what an unusable list leaves on the screen.
NoAccountState(said, connect) ==
    Waiting(IF said = Nobody \/ (said = Declined /\ connect) THEN "disconnected" ELSE "error")

\* eth_accounts or eth_requestAccounts is answered: the chain is asked next, by a
\* retired attempt as well.
HearAccountList ==
    \E c \in asks :
        /\ c.said # None /\ c.step \in {"accounts", "request"}
        /\ IF c.said \in Account
           THEN /\ asks' = (asks \ {c})
                             \cup {Ask("chain", c.attempt, c.since, c.said, c.connect)}
                /\ UNCHANGED hook
           ELSE /\ asks' = asks \ {c}
                /\ hook' = Finished(Apply(hook, c.attempt, NoAccountState(c.said, c.connect)), c)
        /\ UNCHANGED <<wallet, news>>

HearChainId ==
    \E c \in asks :
        /\ c.said # None /\ c.step = "chain"
        /\ asks' = asks \ {c}
        /\ hook' = Finished(Apply(hook, c.attempt,
                       IF HasChain(c)
                       THEN Connected(c.account, ChainNow(c)) ELSE Waiting("error")), c)
        /\ UNCHANGED <<wallet, news>>

\* An account change retires what is in flight and reads the chain again.
HandleAccountsChanged(payload) ==
    LET h == Retired(hook) IN
    IF payload \in Account
    THEN /\ hook' = h
         /\ asks' = asks \cup {Ask("chain", h.attempt, hook.seq, payload, FALSE)}
    ELSE /\ hook' = Apply(h, h.attempt, NoAccountState(payload, FALSE))
         /\ UNCHANGED asks
\* A chain change keeps the account, and leaves the work in flight running.
HandleChainChangedRetiring(payload) ==
    LET h == [Retired(hook) EXCEPT !.seq = @ + 1, !.announced = payload] IN
    /\ hook' = Apply(h, h.attempt,
                   IF payload = Unreadable THEN Waiting("error")
                   ELSE IF h.state.status = "connected" THEN [h.state EXCEPT !.chain = payload]
                   ELSE h.state)
    /\ UNCHANGED asks

HandleChainChanged(payload) ==
    /\ hook' = IF payload = Unreadable
               THEN Apply(Retired(hook), hook.attempt + 1, Waiting("error"))
               ELSE LET h == [hook EXCEPT !.seq = @ + 1, !.announced = payload] IN
                    Apply(h, h.attempt, IF h.state.status = "connected"
                                        THEN [h.state EXCEPT !.chain = payload] ELSE h.state)
    /\ UNCHANGED asks

HandleDisconnect ==
    /\ hook' = Apply(Retired(hook), hook.attempt + 1, Waiting("disconnected"))
    /\ UNCHANGED asks

\* The oldest announcement reaches the page, which has no listener once it has left.
HearNews ==
    /\ news # <<>> /\ hook.mounted
    /\ news' = Tail(news)
    /\ \/ Head(news).kind = "accountsChanged" /\ HandleAccountsChanged(Head(news).payload)
       \/ Head(news).kind = "chainChanged" /\ HandleChainChanged(Head(news).payload)
       \/ Head(news).kind = "disconnect" /\ HandleDisconnect
    /\ UNCHANGED wallet
\* connectingRef: a prompt of this page is open.
NeverConnecting(h) == FALSE
Connecting(h) == h.connecting

\* The Connect wallet button of the panel last drawn, refused while a prompt is open.
Connect ==
    /\ hook.mounted /\ hook.connects < MaxConnects /\ Cardinality(asks) < 2
    /\ hook.drawn.status \in {"disconnected", "error"}
    /\ ~Connecting(hook)
    /\ LET h == Retired([hook EXCEPT !.connecting = TRUE, !.connects = @ + 1]) IN
           /\ hook' = Apply(h, h.attempt, Waiting("connecting"))
           /\ asks' = asks \cup {Ask("request", h.attempt, hook.seq, None, TRUE)}
    /\ UNCHANGED <<wallet, news>>

\* The screen is gone: both cleanups retire the attempt.
LeaveWallet(h) == [Retired(Retired(h)) EXCEPT !.mounted = FALSE]

WalletMoves ==
    \/ WalletSwitchesAccount \/ WalletSwitchesChain \/ WalletDisconnects
    \/ WalletAnswers \/ WalletGrants \/ WalletRefuses
    \/ HearAccountList \/ HearChainId \/ HearNews
-----------------------------------------------------------------------------
State == {Waiting(s) : s \in {"unsupported", "checking", "disconnected", "connecting", "error"}}
            \cup {Connected(a, c) : a \in Account, c \in Chain}

\* The shape of the wallet, of its announcements and of the hook.
WalletTypeOK ==
    /\ wallet.account \in Account \cup {Nobody} /\ wallet.chain \in Chain
    /\ wallet.listening \in BOOLEAN /\ {wallet.moves, wallet.faults} \subseteq Nat
    /\ \A i \in 1 .. Len(news) : news[i].kind \in {"accountsChanged", "chainChanged", "disconnect"}
    /\ hook.state \in State /\ hook.drawn \in State
    /\ hook.attempt \in Nat /\ hook.seq \in Nat
    /\ hook.announced \in Chain \cup {None}
    /\ \A c \in asks : c.step \in {"accounts", "request", "chain"} /\ c.attempt <= hook.attempt

\* Once the page has heard everything, a wallet shown as connected is on the account
\* and on the chain shown, whatever order events and answers came in
\* (useBrowserWallet.ts, "Every answer is also checked against the attempt").
SettledWalletIsTheWallets ==
    wallet.listening /\ news = <<>> /\ asks = {} /\ hook.mounted /\ hook.state.status = "connected"
    => hook.state.account = wallet.account /\ hook.state.chain = wallet.chain

\* A screen that says it is checking or connecting has a request left that can settle
\* it: no event strands it ("would strand the screen in checking or connecting").
HookIsNotStranded ==
    hook.mounted /\ hook.state.status \in {"checking", "connecting"}
    => \E c \in asks : c.attempt = hook.attempt

\* Two permission prompts are never stacked, whatever events come between the presses.
OnePromptAtATime == Cardinality({c \in asks : c.step = "request"}) <= 1
=============================================================================
