----------------------------- MODULE ReceiptCheck -----------------------------
(***************************************************************************)
(* The receipt of one sent transaction, and the check of the indexed       *)
(* events under it (ReceiptCheck and useTransactionReceipt).  Another hash *)
(* is another component: this one has a single transaction, "this".        *)
(***************************************************************************)
EXTENDS BrowserWallet

CONSTANTS ReceiptChain,     \* the chain of the tracked contract
          MaxReceiptPresses \* bound: presses

ASSUME ReceiptAssumption == ReceiptChain \in Chain

VARIABLES receipt,  \* state, refs and last render of the check
          requests  \* receipt requests and refreshes of the events

receiptVars == <<receipt, requests>>

\* A receipt as a node holds it; another chain's may be of other transactions.
Receipt == [hash : {"this", "other"}, to : {"this", "other"}, success : BOOLEAN, block : {1, 2}]

Said(kind) == [kind |-> kind]
\* parseTransactionReceipt: identity before anything else.
IsOfThisHash(answer) == answer \in Receipt /\ answer.hash = "this"
IsThisTransaction(answer) == answer \in Receipt /\ answer.hash = "this" /\ answer.to = "this"

Parsed(answer) ==
    IF answer = None THEN Said("none")
    ELSE IF IsThisTransaction(answer) THEN [kind |-> "included", receipt |-> answer]
    ELSE Said("error")

ReceiptKey(state) ==
    IF state.kind = "included" THEN <<state.receipt.block, state.receipt.success>> ELSE <<state.kind>>

\* No request is made for a wallet that is elsewhere.
ReceiptStamp(state) ==
    IF state.status = "connected" THEN <<state.account, state.chain>> ELSE <<>>

ReceiptInit ==
    /\ receipt = [mounted |-> TRUE, attempt |-> 0, checking |-> FALSE, refreshing |-> FALSE,
                  stored |-> Said("idle"), of |-> <<>>, stamp |-> ReceiptStamp(hook.state),
                  key |-> <<"idle">>, events |-> Said("idle"), state |-> Said("idle"),
                  open |-> hook.state.status = "connected" /\ hook.state.chain = ReceiptChain,
                  claim |-> Said("idle"), presses |-> 0]
    /\ requests = {}
\* Another receipt drops what was said under the last one.
ClaimKept(r, key) == r.events
ClaimUnder(r, key) == IF key # r.key THEN Said("idle") ELSE r.events

\* A render: another stamp drops the receipt, another receipt drops the claim under it.
RenderReceipt ==
    /\ receipt.mounted
    /\ LET stamp  == ReceiptStamp(hook.state)
           stored == IF stamp # receipt.stamp THEN Said("idle") ELSE receipt.stored
           state  == IF receipt.of = stamp THEN stored ELSE Said("idle")
           events == ClaimUnder(receipt, ReceiptKey(state))
       IN receipt' = [receipt EXCEPT
              !.stamp = stamp, !.stored = stored, !.key = ReceiptKey(state), !.events = events,
              !.state = state, !.claim = events,
              !.open = hook.state.status = "connected" /\ hook.state.chain = ReceiptChain]
    /\ hook' = [hook EXCEPT !.drawn = hook.state]
    /\ UNCHANGED <<requests, wallet, news, asks>>

PressedReceipt(r) == [r EXCEPT !.presses = @ + 1]

NeverChecking(r) == FALSE
Checking(r) == r.checking

MayPressReceipt == receipt.mounted /\ receipt.presses < MaxReceiptPresses
\* Check receipt: nothing while one is being checked, for whichever account.
PressReceipt ==
    /\ MayPressReceipt
    /\ receipt.open /\ receipt.state.kind # "checking"
    /\ ~Checking(receipt)
    /\ receipt' = [PressedReceipt(receipt) EXCEPT
                     !.attempt = @ + 1, !.checking = TRUE,
                     !.stored = Said("checking"), !.of = receipt.stamp]
    /\ requests' = requests \cup {[kind |-> "receipt", attempt |-> receipt.attempt + 1,
                                   stamp |-> receipt.stamp]}
    /\ UNCHANGED walletVars

ReceiptAnswers ==
    {None, Failed, Unreadable}
        \cup (IF wallet.chain = ReceiptChain THEN {r \in Receipt : r.hash = "this" => r.to = "this"}
              ELSE Receipt)

\* A late answer of this attempt is stored under the stamp it was asked with.
HearReceipt ==
    \E c \in {k \in requests : k.kind = "receipt"}, answer \in ReceiptAnswers :
        /\ requests' = requests \ {c}
        /\ LET r == [receipt EXCEPT !.checking = FALSE] IN
           receipt' = IF r.mounted /\ r.attempt = c.attempt
                      THEN [r EXCEPT !.stored = Parsed(answer), !.of = c.stamp] ELSE r
        /\ UNCHANGED walletVars

\* Refresh indexed events, offered under a receipt that did not revert.
PressRefresh ==
    /\ MayPressReceipt
    /\ receipt.state.kind = "included" /\ receipt.state.receipt.success
    /\ receipt.claim.kind # "refreshing"
    /\ ~receipt.refreshing
    /\ receipt' = [PressedReceipt(receipt) EXCEPT !.refreshing = TRUE,
                                                  !.events = Said("refreshing")]
    /\ requests' = requests \cup {[kind |-> "refresh", press |-> receipt.presses]}
    /\ UNCHANGED walletVars

\* The refetch of the page answers with the event, without it, or not at all; no attempt
\* is compared, so an answer is taken under any receipt.
HearRefresh ==
    \E c \in {k \in requests : k.kind = "refresh"}, kind \in {"found", "not-shown", "failed"} :
        /\ requests' = requests \ {c}
        /\ receipt' = [receipt EXCEPT !.refreshing = FALSE,
                                      !.events = [kind |-> kind, under |-> receipt.key]]
        /\ UNCHANGED walletVars

LeaveReceipt ==
    /\ receipt.mounted
    /\ receipt' = [receipt EXCEPT !.mounted = FALSE, !.attempt = @ + 1, !.checking = FALSE]
    /\ hook' = LeaveWallet(hook)
    /\ UNCHANGED <<requests, wallet, news, asks>>

ReceiptNext ==
    \/ RenderReceipt \/ PressReceipt \/ HearReceipt \/ PressRefresh \/ HearRefresh \/ LeaveReceipt
-----------------------------------------------------------------------------
\* A receipt on the screen is of the transaction that was sent to this contract, and was
\* asked for by the account and on the chain shown, whatever the wallet did between the
\* press and the answer ("a well-formed receipt for something else can never be shown").
ReceiptIsThisTransactions ==
    receipt.mounted /\ receipt.state.kind = "included" =>
        /\ receipt.state.receipt.hash = "this" /\ receipt.state.receipt.to = "this"
        /\ receipt.stamp = ReceiptStamp(hook.drawn)
        /\ hook.drawn.chain = ReceiptChain

\* One receipt request and one refresh at a time, across accounts and re-checks ("a user
\* who clicks twice cannot make the wallet answer twice").
OneReceiptAtATime ==
    receipt.mounted => \A kind \in {"receipt", "refresh"} :
                           Cardinality({c \in requests : c.kind = kind}) <= 1

\* What is said of the events was answered under the very receipt it is drawn beside
\* ("Keeping the old claim next to the new answer would present a stale match").
ClaimsFollowTheReceipt ==
    receipt.mounted /\ receipt.claim.kind \in {"found", "not-shown"}
    => receipt.claim.under = ReceiptKey(receipt.state)
=============================================================================
