---------------------------- MODULE ContractScreen ----------------------------
(***************************************************************************)
(* The screens that use an injected wallet: the panel of the overview,     *)
(* which may ask for access, and the contract page, where one control of a *)
(* row, the form, or the receipt of a sent transaction is used while the   *)
(* wallet, the contract and the rows change under it; and the reads the    *)
(* overview makes of a connected wallet.                                   *)
(***************************************************************************)
EXTENDS MultisigDesk, ReceiptCheck, GatedReads

CONSTANTS MaxMoves,  \* bound, for each scene: changes of mind of the wallet
          MaxFaults  \* bound: failures and unreadable payloads of the wallet

vars == <<walletVars, deskVars, receiptVars, gateVars>>

Rest == <<receiptVars, gateVars>>

Controls == {"confirm", "revoke", "execute", "status", "submit"}

\* The bounds are numbers, and a control finds a proposal in some state.
ASSUME SceneAssumption ==
    /\ MaxFaults \in Nat
    /\ \A kind \in Controls \cup {"panel", "receipt", "reads"} :
           MaxMoves[kind] \in Nat /\ Beginnings[kind] \subseteq Proposal

On(scene) == desk.kind = scene

Init ==
    /\ \/ WalletLoad(MaxMoves["panel"], MaxFaults) /\ DeskInit("panel") /\ wallet.chain = Home
       \/ \E kind \in Controls \cup {"receipt", "reads"} :
              /\ WalletConnected(kind \notin Controls \ {"submit"}, MaxMoves[kind])
              /\ DeskInit(kind)
              /\ kind \in Controls => hook.state \in {Connected(a, Home) : a \in Owner}
    /\ ReceiptInit /\ GateInit(IF On("reads") THEN {1, 3} ELSE {1})

\* The panel draws the state and offers a press by what it drew.
DrawPanel ==
    /\ hook.mounted
    /\ hook' = [hook EXCEPT !.drawn = hook.state]
    /\ UNCHANGED <<wallet, news, asks>>

LeavePanel ==
    /\ hook.mounted
    /\ hook' = LeaveWallet(hook)
    /\ UNCHANGED <<wallet, news, asks>>

PanelStep == On("panel") /\ (Connect \/ DrawPanel \/ LeavePanel) /\ UNCHANGED <<deskVars, Rest>>

\* Bound: under a row the wallet itself moves while something is asked of it.
WalletStep ==
    /\ desk.kind \notin Controls \ {"submit"} \/ (calls # {} /\ desk.moves = 0)
    /\ WalletMoves
    /\ UNCHANGED <<deskVars, Rest>>

DeskStep == desk.kind \in Controls /\ DeskNext /\ UNCHANGED Rest

ReceiptStep == On("receipt") /\ ReceiptNext /\ UNCHANGED <<deskVars, gateVars>>

GateStep == On("reads") /\ GateNext /\ UNCHANGED <<deskVars, receiptVars>>

Next == PanelStep \/ WalletStep \/ DeskStep \/ ReceiptStep \/ GateStep

Spec == Init /\ [][Next]_vars
-----------------------------------------------------------------------------
\* Types.
ScreenTypeOK == WalletTypeOK /\ DeskTypeOK

\* No screen waits for an answer that nobody owes it: whatever the wallet announces and
\* however attempts are retired, what says checking, connecting, sending or loading has
\* a request that will settle it.
NothingWaitsInVain == HookIsNotStranded /\ WaitingHasACall /\ ReadingHasARequest

\* The refs that outlive renders hold: one permission prompt, one send of a control, one
\* receipt and one refresh at a time.
OneAtATime == OnePromptAtATime /\ OneSendAtATime /\ OneReceiptAtATime

\* What is said of a transaction, and of its event, is said of this receipt.
SaidOfThisReceipt == ReceiptIsThisTransactions /\ ClaimsFollowTheReceipt
=============================================================================
