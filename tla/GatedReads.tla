------------------------------ MODULE GatedReads ------------------------------
(***************************************************************************)
(* The reads the overview makes on its own once a connected wallet is on a *)
(* chain of the catalog: one request for a balance (useAccountBalance),    *)
(* three for a summary of the multisig (useMultisigSummary).               *)
(***************************************************************************)
EXTENDS BrowserWallet

CONSTANTS Listed,   \* the chains of the catalog that such a read is made on
          MaxRetry  \* bound: presses of Read again

ASSUME GateAssumption == Listed \subseteq Chain

VARIABLES gate,  \* state, refs and last render of the hook
          reads  \* its requests

gateVars == <<gate, reads>>

NoResult == [kind |-> "loading", stamp |-> <<>>, era |-> 0]

Enabled(state, catalog) == catalog /\ state.status = "connected" /\ state.chain \in Listed

\* A null stamp is <<>>; another opening is another stamp.
StampOfAccount(state, enabled, nonce, opening) ==
    IF enabled THEN <<state.account, state.chain, nonce>> ELSE <<>>
GateStamp(state, enabled, nonce, opening) ==
    IF enabled THEN <<state.account, state.chain, nonce, opening>> ELSE <<>>

\* What is drawn: the result while it is of this stamp, and nothing of it otherwise.
Drawn(result, stamp) ==
    IF stamp = <<>> THEN [NoResult EXCEPT !.kind = "idle"]
    ELSE IF result.stamp = stamp THEN result ELSE NoResult

\* Nothing is enabled before the catalog is there; `era` counts the closings drawn.
GateInit(steps) ==
    /\ gate \in [steps : steps, catalog : {FALSE}, open : {FALSE}, opening : {0}, nonce : {0},
                 stamp : {<<>>}, pending : {TRUE}, attempt : {0}, mounted : {TRUE},
                 result : {NoResult}, shown : {Drawn(NoResult, <<>>)}, era : {0}]
    /\ reads = {}

GateCatalogArrives ==
    /\ gate.mounted /\ ~gate.catalog
    /\ gate' = [gate EXCEPT !.catalog = TRUE]
    /\ UNCHANGED <<reads, walletVars>>

\* useGateOpening: an opening is counted in the render that notices it.
RenderGate ==
    /\ gate.mounted /\ ~gate.pending
    /\ LET enabled == Enabled(hook.state, gate.catalog)
           opening == gate.opening + (IF enabled /\ ~gate.open THEN 1 ELSE 0)
           stamp   == GateStamp(hook.state, enabled, gate.nonce, opening)
       IN gate' = [gate EXCEPT !.open = enabled, !.opening = opening, !.stamp = stamp,
                               !.pending = stamp # gate.stamp,
                               !.shown = Drawn(gate.result, stamp),
                               !.era = @ + (IF gate.open /\ ~enabled THEN 1 ELSE 0)]
    /\ hook' = [hook EXCEPT !.drawn = hook.state]
    /\ UNCHANGED <<reads, wallet, news, asks>>

\* Every stamp retires what is in flight, and one that is not null is read.
RunGateEffect ==
    /\ gate.mounted /\ gate.pending
    /\ gate' = [gate EXCEPT !.pending = FALSE, !.attempt = @ + 1]
    /\ reads' = IF gate.stamp = <<>> THEN reads
                ELSE reads \cup {[attempt |-> gate.attempt + 1, stamp |-> gate.stamp,
                                  left |-> gate.steps, readable |-> TRUE, era |-> gate.era]}
    /\ UNCHANGED walletVars

\* An answer: the next request, or the verdict on them all once the last is in.
HearGatedRead ==
    \E c \in reads, said \in {"value", Unreadable, Failed} :
        LET live == gate.mounted /\ gate.attempt = c.attempt
            k    == [c EXCEPT !.left = @ - 1, !.readable = @ /\ said = "value"]
            goesOn == live /\ said # Failed /\ k.left > 0
        IN /\ reads' = (reads \ {c}) \cup (IF goesOn THEN {k} ELSE {})
           /\ gate' = IF ~live \/ goesOn THEN gate
                      ELSE [gate EXCEPT !.result =
                               [kind |-> IF k.readable THEN "loaded" ELSE "error",
                                stamp |-> c.stamp, era |-> c.era]]
           /\ UNCHANGED walletVars

\* retry: another number in the stamp, so that the next render asks again.
ForgetsTheError(g) == [g EXCEPT !.result = NoResult]
AsksAgain(g) == [g EXCEPT !.nonce = @ + 1]

PressReadAgain ==
    /\ gate.mounted /\ gate.shown.kind = "error" /\ gate.nonce < MaxRetry
    /\ gate' = AsksAgain(gate)
    /\ UNCHANGED <<reads, walletVars>>

LeaveGate ==
    /\ gate.mounted /\ reads # {}
    /\ gate' = [gate EXCEPT !.mounted = FALSE, !.attempt = @ + 1]
    /\ hook' = LeaveWallet(hook)
    /\ UNCHANGED <<reads, wallet, news, asks>>

GateNext ==
    \/ GateCatalogArrives \/ RenderGate \/ RunGateEffect
    \/ HearGatedRead \/ PressReadAgain \/ LeaveGate
-----------------------------------------------------------------------------
\* A value on the screen was asked for since the gate last opened, and for the account
\* and the chain drawn beside it: no closing, however short, is read across
\* (useAccountBalance.ts, "a result from the previous opening can never match again").
ValuesAreOfThisOpening ==
    gate.mounted /\ gate.shown.kind = "loaded" =>
        /\ gate.shown.era = gate.era
        /\ gate.shown.stamp[1] = hook.drawn.account /\ gate.shown.stamp[2] = hook.drawn.chain

\* A screen that says it is reading has a request of the current attempt, or the result
\* it will draw next; no move of the wallet leaves it reading for ever.
ReadingHasARequest ==
    gate.mounted /\ gate.shown.kind = "loading" /\ ~gate.pending
    => gate.result.stamp = gate.stamp \/ \E c \in reads : c.attempt = gate.attempt
=============================================================================
