----------------------------- MODULE MultisigDesk -----------------------------
(***************************************************************************)
(* One control of the contract page: the confirmation, the revocation or   *)
(* the execution of a proposal (useMultisigAction and ActionPanel), its     *)
(* live status (useProposalStatus), or the form that submits a proposal     *)
(* (useSubmitTransaction).                                                  *)
(*                                                                          *)
(* A press runs with what the last render drew.  A change of the wallet is  *)
(* drawn by Render, and the effects of that render run later: between the   *)
(* two, answers arrive and buttons are pressed.                             *)
(***************************************************************************)
EXTENDS BrowserWallet

CONSTANTS Owners,      \* getOwners(), in the contract's order
          Threshold,   \* threshold()
          MaxOwners,   \* MAX_ANCHORED_OWNERS
          Home,        \* the chain of the tracked contract
          Row,         \* what a row may come to name: an index and its payload
          Matching,    \* the rows whose payload is the contract's record
          Beginnings,  \* the contract a control may find, for each kind
          MaxBlocks,   \* bound: blocks
          MaxShown,    \* bound, for each kind: changes of what a row is about
          MaxPresses,  \* bound, for each kind: presses
          MaxCalls     \* bound, for each kind: requests in flight

\* None is no situation of a control; a contract has at least the block it was found at.
ASSUME DeskAssumption ==
    /\ Home \in Chain /\ Matching \subseteq Row /\ Threshold \in Nat /\ MaxBlocks \in Nat \ {0}
    /\ Owners \in Seq({Owners[i] : i \in 1 .. Len(Owners)})
    /\ None \notin [account : Account, chain : Chain, row : Row]

VARIABLES blocks,  \* the proposal as the contract holds it, block by block
          desk,    \* state, refs and last render of the control
          calls    \* its requests to the wallet

deskVars == <<blocks, desk, calls>>

Owner == {Owners[i] : i \in 1 .. Len(Owners)}

\* The reads of a control, beside one for each owner.
Fact == {"block", "isOwner", "count", "proposal", "isConfirmed", "owners", "threshold"}

ASSUME FactAssumption == Owner \cap Fact = {}
-----------------------------------------------------------------------------
(* The contract, as execute.ts quotes it.                                  *)

Proposal == [held : BOOLEAN, executed : BOOLEAN, confirmed : SUBSET Owner]

Bare == [held |-> FALSE, executed |-> FALSE, confirmed |-> {}]

Accepts(kind, account, s) ==
    /\ account \in Owner
    /\ kind # "submit" => s.held /\ ~s.executed
    /\ kind = "submit" => ~s.held
    /\ kind = "confirm" => account \notin s.confirmed
    /\ kind = "revoke" => account \in s.confirmed
    /\ kind = "execute" => Cardinality(s.confirmed) >= Threshold

Changed(kind, account, s) ==
    CASE kind = "submit"  -> [s EXCEPT !.held = TRUE]
      [] kind = "confirm" -> [s EXCEPT !.confirmed = @ \cup {account}]
      [] kind = "revoke"  -> [s EXCEPT !.confirmed = @ \ {account}]
      [] kind = "execute" -> [s EXCEPT !.executed = TRUE]

Call == {"submit", "confirm", "revoke", "execute"}

\* A call of any owner is mined, sent from this page or from anywhere.
Mine ==
    \E kind \in Call, account \in Owner :
        /\ desk.mounted /\ Len(blocks) < MaxBlocks
        /\ Accepts(kind, account, blocks[Len(blocks)])
        /\ blocks' = Append(blocks, Changed(kind, account, blocks[Len(blocks)]))
        /\ UNCHANGED <<desk, calls, walletVars>>
\* The block a read is anchored at, once one is known.
AtTheLatest(facts) == Len(blocks)
At(facts) == IF "block" \in DOMAIN facts THEN facts["block"] ELSE Len(blocks)

\* What a block holds of one read.
Held(read, account, row, s) ==
    IF read \in Owner THEN read \in s.confirmed
    ELSE [isOwner     |-> account \in Owner,
          count       |-> s.held,
          proposal    |-> [matches |-> row \in Matching, executed |-> s.executed],
          isConfirmed |-> account \in s.confirmed,
          owners      |-> Owners,
          threshold   |-> Threshold][read]

\* What the wallet's node answers to one read.  On another chain the address holds
\* nothing, and a block number means nothing at home.
Replies(read, account, row, facts) ==
    LET s == blocks[At(facts)]
    IN  IF read = "block" THEN (IF wallet.chain = Home THEN {Len(blocks)}
                             ELSE {Unreadable, Failed} \cup 1 .. MaxBlocks)
        ELSE IF wallet.chain # Home THEN {Unreadable}
        ELSE IF At(facts) > Len(blocks) \/ (read = "proposal" /\ ~s.held) THEN {Failed}
        ELSE {Held(read, account, row, s)}
-----------------------------------------------------------------------------
(* The reads of each control and the verdict on them.                      *)

Anchored(kind) == kind \in {"execute", "status"}

\* The reads before any owner is asked about.
Plan(kind) ==
    CASE kind = "execute" -> <<"block", "isOwner", "count", "proposal", "owners", "threshold">>
      [] kind = "status"  -> <<"block", "count", "proposal", "owners", "threshold">>
      [] OTHER            -> <<"isOwner", "count", "proposal", "isConfirmed">>

Planned(kind, facts) == \A i \in 1 .. Len(Plan(kind)) : Plan(kind)[i] \in DOMAIN facts

\* summaryIsPlausible, under the cap on the owners one snapshot will read.
Believable(owners, threshold) ==
    /\ Len(owners) \in 1 .. MaxOwners
    /\ threshold \in 1 .. Len(owners)
    /\ \A i, j \in 1 .. Len(owners) : owners[i] = owners[j] => i = j

\* Everything one read of the control asks for, in order.
Reads(kind, facts) ==
    Plan(kind) \o (IF ~Anchored(kind) \/ ~Planned(kind, facts) THEN <<>>
                   ELSE facts["owners"] \o (IF kind = "status" THEN <<"isOwner">> ELSE <<>>))

Unread(kind, facts) == {i \in 1 .. Len(Reads(kind, facts)) : Reads(kind, facts)[i] \notin DOMAIN facts}

NextRead(kind, facts) ==
    Reads(kind, facts)[CHOOSE i \in Unread(kind, facts) : \A j \in Unread(kind, facts) : i <= j]

\* An answer no decoder takes, at the point where the control decodes it.
Malformed(kind, facts) ==
    \/ "block" \in DOMAIN facts /\ facts["block"] = Unreadable
    \/ kind = "status" /\ "count" \in DOMAIN facts /\ facts["count"] = Unreadable
    \/ Planned(kind, facts) /\ \E r \in DOMAIN facts : facts[r] = Unreadable

\* snapshotRefusal, and the same judgement before an execution asks about owners.
SnapshotRefused(kind, facts) ==
    /\ Anchored(kind) /\ Planned(kind, facts)
    /\ \/ ~Believable(facts["owners"], facts["threshold"])
       \/ kind = "status" /\ ~facts["proposal"].matches

Confirmations(facts) == {o \in Owner : o \in DOMAIN facts /\ facts[o]}

\* evaluatePreflight
MayConfirm(facts) ==
    /\ facts["isOwner"] /\ facts["count"]
    /\ ~facts["proposal"].executed
    /\ ~facts["isConfirmed"]
    /\ facts["proposal"].matches

\* evaluateRevokePreflight
MayRevoke(facts) ==
    /\ facts["isOwner"] /\ facts["count"]
    /\ ~facts["proposal"].executed
    /\ facts["isConfirmed"]
    /\ facts["proposal"].matches

\* evaluateExecutePreflight
MayExecute(facts) ==
    /\ facts["isOwner"] /\ facts["count"]
    /\ ~facts["proposal"].executed
    /\ facts["proposal"].matches
    /\ Believable(facts["owners"], facts["threshold"])
    /\ Cardinality(Confirmations(facts)) >= facts["threshold"]

\* The verdict of each call: whether the facts of a review allow it.
Allowed(kind, facts) ==
    CASE kind = "submit"  -> TRUE
      [] kind = "status"  -> FALSE
      [] kind = "confirm" -> MayConfirm(facts)
      [] kind = "revoke"  -> MayRevoke(facts)
      [] kind = "execute" -> MayExecute(facts)

\* A status is complete, or there is no such proposal to read on about.
StatusIsKnown(facts) ==
    Unread("status", facts) = {} \/ ("count" \in DOMAIN facts /\ ~facts["count"])

Learned(facts, read, said) ==
    [r \in DOMAIN facts \cup {read} |-> IF r = read THEN said ELSE facts[r]]

\* What the control makes of the facts read so far.
Outcome(kind, facts) ==
    IF Malformed(kind, facts) \/ SnapshotRefused(kind, facts) THEN "refused"
    ELSE IF kind = "status" /\ StatusIsKnown(facts) THEN "done"
    ELSE IF Unread(kind, facts) # {} THEN "more"
    ELSE IF Allowed(kind, facts) THEN "ready" ELSE "refused"
-----------------------------------------------------------------------------
(* The control between two renders.                                        *)

Idle == [kind |-> "idle"]

\* A null stamp is a situation nothing can be said about.
Stamp(state, row) ==
    IF state.status = "connected"
    THEN [account |-> state.account, chain |-> state.chain, row |-> row] ELSE None
\* multisigGate, statusGate and submitGate.
GateIsOpenOnceListed(state, listed) == listed
GateIsOpen(state, listed) == state.status = "connected" /\ state.chain = Home /\ listed

NewDesk(kind, row) ==
    LET stamp == Stamp(hook.state, row)
        listed == kind # "submit"
    IN  [kind |-> kind, row |-> row, attempt |-> 1, sending |-> FALSE, mounted |-> TRUE,
         stored |-> Idle, stamp |-> stamp, pending |-> FALSE, acked |-> 0, listed |-> listed,
         phase |-> Idle, open |-> GateIsOpen(hook.state, listed), presses |-> 0, visit |-> 0,
         moves |-> 0]

DeskInit(kind) ==
    /\ blocks \in {<<s>> : s \in Beginnings[kind]}
    /\ desk \in {NewDesk(kind, row) : row \in Matching}
    /\ calls = {}

\* What the control says, and the press, the review and the situation it is about.
Phase(kind, c) ==
    [kind |-> kind, stamp |-> c.stamp, visit |-> c.visit, review |-> c.review, early |-> c.early,
     facts |-> IF kind = "refused" THEN <<>> ELSE c.facts]

\* A request of the attempt that this press begins, in the situation last drawn.
Begun(d, step, facts, review) ==
    [step |-> step, attempt |-> d.attempt + 1, stamp |-> d.stamp, visit |-> d.visit,
     facts |-> facts, review |-> review, early |-> d.pending, sender |-> None, tick |-> d.acked]
\* current
LiveWhileMounted(c) == desk.mounted
Live(c) == desk.mounted /\ desk.attempt = c.attempt

\* settle
Settled(d, c, kind) ==
    IF d.mounted /\ d.attempt = c.attempt THEN [d EXCEPT !.stored = Phase(kind, c)] ELSE d

Shown(d, stamp) == IF d.stored # Idle /\ d.stored.stamp = stamp THEN d.stored ELSE Idle
AckedForever(d, phase) == d.acked
Acked(d, phase) == IF phase.kind \in {"ready", "sending"} THEN d.acked ELSE 0
\* setStored(null), when the stamp has moved.
ForgetNothing(d, moved) == d
Forget(d, moved) == IF moved THEN [d EXCEPT !.stored = Idle] ELSE d

\* A render: a stamp that moved forgets what was said, and its effect is still to run.
Render ==
    /\ desk.mounted /\ ~desk.pending
    /\ LET stamp == Stamp(hook.state, desk.row)
           moved == stamp # desk.stamp
           d     == Forget(desk, moved)
           phase == Shown(d, stamp)
       IN desk' = [d EXCEPT !.stamp = stamp, !.phase = phase, !.acked = Acked(d, phase),
                            !.open = GateIsOpen(hook.state, d.listed),
                            !.pending = moved /\ d.kind # "submit",
                            !.visit = @ + (IF moved THEN 1 ELSE 0)]
    /\ hook' = [hook EXCEPT !.drawn = hook.state]
    /\ UNCHANGED <<blocks, calls, wallet, news, asks>>
\* The effect on the stamp: what was asked before the move is retired.
RetiresNothing(d) == d
Retires(d) == [d EXCEPT !.attempt = @ + 1]

RunEffects ==
    /\ desk.mounted /\ desk.pending
    /\ desk' = [Retires(desk) EXCEPT !.pending = FALSE]
    /\ UNCHANGED <<blocks, calls, walletVars>>

\* The chain catalog arrives, which only the form waits for.
CatalogArrives ==
    /\ desk.mounted /\ ~desk.listed
    /\ desk' = [desk EXCEPT !.listed = TRUE]
    /\ UNCHANGED <<blocks, calls, walletVars>>

\* Bound: what moves under a row.
MayShow == desk.mounted /\ desk.kind # "submit" /\ desk.moves < MaxShown[desk.kind]

Showing(d) == [d EXCEPT !.moves = @ + 1]

\* The events are read again, and the event of this row names another proposal.
RowChanges ==
    \E row \in Row \ {desk.row} :
        /\ MayShow
        /\ desk' = [Showing(desk) EXCEPT !.row = row]
        /\ UNCHANGED <<blocks, calls, walletVars>>

\* The page shows another account, another chain or no account: all that a row uses
\* of the hook is its state, so any state may come next.
PageShows ==
    \E state \in State :
        /\ MayShow
        /\ state.status \in {"connected", "disconnected"}
        /\ state # hook.state
        /\ hook.state.status = "connected" =>
               state.account \in {hook.state.account, None} \/ state.chain = hook.state.chain
        /\ desk' = Showing(desk)
        /\ hook' = [hook EXCEPT !.state = state]
        /\ UNCHANGED <<blocks, calls, wallet, news, asks>>

\* Bound: leaving with nothing in flight only ends the run.
Leave ==
    /\ desk.mounted /\ calls # {}
    /\ desk' = [desk EXCEPT !.mounted = FALSE, !.attempt = @ + 1,
                            !.sending = @ /\ desk.kind = "submit"]
    /\ hook' = LeaveWallet(hook)
    /\ UNCHANGED <<blocks, calls, wallet, news, asks>>
-----------------------------------------------------------------------------
(* The presses, each with the phase, the stamp and the gate of the last     *)
(* render and the refs of now.                                              *)

Pressed(d) == [d EXCEPT !.presses = @ + 1]

NeverSending(d) == FALSE
Sending(d) == d.sending

MayPress == desk.mounted /\ desk.presses < MaxPresses[desk.kind] /\ Cardinality(calls) < MaxCalls[desk.kind]

\* The reads of a retired attempt end at their next answer, whatever they have read.
Forgotten == {IF k.step = "read" THEN [k EXCEPT !.facts = <<>>] ELSE k : k \in calls}

\* check and read: Check, Check live status, or Check again under an answer.
PressCheck ==
    /\ MayPress /\ desk.open
    /\ \/ desk.kind # "submit" /\ desk.phase.kind = "idle"
       \/ desk.kind = "status" /\ desk.phase.kind = "done"
    /\ LET c == Begun(desk, "read", <<>>, desk.attempt + 1) IN
           /\ calls' = Forgotten \cup {c}
           /\ desk' = [Pressed(desk) EXCEPT !.attempt = c.attempt, !.stored = Phase("checking", c)]
    /\ UNCHANGED <<blocks, walletVars>>

\* review: a form that parses is confirmed before anything is sent.
PressReview ==
    /\ MayPress /\ desk.open /\ desk.kind = "submit" /\ desk.phase.kind = "idle"
    /\ desk' = [Pressed(desk) EXCEPT
                  !.stored = Phase("ready", Begun(desk, "review", <<>>, desk.presses + 1))]
    /\ UNCHANGED <<blocks, calls, walletVars>>

\* The checkbox under the review of an execution.
PressTick ==
    /\ MayPress /\ desk.kind = "execute" /\ desk.phase.kind = "ready"
    /\ desk' = [Pressed(desk) EXCEPT !.acked = desk.phase.review]
    /\ UNCHANGED <<blocks, calls, walletVars>>
\* submit
PressSubmit ==
    /\ MayPress /\ desk.open /\ desk.phase.kind = "ready"
    /\ desk.kind = "execute" => desk.acked # 0
    /\ ~Sending(desk)
    /\ LET c == Begun(desk, "accounts", desk.phase.facts, desk.phase.review) IN
           /\ calls' = calls \cup {c}
           /\ desk' = [Pressed(desk) EXCEPT !.attempt = c.attempt, !.sending = TRUE,
                                            !.stored = Phase("sending", c)]
    /\ UNCHANGED <<blocks, walletVars>>

\* cancel and clear retire what is in flight.
PressCancel ==
    /\ MayPress /\ ~Sending(desk)
    /\ desk.phase.kind \in (IF desk.kind = "status" THEN {"refused", "done"} ELSE {"ready"})
    /\ desk' = [Pressed(desk) EXCEPT !.attempt = @ + 1, !.stored = Idle]
    /\ UNCHANGED <<blocks, calls, walletVars>>

\* retry, back and startAnother retire nothing.
PressBack ==
    /\ MayPress /\ ~Sending(desk) /\ desk.kind # "status"
    /\ desk.phase.kind \in {"refused", "sent", "failed"}
    /\ desk' = [Pressed(desk) EXCEPT !.stored = Idle]
    /\ UNCHANGED <<blocks, calls, walletVars>>
-----------------------------------------------------------------------------
(* The answers.                                                            *)

\* One read is answered: a rejection is reported, an answer that came too late ends
\* the reads, and the last fact that was needed brings the verdict.
HearRead ==
    \E c \in {k \in calls : k.step = "read"} :
        LET read == NextRead(desk.kind, c.facts) IN
        \E said \in Replies(read, c.stamp.account, c.stamp.row, c.facts) :
            LET k == [c EXCEPT !.facts = Learned(@, read, said)]
                outcome == IF said = Failed THEN "refused" ELSE Outcome(desk.kind, k.facts)
            IN /\ calls' = (calls \ {c}) \cup (IF Live(c) /\ outcome = "more" THEN {k} ELSE {})
               /\ desk' = IF outcome = "more" THEN desk ELSE Settled(desk, k, outcome)
               /\ UNCHANGED <<blocks, walletVars>>

\* The end of a send, by whichever attempt: the ref lets the next one start.
SendEnds(c, kind) == [Settled(desk, c, kind) EXCEPT !.sending = FALSE]

HearSendAccounts ==
    \E c \in {k \in calls : k.step = "accounts"}, said \in {wallet.account, Unreadable, Failed} :
        LET goesOn == said # Failed /\ Live(c) IN
        /\ calls' = (calls \ {c}) \cup
               (IF goesOn THEN {[c EXCEPT !.step = "chain", !.sender = said]} ELSE {})
        /\ desk' = IF goesOn THEN desk ELSE SendEnds(c, "failed")
        /\ UNCHANGED <<blocks, walletVars>>
\* The same account and the chain of the contract, or nothing is sent.
MaySendForAnyone(c, chain) == c.sender \in Account /\ chain = Home
MaySend(c, chain) == c.sender = c.stamp.account /\ chain = Home

HearSendChain ==
    \E c \in {k \in calls : k.step = "chain"}, said \in {wallet.chain, Unreadable, Failed} :
        LET goesOn == Live(c) /\ MaySend(c, said) IN
        /\ calls' = (calls \ {c}) \cup (IF goesOn THEN {[c EXCEPT !.step = "transaction"]} ELSE {})
        /\ desk' = IF goesOn THEN desk ELSE SendEnds(c, "failed")
        /\ UNCHANGED <<blocks, walletVars>>

\* The wallet returns a hash, or refuses, fails, or answers something else.
HearSendTransaction ==
    \E c \in {k \in calls : k.step = "transaction"}, kind \in {"sent", "failed"} :
        /\ calls' = calls \ {c}
        /\ desk' = SendEnds(c, kind)
        /\ UNCHANGED <<blocks, walletVars>>

DeskNext ==
    \/ Mine \/ Render \/ RunEffects \/ CatalogArrives \/ RowChanges \/ PageShows \/ Leave
    \/ PressCheck \/ PressReview \/ PressTick \/ PressSubmit \/ PressCancel \/ PressBack
    \/ HearRead \/ HearSendAccounts \/ HearSendChain \/ HearSendTransaction
-----------------------------------------------------------------------------
DeskStamp == {None} \cup [account : Account, chain : Chain, row : Row]

\* The shape of the control and of its requests.
DeskTypeOK ==
    /\ Len(blocks) \in 1 .. MaxBlocks
    /\ desk.row \in Row /\ desk.stamp \in DeskStamp
    /\ {desk.attempt, desk.visit, desk.presses, desk.acked} \subseteq Nat
    /\ {desk.sending, desk.mounted, desk.pending, desk.listed, desk.open} \subseteq BOOLEAN
    /\ {desk.stored.kind, desk.phase.kind} \subseteq
           {"idle", "checking", "refused", "ready", "sending", "sent", "failed", "done"}
    /\ \A c \in calls :
           /\ c.step \in {"read", "accounts", "chain", "transaction"}
           /\ c.attempt \in 1 .. desk.attempt
           /\ c.stamp \in DeskStamp \ {None}

Prompts == {c \in calls : c.step = "transaction"}

\* The wallet is only asked to sign for the account, the chain and the row that were
\* reviewed: the sender is the account the eligibility was judged for, on the chain of
\* the contract, and the facts judged still allow the call (useSubmitTransaction.ts, "the
\* user agreed to a transaction in a context that no longer exists").
PromptsAreOfTheReview ==
    \A c \in Prompts :
        /\ c.sender = c.stamp.account /\ c.stamp.chain = Home
        /\ Allowed(desk.kind, c.facts)
        /\ desk.kind # "submit" => c.stamp.row \in Matching

\* One send of a control at a time, across reviews, accounts and rows ("a ref makes a
\* second call impossible").
OneSendAtATime == Cardinality({c \in calls : c.step # "read"}) <= 1

\* An answer asked for before the account, the chain or the row moved is never drawn,
\* even when they moved away and back again ("Bumping the attempt here makes the move
\* final").  The form has no such effect.
LateAnswersAreNotDrawn ==
    desk.mounted /\ desk.kind # "submit" /\ desk.phase # Idle => desk.phase.visit = desk.visit

\* An execution offered, and a status shown, is what the contract held at one block,
\* whatever was mined while it was read ("the count would describe no state that ever
\* existed").
EvidenceIsOneBlock ==
    /\ desk.kind = "execute" /\ desk.stored.kind \in {"ready", "sending", "sent"}
       => Accepts("execute", desk.stored.stamp.account, blocks[desk.stored.facts["block"]])
    /\ desk.kind = "status" /\ desk.stored.kind = "done"
       => LET facts == desk.stored.facts
              s     == blocks[facts["block"]]
          IN  facts["count"] = s.held
              /\ facts["count"] => /\ facts["proposal"].executed = s.executed
                                   /\ Confirmations(facts) = s.confirmed

\* A control that says it is reading or waiting for the wallet has a request that will
\* settle it, however its attempts were retired.  The exception is a press between a
\* render and its effect, which the effect retires.
WaitingHasACall ==
    desk.mounted /\ desk.stored.kind \in {"checking", "sending"} /\ ~desk.stored.early
    /\ desk.stored.stamp = desk.stamp
    => \E c \in calls : c.attempt = desk.attempt

\* An execution is sent under a tick given to the very review it sends ("a second
\* attempt has to be acknowledged again").
ExecuteIsAcknowledged ==
    desk.kind = "execute" => \A c \in calls : c.step # "read" => c.tick = c.review

\* No wallet prompt is opened for a screen that has been left, or for a situation whose
\* end this control has already worked through.
NothingIsSentAfterAMove ==
    [][\A c \in Prompts' \ Prompts :
           /\ desk.mounted
           /\ desk.kind # "submit" => c.visit = desk.visit \/ desk.pending]_<<desk, calls>>
=============================================================================
