------------------------ MODULE ContractScreenProofs ------------------------
(***************************************************************************)
(* What the screens around an injected wallet keep, for any accounts,      *)
(* chains, owners, rows and bounds.                                        *)
(*                                                                         *)
(* In order: one prompt, one send, one receipt and one refresh at a time;  *)
(* no prompt but for what was reviewed; what a receipt, a value, a late    *)
(* answer, a prompt, a tick say of the screen they are drawn on; a hook    *)
(* that waits, waits for something that comes; a hook at rest shows what   *)
(* the wallet would say; the types; and the facts of a review are those of *)
(* one block.                                                              *)
(*                                                                         *)
(* Each needs its own strengthening: the refs tied to the requests they    *)
(* guard (PromptInv, SendInv, RequestInv), what is drawn tied to the facts *)
(* and the situation it was asked in (ReviewInv, SaidInv, GateInv,         *)
(* MomentInv, TickInv), the asks and the news tied to what the wallet has  *)
(* said so far (WaitInv, WalletInv, SettledInv), the reads tied to the     *)
(* block they named (ShapeInv, EvidenceInv). A state of the code is a      *)
(* record of many fields, most of which no invariant speaks of: IsDesk and *)
(* its like say which fields it has, and nothing of what they hold.        *)
(***************************************************************************)
EXTENDS ContractScreen, FiniteSetTheorems, WellFoundedInduction, TLAPS

\* A hook, an ask, by their fields.
HookField == {"state", "drawn", "attempt", "connecting", "seq", "announced", "mounted",
              "connects"}
AskField == {"step", "attempt", "since", "account", "connect", "said"}

IsHook(h) ==
    /\ h = [field \in HookField |-> h[field]]
    /\ h.connecting \in BOOLEAN

IsAsk(c) ==
    /\ c = [field \in AskField |-> c[field]]
    /\ c.connect \in BOOLEAN

\* connectingRef: raised as long as a request of a press of Connect is unanswered.
PromptInv ==
    /\ IsHook(hook)
    /\ \A c \in asks : /\ IsAsk(c)
                       /\ c.step = "request" => c.connect
                       /\ c.connect => hook.connecting
    /\ \A c, d \in asks : c.connect /\ d.connect => c = d

\* The hook may be drawn again, set or left: the ref stays.
SameRef(h, g) == IsHook(g) /\ g.connecting = h.connecting

LEMMA SetKeepsRef ==
  ASSUME NEW h, IsHook(h), NEW state, NEW n
  PROVE  /\ SameRef(h, [h EXCEPT !.state = state])
         /\ SameRef(h, [h EXCEPT !.drawn = state])
         /\ SameRef(h, Apply(h, n, state))
         /\ SameRef(h, Retired(h))
         /\ SameRef(h, LeaveWallet(h))
BY DEF SameRef, IsHook, HookField, Apply, Retired, LeaveWallet

LEMMA RefKeeps ==
  ASSUME PromptInv, SameRef(hook, hook'), UNCHANGED asks
  PROVE  PromptInv'
BY DEF PromptInv, SameRef

LEMMA ConnectKeeps == ASSUME PromptInv, Connect PROVE PromptInv'
<1> DEFINE h == Retired([hook EXCEPT !.connecting = TRUE, !.connects = @ + 1])
           c == Ask("request", h.attempt, hook.seq, None, TRUE)
<1>1. ~hook.connecting /\ hook' = Apply(h, h.attempt, Waiting("connecting"))
      /\ asks' = asks \cup {c}
  BY DEF Connect, Connecting
<1>2. IsHook(h) /\ h.connecting = TRUE
  BY DEF PromptInv, IsHook, HookField, Retired
<1>3. IsAsk(c) /\ c.connect = TRUE
  BY DEF IsAsk, AskField, Ask
<1> HIDE DEF h, c
<1>4. IsHook(hook') /\ hook'.connecting = TRUE
  BY <1>1, <1>2, SetKeepsRef DEF SameRef
<1> QED
  BY <1>1, <1>3, <1>4 DEF PromptInv

LEMMA AnswersKeep ==
  ASSUME PromptInv, WalletAnswers \/ WalletGrants \/ WalletRefuses
  PROVE  PromptInv'
<1>1. PICK c, said : c \in asks /\ asks' = Answered(c, said) /\ hook' = hook
  BY DEF WalletAnswers, WalletGrants, WalletRefuses
<1> DEFINE d == [c EXCEPT !.said = said]
<1>2. IsAsk(d) /\ d.connect = c.connect /\ d.step = c.step
  BY <1>1 DEF PromptInv, IsAsk, AskField
<1>3. asks' = (asks \ {c}) \cup {d}
  BY <1>1 DEF Answered
<1> HIDE DEF d
<1> QED
  BY <1>1, <1>2, <1>3 DEF PromptInv

\* An account list or a chain that is heard: the request goes on, or it ends and
\* lowers the ref it raised.
LEMMA HearingKeeps == ASSUME PromptInv, HearAccountList \/ HearChainId PROVE PromptInv'
<1>1. ASSUME NEW c \in asks, NEW state, asks' = asks \ {c},
             hook' = Finished(Apply(hook, c.attempt, state), c)
      PROVE  PromptInv'
  <2> DEFINE g == Apply(hook, c.attempt, state)
  <2>1. IsHook(g) /\ g.connecting = hook.connecting
    BY SetKeepsRef DEF PromptInv, SameRef
  <2>2. hook' = Finished(g, c)
    BY <1>1
  <2> HIDE DEF g
  <2>3. IsHook(hook') /\ (~c.connect => hook'.connecting = hook.connecting)
    BY <2>1, <2>2 DEF IsHook, HookField, Finished
  <2> QED
    BY <1>1, <2>3 DEF PromptInv
<1>2. CASE HearAccountList
  <2>1. PICK c \in asks :
          \/ /\ asks' = (asks \ {c}) \cup {Ask("chain", c.attempt, c.since, c.said, c.connect)}
             /\ UNCHANGED hook
          \/ /\ asks' = asks \ {c}
             /\ hook' = Finished(Apply(hook, c.attempt, NoAccountState(c.said, c.connect)), c)
    BY <1>2 DEF HearAccountList
  <2>2. CASE UNCHANGED hook /\ asks' = (asks \ {c})
                \cup {Ask("chain", c.attempt, c.since, c.said, c.connect)}
    <3> DEFINE d == Ask("chain", c.attempt, c.since, c.said, c.connect)
    <3>1. IsAsk(d) /\ d.connect = c.connect /\ d.step = "chain"
      BY DEF PromptInv, IsAsk, AskField, Ask
    <3> HIDE DEF d
    <3> QED
      BY <2>2, <3>1 DEF PromptInv, d
  <2> QED
    BY <1>1, <2>1, <2>2
<1>3. CASE HearChainId
  BY <1>1, <1>3 DEF HearChainId
<1> QED
  BY <1>2, <1>3

LEMMA NewsKeeps == ASSUME PromptInv, HearNews PROVE PromptInv'
<1>1. ASSUME NEW payload, HandleAccountsChanged(payload) PROVE PromptInv'
  <2> DEFINE h == Retired(hook)
             d == Ask("chain", h.attempt, hook.seq, payload, FALSE)
  <2>1. IsHook(h) /\ h.connecting = hook.connecting
    BY SetKeepsRef DEF PromptInv, SameRef
  <2>2. IsAsk(d) /\ d.connect = FALSE /\ d.step = "chain"
    BY DEF IsAsk, AskField, Ask
  <2>3. CASE payload \in Account
    <3>1. hook' = h /\ asks' = asks \cup {d}
      BY <1>1, <2>3 DEF HandleAccountsChanged
    <3> HIDE DEF h, d
    <3> QED
      BY <2>1, <2>2, <3>1 DEF PromptInv
  <2>4. CASE payload \notin Account
    <3> DEFINE state == NoAccountState(payload, FALSE)
    <3>1. hook' = Apply(h, h.attempt, state) /\ asks' = asks
      BY <1>1, <2>4 DEF HandleAccountsChanged
    <3> HIDE DEF h, state
    <3>2. SameRef(h, hook')
      BY <2>1, <3>1, SetKeepsRef
    <3> QED
      BY <2>1, <3>1, <3>2, RefKeeps DEF SameRef
  <2> QED
    BY <2>3, <2>4
<1>2. ASSUME NEW payload, HandleChainChanged(payload) PROVE PromptInv'
  <2>1. SameRef(hook, Retired(hook)) /\ asks' = asks
    BY <1>2, SetKeepsRef DEF PromptInv, HandleChainChanged
  <2>2. CASE payload = Unreadable
    <3>1. hook' = Apply(Retired(hook), hook.attempt + 1, Waiting("error"))
      BY <1>2, <2>2 DEF HandleChainChanged
    <3> QED
      BY <2>1, <3>1, SetKeepsRef DEF PromptInv, SameRef
  <2>3. CASE payload # Unreadable
    <3> DEFINE h == [hook EXCEPT !.seq = @ + 1, !.announced = payload]
               state == IF h.state.status = "connected" THEN [h.state EXCEPT !.chain = payload]
                        ELSE h.state
    <3>1. SameRef(hook, h)
      BY DEF PromptInv, IsHook, HookField, SameRef
    <3>2. hook' = Apply(h, h.attempt, state)
      BY <1>2, <2>3 DEF HandleChainChanged
    <3> HIDE DEF h, state
    <3>3. SameRef(h, hook')
      BY <3>1, <3>2, SetKeepsRef DEF SameRef
    <3> QED
      BY <2>1, <3>1, <3>3, RefKeeps DEF SameRef
  <2> QED
    BY <2>2, <2>3
<1>3. CASE HandleDisconnect
  <2>1. SameRef(hook, Retired(hook)) /\ asks' = asks
    BY <1>3, SetKeepsRef DEF PromptInv, HandleDisconnect
  <2> QED
    BY <1>3, <2>1, SetKeepsRef DEF PromptInv, SameRef, HandleDisconnect
<1> QED
  BY <1>1, <1>2, <1>3 DEF HearNews

LEMMA WalletKeepsPrompts == ASSUME PromptInv, WalletMoves PROVE PromptInv'
<1>1. CASE WalletSwitchesAccount \/ WalletSwitchesChain \/ WalletDisconnects
  BY <1>1 DEF WalletSwitchesAccount, WalletSwitchesChain, WalletDisconnects, PromptInv
<1> QED
  BY <1>1, AnswersKeep, HearingKeeps, NewsKeeps DEF WalletMoves

\* A screen draws, sets or leaves the hook, and asks nothing.
OfAScreen == \/ UNCHANGED hook
             \/ \E state : hook' = [hook EXCEPT !.drawn = state]
             \/ \E state : hook' = [hook EXCEPT !.state = state]
             \/ hook' = LeaveWallet(hook)

LEMMA DrawingKeeps == ASSUME PromptInv, OfAScreen, UNCHANGED asks PROVE PromptInv'
<1>0. IsHook(hook)
  BY DEF PromptInv
<1>1. CASE UNCHANGED hook
  BY <1>1 DEF PromptInv
<1>2. ASSUME NEW state, hook' = [hook EXCEPT !.drawn = state] PROVE SameRef(hook, hook')
  BY <1>0, <1>2, SetKeepsRef
<1>3. ASSUME NEW state, hook' = [hook EXCEPT !.state = state] PROVE SameRef(hook, hook')
  BY <1>0, <1>3, SetKeepsRef
<1>4. CASE hook' = LeaveWallet(hook)
  BY <1>0, <1>4, SetKeepsRef, RefKeeps
<1> QED
  BY <1>1, <1>2, <1>3, <1>4, RefKeeps DEF OfAScreen

\* What the steps of each screen leave alone.
LEMMA DeskDraws == ASSUME DeskNext PROVE OfAScreen /\ UNCHANGED <<wallet, news, asks>>
<1>1. CASE Render
  BY <1>1 DEF Render, OfAScreen
<1>2. CASE PageShows
  <2>1. PICK state : hook' = [hook EXCEPT !.state = state]
    BY <1>2 DEF PageShows
  <2>2. UNCHANGED <<wallet, news, asks>>
    BY <1>2 DEF PageShows
  <2> QED
    BY <2>1, <2>2 DEF OfAScreen
<1>3. CASE Leave
  BY <1>3 DEF Leave, OfAScreen
<1>4. CASE Mine \/ RunEffects \/ CatalogArrives \/ RowChanges
  BY <1>4 DEF Mine, RunEffects, CatalogArrives, RowChanges, OfAScreen, walletVars
<1>5. CASE PressCheck \/ PressReview \/ PressTick \/ PressSubmit \/ PressCancel \/ PressBack
  BY <1>5 DEF PressCheck, PressReview, PressTick, PressSubmit, PressCancel, PressBack,
              OfAScreen, walletVars
<1>6. CASE HearRead \/ HearSendAccounts \/ HearSendChain \/ HearSendTransaction
  <2>1. UNCHANGED walletVars
    BY <1>6 DEF HearRead, HearSendAccounts, HearSendChain, HearSendTransaction
  <2> QED
    BY <2>1 DEF OfAScreen, walletVars
<1> QED
  BY <1>1, <1>2, <1>3, <1>4, <1>5, <1>6 DEF DeskNext

LEMMA ReceiptDraws == ASSUME ReceiptNext PROVE OfAScreen /\ UNCHANGED <<wallet, news, asks>>
<1>1. CASE RenderReceipt
  BY <1>1 DEF RenderReceipt, OfAScreen
<1>2. CASE LeaveReceipt
  BY <1>2 DEF LeaveReceipt, OfAScreen
<1>3. CASE PressReceipt \/ HearReceipt \/ PressRefresh \/ HearRefresh
  <2>1. UNCHANGED walletVars
    BY <1>3 DEF PressReceipt, HearReceipt, PressRefresh, HearRefresh
  <2> QED
    BY <2>1 DEF OfAScreen, walletVars
<1> QED
  BY <1>1, <1>2, <1>3 DEF ReceiptNext

LEMMA GateDraws == ASSUME GateNext PROVE OfAScreen /\ UNCHANGED <<wallet, news, asks>>
<1>1. CASE RenderGate
  BY <1>1 DEF RenderGate, OfAScreen
<1>2. CASE LeaveGate
  BY <1>2 DEF LeaveGate, OfAScreen
<1>3. CASE GateCatalogArrives \/ RunGateEffect \/ HearGatedRead \/ PressReadAgain
  <2>1. UNCHANGED walletVars
    BY <1>3 DEF GateCatalogArrives, RunGateEffect, HearGatedRead, PressReadAgain
  <2> QED
    BY <2>1 DEF OfAScreen, walletVars
<1> QED
  BY <1>1, <1>2, <1>3 DEF GateNext

LEMMA PromptsKept == ASSUME PromptInv, [Next]_vars PROVE PromptInv'
<1>1. CASE UNCHANGED vars
  <2>1. UNCHANGED hook /\ UNCHANGED asks
    BY <1>1 DEF vars, walletVars
  <2> QED
    BY <2>1, DrawingKeeps DEF OfAScreen
<1>2. CASE PanelStep
  <2>1. CASE DrawPanel \/ LeavePanel
    BY <2>1, DrawingKeeps DEF DrawPanel, LeavePanel, OfAScreen
  <2> QED
    BY <1>2, <2>1, ConnectKeeps DEF PanelStep
<1>3. CASE WalletStep
  BY <1>3, WalletKeepsPrompts DEF WalletStep
<1>4. CASE DeskStep
  BY <1>4, DeskDraws, DrawingKeeps DEF DeskStep
<1>5. CASE ReceiptStep
  BY <1>5, ReceiptDraws, DrawingKeeps DEF ReceiptStep
<1>6. CASE GateStep
  BY <1>6, GateDraws, DrawingKeeps DEF GateStep
<1> QED
  BY <1>1, <1>2, <1>3, <1>4, <1>5, <1>6 DEF Next

LEMMA InitPrompts == Init => PromptInv
<1> SUFFICES ASSUME Init PROVE PromptInv
  OBVIOUS
<1> DEFINE c == Ask("accounts", 1, 0, None, FALSE)
           Fresh == (\E state : hook = NewHook(state)) /\ asks \subseteq {c}
<1>1. ASSUME WalletLoad(MaxMoves["panel"], MaxFaults) PROVE Fresh
  BY <1>1 DEF WalletLoad
<1>2. ASSUME NEW listening, NEW moves, WalletConnected(listening, moves) PROVE Fresh
  BY <1>2 DEF WalletConnected
<1> HIDE DEF Fresh
<1>3. Fresh
  <2>1. CASE WalletLoad(MaxMoves["panel"], MaxFaults)
    BY <1>1, <2>1
  <2>2. CASE \E kind \in Controls \cup {"receipt", "reads"} :
                 WalletConnected(kind \notin Controls \ {"submit"}, MaxMoves[kind])
    <3>1. PICK kind : WalletConnected(kind \notin Controls \ {"submit"}, MaxMoves[kind])
      BY <2>2
    <3> QED
      BY <3>1, <1>2
  <2> QED
    BY <2>1, <2>2 DEF Init
<1>4. IsHook(hook)
  BY <1>3 DEF Fresh, NewHook, IsHook, HookField
<1>5. IsAsk(c) /\ c.connect = FALSE /\ c.step = "accounts"
  BY DEF IsAsk, AskField, Ask
<1>6. asks \subseteq {c}
  BY <1>3 DEF Fresh
<1> HIDE DEF c
<1> QED
  BY <1>4, <1>5, <1>6 DEF PromptInv

-----------------------------------------------------------------------------
(* A control and its send. *)

DeskField == {"kind", "row", "attempt", "sending", "mounted", "stored", "stamp", "pending",
              "acked", "listed", "phase", "open", "presses", "visit", "moves"}
CallField == {"step", "attempt", "stamp", "visit", "facts", "review", "early", "sender", "tick"}

IsDesk(d) == d = [field \in DeskField |-> d[field]]
IsCall(c) == c = [field \in CallField |-> c[field]]

\* sendingRef: raised as long as a send of a screen that is still there is unanswered.
OneSend == \A c, d \in calls : c.step # "read" /\ d.step # "read" => c = d

SendInv ==
    /\ IsDesk(desk)
    /\ \A c \in calls : IsCall(c)
    /\ OneSend
    /\ desk.mounted => \A c \in calls : c.step # "read" => desk.sending

\* What a step that neither begins nor ends a send may do to the control.
SameSend(d, e) == IsDesk(e) /\ e.sending = d.sending /\ e.mounted = d.mounted

LEMMA SettledKeepsSend ==
  ASSUME NEW d, IsDesk(d), NEW c, NEW kind
  PROVE  SameSend(d, Settled(d, c, kind))
BY DEF SameSend, IsDesk, DeskField, Settled

\* Reads come and go, a send stays as it is.
LEMMA ReadsComeAndGo ==
  ASSUME SendInv, SameSend(desk, desk'),
         \A c \in calls' : IsCall(c) /\ (c.step # "read" => c \in calls)
  PROVE  SendInv'
BY DEF SendInv, SameSend, OneSend

LEMMA LookingKeepsSend ==
  ASSUME SendInv, Mine \/ Render \/ RunEffects \/ CatalogArrives \/ RowChanges \/ PageShows
  PROVE  SendInv'
<1>1. IsDesk(desk)
  BY DEF SendInv
<1>2. UNCHANGED calls
  BY DEF Mine, Render, RunEffects, CatalogArrives, RowChanges, PageShows
<1>3. SameSend(desk, desk')
  <2>1. CASE Mine
    BY <1>1, <2>1 DEF Mine, SameSend
  <2>2. CASE Render
    <3> DEFINE stamp == Stamp(hook.state, desk.row)
               moved == stamp # desk.stamp
               d     == Forget(desk, moved)
               phase == Shown(d, stamp)
    <3>1. IsDesk(d) /\ d.sending = desk.sending /\ d.mounted = desk.mounted
      BY <1>1 DEF IsDesk, DeskField, Forget
    <3>2. desk' = [d EXCEPT !.stamp = stamp, !.phase = phase, !.acked = Acked(d, phase),
                            !.open = GateIsOpen(hook.state, d.listed),
                            !.pending = moved /\ d.kind # "submit",
                            !.visit = @ + (IF moved THEN 1 ELSE 0)]
      BY <2>2 DEF Render
    <3> HIDE DEF stamp, moved, d, phase
    <3> QED
      BY <3>1, <3>2 DEF SameSend, IsDesk, DeskField
  <2>3. CASE RunEffects
    BY <1>1, <2>3 DEF RunEffects, Retires, SameSend, IsDesk, DeskField
  <2>4. CASE CatalogArrives
    BY <1>1, <2>4 DEF CatalogArrives, SameSend, IsDesk, DeskField
  <2>5. CASE RowChanges
    <3>1. PICK row : desk' = [Showing(desk) EXCEPT !.row = row]
      BY <2>5 DEF RowChanges
    <3> QED
      BY <1>1, <3>1 DEF Showing, SameSend, IsDesk, DeskField
  <2>6. CASE PageShows
    <3>1. desk' = Showing(desk)
      BY <2>6 DEF PageShows
    <3> QED
      BY <1>1, <3>1 DEF Showing, SameSend, IsDesk, DeskField
  <2> QED
    BY <2>1, <2>2, <2>3, <2>4, <2>5, <2>6
<1>4. \A c \in calls' : IsCall(c) /\ (c.step # "read" => c \in calls)
  BY <1>2 DEF SendInv
<1> QED
  BY <1>3, <1>4, ReadsComeAndGo

\* A press of the checks takes an attempt; only a submit begins a send, when none is on.
LEMMA BegunIsCall ==
  ASSUME NEW d, NEW step, NEW facts, NEW review
  PROVE  IsCall(Begun(d, step, facts, review)) /\ Begun(d, step, facts, review).step = step
BY DEF IsCall, CallField, Begun

LEMMA PressesKeepSend ==
  ASSUME SendInv,
         PressCheck \/ PressReview \/ PressTick \/ PressSubmit \/ PressCancel \/ PressBack
  PROVE  SendInv'
<1>1. IsDesk(desk)
  BY DEF SendInv
<1>2. CASE PressCheck
  <2> DEFINE c == Begun(desk, "read", <<>>, desk.attempt + 1)
             p == Phase("checking", c)
  <2>1. IsCall(c) /\ c.step = "read"
    BY BegunIsCall
  <2>2. calls' = Forgotten \cup {c}
        /\ desk' = [Pressed(desk) EXCEPT !.attempt = c.attempt, !.stored = p]
    BY <1>2 DEF PressCheck
  <2> HIDE DEF c, p
  <2>3. SameSend(desk, desk')
    BY <1>1, <2>2 DEF Pressed, SameSend, IsDesk, DeskField
  <2>4. \A k \in Forgotten : IsCall(k) /\ (k.step # "read" => k \in calls)
    BY DEF Forgotten, SendInv, IsCall, CallField
  <2> QED
    BY <2>1, <2>2, <2>3, <2>4, ReadsComeAndGo
<1>3. CASE PressReview \/ PressTick \/ PressCancel \/ PressBack
  <2>1. UNCHANGED calls
    BY <1>3 DEF PressReview, PressTick, PressCancel, PressBack
  <2>2. SameSend(desk, desk')
    BY <1>1, <1>3 DEF PressReview, PressTick, PressCancel, PressBack,
                      Pressed, SameSend, IsDesk, DeskField
  <2> QED
    BY <2>1, <2>2, ReadsComeAndGo DEF SendInv
<1>4. CASE PressSubmit
  <2> DEFINE c == Begun(desk, "accounts", desk.phase.facts, desk.phase.review)
             p == Phase("sending", c)
  <2>1. IsCall(c) /\ c.step = "accounts"
    BY BegunIsCall
  <2>2. /\ ~desk.sending /\ desk.mounted
        /\ calls' = calls \cup {c}
        /\ desk' = [Pressed(desk) EXCEPT !.attempt = c.attempt, !.sending = TRUE, !.stored = p]
    BY <1>4 DEF PressSubmit, MayPress, Sending
  <2> HIDE DEF c, p
  <2>3. IsDesk(desk') /\ desk'.sending = TRUE
    BY <1>1, <2>2 DEF Pressed, IsDesk, DeskField
  <2> QED
    BY <2>1, <2>2, <2>3 DEF SendInv, OneSend
<1> QED
  BY <1>2, <1>3, <1>4

\* A screen that is left sends nothing more; what is on the wire stays the only one.
LEMMA LeavingKeepsSend == ASSUME SendInv, Leave PROVE SendInv'
<1>1. UNCHANGED calls /\ desk' = [desk EXCEPT !.mounted = FALSE, !.attempt = @ + 1,
                                        !.sending = @ /\ desk.kind = "submit"]
  BY DEF Leave
<1>2. IsDesk(desk') /\ desk'.mounted = FALSE
  BY <1>1 DEF SendInv, IsDesk, DeskField
<1> QED
  BY <1>1, <1>2 DEF SendInv, OneSend

\* An answer moves its send on, or ends it and lowers the ref.
LEMMA AnswersKeepSend ==
  ASSUME SendInv, HearRead \/ HearSendAccounts \/ HearSendChain \/ HearSendTransaction
  PROVE  SendInv'
<1>1. IsDesk(desk)
  BY DEF SendInv
<1>2. ASSUME NEW c \in calls, c.step # "read", NEW d, IsCall(d), d.step # "read",
             calls' = (calls \ {c}) \cup {d}, UNCHANGED desk
      PROVE  SendInv'
  BY <1>2 DEF SendInv, OneSend
<1>3. ASSUME NEW c \in calls, c.step # "read", NEW kind,
             calls' = calls \ {c}, desk' = SendEnds(c, kind)
      PROVE  SendInv'
  <2> DEFINE d == Settled(desk, c, kind)
  <2>1. IsDesk(d)
    BY <1>1, SettledKeepsSend DEF SameSend
  <2>2. desk' = [d EXCEPT !.sending = FALSE]
    BY <1>3 DEF SendEnds
  <2> HIDE DEF d
  <2>3. IsDesk(desk')
    BY <2>1, <2>2 DEF IsDesk, DeskField
  <2>4. \A k \in calls' : IsCall(k) /\ k.step = "read"
    BY <1>3 DEF SendInv, OneSend
  <2> QED
    BY <2>3, <2>4 DEF SendInv, OneSend
<1>4. CASE HearRead
  <2>1. PICK c \in {k \in calls : k.step = "read"} :
          LET read == NextRead(desk.kind, c.facts) IN
          \E said \in Replies(read, c.stamp.account, c.stamp.row, c.facts) :
            LET k == [c EXCEPT !.facts = Learned(@, read, said)]
                outcome == IF said = Failed THEN "refused" ELSE Outcome(desk.kind, k.facts)
            IN /\ calls' = (calls \ {c}) \cup (IF Live(c) /\ outcome = "more" THEN {k} ELSE {})
               /\ desk' = IF outcome = "more" THEN desk ELSE Settled(desk, k, outcome)
    BY <1>4 DEF HearRead
  <2> DEFINE read == NextRead(desk.kind, c.facts)
  <2> HIDE DEF read
  <2>2. PICK said :
          LET k == [c EXCEPT !.facts = Learned(@, read, said)]
              outcome == IF said = Failed THEN "refused" ELSE Outcome(desk.kind, k.facts)
          IN /\ calls' = (calls \ {c}) \cup (IF Live(c) /\ outcome = "more" THEN {k} ELSE {})
             /\ desk' = IF outcome = "more" THEN desk ELSE Settled(desk, k, outcome)
    BY <2>1 DEF read
  <2> DEFINE facts == Learned(c.facts, read, said)
             k == [c EXCEPT !.facts = facts]
             outcome == IF said = Failed THEN "refused" ELSE Outcome(desk.kind, k.facts)
  <2>3. calls' \subseteq calls \cup {k} /\ (desk' = desk \/ desk' = Settled(desk, k, outcome))
    BY <2>2
  <2> HIDE DEF outcome, facts
  <2>4. IsCall(k) /\ k.step = "read"
    BY <2>1 DEF SendInv, IsCall, CallField
  <2> HIDE DEF k
  <2>5. SameSend(desk, desk')
    BY <1>1, <2>3, SettledKeepsSend DEF SameSend
  <2> QED
    BY <2>3, <2>4, <2>5, ReadsComeAndGo DEF SendInv
<1>5. CASE HearSendAccounts
  <2>1. PICK c, said :
          /\ c \in calls /\ c.step = "accounts"
          /\ \/ calls' = (calls \ {c}) \cup {[c EXCEPT !.step = "chain", !.sender = said]}
                /\ desk' = desk
             \/ calls' = calls \ {c} /\ desk' = SendEnds(c, "failed")
    BY <1>5 DEF HearSendAccounts
  <2> DEFINE d == [c EXCEPT !.step = "chain", !.sender = said]
  <2>2. IsCall(d) /\ d.step = "chain"
    BY <2>1 DEF SendInv, IsCall, CallField
  <2> HIDE DEF d
  <2> QED
    BY <1>2, <1>3, <2>1, <2>2 DEF d
<1>6. CASE HearSendChain
  <2>1. PICK c \in calls :
          /\ c.step = "chain"
          /\ \/ calls' = (calls \ {c}) \cup {[c EXCEPT !.step = "transaction"]}
                /\ desk' = desk
             \/ calls' = calls \ {c} /\ desk' = SendEnds(c, "failed")
    BY <1>6 DEF HearSendChain
  <2> DEFINE d == [c EXCEPT !.step = "transaction"]
  <2>2. IsCall(d) /\ d.step = "transaction"
    BY DEF SendInv, IsCall, CallField
  <2> HIDE DEF d
  <2> QED
    BY <1>2, <1>3, <2>1, <2>2 DEF d
<1>7. CASE HearSendTransaction
  BY <1>3, <1>7 DEF HearSendTransaction
<1> QED
  BY <1>4, <1>5, <1>6, <1>7

LEMMA SendsKept == ASSUME SendInv, [Next]_vars PROVE SendInv'
<1>1. CASE DeskStep
  BY <1>1, LookingKeepsSend, PressesKeepSend, LeavingKeepsSend, AnswersKeepSend
     DEF DeskStep, DeskNext
<1>2. CASE PanelStep \/ WalletStep \/ ReceiptStep \/ GateStep \/ UNCHANGED vars
  <2>1. UNCHANGED deskVars
    BY <1>2 DEF PanelStep, WalletStep, ReceiptStep, GateStep, vars
  <2> QED
    BY <2>1 DEF deskVars, SendInv, OneSend
<1> QED
  BY <1>1, <1>2 DEF Next

LEMMA InitSends == Init => SendInv
<1> SUFFICES ASSUME Init PROVE SendInv
  OBVIOUS
<1> DEFINE Fresh == (\E kind, row : desk = NewDesk(kind, row)) /\ calls = {}
<1>1. ASSUME NEW kind, DeskInit(kind) PROVE Fresh
  BY <1>1 DEF DeskInit
<1> HIDE DEF Fresh
<1>2. Fresh
  BY <1>1 DEF Init
<1>3. IsDesk(desk)
  BY <1>2 DEF Fresh, NewDesk, IsDesk, DeskField
<1> QED
  BY <1>2, <1>3 DEF Fresh, SendInv, OneSend

-----------------------------------------------------------------------------
(* A receipt and its refresh. *)

ReceiptField == {"mounted", "attempt", "checking", "refreshing", "stored", "of", "stamp", "key",
                 "events", "state", "open", "claim", "presses"}

IsReceipt(r) == r = [field \in ReceiptField |-> r[field]]

OneOfAKind == \A c, d \in requests : c.kind = d.kind => c = d

\* checkingRef and refreshingRef: the first is lowered when the screen is left, which
\* nothing can press any more; the second never is before the answer.
RequestInv ==
    /\ IsReceipt(receipt)
    /\ OneOfAKind
    /\ \A c \in requests : /\ c.kind \in {"receipt", "refresh"}
                           /\ c.kind = "receipt" => receipt.checking \/ ~receipt.mounted
                           /\ c.kind = "refresh" => receipt.refreshing

LEMMA ReceiptKeeps == ASSUME RequestInv, ReceiptNext PROVE RequestInv'
<1>1. IsReceipt(receipt)
  BY DEF RequestInv
<1>2. CASE RenderReceipt
  <2>1. /\ UNCHANGED requests /\ IsReceipt(receipt')
        /\ receipt'.checking = receipt.checking /\ receipt'.refreshing = receipt.refreshing
        /\ receipt'.mounted = receipt.mounted
    BY <1>1, <1>2 DEF RenderReceipt, IsReceipt, ReceiptField
  <2> QED
    BY <2>1 DEF RequestInv, OneOfAKind
<1>3. CASE PressReceipt
  <2> DEFINE c == [kind |-> "receipt", attempt |-> receipt.attempt + 1, stamp |-> receipt.stamp]
  <2>1. /\ ~receipt.checking /\ receipt.mounted
        /\ requests' = requests \cup {c}
    BY <1>3 DEF PressReceipt, MayPressReceipt, Checking
  <2>2. /\ IsReceipt(receipt') /\ receipt'.checking = TRUE
        /\ receipt'.refreshing = receipt.refreshing
    BY <1>1, <1>3 DEF PressReceipt, PressedReceipt, IsReceipt, ReceiptField
  <2>3. c.kind = "receipt"
    OBVIOUS
  <2> HIDE DEF c
  <2> QED
    BY <2>1, <2>2, <2>3 DEF RequestInv, OneOfAKind
<1>4. CASE PressRefresh
  <2> DEFINE c == [kind |-> "refresh", press |-> receipt.presses]
  <2>1. ~receipt.refreshing /\ requests' = requests \cup {c}
    BY <1>4 DEF PressRefresh
  <2>2. /\ IsReceipt(receipt') /\ receipt'.refreshing = TRUE
        /\ receipt'.checking = receipt.checking /\ receipt'.mounted = receipt.mounted
    BY <1>1, <1>4 DEF PressRefresh, PressedReceipt, IsReceipt, ReceiptField
  <2>3. c.kind = "refresh"
    OBVIOUS
  <2> HIDE DEF c
  <2> QED
    BY <2>1, <2>2, <2>3 DEF RequestInv, OneOfAKind
<1>5. CASE HearReceipt
  <2>1. PICK c, answer :
          /\ c \in requests /\ c.kind = "receipt" /\ requests' = requests \ {c}
          /\ LET r == [receipt EXCEPT !.checking = FALSE] IN
             receipt' = IF r.mounted /\ r.attempt = c.attempt
                        THEN [r EXCEPT !.stored = Parsed(answer), !.of = c.stamp] ELSE r
    BY <1>5 DEF HearReceipt
  <2>2. IsReceipt(receipt') /\ receipt'.refreshing = receipt.refreshing
    BY <1>1, <2>1 DEF IsReceipt, ReceiptField
  <2> QED
    BY <2>1, <2>2 DEF RequestInv, OneOfAKind
<1>6. CASE HearRefresh
  <2>1. PICK c, kind :
          /\ c \in requests /\ c.kind = "refresh" /\ requests' = requests \ {c}
          /\ receipt' = [receipt EXCEPT !.refreshing = FALSE,
                                        !.events = [kind |-> kind, under |-> receipt.key]]
    BY <1>6 DEF HearRefresh
  <2>2. /\ IsReceipt(receipt') /\ receipt'.checking = receipt.checking
        /\ receipt'.mounted = receipt.mounted
    BY <1>1, <2>1 DEF IsReceipt, ReceiptField
  <2> QED
    BY <2>1, <2>2 DEF RequestInv, OneOfAKind
<1>7. CASE LeaveReceipt
  <2>1. /\ UNCHANGED requests /\ IsReceipt(receipt') /\ receipt'.mounted = FALSE
        /\ receipt'.refreshing = receipt.refreshing
    BY <1>1, <1>7 DEF LeaveReceipt, IsReceipt, ReceiptField
  <2> QED
    BY <2>1 DEF RequestInv, OneOfAKind
<1> QED
  BY <1>2, <1>3, <1>4, <1>5, <1>6, <1>7 DEF ReceiptNext

LEMMA RequestsKept == ASSUME RequestInv, [Next]_vars PROVE RequestInv'
<1>1. CASE ReceiptStep
  BY <1>1, ReceiptKeeps DEF ReceiptStep
<1>2. CASE PanelStep \/ WalletStep \/ DeskStep \/ GateStep \/ UNCHANGED vars
  <2>1. UNCHANGED receiptVars
    BY <1>2 DEF PanelStep, WalletStep, DeskStep, GateStep, Rest, vars
  <2> QED
    BY <2>1 DEF receiptVars, RequestInv, OneOfAKind
<1> QED
  BY <1>1, <1>2 DEF Next

LEMMA InitRequests == Init => RequestInv
<1> SUFFICES ASSUME Init PROVE RequestInv
  OBVIOUS
<1>1. ReceiptInit
  BY DEF Init
<1>2. IsReceipt(receipt) /\ requests = {}
  BY <1>1 DEF ReceiptInit, IsReceipt, ReceiptField
<1> QED
  BY <1>2 DEF RequestInv, OneOfAKind

-----------------------------------------------------------------------------
LEMMA AtMostOne ==
  ASSUME NEW S, \A c, d \in S : c = d
  PROVE  Cardinality(S) <= 1
<1>1. CASE S = {}
  BY <1>1, FS_EmptySet
<1>2. CASE S # {}
  <2>1. PICK c \in S : S = {c}
    BY <1>2
  <2>2. Cardinality({c}) = 1
    BY FS_Singleton
  <2> QED
    BY <2>1, <2>2
<1> QED
  BY <1>1, <1>2

\* OneAtATime, for any accounts, chains, owners and rows, and without any bound of the
\* model: whatever the wallet announces and answers between two presses, one permission
\* prompt, one send of a control, one receipt and one refresh are asked for at a time.
THEOREM OneAtATimeSafety == Spec => []OneAtATime
<1> DEFINE Inv == PromptInv /\ SendInv /\ RequestInv
<1>1. Init => Inv
  BY InitPrompts, InitSends, InitRequests
<1>2. Inv /\ [Next]_vars => Inv'
  BY PromptsKept, SendsKept, RequestsKept
<1>3. Inv => OneAtATime
  <2> SUFFICES ASSUME Inv PROVE OneAtATime
    OBVIOUS
  <2>1. OnePromptAtATime
    <3> DEFINE S == {c \in asks : c.step = "request"}
    <3>1. \A c, d \in S : c = d
      BY DEF PromptInv
    <3> QED
      BY <3>1, AtMostOne DEF OnePromptAtATime
  <2>2. OneSendAtATime
    <3> DEFINE S == {c \in calls : c.step # "read"}
    <3>1. \A c, d \in S : c = d
      BY DEF SendInv, OneSend
    <3> QED
      BY <3>1, AtMostOne DEF OneSendAtATime
  <2>3. OneReceiptAtATime
    <3>1. ASSUME NEW kind \in {"receipt", "refresh"}
          PROVE  Cardinality({c \in requests : c.kind = kind}) <= 1
      <4> DEFINE S == {c \in requests : c.kind = kind}
      <4>1. \A c, d \in S : c = d
        BY DEF RequestInv, OneOfAKind
      <4> QED
        BY <4>1, AtMostOne
    <3> QED
      BY <3>1 DEF OneReceiptAtATime
  <2> QED
    BY <2>1, <2>2, <2>3 DEF OneAtATime
<1> QED
  BY <1>1, <1>2, <1>3, PTL DEF Spec

-----------------------------------------------------------------------------
(* What is sent is what was reviewed. *)

Reviewed(kind, facts, stamp) ==
    kind # "submit" => Allowed(kind, facts) /\ stamp.row \in Matching

\* A proposal that was read and found matching was read for a row that matches.
ReadOfItsRow(c) ==
    "proposal" \in DOMAIN c.facts =>
        \/ c.facts["proposal"] = Unreadable
        \/ c.facts["proposal"].matches => c.stamp.row \in Matching

\* What the control has drawn is of the situation drawn, and a gate that is open is at home.
DeskReviewed(d) ==
    /\ d.open => d.stamp.chain = Home
    /\ d.phase # Idle => d.phase.stamp = d.stamp
    /\ d.stored.kind = "ready" => Reviewed(d.kind, d.stored.facts, d.stored.stamp)
    /\ d.phase.kind = "ready" => Reviewed(d.kind, d.phase.facts, d.phase.stamp)

CallReviewed(kind, c) ==
    /\ c.step = "read" => ReadOfItsRow(c)
    /\ c.step # "read" => Reviewed(kind, c.facts, c.stamp) /\ c.stamp.chain = Home
    /\ c.step = "transaction" => c.sender = c.stamp.account

ReviewInv == DeskReviewed(desk) /\ \A c \in calls : CallReviewed(desk.kind, c)

\* A verdict is given on all the facts, each of which could be read.
LEMMA VerdictIsOnAllFacts ==
  ASSUME NEW kind \in Controls, NEW facts, Outcome(kind, facts) = "ready"
  PROVE  /\ Allowed(kind, facts)
         /\ kind # "submit" => /\ "proposal" \in DOMAIN facts
                               /\ facts["proposal"] # Unreadable
                               /\ facts["proposal"].matches
<1>1. Allowed(kind, facts) /\ ~Malformed(kind, facts) /\ Unread(kind, facts) = {}
  BY DEF Outcome
<1>2. ASSUME kind # "submit" PROVE "proposal" \in DOMAIN facts /\ Planned(kind, facts)
  <2>1. kind \in {"confirm", "revoke", "execute"}
    BY <1>1, <1>2 DEF Controls, Allowed
  <2>2. Planned(kind, facts)
    <3> SUFFICES ASSUME ~Planned(kind, facts) PROVE FALSE
      OBVIOUS
    <3>1. Reads(kind, facts) = Plan(kind)
      BY <2>1 DEF Reads, Plan
    <3> QED
      BY <1>1, <3>1 DEF Unread, Planned
  <2>3. \E i \in 1 .. Len(Plan(kind)) : Plan(kind)[i] = "proposal"
    <3>1. CASE kind = "execute"
      <4>1. Len(Plan(kind)) = 6 /\ Plan(kind)[4] = "proposal"
        BY <3>1 DEF Plan
      <4> QED
        BY <4>1
    <3>2. CASE kind # "execute"
      <4>1. Len(Plan(kind)) = 4 /\ Plan(kind)[3] = "proposal"
        BY <2>1, <3>2 DEF Plan
      <4> QED
        BY <4>1
    <3> QED
      BY <3>1, <3>2
  <2> QED
    BY <2>2, <2>3 DEF Planned
<1>3. ASSUME kind # "submit" PROVE facts["proposal"].matches
  BY <1>1, <1>3 DEF Controls, Allowed, MayConfirm, MayRevoke, MayExecute
<1>4. ASSUME kind # "submit" PROVE facts["proposal"] # Unreadable
  BY <1>1, <1>2, <1>4 DEF Malformed
<1> QED
  BY <1>1, <1>2, <1>3, <1>4

\* One more answer, which is no rejection, is of the row of the request.
LEMMA ProposalIsOfItsRow ==
  ASSUME NEW account, NEW row, NEW facts, NEW said \in Replies("proposal", account, row, facts)
  PROVE  said \in {Unreadable, Failed} \/ (said.matches => row \in Matching)
<1>1. "proposal" \notin Owner
  BY FactAssumption DEF Fact
<1> DEFINE held == Held("proposal", account, row, blocks[At(facts)])
<1>2. ASSUME NEW s PROVE Held("proposal", account, row, s).matches => row \in Matching
  BY <1>1 DEF Held
<1>3. held.matches => row \in Matching
  BY <1>2
<1> HIDE DEF held
<1>4. said \in {Unreadable, Failed, held}
  BY DEF Replies, held
<1> QED
  BY <1>3, <1>4

LEMMA FactsGrow ==
  ASSUME NEW c, IsCall(c), c.step = "read", ReadOfItsRow(c), NEW read, NEW said,
         read = "proposal" => said = Unreadable \/ (said.matches => c.stamp.row \in Matching)
  PROVE  ReadOfItsRow([c EXCEPT !.facts = Learned(c.facts, read, said)])
<1> DEFINE facts == Learned(c.facts, read, said)
           k == [c EXCEPT !.facts = facts]
<1>1. k.facts = facts /\ k.stamp = c.stamp
  BY DEF IsCall, CallField
<1>2. /\ DOMAIN facts = DOMAIN c.facts \cup {read}
      /\ \A r \in DOMAIN c.facts : r # read => facts[r] = c.facts[r]
      /\ facts[read] = said
  BY DEF Learned
<1> HIDE DEF facts
<1>3. ReadOfItsRow(k)
  BY <1>1, <1>2 DEF ReadOfItsRow
<1> QED
  BY <1>3 DEF facts

\* A step that changes neither what is said, nor what is drawn, nor what is asked.
LEMMA ReviewStays ==
  ASSUME ReviewInv, UNCHANGED calls, desk'.kind = desk.kind, DeskReviewed(desk')
  PROVE  ReviewInv'
BY DEF ReviewInv, DeskReviewed

LEMMA LookingKeepsReview ==
  ASSUME SendInv, ReviewInv,
         Mine \/ Render \/ RunEffects \/ CatalogArrives \/ RowChanges \/ PageShows \/ Leave
  PROVE  ReviewInv'
<1>1. IsDesk(desk) /\ DeskReviewed(desk)
  BY DEF SendInv, ReviewInv
<1>2. UNCHANGED calls
  BY DEF Mine, Render, RunEffects, CatalogArrives, RowChanges, PageShows, Leave
<1>3. CASE Render
  <2> DEFINE stamp == Stamp(hook.state, desk.row)
             moved == stamp # desk.stamp
             d     == Forget(desk, moved)
             phase == Shown(d, stamp)
             open  == GateIsOpen(hook.state, d.listed)
  <2>1. /\ IsDesk(d) /\ d.kind = desk.kind
        /\ d.stored \in {Idle, desk.stored}
    BY <1>1 DEF IsDesk, DeskField, Forget
  <2>2. phase = Idle \/ (phase = d.stored /\ phase.stamp = stamp)
    BY DEF Shown
  <2>3. open => stamp.chain = Home
    BY DEF GateIsOpen, Stamp
  <2>4. desk' = [d EXCEPT !.stamp = stamp, !.phase = phase, !.acked = Acked(d, phase),
                          !.open = open, !.pending = moved /\ d.kind # "submit",
                          !.visit = @ + (IF moved THEN 1 ELSE 0)]
    BY <1>3 DEF Render
  <2> HIDE DEF stamp, moved, d, phase, open
  <2>5. /\ desk'.kind = desk.kind /\ desk'.stored = d.stored /\ desk'.phase = phase
        /\ desk'.open = open /\ desk'.stamp = stamp
    BY <2>1, <2>4 DEF IsDesk, DeskField
  <2>6. Idle.kind = "idle"
    BY DEF Idle
  <2>7. DeskReviewed(desk')
    BY <1>1, <2>1, <2>2, <2>3, <2>5, <2>6 DEF DeskReviewed
  <2> QED
    BY <1>2, <2>5, <2>7, ReviewStays
<1>4. CASE Mine \/ RunEffects \/ CatalogArrives \/ RowChanges \/ PageShows \/ Leave
  <2>1. /\ desk'.kind = desk.kind /\ desk'.stored = desk.stored /\ desk'.phase = desk.phase
        /\ desk'.open = desk.open /\ desk'.stamp = desk.stamp
    <3>1. CASE Mine
      BY <3>1 DEF Mine
    <3>2. CASE RunEffects
      BY <1>1, <3>2 DEF RunEffects, Retires, IsDesk, DeskField
    <3>3. CASE CatalogArrives
      BY <1>1, <3>3 DEF CatalogArrives, IsDesk, DeskField
    <3>4. CASE RowChanges
      <4>1. PICK row : desk' = [Showing(desk) EXCEPT !.row = row]
        BY <3>4 DEF RowChanges
      <4> QED
        BY <1>1, <4>1 DEF Showing, IsDesk, DeskField
    <3>5. CASE PageShows
      <4>1. desk' = Showing(desk)
        BY <3>5 DEF PageShows
      <4> QED
        BY <1>1, <4>1 DEF Showing, IsDesk, DeskField
    <3>6. CASE Leave
      BY <1>1, <3>6 DEF Leave, IsDesk, DeskField
    <3> QED
      BY <1>4, <3>1, <3>2, <3>3, <3>4, <3>5, <3>6
  <2>2. DeskReviewed(desk')
    BY <1>1, <2>1 DEF DeskReviewed
  <2> QED
    BY <1>2, <2>1, <2>2, ReviewStays
<1> QED
  BY <1>3, <1>4

LEMMA PressesKeepReview ==
  ASSUME SendInv, ReviewInv,
         PressCheck \/ PressReview \/ PressTick \/ PressSubmit \/ PressCancel \/ PressBack
  PROVE  ReviewInv'
<1>1. IsDesk(desk) /\ DeskReviewed(desk)
  BY DEF SendInv, ReviewInv
<1>2. ASSUME NEW stored, NEW attempt, NEW sending,
             \/ desk' = [Pressed(desk) EXCEPT !.attempt = attempt, !.stored = stored]
             \/ desk' = [Pressed(desk) EXCEPT !.stored = stored]
             \/ desk' = [Pressed(desk) EXCEPT !.attempt = attempt, !.sending = sending,
                                              !.stored = stored],
             stored.kind = "ready" => desk.kind = "submit"
      PROVE  DeskReviewed(desk') /\ desk'.kind = desk.kind
  <2>1. /\ desk'.kind = desk.kind /\ desk'.stored = stored /\ desk'.phase = desk.phase
        /\ desk'.open = desk.open /\ desk'.stamp = desk.stamp
    BY <1>1, <1>2 DEF Pressed, IsDesk, DeskField
  <2> QED
    BY <1>1, <1>2, <2>1 DEF DeskReviewed, Reviewed
<1>3. CASE PressCheck
  <2> DEFINE c == Begun(desk, "read", <<>>, desk.attempt + 1)
             p == Phase("checking", c)
  <2>1. c.step = "read" /\ c.facts = <<>> /\ p.kind = "checking"
    BY DEF Begun, Phase
  <2>2. calls' = Forgotten \cup {c}
        /\ desk' = [Pressed(desk) EXCEPT !.attempt = c.attempt, !.stored = p]
    BY <1>3 DEF PressCheck
  <2> HIDE DEF c, p
  <2>3. DeskReviewed(desk') /\ desk'.kind = desk.kind
    BY <1>2, <2>1, <2>2
  <2>4. CallReviewed(desk.kind, c)
    BY <2>1 DEF CallReviewed, ReadOfItsRow
  <2>5. ASSUME NEW k \in calls PROVE
          CallReviewed(desk.kind, IF k.step = "read" THEN [k EXCEPT !.facts = <<>>] ELSE k)
    <3>1. CASE k.step = "read"
      <4> DEFINE e == [k EXCEPT !.facts = <<>>]
      <4>1. e.step = "read" /\ e.facts = <<>>
        BY <3>1 DEF SendInv, IsCall, CallField
      <4> HIDE DEF e
      <4>2. CallReviewed(desk.kind, e)
        BY <4>1 DEF CallReviewed, ReadOfItsRow
      <4> QED
        BY <3>1, <4>2 DEF e
    <3>2. CASE k.step # "read"
      BY <3>2 DEF ReviewInv
    <3> QED
      BY <3>1, <3>2
  <2>6. \A k \in Forgotten : CallReviewed(desk.kind, k)
    BY <2>5 DEF Forgotten
  <2> QED
    BY <2>2, <2>3, <2>4, <2>6 DEF ReviewInv
<1>4. CASE PressReview
  <2> DEFINE p == Phase("ready", Begun(desk, "review", <<>>, desk.presses + 1))
  <2>1. /\ desk.kind = "submit" /\ UNCHANGED calls
        /\ desk' = [Pressed(desk) EXCEPT !.stored = p]
    BY <1>4 DEF PressReview
  <2> HIDE DEF p
  <2> QED
    BY <1>2, <2>1, ReviewStays
<1>5. CASE PressTick
  <2>1. /\ desk'.kind = desk.kind /\ desk'.stored = desk.stored /\ desk'.phase = desk.phase
        /\ desk'.open = desk.open /\ desk'.stamp = desk.stamp /\ UNCHANGED calls
    BY <1>1, <1>5 DEF PressTick, Pressed, IsDesk, DeskField
  <2>2. DeskReviewed(desk')
    BY <1>1, <2>1 DEF DeskReviewed
  <2> QED
    BY <2>1, <2>2, ReviewStays
<1>6. CASE PressCancel \/ PressBack
  <2>1. Idle.kind # "ready"
    BY DEF Idle
  <2>2. UNCHANGED calls
    BY <1>6 DEF PressCancel, PressBack
  <2>3. DeskReviewed(desk') /\ desk'.kind = desk.kind
    BY <1>2, <1>6, <2>1 DEF PressCancel, PressBack
  <2> QED
    BY <2>2, <2>3, ReviewStays
<1>7. CASE PressSubmit
  <2> DEFINE c == Begun(desk, "accounts", desk.phase.facts, desk.phase.review)
             p == Phase("sending", c)
  <2>1. /\ c.step = "accounts" /\ c.facts = desk.phase.facts /\ c.stamp = desk.stamp
        /\ p.kind = "sending"
    BY DEF Begun, Phase
  <2>2. /\ desk.open /\ desk.phase.kind = "ready"
        /\ calls' = calls \cup {c}
        /\ desk' = [Pressed(desk) EXCEPT !.attempt = c.attempt, !.sending = TRUE, !.stored = p]
    BY <1>7 DEF PressSubmit
  <2> HIDE DEF c, p
  <2>3. DeskReviewed(desk') /\ desk'.kind = desk.kind
    BY <1>2, <2>1, <2>2
  <2>4. desk.phase # Idle
    BY <2>2 DEF Idle
  <2>5. CallReviewed(desk.kind, c)
    BY <1>1, <2>1, <2>2, <2>4 DEF DeskReviewed, CallReviewed
  <2> QED
    BY <2>2, <2>3, <2>5 DEF ReviewInv
<1> QED
  BY <1>3, <1>4, <1>5, <1>6, <1>7

\* An answer settles the control with what its own request was about.
LEMMA SettlingKeepsReview ==
  ASSUME IsDesk(desk), DeskReviewed(desk), NEW c, NEW kind,
         kind = "ready" => Reviewed(desk.kind, c.facts, c.stamp)
  PROVE  DeskReviewed(Settled(desk, c, kind)) /\ Settled(desk, c, kind).kind = desk.kind
<1> DEFINE d == Settled(desk, c, kind)
           p == Phase(kind, c)
<1>1. CASE d = desk
  BY <1>1
<1>2. CASE d = [desk EXCEPT !.stored = p]
  <2>1. p.kind = kind /\ p.stamp = c.stamp /\ (kind = "ready" => p.facts = c.facts)
    BY DEF Phase
  <2> HIDE DEF p
  <2>2. /\ d.kind = desk.kind /\ d.stored = p /\ d.phase = desk.phase
        /\ d.open = desk.open /\ d.stamp = desk.stamp
    BY <1>2 DEF IsDesk, DeskField
  <2> HIDE DEF d
  <2>3. DeskReviewed(d) /\ d.kind = desk.kind
    BY <2>1, <2>2 DEF DeskReviewed
  <2> QED
    BY <2>3 DEF d
<1>3. d = desk \/ d = [desk EXCEPT !.stored = p]
  BY DEF Settled
<1> QED
  BY <1>1, <1>2, <1>3

LEMMA ReadsKeepReview ==
  ASSUME SendInv, ReviewInv, desk.kind \in Controls, HearRead
  PROVE  ReviewInv'
<1>1. IsDesk(desk) /\ DeskReviewed(desk)
  BY DEF SendInv, ReviewInv
<1>2. PICK c \in {k \in calls : k.step = "read"} :
        LET read == NextRead(desk.kind, c.facts) IN
        \E said \in Replies(read, c.stamp.account, c.stamp.row, c.facts) :
          LET k == [c EXCEPT !.facts = Learned(@, read, said)]
              outcome == IF said = Failed THEN "refused" ELSE Outcome(desk.kind, k.facts)
          IN /\ calls' = (calls \ {c}) \cup (IF Live(c) /\ outcome = "more" THEN {k} ELSE {})
             /\ desk' = IF outcome = "more" THEN desk ELSE Settled(desk, k, outcome)
  BY DEF HearRead
<1> DEFINE read == NextRead(desk.kind, c.facts)
<1> HIDE DEF read
<1>3. PICK said \in Replies(read, c.stamp.account, c.stamp.row, c.facts) :
        LET k == [c EXCEPT !.facts = Learned(@, read, said)]
            outcome == IF said = Failed THEN "refused" ELSE Outcome(desk.kind, k.facts)
        IN /\ calls' = (calls \ {c}) \cup (IF Live(c) /\ outcome = "more" THEN {k} ELSE {})
           /\ desk' = IF outcome = "more" THEN desk ELSE Settled(desk, k, outcome)
  BY <1>2 DEF read
<1> DEFINE k == [c EXCEPT !.facts = Learned(c.facts, read, said)]
           outcome == IF said = Failed THEN "refused" ELSE Outcome(desk.kind, k.facts)
<1>4. /\ calls' \subseteq calls \cup {k} /\ (outcome # "more" => calls' \subseteq calls)
      /\ desk' = IF outcome = "more" THEN desk ELSE Settled(desk, k, outcome)
  BY <1>3
<1>5. IsCall(c) /\ CallReviewed(desk.kind, c) /\ c.step = "read"
  BY <1>2 DEF SendInv, ReviewInv
<1>6. k.step = "read" /\ k.stamp = c.stamp
  BY <1>5 DEF IsCall, CallField
<1>7. said # Failed => ReadOfItsRow(k)
  <2>1. read = "proposal" =>
          said \in {Unreadable, Failed} \/ (said.matches => c.stamp.row \in Matching)
    BY <1>3, ProposalIsOfItsRow
  <2> QED
    BY <1>5, <2>1, FactsGrow DEF CallReviewed
<1>8. outcome = "more" \/ outcome = "ready" => said # Failed
  OBVIOUS
<1>9. outcome = "ready" => Reviewed(desk.kind, k.facts, k.stamp)
  <2> SUFFICES ASSUME outcome = "ready" PROVE Reviewed(desk.kind, k.facts, k.stamp)
    OBVIOUS
  <2>1. Outcome(desk.kind, k.facts) = "ready" /\ ReadOfItsRow(k)
    BY <1>7, <1>8
  <2> HIDE DEF k, outcome
  <2> QED
    BY <2>1, VerdictIsOnAllFacts DEF Reviewed, ReadOfItsRow
<1> HIDE DEF k, outcome
<1>10. DeskReviewed(desk') /\ desk'.kind = desk.kind
  BY <1>1, <1>4, <1>9, SettlingKeepsReview
<1>11. outcome = "more" => CallReviewed(desk.kind, k)
  BY <1>6, <1>7, <1>8 DEF CallReviewed
<1> QED
  BY <1>4, <1>10, <1>11 DEF ReviewInv

LEMMA SendsKeepReview ==
  ASSUME SendInv, ReviewInv, HearSendAccounts \/ HearSendChain \/ HearSendTransaction
  PROVE  ReviewInv'
<1>1. IsDesk(desk) /\ DeskReviewed(desk)
  BY DEF SendInv, ReviewInv
<1>2. ASSUME NEW c, NEW kind, kind # "ready",
             calls' = calls \ {c}, desk' = SendEnds(c, kind)
      PROVE  ReviewInv'
  <2> DEFINE d == Settled(desk, c, kind)
  <2>1. DeskReviewed(d) /\ d.kind = desk.kind /\ IsDesk(d)
    BY <1>1, <1>2, SettlingKeepsReview, SettledKeepsSend DEF SameSend
  <2>2. desk' = [d EXCEPT !.sending = FALSE]
    BY <1>2 DEF SendEnds
  <2> HIDE DEF d
  <2>3. /\ desk'.kind = d.kind /\ desk'.stored = d.stored /\ desk'.phase = d.phase
        /\ desk'.open = d.open /\ desk'.stamp = d.stamp
    BY <2>1, <2>2 DEF IsDesk, DeskField
  <2>4. DeskReviewed(desk') /\ desk'.kind = desk.kind
    BY <2>1, <2>3 DEF DeskReviewed
  <2> QED
    BY <1>2, <2>4 DEF ReviewInv
<1>3. ASSUME NEW c \in calls, NEW d, CallReviewed(desk.kind, d),
             calls' = (calls \ {c}) \cup {d}, UNCHANGED desk
      PROVE  ReviewInv'
  BY <1>1, <1>3 DEF ReviewInv
<1>4. CASE HearSendAccounts
  <2>1. PICK c, said :
          /\ c \in calls /\ c.step = "accounts"
          /\ \/ calls' = (calls \ {c}) \cup {[c EXCEPT !.step = "chain", !.sender = said]}
                /\ desk' = desk
             \/ calls' = calls \ {c} /\ desk' = SendEnds(c, "failed")
    BY <1>4 DEF HearSendAccounts
  <2> DEFINE d == [c EXCEPT !.step = "chain", !.sender = said]
  <2>2. IsCall(c) /\ CallReviewed(desk.kind, c)
    BY <2>1 DEF SendInv, ReviewInv
  <2>3. d.step = "chain" /\ d.facts = c.facts /\ d.stamp = c.stamp
    BY <2>2 DEF IsCall, CallField
  <2> HIDE DEF d
  <2>4. CallReviewed(desk.kind, d)
    BY <2>1, <2>2, <2>3 DEF CallReviewed
  <2> QED
    BY <1>2, <1>3, <2>1, <2>4 DEF d
<1>5. CASE HearSendChain
  <2>1. PICK c \in calls :
          /\ c.step = "chain"
          /\ \/ calls' = (calls \ {c}) \cup {[c EXCEPT !.step = "transaction"]}
                /\ c.sender = c.stamp.account
                /\ desk' = desk
             \/ calls' = calls \ {c} /\ desk' = SendEnds(c, "failed")
    BY <1>5 DEF HearSendChain, MaySend
  <2> DEFINE d == [c EXCEPT !.step = "transaction"]
  <2>2. IsCall(c) /\ CallReviewed(desk.kind, c)
    BY DEF SendInv, ReviewInv
  <2>3. d.step = "transaction" /\ d.facts = c.facts /\ d.stamp = c.stamp /\ d.sender = c.sender
    BY <2>2 DEF IsCall, CallField
  <2> HIDE DEF d
  <2>4. c.sender = c.stamp.account => CallReviewed(desk.kind, d)
    BY <2>1, <2>2, <2>3 DEF CallReviewed
  <2> QED
    BY <1>2, <1>3, <2>1, <2>4 DEF d
<1>6. CASE HearSendTransaction
  BY <1>2, <1>6 DEF HearSendTransaction
<1> QED
  BY <1>4, <1>5, <1>6

LEMMA ReviewsKept == ASSUME SendInv, ReviewInv, [Next]_vars PROVE ReviewInv'
<1>1. CASE DeskStep
  BY <1>1, LookingKeepsReview, PressesKeepReview, ReadsKeepReview, SendsKeepReview
     DEF DeskStep, DeskNext
<1>2. CASE PanelStep \/ WalletStep \/ ReceiptStep \/ GateStep \/ UNCHANGED vars
  <2>1. UNCHANGED desk /\ UNCHANGED calls
    BY <1>2 DEF PanelStep, WalletStep, ReceiptStep, GateStep, vars, deskVars
  <2> QED
    BY <2>1, ReviewStays DEF ReviewInv
<1> QED
  BY <1>1, <1>2 DEF Next

LEMMA InitReviews == Init => ReviewInv
<1> SUFFICES ASSUME Init PROVE ReviewInv
  OBVIOUS
<1> DEFINE Fresh == (\E kind, row : desk = NewDesk(kind, row)) /\ calls = {}
<1>1. ASSUME NEW kind, DeskInit(kind) PROVE Fresh
  BY <1>1 DEF DeskInit
<1> HIDE DEF Fresh
<1>2. Fresh
  BY <1>1 DEF Init
<1>3. PICK kind, row : desk = NewDesk(kind, row)
  BY <1>2 DEF Fresh
<1> DEFINE stamp == Stamp(hook.state, row)
           open  == GateIsOpen(hook.state, kind # "submit")
<1>4. open => stamp.chain = Home
  BY DEF GateIsOpen, Stamp
<1> HIDE DEF stamp, open
<1>5. /\ desk.stored = Idle /\ desk.phase = Idle /\ desk.stamp = stamp
      /\ desk.open = open
  BY <1>3 DEF NewDesk, stamp, open
<1>6. Idle.kind = "idle"
  BY DEF Idle
<1> QED
  BY <1>2, <1>4, <1>5, <1>6 DEF Fresh, ReviewInv, DeskReviewed

\* PromptsAreOfTheReview, likewise: the wallet is asked to sign for the account, on the
\* chain and for the row that were reviewed, by facts that allow the call, whatever
\* changes between the reads, the renders, the presses and the answers.
THEOREM ReviewSafety == Spec => []PromptsAreOfTheReview
<1> DEFINE Inv == SendInv /\ ReviewInv
<1>1. Init => Inv
  BY InitSends, InitReviews
<1>2. Inv /\ [Next]_vars => Inv'
  BY SendsKept, ReviewsKept
<1>3. Inv => PromptsAreOfTheReview
  <2> SUFFICES ASSUME Inv, NEW c \in calls, c.step = "transaction"
               PROVE  /\ c.sender = c.stamp.account /\ c.stamp.chain = Home
                      /\ Allowed(desk.kind, c.facts)
                      /\ desk.kind # "submit" => c.stamp.row \in Matching
    BY DEF PromptsAreOfTheReview, Prompts
  <2>1. CallReviewed(desk.kind, c)
    BY DEF ReviewInv
  <2>2. Allowed("submit", c.facts)
    BY DEF Allowed
  <2> QED
    BY <2>1, <2>2 DEF CallReviewed, Reviewed
<1> QED
  BY <1>1, <1>2, <1>3, PTL DEF Spec

-----------------------------------------------------------------------------
(* A receipt, and what is said of its event. *)

ThisOne(state) ==
    state.kind = "included" => state.receipt.hash = "this" /\ state.receipt.to = "this"

AtHome(stamp) == stamp # <<>> /\ stamp[2] = ReceiptChain

\* What was said of the event under this key.
UnderKey(claim, key) == claim.kind \in {"found", "not-shown"} => claim.under = key

\* A receipt is asked for at home, and stored under the stamp it was asked with; a claim
\* is of the key drawn.
SaidInv ==
    /\ ThisOne(receipt.stored) /\ ThisOne(receipt.state)
    /\ receipt.open => AtHome(receipt.stamp)
    /\ receipt.stored.kind # "idle" => AtHome(receipt.of)
    /\ receipt.state.kind # "idle" =>
           On("receipt") /\ AtHome(receipt.stamp) /\ receipt.stamp = ReceiptStamp(hook.drawn)
    /\ \A c \in requests : c.kind = "receipt" => AtHome(c.stamp)
    /\ receipt.key = ReceiptKey(receipt.state)
    /\ UnderKey(receipt.events, receipt.key) /\ UnderKey(receipt.claim, receipt.key)

LEMMA StampAtHome ==
  ASSUME NEW state
  PROVE  AtHome(ReceiptStamp(state)) <=> state.status = "connected" /\ state.chain = ReceiptChain
BY DEF AtHome, ReceiptStamp

LEMMA IdleSaysNothing ==
  ASSUME NEW key
  PROVE  /\ ThisOne(Said("idle")) /\ Said("idle").kind = "idle" /\ UnderKey(Said("idle"), key)
         /\ ThisOne(Said("checking")) /\ Said("checking").kind = "checking"
         /\ UnderKey(Said("refreshing"), key)
BY DEF ThisOne, Said, UnderKey

LEMMA RenderingKeepsSaid ==
  ASSUME PromptInv, RequestInv, SaidInv, On("receipt"), UNCHANGED deskVars, RenderReceipt
  PROVE  SaidInv'
<1> DEFINE stamp  == ReceiptStamp(hook.state)
           stored == IF stamp # receipt.stamp THEN Said("idle") ELSE receipt.stored
           state  == IF receipt.of = stamp THEN stored ELSE Said("idle")
           events == ClaimUnder(receipt, ReceiptKey(state))
           open   == hook.state.status = "connected" /\ hook.state.chain = ReceiptChain
<1>1. receipt' = [receipt EXCEPT
        !.stamp = stamp, !.stored = stored, !.key = ReceiptKey(state), !.events = events,
        !.state = state, !.claim = events, !.open = open]
      /\ hook' = [hook EXCEPT !.drawn = hook.state] /\ UNCHANGED requests
  BY DEF RenderReceipt
<1>2. ThisOne(stored) /\ (stored.kind # "idle" => AtHome(receipt.of))
  BY IdleSaysNothing DEF SaidInv
<1>3. ThisOne(state) /\ (state.kind # "idle" => AtHome(stamp))
  BY <1>2, IdleSaysNothing
<1>4. UnderKey(events, ReceiptKey(state))
  BY IdleSaysNothing DEF SaidInv, ClaimUnder
<1>5. open <=> AtHome(stamp)
  BY StampAtHome
<1> DEFINE key == ReceiptKey(state)
<1>6. key = ReceiptKey(state) /\ stamp = ReceiptStamp(hook.state)
  OBVIOUS
<1> HIDE DEF stamp, stored, state, events, open, key
<1>7. /\ receipt'.stamp = stamp /\ receipt'.stored = stored /\ receipt'.key = key
      /\ receipt'.events = events /\ receipt'.state = state /\ receipt'.claim = events
      /\ receipt'.open = open /\ receipt'.of = receipt.of
  BY <1>1, <1>6 DEF RequestInv, IsReceipt, ReceiptField
<1>8. hook'.drawn = hook.state /\ On("receipt")'
  BY <1>1 DEF PromptInv, IsHook, HookField, On, deskVars
<1> QED
  BY <1>1, <1>2, <1>3, <1>4, <1>5, <1>6, <1>7, <1>8 DEF SaidInv

\* A step that changes what is stored or said, and neither what is drawn nor the wallet.
SameReceiptDrawn ==
    /\ receipt'.stamp = receipt.stamp /\ receipt'.state = receipt.state
    /\ receipt'.key = receipt.key /\ receipt'.claim = receipt.claim
    /\ receipt'.open \in {receipt.open, FALSE}
    /\ hook'.drawn = hook.drawn /\ On("receipt")' = On("receipt")

LEMMA PressesKeepSaid ==
  ASSUME PromptInv, RequestInv, SaidInv, On("receipt"), UNCHANGED deskVars,
         PressReceipt \/ PressRefresh \/ HearReceipt \/ HearRefresh \/ LeaveReceipt
  PROVE  SaidInv'
<1>1. IsReceipt(receipt) /\ IsHook(hook)
  BY DEF RequestInv, PromptInv
<1>2. ASSUME SameReceiptDrawn, receipt'.stored = receipt.stored, receipt'.of = receipt.of,
             UnderKey(receipt'.events, receipt.key),
             \A c \in requests' : c.kind = "receipt" => c \in requests
      PROVE  SaidInv'
  BY <1>2 DEF SaidInv, SameReceiptDrawn
<1>3. CASE PressReceipt
  <2> DEFINE c == [kind |-> "receipt", attempt |-> receipt.attempt + 1, stamp |-> receipt.stamp]
  <2>1. /\ SameReceiptDrawn /\ receipt.open
        /\ receipt'.stored = Said("checking") /\ receipt'.of = receipt.stamp
        /\ receipt'.events = receipt.events /\ requests' = requests \cup {c}
    BY <1>1, <1>3 DEF PressReceipt, PressedReceipt, IsReceipt, ReceiptField, SameReceiptDrawn,
                      On, deskVars, walletVars
  <2>2. c.stamp = receipt.stamp
    OBVIOUS
  <2> HIDE DEF c
  <2> QED
    BY <2>1, <2>2, IdleSaysNothing DEF SaidInv, SameReceiptDrawn
<1>4. CASE PressRefresh
  <2>1. /\ SameReceiptDrawn /\ receipt'.stored = receipt.stored /\ receipt'.of = receipt.of
        /\ receipt'.events = Said("refreshing")
    BY <1>1, <1>4 DEF PressRefresh, PressedReceipt, IsReceipt, ReceiptField, SameReceiptDrawn,
                      On, deskVars, walletVars
  <2>2. \A c \in requests' : c.kind = "receipt" => c \in requests
    BY <1>4 DEF PressRefresh
  <2> QED
    BY <1>2, <2>1, <2>2, IdleSaysNothing
<1>5. CASE HearReceipt
  <2>1. PICK c, answer :
          /\ c \in requests /\ c.kind = "receipt" /\ requests' = requests \ {c}
          /\ LET r == [receipt EXCEPT !.checking = FALSE] IN
             receipt' = IF r.mounted /\ r.attempt = c.attempt
                        THEN [r EXCEPT !.stored = Parsed(answer), !.of = c.stamp] ELSE r
          /\ UNCHANGED walletVars
    BY <1>5 DEF HearReceipt
  <2>2. ThisOne(Parsed(answer))
    BY DEF ThisOne, Parsed, Said, IsThisTransaction
  <2> DEFINE heard == Parsed(answer)
  <2>3. /\ SameReceiptDrawn /\ receipt'.events = receipt.events
        /\ \/ receipt'.stored = receipt.stored /\ receipt'.of = receipt.of
           \/ receipt'.stored = heard /\ receipt'.of = c.stamp
    <3> HIDE DEF heard
    <3>1. receipt' \in {[receipt EXCEPT !.checking = FALSE],
                        [[receipt EXCEPT !.checking = FALSE] EXCEPT !.stored = heard, !.of = c.stamp]}
      BY <2>1 DEF heard
    <3> QED
      BY <1>1, <2>1, <3>1 DEF IsReceipt, ReceiptField, SameReceiptDrawn, On, deskVars, walletVars
  <2> HIDE DEF heard
  <2>4. ThisOne(heard) /\ AtHome(c.stamp)
    BY <2>1, <2>2 DEF SaidInv, heard
  <2> QED
    BY <2>1, <2>3, <2>4 DEF SaidInv, SameReceiptDrawn
<1>6. CASE HearRefresh
  <2>1. PICK kind :
          /\ requests' \subseteq requests
          /\ receipt' = [receipt EXCEPT !.refreshing = FALSE,
                                        !.events = [kind |-> kind, under |-> receipt.key]]
          /\ UNCHANGED walletVars
    BY <1>6 DEF HearRefresh
  <2> DEFINE said == [kind |-> kind, under |-> receipt.key]
  <2>2. UnderKey(said, receipt.key)
    BY DEF UnderKey
  <2> HIDE DEF said
  <2>3. /\ SameReceiptDrawn /\ receipt'.stored = receipt.stored /\ receipt'.of = receipt.of
        /\ receipt'.events = said
    BY <1>1, <2>1 DEF said, IsReceipt, ReceiptField, SameReceiptDrawn, On, deskVars, walletVars
  <2> QED
    BY <1>2, <2>1, <2>2, <2>3
<1>7. CASE LeaveReceipt
  <2>1. receipt' = [receipt EXCEPT !.mounted = FALSE, !.attempt = @ + 1, !.checking = FALSE]
        /\ hook' = LeaveWallet(hook) /\ UNCHANGED requests
    BY <1>7 DEF LeaveReceipt
  <2>2. hook'.drawn = hook.drawn
    BY <1>1, <2>1 DEF LeaveWallet, Retired, IsHook, HookField
  <2>3. /\ SameReceiptDrawn /\ receipt'.stored = receipt.stored /\ receipt'.of = receipt.of
        /\ receipt'.events = receipt.events
    BY <1>1, <2>1, <2>2 DEF IsReceipt, ReceiptField, SameReceiptDrawn, On, deskVars
  <2> QED
    BY <1>2, <2>1, <2>3 DEF SaidInv
<1> QED
  BY <1>3, <1>4, <1>5, <1>6, <1>7

\* The wallet changes what the hook knows, and nothing that is drawn.
LEMMA WalletDrawsNothing == ASSUME PromptInv, WalletMoves PROVE hook'.drawn = hook.drawn
<1>1. IsHook(hook)
  BY DEF PromptInv
<1>2. ASSUME NEW h, IsHook(h), NEW n, NEW state PROVE Apply(h, n, state).drawn = h.drawn
  BY <1>2 DEF Apply, IsHook, HookField
<1>3. IsHook(Retired(hook)) /\ Retired(hook).drawn = hook.drawn
  BY <1>1 DEF Retired, IsHook, HookField
<1>4. ASSUME NEW h, IsHook(h), NEW c PROVE Finished(h, c).drawn = h.drawn
  BY <1>4 DEF Finished, IsHook, HookField
<1>5. CASE HearAccountList \/ HearChainId
  <2>1. PICK c, state :
          hook' \in {hook, Finished(Apply(hook, c.attempt, state), c)}
    BY <1>5 DEF HearAccountList, HearChainId
  <2>2. IsHook(Apply(hook, c.attempt, state))
    BY <1>1, SetKeepsRef DEF SameRef
  <2> QED
    BY <1>1, <1>2, <1>4, <2>1, <2>2
<1>6. CASE HearNews
  <2>1. ASSUME NEW payload, HandleAccountsChanged(payload) PROVE hook'.drawn = hook.drawn
    <3>1. PICK n, state : hook' \in {Retired(hook), Apply(Retired(hook), n, state)}
      BY <2>1 DEF HandleAccountsChanged
    <3> QED
      BY <1>2, <1>3, <3>1
  <2>2. ASSUME NEW payload, HandleChainChanged(payload) PROVE hook'.drawn = hook.drawn
    <3> DEFINE g == [hook EXCEPT !.seq = @ + 1, !.announced = payload]
    <3>1. IsHook(g) /\ g.drawn = hook.drawn
      BY <1>1 DEF IsHook, HookField
    <3>2. PICK n, state : hook' \in {Apply(Retired(hook), n, state), Apply(g, n, state)}
      BY <2>2 DEF HandleChainChanged
    <3> HIDE DEF g
    <3> QED
      BY <1>2, <1>3, <3>1, <3>2
  <2>3. CASE HandleDisconnect
    BY <1>2, <1>3, <2>3 DEF HandleDisconnect
  <2> QED
    BY <1>6, <2>1, <2>2, <2>3 DEF HearNews
<1>7. CASE WalletSwitchesAccount \/ WalletSwitchesChain \/ WalletDisconnects
           \/ WalletAnswers \/ WalletGrants \/ WalletRefuses
  BY <1>7 DEF WalletSwitchesAccount, WalletSwitchesChain, WalletDisconnects, WalletAnswers,
              WalletGrants, WalletRefuses
<1> QED
  BY <1>5, <1>6, <1>7 DEF WalletMoves

LEMMA SaidKept == ASSUME PromptInv, RequestInv, SaidInv, [Next]_vars PROVE SaidInv'
<1>1. CASE ReceiptStep
  BY <1>1, RenderingKeepsSaid, PressesKeepSaid DEF ReceiptStep, ReceiptNext
<1>2. CASE WalletStep \/ UNCHANGED vars
  <2>1. hook'.drawn = hook.drawn /\ On("receipt")' = On("receipt") /\ UNCHANGED receiptVars
    BY <1>2, WalletDrawsNothing DEF WalletStep, Rest, vars, deskVars, walletVars, On
  <2> QED
    BY <2>1 DEF receiptVars, SaidInv
<1>3. CASE PanelStep \/ DeskStep \/ GateStep
  <2>1. ~On("receipt") /\ UNCHANGED receiptVars
    BY <1>3 DEF PanelStep, DeskStep, GateStep, Rest, On, Controls
  <2> QED
    BY <2>1 DEF receiptVars, SaidInv
<1> QED
  BY <1>1, <1>2, <1>3 DEF Next

LEMMA InitSaid == Init => SaidInv
<1> SUFFICES ASSUME Init PROVE SaidInv
  OBVIOUS
<1>1. ReceiptInit
  BY DEF Init
<1> DEFINE open == hook.state.status = "connected" /\ hook.state.chain = ReceiptChain
<1>2. /\ receipt.stored = Said("idle") /\ receipt.state = Said("idle")
      /\ receipt.key = <<"idle">> /\ receipt.stamp = ReceiptStamp(hook.state)
      /\ receipt.open = open /\ receipt.events = Said("idle") /\ receipt.claim = Said("idle")
      /\ requests = {}
  BY <1>1 DEF ReceiptInit
<1>3. open <=> AtHome(receipt.stamp)
  BY <1>2, StampAtHome
<1>4. ReceiptKey(Said("idle")) = <<"idle">>
  BY DEF ReceiptKey, Said
<1> HIDE DEF open
<1> QED
  BY <1>2, <1>3, <1>4, IdleSaysNothing DEF SaidInv

\* SaidOfThisReceipt, for any accounts and chains and any number of presses: what is said of
\* a transaction, and of its event, is said of the receipt drawn beside it, which is of this
\* transaction and was asked for by the account and on the chain shown, whatever order the
\* presses, the answers and the moves of the wallet come in.
THEOREM ReceiptSafety == Spec => []SaidOfThisReceipt
<1> DEFINE Inv == PromptInv /\ RequestInv /\ SaidInv
<1>1. Init => Inv
  BY InitPrompts, InitRequests, InitSaid
<1>2. Inv /\ [Next]_vars => Inv'
  BY PromptsKept, RequestsKept, SaidKept
<1>3. Inv => SaidOfThisReceipt
  <2> SUFFICES ASSUME Inv PROVE SaidOfThisReceipt
    OBVIOUS
  <2>1. ReceiptIsThisTransactions
    BY StampAtHome DEF ReceiptIsThisTransactions, SaidInv, ThisOne
  <2>2. ClaimsFollowTheReceipt
    BY DEF ClaimsFollowTheReceipt, SaidInv, UnderKey
  <2> QED
    BY <2>1, <2>2 DEF SaidOfThisReceipt
<1> QED
  BY <1>1, <1>2, <1>3, PTL DEF Spec

-----------------------------------------------------------------------------
(* The reads of the overview. *)

GateField == {"steps", "catalog", "open", "opening", "nonce", "stamp", "pending", "attempt",
              "mounted", "result", "shown", "era"}
ReadField == {"attempt", "stamp", "left", "readable", "era"}

IsGate(g) == g = [field \in GateField |-> g[field]]
IsRead(c) == c = [field \in ReadField |-> c[field]]

\* An opening belongs to one era: what bears the number of the present one is of it.
InEra(g, c) ==
    c.stamp # <<>> =>
        /\ c.stamp[4] \in Nat /\ c.stamp[4] <= g.opening
        /\ g.open /\ c.stamp[4] = g.opening => c.era = g.era

\* The stamp drawn is of what is drawn, and a value is drawn under its own stamp.
GateDrawn(g) ==
    /\ g.attempt \in Nat /\ g.opening \in Nat /\ g.era \in Nat
    /\ g.open <=> g.stamp # <<>>
    /\ g.stamp # <<>> => g.stamp[4] = g.opening
    /\ g.stamp = <<>> => g.shown.kind = "idle"
    /\ g.shown.kind = "loaded" => g.shown.stamp = g.stamp /\ g.shown.era = g.era
    /\ InEra(g, g.result)

StampDrawn ==
    gate.stamp # <<>> =>
        On("reads") /\ gate.stamp[1] = hook.drawn.account /\ gate.stamp[2] = hook.drawn.chain

\* A request of the present attempt is under the stamp drawn, until the next effect.
ReadOK(g, c) ==
    /\ IsRead(c) /\ c.stamp # <<>> /\ InEra(g, c)
    /\ c.attempt \in Nat /\ c.attempt <= g.attempt
    /\ c.attempt = g.attempt => c.stamp = g.stamp \/ g.pending

\* A stamp that is drawn and has been acted on has its result, or is being read.
BeingRead ==
    gate.mounted /\ ~gate.pending /\ gate.stamp # <<>>
    => gate.result.stamp = gate.stamp \/ \E c \in reads : c.attempt = gate.attempt

GateInv ==
    /\ IsGate(gate) /\ GateDrawn(gate) /\ StampDrawn
    /\ \A c \in reads : ReadOK(gate, c)
    /\ BeingRead

LEMMA StampOfGate ==
  ASSUME NEW state, NEW enabled, NEW nonce, NEW opening
  PROVE  LET stamp == GateStamp(state, enabled, nonce, opening)
         IN  IF enabled THEN /\ stamp # <<>> /\ stamp[1] = state.account
                             /\ stamp[2] = state.chain /\ stamp[4] = opening
             ELSE stamp = <<>>
BY DEF GateStamp

LEMMA NothingOfNoStamp ==
  ASSUME NEW result, NEW stamp
  PROVE  /\ stamp = <<>> => Drawn(result, stamp).kind = "idle"
         /\ Drawn(result, stamp).kind = "loaded" => /\ stamp # <<>> /\ result.stamp = stamp
                                                    /\ Drawn(result, stamp) = result
BY DEF Drawn, NoResult

LEMMA RenderingKeepsGate ==
  ASSUME PromptInv, GateInv, On("reads"), UNCHANGED deskVars, RenderGate
  PROVE  GateInv'
<1> DEFINE enabled == Enabled(hook.state, gate.catalog)
           opening == gate.opening + (IF enabled /\ ~gate.open THEN 1 ELSE 0)
           stamp   == GateStamp(hook.state, enabled, gate.nonce, opening)
           shown   == Drawn(gate.result, stamp)
           era     == gate.era + (IF gate.open /\ ~enabled THEN 1 ELSE 0)
           moved   == stamp # gate.stamp
<1>1. /\ gate.mounted /\ ~gate.pending /\ UNCHANGED reads
      /\ gate' = [gate EXCEPT !.open = enabled, !.opening = opening, !.stamp = stamp,
                              !.pending = moved, !.shown = shown, !.era = era]
      /\ hook' = [hook EXCEPT !.drawn = hook.state]
  BY DEF RenderGate
<1>2. /\ enabled <=> stamp # <<>>
      /\ enabled => stamp[1] = hook.state.account /\ stamp[2] = hook.state.chain /\ stamp[4] = opening
  BY StampOfGate
<1>3. /\ opening \in Nat /\ gate.opening <= opening /\ era \in Nat
      /\ enabled /\ ~gate.open => opening > gate.opening
      /\ enabled /\ gate.open => opening = gate.opening /\ era = gate.era
  BY DEF GateInv, GateDrawn
<1>4. /\ stamp = <<>> => shown.kind = "idle"
      /\ shown.kind = "loaded" => stamp # <<>> /\ gate.result.stamp = stamp /\ shown = gate.result
  BY NothingOfNoStamp
<1>5. moved <=> stamp # gate.stamp
  OBVIOUS
<1>6. enabled \in BOOLEAN /\ moved \in BOOLEAN
  BY DEF Enabled, GateInv
<1> HIDE DEF enabled, opening, stamp, shown, era, moved
<1>7. /\ IsGate(gate') /\ gate'.attempt = gate.attempt /\ gate'.opening = opening
      /\ gate'.era = era /\ gate'.open = enabled /\ gate'.stamp = stamp /\ gate'.shown = shown
      /\ gate'.pending = moved /\ gate'.result = gate.result /\ gate'.mounted = gate.mounted
  BY <1>1 DEF GateInv, IsGate, GateField
<1>8. hook'.drawn = hook.state /\ On("reads")'
  BY <1>1 DEF PromptInv, IsHook, HookField, On, deskVars
<1>9. ASSUME NEW c, InEra(gate, c) PROVE InEra(gate', c)
  BY <1>2, <1>3, <1>7, <1>9 DEF InEra, GateInv, GateDrawn
<1>10. GateDrawn(gate')
  <2>1. InEra(gate', gate.result)
    BY <1>9 DEF GateInv, GateDrawn
  <2>2. shown.kind = "loaded" => shown.stamp = stamp /\ shown.era = era
    BY <1>2, <1>4, <1>7, <2>1 DEF InEra
  <2> QED
    BY <1>2, <1>3, <1>4, <1>7, <2>1, <2>2 DEF GateInv, GateDrawn
<1>11. StampDrawn'
  BY <1>2, <1>7, <1>8 DEF StampDrawn
<1>12. \A c \in reads' : ReadOK(gate', c)
  BY <1>1, <1>5, <1>7, <1>9 DEF GateInv, ReadOK
<1>13. BeingRead'
  BY <1>1, <1>5, <1>7 DEF GateInv, BeingRead
<1> QED
  BY <1>7, <1>10, <1>11, <1>12, <1>13 DEF GateInv
\* A step that renders nothing.
SameGateDrawn ==
    /\ IsGate(gate') /\ gate'.opening = gate.opening /\ gate'.era = gate.era
    /\ gate'.open = gate.open /\ gate'.stamp = gate.stamp /\ gate'.shown = gate.shown
    /\ hook'.drawn = hook.drawn /\ On("reads")' = On("reads")

LEMMA StepsKeepGate ==
  ASSUME PromptInv, GateInv, On("reads"), UNCHANGED deskVars,
         GateCatalogArrives \/ RunGateEffect \/ HearGatedRead \/ PressReadAgain \/ LeaveGate
  PROVE  GateInv'
<1>1. IsGate(gate) /\ IsHook(hook)
  BY DEF GateInv, PromptInv
<1>2. ASSUME SameGateDrawn, gate'.result = gate.result, gate'.pending = gate.pending,
             \/ gate'.attempt = gate.attempt /\ gate'.mounted = gate.mounted
             \/ gate'.attempt = gate.attempt + 1 /\ ~gate'.mounted,
             UNCHANGED reads
      PROVE  GateInv'
  <2>1. GateDrawn(gate') /\ StampDrawn'
    BY <1>2 DEF GateInv, GateDrawn, StampDrawn, SameGateDrawn, InEra
  <2>2. \A c \in reads' : ReadOK(gate', c)
    BY <1>2 DEF GateInv, GateDrawn, ReadOK, SameGateDrawn, InEra
  <2>3. BeingRead'
    BY <1>2 DEF GateInv, BeingRead, SameGateDrawn
  <2> QED
    BY <1>2, <2>1, <2>2, <2>3 DEF GateInv, SameGateDrawn
<1>3. CASE GateCatalogArrives
  <2>1. /\ SameGateDrawn /\ gate'.result = gate.result /\ gate'.attempt = gate.attempt
        /\ gate'.pending = gate.pending /\ gate'.mounted = gate.mounted /\ UNCHANGED reads
    BY <1>1, <1>3 DEF GateCatalogArrives, IsGate, GateField, SameGateDrawn, On, deskVars, walletVars
  <2> QED
    BY <1>2, <2>1
<1>4. CASE PressReadAgain
  <2>1. /\ SameGateDrawn /\ gate'.result = gate.result /\ gate'.attempt = gate.attempt
        /\ gate'.pending = gate.pending /\ gate'.mounted = gate.mounted /\ UNCHANGED reads
    BY <1>1, <1>4 DEF PressReadAgain, AsksAgain, IsGate, GateField, SameGateDrawn, On, deskVars,
                      walletVars
  <2> QED
    BY <1>2, <2>1
<1>5. CASE LeaveGate
  <2>1. hook'.drawn = hook.drawn
    BY <1>1, <1>5 DEF LeaveGate, LeaveWallet, Retired, IsHook, HookField
  <2>2. /\ SameGateDrawn /\ gate'.result = gate.result /\ gate'.attempt = gate.attempt + 1
        /\ gate'.pending = gate.pending /\ ~gate'.mounted /\ UNCHANGED reads
    BY <1>1, <1>5, <2>1 DEF LeaveGate, IsGate, GateField, SameGateDrawn, On, deskVars
  <2> QED
    BY <1>2, <2>2
<1>6. CASE RunGateEffect
  <2> DEFINE c == [attempt |-> gate.attempt + 1, stamp |-> gate.stamp,
                   left |-> gate.steps, readable |-> TRUE, era |-> gate.era]
  <2>1. /\ SameGateDrawn /\ gate'.result = gate.result /\ gate'.attempt = gate.attempt + 1
        /\ gate'.pending = FALSE /\ gate'.mounted = gate.mounted
        /\ reads' = IF gate.stamp = <<>> THEN reads ELSE reads \cup {c}
    BY <1>1, <1>6 DEF RunGateEffect, IsGate, GateField, SameGateDrawn, On, deskVars, walletVars
  <2>2. IsRead(c) /\ c.attempt = gate.attempt + 1 /\ c.stamp = gate.stamp /\ c.era = gate.era
    BY DEF IsRead, ReadField
  <2> HIDE DEF c
  <2>3. GateDrawn(gate') /\ StampDrawn'
    BY <2>1 DEF GateInv, GateDrawn, StampDrawn, SameGateDrawn, InEra
  <2>4. ASSUME NEW k \in reads PROVE ReadOK(gate', k)
    BY <2>1 DEF GateInv, GateDrawn, ReadOK, SameGateDrawn, InEra
  <2>5. gate.stamp # <<>> => ReadOK(gate', c)
    BY <2>1, <2>2 DEF GateInv, GateDrawn, ReadOK, SameGateDrawn, InEra
  <2>6. BeingRead'
    BY <2>1, <2>2 DEF BeingRead, SameGateDrawn
  <2> QED
    BY <2>1, <2>3, <2>4, <2>5, <2>6 DEF GateInv, SameGateDrawn
<1>7. CASE HearGatedRead
  <2>1. PICK c, said :
          LET live == gate.mounted /\ gate.attempt = c.attempt
              k    == [c EXCEPT !.left = @ - 1, !.readable = @ /\ said = "value"]
              goesOn == live /\ said # Failed /\ k.left > 0
          IN /\ c \in reads
             /\ reads' = (reads \ {c}) \cup (IF goesOn THEN {k} ELSE {})
             /\ gate' = IF ~live \/ goesOn THEN gate
                        ELSE [gate EXCEPT !.result =
                                 [kind |-> IF k.readable THEN "loaded" ELSE "error",
                                  stamp |-> c.stamp, era |-> c.era]]
             /\ UNCHANGED walletVars
    BY <1>7 DEF HearGatedRead
  <2> DEFINE live == gate.mounted /\ gate.attempt = c.attempt
             k    == [c EXCEPT !.left = @ - 1, !.readable = @ /\ said = "value"]
             goesOn == live /\ said # Failed /\ k.left > 0
             result == [kind |-> IF k.readable THEN "loaded" ELSE "error",
                        stamp |-> c.stamp, era |-> c.era]
  <2>2. /\ ReadOK(gate, c)
        /\ reads' = (reads \ {c}) \cup (IF goesOn THEN {k} ELSE {})
        /\ gate' = IF ~live \/ goesOn THEN gate ELSE [gate EXCEPT !.result = result]
    BY <2>1 DEF GateInv
  <2>3. IsRead(k) /\ k.stamp = c.stamp /\ k.era = c.era /\ k.attempt = c.attempt
    BY <2>2 DEF ReadOK, IsRead, ReadField
  <2>4. result.stamp = c.stamp /\ result.era = c.era /\ (goesOn => live)
    OBVIOUS
  <2>5. live <=> gate.mounted /\ gate.attempt = c.attempt
    OBVIOUS
  <2> HIDE DEF live, goesOn, k, result
  <2>6. /\ SameGateDrawn /\ gate'.attempt = gate.attempt /\ gate'.pending = gate.pending
        /\ gate'.mounted = gate.mounted
        /\ gate'.result = IF ~live \/ goesOn THEN gate.result ELSE result
    BY <1>1, <2>1, <2>2 DEF IsGate, GateField, SameGateDrawn, On, deskVars, walletVars
  <2>7. GateDrawn(gate') /\ StampDrawn'
    BY <2>2, <2>4, <2>6 DEF GateInv, GateDrawn, StampDrawn, SameGateDrawn, InEra, ReadOK
  <2>8. ReadOK(gate', k) /\ \A d \in reads : ReadOK(gate', d)
    BY <2>2, <2>3, <2>6 DEF GateInv, ReadOK, SameGateDrawn, InEra
  <2>9. BeingRead'
    <3> SUFFICES ASSUME gate.mounted, ~gate.pending, gate.stamp # <<>>
                 PROVE  gate'.result.stamp = gate.stamp \/ \E d \in reads' : d.attempt = gate.attempt
      BY <2>6 DEF BeingRead, SameGateDrawn
    <3>1. CASE ~live
      BY <2>1, <2>2, <2>5, <2>6, <3>1 DEF GateInv, BeingRead
    <3>2. CASE goesOn
      BY <2>2, <2>3, <2>4, <2>5, <3>2
    <3>3. CASE live /\ ~goesOn
      BY <2>2, <2>4, <2>5, <2>6, <3>3 DEF ReadOK
    <3> QED
      BY <3>1, <3>2, <3>3
  <2> QED
    BY <2>2, <2>6, <2>7, <2>8, <2>9 DEF GateInv, SameGateDrawn
<1> QED
  BY <1>3, <1>4, <1>5, <1>6, <1>7

LEMMA GateKept == ASSUME PromptInv, GateInv, [Next]_vars PROVE GateInv'
<1>1. CASE GateStep
  BY <1>1, RenderingKeepsGate, StepsKeepGate DEF GateStep, GateNext
<1>2. CASE WalletStep \/ UNCHANGED vars
  <2>1. hook'.drawn = hook.drawn /\ On("reads")' = On("reads") /\ UNCHANGED gateVars
    BY <1>2, WalletDrawsNothing DEF WalletStep, Rest, vars, deskVars, walletVars, On
  <2> QED
    BY <2>1 DEF gateVars, GateInv, StampDrawn, BeingRead
<1>3. CASE PanelStep \/ DeskStep \/ ReceiptStep
  <2>1. ~On("reads") /\ UNCHANGED gateVars
    BY <1>3 DEF PanelStep, DeskStep, ReceiptStep, Rest, On, Controls
  <2> QED
    BY <2>1 DEF gateVars, GateInv, StampDrawn, BeingRead
<1> QED
  BY <1>1, <1>2, <1>3 DEF Next

LEMMA InitGate == Init => GateInv
<1> SUFFICES ASSUME Init PROVE GateInv
  OBVIOUS
<1>1. PICK steps : GateInit(steps)
  BY DEF Init
<1> DEFINE shown == Drawn(NoResult, <<>>)
<1>2. shown.kind = "idle"
  BY NothingOfNoStamp
<1>3. NoResult.stamp = <<>>
  BY DEF NoResult
<1> HIDE DEF shown
<1>4. /\ IsGate(gate) /\ gate.open = FALSE /\ gate.opening = 0 /\ gate.stamp = <<>>
      /\ gate.attempt = 0 /\ gate.result = NoResult /\ gate.shown = shown /\ gate.era = 0
      /\ reads = {}
  BY <1>1 DEF GateInit, IsGate, GateField, shown
<1> QED
  BY <1>2, <1>3, <1>4 DEF GateInv, GateDrawn, StampDrawn, BeingRead, InEra

\* ValuesAreOfThisOpening, for any accounts, chains and catalog and any number of
\* openings: a value on the screen was asked for since the gate last opened, and for the
\* account and the chain drawn beside it, whatever the wallet did between the request and
\* its answer.
THEOREM ValueSafety == Spec => []ValuesAreOfThisOpening
<1> DEFINE Inv == PromptInv /\ GateInv
<1>1. Init => Inv
  BY InitPrompts, InitGate
<1>2. Inv /\ [Next]_vars => Inv'
  BY PromptsKept, GateKept
<1>3. Inv => ValuesAreOfThisOpening
  BY DEF GateInv, GateDrawn, StampDrawn, ValuesAreOfThisOpening
<1> QED
  BY <1>1, <1>2, <1>3, PTL DEF Spec

-----------------------------------------------------------------------------
(* What each step of a control does to what it says and to what it asks. *)

\* The fields no press and no answer changes.
SameRender ==
    /\ IsDesk(desk') /\ desk'.kind = desk.kind /\ desk'.row = desk.row
    /\ desk'.mounted = desk.mounted /\ desk'.stamp = desk.stamp /\ desk'.visit = desk.visit
    /\ desk'.pending = desk.pending /\ desk'.phase = desk.phase /\ desk'.open = desk.open
    /\ desk'.listed = desk.listed /\ desk'.moves = desk.moves

Says(stored, attempt, acked) ==
    /\ SameRender
    /\ desk'.stored = stored /\ desk'.attempt = attempt /\ desk'.acked = acked

\* A request that is the same but for how far it has come.
SameCall(c, k) ==
    /\ IsCall(c) /\ IsCall(k) /\ k.attempt = c.attempt /\ k.stamp = c.stamp /\ k.visit = c.visit
    /\ k.review = c.review /\ k.early = c.early /\ k.tick = c.tick

LEMMA BegunFields ==
  ASSUME NEW d, NEW step, NEW facts, NEW review
  PROVE  LET c == Begun(d, step, facts, review)
         IN  /\ IsCall(c) /\ c.step = step /\ c.attempt = d.attempt + 1 /\ c.stamp = d.stamp
             /\ c.visit = d.visit /\ c.facts = facts /\ c.review = review
             /\ c.early = d.pending /\ c.tick = d.acked
BY DEF IsCall, CallField, Begun

LEMMA PhaseFields ==
  ASSUME NEW kind, NEW c
  PROVE  LET p == Phase(kind, c)
         IN  /\ p.kind = kind /\ p.stamp = c.stamp /\ p.visit = c.visit /\ p.review = c.review
             /\ p.early = c.early /\ (kind # "refused" => p.facts = c.facts)
BY DEF Phase

\* A press of the checks: the first read of a new attempt.
Checks(c) ==
    /\ c = Begun(desk, "read", <<>>, desk.attempt + 1)
    /\ desk.kind # "submit" /\ desk.phase.kind \in {"idle", "done"} /\ desk.open
    /\ desk.phase.kind = "done" => desk.kind = "status"
    /\ calls' = Forgotten \cup {c}
    /\ Says(Phase("checking", c), desk.attempt + 1, desk.acked)

LEMMA PressCheckDoes ==
  ASSUME SendInv, PressCheck PROVE \E c : Checks(c)
<1> DEFINE c == Begun(desk, "read", <<>>, desk.attempt + 1)
           p == Phase("checking", c)
<1>1. c.attempt = desk.attempt + 1
  BY BegunFields
<1>2. /\ desk.kind # "submit" /\ desk.phase.kind \in {"idle", "done"} /\ desk.open
      /\ desk.phase.kind = "done" => desk.kind = "status"
      /\ calls' = Forgotten \cup {c}
      /\ desk' = [Pressed(desk) EXCEPT !.attempt = c.attempt, !.stored = p]
  BY DEF PressCheck
<1>3. IsDesk(desk)
  BY DEF SendInv
<1> HIDE DEF c, p
<1>4. Says(p, desk.attempt + 1, desk.acked)
  BY <1>1, <1>2, <1>3 DEF Says, SameRender, IsDesk, DeskField, Pressed
<1>5. c = Begun(desk, "read", <<>>, desk.attempt + 1) /\ p = Phase("checking", c)
  BY DEF c, p
<1> QED
  BY <1>2, <1>4, <1>5 DEF Checks

\* A press that sends what is offered.
Submits(c) ==
    /\ c = Begun(desk, "accounts", desk.phase.facts, desk.phase.review)
    /\ desk.mounted /\ desk.open /\ desk.phase.kind = "ready" /\ ~desk.sending
    /\ desk.kind = "execute" => desk.acked # 0
    /\ calls' = calls \cup {c}
    /\ Says(Phase("sending", c), desk.attempt + 1, desk.acked)

LEMMA PressSubmitDoes ==
  ASSUME SendInv, PressSubmit PROVE \E c : Submits(c)
<1> DEFINE c == Begun(desk, "accounts", desk.phase.facts, desk.phase.review)
           p == Phase("sending", c)
<1>1. c.attempt = desk.attempt + 1
  BY BegunFields
<1>2. /\ desk.mounted /\ desk.open /\ desk.phase.kind = "ready" /\ ~desk.sending
      /\ desk.kind = "execute" => desk.acked # 0
      /\ calls' = calls \cup {c}
      /\ desk' = [Pressed(desk) EXCEPT !.attempt = c.attempt, !.sending = TRUE, !.stored = p]
  BY DEF PressSubmit, MayPress, Sending
<1>3. IsDesk(desk)
  BY DEF SendInv
<1> HIDE DEF c, p
<1>4. Says(p, desk.attempt + 1, desk.acked)
  BY <1>1, <1>2, <1>3 DEF Says, SameRender, IsDesk, DeskField, Pressed
<1>5. c = Begun(desk, "accounts", desk.phase.facts, desk.phase.review) /\ p = Phase("sending", c)
  BY DEF c, p
<1> QED
  BY <1>2, <1>4, <1>5 DEF Submits

\* The presses that ask nothing: the form is reviewed, a review is ticked, what is said is
\* put away.
Reviews ==
    /\ desk.kind = "submit" /\ desk.open
    /\ Says(Phase("ready", Begun(desk, "review", <<>>, desk.presses + 1)), desk.attempt, desk.acked)

Ticks ==
    /\ desk.kind = "execute" /\ desk.phase.kind = "ready"
    /\ Says(desk.stored, desk.attempt, desk.phase.review)

PutsAway ==
    \/ Says(Idle, desk.attempt + 1, desk.acked)
    \/ desk.phase.kind \in {"refused", "sent", "failed"} /\ Says(Idle, desk.attempt, desk.acked)

LEMMA PressesDo ==
  ASSUME SendInv, PressReview \/ PressTick \/ PressCancel \/ PressBack
  PROVE  UNCHANGED calls /\ (Reviews \/ Ticks \/ PutsAway)
<1>1. IsDesk(desk)
  BY DEF SendInv
<1>2. CASE PressReview
  <2> DEFINE p == Phase("ready", Begun(desk, "review", <<>>, desk.presses + 1))
  <2>1. /\ desk.kind = "submit" /\ desk.open /\ UNCHANGED calls
        /\ desk' = [Pressed(desk) EXCEPT !.stored = p]
    BY <1>2 DEF PressReview
  <2> HIDE DEF p
  <2>2. Says(p, desk.attempt, desk.acked)
    BY <1>1, <2>1 DEF Says, SameRender, IsDesk, DeskField, Pressed
  <2> QED
    BY <2>1, <2>2 DEF Reviews, p
<1>3. CASE PressTick
  BY <1>1, <1>3 DEF PressTick, Ticks, Says, SameRender, IsDesk, DeskField, Pressed
<1>4. CASE PressCancel
  BY <1>1, <1>4 DEF PressCancel, PutsAway, Says, SameRender, IsDesk, DeskField, Pressed
<1>5. CASE PressBack
  BY <1>1, <1>5 DEF PressBack, PutsAway, Says, SameRender, IsDesk, DeskField, Pressed
<1> QED
  BY <1>2, <1>3, <1>4, <1>5

\* An answer: its request goes on, or it ends and settles the control if it is live.
GoesOn(c, k) ==
    /\ Live(c) /\ UNCHANGED desk
    /\ calls' = (calls \ {c}) \cup {k}
    /\ c.step = "read" <=> k.step = "read"
    /\ k.step \in {"read", "chain", "transaction"}

Ends(c, k, kind) ==
    /\ calls' = calls \ {c}
    /\ Says(IF Live(c) THEN Phase(kind, k) ELSE desk.stored, desk.attempt, desk.acked)
    /\ kind \in (IF c.step = "read" THEN {"refused", "done", "ready"} ELSE {"sent", "failed"})

Hears(c, k) == c \in calls /\ SameCall(c, k) /\ (GoesOn(c, k) \/ \E kind : Ends(c, k, kind))

\* A read that is answered: one more fact, and the verdict on the facts if they suffice.
HearsFact(c, k) ==
    /\ c \in calls /\ c.step = "read" /\ SameCall(c, k)
    /\ \E said \in Replies(NextRead(desk.kind, c.facts), c.stamp.account, c.stamp.row, c.facts) :
           /\ k.facts = Learned(c.facts, NextRead(desk.kind, c.facts), said)
           /\ \/ GoesOn(c, k) /\ said # Failed /\ Outcome(desk.kind, k.facts) = "more"
              \/ Ends(c, k, "refused")
              \/ Ends(c, k, Outcome(desk.kind, k.facts)) /\ said # Failed

LEMMA SettledSays ==
  ASSUME SendInv, NEW c, NEW kind,
         desk' = Settled(desk, c, kind) \/ desk' = SendEnds(c, kind)
  PROVE  Says(IF Live(c) THEN Phase(kind, c) ELSE desk.stored, desk.attempt, desk.acked)
<1> DEFINE p == Phase(kind, c)
           d == Settled(desk, c, kind)
<1>1. IsDesk(desk)
  BY DEF SendInv
<1>2. d = IF Live(c) THEN [desk EXCEPT !.stored = p] ELSE desk
  BY DEF Settled, Live
<1>3. desk' = d \/ desk' = [d EXCEPT !.sending = FALSE]
  BY DEF SendEnds
<1> HIDE DEF p, d
<1>4. Says(IF Live(c) THEN p ELSE desk.stored, desk.attempt, desk.acked)
  BY <1>1, <1>2, <1>3 DEF Says, SameRender, IsDesk, DeskField
<1> QED
  BY <1>4 DEF p

LEMMA UnchangedSays ==
  ASSUME SendInv, UNCHANGED desk PROVE Says(desk.stored, desk.attempt, desk.acked)
BY DEF SendInv, Says, SameRender

LEMMA OutcomeIsOneOf ==
  ASSUME NEW kind, NEW facts
  PROVE  Outcome(kind, facts) \in {"refused", "done", "more", "ready"}
BY DEF Outcome

LEMMA HearReadDoes ==
  ASSUME SendInv, HearRead
  PROVE  \E c, k : HearsFact(c, k)
<1>1. PICK c \in {k \in calls : k.step = "read"} :
        LET read == NextRead(desk.kind, c.facts) IN
        \E said \in Replies(read, c.stamp.account, c.stamp.row, c.facts) :
          LET k == [c EXCEPT !.facts = Learned(@, read, said)]
              outcome == IF said = Failed THEN "refused" ELSE Outcome(desk.kind, k.facts)
          IN /\ calls' = (calls \ {c}) \cup (IF Live(c) /\ outcome = "more" THEN {k} ELSE {})
             /\ desk' = IF outcome = "more" THEN desk ELSE Settled(desk, k, outcome)
  BY DEF HearRead
<1> DEFINE read == NextRead(desk.kind, c.facts)
<1> HIDE DEF read
<1>2. PICK said \in Replies(read, c.stamp.account, c.stamp.row, c.facts) :
        LET k == [c EXCEPT !.facts = Learned(@, read, said)]
            outcome == IF said = Failed THEN "refused" ELSE Outcome(desk.kind, k.facts)
        IN /\ calls' = (calls \ {c}) \cup (IF Live(c) /\ outcome = "more" THEN {k} ELSE {})
           /\ desk' = IF outcome = "more" THEN desk ELSE Settled(desk, k, outcome)
  BY <1>1 DEF read
<1> DEFINE facts == Learned(c.facts, read, said)
           k == [c EXCEPT !.facts = facts]
           outcome == IF said = Failed THEN "refused" ELSE Outcome(desk.kind, k.facts)
<1>3. /\ calls' = (calls \ {c}) \cup (IF Live(c) /\ outcome = "more" THEN {k} ELSE {})
      /\ desk' = IF outcome = "more" THEN desk ELSE Settled(desk, k, outcome)
  BY <1>2
<1>4. outcome \in {"refused", "done", "more", "ready"}
  BY OutcomeIsOneOf
<1>0. outcome = "refused" \/ (said # Failed /\ outcome = Outcome(desk.kind, k.facts))
  OBVIOUS
<1> HIDE DEF outcome, facts
<1>5. SameCall(c, k) /\ k.step = "read" /\ k.facts = facts
  BY <1>1 DEF SendInv, SameCall, IsCall, CallField
<1> HIDE DEF k
<1>6. Live(k) <=> Live(c)
  BY <1>5 DEF Live, SameCall
<1>7. ASSUME \/ GoesOn(c, k) /\ said # Failed /\ Outcome(desk.kind, k.facts) = "more"
             \/ Ends(c, k, "refused")
             \/ Ends(c, k, Outcome(desk.kind, k.facts)) /\ said # Failed
      PROVE  HearsFact(c, k)
  BY <1>1, <1>5, <1>7 DEF HearsFact, facts, read
<1>8. CASE Live(c) /\ outcome = "more"
  <2>1. GoesOn(c, k)
    BY <1>1, <1>3, <1>5, <1>8 DEF GoesOn
  <2> QED
    BY <1>0, <1>7, <1>8, <2>1
<1>9. CASE ~Live(c) /\ outcome = "more"
  <2>1. Says(desk.stored, desk.attempt, desk.acked) /\ calls' = calls \ {c}
    BY <1>3, <1>9, UnchangedSays
  <2>2. Ends(c, k, "refused")
    BY <1>1, <1>9, <2>1 DEF Ends
  <2> QED
    BY <1>7, <2>2
<1>10. CASE outcome # "more"
  <2>1. Says(IF Live(c) THEN Phase(outcome, k) ELSE desk.stored, desk.attempt, desk.acked)
        /\ calls' = calls \ {c}
    BY <1>3, <1>6, <1>10, SettledSays
  <2>2. Ends(c, k, outcome)
    BY <1>1, <1>4, <1>10, <2>1 DEF Ends
  <2> QED
    BY <1>0, <1>7, <2>2
<1> QED
  BY <1>8, <1>9, <1>10

LEMMA FactIsHeard == ASSUME NEW c, NEW k, HearsFact(c, k) PROVE Hears(c, k)
BY DEF HearsFact, Hears

LEMMA HearSendDoes ==
  ASSUME SendInv, HearSendAccounts \/ HearSendChain \/ HearSendTransaction
  PROVE  \E c, k : c.step # "read" /\ k.facts = c.facts /\ Hears(c, k)
<1>1. ASSUME NEW c \in calls, c.step # "read", NEW kind \in {"sent", "failed"},
             calls' = calls \ {c}, desk' = SendEnds(c, kind)
      PROVE  Hears(c, c)
  <2>1. Ends(c, c, kind)
    BY <1>1, SettledSays DEF Ends
  <2> QED
    BY <1>1, <2>1 DEF Hears, SameCall, SendInv
<1>2. CASE HearSendAccounts
  <2>1. PICK c, said :
          /\ c \in calls /\ c.step = "accounts"
          /\ \/ /\ Live(c) /\ desk' = desk
                /\ calls' = (calls \ {c}) \cup {[c EXCEPT !.step = "chain", !.sender = said]}
             \/ calls' = calls \ {c} /\ desk' = SendEnds(c, "failed")
    BY <1>2 DEF HearSendAccounts
  <2> DEFINE k == [c EXCEPT !.step = "chain", !.sender = said]
  <2>0. IsCall(c)
    BY <2>1 DEF SendInv
  <2>2. SameCall(c, k) /\ k.step = "chain" /\ k.facts = c.facts
    BY <2>0 DEF SameCall, IsCall, CallField
  <2> HIDE DEF k
  <2>3. CASE Live(c) /\ desk' = desk /\ calls' = (calls \ {c}) \cup {k}
    BY <2>1, <2>2, <2>3 DEF Hears, GoesOn
  <2>4. CASE calls' = calls \ {c} /\ desk' = SendEnds(c, "failed")
    BY <1>1, <2>1, <2>4
  <2> QED
    BY <2>1, <2>3, <2>4 DEF k
<1>3. CASE HearSendChain
  <2>1. PICK c \in calls :
          /\ c.step = "chain"
          /\ \/ /\ Live(c) /\ desk' = desk
                /\ calls' = (calls \ {c}) \cup {[c EXCEPT !.step = "transaction"]}
             \/ calls' = calls \ {c} /\ desk' = SendEnds(c, "failed")
    BY <1>3 DEF HearSendChain
  <2> DEFINE k == [c EXCEPT !.step = "transaction"]
  <2>2. SameCall(c, k) /\ k.step = "transaction" /\ k.facts = c.facts
    BY <2>1 DEF SendInv, SameCall, IsCall, CallField
  <2> HIDE DEF k
  <2>3. CASE Live(c) /\ desk' = desk /\ calls' = (calls \ {c}) \cup {k}
    BY <2>1, <2>2, <2>3 DEF Hears, GoesOn
  <2>4. CASE calls' = calls \ {c} /\ desk' = SendEnds(c, "failed")
    BY <1>1, <2>1, <2>4
  <2> QED
    BY <2>1, <2>3, <2>4 DEF k
<1>4. CASE HearSendTransaction
  <2>1. PICK c \in calls, kind \in {"sent", "failed"} :
          c.step = "transaction" /\ calls' = calls \ {c} /\ desk' = SendEnds(c, kind)
    BY <1>4 DEF HearSendTransaction
  <2> QED
    BY <1>1, <2>1
<1> QED
  BY <1>2, <1>3, <1>4

LEMMA HearingDoes ==
  ASSUME SendInv, HearRead \/ HearSendAccounts \/ HearSendChain \/ HearSendTransaction
  PROVE  \E c, k : Hears(c, k)
BY HearReadDoes, FactIsHeard, HearSendDoes

-----------------------------------------------------------------------------
\* Moments: what is asked for, and when.

\* A render: what was said is forgotten when the situation moved, and drawn otherwise.
Draws(stamp, moved) ==
    /\ desk.mounted /\ ~desk.pending /\ UNCHANGED calls
    /\ stamp = Stamp(hook.state, desk.row) /\ (moved <=> stamp # desk.stamp)
    /\ IsDesk(desk') /\ desk'.kind = desk.kind /\ desk'.row = desk.row /\ desk'.stamp = stamp
    /\ desk'.mounted = desk.mounted /\ desk'.attempt = desk.attempt
    /\ desk'.stored = (IF moved THEN Idle ELSE desk.stored)
    /\ \/ desk'.phase = Idle
       \/ ~moved /\ desk'.phase = desk.stored /\ desk.stored.stamp = stamp
    /\ desk'.acked = Acked(desk, desk'.phase)
    /\ desk'.visit = desk.visit + (IF moved THEN 1 ELSE 0)
    /\ desk'.pending <=> moved /\ desk.kind # "submit"
    /\ desk'.open => hook.state.status = "connected" /\ hook.state.chain = Home

LEMMA RenderDraws == ASSUME SendInv, Render PROVE \E stamp, moved : Draws(stamp, moved)
<1> DEFINE stamp == Stamp(hook.state, desk.row)
           moved == stamp # desk.stamp
           d     == Forget(desk, moved)
           phase == Shown(d, stamp)
           acked == Acked(d, phase)
           open  == GateIsOpen(hook.state, d.listed)
           pending == moved /\ d.kind # "submit"
           visit == desk.visit + (IF moved THEN 1 ELSE 0)
<1>1. IsDesk(desk)
  BY DEF SendInv
<1>2. d = IF moved THEN [desk EXCEPT !.stored = Idle] ELSE desk
  BY DEF Forget
<1>3. desk' = [d EXCEPT !.stamp = stamp, !.phase = phase, !.acked = acked, !.open = open,
                        !.pending = pending, !.visit = d.visit + (IF moved THEN 1 ELSE 0)]
      /\ desk.mounted /\ ~desk.pending /\ UNCHANGED calls
  BY DEF Render
<1>4. phase = Idle \/ (phase = d.stored /\ d.stored.stamp = stamp /\ d.stored # Idle)
  BY DEF Shown
<1>5. open => hook.state.status = "connected" /\ hook.state.chain = Home
  BY DEF GateIsOpen
<1>6. moved \in BOOLEAN /\ pending \in BOOLEAN /\ stamp = Stamp(hook.state, desk.row)
      /\ (moved <=> stamp # desk.stamp) /\ (pending <=> moved /\ d.kind # "submit")
  OBVIOUS
<1>7. acked = Acked(d, phase)
  OBVIOUS
<1>8. d.visit = desk.visit /\ d.kind = desk.kind /\ d.acked = desk.acked
      /\ d.stored = (IF moved THEN Idle ELSE desk.stored) /\ IsDesk(d)
      /\ d.row = desk.row /\ d.mounted = desk.mounted /\ d.attempt = desk.attempt
  <2> HIDE DEF d, moved
  <2> QED
    BY <1>1, <1>2 DEF IsDesk, DeskField
<1> HIDE DEF stamp, moved, d, phase, acked, open, pending, visit
<1>9. /\ IsDesk(desk') /\ desk'.kind = d.kind /\ desk'.row = d.row /\ desk'.stamp = stamp
      /\ desk'.mounted = d.mounted /\ desk'.attempt = d.attempt /\ desk'.stored = d.stored
      /\ desk'.phase = phase /\ desk'.acked = acked /\ desk'.open = open
      /\ desk'.pending = pending /\ desk'.visit = d.visit + (IF moved THEN 1 ELSE 0)
  BY <1>3, <1>8 DEF IsDesk, DeskField
<1>10. acked = Acked(desk, phase)
  BY <1>7, <1>8 DEF Acked
<1>11. Draws(stamp, moved)
  BY <1>3, <1>4, <1>5, <1>6, <1>8, <1>9, <1>10 DEF Draws
<1> QED
  BY <1>11

\* What moves under a control, and its effects: what it says stays.
Moves ==
    /\ UNCHANGED calls
    /\ IsDesk(desk') /\ desk'.kind = desk.kind /\ desk'.stamp = desk.stamp
    /\ desk'.visit = desk.visit /\ desk'.stored = desk.stored /\ desk'.phase = desk.phase
    /\ desk'.acked = desk.acked /\ desk'.open = desk.open
    /\ desk'.row \in {desk.row} \cup Row
    /\ \/ /\ desk'.attempt = desk.attempt /\ desk'.pending = desk.pending
          /\ desk'.mounted = desk.mounted
       \/ /\ desk'.attempt = desk.attempt + 1 /\ desk.pending /\ ~desk'.pending
          /\ desk'.mounted = desk.mounted
       \/ /\ desk'.attempt = desk.attempt + 1 /\ desk'.pending = desk.pending
          /\ ~desk'.mounted

LEMMA MovingDoes ==
  ASSUME SendInv, Mine \/ RunEffects \/ CatalogArrives \/ RowChanges \/ PageShows \/ Leave
  PROVE  Moves
<1>1. IsDesk(desk)
  BY DEF SendInv
<1>2. CASE Mine
  BY <1>1, <1>2 DEF Mine, Moves
<1>3. CASE RunEffects
  BY <1>1, <1>3 DEF RunEffects, Retires, Moves, IsDesk, DeskField
<1>4. CASE CatalogArrives
  BY <1>1, <1>4 DEF CatalogArrives, Moves, IsDesk, DeskField
<1>5. CASE RowChanges
  <2>1. PICK row \in Row : desk' = [Showing(desk) EXCEPT !.row = row] /\ UNCHANGED calls
    BY <1>5 DEF RowChanges
  <2> QED
    BY <1>1, <2>1 DEF Showing, Moves, IsDesk, DeskField
<1>6. CASE PageShows
  <2>1. desk' = Showing(desk) /\ UNCHANGED calls
    BY <1>6 DEF PageShows
  <2> QED
    BY <1>1, <2>1 DEF Showing, Moves, IsDesk, DeskField
<1>7. CASE Leave
  <2>1. desk' = [desk EXCEPT !.mounted = FALSE, !.attempt = @ + 1,
                             !.sending = @ /\ desk.kind = "submit"]
        /\ UNCHANGED calls
    BY <1>7 DEF Leave
  <2> QED
    BY <1>1, <2>1 DEF Moves, IsDesk, DeskField
<1> QED
  BY <1>2, <1>3, <1>4, <1>5, <1>6, <1>7

LEMMA DeskDoes ==
  ASSUME SendInv, DeskNext
  PROVE  \/ \E stamp, moved : Draws(stamp, moved)
         \/ Moves
         \/ UNCHANGED calls /\ (Reviews \/ Ticks \/ PutsAway)
         \/ \E c : Checks(c)
         \/ \E c : Submits(c)
         \/ \E c, k : Hears(c, k)
BY RenderDraws, MovingDoes, PressesDo, PressCheckDoes, PressSubmitDoes, HearingDoes DEF DeskNext

LEMMA ForgottenIsSame ==
  ASSUME SendInv, NEW k \in Forgotten
  PROVE  \E c \in calls : /\ SameCall(c, k) /\ k.step = c.step
                          /\ c.step # "read" => k = c
<1>1. PICK c \in calls : k = IF c.step = "read" THEN [c EXCEPT !.facts = <<>>] ELSE c
  BY DEF Forgotten
<1>2. IsCall(c)
  BY DEF SendInv
<1>3. CASE c.step = "read"
  BY <1>1, <1>2, <1>3 DEF SameCall, IsCall, CallField
<1>4. CASE c.step # "read"
  BY <1>1, <1>2, <1>4 DEF SameCall
<1> QED
  BY <1>3, <1>4

-----------------------------------------------------------------------------
(* When a control was asked, and when it answers. *)

\* What is said in a situation is of the last visit to it, or of a situation left.
DeskTimes(d) ==
    /\ d.attempt \in Nat /\ d.visit \in Nat
    /\ d.kind # "submit" => /\ d.stored # Idle => d.stored.visit = d.visit \/ d.stored.stamp # d.stamp
                            /\ d.phase # Idle => d.phase.visit = d.visit

\* A request that is live is of this visit, until the effect of a move has run.
CallTimes(d, c) ==
    /\ c.attempt \in Nat /\ c.attempt <= d.attempt
    /\ c.visit \in Nat /\ c.visit <= d.visit
    /\ c.visit = d.visit => c.stamp = d.stamp
    /\ d.kind # "submit" /\ c.attempt = d.attempt =>
           c.visit = d.visit \/ (d.pending /\ c.stamp # d.stamp)

OneLive == \A c, d \in calls : c.attempt = desk.attempt /\ d.attempt = desk.attempt => c = d

MomentInv == DeskTimes(desk) /\ OneLive /\ \A c \in calls : CallTimes(desk, c)

\* A press takes a new attempt, which every request so far is older than.
LEMMA PressingKeepsMoments ==
  ASSUME SendInv, MomentInv, (\E c : Checks(c)) \/ (\E c : Submits(c))
  PROVE  MomentInv'
<1>1. PICK c, kind, kept :
        /\ IsCall(c) /\ c.attempt = desk.attempt + 1 /\ c.stamp = desk.stamp /\ c.visit = desk.visit
        /\ Says(Phase(kind, c), desk.attempt + 1, desk.acked)
        /\ calls' = kept \cup {c} /\ \A k \in kept : \E b \in calls : SameCall(b, k)
  <2>1. ASSUME NEW c, Checks(c)
        PROVE  /\ IsCall(c) /\ c.attempt = desk.attempt + 1 /\ c.stamp = desk.stamp
               /\ c.visit = desk.visit
               /\ Says(Phase("checking", c), desk.attempt + 1, desk.acked)
               /\ calls' = Forgotten \cup {c} /\ \A k \in Forgotten : \E b \in calls : SameCall(b, k)
    BY <2>1, BegunFields, ForgottenIsSame DEF Checks
  <2>2. ASSUME NEW c, Submits(c)
        PROVE  /\ IsCall(c) /\ c.attempt = desk.attempt + 1 /\ c.stamp = desk.stamp
               /\ c.visit = desk.visit
               /\ Says(Phase("sending", c), desk.attempt + 1, desk.acked)
               /\ calls' = calls \cup {c} /\ \A k \in calls : \E b \in calls : SameCall(b, k)
    BY <2>2, BegunFields DEF Submits, SendInv, SameCall
  <2> QED
    BY <2>1, <2>2
<1> DEFINE p == Phase(kind, c)
<1>2. p.visit = desk.visit
  BY <1>1, PhaseFields
<1> HIDE DEF p
<1>3. Says(p, desk.attempt + 1, desk.acked)
  BY <1>1 DEF p
<1>4. DeskTimes(desk')
  BY <1>2, <1>3 DEF MomentInv, DeskTimes, Says, SameRender
<1>5. CallTimes(desk', c)
  BY <1>1, <1>3 DEF MomentInv, DeskTimes, CallTimes, Says, SameRender
<1>6. ASSUME NEW k \in kept PROVE CallTimes(desk', k) /\ k.attempt # desk'.attempt
  <2>1. PICK b \in calls : SameCall(b, k)
    BY <1>1
  <2>2. CallTimes(desk, b)
    BY DEF MomentInv
  <2> QED
    BY <1>3, <2>1, <2>2 DEF MomentInv, DeskTimes, CallTimes, Says, SameRender, SameCall
<1>7. OneLive'
  BY <1>1, <1>6 DEF OneLive
<1> QED
  BY <1>1, <1>4, <1>5, <1>6, <1>7 DEF MomentInv

LEMMA HearingKeepsMoments ==
  ASSUME SendInv, MomentInv, NEW c, NEW k, Hears(c, k)
  PROVE  MomentInv'
<1>1. SameCall(c, k) /\ CallTimes(desk, c) /\ c \in calls
  BY DEF Hears, MomentInv
<1>2. CASE GoesOn(c, k)
  <2>1. CallTimes(desk, k)
    BY <1>1 DEF CallTimes, SameCall
  <2>2. OneLive'
    BY <1>1, <1>2 DEF GoesOn, MomentInv, OneLive, SameCall
  <2> QED
    BY <1>2, <2>1, <2>2 DEF GoesOn, MomentInv
<1>3. ASSUME NEW kind, Ends(c, k, kind) PROVE MomentInv'
  <2> DEFINE p == Phase(kind, k)
  <2>1. p.visit = c.visit /\ p.stamp = c.stamp
    BY <1>1, PhaseFields DEF SameCall
  <2> HIDE DEF p
  <2>2. /\ Says(IF Live(c) THEN p ELSE desk.stored, desk.attempt, desk.acked)
        /\ calls' = calls \ {c}
    BY <1>3 DEF Ends, p
  <2>3. DeskTimes(desk')
    BY <1>1, <2>1, <2>2 DEF MomentInv, DeskTimes, CallTimes, Says, SameRender, Live
  <2>4. \A d \in calls' : CallTimes(desk', d)
    BY <2>2 DEF MomentInv, CallTimes, Says, SameRender
  <2>5. OneLive'
    BY <2>2 DEF MomentInv, OneLive, Says
  <2> QED
    BY <2>3, <2>4, <2>5 DEF MomentInv
<1> QED
  BY <1>2, <1>3 DEF Hears

LEMMA LookingKeepsMoments ==
  ASSUME SendInv, MomentInv,
         \/ \E stamp, moved : Draws(stamp, moved)
         \/ Moves
         \/ UNCHANGED calls /\ (Reviews \/ Ticks \/ PutsAway)
  PROVE  MomentInv'
<1>1. ASSUME NEW stamp, NEW moved, Draws(stamp, moved) PROVE MomentInv'
  <2>1. DeskTimes(desk')
    BY <1>1 DEF MomentInv, DeskTimes, Draws
  <2>2. ASSUME NEW c \in calls PROVE CallTimes(desk', c)
    <3>1. CallTimes(desk, c)
      BY DEF MomentInv
    <3> QED
      BY <1>1, <3>1 DEF MomentInv, DeskTimes, CallTimes, Draws
  <2>3. OneLive'
    BY <1>1 DEF MomentInv, OneLive, Draws
  <2> QED
    BY <1>1, <2>1, <2>2, <2>3 DEF MomentInv, Draws
<1>2. CASE Moves
  <2>1. DeskTimes(desk')
    BY <1>2 DEF MomentInv, DeskTimes, Moves
  <2>2. ASSUME NEW c \in calls PROVE CallTimes(desk', c)
    <3>1. CallTimes(desk, c)
      BY DEF MomentInv
    <3> QED
      BY <1>2, <3>1 DEF MomentInv, DeskTimes, CallTimes, Moves
  <2>3. OneLive'
    BY <1>2 DEF MomentInv, OneLive, Moves, CallTimes, DeskTimes
  <2> QED
    BY <1>2, <2>1, <2>2, <2>3 DEF MomentInv, Moves
<1>3. ASSUME UNCHANGED calls, NEW stored, NEW attempt \in {desk.attempt, desk.attempt + 1}, NEW acked,
             Says(stored, attempt, acked), stored \in {Idle, desk.stored} \/ desk.kind = "submit"
      PROVE  MomentInv'
  <2>1. DeskTimes(desk')
    BY <1>3 DEF MomentInv, DeskTimes, Says, SameRender
  <2>2. ASSUME NEW c \in calls PROVE CallTimes(desk', c)
    <3>1. CallTimes(desk, c)
      BY DEF MomentInv
    <3> QED
      BY <1>3, <3>1 DEF MomentInv, DeskTimes, CallTimes, Says, SameRender
  <2>3. OneLive'
    BY <1>3 DEF MomentInv, OneLive, Says, CallTimes, DeskTimes
  <2> QED
    BY <1>3, <2>1, <2>2, <2>3 DEF MomentInv
<1>4. CASE UNCHANGED calls /\ (Reviews \/ Ticks \/ PutsAway)
  BY <1>3, <1>4 DEF Reviews, Ticks, PutsAway
<1> QED
  BY <1>1, <1>2, <1>4

LEMMA MomentsKept == ASSUME SendInv, MomentInv, [Next]_vars PROVE MomentInv'
<1>1. CASE DeskStep
  BY <1>1, DeskDoes, LookingKeepsMoments, PressingKeepsMoments, HearingKeepsMoments DEF DeskStep
<1>2. CASE PanelStep \/ WalletStep \/ ReceiptStep \/ GateStep \/ UNCHANGED vars
  <2>1. UNCHANGED deskVars
    BY <1>2 DEF PanelStep, WalletStep, ReceiptStep, GateStep, vars
  <2> QED
    BY <2>1 DEF deskVars, MomentInv, OneLive
<1> QED
  BY <1>1, <1>2 DEF Next

LEMMA FreshDesk ==
  ASSUME Init
  PROVE  /\ calls = {}
         /\ \E kind, row : /\ desk = NewDesk(kind, row) /\ row \in Matching
                           /\ kind \in Controls \cup {"panel", "receipt", "reads"}
<1>1. ASSUME NEW kind, DeskInit(kind)
      PROVE  calls = {} /\ \E row \in Matching : desk = NewDesk(kind, row)
  BY <1>1 DEF DeskInit
<1>2. PICK kind \in Controls \cup {"panel", "receipt", "reads"} : DeskInit(kind)
  BY DEF Init
<1> QED
  BY <1>1, <1>2

LEMMA InitMoments == Init => MomentInv
<1> SUFFICES ASSUME Init PROVE MomentInv
  OBVIOUS
<1>1. PICK kind, row : desk = NewDesk(kind, row)
  BY FreshDesk
<1>2. /\ desk.attempt = 1 /\ desk.visit = 0 /\ desk.stored = Idle /\ desk.phase = Idle
  BY <1>1 DEF NewDesk
<1> QED
  BY <1>2, FreshDesk DEF MomentInv, DeskTimes, OneLive

\* LateAnswersAreNotDrawn, for any accounts, rows and bounds: an answer asked for before
\* the account, the chain or the row moved is never drawn, even when they moved away and
\* back again, in whatever order the renders, their effects and the answers come.
THEOREM MomentSafety == Spec => []LateAnswersAreNotDrawn
<1> DEFINE Inv == SendInv /\ MomentInv
<1>1. Init => Inv
  BY InitSends, InitMoments
<1>2. Inv /\ [Next]_vars => Inv'
  BY SendsKept, MomentsKept
<1>3. Inv => LateAnswersAreNotDrawn
  BY DEF MomentInv, DeskTimes, LateAnswersAreNotDrawn
<1> QED
  BY <1>1, <1>2, <1>3, PTL DEF Spec

-----------------------------------------------------------------------------
\* A prompt after a move, and the tick of a review.

\* NothingIsSentAfterAMove, likewise: no wallet prompt is opened for a screen that has been
\* left, or for a situation whose end the control has already worked through.
THEOREM NoPromptAfterAMove == Spec => NothingIsSentAfterAMove
<1> DEFINE Inv == SendInv /\ MomentInv
           Step == \A c \in Prompts' \ Prompts :
                       /\ desk.mounted
                       /\ desk.kind # "submit" => c.visit = desk.visit \/ desk.pending
<1>1. Init => Inv
  BY InitSends, InitMoments
<1>2. Inv /\ [Next]_vars => Inv'
  BY SendsKept, MomentsKept
<1>3. Inv /\ [Next]_vars => [Step]_<<desk, calls>>
  <2> SUFFICES ASSUME Inv, Next, NEW k \in Prompts' \ Prompts
               PROVE  desk.mounted /\ (desk.kind # "submit" => k.visit = desk.visit \/ desk.pending)
    BY DEF vars, deskVars
  <2>1. k \in calls' /\ k \notin calls /\ k.step = "transaction"
    BY DEF Prompts
  <2>2. CASE DeskStep
    <3>1. ASSUME UNCHANGED calls PROVE FALSE
      BY <2>1, <3>1
    <3>2. ASSUME NEW c, Checks(c) PROVE FALSE
      <4>1. k \in Forgotten \/ k = c
        BY <2>1, <3>2 DEF Checks
      <4>2. c.step = "read"
        BY <3>2, BegunFields DEF Checks
      <4>3. ASSUME k \in Forgotten PROVE FALSE
        BY <2>1, <4>3, ForgottenIsSame
      <4> QED
        BY <2>1, <4>1, <4>2, <4>3
    <3>3. ASSUME NEW c, Submits(c) PROVE FALSE
      <4>1. c.step = "accounts"
        BY <3>3, BegunFields DEF Submits
      <4> QED
        BY <2>1, <3>3, <4>1 DEF Submits
    <3>4. ASSUME NEW c, NEW d, Hears(c, d)
          PROVE  desk.mounted /\ (desk.kind # "submit" => k.visit = desk.visit \/ desk.pending)
      <4>1. GoesOn(c, d) /\ k = d
        BY <2>1, <3>4 DEF Hears, GoesOn, Ends
      <4>2. Live(c) /\ CallTimes(desk, c) /\ d.visit = c.visit
        BY <3>4, <4>1 DEF Hears, GoesOn, SameCall, MomentInv
      <4> QED
        BY <4>1, <4>2 DEF CallTimes, Live
    <3>5. (\E stamp, moved : Draws(stamp, moved)) \/ Moves => UNCHANGED calls
      BY DEF Draws, Moves
    <3> QED
      BY <2>2, <3>1, <3>2, <3>3, <3>4, <3>5, DeskDoes DEF DeskStep
  <2>3. CASE PanelStep \/ WalletStep \/ ReceiptStep \/ GateStep
    BY <2>1, <2>3 DEF PanelStep, WalletStep, ReceiptStep, GateStep, deskVars
  <2> QED
    BY <2>2, <2>3 DEF Next
<1> QED
  BY <1>1, <1>2, <1>3, PTL DEF Spec, NothingIsSentAfterAMove

-----------------------------------------------------------------------------
(* An execution and the tick under its review. *)

Offers == {"ready", "sending"}

\* A tick stands as long as the review it was given to is offered, and what is drawn as
\* offered and what is said to be are one review.
DeskTicks(d) ==
    /\ d.acked # 0 => d.phase.kind \in Offers /\ d.acked = d.phase.review
    /\ d.phase.kind \in Offers /\ d.stored.kind \in Offers => d.stored.review = d.phase.review

\* As long as a review is read, no other is offered.
CallTicks(d, c) ==
    /\ c.step # "read" => c.tick = c.review
    /\ c.step = "read" /\ c.attempt = d.attempt =>
           d.stored.kind \in {"idle", "checking"} /\ d.phase.kind \in {"idle", "checking"}

TickInv == desk.kind = "execute" => DeskTicks(desk) /\ \A c \in calls : CallTicks(desk, c)

\* The requests so far are of older attempts once another is taken.
LEMMA OlderCalls ==
  ASSUME MomentInv, NEW c \in calls PROVE c.attempt # desk.attempt + 1
BY DEF MomentInv, CallTimes, DeskTimes

LEMMA LookingKeepsTicks ==
  ASSUME SendInv, MomentInv, TickInv, desk.kind = "execute",
         \/ \E stamp, moved : Draws(stamp, moved)
         \/ Moves
         \/ UNCHANGED calls /\ (Reviews \/ Ticks \/ PutsAway)
  PROVE  TickInv'
<1>1. DeskTicks(desk) /\ \A c \in calls : CallTicks(desk, c)
  BY DEF TickInv
<1>2. Idle.kind = "idle"
  BY DEF Idle
<1>3. ASSUME NEW stamp, NEW moved, Draws(stamp, moved) PROVE TickInv'
  <2>1. desk'.stored \in {Idle, desk.stored} /\ desk'.phase \in {Idle, desk'.stored}
        /\ desk'.attempt = desk.attempt /\ UNCHANGED calls
        /\ desk'.acked = IF desk'.phase.kind \in Offers THEN desk.acked ELSE 0
    BY <1>3 DEF Draws, Acked, Offers
  <2>2. DeskTicks(desk')
    BY <1>1, <1>2, <2>1 DEF DeskTicks, Offers
  <2>3. \A c \in calls : CallTicks(desk', c)
    BY <1>1, <1>2, <2>1 DEF CallTicks
  <2> QED
    BY <2>1, <2>2, <2>3 DEF TickInv
<1>4. CASE Moves
  <2>1. DeskTicks(desk')
    BY <1>1, <1>4 DEF Moves, DeskTicks
  <2>2. \A c \in calls : CallTicks(desk', c)
    BY <1>1, <1>4, OlderCalls DEF Moves, CallTicks
  <2> QED
    BY <1>4, <2>1, <2>2 DEF Moves, TickInv
<1>5. CASE UNCHANGED calls /\ Ticks
  <2>1. DeskTicks(desk')
    BY <1>1, <1>5 DEF Ticks, Says, SameRender, DeskTicks, Offers
  <2>2. \A c \in calls : CallTicks(desk', c)
    BY <1>1, <1>5 DEF Ticks, Says, SameRender, CallTicks
  <2> QED
    BY <1>5, <2>1, <2>2 DEF TickInv
<1>6. CASE UNCHANGED calls /\ PutsAway
  <2>1. DeskTicks(desk')
    BY <1>1, <1>2, <1>6 DEF PutsAway, Says, SameRender, DeskTicks, Offers
  <2>2. \A c \in calls : CallTicks(desk', c)
    BY <1>1, <1>2, <1>6, OlderCalls DEF PutsAway, Says, SameRender, CallTicks
  <2> QED
    BY <1>6, <2>1, <2>2 DEF TickInv
<1> QED
  BY <1>3, <1>4, <1>5, <1>6 DEF Reviews

LEMMA AskingKeepsTicks ==
  ASSUME SendInv, MomentInv, TickInv, desk.kind = "execute",
         \/ \E c : Checks(c)
         \/ \E c : Submits(c)
         \/ \E c, k : Hears(c, k)
  PROVE  TickInv'
<1>1. DeskTicks(desk) /\ \A c \in calls : CallTicks(desk, c)
  BY DEF TickInv
<1>2. ASSUME NEW c, Checks(c) PROVE TickInv'
  <2> DEFINE p == Phase("checking", c)
  <2>1. p.kind = "checking" /\ c.step = "read"
    BY <1>2, BegunFields, PhaseFields DEF Checks
  <2> HIDE DEF p
  <2>2. Says(p, desk.attempt + 1, desk.acked) /\ calls' = Forgotten \cup {c} /\ desk.phase.kind = "idle"
    BY <1>2 DEF Checks, p
  <2>3. DeskTicks(desk')
    BY <1>1, <2>1, <2>2 DEF Says, SameRender, DeskTicks, Offers
  <2>4. CallTicks(desk', c)
    BY <2>1, <2>2 DEF Says, SameRender, CallTicks
  <2>5. ASSUME NEW k \in Forgotten PROVE CallTicks(desk', k)
    <3>1. PICK b \in calls : SameCall(b, k) /\ k.step = b.step
      BY ForgottenIsSame
    <3>2. CallTicks(desk, b) /\ b.attempt # desk.attempt + 1
      BY <1>1, OlderCalls
    <3> QED
      BY <2>2, <3>1, <3>2 DEF Says, CallTicks, SameCall
  <2> QED
    BY <2>2, <2>3, <2>4, <2>5 DEF TickInv
<1>3. ASSUME NEW c, Submits(c) PROVE TickInv'
  <2> DEFINE p == Phase("sending", c)
  <2>1. /\ p.kind = "sending" /\ p.review = desk.phase.review
        /\ c.step = "accounts" /\ c.tick = desk.acked /\ c.review = desk.phase.review
    BY <1>3, BegunFields, PhaseFields DEF Submits
  <2> HIDE DEF p
  <2>2. /\ Says(p, desk.attempt + 1, desk.acked) /\ calls' = calls \cup {c}
        /\ desk.acked # 0
    BY <1>3 DEF Submits, p
  <2>3. DeskTicks(desk')
    BY <1>1, <2>1, <2>2 DEF Says, SameRender, DeskTicks, Offers
  <2>4. CallTicks(desk', c)
    BY <1>1, <2>1, <2>2 DEF CallTicks, DeskTicks
  <2>5. \A k \in calls : CallTicks(desk', k)
    BY <1>1, <2>2, OlderCalls DEF Says, CallTicks
  <2> QED
    BY <2>2, <2>3, <2>4, <2>5 DEF TickInv
<1>4. ASSUME NEW c, NEW k, Hears(c, k) PROVE TickInv'
  <2>1. c \in calls /\ SameCall(c, k) /\ CallTicks(desk, c)
    BY <1>1, <1>4 DEF Hears
  <2>2. CASE GoesOn(c, k)
    <3>1. CallTicks(desk, k)
      BY <2>1, <2>2 DEF GoesOn, SameCall, CallTicks
    <3> QED
      BY <1>1, <2>2, <3>1 DEF GoesOn, TickInv
  <2>3. ASSUME NEW kind, Ends(c, k, kind) PROVE TickInv'
    <3> DEFINE p == Phase(kind, k)
    <3>1. p.kind = kind
      BY PhaseFields
    <3> HIDE DEF p
    <3>2. /\ Says(IF Live(c) THEN p ELSE desk.stored, desk.attempt, desk.acked)
          /\ calls' = calls \ {c}
          /\ kind \in (IF c.step = "read" THEN {"refused", "done", "ready"} ELSE {"sent", "failed"})
      BY <2>3 DEF Ends, p
    <3>3. Live(c) /\ kind = "ready" => desk.phase.kind \in {"idle", "checking"}
      BY <2>1, <3>2 DEF CallTicks, Live
    <3>4. DeskTicks(desk')
      BY <1>1, <3>1, <3>2, <3>3 DEF Says, SameRender, DeskTicks, Offers
    <3>5. ASSUME NEW d \in calls' PROVE CallTicks(desk', d)
      <4>1. d \in calls /\ d # c /\ CallTicks(desk, d)
        BY <1>1, <3>2
      <4>2. Live(c) => d.attempt # desk.attempt
        BY <2>1, <4>1 DEF MomentInv, OneLive, Live
      <4> QED
        BY <3>2, <4>1, <4>2 DEF Says, SameRender, CallTicks
    <3> QED
      BY <3>4, <3>5 DEF TickInv
  <2> QED
    BY <1>4, <2>2, <2>3 DEF Hears
<1> QED
  BY <1>2, <1>3, <1>4

LEMMA KindStays == ASSUME SendInv, [Next]_vars PROVE desk'.kind = desk.kind
<1>1. CASE DeskStep
  BY <1>1, DeskDoes DEF DeskStep, Draws, Moves, Reviews, Ticks, PutsAway, Checks, Submits, Hears,
     GoesOn, Ends, Says, SameRender
<1>2. CASE PanelStep \/ WalletStep \/ ReceiptStep \/ GateStep \/ UNCHANGED vars
  BY <1>2 DEF PanelStep, WalletStep, ReceiptStep, GateStep, vars, deskVars
<1> QED
  BY <1>1, <1>2 DEF Next

LEMMA TicksKept == ASSUME SendInv, MomentInv, TickInv, [Next]_vars PROVE TickInv'
<1>1. CASE desk.kind # "execute"
  BY <1>1, KindStays DEF TickInv
<1>2. CASE DeskStep /\ desk.kind = "execute"
  BY <1>2, DeskDoes, LookingKeepsTicks, AskingKeepsTicks DEF DeskStep
<1>3. CASE PanelStep \/ WalletStep \/ ReceiptStep \/ GateStep \/ UNCHANGED vars
  <2>1. UNCHANGED deskVars
    BY <1>3 DEF PanelStep, WalletStep, ReceiptStep, GateStep, vars
  <2> QED
    BY <2>1 DEF deskVars, TickInv
<1> QED
  BY <1>1, <1>2, <1>3 DEF Next

LEMMA InitTicks == Init => TickInv
<1> SUFFICES ASSUME Init PROVE TickInv
  OBVIOUS
<1>1. PICK kind, row : desk = NewDesk(kind, row)
  BY FreshDesk
<1>2. desk.acked = 0 /\ desk.stored = Idle /\ desk.phase = Idle /\ Idle.kind = "idle"
  BY <1>1 DEF NewDesk, Idle
<1> QED
  BY <1>2, FreshDesk DEF TickInv, DeskTicks, Offers

\* ExecuteIsAcknowledged, for any accounts, rows and bounds: an execution is sent under a
\* tick given to the very review it sends.
THEOREM TickSafety == Spec => []ExecuteIsAcknowledged
<1> DEFINE Inv == SendInv /\ MomentInv /\ TickInv
<1>1. Init => Inv
  BY InitSends, InitMoments, InitTicks
<1>2. Inv /\ [Next]_vars => Inv'
  BY SendsKept, MomentsKept, TicksKept
<1>3. Inv => ExecuteIsAcknowledged
  BY DEF TickInv, CallTicks, ExecuteIsAcknowledged
<1> QED
  BY <1>1, <1>2, <1>3, PTL DEF Spec

-----------------------------------------------------------------------------
(* What a control waits for. *)

Waits == {"checking", "sending"}

\* Between a render and its effect, what is waited for was asked for since the render.
WaitInv ==
    /\ WaitingHasACall
    /\ desk.mounted /\ desk.pending /\ desk.stored.kind \in Waits => desk.stored.early

LEMMA AskingKeepsWaits ==
  ASSUME SendInv, MomentInv, WaitInv, (\E c : Checks(c)) \/ (\E c : Submits(c))
  PROVE  WaitInv'
<1>1. PICK c, kind :
        /\ c.attempt = desk.attempt + 1 /\ c.early = desk.pending /\ c \in calls'
        /\ Says(Phase(kind, c), desk.attempt + 1, desk.acked)
  BY BegunFields DEF Checks, Submits
<1> DEFINE p == Phase(kind, c)
<1>2. p.early = desk.pending
  BY <1>1, PhaseFields
<1> HIDE DEF p
<1>3. Says(p, desk.attempt + 1, desk.acked)
  BY <1>1 DEF p
<1>4. c.attempt = desk'.attempt /\ desk'.stored.early = desk'.pending
  BY <1>1, <1>2, <1>3 DEF Says, SameRender
<1> QED
  BY <1>1, <1>4 DEF WaitInv, WaitingHasACall

LEMMA HearingKeepsWaits ==
  ASSUME SendInv, MomentInv, WaitInv, NEW c, NEW k, Hears(c, k)
  PROVE  WaitInv'
<1>1. SameCall(c, k) /\ c \in calls
  BY DEF Hears
<1>2. CASE GoesOn(c, k)
  <2>1. k \in calls' /\ k.attempt = desk.attempt /\ UNCHANGED desk
    BY <1>1, <1>2 DEF GoesOn, SameCall, Live
  <2> QED
    BY <2>1 DEF WaitInv, WaitingHasACall
<1>3. ASSUME NEW kind, Ends(c, k, kind) PROVE WaitInv'
  <2> DEFINE p == Phase(kind, k)
  <2>1. p.kind = kind
    BY PhaseFields
  <2> HIDE DEF p
  <2>2. /\ Says(IF Live(c) THEN p ELSE desk.stored, desk.attempt, desk.acked)
        /\ calls' = calls \ {c} /\ kind \notin Waits
    BY <1>3 DEF Ends, p, Waits
  <2>3. CASE Live(c)
    BY <2>1, <2>2, <2>3 DEF WaitInv, WaitingHasACall, Waits, Says
  <2>4. CASE ~Live(c)
    <3>1. desk.mounted => c.attempt # desk.attempt
      BY <2>4 DEF Live
    <3> QED
      BY <2>2, <2>4, <3>1 DEF WaitInv, WaitingHasACall, Waits, Says, SameRender
  <2> QED
    BY <2>3, <2>4
<1> QED
  BY <1>2, <1>3 DEF Hears

LEMMA LookingKeepsWaits ==
  ASSUME SendInv, MomentInv, WaitInv,
         \/ \E stamp, moved : Draws(stamp, moved)
         \/ Moves
         \/ UNCHANGED calls /\ (Reviews \/ Ticks \/ PutsAway)
  PROVE  WaitInv'
<1>1. Idle.kind \notin Waits
  BY DEF Idle, Waits
<1>2. ASSUME NEW stamp, NEW moved, Draws(stamp, moved) PROVE WaitInv'
  <2>1. CASE moved
    BY <1>1, <1>2, <2>1 DEF Draws, WaitInv, WaitingHasACall, Waits
  <2>2. CASE ~moved
    BY <1>2, <2>2 DEF Draws, WaitInv, WaitingHasACall
  <2> QED
    BY <2>1, <2>2
<1>3. CASE Moves
  BY <1>3 DEF Moves, WaitInv, WaitingHasACall, Waits
<1>4. CASE UNCHANGED calls /\ Reviews
  <2> DEFINE p == Phase("ready", Begun(desk, "review", <<>>, desk.presses + 1))
  <2>1. p.kind = "ready"
    BY PhaseFields
  <2> HIDE DEF p
  <2>2. Says(p, desk.attempt, desk.acked)
    BY <1>4 DEF Reviews, p
  <2> QED
    BY <2>1, <2>2 DEF Says, WaitInv, WaitingHasACall, Waits
<1>5. CASE UNCHANGED calls /\ Ticks
  BY <1>5 DEF Ticks, Says, SameRender, WaitInv, WaitingHasACall
<1>6. CASE UNCHANGED calls /\ PutsAway
  BY <1>1, <1>6 DEF PutsAway, Says, WaitInv, WaitingHasACall, Waits
<1> QED
  BY <1>2, <1>3, <1>4, <1>5, <1>6

LEMMA WaitsKept == ASSUME SendInv, MomentInv, WaitInv, [Next]_vars PROVE WaitInv'
<1>1. CASE DeskStep
  BY <1>1, DeskDoes, LookingKeepsWaits, AskingKeepsWaits, HearingKeepsWaits DEF DeskStep
<1>2. CASE PanelStep \/ WalletStep \/ ReceiptStep \/ GateStep \/ UNCHANGED vars
  <2>1. UNCHANGED deskVars
    BY <1>2 DEF PanelStep, WalletStep, ReceiptStep, GateStep, vars
  <2> QED
    BY <2>1 DEF deskVars, WaitInv, WaitingHasACall
<1> QED
  BY <1>1, <1>2 DEF Next

LEMMA InitWaits == Init => WaitInv
<1> SUFFICES ASSUME Init PROVE WaitInv
  OBVIOUS
<1>1. PICK kind, row : desk = NewDesk(kind, row)
  BY FreshDesk
<1>2. desk.stored = Idle /\ Idle.kind \notin Waits
  BY <1>1 DEF NewDesk, Idle, Waits
<1> QED
  BY <1>2 DEF WaitInv, WaitingHasACall, Waits

-----------------------------------------------------------------------------
(* The wallet, what it announces, and what the hook makes of it. *)

WalletField == {"account", "chain", "listening", "moves", "faults"}

IsWallet(w) ==
    /\ w = [field \in WalletField |-> w[field]]
    /\ w.account \in Account \cup {Nobody} /\ w.chain \in Chain /\ w.listening \in BOOLEAN
    /\ w.moves \in Nat /\ w.faults \in Nat

News == [kind : {"accountsChanged"}, payload : Account \cup {Nobody, Unreadable}]
            \cup [kind : {"chainChanged"}, payload : Chain \cup {Unreadable}]
            \cup [kind : {"disconnect"}, payload : {None}]

HookOK(h) ==
    /\ IsHook(h) /\ h.state \in State /\ h.drawn \in State /\ h.attempt \in Nat /\ h.seq \in Nat
    /\ h.announced \in Chain \cup {None}

\* A request is of an attempt and of a chain announcement that have been; the chain is
\* asked for an account.
AskOK(h, c) ==
    /\ IsAsk(c) /\ c.step \in {"accounts", "request", "chain"}
    /\ c.attempt \in Nat /\ c.attempt <= h.attempt /\ c.since \in Nat /\ c.since <= h.seq
    /\ c.step = "chain" => c.account \in Account

WalletInv ==
    /\ IsWallet(wallet) /\ news \in Seq(News) /\ HookOK(hook)
    /\ \A c \in asks : AskOK(hook, c)

LEMMA WaitingIsState ==
  ASSUME NEW status \in {"unsupported", "checking", "disconnected", "connecting", "error"}
  PROVE  Waiting(status) \in State /\ Waiting(status).status = status
BY DEF State, Waiting

LEMMA ConnectedIsState ==
  ASSUME NEW account \in Account, NEW chain \in Chain
  PROVE  /\ Connected(account, chain) \in State
         /\ Connected(account, chain).status = "connected"
         /\ Connected(account, chain).account = account /\ Connected(account, chain).chain = chain
BY DEF State, Connected

LEMMA StateIsConnected ==
  ASSUME NEW state \in State, state.status = "connected"
  PROVE  /\ state.account \in Account /\ state.chain \in Chain
         /\ \A c : [state EXCEPT !.chain = c] = Connected(state.account, c)
<1>1. \A s \in {"unsupported", "checking", "disconnected", "connecting", "error"} :
          Waiting(s).status # "connected"
  BY DEF Waiting
<1>2. PICK a \in Account, c \in Chain : state = Connected(a, c)
  BY <1>1 DEF State
<1>3. state = [status |-> "connected", account |-> a, chain |-> c]
  BY <1>2 DEF Connected
<1> QED
  BY <1>3 DEF Connected

-----------------------------------------------------------------------------
\* What becomes of the wallet, and of the hook.
WalletIs(account, chain) ==
    IsWallet(wallet') /\ wallet'.account = account /\ wallet'.chain = chain
    /\ wallet'.listening = wallet.listening

HookIs(state, attempt, seq, announced) ==
    /\ IsHook(hook') /\ hook'.drawn = hook.drawn /\ hook'.mounted = hook.mounted
    /\ hook'.state = state /\ hook'.attempt = attempt /\ hook'.seq = seq
    /\ hook'.announced = announced

LEMMA MovingTheWallet ==
  ASSUME WalletInv, NEW w, NEW fault \in BOOLEAN, MayMove, MayFault(fault), IsWallet(w),
         w.moves = wallet.moves, w.faults = wallet.faults, w.listening = wallet.listening,
         wallet' = Moved(w, fault)
  PROVE  WalletIs(w.account, w.chain)
<1>1. w.moves - 1 \in Nat /\ w.faults - (IF fault THEN 1 ELSE 0) \in Nat
  BY DEF MayMove, MayFault, WalletInv, IsWallet
<1> QED
  BY <1>1 DEF Moved, WalletIs, IsWallet, WalletField

\* The wallet moves, and announces it unless the news is spoilt.
SwitchesAccount ==
    \E account \in (Account \cup {Nobody}) \ {wallet.account}, payload \in {Unreadable, wallet'.account} :
        /\ WalletIs(account, wallet.chain)
        /\ news' = Announced("accountsChanged", payload) /\ UNCHANGED <<hook, asks>>

SwitchesChain ==
    \E chain \in Chain, payload \in {Unreadable, wallet'.chain} :
        /\ WalletIs(wallet.account, chain)
        /\ news' = Announced("chainChanged", payload) /\ UNCHANGED <<hook, asks>>

Disconnects ==
    /\ WalletIs(wallet.account, wallet.chain)
    /\ news' = Announced("disconnect", None) /\ UNCHANGED <<hook, asks>>

LEMMA WalletSwitches ==
  ASSUME WalletInv, WalletSwitchesAccount \/ WalletSwitchesChain \/ WalletDisconnects
  PROVE  SwitchesAccount \/ SwitchesChain \/ Disconnects
<1>1. IsWallet(wallet)
  BY DEF WalletInv
<1>2. CASE WalletSwitchesAccount
  <2>1. PICK account \in (Account \cup {Nobody}) \ {wallet.account}, fault \in BOOLEAN :
          /\ MayMove /\ MayFault(fault)
          /\ wallet' = Moved([wallet EXCEPT !.account = account], fault)
          /\ news' = Announced("accountsChanged", IF fault THEN Unreadable ELSE account)
          /\ UNCHANGED <<hook, asks>>
    BY <1>2 DEF WalletSwitchesAccount
  <2> DEFINE w == [wallet EXCEPT !.account = account]
  <2>2. /\ IsWallet(w) /\ w.moves = wallet.moves /\ w.faults = wallet.faults
        /\ w.listening = wallet.listening /\ w.account = account /\ w.chain = wallet.chain
    BY <1>1 DEF IsWallet, WalletField
  <2> HIDE DEF w
  <2>3. WalletIs(account, wallet.chain)
    BY <2>1, <2>2, MovingTheWallet DEF w
  <2> QED
    BY <2>1, <2>3 DEF SwitchesAccount, WalletIs
<1>3. CASE WalletSwitchesChain
  <2>1. PICK chain \in Chain, fault \in BOOLEAN :
          /\ MayMove /\ MayFault(fault)
          /\ wallet' = Moved([wallet EXCEPT !.chain = chain], fault)
          /\ news' = Announced("chainChanged", IF fault THEN Unreadable ELSE chain)
          /\ UNCHANGED <<hook, asks>>
    BY <1>3 DEF WalletSwitchesChain
  <2> DEFINE w == [wallet EXCEPT !.chain = chain]
  <2>2. /\ IsWallet(w) /\ w.moves = wallet.moves /\ w.faults = wallet.faults
        /\ w.listening = wallet.listening /\ w.account = wallet.account /\ w.chain = chain
    BY <1>1 DEF IsWallet, WalletField
  <2> HIDE DEF w
  <2>3. WalletIs(wallet.account, chain)
    BY <2>1, <2>2, MovingTheWallet DEF w
  <2> QED
    BY <2>1, <2>3 DEF SwitchesChain, WalletIs
<1>4. CASE WalletDisconnects
  <2>1. /\ MayMove /\ MayFault(TRUE) /\ wallet' = Moved(wallet, TRUE)
        /\ news' = Announced("disconnect", None) /\ UNCHANGED <<hook, asks>>
    BY <1>4 DEF WalletDisconnects
  <2>2. WalletIs(wallet.account, wallet.chain)
    BY <1>1, <2>1, MovingTheWallet
  <2> QED
    BY <2>1, <2>2 DEF Disconnects
<1> QED
  BY <1>2, <1>3, <1>4

\* An answer of the wallet: what it is on, nothing of use, or the account it has just granted.
Decides(c, said) ==
    /\ c \in asks /\ c.said = None /\ asks' = Answered(c, said) /\ UNCHANGED hook

AnswersAsIs(c) ==
    \E said : /\ Decides(c, said) /\ WalletIs(wallet.account, wallet.chain) /\ UNCHANGED news
              /\ \/ said \in {Unreadable, Failed, Declined, Nobody}
                 \/ c.step = "accounts" /\ said = wallet.account
                 \/ c.step = "chain" /\ said = wallet.chain

Grants(c) ==
    \E account \in Account :
        /\ Decides(c, account) /\ c.step = "request" /\ WalletIs(account, wallet.chain)
        /\ news' = IF wallet.account = account THEN news
                   ELSE Announced("accountsChanged", account)

LEMMA WalletDecides ==
  ASSUME WalletInv, WalletAnswers \/ WalletGrants \/ WalletRefuses
  PROVE  \E c : AnswersAsIs(c) \/ Grants(c)
<1>1. IsWallet(wallet)
  BY DEF WalletInv
<1>2. CASE WalletAnswers
  <2>1. PICK c \in asks, fault \in {None, Unreadable, Failed} :
          /\ c.said = None /\ c.step # "request"
          /\ MayFault(fault # None)
          /\ asks' = Answered(c, CASE fault # None         -> fault
                                   [] c.step = "accounts"  -> wallet.account
                                   [] c.step = "chain"     -> wallet.chain)
          /\ wallet' = [wallet EXCEPT !.faults = @ - (IF fault = None THEN 0 ELSE 1)]
          /\ UNCHANGED <<news, hook>>
    BY <1>2 DEF WalletAnswers
  <2>2. c.step \in {"accounts", "chain"}
    BY <2>1 DEF WalletInv, AskOK
  <2>3. wallet.faults - (IF fault = None THEN 0 ELSE 1) \in Nat
    BY <1>1, <2>1 DEF MayFault, IsWallet
  <2>4. WalletIs(wallet.account, wallet.chain)
    BY <1>1, <2>1, <2>3 DEF WalletIs, IsWallet, WalletField
  <2> DEFINE said == CASE fault # None         -> fault
                       [] c.step = "accounts"  -> wallet.account
                       [] c.step = "chain"     -> wallet.chain
  <2>5. \/ said \in {Unreadable, Failed, Declined, Nobody}
        \/ c.step = "accounts" /\ said = wallet.account
        \/ c.step = "chain" /\ said = wallet.chain
    BY <2>1, <2>2
  <2>6. Decides(c, said) /\ UNCHANGED news
    BY <2>1 DEF Decides
  <2> HIDE DEF said
  <2> QED
    BY <2>4, <2>5, <2>6 DEF AnswersAsIs
<1>3. CASE WalletGrants
  <2>1. PICK c \in asks, account \in Account :
          /\ c.said = None /\ c.step = "request"
          /\ asks' = Answered(c, account)
          /\ wallet' = [wallet EXCEPT !.account = account]
          /\ news' = IF wallet.account = account THEN news
                     ELSE Announced("accountsChanged", account)
          /\ UNCHANGED hook
    BY <1>3 DEF WalletGrants
  <2>2. WalletIs(account, wallet.chain)
    BY <1>1, <2>1 DEF WalletIs, IsWallet, WalletField
  <2> QED
    BY <2>1, <2>2 DEF Grants, Decides
<1>4. CASE WalletRefuses
  <2>1. PICK c \in asks, said \in {Declined, Nobody, Failed, Unreadable} :
          /\ c.said = None /\ c.step = "request" /\ asks' = Answered(c, said)
          /\ UNCHANGED <<wallet, news, hook>>
    BY <1>4 DEF WalletRefuses
  <2>2. WalletIs(wallet.account, wallet.chain)
    BY <1>1, <2>1 DEF WalletIs
  <2> QED
    BY <2>1, <2>2 DEF AnswersAsIs, Decides
<1> QED
  BY <1>2, <1>3, <1>4

LEMMA ApplyIs ==
  ASSUME NEW h, IsHook(h), NEW n, NEW state
  PROVE  LET g == Apply(h, n, state)
         IN  /\ IsHook(g) /\ g.drawn = h.drawn /\ g.mounted = h.mounted /\ g.attempt = h.attempt
             /\ g.seq = h.seq /\ g.announced = h.announced
             /\ g.state = IF h.mounted /\ h.attempt = n THEN state ELSE h.state
BY DEF Apply, IsHook, HookField

\* What is applied by the present attempt of a screen that is up settles the hook.
LEMMA ApplyingIs ==
  ASSUME NEW h, IsHook(h), h.drawn = hook.drawn, h.mounted = hook.mounted, hook.mounted,
         NEW state, hook' = Apply(h, h.attempt, state)
  PROVE  HookIs(state, h.attempt, h.seq, h.announced)
<1> DEFINE g == Apply(h, h.attempt, state)
<1>1. /\ IsHook(g) /\ g.drawn = h.drawn /\ g.mounted = h.mounted /\ g.attempt = h.attempt
      /\ g.seq = h.seq /\ g.announced = h.announced
  BY ApplyIs
<1>2. g.state = state
  BY DEF Apply, IsHook, HookField
<1>3. hook' = g
  OBVIOUS
<1> HIDE DEF g
<1> QED
  BY <1>1, <1>2, <1>3 DEF HookIs

LEMMA RetiredIs ==
  ASSUME NEW h, IsHook(h)
  PROVE  LET g == Retired(h)
         IN  /\ IsHook(g) /\ g.drawn = h.drawn /\ g.mounted = h.mounted
             /\ g.attempt = h.attempt + 1 /\ g.seq = h.seq /\ g.announced = h.announced
             /\ g.state = h.state
BY DEF Retired, IsHook, HookField

LEMMA FinishedIs ==
  ASSUME NEW h, IsHook(h), NEW c
  PROVE  LET g == Finished(h, c)
         IN  /\ IsHook(g) /\ g.drawn = h.drawn /\ g.mounted = h.mounted /\ g.attempt = h.attempt
             /\ g.seq = h.seq /\ g.announced = h.announced /\ g.state = h.state
BY DEF Finished, IsHook, HookField

\* An answer that is heard: it is of the present attempt and settles the hook, or it is not.
Hot(c) == hook.mounted /\ hook.attempt = c.attempt

Settles(c, state) ==
    /\ asks' = asks \ {c}
    /\ HookIs(IF Hot(c) THEN state ELSE hook.state, hook.attempt, hook.seq, hook.announced)

LEMMA SettlingIs ==
  ASSUME IsHook(hook), NEW c, NEW state, asks' = asks \ {c},
         hook' = Finished(Apply(hook, c.attempt, state), c)
  PROVE  Settles(c, state)
<1> DEFINE g == Apply(hook, c.attempt, state)
<1>1. /\ IsHook(g) /\ g.drawn = hook.drawn /\ g.mounted = hook.mounted /\ g.attempt = hook.attempt
      /\ g.seq = hook.seq /\ g.announced = hook.announced
      /\ g.state = IF hook.mounted /\ hook.attempt = c.attempt THEN state ELSE hook.state
  BY ApplyIs
<1>2. hook' = Finished(g, c)
  OBVIOUS
<1> HIDE DEF g
<1>3. HookIs(g.state, g.attempt, g.seq, g.announced)
  BY <1>1, <1>2, FinishedIs DEF HookIs
<1> QED
  BY <1>1, <1>3 DEF Settles, Hot

\* No account, as a state the hook can be left in.
Lost == {Waiting("disconnected"), Waiting("error")}

LEMMA NoAccountIsLost ==
  ASSUME NEW said, NEW connect PROVE NoAccountState(said, connect) \in Lost
BY DEF NoAccountState, Lost

\* An account list is heard: the chain is asked for next, or there is no account.
AsksChain(c) ==
    /\ c.step # "chain" /\ c.said \in Account /\ UNCHANGED hook
    /\ asks' = (asks \ {c}) \cup {Ask("chain", c.attempt, c.since, c.said, c.connect)}

HasNone(c) == c.step # "chain" /\ c.said \notin Account /\ \E state \in Lost : Settles(c, state)

\* A chain is heard.
HasNoChain(c) == c.step = "chain" /\ Settles(c, Waiting("error"))

HasBoth(c) == c.step = "chain" /\ HasChain(c) /\ Settles(c, Connected(c.account, ChainNow(c)))

HearsAsk(c) ==
    /\ c \in asks /\ c.said # None /\ UNCHANGED <<wallet, news>>
    /\ AsksChain(c) \/ HasNone(c) \/ HasNoChain(c) \/ HasBoth(c)

LEMMA HearingAsks == ASSUME WalletInv, HearAccountList \/ HearChainId PROVE \E c : HearsAsk(c)
<1>1. IsHook(hook)
  BY DEF WalletInv, HookOK
<1>2. CASE HearAccountList
  <2>1. PICK c \in asks :
          /\ c.said # None /\ c.step \in {"accounts", "request"} /\ UNCHANGED <<wallet, news>>
          /\ IF c.said \in Account
             THEN /\ asks' = (asks \ {c})
                               \cup {Ask("chain", c.attempt, c.since, c.said, c.connect)}
                  /\ UNCHANGED hook
             ELSE /\ asks' = asks \ {c}
                  /\ hook' = Finished(Apply(hook, c.attempt, NoAccountState(c.said, c.connect)), c)
    BY <1>2 DEF HearAccountList
  <2>2. CASE c.said \in Account
    BY <2>1, <2>2 DEF HearsAsk, AsksChain
  <2>3. CASE c.said \notin Account
    <3> DEFINE state == NoAccountState(c.said, c.connect)
    <3>1. state \in Lost
      BY NoAccountIsLost
    <3>2. Settles(c, state)
      BY <1>1, <2>1, <2>3, SettlingIs
    <3> HIDE DEF state
    <3> QED
      BY <2>1, <2>3, <3>1, <3>2 DEF HearsAsk, HasNone
  <2> QED
    BY <2>2, <2>3
<1>3. CASE HearChainId
  <2>1. PICK c \in asks :
          /\ c.said # None /\ c.step = "chain" /\ UNCHANGED <<wallet, news>>
          /\ asks' = asks \ {c}
          /\ hook' = Finished(Apply(hook, c.attempt,
                         IF HasChain(c)
                         THEN Connected(c.account, ChainNow(c)) ELSE Waiting("error")), c)
    BY <1>3 DEF HearChainId
  <2>2. CASE HasChain(c)
    <3>1. Settles(c, Connected(c.account, ChainNow(c)))
      BY <1>1, <2>1, <2>2, SettlingIs
    <3> QED
      BY <2>1, <2>2, <3>1 DEF HearsAsk, HasBoth
  <2>3. CASE ~HasChain(c)
    <3>1. Settles(c, Waiting("error"))
      BY <1>1, <2>1, <2>3, SettlingIs
    <3> QED
      BY <2>1, <3>1 DEF HearsAsk, HasNoChain
  <2> QED
    BY <2>2, <2>3
<1> QED
  BY <1>2, <1>3

\* An announcement is heard: an account, for which the chain is asked; a chain; or a word
\* that retires everything and leaves the hook without an account.
TakesAccount(payload) ==
    /\ payload \in Account /\ HookIs(hook.state, hook.attempt + 1, hook.seq, hook.announced)
    /\ asks' = asks \cup {Ask("chain", hook.attempt + 1, hook.seq, payload, FALSE)}

TakesChain(payload) ==
    /\ payload # Unreadable /\ UNCHANGED asks
    /\ HookIs(IF hook.state.status = "connected" THEN [hook.state EXCEPT !.chain = payload]
              ELSE hook.state, hook.attempt, hook.seq + 1, payload)

Loses ==
    /\ UNCHANGED asks
    /\ \E state \in Lost : HookIs(state, hook.attempt + 1, hook.seq, hook.announced)

HearsNews(n) ==
    /\ news # <<>> /\ hook.mounted /\ n = Head(news) /\ news' = Tail(news) /\ UNCHANGED wallet
    /\ \/ n.kind = "accountsChanged" /\ TakesAccount(n.payload)
       \/ n.kind = "accountsChanged" /\ n.payload \notin Account /\ Loses
       \/ n.kind = "chainChanged" /\ TakesChain(n.payload)
       \/ n.kind = "chainChanged" /\ n.payload = Unreadable /\ Loses
       \/ n.kind = "disconnect" /\ Loses

LEMMA RetiringLoses ==
  ASSUME IsHook(hook), hook.attempt \in Nat, hook.mounted, NEW state \in Lost, UNCHANGED asks,
         hook' = Apply(Retired(hook), hook.attempt + 1, state)
  PROVE  Loses
<1> DEFINE h == Retired(hook)
<1>1. /\ IsHook(h) /\ h.drawn = hook.drawn /\ h.mounted = hook.mounted
      /\ h.attempt = hook.attempt + 1 /\ h.seq = hook.seq /\ h.announced = hook.announced
  BY RetiredIs
<1> HIDE DEF h
<1>2. hook' = Apply(h, hook.attempt + 1, state)
  BY DEF h
<1>3. hook' = Apply(h, h.attempt, state)
  BY <1>1, <1>2
<1>4. HookIs(state, h.attempt, h.seq, h.announced)
  BY <1>1, <1>3, ApplyingIs
<1> QED
  BY <1>1, <1>4 DEF Loses

LEMMA HearingNews == ASSUME WalletInv, HearNews PROVE HearsNews(Head(news))
<1>1. IsHook(hook) /\ hook.attempt \in Nat
  BY DEF WalletInv, HookOK
<1>2. /\ news # <<>> /\ hook.mounted /\ news' = Tail(news) /\ UNCHANGED wallet
  BY DEF HearNews
<1> DEFINE n == Head(news)
<1>3. \/ n.kind = "accountsChanged" /\ HandleAccountsChanged(n.payload)
      \/ n.kind = "chainChanged" /\ HandleChainChanged(n.payload)
      \/ n.kind = "disconnect" /\ HandleDisconnect
  BY DEF HearNews
<1> HIDE DEF n
<1>4. ASSUME NEW payload, HandleAccountsChanged(payload)
      PROVE  TakesAccount(payload) \/ (payload \notin Account /\ Loses)
  <2>1. CASE payload \in Account
    <3>1. hook' = Retired(hook)
          /\ asks' = asks \cup {Ask("chain", Retired(hook).attempt, hook.seq, payload, FALSE)}
      BY <1>4, <2>1 DEF HandleAccountsChanged
    <3> QED
      BY <1>1, <2>1, <3>1, RetiredIs DEF TakesAccount, HookIs
  <2>2. CASE payload \notin Account
    <3> DEFINE state == NoAccountState(payload, FALSE)
    <3>1. state \in Lost
      BY NoAccountIsLost
    <3>2. Retired(hook).attempt = hook.attempt + 1
      BY <1>1, RetiredIs
    <3>3. hook' = Apply(Retired(hook), hook.attempt + 1, state) /\ UNCHANGED asks
      BY <1>4, <2>2, <3>2 DEF HandleAccountsChanged
    <3> HIDE DEF state
    <3> QED
      BY <1>1, <1>2, <2>2, <3>1, <3>3, RetiringLoses
  <2> QED
    BY <2>1, <2>2
<1>5. ASSUME NEW payload, HandleChainChanged(payload)
      PROVE  TakesChain(payload) \/ (payload = Unreadable /\ Loses)
  <2>1. CASE payload = Unreadable
    <3>1. Waiting("error") \in Lost
      BY DEF Lost
    <3> QED
      BY <1>1, <1>2, <1>5, <2>1, <3>1, RetiringLoses DEF HandleChainChanged
  <2>2. CASE payload # Unreadable
    <3> DEFINE h == [hook EXCEPT !.seq = @ + 1, !.announced = payload]
               state == IF h.state.status = "connected" THEN [h.state EXCEPT !.chain = payload]
                        ELSE h.state
    <3>1. /\ IsHook(h) /\ h.drawn = hook.drawn /\ h.mounted = hook.mounted
          /\ h.attempt = hook.attempt /\ h.seq = hook.seq + 1 /\ h.announced = payload
          /\ h.state = hook.state
      BY <1>1 DEF IsHook, HookField
    <3>2. hook' = Apply(h, h.attempt, state) /\ UNCHANGED asks
      BY <1>5, <2>2 DEF HandleChainChanged
    <3>3. state = IF hook.state.status = "connected" THEN [hook.state EXCEPT !.chain = payload]
                  ELSE hook.state
      BY <3>1
    <3> HIDE DEF h, state
    <3>4. HookIs(state, h.attempt, h.seq, h.announced)
      BY <1>2, <3>1, <3>2, ApplyingIs
    <3> QED
      BY <2>2, <3>1, <3>2, <3>3, <3>4 DEF TakesChain
  <2> QED
    BY <2>1, <2>2
<1>6. HandleDisconnect => Loses
  <2>1. Waiting("disconnected") \in Lost
    BY DEF Lost
  <2> QED
    BY <1>1, <1>2, <2>1, RetiringLoses DEF HandleDisconnect
<1> QED
  BY <1>2, <1>3, <1>4, <1>5, <1>6 DEF HearsNews, n

\* The press of Connect wallet.
Connects ==
    /\ hook.mounted /\ UNCHANGED <<wallet, news>>
    /\ HookIs(Waiting("connecting"), hook.attempt + 1, hook.seq, hook.announced)
    /\ asks' = asks \cup {Ask("request", hook.attempt + 1, hook.seq, None, TRUE)}

LEMMA ConnectDoes == ASSUME WalletInv, Connect PROVE Connects
<1> DEFINE g == [hook EXCEPT !.connecting = TRUE, !.connects = @ + 1]
           h == Retired(g)
<1>1. IsHook(hook) /\ hook.attempt \in Nat
  BY DEF WalletInv, HookOK
<1>2. /\ IsHook(g) /\ g.drawn = hook.drawn /\ g.mounted = hook.mounted
      /\ g.attempt = hook.attempt /\ g.seq = hook.seq /\ g.announced = hook.announced
  BY <1>1 DEF IsHook, HookField
<1> HIDE DEF g
<1>3. /\ IsHook(h) /\ h.drawn = hook.drawn /\ h.mounted = hook.mounted
      /\ h.attempt = hook.attempt + 1 /\ h.seq = hook.seq /\ h.announced = hook.announced
  BY <1>2, RetiredIs
<1>4. /\ hook.mounted /\ UNCHANGED <<wallet, news>>
      /\ hook' = Apply(h, h.attempt, Waiting("connecting"))
      /\ asks' = asks \cup {Ask("request", h.attempt, hook.seq, None, TRUE)}
  BY DEF Connect, g
<1> HIDE DEF h
<1>5. HookIs(Waiting("connecting"), h.attempt, h.seq, h.announced)
  BY <1>3, <1>4, ApplyingIs
<1> QED
  BY <1>3, <1>4, <1>5 DEF Connects

\* The screens draw the hook, show another state under a row, or leave.
Screens ==
    /\ UNCHANGED <<wallet, news, asks>> /\ IsHook(hook') /\ hook'.seq = hook.seq
    /\ hook'.announced = hook.announced /\ hook'.drawn \in {hook.drawn, hook.state}
    /\ \/ /\ hook'.state = hook.state /\ hook'.attempt = hook.attempt
          /\ hook'.mounted = hook.mounted
       \/ /\ hook'.attempt = hook.attempt /\ hook'.mounted = hook.mounted
          /\ hook'.state \in State /\ hook'.state.status \in {"connected", "disconnected"}
          /\ desk.kind \in Controls \ {"submit"}
       \/ /\ hook'.state = hook.state /\ ~hook'.mounted /\ hook'.attempt = hook.attempt + 2

LEMMA DrawingIs ==
  ASSUME WalletInv, UNCHANGED <<wallet, news, asks>>,
         \/ UNCHANGED hook
         \/ hook' = [hook EXCEPT !.drawn = hook.state]
         \/ hook' = LeaveWallet(hook)
  PROVE  Screens
<1>1. IsHook(hook) /\ hook.attempt \in Nat
  BY DEF WalletInv, HookOK
<1>2. CASE UNCHANGED hook
  BY <1>1, <1>2 DEF Screens
<1>3. CASE hook' = [hook EXCEPT !.drawn = hook.state]
  BY <1>1, <1>3 DEF Screens, IsHook, HookField
<1>4. CASE hook' = LeaveWallet(hook)
  <2> DEFINE g == Retired(hook)
             h == Retired(g)
  <2>1. /\ IsHook(g) /\ g.drawn = hook.drawn /\ g.attempt = hook.attempt + 1
        /\ g.seq = hook.seq /\ g.announced = hook.announced /\ g.state = hook.state
    BY <1>1, RetiredIs
  <2>2. hook' = [h EXCEPT !.mounted = FALSE]
    BY <1>4 DEF LeaveWallet
  <2> HIDE DEF g
  <2>3. /\ IsHook(h) /\ h.drawn = hook.drawn /\ h.attempt = hook.attempt + 2
        /\ h.seq = hook.seq /\ h.announced = hook.announced /\ h.state = hook.state
    BY <1>1, <2>1, RetiredIs
  <2> HIDE DEF h
  <2>4. /\ IsHook(hook') /\ hook'.drawn = h.drawn /\ hook'.attempt = h.attempt /\ ~hook'.mounted
        /\ hook'.seq = h.seq /\ hook'.announced = h.announced /\ hook'.state = h.state
    BY <2>2, <2>3 DEF IsHook, HookField
  <2> QED
    BY <2>3, <2>4 DEF Screens
<1> QED
  BY <1>2, <1>3, <1>4

LEMMA ScreensDo ==
  ASSUME WalletInv, [Next]_vars, ~WalletStep, ~(PanelStep /\ Connect)
  PROVE  Screens
<1>1. IsHook(hook)
  BY DEF WalletInv, HookOK
<1>2. CASE DeskStep /\ PageShows
  <2>1. PICK state \in State :
          /\ state.status \in {"connected", "disconnected"} /\ desk.kind # "submit"
          /\ hook' = [hook EXCEPT !.state = state] /\ UNCHANGED <<wallet, news, asks>>
    BY <1>2 DEF PageShows, MayShow
  <2> QED
    BY <1>1, <1>2, <2>1 DEF Screens, DeskStep, IsHook, HookField
<1>3. CASE UNCHANGED vars
  BY <1>3, DrawingIs DEF vars, walletVars
<1>4. CASE PanelStep
  BY <1>4, DrawingIs DEF PanelStep, DrawPanel, LeavePanel
<1>5. CASE DeskStep /\ ~PageShows
  <2>1. CASE Render
    BY <2>1, DrawingIs DEF Render
  <2>2. CASE Leave
    BY <2>2, DrawingIs DEF Leave
  <2>3. CASE Mine \/ RunEffects \/ CatalogArrives \/ RowChanges
    BY <2>3, DrawingIs DEF Mine, RunEffects, CatalogArrives, RowChanges, walletVars
  <2>4. CASE PressCheck \/ PressReview \/ PressTick \/ PressSubmit \/ PressCancel \/ PressBack
    BY <2>4, DrawingIs DEF PressCheck, PressReview, PressTick, PressSubmit, PressCancel, PressBack,
                           walletVars
  <2>5. CASE HearRead \/ HearSendAccounts \/ HearSendChain \/ HearSendTransaction
    <3>1. UNCHANGED walletVars
      BY <2>5 DEF HearRead, HearSendAccounts, HearSendChain, HearSendTransaction
    <3> QED
      BY <3>1, DrawingIs DEF walletVars
  <2> QED
    BY <1>5, <2>1, <2>2, <2>3, <2>4, <2>5 DEF DeskStep, DeskNext
<1>6. CASE ReceiptStep
  <2>1. CASE RenderReceipt \/ LeaveReceipt
    BY <2>1, DrawingIs DEF RenderReceipt, LeaveReceipt
  <2>2. CASE PressReceipt \/ HearReceipt \/ PressRefresh \/ HearRefresh
    <3>1. UNCHANGED walletVars
      BY <2>2 DEF PressReceipt, HearReceipt, PressRefresh, HearRefresh
    <3> QED
      BY <3>1, DrawingIs DEF walletVars
  <2> QED
    BY <1>6, <2>1, <2>2 DEF ReceiptStep, ReceiptNext
<1>7. CASE GateStep
  <2>1. CASE RenderGate \/ LeaveGate
    BY <2>1, DrawingIs DEF RenderGate, LeaveGate
  <2>2. CASE GateCatalogArrives \/ RunGateEffect \/ HearGatedRead \/ PressReadAgain
    <3>1. UNCHANGED walletVars
      BY <2>2 DEF GateCatalogArrives, RunGateEffect, HearGatedRead, PressReadAgain
    <3> QED
      BY <3>1, DrawingIs DEF walletVars
  <2> QED
    BY <1>7, <2>1, <2>2 DEF GateStep, GateNext
<1> QED
  BY <1>2, <1>3, <1>4, <1>5, <1>6, <1>7 DEF Next

\* Every step, as far as the wallet and the hook go.
LEMMA StepsOfTheWallet ==
  ASSUME WalletInv, [Next]_vars
  PROVE  \/ SwitchesAccount \/ SwitchesChain \/ Disconnects
         \/ \E c : AnswersAsIs(c) \/ Grants(c)
         \/ \E c : HearsAsk(c)
         \/ HearsNews(Head(news))
         \/ Connects \/ Screens
<1>1. CASE WalletStep
  BY <1>1, WalletSwitches, WalletDecides, HearingAsks, HearingNews DEF WalletStep, WalletMoves
<1>2. CASE PanelStep /\ Connect
  BY <1>2, ConnectDoes
<1> QED
  BY <1>1, <1>2, ScreensDo

-----------------------------------------------------------------------------
\* An ask by its fields, a new one and one that is answered.
LEMMA AskFields ==
  ASSUME NEW step, NEW attempt, NEW since, NEW account, NEW connect \in BOOLEAN
  PROVE  LET c == Ask(step, attempt, since, account, connect)
         IN  /\ IsAsk(c) /\ c.step = step /\ c.attempt = attempt /\ c.since = since
             /\ c.account = account /\ c.said = None
BY DEF Ask, IsAsk, AskField

LEMMA AnswerFields ==
  ASSUME NEW c, IsAsk(c), NEW said
  PROVE  LET k == [c EXCEPT !.said = said]
         IN  /\ IsAsk(k) /\ k.step = c.step /\ k.attempt = c.attempt /\ k.since = c.since
             /\ k.account = c.account /\ k.said = said
BY DEF IsAsk, AskField

\* What a request may not outrun.
Later == hook'.attempt >= hook.attempt /\ hook'.seq >= hook.seq

LEMMA OldAsksStay ==
  ASSUME NEW c, AskOK(hook, c), Later, hook'.attempt \in Nat, hook'.seq \in Nat,
         hook.attempt \in Nat, hook.seq \in Nat
  PROVE  AskOK(hook', c)
BY DEF AskOK, Later

LEMMA NewsStay ==
  ASSUME news \in Seq(News), NEW n \in News, NEW kind, NEW payload,
         n = [kind |-> kind, payload |-> payload], news' = Announced(kind, payload)
  PROVE  news' \in Seq(News)
BY DEF Announced

LEMMA SwitchingKeepsWallet ==
  ASSUME WalletInv, SwitchesAccount \/ SwitchesChain \/ Disconnects
  PROVE  WalletInv'
<1>1. IsWallet(wallet) /\ news \in Seq(News)
  BY DEF WalletInv
<1>2. CASE SwitchesAccount
  <2>1. PICK account \in (Account \cup {Nobody}) \ {wallet.account},
             payload \in {Unreadable, wallet'.account} :
          /\ WalletIs(account, wallet.chain)
          /\ news' = Announced("accountsChanged", payload) /\ UNCHANGED <<hook, asks>>
    BY <1>2 DEF SwitchesAccount
  <2>2. [kind |-> "accountsChanged", payload |-> payload] \in News
    BY <2>1 DEF WalletIs, News
  <2>3. news' \in Seq(News)
    BY <1>1, <2>1, <2>2, NewsStay
  <2> QED
    BY <2>1, <2>3 DEF WalletInv, WalletIs
<1>3. CASE SwitchesChain
  <2>1. PICK chain \in Chain, payload \in {Unreadable, wallet'.chain} :
          /\ WalletIs(wallet.account, chain)
          /\ news' = Announced("chainChanged", payload) /\ UNCHANGED <<hook, asks>>
    BY <1>3 DEF SwitchesChain
  <2>2. [kind |-> "chainChanged", payload |-> payload] \in News
    BY <2>1 DEF WalletIs, News
  <2>3. news' \in Seq(News)
    BY <1>1, <2>1, <2>2, NewsStay
  <2> QED
    BY <2>1, <2>3 DEF WalletInv, WalletIs
<1>4. CASE Disconnects
  <2>1. [kind |-> "disconnect", payload |-> None] \in News
    BY DEF News
  <2>2. news' \in Seq(News)
    BY <1>1, <1>4, <2>1, NewsStay DEF Disconnects
  <2> QED
    BY <1>4, <2>2 DEF Disconnects, WalletInv, WalletIs
<1> QED
  BY <1>2, <1>3, <1>4

LEMMA DecidingKeepsWallet ==
  ASSUME WalletInv, NEW c, AnswersAsIs(c) \/ Grants(c)
  PROVE  WalletInv'
<1>1. PICK said : Decides(c, said)
  BY DEF AnswersAsIs, Grants
<1> DEFINE k == [c EXCEPT !.said = said]
<1>2. AskOK(hook, c) /\ asks' = (asks \ {c}) \cup {k} /\ hook' = hook
  BY <1>1 DEF Decides, Answered, WalletInv
<1>3. /\ IsAsk(k) /\ k.step = c.step /\ k.attempt = c.attempt /\ k.since = c.since
      /\ k.account = c.account
  BY <1>2, AnswerFields DEF AskOK
<1> HIDE DEF k
<1>4. AskOK(hook', k)
  BY <1>2, <1>3 DEF AskOK
<1>5. IsWallet(wallet') /\ news' \in Seq(News)
  <2>1. CASE AnswersAsIs(c)
    BY <2>1 DEF AnswersAsIs, WalletIs, WalletInv
  <2>2. CASE Grants(c)
    <3>1. PICK account \in Account :
            /\ WalletIs(account, wallet.chain)
            /\ news' = IF wallet.account = account THEN news
                       ELSE Announced("accountsChanged", account)
      BY <2>2 DEF Grants
    <3>2. [kind |-> "accountsChanged", payload |-> account] \in News
      BY DEF News
    <3> QED
      BY <3>1, <3>2, NewsStay DEF WalletIs, WalletInv
  <2> QED
    BY <2>1, <2>2
<1> QED
  BY <1>2, <1>4, <1>5 DEF WalletInv

LEMMA LostIsState == Lost \subseteq State /\ \A state \in Lost : state.status \in {"disconnected", "error"}
BY WaitingIsState DEF Lost

LEMMA SettlingKeepsWallet ==
  ASSUME WalletInv, NEW c \in asks, NEW state \in State, Settles(c, state), UNCHANGED <<wallet, news>>
  PROVE  WalletInv'
<1>1. HookOK(hook) /\ HookOK(hook') /\ hook'.attempt = hook.attempt /\ hook'.seq = hook.seq
  BY DEF WalletInv, Settles, HookIs, HookOK
<1> QED
  BY <1>1 DEF WalletInv, Settles, AskOK

LEMMA HearingKeepsWallet ==
  ASSUME WalletInv, NEW c, HearsAsk(c)
  PROVE  WalletInv'
<1>1. c \in asks /\ UNCHANGED <<wallet, news>> /\ AskOK(hook, c) /\ HookOK(hook)
  BY DEF HearsAsk, WalletInv
<1>2. CASE AsksChain(c)
  <2> DEFINE k == Ask("chain", c.attempt, c.since, c.said, c.connect)
  <2>1. c.said \in Account /\ UNCHANGED hook /\ asks' = (asks \ {c}) \cup {k}
    BY <1>2 DEF AsksChain
  <2>2. /\ IsAsk(k) /\ k.step = "chain" /\ k.attempt = c.attempt /\ k.since = c.since
        /\ k.account = c.said
    BY <1>1, AskFields DEF AskOK, IsAsk
  <2> HIDE DEF k
  <2>3. AskOK(hook', k)
    BY <1>1, <2>1, <2>2 DEF AskOK
  <2> QED
    BY <1>1, <2>1, <2>3 DEF WalletInv
<1>3. CASE HasNone(c)
  BY <1>1, <1>3, LostIsState, SettlingKeepsWallet DEF HasNone
<1>4. CASE HasNoChain(c)
  BY <1>1, <1>4, WaitingIsState, SettlingKeepsWallet DEF HasNoChain
<1>5. CASE HasBoth(c)
  <2>1. Connected(c.account, ChainNow(c)) \in State
    BY <1>1, <1>5, ConnectedIsState DEF HasBoth, HasChain, AskOK
  <2> QED
    BY <1>1, <1>5, <2>1, SettlingKeepsWallet DEF HasBoth
<1> QED
  BY <1>2, <1>3, <1>4, <1>5 DEF HearsAsk

LEMMA NewsKeepWallet ==
  ASSUME WalletInv, HearsNews(Head(news))
  PROVE  WalletInv'
<1> DEFINE n == Head(news)
<1>1. /\ n \in News /\ news' \in Seq(News) /\ UNCHANGED wallet /\ HookOK(hook)
  BY DEF HearsNews, WalletInv
<1>2. \/ TakesAccount(n.payload)
      \/ n.kind = "chainChanged" /\ TakesChain(n.payload)
      \/ Loses
  BY DEF HearsNews
<1> HIDE DEF n
<1>3. CASE TakesAccount(n.payload)
  <2> DEFINE k == Ask("chain", hook.attempt + 1, hook.seq, n.payload, FALSE)
  <2>1. /\ n.payload \in Account /\ asks' = asks \cup {k}
        /\ HookIs(hook.state, hook.attempt + 1, hook.seq, hook.announced)
    BY <1>3 DEF TakesAccount
  <2>2. /\ IsAsk(k) /\ k.step = "chain" /\ k.attempt = hook.attempt + 1 /\ k.since = hook.seq
        /\ k.account = n.payload
    BY DEF Ask, IsAsk, AskField
  <2> HIDE DEF k
  <2>3. HookOK(hook') /\ Later
    BY <1>1, <2>1 DEF HookIs, HookOK, Later
  <2>4. AskOK(hook', k)
    BY <1>1, <2>1, <2>2, <2>3 DEF AskOK, HookIs, HookOK
  <2>5. \A c \in asks : AskOK(hook', c)
    BY <1>1, <2>3, OldAsksStay DEF WalletInv, HookOK
  <2> QED
    BY <1>1, <2>1, <2>3, <2>4, <2>5 DEF WalletInv
<1>4. CASE n.kind = "chainChanged" /\ TakesChain(n.payload)
  <2>1. n.payload \in Chain
    BY <1>1, <1>4 DEF News, TakesChain
  <2> DEFINE state == IF hook.state.status = "connected" THEN [hook.state EXCEPT !.chain = n.payload]
                      ELSE hook.state
  <2>2. state \in State
    <3>1. CASE hook.state.status = "connected"
      <4>1. /\ hook.state.account \in Account
            /\ [hook.state EXCEPT !.chain = n.payload] = Connected(hook.state.account, n.payload)
        BY <1>1, <3>1, StateIsConnected DEF HookOK
      <4> QED
        BY <2>1, <3>1, <4>1, ConnectedIsState
    <3> QED
      BY <1>1, <3>1 DEF HookOK
  <2>3. UNCHANGED asks /\ HookIs(state, hook.attempt, hook.seq + 1, n.payload)
    BY <1>4 DEF TakesChain
  <2> HIDE DEF state
  <2>4. HookOK(hook') /\ Later
    BY <1>1, <2>1, <2>2, <2>3 DEF HookIs, HookOK, Later
  <2>5. \A c \in asks : AskOK(hook', c)
    BY <1>1, <2>4, OldAsksStay DEF WalletInv, HookOK
  <2> QED
    BY <1>1, <2>3, <2>4, <2>5 DEF WalletInv
<1>5. CASE Loses
  <2>1. PICK state \in Lost : HookIs(state, hook.attempt + 1, hook.seq, hook.announced)
    BY <1>5 DEF Loses
  <2>2. HookOK(hook') /\ Later
    BY <1>1, <2>1, LostIsState DEF HookIs, HookOK, Later
  <2>3. \A c \in asks : AskOK(hook', c)
    BY <1>1, <2>2, OldAsksStay DEF WalletInv, HookOK
  <2> QED
    BY <1>1, <1>5, <2>2, <2>3 DEF WalletInv, Loses
<1> QED
  BY <1>2, <1>3, <1>4, <1>5

LEMMA ConnectingKeepsWallet ==
  ASSUME WalletInv, Connects
  PROVE  WalletInv'
<1> DEFINE k == Ask("request", hook.attempt + 1, hook.seq, None, TRUE)
<1>1. /\ UNCHANGED <<wallet, news>> /\ asks' = asks \cup {k} /\ HookOK(hook)
      /\ HookIs(Waiting("connecting"), hook.attempt + 1, hook.seq, hook.announced)
  BY DEF Connects, WalletInv
<1>2. IsAsk(k) /\ k.step = "request" /\ k.attempt = hook.attempt + 1 /\ k.since = hook.seq
  BY DEF Ask, IsAsk, AskField
<1> HIDE DEF k
<1>3. HookOK(hook') /\ Later
  BY <1>1, WaitingIsState DEF HookIs, HookOK, Later
<1>4. AskOK(hook', k)
  BY <1>1, <1>2 DEF AskOK, HookIs, HookOK
<1>5. \A c \in asks : AskOK(hook', c)
  BY <1>1, <1>3, OldAsksStay DEF WalletInv, HookOK
<1> QED
  BY <1>1, <1>3, <1>4, <1>5 DEF WalletInv

LEMMA ScreensKeepWallet ==
  ASSUME WalletInv, Screens
  PROVE  WalletInv'
<1>1. HookOK(hook) /\ UNCHANGED <<wallet, news, asks>>
  BY DEF WalletInv, Screens
<1>2. HookOK(hook') /\ Later
  BY <1>1 DEF Screens, HookOK, Later
<1>3. \A c \in asks : AskOK(hook', c)
  BY <1>1, <1>2, OldAsksStay DEF WalletInv, HookOK
<1> QED
  BY <1>1, <1>2, <1>3 DEF WalletInv

LEMMA WalletKept == ASSUME WalletInv, [Next]_vars PROVE WalletInv'
BY StepsOfTheWallet, SwitchingKeepsWallet, DecidingKeepsWallet, HearingKeepsWallet, NewsKeepWallet,
   ConnectingKeepsWallet, ScreensKeepWallet

-----------------------------------------------------------------------------
\* A hook that is checking or connecting keeps a request of its attempt.
LEMMA StrandedNever ==
  ASSUME WalletInv, HookIsNotStranded, [Next]_vars
  PROVE  HookIsNotStranded'
<1>1. ASSUME UNCHANGED <<hook, asks>> PROVE HookIsNotStranded'
  BY <1>1 DEF HookIsNotStranded
<1>2. ASSUME NEW c, AnswersAsIs(c) \/ Grants(c) PROVE HookIsNotStranded'
  <2>1. PICK said : Decides(c, said)
    BY <1>2 DEF AnswersAsIs, Grants
  <2> DEFINE k == [c EXCEPT !.said = said]
  <2>2. k.attempt = c.attempt /\ asks' = (asks \ {c}) \cup {k} /\ hook' = hook
    BY <2>1, AnswerFields DEF Decides, Answered, WalletInv, AskOK
  <2> HIDE DEF k
  <2> QED
    BY <2>2 DEF HookIsNotStranded
<1>3. ASSUME NEW c, HearsAsk(c) PROVE HookIsNotStranded'
  <2>1. ASSUME NEW state, state.status \notin {"checking", "connecting"}, Settles(c, state)
        PROVE  HookIsNotStranded'
    BY <2>1 DEF Settles, Hot, HookIs, HookIsNotStranded
  <2>2. CASE AsksChain(c)
    <3> DEFINE k == Ask("chain", c.attempt, c.since, c.said, c.connect)
    <3>1. k.attempt = c.attempt /\ asks' = (asks \ {c}) \cup {k} /\ hook' = hook
      BY <2>2 DEF AsksChain, Ask
    <3> HIDE DEF k
    <3> QED
      BY <3>1 DEF HookIsNotStranded
  <2>3. CASE HasNone(c)
    BY <2>1, <2>3, LostIsState DEF HasNone
  <2>4. CASE HasNoChain(c)
    BY <2>1, <2>4, WaitingIsState DEF HasNoChain
  <2>5. CASE HasBoth(c)
    BY <2>1, <2>5 DEF HasBoth, Connected
  <2> QED
    BY <1>3, <2>2, <2>3, <2>4, <2>5 DEF HearsAsk
<1>4. ASSUME HearsNews(Head(news)) PROVE HookIsNotStranded'
  <2> DEFINE n == Head(news)
  <2>1. TakesAccount(n.payload) \/ TakesChain(n.payload) \/ Loses
    BY <1>4 DEF HearsNews
  <2> HIDE DEF n
  <2>2. CASE TakesAccount(n.payload)
    <3> DEFINE k == Ask("chain", hook.attempt + 1, hook.seq, n.payload, FALSE)
    <3>1. k.attempt = hook.attempt + 1 /\ k \in asks' /\ hook'.attempt = hook.attempt + 1
      BY <2>2 DEF TakesAccount, HookIs, Ask
    <3> HIDE DEF k
    <3> QED
      BY <3>1 DEF HookIsNotStranded
  <2>3. CASE TakesChain(n.payload)
    <3>1. ASSUME hook.state.status = "connected"
          PROVE  [hook.state EXCEPT !.chain = n.payload].status = "connected"
      BY <3>1, StateIsConnected DEF WalletInv, HookOK, Connected
    <3> QED
      BY <2>3, <3>1 DEF TakesChain, HookIs, HookIsNotStranded
  <2>4. CASE Loses
    BY <2>4, LostIsState DEF Loses, HookIs, HookIsNotStranded
  <2> QED
    BY <2>1, <2>2, <2>3, <2>4
<1>5. ASSUME Connects PROVE HookIsNotStranded'
  <2> DEFINE k == Ask("request", hook.attempt + 1, hook.seq, None, TRUE)
  <2>1. k.attempt = hook.attempt + 1 /\ k \in asks' /\ hook'.attempt = hook.attempt + 1
    BY <1>5 DEF Connects, HookIs, Ask
  <2> HIDE DEF k
  <2> QED
    BY <2>1 DEF HookIsNotStranded
<1>6. ASSUME Screens PROVE HookIsNotStranded'
  BY <1>6 DEF Screens, HookIsNotStranded
<1> QED
  BY <1>1, <1>2, <1>3, <1>4, <1>5, <1>6, StepsOfTheWallet DEF SwitchesAccount, SwitchesChain,
     Disconnects

LEMMA InitWallet == Init => WalletInv /\ HookIsNotStranded
<1> SUFFICES ASSUME Init PROVE WalletInv /\ HookIsNotStranded
  OBVIOUS
<1>1. ASSUME NEW moves \in Nat, NEW faults \in Nat, NEW a \in Account \cup {Nobody}, NEW c \in Chain,
             NEW l \in BOOLEAN, wallet = NewWallet(a, c, l, moves, faults)
      PROVE  IsWallet(wallet)
  BY <1>1 DEF NewWallet, IsWallet, WalletField
<1>2. ASSUME NEW state \in State, hook = NewHook(state)
      PROVE  /\ HookOK(hook) /\ hook.state = state /\ hook.attempt = 1
             /\ hook.seq = 0
  BY <1>2 DEF NewHook, HookOK, IsHook, HookField
<1>3. news = <<>> /\ news \in Seq(News)
  <2>1. \/ WalletLoad(MaxMoves["panel"], MaxFaults)
        \/ \E listening, moves : WalletConnected(listening, moves)
    BY DEF Init
  <2>2. news = <<>>
    BY <2>1 DEF WalletLoad, WalletConnected
  <2> QED
    BY <2>2
<1>4. CASE WalletLoad(MaxMoves["panel"], MaxFaults)
  <2>1. IsWallet(wallet)
    BY <1>1, <1>4, SceneAssumption DEF WalletLoad
  <2>2. CASE hook = NewHook(Waiting("unsupported")) /\ asks = {}
    BY <1>2, <1>3, <2>1, <2>2, WaitingIsState DEF WalletInv, HookIsNotStranded
  <2>3. CASE hook = NewHook(Waiting("checking")) /\ asks = {Ask("accounts", 1, 0, None, FALSE)}
    <3> DEFINE k == Ask("accounts", 1, 0, None, FALSE)
    <3>1. IsAsk(k) /\ k.step = "accounts" /\ k.attempt = 1 /\ k.since = 0
      BY DEF Ask, IsAsk, AskField
    <3>2. asks = {k}
      BY <2>3
    <3> HIDE DEF k
    <3>3. HookOK(hook) /\ hook.attempt = 1 /\ hook.seq = 0
      BY <1>2, <2>3, WaitingIsState
    <3>4. AskOK(hook, k)
      BY <3>1, <3>3 DEF AskOK
    <3> QED
      BY <1>3, <2>1, <3>1, <3>2, <3>3, <3>4 DEF WalletInv, HookIsNotStranded
  <2> QED
    BY <1>4, <2>2, <2>3 DEF WalletLoad
<1>5. ASSUME NEW kind \in Controls \cup {"receipt", "reads"},
             WalletConnected(kind \notin Controls \ {"submit"}, MaxMoves[kind])
      PROVE  WalletInv /\ HookIsNotStranded
  <2> DEFINE l == kind \notin Controls \ {"submit"}
  <2>1. l \in BOOLEAN /\ WalletConnected(l, MaxMoves[kind])
    BY <1>5
  <2> HIDE DEF l
  <2>2. PICK a \in Account, c \in Chain : wallet = NewWallet(a, c, l, MaxMoves[kind], 0)
    BY <2>1 DEF WalletConnected
  <2>3. MaxMoves[kind] \in Nat
    BY SceneAssumption
  <2>4. IsWallet(wallet) /\ wallet.account = a /\ wallet.chain = c
    BY <1>1, <2>1, <2>2, <2>3 DEF NewWallet
  <2> DEFINE state == Connected(wallet.account, wallet.chain)
  <2>5. state \in State /\ state.status = "connected"
    BY <2>4, ConnectedIsState
  <2>6. hook = NewHook(state) /\ asks = {}
    BY <2>1 DEF WalletConnected
  <2> HIDE DEF state
  <2>7. HookOK(hook) /\ hook.state = state
    BY <1>2, <2>5, <2>6
  <2> QED
    BY <1>3, <2>4, <2>5, <2>6, <2>7 DEF WalletInv, HookIsNotStranded
<1> QED
  BY <1>4, <1>5 DEF Init

\* NothingWaitsInVain, for any accounts, chains, rows and bounds: what says checking,
\* connecting, sending or loading has a request that will settle it, whatever the wallet
\* announces and however attempts are retired.
THEOREM WaitingSafety == Spec => []NothingWaitsInVain
<1> DEFINE Waiters == SendInv /\ MomentInv /\ WaitInv
           Readers == PromptInv /\ GateInv
           Inv == WalletInv /\ HookIsNotStranded /\ Waiters /\ Readers
<1>1. Init => Inv
  BY InitWallet, InitSends, InitMoments, InitWaits, InitPrompts, InitGate
<1>2. Inv /\ [Next]_vars => Inv'
  BY WalletKept, StrandedNever, SendsKept, MomentsKept, WaitsKept, PromptsKept, GateKept
<1>3. Inv => NothingWaitsInVain
  BY DEF NothingWaitsInVain, WaitInv, GateInv, GateDrawn, BeingRead, ReadingHasARequest
<1> QED
  BY <1>1, <1>2, <1>3, PTL DEF Spec

-----------------------------------------------------------------------------
(* What the page has yet to hear, and what it holds once it has heard it all. *)

Untold(q, kind) == \E i \in 1 .. Len(q) : q[i].kind = kind

\* The last announcement of a kind is of what the wallet is on, or is spoilt.
LastTold(q, kind, value) ==
    \A i \in 1 .. Len(q) :
        q[i].kind = kind /\ (\A j \in i + 1 .. Len(q) : q[j].kind # kind)
        => q[i].payload \in {value, Unreadable}

OfNow(c) == c.attempt = hook.attempt

Settling == \E c \in asks : OfNow(c)

\* No account change is untold: the account shown is the wallet's or is being asked for,
\* and what is being asked for is asked of the wallet's account.
AccountIsTrue ==
    /\ hook.state.status = "connected" => hook.state.account = wallet.account \/ Settling
    /\ \A c \in asks : OfNow(c) =>
          /\ c.step = "chain" => c.account = wallet.account
          /\ c.step # "chain" /\ c.said \in Account => c.said = wallet.account

\* The same of the chain: an announcement heard since the request is what counts, and
\* without one the answer does.
ChainIsTrue ==
    /\ hook.state.status = "connected" => hook.state.chain = wallet.chain \/ Settling
    /\ \A c \in asks : OfNow(c) =>
          /\ hook.seq # c.since => hook.announced = wallet.chain
          /\ hook.seq = c.since /\ c.step = "chain" /\ c.said \in Chain => c.said = wallet.chain

ToldOrTrue ==
    /\ LastTold(news, "accountsChanged", wallet.account)
    /\ LastTold(news, "chainChanged", wallet.chain)
    /\ Untold(news, "accountsChanged") \/ AccountIsTrue
    /\ Untold(news, "chainChanged") \/ ChainIsTrue

Shows == On("confirm") \/ On("revoke") \/ On("execute") \/ On("status")

SettledInv ==
    /\ Shows => ~wallet.listening
    /\ wallet.listening /\ hook.mounted => ToldOrTrue

LEMMA TellingIs ==
  ASSUME NEW q \in Seq(News), NEW n \in News
  PROVE  /\ \A kind : Untold(Append(q, n), kind) <=> n.kind = kind \/ Untold(q, kind)
         /\ \A kind, value : n.kind # kind /\ LastTold(q, kind, value)
                             => LastTold(Append(q, n), kind, value)
         /\ \A value : n.payload \in {value, Unreadable} => LastTold(Append(q, n), n.kind, value)
<1> DEFINE r == Append(q, n)
<1>1. /\ Len(r) = Len(q) + 1 /\ Len(q) \in Nat /\ r[Len(r)] = n
      /\ \A i \in 1 .. Len(q) : r[i] = q[i]
  OBVIOUS
<1> HIDE DEF r
<1>2. ASSUME NEW kind PROVE Untold(r, kind) <=> n.kind = kind \/ Untold(q, kind)
  BY <1>1 DEF Untold
<1>3. ASSUME NEW kind, NEW value, n.kind # kind, LastTold(q, kind, value)
      PROVE  LastTold(r, kind, value)
  BY <1>1, <1>3 DEF LastTold
<1>4. ASSUME NEW value, n.payload \in {value, Unreadable}
      PROVE  LastTold(r, n.kind, value)
  BY <1>1, <1>4 DEF LastTold
<1> QED
  BY <1>2, <1>3, <1>4 DEF r

LEMMA AnnouncingIs ==
  ASSUME NEW kind, NEW payload, [kind |-> kind, payload |-> payload] \in News,
         news \in Seq(News), wallet.listening, news' = Announced(kind, payload)
  PROVE  /\ \A other : Untold(news', other) <=> other = kind \/ Untold(news, other)
         /\ \A other, value : other # kind /\ LastTold(news, other, value)
                              => LastTold(news', other, value)
         /\ \A value : payload \in {value, Unreadable} => LastTold(news', kind, value)
<1> DEFINE n == [kind |-> kind, payload |-> payload]
<1>1. n \in News /\ n.kind = kind /\ n.payload = payload /\ news' = Append(news, n)
  BY DEF Announced
<1> HIDE DEF n
<1>2. /\ \A other : Untold(Append(news, n), other) <=> n.kind = other \/ Untold(news, other)
      /\ \A other, value : n.kind # other /\ LastTold(news, other, value)
                            => LastTold(Append(news, n), other, value)
      /\ \A value : n.payload \in {value, Unreadable} => LastTold(Append(news, n), n.kind, value)
  BY <1>1, TellingIs
<1> QED
  BY <1>1, <1>2

LEMMA HearingIs ==
  ASSUME NEW q \in Seq(News), q # <<>>
  PROVE  /\ \A kind : Untold(q, kind) <=> Head(q).kind = kind \/ Untold(Tail(q), kind)
         /\ \A kind, value : LastTold(q, kind, value)
                => /\ LastTold(Tail(q), kind, value)
                   /\ Head(q).kind = kind /\ ~Untold(Tail(q), kind)
                      => Head(q).payload \in {value, Unreadable}
<1> DEFINE r == Tail(q)
           n == Head(q)
<1>1. /\ Len(q) = Len(r) + 1 /\ Len(r) \in Nat /\ q[1] = n
      /\ \A i \in 1 .. Len(r) : q[i + 1] = r[i]
  OBVIOUS
<1>2. \A j \in 2 .. Len(q) : q[j] = r[j - 1] /\ j - 1 \in 1 .. Len(r)
  BY <1>1
<1> HIDE DEF r, n
<1>3. ASSUME NEW kind PROVE Untold(q, kind) <=> n.kind = kind \/ Untold(r, kind)
  <2>1. Untold(r, kind) => Untold(q, kind)
    <3> SUFFICES ASSUME NEW i \in 1 .. Len(r), r[i].kind = kind PROVE Untold(q, kind)
      BY DEF Untold
    <3>1. i + 1 \in 1 .. Len(q) /\ q[i + 1] = r[i]
      BY <1>1
    <3> QED
      BY <3>1 DEF Untold
  <2>2. n.kind = kind => Untold(q, kind)
    BY <1>1 DEF Untold
  <2>3. Untold(q, kind) => n.kind = kind \/ Untold(r, kind)
    <3> SUFFICES ASSUME NEW i \in 1 .. Len(q), q[i].kind = kind, i # 1 PROVE Untold(r, kind)
      BY <1>1 DEF Untold
    <3>1. q[i] = r[i - 1] /\ i - 1 \in 1 .. Len(r)
      BY <1>2
    <3> QED
      BY <3>1 DEF Untold
  <2> QED
    BY <2>1, <2>2, <2>3
<1>4. ASSUME NEW kind, NEW value, LastTold(q, kind, value)
      PROVE  LastTold(r, kind, value)
  <2> SUFFICES ASSUME NEW i \in 1 .. Len(r), r[i].kind = kind,
                      \A j \in i + 1 .. Len(r) : r[j].kind # kind
               PROVE  r[i].payload \in {value, Unreadable}
    BY DEF LastTold
  <2>1. i + 1 \in 1 .. Len(q) /\ q[i + 1] = r[i]
    BY <1>1
  <2>2. ASSUME NEW j \in (i + 1) + 1 .. Len(q) PROVE q[j].kind # kind
    <3>1. q[j] = r[j - 1] /\ j - 1 \in i + 1 .. Len(r)
      BY <1>1, <1>2
    <3> QED
      BY <3>1
  <2> QED
    BY <1>4, <2>1, <2>2 DEF LastTold
<1>5. ASSUME NEW kind, NEW value, LastTold(q, kind, value), n.kind = kind, ~Untold(r, kind)
      PROVE  n.payload \in {value, Unreadable}
  <2>1. ASSUME NEW j \in 1 + 1 .. Len(q) PROVE q[j].kind # kind
    BY <1>2, <1>5 DEF Untold
  <2>2. 1 \in 1 .. Len(q) /\ q[1] = n
    BY <1>1
  <2> QED
    BY <1>5, <2>1, <2>2 DEF LastTold
<1> QED
  BY <1>3, <1>4, <1>5 DEF r, n

\* An unusable answer is no account and no chain.
LEMMA Unusable ==
  ASSUME NEW said \in {None, Nobody, Unreadable, Declined, Failed}
  PROVE  said \notin Account /\ said \notin Chain
BY WalletAssumption

\* A page that is told of everything: a listening wallet's news is announced.
LEMMA SwitchingSettles ==
  ASSUME WalletInv, SettledInv, desk'.kind = desk.kind, SwitchesAccount \/ SwitchesChain \/ Disconnects
  PROVE  SettledInv'
<1>1. /\ wallet'.listening = wallet.listening /\ UNCHANGED <<hook, asks>> /\ news \in Seq(News)
      /\ Shows' = Shows
  BY DEF SwitchesAccount, SwitchesChain, Disconnects, WalletIs, WalletInv, Shows, On
<1> SUFFICES ASSUME wallet.listening, hook.mounted PROVE ToldOrTrue'
  BY <1>1 DEF SettledInv
<1>2. ToldOrTrue
  BY DEF SettledInv
<1>3. CASE SwitchesAccount
  <2>1. PICK payload \in {Unreadable, wallet'.account} :
          /\ wallet'.chain = wallet.chain /\ wallet'.account \in Account \cup {Nobody}
          /\ news' = Announced("accountsChanged", payload)
    BY <1>3 DEF SwitchesAccount, WalletIs, IsWallet
  <2>2. [kind |-> "accountsChanged", payload |-> payload] \in News
    BY <2>1 DEF News
  <2>3. /\ \A other : Untold(news', other) <=> other = "accountsChanged" \/ Untold(news, other)
        /\ \A other, value : other # "accountsChanged" /\ LastTold(news, other, value)
                             => LastTold(news', other, value)
        /\ \A value : payload \in {value, Unreadable} => LastTold(news', "accountsChanged", value)
    BY <1>1, <2>1, <2>2, AnnouncingIs
  <2>4. /\ LastTold(news', "accountsChanged", wallet'.account)
        /\ LastTold(news', "chainChanged", wallet'.chain)
        /\ Untold(news', "accountsChanged")
        /\ Untold(news', "chainChanged") <=> Untold(news, "chainChanged")
    BY <1>2, <2>1, <2>3 DEF ToldOrTrue
  <2>5. ChainIsTrue => ChainIsTrue'
    BY <1>1, <2>1 DEF ChainIsTrue, OfNow, Settling
  <2> QED
    BY <1>2, <2>4, <2>5 DEF ToldOrTrue
<1>4. CASE SwitchesChain
  <2>1. PICK payload \in {Unreadable, wallet'.chain} :
          /\ wallet'.account = wallet.account /\ wallet'.chain \in Chain
          /\ news' = Announced("chainChanged", payload)
    BY <1>4 DEF SwitchesChain, WalletIs, IsWallet
  <2>2. [kind |-> "chainChanged", payload |-> payload] \in News
    BY <2>1 DEF News
  <2>3. /\ \A other : Untold(news', other) <=> other = "chainChanged" \/ Untold(news, other)
        /\ \A other, value : other # "chainChanged" /\ LastTold(news, other, value)
                             => LastTold(news', other, value)
        /\ \A value : payload \in {value, Unreadable} => LastTold(news', "chainChanged", value)
    BY <1>1, <2>1, <2>2, AnnouncingIs
  <2>4. /\ LastTold(news', "accountsChanged", wallet'.account)
        /\ LastTold(news', "chainChanged", wallet'.chain)
        /\ Untold(news', "accountsChanged") <=> Untold(news, "accountsChanged")
        /\ Untold(news', "chainChanged")
    BY <1>2, <2>1, <2>3 DEF ToldOrTrue
  <2>5. AccountIsTrue => AccountIsTrue'
    BY <1>1, <2>1 DEF AccountIsTrue, OfNow, Settling
  <2> QED
    BY <1>2, <2>4, <2>5 DEF ToldOrTrue
<1>5. CASE Disconnects
  <2>1. /\ wallet'.account = wallet.account /\ wallet'.chain = wallet.chain
        /\ news' = Announced("disconnect", None)
    BY <1>5 DEF Disconnects, WalletIs
  <2>2. [kind |-> "disconnect", payload |-> None] \in News
    BY DEF News
  <2>3. /\ \A other : Untold(news', other) <=> other = "disconnect" \/ Untold(news, other)
        /\ \A other, value : other # "disconnect" /\ LastTold(news, other, value)
                             => LastTold(news', other, value)
        /\ \A value : None \in {value, Unreadable} => LastTold(news', "disconnect", value)
    BY <1>1, <2>1, <2>2, AnnouncingIs
  <2>4. /\ LastTold(news', "accountsChanged", wallet'.account)
        /\ LastTold(news', "chainChanged", wallet'.chain)
        /\ Untold(news', "accountsChanged") <=> Untold(news, "accountsChanged")
        /\ Untold(news', "chainChanged") <=> Untold(news, "chainChanged")
    BY <1>2, <2>1, <2>3 DEF ToldOrTrue
  <2>5. (AccountIsTrue => AccountIsTrue') /\ (ChainIsTrue => ChainIsTrue')
    BY <1>1, <2>1 DEF AccountIsTrue, ChainIsTrue, OfNow, Settling
  <2> QED
    BY <1>2, <2>4, <2>5 DEF ToldOrTrue
<1> QED
  BY <1>3, <1>4, <1>5

LEMMA DecidingSettles ==
  ASSUME WalletInv, SettledInv, desk'.kind = desk.kind, NEW c, AnswersAsIs(c) \/ Grants(c)
  PROVE  SettledInv'
<1>1. PICK said : Decides(c, said) /\ (AnswersAsIs(c) \/ c.step = "request") /\
         \/ /\ WalletIs(wallet.account, wallet.chain) /\ UNCHANGED news
            /\ \/ said \in {Unreadable, Failed, Declined, Nobody}
               \/ c.step = "accounts" /\ said = wallet.account
               \/ c.step = "chain" /\ said = wallet.chain
         \/ /\ said \in Account /\ c.step = "request" /\ WalletIs(said, wallet.chain)
            /\ news' = IF wallet.account = said THEN news ELSE Announced("accountsChanged", said)
  BY DEF AnswersAsIs, Grants
<1> DEFINE k == [c EXCEPT !.said = said]
<1>2. /\ asks' = (asks \ {c}) \cup {k} /\ hook' = hook /\ c \in asks
      /\ k.step = c.step /\ k.attempt = c.attempt /\ k.since = c.since /\ k.account = c.account
      /\ k.said = said
  BY <1>1, AnswerFields DEF Decides, Answered, WalletInv, AskOK
<1> HIDE DEF k
<1>3. wallet'.listening = wallet.listening /\ Shows' = Shows /\ news \in Seq(News)
  BY <1>1 DEF WalletIs, Shows, On, WalletInv
<1> SUFFICES ASSUME wallet.listening, hook.mounted PROVE ToldOrTrue'
  BY <1>2, <1>3 DEF SettledInv
<1>4. ToldOrTrue /\ (Settling <=> Settling')
  BY <1>2 DEF SettledInv, Settling, OfNow
<1>5. CASE wallet'.account = wallet.account /\ UNCHANGED news
  <2>1. wallet'.chain = wallet.chain
    BY <1>1 DEF WalletIs
  <2>2. /\ said \in Account /\ c.step # "chain" => said = wallet.account
        /\ said \in Chain /\ c.step = "chain" => said = wallet.chain
    BY <1>1, <1>5, Unusable DEF WalletIs
  <2>3. AccountIsTrue => AccountIsTrue'
    BY <1>2, <1>4, <1>5, <2>2 DEF AccountIsTrue, OfNow
  <2>4. ChainIsTrue => ChainIsTrue'
    BY <1>2, <1>4, <2>1, <2>2 DEF ChainIsTrue, OfNow
  <2> QED
    BY <1>4, <1>5, <2>1, <2>3, <2>4 DEF ToldOrTrue
<1>6. CASE ~(wallet'.account = wallet.account /\ UNCHANGED news)
  <2>1. /\ said \in Account /\ c.step = "request" /\ wallet'.account = said
        /\ wallet'.chain = wallet.chain /\ news' = Announced("accountsChanged", said)
    BY <1>1, <1>6 DEF WalletIs
  <2>2. [kind |-> "accountsChanged", payload |-> said] \in News
    BY <2>1 DEF News
  <2>3. /\ \A other : Untold(news', other) <=> other = "accountsChanged" \/ Untold(news, other)
        /\ \A other, value : other # "accountsChanged" /\ LastTold(news, other, value)
                             => LastTold(news', other, value)
        /\ \A value : said \in {value, Unreadable} => LastTold(news', "accountsChanged", value)
    BY <1>3, <2>1, <2>2, AnnouncingIs
  <2>4. /\ LastTold(news', "accountsChanged", wallet'.account)
        /\ LastTold(news', "chainChanged", wallet'.chain)
        /\ Untold(news', "accountsChanged")
        /\ Untold(news', "chainChanged") <=> Untold(news, "chainChanged")
    BY <1>4, <2>1, <2>3 DEF ToldOrTrue
  <2>5. ChainIsTrue => ChainIsTrue'
    BY <1>2, <1>4, <2>1 DEF ChainIsTrue, OfNow
  <2> QED
    BY <1>4, <2>4, <2>5 DEF ToldOrTrue
<1> QED
  BY <1>5, <1>6

LEMMA HearingSettles ==
  ASSUME WalletInv, SettledInv, desk'.kind = desk.kind, NEW c, HearsAsk(c)
  PROVE  SettledInv'
<1>1. c \in asks /\ UNCHANGED <<wallet, news>> /\ Shows' = Shows
  BY DEF HearsAsk, Shows, On
<1>2. AskOK(hook, c)
  BY <1>1 DEF WalletInv
<1> SUFFICES ASSUME wallet.listening, hook'.mounted PROVE ToldOrTrue'
  BY <1>1 DEF SettledInv
<1>3. hook'.mounted = hook.mounted
  BY DEF HearsAsk, AsksChain, HasNone, HasNoChain, HasBoth, Settles, HookIs
<1>4. ToldOrTrue
  BY <1>3 DEF SettledInv
<1>5. CASE AsksChain(c)
  <2> DEFINE k == Ask("chain", c.attempt, c.since, c.said, c.connect)
  <2>1. /\ asks' = (asks \ {c}) \cup {k} /\ hook' = hook /\ c.step # "chain" /\ c.said \in Account
        /\ k.step = "chain" /\ k.attempt = c.attempt /\ k.since = c.since /\ k.account = c.said
        /\ k.said = None
    BY <1>5 DEF AsksChain, Ask
  <2> HIDE DEF k
  <2>2. Settling <=> Settling'
    BY <1>1, <2>1 DEF Settling, OfNow
  <2>3. AccountIsTrue => AccountIsTrue'
    BY <1>1, <2>1, <2>2 DEF AccountIsTrue, OfNow
  <2>4. ChainIsTrue => ChainIsTrue'
    BY <1>1, <2>1, <2>2, Unusable DEF ChainIsTrue, OfNow
  <2> QED
    BY <1>1, <1>4, <2>3, <2>4 DEF ToldOrTrue
<1>6. ASSUME NEW state, Settles(c, state),
             \/ state.status # "connected"
             \/ /\ c.step = "chain" /\ HasChain(c)
                /\ state.account = c.account /\ state.chain = ChainNow(c)
      PROVE  ToldOrTrue'
  <2>1. /\ asks' = asks \ {c} /\ hook'.attempt = hook.attempt /\ hook'.seq = hook.seq
        /\ hook'.announced = hook.announced
        /\ hook'.state = IF OfNow(c) THEN state ELSE hook.state
    BY <1>3, <1>6 DEF Settles, Hot, HookIs, OfNow
  <2>2. ~OfNow(c) => (Settling <=> Settling')
    BY <1>1, <2>1 DEF Settling, OfNow
  <2>3. AccountIsTrue => AccountIsTrue'
    BY <1>1, <1>6, <2>1, <2>2 DEF AccountIsTrue, OfNow
  <2>4. ChainIsTrue => ChainIsTrue'
    BY <1>1, <1>6, <2>1, <2>2 DEF ChainIsTrue, OfNow, HasChain, ChainNow
  <2> QED
    BY <1>1, <1>4, <2>3, <2>4 DEF ToldOrTrue
<1>7. CASE HasNone(c)
  BY <1>6, <1>7, LostIsState DEF HasNone
<1>8. CASE HasNoChain(c)
  BY <1>6, <1>8, WaitingIsState DEF HasNoChain
<1>9. CASE HasBoth(c)
  BY <1>6, <1>9 DEF HasBoth, Connected
<1> QED
  BY <1>5, <1>7, <1>8, <1>9 DEF HearsAsk

LEMMA NewsSettle ==
  ASSUME WalletInv, SettledInv, desk'.kind = desk.kind, HearsNews(Head(news))
  PROVE  SettledInv'
<1> DEFINE n == Head(news)
<1>1. /\ news # <<>> /\ news \in Seq(News) /\ news' = Tail(news) /\ UNCHANGED wallet
      /\ n \in News /\ hook.mounted /\ Shows' = Shows /\ HookOK(hook)
  BY DEF HearsNews, WalletInv, Shows, On
<1>2. /\ \A kind : Untold(news, kind) <=> n.kind = kind \/ Untold(news', kind)
      /\ \A kind, value : LastTold(news, kind, value)
                => /\ LastTold(news', kind, value)
                   /\ n.kind = kind /\ ~Untold(news', kind) => n.payload \in {value, Unreadable}
  BY <1>1, HearingIs
<1>3. \/ n.kind = "accountsChanged" /\ TakesAccount(n.payload)
      \/ n.kind = "chainChanged" /\ TakesChain(n.payload)
      \/ Loses
  BY DEF HearsNews
<1> HIDE DEF n
<1> SUFFICES ASSUME wallet.listening PROVE ToldOrTrue'
  BY <1>1 DEF SettledInv
<1>4. ToldOrTrue
  BY <1>1 DEF SettledInv
<1>5. ASSUME n.kind # "accountsChanged" /\ AccountIsTrue => AccountIsTrue',
             n.kind = "accountsChanged" /\ n.payload \in {wallet.account, Unreadable} => AccountIsTrue',
             n.kind # "chainChanged" /\ ChainIsTrue => ChainIsTrue',
             n.kind = "chainChanged" /\ n.payload \in {wallet.chain, Unreadable} => ChainIsTrue'
      PROVE  ToldOrTrue'
  BY <1>1, <1>2, <1>4, <1>5 DEF ToldOrTrue
<1>6. CASE n.kind = "accountsChanged" /\ TakesAccount(n.payload)
  <2> DEFINE k == Ask("chain", hook.attempt + 1, hook.seq, n.payload, FALSE)
  <2>1. /\ asks' = asks \cup {k} /\ hook'.attempt = hook.attempt + 1 /\ hook'.seq = hook.seq
        /\ hook'.announced = hook.announced /\ hook'.state = hook.state /\ n.payload \in Account
        /\ k.step = "chain" /\ k.attempt = hook.attempt + 1 /\ k.since = hook.seq
        /\ k.account = n.payload /\ k.said = None
    BY <1>6 DEF TakesAccount, HookIs, Ask
  <2> HIDE DEF k
  <2>2. \A c \in asks' : OfNow(c)' => c = k
    BY <1>1, <2>1 DEF WalletInv, AskOK, OfNow, HookOK
  <2>3. Settling'
    BY <2>1 DEF Settling, OfNow
  <2>4. n.payload \in {wallet.account, Unreadable} => AccountIsTrue'
    BY <1>1, <2>1, <2>2, <2>3, Unusable DEF AccountIsTrue
  <2>5. ChainIsTrue'
    BY <2>1, <2>2, <2>3, Unusable DEF ChainIsTrue
  <2> QED
    BY <1>5, <1>6, <2>4, <2>5
<1>7. CASE n.kind = "chainChanged" /\ TakesChain(n.payload)
  <2>1. /\ UNCHANGED asks /\ hook'.attempt = hook.attempt /\ hook'.seq = hook.seq + 1
        /\ hook'.announced = n.payload /\ n.payload # Unreadable
        /\ hook'.state = IF hook.state.status = "connected"
                         THEN [hook.state EXCEPT !.chain = n.payload] ELSE hook.state
    BY <1>7 DEF TakesChain, HookIs
  <2>2. hook.state.status = "connected" => /\ hook'.state.account = hook.state.account
                                           /\ hook'.state.chain = n.payload
    BY <1>1, <2>1, StateIsConnected DEF HookOK, Connected
  <2>3. hook'.state.status = "connected" => hook.state.status = "connected"
    BY <2>1
  <2>4. Settling <=> Settling'
    BY <2>1 DEF Settling, OfNow
  <2>5. AccountIsTrue => AccountIsTrue'
    BY <1>1, <2>1, <2>2, <2>3, <2>4 DEF AccountIsTrue, OfNow
  <2>6. \A c \in asks' : hook'.seq # c.since
    BY <1>1, <2>1 DEF WalletInv, AskOK, HookOK
  <2>7. n.payload = wallet.chain => ChainIsTrue'
    BY <1>1, <2>1, <2>2, <2>3, <2>6 DEF ChainIsTrue
  <2> QED
    BY <1>5, <1>7, <2>1, <2>5, <2>7
<1>8. CASE Loses
  <2>1. /\ UNCHANGED asks /\ hook'.attempt = hook.attempt + 1 /\ hook'.state.status # "connected"
    BY <1>8, LostIsState DEF Loses, HookIs
  <2>2. \A c \in asks' : ~OfNow(c)'
    BY <1>1, <2>1 DEF WalletInv, AskOK, OfNow, HookOK
  <2>3. AccountIsTrue' /\ ChainIsTrue'
    BY <2>1, <2>2 DEF AccountIsTrue, ChainIsTrue
  <2> QED
    BY <1>5, <2>3
<1> QED
  BY <1>3, <1>6, <1>7, <1>8

LEMMA ConnectingSettles ==
  ASSUME WalletInv, SettledInv, desk'.kind = desk.kind, Connects
  PROVE  SettledInv'
<1> DEFINE k == Ask("request", hook.attempt + 1, hook.seq, None, TRUE)
<1>1. /\ UNCHANGED <<wallet, news>> /\ asks' = asks \cup {k} /\ HookOK(hook) /\ Shows' = Shows
      /\ hook'.state = Waiting("connecting") /\ hook'.attempt = hook.attempt + 1
      /\ hook'.seq = hook.seq /\ hook.mounted
  BY DEF Connects, WalletInv, HookIs, Shows, On
<1>2. k.step = "request" /\ k.attempt = hook.attempt + 1 /\ k.since = hook.seq /\ k.said = None
  BY DEF Ask
<1> HIDE DEF k
<1>3. \A c \in asks' : OfNow(c)' => c = k
  BY <1>1 DEF WalletInv, AskOK, OfNow, HookOK
<1>4. hook'.state.status # "connected"
  BY <1>1 DEF Waiting
<1>5. AccountIsTrue' /\ ChainIsTrue'
  BY <1>1, <1>2, <1>3, <1>4, Unusable DEF AccountIsTrue, ChainIsTrue
<1> QED
  BY <1>1, <1>5 DEF SettledInv, ToldOrTrue

LEMMA ScreensSettle ==
  ASSUME WalletInv, SettledInv, desk'.kind = desk.kind, Screens
  PROVE  SettledInv'
<1>1. UNCHANGED <<wallet, news, asks>> /\ Shows' = Shows
  BY DEF Screens, Shows, On
<1> SUFFICES ASSUME wallet.listening, hook'.mounted PROVE ToldOrTrue'
  BY <1>1 DEF SettledInv
<1>2. ~(desk.kind \in Controls \ {"submit"})
  BY DEF SettledInv, Shows, On, Controls
<1>3. /\ hook'.state = hook.state /\ hook'.attempt = hook.attempt /\ hook'.mounted = hook.mounted
      /\ hook'.seq = hook.seq /\ hook'.announced = hook.announced
  BY <1>2 DEF Screens
<1>4. ToldOrTrue
  BY <1>3 DEF SettledInv
<1> QED
  BY <1>1, <1>3, <1>4 DEF ToldOrTrue, AccountIsTrue, ChainIsTrue, Settling, OfNow

LEMMA SettledKept == ASSUME SendInv, WalletInv, SettledInv, [Next]_vars PROVE SettledInv'
<1>1. desk'.kind = desk.kind
  BY KindStays
<1> QED
  BY <1>1, StepsOfTheWallet, SwitchingSettles, DecidingSettles, HearingSettles, NewsSettle,
     ConnectingSettles, ScreensSettle

LEMMA InitSettled == Init => SettledInv
<1> SUFFICES ASSUME Init PROVE SettledInv
  OBVIOUS
<1>1. ASSUME news = <<>>, hook.state.status # "connected" \/
                 (hook.state.account = wallet.account /\ hook.state.chain = wallet.chain),
             \A c \in asks : hook.seq = c.since /\ c.step # "chain" /\ c.said = None
      PROVE  ToldOrTrue
  BY <1>1, Unusable DEF ToldOrTrue, Untold, LastTold, AccountIsTrue, ChainIsTrue, OfNow
<1>2. CASE WalletLoad(MaxMoves["panel"], MaxFaults) /\ DeskInit("panel")
  <2>1. ~Shows
    BY <1>2, FreshDesk DEF DeskInit, NewDesk, Shows, On
  <2>2. \/ hook = NewHook(Waiting("unsupported")) /\ asks = {}
        \/ hook = NewHook(Waiting("checking")) /\ asks = {Ask("accounts", 1, 0, None, FALSE)}
    BY <1>2 DEF WalletLoad
  <2>3. hook.state.status # "connected" /\ hook.seq = 0
    <3>1. Waiting("unsupported").status # "connected" /\ Waiting("checking").status # "connected"
      BY DEF Waiting
    <3>2. \A state : NewHook(state).state = state /\ NewHook(state).seq = 0
      BY DEF NewHook
    <3> QED
      BY <2>2, <3>1, <3>2
  <2>4. \A c \in asks : c.since = 0 /\ c.step = "accounts" /\ c.said = None
    BY <2>2 DEF Ask
  <2>5. news = <<>>
    BY <1>2 DEF WalletLoad
  <2> QED
    BY <1>1, <2>1, <2>3, <2>4, <2>5 DEF SettledInv
<1>3. ASSUME NEW kind \in Controls \cup {"receipt", "reads"}, DeskInit(kind),
             WalletConnected(kind \notin Controls \ {"submit"}, MaxMoves[kind])
      PROVE  SettledInv
  <2> DEFINE l == kind \notin Controls \ {"submit"}
  <2>1. (l <=> kind \notin Controls \ {"submit"}) /\ WalletConnected(l, MaxMoves[kind])
    BY <1>3
  <2> HIDE DEF l
  <2>2. /\ wallet.listening = l /\ asks = {} /\ news = <<>>
        /\ hook.state = Connected(wallet.account, wallet.chain)
    BY <2>1 DEF WalletConnected, NewWallet, NewHook
  <2>3. hook.state.account = wallet.account /\ hook.state.chain = wallet.chain
    BY <2>2 DEF Connected
  <2>4. desk.kind = kind
    BY <1>3 DEF DeskInit, NewDesk
  <2> QED
    BY <1>1, <2>1, <2>2, <2>3, <2>4 DEF SettledInv, Shows, On, Controls
<1> QED
  BY <1>2, <1>3 DEF Init

\* SettledWalletIsTheWallets, for any accounts and chains and any number of announcements:
\* a page that has heard everything and shows a wallet as connected shows the account and
\* the chain the wallet is on, in whatever order events and answers came in.
THEOREM SettledSafety == Spec => []SettledWalletIsTheWallets
<1> DEFINE Inv == SendInv /\ WalletInv /\ SettledInv
<1>1. Init => Inv
  BY InitSends, InitWallet, InitSettled
<1>2. Inv /\ [Next]_vars => Inv'
  BY SendsKept, WalletKept, SettledKept
<1>3. Inv => SettledWalletIsTheWallets
  BY DEF SettledInv, ToldOrTrue, Untold, AccountIsTrue, ChainIsTrue, Settling,
         SettledWalletIsTheWallets
<1> QED
  BY <1>1, <1>2, <1>3, PTL DEF Spec

-----------------------------------------------------------------------------
(* The shape of a control and of its requests. *)

Kinds == {"idle", "checking", "refused", "ready", "sending", "sent", "failed", "done"}

FlagsOK(d) ==
    /\ d.sending \in BOOLEAN /\ d.mounted \in BOOLEAN /\ d.pending \in BOOLEAN
    /\ d.listed \in BOOLEAN /\ d.open \in BOOLEAN /\ d.presses \in Nat

SaidOK(p) == p.kind \in Kinds /\ (p.kind # "idle" => p.review \in Nat /\ p.stamp \in DeskStamp)

\* A request is of a situation something can be said about.
CallOK(d, c) ==
    /\ c.step \in {"read", "accounts", "chain", "transaction"}
    /\ c.attempt \in 1 .. d.attempt /\ c.stamp \in DeskStamp \ {None} /\ c.review \in Nat

DeskOK(d) ==
    /\ d.row \in Row /\ d.stamp \in DeskStamp /\ (d.open => d.stamp # None)
    /\ d.attempt \in Nat \ {0} /\ d.visit \in Nat /\ d.acked \in Nat
    /\ SaidOK(d.stored) /\ SaidOK(d.phase)

ShapeInv ==
    /\ blocks \in Seq(Proposal) /\ Len(blocks) \in 1 .. MaxBlocks
    /\ FlagsOK(desk) /\ DeskOK(desk)
    /\ \A c \in calls : CallOK(desk, c)

LEMMA StampIsOne ==
  ASSUME NEW state \in State, NEW row \in Row
  PROVE  /\ Stamp(state, row) \in DeskStamp
         /\ state.status = "connected" => /\ Stamp(state, row) # None
                                          /\ Stamp(state, row).account = state.account
                                          /\ Stamp(state, row).chain = state.chain
                                          /\ Stamp(state, row).row = row
         /\ state.status # "connected" => Stamp(state, row) = None
<1>1. CASE state.status = "connected"
  BY <1>1, StateIsConnected, DeskAssumption DEF Stamp, DeskStamp
<1>2. CASE state.status # "connected"
  BY <1>2 DEF Stamp, DeskStamp
<1> QED
  BY <1>1, <1>2

LEMMA ChangedIsProposal ==
  ASSUME NEW kind \in Call, NEW account \in Owner, NEW s \in Proposal
  PROVE  Changed(kind, account, s) \in Proposal
BY DEF Changed, Call, Proposal

LEMMA BlocksKept ==
  ASSUME blocks \in Seq(Proposal), Len(blocks) \in 1 .. MaxBlocks, DeskNext
  PROVE  /\ blocks' \in Seq(Proposal) /\ Len(blocks') \in 1 .. MaxBlocks
         /\ Len(blocks) <= Len(blocks') /\ \A i \in 1 .. Len(blocks) : blocks'[i] = blocks[i]
<1>1. CASE Mine
  <2>1. PICK kind \in Call, account \in Owner :
          /\ Len(blocks) < MaxBlocks
          /\ blocks' = Append(blocks, Changed(kind, account, blocks[Len(blocks)]))
    BY <1>1 DEF Mine
  <2> DEFINE s == Changed(kind, account, blocks[Len(blocks)])
  <2>2. s \in Proposal
    BY ChangedIsProposal
  <2>3. blocks' = Append(blocks, s)
    BY <2>1
  <2> HIDE DEF s
  <2> QED
    BY <2>1, <2>2, <2>3, DeskAssumption
<1>2. CASE ~Mine
  <2>1. UNCHANGED blocks
    BY <1>2 DEF DeskNext, Render, RunEffects, CatalogArrives, RowChanges, PageShows, Leave,
       PressCheck, PressReview, PressTick, PressSubmit, PressCancel, PressBack, HearRead,
       HearSendAccounts, HearSendChain, HearSendTransaction
  <2> QED
    BY <2>1
<1> QED
  BY <1>1, <1>2

LEMMA PressedIsDesk ==
  ASSUME NEW d, IsDesk(d), FlagsOK(d) PROVE IsDesk(Pressed(d)) /\ FlagsOK(Pressed(d))
<1> DEFINE e    == Pressed(d)
           more == d.presses + 1
<1>1. e = [d EXCEPT !.presses = more]
  BY DEF Pressed
<1>2. more \in Nat
  BY DEF FlagsOK
<1> HIDE DEF e, more
<1>3. IsDesk(e) /\ FlagsOK(e)
  BY <1>1, <1>2 DEF FlagsOK, IsDesk, DeskField
<1> QED
  BY <1>3 DEF e

LEMMA SettledFlags ==
  ASSUME NEW d, IsDesk(d), FlagsOK(d), NEW c, NEW kind
  PROVE  FlagsOK(Settled(d, c, kind)) /\ IsDesk(Settled(d, c, kind))
<1>1. IsDesk(Settled(d, c, kind))
  BY SettledKeepsSend DEF SameSend
<1> DEFINE p == Phase(kind, c)
           e == Settled(d, c, kind)
<1>2. e = d \/ e = [d EXCEPT !.stored = p]
  BY DEF Settled
<1>3. IsDesk(e)
  BY <1>1
<1> HIDE DEF p, e
<1>4. FlagsOK(e)
  BY <1>2 DEF FlagsOK, IsDesk, DeskField
<1> QED
  BY <1>3, <1>4 DEF e

LEMMA FlagsKept == ASSUME SendInv, FlagsOK(desk), DeskNext PROVE FlagsOK(desk')
<1>1. IsDesk(desk)
  BY DEF SendInv
<1>2. CASE Mine
  BY <1>2 DEF Mine
<1>3. CASE Render
  <2> DEFINE stamp == Stamp(hook.state, desk.row)
             moved == stamp # desk.stamp
             d     == Forget(desk, moved)
             phase == Shown(d, stamp)
             acked == Acked(d, phase)
             open  == GateIsOpen(hook.state, d.listed)
             pending == moved /\ d.kind # "submit"
             visit == d.visit + (IF moved THEN 1 ELSE 0)
  <2>1. desk' = [d EXCEPT !.stamp = stamp, !.phase = phase, !.acked = acked, !.open = open,
                          !.pending = pending, !.visit = visit]
    BY <1>3 DEF Render
  <2>2. d = desk \/ d = [desk EXCEPT !.stored = Idle]
    BY DEF Forget
  <2>3. open \in BOOLEAN /\ pending \in BOOLEAN
    BY DEF GateIsOpen
  <2> HIDE DEF stamp, moved, d, phase, acked, open, pending, visit
  <2>4. IsDesk(d) /\ FlagsOK(d)
    BY <1>1, <2>2 DEF FlagsOK, IsDesk, DeskField
  <2> QED
    BY <2>1, <2>3, <2>4 DEF FlagsOK, IsDesk, DeskField
<1>4. CASE RunEffects
  BY <1>1, <1>4 DEF RunEffects, Retires, FlagsOK, IsDesk, DeskField
<1>5. CASE CatalogArrives
  BY <1>1, <1>5 DEF CatalogArrives, FlagsOK, IsDesk, DeskField
<1>6. CASE RowChanges
  <2>1. PICK row : desk' = [Showing(desk) EXCEPT !.row = row]
    BY <1>6 DEF RowChanges
  <2> QED
    BY <1>1, <2>1 DEF Showing, FlagsOK, IsDesk, DeskField
<1>7. CASE PageShows
  <2>1. desk' = Showing(desk)
    BY <1>7 DEF PageShows
  <2> QED
    BY <1>1, <2>1 DEF Showing, FlagsOK, IsDesk, DeskField
<1>8. CASE Leave
  <2> DEFINE sending == desk.sending /\ desk.kind = "submit"
             attempt == desk.attempt + 1
  <2>1. desk' = [desk EXCEPT !.mounted = FALSE, !.attempt = attempt, !.sending = sending]
    BY <1>8 DEF Leave
  <2>2. sending = TRUE \/ sending = FALSE
    BY Zenon
  <2> HIDE DEF sending, attempt
  <2> QED
    BY <1>1, <2>1, <2>2 DEF FlagsOK, IsDesk, DeskField
<1> DEFINE d == Pressed(desk)
<1>9. IsDesk(d) /\ FlagsOK(d)
  BY <1>1, PressedIsDesk
<1>10. ASSUME NEW stored, NEW attempt, NEW acked,
              \/ desk' = [d EXCEPT !.attempt = attempt, !.stored = stored]
              \/ desk' = [d EXCEPT !.stored = stored]
              \/ desk' = [d EXCEPT !.acked = acked]
              \/ desk' = [d EXCEPT !.attempt = attempt, !.sending = TRUE, !.stored = stored]
       PROVE  FlagsOK(desk')
  <2> HIDE DEF d
  <2> QED
    BY <1>9, <1>10 DEF FlagsOK, IsDesk, DeskField
<1>11. CASE PressCheck
  BY <1>10, <1>11 DEF PressCheck
<1>12. CASE PressReview \/ PressTick
  BY <1>10, <1>12 DEF PressReview, PressTick
<1>13. CASE PressSubmit
  BY <1>10, <1>13 DEF PressSubmit
<1>14. CASE PressCancel \/ PressBack
  BY <1>10, <1>14 DEF PressCancel, PressBack
<1>15. ASSUME NEW c, NEW kind, desk' = Settled(desk, c, kind) \/ desk' = SendEnds(c, kind)
       PROVE  FlagsOK(desk')
  <2> DEFINE e == Settled(desk, c, kind)
  <2>1. FlagsOK(e) /\ IsDesk(e)
    BY <1>1, SettledFlags
  <2>2. desk' = e \/ desk' = [e EXCEPT !.sending = FALSE]
    BY <1>15 DEF SendEnds
  <2> HIDE DEF e
  <2> QED
    BY <2>1, <2>2 DEF FlagsOK, IsDesk, DeskField
<1>16. CASE HearRead
  <2>1. UNCHANGED desk \/ \E c, kind : desk' = Settled(desk, c, kind)
    BY <1>16 DEF HearRead
  <2> QED
    BY <1>15, <2>1
<1>17. CASE HearSendAccounts \/ HearSendChain \/ HearSendTransaction
  <2>1. UNCHANGED desk \/ \E c, kind : desk' = SendEnds(c, kind)
    BY <1>17 DEF HearSendAccounts, HearSendChain, HearSendTransaction
  <2> QED
    BY <1>15, <2>1
<1> QED
  BY <1>2, <1>3, <1>4, <1>5, <1>6, <1>7, <1>8, <1>11, <1>12, <1>13, <1>14, <1>16, <1>17
     DEF DeskNext

LEMMA PhaseOK ==
  ASSUME NEW kind \in Kinds, NEW c, c.review \in Nat, c.stamp \in DeskStamp
  PROVE  SaidOK(Phase(kind, c))
BY PhaseFields DEF SaidOK

LEMMA IdleOK == SaidOK(Idle) /\ Idle.kind = "idle"
BY DEF SaidOK, Idle, Kinds

LEMMA CallsStayOK ==
  ASSUME NEW c, CallOK(desk, c), desk.attempt \in Nat, desk'.attempt \in Nat,
         desk.attempt <= desk'.attempt
  PROVE  CallOK(desk', c)
BY DEF CallOK

\* The parts of a control a step leaves as they are, or sets to something of its kind.
LEMMA ShapeOfDesk ==
  ASSUME WalletInv, SendInv, MomentInv, ShapeInv, DeskNext
  PROVE  DeskOK(desk') /\ \A c \in calls' : CallOK(desk', c)
<1>1. DeskOK(desk) /\ SaidOK(Idle) /\ FlagsOK(desk)
  BY IdleOK DEF ShapeInv
<1>2. ASSUME NEW stored, NEW attempt \in {desk.attempt, desk.attempt + 1}, NEW acked \in Nat,
             SaidOK(stored), Says(stored, attempt, acked)
      PROVE  DeskOK(desk') /\ \A c \in calls : CallOK(desk', c)
  <2>1. DeskOK(desk')
    BY <1>1, <1>2 DEF DeskOK, Says, SameRender
  <2>2. desk.attempt <= desk'.attempt /\ desk.attempt \in Nat /\ desk'.attempt \in Nat
    BY <1>1, <1>2 DEF DeskOK, Says
  <2> QED
    BY <2>1, <2>2, CallsStayOK DEF ShapeInv
<1>3. ASSUME NEW stamp, NEW moved, Draws(stamp, moved)
      PROVE  DeskOK(desk') /\ \A c \in calls' : CallOK(desk', c)
  <2>1. /\ stamp \in DeskStamp /\ (hook.state.status = "connected" => stamp # None)
    BY <1>1, <1>3, StampIsOne DEF Draws, DeskOK, WalletInv, HookOK
  <2>2. Acked(desk, desk'.phase) \in Nat
    BY <1>1 DEF Acked, DeskOK
  <2>3. SaidOK(desk'.stored) /\ SaidOK(desk'.phase)
    BY <1>1, <1>3 DEF Draws, DeskOK
  <2>4. DeskOK(desk') /\ desk'.attempt = desk.attempt /\ UNCHANGED calls
    BY <1>1, <1>3, <2>1, <2>2, <2>3 DEF Draws, DeskOK
  <2> QED
    BY <2>4 DEF ShapeInv, CallOK
<1>4. CASE Moves
  <2>1. DeskOK(desk') /\ desk.attempt <= desk'.attempt /\ UNCHANGED calls
    BY <1>1, <1>4 DEF Moves, DeskOK
  <2> QED
    BY <1>1, <2>1, CallsStayOK DEF ShapeInv, DeskOK
<1>5. CASE UNCHANGED calls /\ Reviews
  <2> DEFINE b == Begun(desk, "review", <<>>, desk.presses + 1)
  <2>1. b.review \in Nat /\ b.stamp \in DeskStamp
    BY <1>1, BegunFields DEF FlagsOK, DeskOK
  <2>2. Says(Phase("ready", b), desk.attempt, desk.acked)
    BY <1>5 DEF Reviews
  <2> HIDE DEF b
  <2>3. SaidOK(Phase("ready", b))
    BY <2>1, PhaseOK DEF Kinds
  <2> QED
    BY <1>1, <1>2, <1>5, <2>2, <2>3 DEF DeskOK
<1>6. CASE UNCHANGED calls /\ Ticks
  <2>1. desk.phase.review \in Nat /\ Says(desk.stored, desk.attempt, desk.phase.review)
    BY <1>1, <1>6 DEF Ticks, DeskOK, SaidOK
  <2> QED
    BY <1>1, <1>2, <1>6, <2>1 DEF DeskOK
<1>7. CASE UNCHANGED calls /\ PutsAway
  BY <1>1, <1>2, <1>7 DEF PutsAway, DeskOK
<1>8. ASSUME NEW c, Checks(c) PROVE DeskOK(desk') /\ \A k \in calls' : CallOK(desk', k)
  <2>1. /\ c.step = "read" /\ c.attempt = desk.attempt + 1 /\ c.stamp = desk.stamp
        /\ c.review = desk.attempt + 1
    BY <1>8, BegunFields DEF Checks
  <2>2. c.review \in Nat /\ c.stamp \in DeskStamp /\ c.stamp # None
    BY <1>1, <1>8, <2>1 DEF Checks, DeskOK
  <2>3. SaidOK(Phase("checking", c))
    BY <2>2, PhaseOK DEF Kinds
  <2>4. DeskOK(desk') /\ \A k \in calls : CallOK(desk', k)
    BY <1>1, <1>2, <1>8, <2>3 DEF Checks, DeskOK
  <2>5. desk'.attempt = desk.attempt + 1
    BY <1>8 DEF Checks, Says
  <2>6. CallOK(desk', c)
    BY <1>1, <2>1, <2>2, <2>5 DEF CallOK, DeskOK
  <2>7. ASSUME NEW k \in Forgotten PROVE CallOK(desk', k)
    BY <2>4, ForgottenIsSame DEF CallOK, SameCall
  <2> QED
    BY <1>8, <2>4, <2>6, <2>7 DEF Checks
<1>9. ASSUME NEW c, Submits(c) PROVE DeskOK(desk') /\ \A k \in calls' : CallOK(desk', k)
  <2>1. /\ c.step = "accounts" /\ c.attempt = desk.attempt + 1 /\ c.stamp = desk.stamp
        /\ c.review = desk.phase.review
    BY <1>9, BegunFields DEF Submits
  <2>2. c.review \in Nat /\ c.stamp \in DeskStamp /\ c.stamp # None
    BY <1>1, <1>9, <2>1 DEF Submits, DeskOK, SaidOK
  <2>3. SaidOK(Phase("sending", c))
    BY <2>2, PhaseOK DEF Kinds
  <2>4. DeskOK(desk') /\ \A k \in calls : CallOK(desk', k)
    BY <1>1, <1>2, <1>9, <2>3 DEF Submits, DeskOK
  <2>5. desk'.attempt = desk.attempt + 1
    BY <1>9 DEF Submits, Says
  <2>6. CallOK(desk', c)
    BY <1>1, <2>1, <2>2, <2>5 DEF CallOK, DeskOK
  <2> QED
    BY <1>9, <2>4, <2>6 DEF Submits
<1>10. ASSUME NEW c, NEW k, Hears(c, k) PROVE DeskOK(desk') /\ \A e \in calls' : CallOK(desk', e)
  <2>1. c \in calls /\ CallOK(desk, c) /\ SameCall(c, k)
    BY <1>10 DEF Hears, ShapeInv
  <2>2. CASE GoesOn(c, k)
    <3>1. CallOK(desk, k)
      BY <2>1, <2>2 DEF GoesOn, CallOK, SameCall
    <3> QED
      BY <1>1, <2>2, <3>1 DEF GoesOn, ShapeInv
  <2>3. ASSUME NEW kind, Ends(c, k, kind) PROVE DeskOK(desk') /\ \A e \in calls' : CallOK(desk', e)
    <3>1. kind \in Kinds
      BY <2>3 DEF Ends, Kinds
    <3>2. SaidOK(Phase(kind, k))
      BY <2>1, <3>1, PhaseOK DEF SameCall, CallOK
    <3> DEFINE said == IF Live(c) THEN Phase(kind, k) ELSE desk.stored
    <3>3. SaidOK(said)
      BY <1>1, <3>2 DEF DeskOK
    <3>4. Says(said, desk.attempt, desk.acked) /\ calls' = calls \ {c}
      BY <2>3 DEF Ends
    <3> HIDE DEF said
    <3> QED
      BY <1>1, <1>2, <3>3, <3>4 DEF DeskOK
  <2> QED
    BY <1>10, <2>2, <2>3 DEF Hears
<1> QED
  BY <1>3, <1>4, <1>5, <1>6, <1>7, <1>8, <1>9, <1>10, DeskDoes

LEMMA ShapeKept == ASSUME WalletInv, SendInv, MomentInv, ShapeInv, [Next]_vars PROVE ShapeInv'
<1>1. CASE DeskStep
  BY <1>1, BlocksKept, FlagsKept, ShapeOfDesk DEF DeskStep, ShapeInv
<1>2. CASE PanelStep \/ WalletStep \/ ReceiptStep \/ GateStep \/ UNCHANGED vars
  <2>1. UNCHANGED deskVars
    BY <1>2 DEF PanelStep, WalletStep, ReceiptStep, GateStep, vars
  <2> QED
    BY <2>1 DEF deskVars, ShapeInv
<1> QED
  BY <1>1, <1>2 DEF Next

LEMMA InitShape == Init => ShapeInv
<1> SUFFICES ASSUME Init PROVE ShapeInv
  OBVIOUS
<1>1. PICK kind \in Controls \cup {"panel", "receipt", "reads"} : DeskInit(kind)
  BY DEF Init
<1>2. PICK row \in Matching, s \in Beginnings[kind] :
        desk = NewDesk(kind, row) /\ blocks = <<s>> /\ calls = {}
  BY <1>1 DEF DeskInit
<1>3. row \in Row /\ s \in Proposal
  BY <1>2, DeskAssumption, SceneAssumption
<1>4. blocks \in Seq(Proposal) /\ Len(blocks) \in 1 .. MaxBlocks
  BY <1>2, <1>3, DeskAssumption
<1> DEFINE stamp == Stamp(hook.state, row)
           listed == kind # "submit"
           open  == GateIsOpen(hook.state, listed)
<1>5. hook.state \in State
  BY InitWallet DEF WalletInv, HookOK
<1>6. stamp \in DeskStamp /\ (open => stamp # None) /\ open \in BOOLEAN /\ listed \in BOOLEAN
  BY <1>3, <1>5, StampIsOne DEF GateIsOpen
<1>7. desk = [kind |-> kind, row |-> row, attempt |-> 1, sending |-> FALSE, mounted |-> TRUE,
              stored |-> Idle, stamp |-> stamp, pending |-> FALSE, acked |-> 0, listed |-> listed,
              phase |-> Idle, open |-> open, presses |-> 0, visit |-> 0, moves |-> 0]
  BY <1>2 DEF NewDesk
<1> HIDE DEF stamp, listed, open
<1>8. FlagsOK(desk) /\ DeskOK(desk)
  BY <1>3, <1>6, <1>7, IdleOK DEF FlagsOK, DeskOK
<1> QED
  BY <1>2, <1>4, <1>8 DEF ShapeInv

\* ScreenTypeOK, for any accounts, chains, rows and bounds.
THEOREM ScreenTypes == Spec => []ScreenTypeOK
<1> DEFINE Inv == WalletInv /\ SendInv /\ MomentInv /\ ShapeInv
<1>1. Init => Inv
  BY InitWallet, InitSends, InitMoments, InitShape
<1>2. Inv /\ [Next]_vars => Inv'
  BY WalletKept, SendsKept, MomentsKept, ShapeKept
<1>3. Inv => ScreenTypeOK
  <2> SUFFICES ASSUME Inv PROVE ScreenTypeOK
    OBVIOUS
  <2>1. WalletTypeOK
    <3>1. \A i \in 1 .. Len(news) : news[i] \in News
      BY DEF WalletInv
    <3>2. \A n \in News : n.kind \in {"accountsChanged", "chainChanged", "disconnect"}
      BY DEF News
    <3> QED
      BY <3>1, <3>2 DEF WalletInv, IsWallet, HookOK, AskOK, WalletTypeOK
  <2>2. DeskTypeOK
    BY DEF ShapeInv, FlagsOK, DeskOK, SaidOK, CallOK, Kinds, DeskTypeOK
  <2> QED
    BY <2>1, <2>2 DEF ScreenTypeOK
<1> QED
  BY <1>1, <1>2, <1>3, PTL DEF Spec

-----------------------------------------------------------------------------
(* The evidence of an execution and of a status is what one block held.  The *)
(* blocks are a parameter: what is said of some holds when more are mined.   *)

Grown(bs, cs) == Len(bs) <= Len(cs) /\ \A i \in 1 .. Len(bs) : cs[i] = bs[i]

\* Every fact was read at the block that was read first, or could not be read.
OfBlock(bs, facts, stamp) ==
    \A r \in DOMAIN facts :
        IF r = "block" THEN facts[r] \in Nat \ {0}
        ELSE \/ facts[r] = Unreadable
             \/ /\ "block" \in DOMAIN facts /\ facts["block"] \in 1 .. Len(bs)
                /\ facts[r] = Held(r, stamp.account, stamp.row, bs[facts["block"]])

\* What is said of an execution, and of a status, against that block.
Backed(bs, p) ==
    /\ p.facts["block"] \in 1 .. Len(bs)
    /\ Accepts("execute", p.stamp.account, bs[p.facts["block"]])

Known(bs, facts) ==
    /\ facts["block"] \in 1 .. Len(bs)
    /\ facts["count"] = bs[facts["block"]].held
    /\ facts["count"] => /\ facts["proposal"].executed = bs[facts["block"]].executed
                         /\ Confirmations(facts) = bs[facts["block"]].confirmed

Offered == {"ready", "sending", "sent"}

DeskEvidence(bs, d) ==
    /\ d.kind = "execute" => /\ d.stored.kind \in Offered => Backed(bs, d.stored)
                             /\ d.phase.kind = "ready" => Backed(bs, d.phase)
    /\ d.kind = "status" => (d.stored.kind = "done" => Known(bs, d.stored.facts))

CallEvidence(bs, kind, c) ==
    /\ Anchored(kind) /\ c.step = "read"
       => /\ OfBlock(bs, c.facts, c.stamp)
          /\ Unread(kind, c.facts) # {} /\ ~Malformed(kind, c.facts)
    /\ kind = "execute" /\ c.step # "read" => Backed(bs, c)

EvidenceInv == DeskEvidence(blocks, desk) /\ \A c \in calls : CallEvidence(blocks, desk.kind, c)

LEMMA MiningKeepsEvidence ==
  ASSUME NEW bs, NEW cs, Len(bs) \in Nat, Len(cs) \in Nat, Grown(bs, cs)
  PROVE  /\ \A facts, stamp : OfBlock(bs, facts, stamp) => OfBlock(cs, facts, stamp)
         /\ \A p : Backed(bs, p) => Backed(cs, p)
         /\ \A facts : Known(bs, facts) => Known(cs, facts)
<1>1. \A i \in 1 .. Len(bs) : i \in 1 .. Len(cs) /\ cs[i] = bs[i]
  BY DEF Grown
<1>2. ASSUME NEW facts, NEW stamp, OfBlock(bs, facts, stamp) PROVE OfBlock(cs, facts, stamp)
  BY <1>1, <1>2 DEF OfBlock
<1>3. ASSUME NEW p, Backed(bs, p) PROVE Backed(cs, p)
  BY <1>1, <1>3 DEF Backed
<1>4. ASSUME NEW facts, Known(bs, facts) PROVE Known(cs, facts)
  BY <1>1, <1>4 DEF Known
<1> QED
  BY <1>2, <1>3, <1>4

LEMMA Least == ASSUME NEW S, S \subseteq Nat, S # {} PROVE \E i \in S : \A j \in S : i <= j
<1> DEFINE R == OpToRel(<, Nat)
<1>1. IsWellFoundedOn(R, Nat)
  BY NatLessThanWellFounded
<1>2. \A i, j \in Nat : i < j => <<i, j>> \in R
  BY DEF OpToRel
<1> HIDE DEF R
<1>3. PICK i \in S : \A j \in S : ~(<<j, i>> \in R)
  BY <1>1, WFMin
<1>4. ASSUME NEW j \in S PROVE i <= j
  <2>1. i \in Nat /\ j \in Nat /\ ~(j < i)
    BY <1>2, <1>3
  <2> QED
    BY <2>1
<1> QED
  BY <1>4

\* What is held of each fact.
LEMMA HeldIs ==
  ASSUME NEW account, NEW row, NEW s
  PROVE  /\ Held("isOwner", account, row, s) = (account \in Owner)
         /\ Held("count", account, row, s) = s.held
         /\ Held("proposal", account, row, s).executed = s.executed
         /\ Held("owners", account, row, s) = Owners
         /\ Held("threshold", account, row, s) = Threshold
<1>1. \A r \in Fact : r \notin Owner
  BY FactAssumption
<1>2. "isOwner" \in Fact /\ "count" \in Fact /\ "proposal" \in Fact /\ "owners" \in Fact
      /\ "threshold" \in Fact
  BY DEF Fact
<1> QED
  BY <1>1, <1>2 DEF Held

\* A plan names these facts.
LEMMA PlanHas ==
  ASSUME NEW kind \in {"execute", "status"}, NEW facts, Planned(kind, facts)
  PROVE  /\ {"block", "count", "proposal", "owners", "threshold"} \subseteq DOMAIN facts
         /\ kind = "execute" => "isOwner" \in DOMAIN facts
<1>1. CASE kind = "execute"
  <2>1. /\ Len(Plan(kind)) = 6 /\ Plan(kind)[1] = "block" /\ Plan(kind)[2] = "isOwner"
        /\ Plan(kind)[3] = "count" /\ Plan(kind)[4] = "proposal" /\ Plan(kind)[5] = "owners"
        /\ Plan(kind)[6] = "threshold"
    BY <1>1 DEF Plan
  <2>2. \A i \in 1 .. 6 : Plan(kind)[i] \in DOMAIN facts
    BY <2>1 DEF Planned
  <2> QED
    BY <2>1, <2>2
<1>2. CASE kind = "status"
  <2>1. /\ Len(Plan(kind)) = 5 /\ Plan(kind)[1] = "block" /\ Plan(kind)[2] = "count"
        /\ Plan(kind)[3] = "proposal" /\ Plan(kind)[4] = "owners" /\ Plan(kind)[5] = "threshold"
    BY <1>2 DEF Plan
  <2>2. \A i \in 1 .. 5 : Plan(kind)[i] \in DOMAIN facts
    BY <2>1 DEF Planned
  <2> QED
    BY <1>2, <2>1, <2>2
<1> QED
  BY <1>1, <1>2

LEMMA PlanIs ==
  ASSUME NEW kind \in {"execute", "status"}
  PROVE  Plan(kind) \in Seq(Fact) /\ Len(Plan(kind)) >= 1 /\ Plan(kind)[1] = "block"
<1>1. CASE kind = "execute"
  <2>1. Plan(kind) = <<"block", "isOwner", "count", "proposal", "owners", "threshold">>
    BY <1>1 DEF Plan
  <2> QED
    BY <2>1 DEF Fact
<1>2. CASE kind = "status"
  <2>1. Plan(kind) = <<"block", "count", "proposal", "owners", "threshold">>
    BY <1>2 DEF Plan
  <2> QED
    BY <2>1 DEF Fact
<1> QED
  BY <1>1, <1>2

\* What is read after the owners.
LEMMA LastIs ==
  ASSUME NEW kind
  PROVE  (IF kind = "status" THEN <<"isOwner">> ELSE <<>>) \in Seq(Fact)
<1>1. <<"isOwner">> \in Seq(Fact) /\ <<>> \in Seq(Fact)
  BY DEF Fact
<1> QED
  BY <1>1

\* Facts that are all readable are what the block held.
LEMMA ReadableIs ==
  ASSUME NEW kind \in {"execute", "status"}, NEW bs, NEW facts, NEW stamp,
         OfBlock(bs, facts, stamp), Planned(kind, facts), ~Malformed(kind, facts)
  PROVE  /\ facts["block"] \in 1 .. Len(bs)
         /\ \A r \in DOMAIN facts : r # "block" =>
                facts[r] = Held(r, stamp.account, stamp.row, bs[facts["block"]])
         /\ facts["owners"] = Owners
<1>1. {"block", "count", "owners"} \subseteq DOMAIN facts
  BY PlanHas
<1>2. \A r \in DOMAIN facts : facts[r] # Unreadable
  BY DEF Malformed
<1>3. \A r \in DOMAIN facts : r # "block" =>
         /\ facts["block"] \in 1 .. Len(bs)
         /\ facts[r] = Held(r, stamp.account, stamp.row, bs[facts["block"]])
  BY <1>2 DEF OfBlock
<1>4. facts["owners"] = Held("owners", stamp.account, stamp.row, bs[facts["block"]])
  BY <1>1, <1>3
<1> QED
  BY <1>1, <1>3, <1>4, HeldIs

\* The next read is one that has not been made; the block comes first.
LEMMA NextReadIs ==
  ASSUME NEW kind \in {"execute", "status"}, NEW facts, Unread(kind, facts) # {},
         Planned(kind, facts) => facts["owners"] = Owners
  PROVE  /\ NextRead(kind, facts) \notin DOMAIN facts
         /\ "block" \notin DOMAIN facts => NextRead(kind, facts) = "block"
<1> DEFINE U == Unread(kind, facts)
           list == Reads(kind, facts)
<1>1. U = {i \in 1 .. Len(list) : list[i] \notin DOMAIN facts}
  BY DEF Unread
<1>2. /\ Len(list) \in Nat /\ Len(list) >= 1 /\ list[1] = "block"
  <2>1. Plan(kind) \in Seq(Fact) /\ Len(Plan(kind)) >= 1 /\ Plan(kind)[1] = "block"
    BY PlanIs
  <2> DEFINE last == IF kind = "status" THEN <<"isOwner">> ELSE <<>>
             rest == IF ~Anchored(kind) \/ ~Planned(kind, facts) THEN <<>>
                     ELSE facts["owners"] \o last
  <2>4. last \in Seq(Fact) /\ Owners \in Seq(Owner)
    BY LastIs, DeskAssumption DEF Owner
  <2> HIDE DEF last
  <2>2. rest \in Seq(Owner \cup Fact)
    BY <2>4
  <2>3. list = Plan(kind) \o rest
    BY DEF Reads, last
  <2> HIDE DEF rest, list
  <2> QED
    BY <2>1, <2>2, <2>3
<1> DEFINE m == CHOOSE i \in U : \A j \in U : i <= j
<1>3. m \in U /\ \A j \in U : m <= j
  <2>1. U \subseteq Nat
    BY <1>1, <1>2
  <2> HIDE DEF U
  <2>2. \E i \in U : \A j \in U : i <= j
    BY <2>1, Least DEF U
  <2> QED
    BY <2>2
<1>4. NextRead(kind, facts) = list[m]
  BY DEF NextRead
<1> HIDE DEF m, U, list
<1>5. list[m] \notin DOMAIN facts
  BY <1>1, <1>3
<1>6. ASSUME "block" \notin DOMAIN facts PROVE list[m] = "block"
  <2>1. 1 \in U
    BY <1>1, <1>2, <1>6
  <2>2. m = 1
    BY <1>1, <1>2, <1>3, <2>1
  <2> QED
    BY <1>2, <2>2
<1> QED
  BY <1>4, <1>5, <1>6

\* The facts of a read that could be decoded so far.
LEMMA FactsFit ==
  ASSUME blocks \in Seq(Proposal), Len(blocks) >= 1,
         NEW kind \in {"execute", "status"}, NEW facts, NEW stamp, OfBlock(blocks, facts, stamp),
         Unread(kind, facts) # {}, ~Malformed(kind, facts),
         NEW said \in Replies(NextRead(kind, facts), stamp.account, stamp.row, facts),
         said # Failed
  PROVE  LET g == Learned(facts, NextRead(kind, facts), said)
         IN  Outcome(kind, g) # "refused" => OfBlock(blocks, g, stamp)
<1> DEFINE read == NextRead(kind, facts)
           g    == Learned(facts, read, said)
<1>1. Len(blocks) \in Nat
  OBVIOUS
<1>2. read \notin DOMAIN facts /\ ("block" \notin DOMAIN facts => read = "block")
  BY NextReadIs, ReadableIs
<1>3. said \in Replies(read, stamp.account, stamp.row, facts)
  OBVIOUS
<1> HIDE DEF read
<1>4. /\ DOMAIN g = DOMAIN facts \cup {read} /\ g[read] = said
      /\ \A r \in DOMAIN facts : g[r] = facts[r]
  BY <1>2 DEF Learned
<1> HIDE DEF g
<1>5. CASE read = "block"
  <2>1. said = Unreadable \/ said \in Nat \ {0}
    BY <1>1, <1>3, <1>5, DeskAssumption DEF Replies
  <2>2. \A r \in DOMAIN facts : r # "block" /\ facts[r] = Unreadable
    BY <1>2, <1>5 DEF OfBlock
  <2>3. said = Unreadable => Outcome(kind, g) = "refused"
    BY <1>4, <1>5 DEF Outcome, Malformed
  <2>4. said \in Nat \ {0} => OfBlock(blocks, g, stamp)
    BY <1>4, <1>5, <2>2 DEF OfBlock
  <2> QED
    BY <2>1, <2>3, <2>4 DEF g, read
<1>6. CASE read # "block"
  <2>1. "block" \in DOMAIN facts /\ facts["block"] \in Nat \ {0}
    BY <1>2, <1>6 DEF OfBlock
  <2> DEFINE held == Held(read, stamp.account, stamp.row, blocks[facts["block"]])
  <2>2. said = Unreadable \/ (facts["block"] \in 1 .. Len(blocks) /\ said = held)
    <3>1. At(facts) = facts["block"]
      BY <2>1 DEF At
    <3> QED
      BY <1>1, <1>3, <1>6, <2>1, <3>1 DEF Replies
  <2> HIDE DEF held
  <2>3. g["block"] = facts["block"] /\ "block" \in DOMAIN g
    BY <1>4, <2>1
  <2>4. OfBlock(blocks, g, stamp)
    <3> SUFFICES ASSUME NEW r \in DOMAIN g
                 PROVE  IF r = "block" THEN g[r] \in Nat \ {0}
                        ELSE \/ g[r] = Unreadable
                             \/ /\ "block" \in DOMAIN g /\ g["block"] \in 1 .. Len(blocks)
                                /\ g[r] = Held(r, stamp.account, stamp.row, blocks[g["block"]])
      BY DEF OfBlock
    <3>1. CASE r = read
      BY <1>4, <1>6, <2>2, <2>3, <3>1 DEF held
    <3>2. CASE r # read
      <4>1. r \in DOMAIN facts /\ g[r] = facts[r]
        BY <1>4, <3>2
      <4> QED
        BY <2>3, <4>1 DEF OfBlock
    <3> QED
      BY <3>1, <3>2
  <2> QED
    BY <2>4 DEF g, read
<1> QED
  BY <1>5, <1>6

\* With nothing left to read, every planned fact and every owner has been read.
LEMMA AllIsRead ==
  ASSUME NEW kind \in {"execute", "status"}, NEW facts, Unread(kind, facts) = {},
         Planned(kind, facts) => facts["owners"] = Owners
  PROVE  Planned(kind, facts) /\ Owner \subseteq DOMAIN facts
<1>1. Anchored(kind)
  BY DEF Anchored
<1>2. \A i \in 1 .. Len(Reads(kind, facts)) : Reads(kind, facts)[i] \in DOMAIN facts
  BY DEF Unread
<1>3. Plan(kind) \in Seq(Fact) /\ Len(Plan(kind)) \in Nat
  BY PlanIs
<1>4. Planned(kind, facts)
  <2> SUFFICES ASSUME ~Planned(kind, facts) PROVE FALSE
    OBVIOUS
  <2>1. Reads(kind, facts) = Plan(kind)
    BY <1>1, <1>3 DEF Reads
  <2> QED
    BY <1>2, <2>1 DEF Planned
<1>5. facts["owners"] = Owners
  BY <1>4
<1>6. Owners \in Seq(Owner)
  BY DeskAssumption DEF Owner
<1> DEFINE tail == IF kind = "status" THEN <<"isOwner">> ELSE <<>>
           rest == Owners \o tail
<1>7. tail \in Seq(Fact)
  BY LastIs
<1>8. Reads(kind, facts) = Plan(kind) \o rest
  BY <1>1, <1>4, <1>5 DEF Reads
<1> HIDE DEF tail
<1>9. rest \in Seq(Owner \cup Fact) /\ Len(rest) >= Len(Owners)
      /\ \A i \in 1 .. Len(Owners) : rest[i] = Owners[i]
  BY <1>6, <1>7
<1> HIDE DEF rest
<1>10. ASSUME NEW i \in 1 .. Len(Owners) PROVE Owners[i] \in DOMAIN facts
  <2> DEFINE n == Len(Plan(kind)) + i
             list == Reads(kind, facts)
  <2>1. Len(Owners) \in Nat /\ Len(rest) \in Nat
    BY <1>6, <1>9
  <2>2. list = Plan(kind) \o rest
    BY <1>8
  <2>3. i \in 1 .. Len(rest) /\ rest[i] = Owners[i]
    BY <1>9, <2>1
  <2> HIDE DEF list
  <2>4. n \in 1 .. Len(list) /\ list[n] = rest[i]
    BY <1>3, <1>9, <2>1, <2>2, <2>3
  <2> QED
    BY <1>2, <2>3, <2>4 DEF list
<1> QED
  BY <1>4, <1>10 DEF Owner

\* The confirmations counted are those of the block, once every owner has been read.
LEMMA CountIsOfTheBlock ==
  ASSUME NEW kind \in {"execute", "status"}, NEW bs \in Seq(Proposal), NEW facts, NEW stamp,
         OfBlock(bs, facts, stamp), Unread(kind, facts) = {}, ~Malformed(kind, facts)
  PROVE  /\ Planned(kind, facts) /\ facts["block"] \in 1 .. Len(bs)
         /\ Confirmations(facts) = bs[facts["block"]].confirmed
<1>1. Planned(kind, facts) => facts["owners"] = Owners
  BY ReadableIs
<1>2. Planned(kind, facts) /\ Owner \subseteq DOMAIN facts
  BY <1>1, AllIsRead
<1> DEFINE s == bs[facts["block"]]
<1>3. /\ facts["block"] \in 1 .. Len(bs)
      /\ \A r \in DOMAIN facts : r # "block" =>
             facts[r] = Held(r, stamp.account, stamp.row, s)
  BY <1>2, ReadableIs
<1>4. s \in Proposal
  BY <1>3
<1> HIDE DEF s
<1>5. \A o \in Owner : o # "block" /\ o \in DOMAIN facts
  BY <1>2, FactAssumption DEF Fact
<1>6. ASSUME NEW o \in Owner PROVE facts[o] <=> o \in s.confirmed
  <2>1. facts[o] = Held(o, stamp.account, stamp.row, s)
    BY <1>3, <1>5
  <2>2. Held(o, stamp.account, stamp.row, s) = (o \in s.confirmed)
    BY DEF Held
  <2>3. facts[o] = (o \in s.confirmed)
    BY <2>1, <2>2, Zenon
  <2> QED
    BY <2>3
<1>7. s.confirmed \subseteq Owner
  BY <1>4 DEF Proposal
<1>8. Confirmations(facts) = s.confirmed
  BY <1>5, <1>6, <1>7 DEF Confirmations
<1> QED
  BY <1>2, <1>3, <1>8 DEF s

LEMMA ReadyIsBacked ==
  ASSUME NEW bs \in Seq(Proposal), NEW facts, NEW stamp, OfBlock(bs, facts, stamp),
         Outcome("execute", facts) = "ready", NEW p, p.facts = facts, p.stamp = stamp
  PROVE  Backed(bs, p)
<1>1. Unread("execute", facts) = {} /\ ~Malformed("execute", facts) /\ Allowed("execute", facts)
  BY DEF Outcome
<1>2. /\ Planned("execute", facts) /\ facts["block"] \in 1 .. Len(bs)
      /\ Confirmations(facts) = bs[facts["block"]].confirmed
  BY <1>1, CountIsOfTheBlock
<1>3. {"isOwner", "count", "proposal", "threshold"} \subseteq DOMAIN facts
  BY <1>2, PlanHas
<1> DEFINE s == bs[facts["block"]]
<1>4. \A r \in DOMAIN facts : r # "block" => facts[r] = Held(r, stamp.account, stamp.row, s)
  BY <1>1, <1>2, ReadableIs
<1> HIDE DEF s
<1>5. /\ facts["isOwner"] = (stamp.account \in Owner) /\ facts["count"] = s.held
      /\ facts["proposal"].executed = s.executed /\ facts["threshold"] = Threshold
  <2>1. /\ facts["isOwner"] = Held("isOwner", stamp.account, stamp.row, s)
        /\ facts["count"] = Held("count", stamp.account, stamp.row, s)
        /\ facts["proposal"] = Held("proposal", stamp.account, stamp.row, s)
        /\ facts["threshold"] = Held("threshold", stamp.account, stamp.row, s)
    BY <1>3, <1>4
  <2> QED
    BY <2>1, HeldIs
<1>6. MayExecute(facts)
  BY <1>1 DEF Allowed
<1>7. /\ stamp.account \in Owner /\ s.held /\ ~s.executed /\ Cardinality(s.confirmed) >= Threshold
  BY <1>2, <1>5, <1>6 DEF MayExecute, s
<1>8. Accepts("execute", stamp.account, s)
  BY <1>7 DEF Accepts
<1> QED
  BY <1>2, <1>8 DEF Backed, s

LEMMA DoneIsKnown ==
  ASSUME NEW bs \in Seq(Proposal), NEW facts, NEW stamp, OfBlock(bs, facts, stamp),
         Outcome("status", facts) = "done"
  PROVE  Known(bs, facts)
<1>1. StatusIsKnown(facts) /\ ~Malformed("status", facts)
  BY DEF Outcome
<1>2. ASSUME "count" \in DOMAIN facts
      PROVE  /\ facts["block"] \in 1 .. Len(bs)
             /\ facts["count"] = bs[facts["block"]].held
  <2>1. facts["count"] # Unreadable
    BY <1>1, <1>2 DEF Malformed
  <2>2. /\ facts["block"] \in 1 .. Len(bs)
        /\ facts["count"] = Held("count", stamp.account, stamp.row, bs[facts["block"]])
    BY <1>2, <2>1 DEF OfBlock
  <2> QED
    BY <2>2, HeldIs
<1>3. CASE Unread("status", facts) = {}
  <2>1. /\ Planned("status", facts) /\ facts["block"] \in 1 .. Len(bs)
        /\ Confirmations(facts) = bs[facts["block"]].confirmed
    BY <1>1, <1>3, CountIsOfTheBlock
  <2>2. "count" \in DOMAIN facts /\ "proposal" \in DOMAIN facts
    BY <2>1, PlanHas
  <2>3. facts["proposal"] = Held("proposal", stamp.account, stamp.row, bs[facts["block"]])
    BY <1>1, <2>1, <2>2, ReadableIs
  <2> QED
    BY <1>2, <2>1, <2>2, <2>3, HeldIs DEF Known
<1>4. CASE "count" \in DOMAIN facts /\ ~facts["count"]
  BY <1>2, <1>4 DEF Known
<1> QED
  BY <1>1, <1>3, <1>4 DEF StatusIsKnown

-----------------------------------------------------------------------------
\* Before anything is read there is something to read.
LEMMA NothingIsRead ==
  ASSUME NEW kind \in {"execute", "status"}, NEW bs, NEW stamp
  PROVE  OfBlock(bs, <<>>, stamp) /\ Unread(kind, <<>>) # {} /\ ~Malformed(kind, <<>>)
<1>1. DOMAIN <<>> = {}
  OBVIOUS
<1>2. OfBlock(bs, <<>>, stamp)
  BY <1>1 DEF OfBlock
<1>3. Plan(kind) \in Seq(Fact) /\ Len(Plan(kind)) >= 1 /\ Len(Plan(kind)) \in Nat
  BY PlanIs
<1>4. ~Planned(kind, <<>>)
  BY <1>1, <1>3 DEF Planned
<1>5. Reads(kind, <<>>) = Plan(kind)
  BY <1>3, <1>4 DEF Reads
<1>6. 1 \in Unread(kind, <<>>)
  BY <1>1, <1>3, <1>5 DEF Unread
<1>7. ~Malformed(kind, <<>>)
  BY <1>1, <1>4 DEF Malformed
<1> QED
  BY <1>2, <1>6, <1>7

LEMMA AskingKeepsEvidence ==
  ASSUME SendInv, ReviewInv, EvidenceInv, (\E c : Checks(c)) \/ (\E c : Submits(c))
  PROVE  DeskEvidence(blocks, desk') /\ \A k \in calls' : CallEvidence(blocks, desk'.kind, k)
<1>1. ASSUME NEW c, Checks(c)
      PROVE  DeskEvidence(blocks, desk') /\ \A k \in calls' : CallEvidence(blocks, desk'.kind, k)
  <2>1. c.step = "read" /\ c.facts = <<>>
    BY <1>1, BegunFields DEF Checks
  <2> DEFINE p == Phase("checking", c)
  <2>2. p.kind = "checking"
    BY PhaseFields
  <2> HIDE DEF p
  <2>3. /\ desk'.stored = p /\ desk'.phase = desk.phase /\ desk'.kind = desk.kind
        /\ calls' = Forgotten \cup {c}
    BY <1>1 DEF Checks, Says, SameRender, p
  <2>4. ASSUME NEW k, k.step = "read", k.facts = <<>> PROVE CallEvidence(blocks, desk.kind, k)
    BY <2>4, NothingIsRead DEF CallEvidence, Anchored
  <2>5. ASSUME NEW k \in Forgotten PROVE CallEvidence(blocks, desk.kind, k)
    <3>1. PICK e \in calls : k = IF e.step = "read" THEN [e EXCEPT !.facts = <<>>] ELSE e
      BY DEF Forgotten
    <3>2. CASE e.step = "read"
      <4>1. k.step = "read" /\ k.facts = <<>>
        BY <3>1, <3>2 DEF SendInv, IsCall, CallField
      <4> QED
        BY <2>4, <4>1
    <3>3. CASE e.step # "read"
      BY <3>1, <3>3 DEF EvidenceInv
    <3> QED
      BY <3>2, <3>3
  <2>6. DeskEvidence(blocks, desk')
    BY <2>2, <2>3 DEF EvidenceInv, DeskEvidence, Offered
  <2> QED
    BY <2>1, <2>3, <2>4, <2>5, <2>6
<1>2. ASSUME NEW c, Submits(c)
      PROVE  DeskEvidence(blocks, desk') /\ \A k \in calls' : CallEvidence(blocks, desk'.kind, k)
  <2>1. c.step = "accounts" /\ c.facts = desk.phase.facts /\ c.stamp = desk.stamp
    BY <1>2, BegunFields DEF Submits
  <2> DEFINE p == Phase("sending", c)
  <2>2. p.kind = "sending" /\ p.facts = c.facts /\ p.stamp = c.stamp
    BY PhaseFields
  <2> HIDE DEF p
  <2>3. /\ desk'.stored = p /\ desk'.phase = desk.phase /\ desk'.kind = desk.kind
        /\ calls' = calls \cup {c} /\ desk.phase.kind = "ready"
    BY <1>2 DEF Submits, Says, SameRender, p
  <2>4. desk.phase.stamp = desk.stamp
    BY <2>3 DEF ReviewInv, DeskReviewed, Idle
  <2>5. desk.kind = "execute" => Backed(blocks, desk.phase)
    BY <2>3 DEF EvidenceInv, DeskEvidence
  <2>6. desk.kind = "execute" => Backed(blocks, c) /\ Backed(blocks, p)
    BY <2>1, <2>2, <2>4, <2>5 DEF Backed
  <2>7. DeskEvidence(blocks, desk')
    BY <2>2, <2>3, <2>6 DEF EvidenceInv, DeskEvidence
  <2>8. CallEvidence(blocks, desk.kind, c)
    BY <2>1, <2>6 DEF CallEvidence
  <2> QED
    BY <2>3, <2>7, <2>8 DEF EvidenceInv
<1> QED
  BY <1>1, <1>2

LEMMA LookingKeepsEvidence ==
  ASSUME SendInv, EvidenceInv, blocks' \in Seq(Proposal), blocks \in Seq(Proposal),
         Grown(blocks, blocks'),
         \/ \E stamp, moved : Draws(stamp, moved)
         \/ Moves
         \/ UNCHANGED calls /\ (Reviews \/ Ticks \/ PutsAway)
  PROVE  EvidenceInv'
<1>1. /\ \A facts, stamp : OfBlock(blocks, facts, stamp) => OfBlock(blocks', facts, stamp)
      /\ \A p : Backed(blocks, p) => Backed(blocks', p)
      /\ \A facts : Known(blocks, facts) => Known(blocks', facts)
  BY MiningKeepsEvidence
<1>2. \A c \in calls : CallEvidence(blocks', desk.kind, c)
  BY <1>1 DEF EvidenceInv, CallEvidence
<1>3. DeskEvidence(blocks', desk)
  BY <1>1 DEF EvidenceInv, DeskEvidence
<1>4. Idle.kind = "idle"
  BY DEF Idle
<1>5. ASSUME UNCHANGED calls, desk'.kind = desk.kind,
             \/ desk'.stored \in {desk.stored, Idle}
             \/ desk.kind = "submit",
             desk'.phase \in {desk.phase, Idle, desk.stored}
      PROVE  EvidenceInv'
  <2>1. desk.kind = "submit" \/ DeskEvidence(blocks', desk')
    BY <1>3, <1>4, <1>5 DEF DeskEvidence, Offered
  <2>2. desk.kind = "submit" => DeskEvidence(blocks', desk')
    BY <1>5 DEF DeskEvidence
  <2> QED
    BY <1>2, <1>5, <2>1, <2>2 DEF EvidenceInv
<1>6. ASSUME NEW stamp, NEW moved, Draws(stamp, moved) PROVE EvidenceInv'
  BY <1>5, <1>6 DEF Draws
<1>7. CASE Moves
  BY <1>5, <1>7 DEF Moves
<1>8. CASE UNCHANGED calls /\ (Reviews \/ Ticks \/ PutsAway)
  BY <1>5, <1>8 DEF Reviews, Ticks, PutsAway, Says, SameRender
<1> QED
  BY <1>6, <1>7, <1>8

LEMMA ReadingKeepsEvidence ==
  ASSUME SendInv, EvidenceInv, blocks \in Seq(Proposal), Len(blocks) >= 1,
         NEW c, NEW k, HearsFact(c, k)
  PROVE  DeskEvidence(blocks, desk') /\ \A e \in calls' : CallEvidence(blocks, desk'.kind, e)
<1>1. c \in calls /\ c.step = "read" /\ SameCall(c, k)
  BY DEF HearsFact
<1>2. PICK said \in Replies(NextRead(desk.kind, c.facts), c.stamp.account, c.stamp.row, c.facts) :
           /\ k.facts = Learned(c.facts, NextRead(desk.kind, c.facts), said)
           /\ \/ GoesOn(c, k) /\ said # Failed /\ Outcome(desk.kind, k.facts) = "more"
              \/ Ends(c, k, "refused")
              \/ Ends(c, k, Outcome(desk.kind, k.facts)) /\ said # Failed
  BY DEF HearsFact
<1>3. k.stamp = c.stamp
  BY <1>1 DEF SameCall
<1>4. ASSUME Anchored(desk.kind), said # Failed, Outcome(desk.kind, k.facts) # "refused"
      PROVE  OfBlock(blocks, k.facts, k.stamp)
  <2>1. /\ OfBlock(blocks, c.facts, c.stamp) /\ Unread(desk.kind, c.facts) # {}
        /\ ~Malformed(desk.kind, c.facts)
    BY <1>1, <1>4 DEF EvidenceInv, CallEvidence
  <2>2. desk.kind \in {"execute", "status"}
    BY <1>4 DEF Anchored
  <2> QED
    BY <1>2, <1>3, <1>4, <2>1, <2>2, FactsFit
<1>5. CASE GoesOn(c, k) /\ said # Failed /\ Outcome(desk.kind, k.facts) = "more"
  <2>1. Unread(desk.kind, k.facts) # {} /\ ~Malformed(desk.kind, k.facts)
    BY <1>5 DEF Outcome
  <2>2. CallEvidence(blocks, desk.kind, k)
    BY <1>1, <1>4, <1>5, <2>1 DEF CallEvidence, GoesOn
  <2> QED
    BY <1>5, <2>2 DEF GoesOn, EvidenceInv
<1>6. ASSUME NEW kind, Ends(c, k, kind),
             kind = "refused" \/ (kind = Outcome(desk.kind, k.facts) /\ said # Failed)
      PROVE  DeskEvidence(blocks, desk') /\ \A e \in calls' : CallEvidence(blocks, desk'.kind, e)
  <2> DEFINE p == Phase(kind, k)
  <2>1. p.kind = kind /\ p.stamp = k.stamp /\ (kind # "refused" => p.facts = k.facts)
    BY PhaseFields
  <2> HIDE DEF p
  <2>2. /\ Says(IF Live(c) THEN p ELSE desk.stored, desk.attempt, desk.acked)
        /\ calls' = calls \ {c} /\ kind \in {"refused", "done", "ready"}
    BY <1>1, <1>6 DEF Ends, p
  <2>3. desk.kind = "execute" /\ kind = "ready" => Backed(blocks, p)
    BY <1>4, <1>6, <2>1, ReadyIsBacked DEF Anchored
  <2>4. desk.kind = "status" /\ kind = "done" => Known(blocks, p.facts)
    BY <1>4, <1>6, <2>1, DoneIsKnown DEF Anchored
  <2>5. DeskEvidence(blocks, desk')
    BY <2>1, <2>2, <2>3, <2>4 DEF EvidenceInv, DeskEvidence, Offered, Says, SameRender
  <2> QED
    BY <2>2, <2>5 DEF EvidenceInv, Says, SameRender
<1> QED
  BY <1>2, <1>5, <1>6

LEMMA SendingKeepsEvidence ==
  ASSUME SendInv, EvidenceInv, NEW c, NEW k, c.step # "read", k.facts = c.facts, Hears(c, k)
  PROVE  DeskEvidence(blocks, desk') /\ \A e \in calls' : CallEvidence(blocks, desk'.kind, e)
<1>1. c \in calls /\ k.stamp = c.stamp
  BY DEF Hears, SameCall
<1>2. desk.kind = "execute" => Backed(blocks, c) /\ Backed(blocks, k)
  BY <1>1 DEF EvidenceInv, CallEvidence, Backed
<1>3. CASE GoesOn(c, k)
  <2>1. k.step # "read"
    BY <1>3 DEF GoesOn
  <2>2. CallEvidence(blocks, desk.kind, k)
    BY <1>2, <2>1 DEF CallEvidence
  <2> QED
    BY <1>3, <2>2 DEF GoesOn, EvidenceInv
<1>4. ASSUME NEW kind, Ends(c, k, kind)
      PROVE  DeskEvidence(blocks, desk') /\ \A e \in calls' : CallEvidence(blocks, desk'.kind, e)
  <2> DEFINE p == Phase(kind, k)
  <2>1. p.kind = kind /\ p.stamp = k.stamp /\ (kind # "refused" => p.facts = k.facts)
    BY PhaseFields
  <2> HIDE DEF p
  <2>2. /\ Says(IF Live(c) THEN p ELSE desk.stored, desk.attempt, desk.acked)
        /\ calls' = calls \ {c} /\ kind \in {"sent", "failed"}
    BY <1>4 DEF Ends, p
  <2>3. desk.kind = "execute" => Backed(blocks, p)
    BY <1>2, <2>1, <2>2 DEF Backed
  <2>4. DeskEvidence(blocks, desk')
    BY <2>1, <2>2, <2>3 DEF EvidenceInv, DeskEvidence, Offered, Says, SameRender
  <2> QED
    BY <2>2, <2>4 DEF EvidenceInv, Says, SameRender
<1> QED
  BY <1>3, <1>4 DEF Hears

LEMMA EvidenceKept ==
  ASSUME SendInv, ReviewInv, ShapeInv, EvidenceInv, [Next]_vars PROVE EvidenceInv'
<1>1. CASE DeskStep
  <2>1. DeskNext
    BY <1>1 DEF DeskStep
  <2>2. /\ blocks \in Seq(Proposal) /\ Len(blocks) >= 1 /\ blocks' \in Seq(Proposal)
        /\ Grown(blocks, blocks')
    BY <2>1, BlocksKept DEF ShapeInv, Grown
  <2>3. CASE Mine \/ RunEffects \/ CatalogArrives \/ RowChanges \/ PageShows \/ Leave
    BY <2>2, <2>3, MovingDoes, LookingKeepsEvidence
  <2>4. CASE Render
    BY <2>2, <2>4, RenderDraws, LookingKeepsEvidence
  <2>5. CASE PressReview \/ PressTick \/ PressCancel \/ PressBack
    BY <2>2, <2>5, PressesDo, LookingKeepsEvidence
  <2>6. ASSUME UNCHANGED blocks, DeskEvidence(blocks, desk'),
               \A k \in calls' : CallEvidence(blocks, desk'.kind, k)
        PROVE  EvidenceInv'
    BY <2>6 DEF EvidenceInv
  <2>7. CASE PressCheck \/ PressSubmit
    <3>1. UNCHANGED blocks
      BY <2>7 DEF PressCheck, PressSubmit
    <3> QED
      BY <2>6, <2>7, <3>1, PressCheckDoes, PressSubmitDoes, AskingKeepsEvidence
  <2>8. CASE HearRead
    <3>1. UNCHANGED blocks
      BY <2>8 DEF HearRead
    <3> QED
      BY <2>2, <2>6, <2>8, <3>1, HearReadDoes, ReadingKeepsEvidence
  <2>9. CASE HearSendAccounts \/ HearSendChain \/ HearSendTransaction
    <3>1. UNCHANGED blocks
      BY <2>9 DEF HearSendAccounts, HearSendChain, HearSendTransaction
    <3> QED
      BY <2>6, <2>9, <3>1, HearSendDoes, SendingKeepsEvidence
  <2> QED
    BY <2>1, <2>3, <2>4, <2>5, <2>7, <2>8, <2>9 DEF DeskNext
<1>2. CASE PanelStep \/ WalletStep \/ ReceiptStep \/ GateStep \/ UNCHANGED vars
  <2>1. UNCHANGED deskVars
    BY <1>2 DEF PanelStep, WalletStep, ReceiptStep, GateStep, vars
  <2> QED
    BY <2>1 DEF deskVars, EvidenceInv
<1> QED
  BY <1>1, <1>2 DEF Next

LEMMA InitEvidence == Init => EvidenceInv
<1> SUFFICES ASSUME Init PROVE EvidenceInv
  OBVIOUS
<1>1. PICK kind, row : desk = NewDesk(kind, row)
  BY FreshDesk
<1>2. desk.stored = Idle /\ desk.phase = Idle /\ Idle.kind = "idle" /\ calls = {}
  BY <1>1, FreshDesk DEF NewDesk, Idle
<1> QED
  BY <1>2 DEF EvidenceInv, DeskEvidence, Offered

\* EvidenceIsOneBlock, for any owners, threshold, accounts and number of blocks: an
\* execution that is offered, sent or said to be sent, and a status that is shown, are what
\* the contract held at one block, whatever was mined while it was read.
THEOREM EvidenceSafety == Spec => []EvidenceIsOneBlock
<1> DEFINE Inv == WalletInv /\ SendInv /\ MomentInv /\ ReviewInv /\ ShapeInv /\ EvidenceInv
<1>1. Init => Inv
  BY InitWallet, InitSends, InitMoments, InitReviews, InitShape, InitEvidence
<1>2. Inv /\ [Next]_vars => Inv'
  BY WalletKept, SendsKept, MomentsKept, ReviewsKept, ShapeKept, EvidenceKept
<1>3. Inv => EvidenceIsOneBlock
  BY DEF EvidenceInv, DeskEvidence, Offered, Backed, Known, EvidenceIsOneBlock
<1> QED
  BY <1>1, <1>2, <1>3, PTL DEF Spec
=============================================================================
