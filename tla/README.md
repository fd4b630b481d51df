# Web3 wallet dashboard: TLA+ specifications

A verification project for this repository: a Go API with a contract indexer
(`src/backend`), and a React frontend (`src/frontend`). The modules are written
from the code; every definition that models code is mapped to its lines in
`PROJECT.json`.

## How to run

    tlc -workers 2 -config IndexerOneScanner.cfg MCIndexer     # a run, see the table below
    tlapm IndexerStoreProofs.tla                               # a proof module

## The system

| Component | State it keeps | Operations | Where it is hard | Model |
|---|---|---|---|---|
| Indexer repository (`internal/indexer/postgres.go`, `models.go`) | checkpoints, block rows, event rows, two projection tables, per contract | ensure, status write, commit of a range, rewind to an ancestor or to the start, reset at startup, rebuild | each operation is one transaction behind a row lock, callers interleave between transactions; replays of a range | `IndexerStore`, `Projections` |
| Indexer scanner (`scanner.go`, `reorg.go`, `retry.go`) | the run in progress, the rotation cursor (memory) | one run per tick: safe head, watch set, tip check, ancestor walk, rewind, range read, commit, retries | the chain moves between any two calls; a lost answer of a commit; crash; two processes during a deployment | `IndexerScanner` over `IndexerStore` and `EvmChain` |
| EVM client (`internal/evm`) | none | header batch, logs, receipts, multisig calls | several calls that must be of one chain | the header and log reads, in `IndexerScanner` |
| API process (`cmd/api`, `internal/worker`) | listener, pool, RPC client, two worker loops | start, serve, drain, stop, close, exit | select on cancel and tick, hanging jobs and handlers, timeouts, startup failures | `ApiProcess` |
| Auth session (`frontend/src/auth`) | per tab: status, bound credential, data session, generation; shared: localStorage | sign in, sign out, restore, retry, local sign out, 401, storage notification | late answers, late notifications, two tabs, teardown with a request in flight | `AuthSession` |
| Users, contracts, wallets, chains (`internal/user`, `contract`, `wallet`, `chain`) | their tables | CRUD behind the API | insert-or-select races, two-statement updates, purge against validation | planned; `AuthSession` has the accepted tokens, `IndexerScanner` the tracking of a contract |
| Rate limiter (`cmd/api/ratelimit.go`) | buckets per key | Allow, sweep | a bucket is dropped only when it would be full again: the idle time is raised to one full refill (`ratelimit.go:47-51`) | planned |
| Migrations (`cmd/migrate`) | schema_migrations | up, down under an advisory lock | two migrators, crash between versions | planned |
| API client (`frontend/src/api`) | none between calls | one call: attempts, timers, aborts, and what an answer becomes | the wait for a sleeping API: which calls may be repeated, how often, and for whom | `ApiRequest`; its 401 callback is in `AuthSession` |
| Query cache (`frontend/src/data`) | cached reads by identity | join, cancel, revert, retire on an identity change, collect | a new identity is drawn before the effects that retire the old one | `WalletsPage` |
| Wallets screen (`frontend/src/wallets`, `pages/WalletsPage.tsx`) | drafts of three writes, rows, marks, checks | create, rename, delete, the check after an uncertain answer, paging, retry | a write whose answer is lost may have been carried out, or may be later; pages shrink; identities change | `WalletsPage` over `ApiRequest`, composed in `WalletsScreen` |
| Browser wallet (`frontend/src/provider/useBrowserWallet.ts`) | state, attempt, connecting ref | load, connect, account and chain events | the wallet decides at one moment and the page hears at another | `BrowserWallet` |
| Gated reads (`provider/gatedRead.ts`, `useAccountBalance.ts`, `useMultisigSummary.ts`) | result by stamp, attempt | open, close, read again | an answer of an earlier account, chain or opening | `GatedReads` over `BrowserWallet` |
| Multisig controls (`frontend/src/multisig`) | attempt and sending refs, stamped state | check, acknowledge, send; live status; submit form | reads over several blocks, renders before effects, a prompt that outlives what it was asked for | `MultisigDesk` over `BrowserWallet` |
| Receipt of a transaction (`multisig/ReceiptCheck.tsx`, `useTransactionReceipt.ts`) | attempt, checking, claim about indexed events | check, refresh | a claim that outlives its receipt | `ReceiptCheck` over `BrowserWallet` |
| Routes, middleware, other pages, scripts | none of their own | | | not modelled: translation, rendering, configuration |

They interact like this. The process (`ApiProcess`) ticks the scanner and the
purge of sessions, and both share the pool with the request handlers. A run of
the scanner calls the EVM endpoint and the repository; users of the API add
contracts to its watch set. The tables are shared by every process that runs at
the same time. In the browser every tab has an auth session; they share one
credential in localStorage and hear of each other through storage
notifications. The data session it hands out is the only way a page reaches the
API; the cache keys every read by it, and the wallets screen writes with it. The
wallet extension of the browser is a program of its own: the hook follows it, and the
controls of the contract page act on what the hook last drew.

What makes each correct: the indexer never loses, duplicates or misplaces an
event and follows the canonical chain; a process never pulls a resource from
under its user on a clean exit, and always exits; a tab never acts as somebody
other than the user it shows, and never destroys a session that is not its own; no row is
shown to another identity, no write is repeated or reported done that may not be, and no
transaction is prompted for that the person did not review as it now stands.

## Modules

    EvmChain ─ Projections ─ IndexerStore ─┬─ MCStore
                                           ├─ IndexerStoreProofs ─┐
                                           └─ IndexerScanner ─────┼─ IndexerScannerProofs ─ IndexerOneScannerProofs (with IndexerRotation)
                     IndexerLedger (INSTANCE) ──┘  ├─ MCIndexer ───────┴─ MCRotation
                                                   └─ IndexerRotation ─┘
    ApiProcess ─ ApiProcessProofs
    AuthSession ─┬─ MCAuth
                 └─ AuthSessionProofs
    ApiRequest ─┬─ WalletsPage ─ WalletsScreen ─┬─ MCWallets
                └─ ApiRequestProofs             └─ WalletsScreenProofs
    BrowserWallet ─┬─ MultisigDesk ─┐
                   ├─ ReceiptCheck ─┼─ ContractScreen ─┬─ MCContract
                   └─ GatedReads ───┘               └─ ContractScreenProofs

**EvmChain**: blocks, the chains an endpoint may serve, the logs of a block, as
constants with assumptions (one header per height, a hash determines its
ancestors). External, except for the event names, the key of an event and the
canonical order.

**Projections**: `applyProjections` as a fold over events in canonical order, and
the rebuild.

**IndexerStore**: the five tables and one action per operation of the
repository. `live` and `removed` are the rows of `contract_events` by the
`removed` column. An operation is atomic because it is one transaction that
locks the checkpoint row first. Its `StoreSpec` lets callers use it in any order.

**IndexerScanner**: `run[i]` is what process `i` has read so far; `pc` names the
call it makes next. Each call is an action of its own. `TransientFailure`,
`CommitAnswerLost`, `PermanentFailure`, `RewindAnswerLost`, `CallFails`,
`CallAnswerLost` and `Crash` are what may happen to it instead. The chain moves in
`ChainMoves`.

**IndexerRotation**: the scanner with a monitor, `waits[c]`: how many ranges were committed for
other contracts while `c` had one due. It changes nothing the scanner does.

**IndexerLedger**: the abstract specification. A contract's ledger grows only by
canonical blocks on top of canonical blocks, and loses exactly what the chain lost.

**ApiProcess**: the main goroutine of `run` (`main`), the loop of each worker,
the handlers; `failed` is an error that becomes exit code 1.

**AuthSession**: one provider per tab. The generation number of the code is
the flag `current` of a request: every change of identity takes it from all
others. `announced` is the variable of that name in `storage.ts`. Notifications
are counted, not queued: their handler reads the store again.

**ApiRequest**: what a status and a body become (`AttemptOnce`, `CreateWallet`,
`DeleteWallet` and their siblings), and the loop of one call as a machine (`call`) whose clock is advanced by
its timers, which a browser may fire late (`MaxLate`).

**WalletsPage**: `tab` is everything the tab holds, `server` the rows of the account,
`late` the writes on the wire whose caller has gone. A read of the list is two actions, `CountList` and `ServeList`,
as it is two statements in `wallet/postgres.go:79-99`; rows may change in between. `shown` is the identity and page
React has drawn, `live` the one whose effects have run; an answer may land in between, a press
cannot. The query cache keeps for every key what it holds, whether a read is in
flight and what it reverts to when that read is cancelled.

**WalletsScreen**: a call that may find the API asleep (a restored session or a
sign-in), and the wallets screen after it.

**BrowserWallet**: `wallet` is the extension, `news` the events it has announced,
`asks` the requests of the hook, which the wallet decides (`said`) before the page hears.

**MultisigDesk**: one control of the contract page: confirm, revoke, execute, status or
submit (`desk.kind`). `blocks` is the proposal as the contract holds it block by block,
`calls` what the control has asked. `Render` draws the wallet's state and the row,
and the effects of that render run in an action of their own.

**ReceiptCheck**, **GatedReads**: the check of a sent transaction with its refresh of the
events, and the two reads the overview makes of a connected wallet.

**ContractScreen**: the scenes in which they meet: the panel, each control, the receipt, the
reads, over one wallet. In the scenes of the row controls the page sees of the hook only its state, which may
become any other (`PageShows`); the form, the receipt and the reads use the hook itself.

## Runs

| Run | Specification and bounds | Shows |
|---|---|---|
| IndexerAnyCaller | `StoreSpec`, 1 contract, two forks of heights 1 and 2, every valid range commit | no gap below `next_block`, the tip is the stored block, live events are of stored blocks (`TablesAgree`); event rows are kept |
| IndexerOneScanner | 1 process, 1 contract, 6 chains over 3 forks up to height 4, 2 faults, 4 chain moves | rows match the checkpoint, complete events, projections equal a rebuild, only lost blocks are dropped; the refinement of `IndexerLedger` |
| IndexerTwoScanners | 2 processes, 3 chains, 2 moves, also in the middle of a run | types of every run, tables that agree, with overlap |
| IndexerLiveness | `FairMonitorSpec`: 1 process, 3 contracts, one block per range, 1 fault, 2 moves, and a monitor of waiting times | between faults a contract with a range due waits for at most one range of every other; every tracked contract ends caught up, canonical and idle |
| IndexerMidRunReorg | violation, see Findings | `MismatchIsCorrected` |
| IndexerStaleReplay | violation | `ReplayedRangeIsNoOp` |
| ProcessShutdown | `ShutdownSpec`, 2 handlers, both workers | lifecycle, nothing released in use on a clean exit, workers outlive the traffic, a signal ends the process |
| AuthTabs | 2 tabs, 2 users, 2 tokens, 2 requests per tab, late notifications | one identity per tab and one request of it; only the own credential is cleared |
| AuthSettled | `FairSpec`, 2 tabs, 1 request per tab, notifications before answers and clicks | tabs follow the store; the loading screen ends |
| AuthLateNotices | violation | `SignOutIsHeard` |
| WalletsScreen | one call with the schedule of `request.ts`, then 4 presses by 2 identities on an account of 2 wallets with room for a third, one to a page | bounded retries; reads and marks of one identity only; a save is on the page, a read-back is fresh, a check is on the wire, "settled" means gone; no dead screen; no second delete |
| ContractScreen | 2 accounts (one an owner) and another owner, 2 chains, 2 blocks, and for each scene the bounds below | a settled wallet is the wallet's; nothing waits in vain; one prompt, send, receipt and refresh at a time; prompts are of the review; late answers are not drawn; evidence is of one block; execution is acknowledged; what is said is said of this receipt and this opening; nothing is sent after a move |

Bounds. The constants of the code are scaled, not changed: 12 confirmations
become 2, ranges and windows of 100 blocks become 2 (1 in IndexerLiveness), 3
attempts become 2, so that a backlog takes several ranges, the ancestor walk
several windows, the last window is short, and retries run out. The three forks
give a reorganization above the start block, one that leaves no stored block in
common, and one that comes back to an abandoned fork. The logs submit, confirm, revoke,
confirm again and execute one multisig transaction, and one fork mines the same
submission at another height, so that each branch of the projections is taken. Two faults allow a lost answer followed by a failure of
the retry, and a crash after either. Two tokens give one sign-in per tab with
different users, or a second one of a tab while the other follows. Two
requests of a tab let one of a former identity be answered during the next.

WalletsScreen: with a page of one row, a create or a delete moves a row across the
page boundary, and the last page can become empty. Three wallets can exist, so three pages may be named (`PagesAssumption`):
a list counted before a removal and read after it is a page without rows that the total still covers. Four presses are a write, its
uncertain answer, the check or the repetition of it, and a change of page meanwhile; the second
identity comes at any point between.

ContractScreen: the wallet moves twice under the form, the receipt and the reads, so
that it can come back to an account, and once elsewhere; under a row it moves while something is asked of
it, and what the hook shows moves twice for a confirmation. It fails or answers unreadably
once, in the panel, where its answers are parsed. Connect is pressed twice. Presses: 5 for an execution (check, acknowledge,
send, and twice more), 4 for the form, 3 for a revocation, else 2; calls at a time: 1 for an
execution, else 2. One owner short of the threshold makes a confirmation decisive. A
receipt is any combination of hash, target, success and two blocks, or none. Facts of a read that
was retired are erased (`Forgotten`): no code looks at them again. Leaving the page with nothing in flight is left out, as nothing follows it.

`DeepReorgMidRun` is an assumption about the environment. FALSE says that a
reorganization that reaches heights a run in progress relies on happens between
runs; a run takes at most ten seconds and reads blocks of 12 confirmations. The
invariants of IndexerOneScanner and the refinement need it: IndexerMidRunReorg
shows what happens without it. With TRUE the invariants of IndexerTwoScanners still
hold.

`NoticesMayBeLate` likewise: FALSE delivers storage notifications before the next
answer or click. `TabsFollowTheStore` needs it, see AuthLateNotices, so AuthSettled
assumes it.

Fairness. `FairSpec` of the scanner: the ticker fires, calls return (each has a
timeout), and the platform restarts a process that exited; faults and chain moves
are finite. The liveness property excuses a chain that ends below a stored tip or
is younger than the confirmation window. `ShutdownSpec`: the
main goroutine is scheduled and its timers fire (`stopTimeout`, the grace
period); nothing is assumed of jobs, handlers or signals, which is the point.
`FairSpec` of the tabs: effects run, notifications are delivered, and the
request of the current identity is answered, fails or times out (`timeoutMs`).

ProcessShutdown sets `CHECK_DEADLOCK FALSE` because the process exits, ContractScreen and
WalletsScreen because a person may leave the page, or press nothing more.

## Proofs

**IndexerStoreProofs** (`StoreSafety`, `StoreKeepsHistory`): for all contracts,
blocks, chains, logs and heights. `StoreTypeOK` and `TablesAgree` (whose three parts are stated in `IndexerStore`)
are inductive together, as `StoreInv`: the tip invariant needs the rows below `next_block`, a
rewind needs that the ancestor it names is stored, and a commit needs that
its blocks carry their heights. It is split per contract (`PartInv`), because an
operation assigns only one contract's part of the tables: `WriteKeeps` reduces
every operation to a statement about that part.

`ReplaySaysWhatHappened` is about the replay itself, for any finite set of events of one chain. A
rebuild folds the events in log order into rows; what comes out is stated without a fold
(`SaysWhatHappened`): a transaction has a row exactly if an event names it, its submit and its execute columns are those of
the last SubmitTransaction and ExecuteTransaction event that names it, or null if there is none (a row may be there before its
submission), and an owner counts as confirmed exactly if its last vote is a confirmation. The induction over the events is by the
least-element principle (`Least`, `Smallest`), since the library's induction theorem takes an operator:
`ReplayExists` and `ReplayUnique` give a replay for every finite set, `ReplayStep` and `ReplaySplit` continue one,
and `ReplayCells` follows one column of a row, which holds what the last event that
writes it wrote. From that, replaying events again changes nothing (`ReplayAgain`, `RebuiltAgain`), and
replaying later ones on top gives the rebuild of all (`RebuiltMore`).

**IndexerScannerProofs** (`ScannerTypes`, `ScannerImplementsStore`,
`ScannerSafety`): for any number of processes, with `DeepReorgMidRun` either way.
The invariant `ScannerInv` adds to the types of a run what its later calls rely
on (`RunOK`): between its reads and its commit a run holds a range that
`Validate` accepts. From it every step of every scanner is a step of `StoreSpec`
or a stutter, so `StoreSpec`'s theorems carry over.

**IndexerOneScannerProofs** (`OneScannerRows`, `OneScannerEvents`, `OneScannerKeepsCanonicalRows`,
`OneScannerImplementsLedger`, `OneScannerProjections`, `OneScannerSaysWhatHappened`, `OneScannerRotates`): for one process (`OneScanner`, as in the run of that name and as the
deployment starts it), any contracts and chains. `RowsMatchCheckpoint` is not inductive: a commit writes
what was read many steps earlier. `PlaceInv` adds where a run stands: the
checkpoint it holds is the stored one, or its range is still due, or was
committed and the answer lost. The events and the ledger need the chain as well: `ChainInv` says that what each
call of a run has learned of the chain still holds when the next relies on it. That is what a
deep reorganization in the middle of a run breaks (finding 1), so the refinement is proved for
`DeepReorgMidRun = FALSE` (`OneTrustedChain`). Each step of the scanner maps to one step
of the ledger or to a stutter. `ProjectionsMatchEvents` needs the same: a commit updates the rows with
the events of its range, and that this is the rebuild of all live events holds because they lie above
the others, or are the last of them again when the answer to a commit was lost; a
rewind rebuilds. With the replay theorem this gives what the tables say of the live events. Two processes break
it (finding 2).

`OneScannerRotates` (`WaitsOneRound`, of `MonitorSpec`) needs neither the chain nor a bound on its moves. The invariant `TurnsInv`
has a measure: what a contract has waited and its distance ahead of the cursor (`Ahead`) are together less than the
number of tracked contracts (`InTurn`). A commit brings the cursor nearer to every contract with a range due, because
the contracts the run has gone past are caught up with it (`PastAll`, `ComesNearer`); a contract that is tracked
meanwhile comes last and lengthens the round by one (`TrackTurns`); the replay of a range whose answer was lost moves the cursor
and no checkpoint, but nobody has waited since that failure (`Quiet`). It rests on `IdsAssumption`: the
ids of contracts are positive numbers, and there are finitely many.

**ApiProcessProofs** (`ProcessTypes`, `ProcessReleases`, `ProcessDrainsFirst`): for any set of handlers.
Neither safety property is inductive, since neither says where `run` stands; `Lifecycle` says for each
position what has been started, drained and stopped, unless `failed`.

**AuthSessionProofs** (`AuthSafety`, `OwnCredentialSafety`): for any number of tabs,
tokens, users and requests, with late notifications or not. `OneIdentity` is not inductive, because an
answer authenticates a tab under the token of its request. `Sound` says of the one current request of
a tab from which screen it was asked, and that the tab holds no data session
while it waits. Each handler is a chain of helpers on `State(t)`; a lemma for each says what it leaves
behind (`Quiet`: nothing is waited for), and `Assembles` puts a tab back among the others.
`TabsFollow` (`FollowInv`) needs notices to be delivered first (`NoticesMayBeLate = FALSE`; finding 3 is why):
a mounted tab has announced what it is bound to, and a write counts up the notices of every other tab, so one
that has none left is bound to what is stored.

**ApiRequestProofs** (`RetrySafety`): for every schedule of
delays, budget, timeout and lateness. `CallInv` ties the attempts made to the delays used up and to the
time that has passed at least; the bound on the clock follows from the budget being tested before each wait.

**ContractScreenProofs**: every invariant and action property of the run, for any accounts, chains,
owners, rows and bounds.
- `OneAtATimeSafety`: a ref is useful only together with the requests it guards; `PromptInv`,
  `SendInv` and `RequestInv` say that each is raised while its request is unanswered, with the exceptions
  the code makes when a screen is left.
- `ReviewSafety`: `ReviewInv` follows a review from the reads to the prompt: a
  proposal that matches was read for its row (`ReadOfItsRow`), what is drawn is of the situation
  drawn (`DeskReviewed`), and a request carries what was drawn when it was pressed (`CallReviewed`).
- `ReceiptSafety` (`SaidInv`): receipts are asked for and stored on the chain of the contract, and a
  claim is of the key drawn.
- `ValueSafety` (`GateInv`): a read of the current attempt is of the current stamp or will be retired by
  effects that are due; a stamp carries the opening it was drawn in.
- `MomentSafety`, `NoPromptAfterAMove` (`MomentInv`): every attempt is tied to the visit it was made in; an
  attempt as old as the control's own is of this visit, or of a render whose effects are due.
- `TickSafety` (`TickInv`): while a review is read none is offered, so a tick names the review under it.
- `WaitingSafety` (`WaitInv`, `WalletInv`, `GateInv`, and `HookIsNotStranded` itself): between a
  render and its effects, only an early press can be waited for.
- `SettledSafety` (`SettledInv`): of account and chain, the last event queued tells the truth or is
  unreadable; with none queued, the state of the hook or the request that will set it does.
- `ScreenTypes` (`ShapeInv`).
- `EvidenceSafety` (`EvidenceInv`): the answers collected so far are what the block that was read first holds
  (`OfBlock`), and blocks only grow (`Grown`). The reads are taken in the order of a plan that
  ends with the owners, whose number is a constant; that the next one exists is by the least-element
  principle of `WellFoundedInduction`.

They rest on `WalletAssumption` (failures are no accounts or chains), `DeskAssumption` (the
owners are a sequence, the contract's chain is a chain, and no situation is `None`) and `SceneAssumption`
(the bounds are numbers, a contract begins with proposals).

**WalletsScreenProofs** (`IdentitySafety`, and the theorems below): for any number of identities, pages and wallets. A
retired identity is drawn over before the effects that retire what it has on the wire, so the
invariant `Apart` speaks of `live`, the identity those effects have run for: an entry of the cache
holds, or is about to hold, rows read for its key; every read is of `live`; and so is every save and
rename, whose answer would ask for pages again. The last part is why the forms are unmounted with
their identity: after `RunEffects` no editor is left to hear the rename of the retired one.
The other theorems follow a record or a form through the screen; each has an invariant of its own.
- `RemovedIsRemoved`, `RemovedOnce` (`RemovalInv`): a record that is gone is followed from the verdict
  through the mark to the first read that no longer shows it. The parts tie the generation of a read to the moment
  the server answered, and the panel to the only DELETE it may have raised.
- `NothingIsLockedForNothing` (`FormsInv`): a form that is locked has a request on the wire that will be heard.
- `ChecksReportThePresent`, `ChecksWaitForARead` (`CheckInv`): who waits is matched with the
  fetch it waits for; an answer to a read that a check asked for is from after the press.
- `ASaveIsShown`, `PageTypes` (`ScreenInv`): a save and the request for every page of its identity are one
  step, so every entry of the cache that has been read since, or whose answer is on its way, is from after the
  save (`EntriesOK`), and the view whose effects have run has its entry (`HasEntry`). The tab moves to another
  page by itself after an empty read only. Its rows may be of a later moment than its total, so an empty page need not be past
  the end; what is proved is that whatever total is counted names a page somebody may ask for
  (`RowsAreCounted`, `ATotalNamesAPage`), which is all that `PagesAssumption` asks of the pages.

They assume `NoneIsNoRecord`: `None` is neither a record nor a function. The runs use a model value,
of which that is true; TLC cannot evaluate the `DOMAIN` of one, so it is a hypothesis of
the theorems and not an `ASSUME`.

All from the named assumptions of the modules, which TLC evaluates in the runs.

Only model-checked:
- Liveness (`EventuallySynced`, `ShutdownEnds`, `RestoringEnds`) and whatever rests on fairness: out of the
  prover's reach.
- The three runs that expect a violation, by their nature.

## Findings

1. *IndexerMidRunReorg.* The hash of the stored tip is compared at the start of a
   run, and the header batch of the range is read later. A reorganization between
   the two stores blocks of the new fork above those of the old one; the new tip
   is canonical, so no later run looks below it. `scanner.go:37-39` and
   `reorg.go:22-23` say that a mismatch of any depth is corrected. It takes a
   reorganization deeper than 11 blocks.
2. *IndexerStaleReplay.* A process that overlaps with another and commits a range the
   other has committed past moves the projections back to the events of that range.
   `docs/architecture.md:226`: a replayed range is a no-op.
3. *AuthLateNotices.* A sign-in that was superseded adopts the stored credential
   without recording it as announced. If the other tab signs out before its first
   notification arrives, both are dropped and the tab stays signed in.
   `AuthProvider.tsx:492-493`.

Noticed while reading, with no run behind it:

- Retrying a commit whose answer was lost moves `updated_at` of a confirmation
  when the range both confirms and revokes it; `postgres.go:663-664` says the
  timestamp moves only on a real change.
- During a sign-out the session is authenticated without a data session;
  `session.ts:67` says it is non-null exactly while authenticated.
- A failed sign-in from the unavailable screen leaves that screen without a
  stored token to retry; `docs/architecture.md:117`.
- `docs/architecture.md:498` says there is no cross-tab logout signal; the code has one.
- Wallets. `useCreateWallet.ts:40-42` says a handler never runs for a late answer; it does
  for one that lands between the commit of a new identity and its effects. `writeOutcome.ts:13-14`
  and `ConfirmRemoveWallet.tsx:197` take a typed 500 for a write not carried out; the API
  may answer it after the commit. `request.ts:39` speaks of five attempts; the delays give six,
  and timers that fire late exceed the budget by up to one attempt. `WalletsPage.tsx:544-545` says that a failed
  read clears the rows; the rows of the last read that succeeded stay drawn under the error. A message about a write may be overtaken by
  an aborted one that commits late. A list is counted and read by two statements, so a removal by somebody else in between
  leaves an empty page beside a total that covers it, and the page repair of `WalletsPage.tsx:418-429` may then stay on the
  empty page.
- Multisig. `useSubmitTransaction` and `useTransactionReceipt` take no new attempt when the
  account or chain changes: after a change and a change back, the answer of before is drawn, and a late send answer
  overrides a newer confirmation screen. A check pressed between a commit and its effects is retired by them
  and leaves "checking" with no control until the next change (`useMultisigAction.ts:224-250`, `useProposalStatus.ts:102-114`;
  `early` in the model). The refresh of `ReceiptCheck.tsx:110-147` has no attempt: the key a claim stands under is the one of the render in
  which its answer arrives, so a refresh pressed under one receipt and answered under another counts as one of the second, though the
  comment at `:91-97` wants no stale match. `SaidOfThisReceipt` takes the key at the answer as the code does, and says only that a claim
  is not kept for the next receipt. Reads
  are anchored by block number (`anchored.ts:4-6`), which a reorganization can replace. The facts of a
  confirmation or revocation are read at `latest` and may be of two blocks. A prompt may open
  for the situation before, between a render and its effects, and the chain may change between
  the last `eth_chainId` and the prompt. A screen that is left and entered again has a new sending ref.
- Gated reads: after a change of account and back within one opening, the earlier result is drawn again;
  `useAccountBalance.ts:48` says it is not drawn after an account change.

## Not modelled

Inside the modelled components: timestamps (`updated_at`), error texts and their redaction, payload
encoding, the paginated event read, disabling of a deployment (no code does it),
configuration errors before the pool opens, registration, the logout message and
the memory-only fallback of the token storage. `indexed_blocks.parent_hash` is
stored and never compared, so it is no state. The log order inside a block
stands for transaction index and log index together, which a node numbers in the
same order. Of the client: `Retry-After`, request ids and the shape guards one by one (a body is one a guard accepts or
not). Of the wallets screen: drafts, focus and wording. Of the multisig controls: the parsing of
a draft, ABI encoding, and reorganizations of the chain under an anchored read. On another chain the address answers only
unreadably (`Replies`); `gate.ts:9-12` says that another contract may be there, whose answers could be read. Then the facts of a
wallet that goes to that chain and comes back before its announcements are heard could be of two contracts, so
`EvidenceIsOneBlock` holds under this assumption.

Components left out, with what is hard in them and would be the reason to add them:

- Rate limiter (`cmd/api/ratelimit.go`): one mutex and one clock; what would be shown is that the sweep admits no
  more than an ideal bucket does, which the raised idle time is there for.
- Sessions, tracking, wallets, chains (`internal/user`, `contract`, `wallet`, `chain`): a session
  is validated by two reads and a clock while the purge runs (`user/service.go:133`); two users who track one contract,
  insert-or-select (`contract/postgres.go:41`); an update and the read that answers it are two statements (`contract/postgres.go:206`),
  as are a page of events and its total (`indexer/postgres.go:149`).
- Migrations (`cmd/migrate/main.go`): two migrators, and the table created before the lock.
- A contract that fails on every run keeps the cursor of the rotation where it is (`scanner.go:206`);
  the liveness run has finitely many faults.
- Routes, middleware, the other pages and forms, scripts: translation, rendering, configuration.

## Plan

1. Done: the indexer (store, scanner, ledger), the process, the auth session, the API
   call, the wallets screen, the browser wallet with what is built on it, and the
   proofs above.
2. Modules to come, in order: `RateLimiter` refining an ideal token bucket, `Sessions`
   and `Tracking` (the services and their tables), `Migrations`, the snapshot reads of
   the EVM client.
3. Every invariant of a passing run is now a theorem; those of the modules to come, with them.
