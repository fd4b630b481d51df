--------------------------- MODULE IndexerScanner ---------------------------
(***************************************************************************)
(* The contract scanner (src/backend/internal/indexer/scanner.go, reorg.go,*)
(* retry.go) of every API process, over the shared tables of IndexerStore  *)
(* and a chain that grows and reorganizes under it.                        *)
(*                                                                         *)
(* One run of Job.Run is a sequence of calls, each of which may see a      *)
(* different chain and different tables: BlockNumber and the watch set     *)
(* (Tick), EnsureCheckpoint, the header of the stored tip, the windows of  *)
(* the ancestor walk, the rewind, a status write, the header batch, the    *)
(* log read, the commit. Each is one action; what was read before it is in *)
(* run[i]. A header batch is answered from one chain.                      *)
(*                                                                         *)
(* A process may fail at every call and may crash at any point; a write    *)
(* whose answer is lost has taken effect. Bounds: MaxFaults failures and   *)
(* crashes, MaxMoves changes of the chain.                                 *)
(***************************************************************************)
EXTENDS IndexerStore

CONSTANTS
    Instance,           \* API processes, each with a scanner
    Confirmations,      \* safeHeadConfirmations (12)
    MaxRangeBlocks,     \* maxRangeBlocks (100)
    ReorgWalkWindow,    \* reorgWalkWindow (100)
    RetryAttempts,      \* retryAttempts (3)
    DeepReorgMidRun,    \* may the chain change at heights a run in progress
                        \* relies on, or does that happen between runs only
    MaxFaults, MaxMoves

ASSUME ScannerAssumption ==
    /\ Confirmations \in Nat \ {0} /\ MaxRangeBlocks \in Nat \ {0}
    /\ ReorgWalkWindow \in Nat \ {0} /\ RetryAttempts \in Nat \ {0}
    /\ DeepReorgMidRun \in BOOLEAN
    /\ MaxFaults \in Nat /\ MaxMoves \in Nat

VARIABLES
    chain,      \* the canonical chain the endpoint serves now
    tracked,    \* the eligible deployments in id order; ids are serial, so a
                \* new one comes last
    run,        \* the run each process has in progress
    cursor,     \* Job.cursor: the rotation position, in memory
    faults, moves

vars == <<storeVars, chain, tracked, run, cursor, faults, moves>>

PC == {"off", "wait", "ensure", "tip", "window", "compare", "rewind", "decide",
       "headers", "logs", "commit", "fail"}

NoHeaders == [h \in {} |-> NoBlock]
NoCommit == [from |-> 0, to |-> 0, status |-> "pending", blocks |-> NoHeaders, events |-> {}]
NoAncestor == -1

\* Between ticks, and before a process is started, a run has no state.
NoRun == [pc |-> "wait", safe |-> 0, n |-> 1, start |-> 0, offset |-> 0,
          cp |-> NoCheckpoint, high |-> 0, window |-> NoHeaders, ancestor |-> NoAncestor,
          commit |-> NoCommit, attempt |-> 0]
NotStarted == [NoRun EXCEPT !.pc = "off"]

InRun(i) == run[i].pc \notin {"off", "wait"}

Position(i) == (run[i].start + run[i].offset) % run[i].n
Target(i) == tracked[Position(i) + 1]

ScannerInit ==
    /\ StoreInit
    /\ chain \in Chains
    /\ tracked = <<>>
    /\ run = [i \in Instance |-> NotStarted]
    /\ cursor = [i \in Instance |-> 0]
    /\ faults = 0 /\ moves = 0

\* Every step of process i assigns run and cursor; the guard is where it stands.
At(i, pcs) == run[i].pc \in pcs /\ UNCHANGED <<chain, tracked, moves>>
Goto(i, next) == run' = [run EXCEPT ![i] = next] /\ UNCHANGED cursor
EndRun(i) == Goto(i, NoRun)
ToFail(i) == Goto(i, [run[i] EXCEPT !.pc = "fail"])
NoFault == UNCHANGED faults
Fault == faults < MaxFaults /\ faults' = faults + 1

\* The endpoint serves hash b for height h.
Canonical(h, b) == h \in DOMAIN chain /\ chain[h] = b

-----------------------------------------------------------------------------
(* One run. *)

\* startIndexer: reset stale checkpoints, then start the worker of a new Job.
Start(i) ==
    /\ At(i, {"off"}) /\ NoFault
    /\ ResetRunningCheckpoints
    /\ run' = [run EXCEPT ![i] = NoRun]
    /\ cursor' = [cursor EXCEPT ![i] = 0]

\* The latest block and the watch set. A chain younger than the confirmation
\* window and an empty watch set end the run at once.
Tick(i) ==
    /\ At(i, {"wait"}) /\ NoFault
    /\ Latest(chain) >= Confirmations - 1
    /\ Len(tracked) > 0
    /\ Goto(i, [NoRun EXCEPT !.pc = "ensure",
                             !.safe = Latest(chain) - (Confirmations - 1),
                             !.n = Len(tracked),
                             !.start = cursor[i] % Len(tracked)])
    /\ UNCHANGED storeVars

Ensure(i) ==
    LET cp == EnsuredCheckpoint(Target(i))
    IN  /\ At(i, {"ensure"}) /\ NoFault
        /\ EnsureCheckpoint(Target(i))
        /\ Goto(i, [run[i] EXCEPT !.cp = cp, !.pc = IF cp.tip = NoTip THEN "decide" ELSE "tip"])

\* correctChainState: the canonical header at the height of the stored tip. A
\* height the endpoint does not have is ErrBlockNotFound.
CheckTip(i) ==
    LET tip == run[i].cp.tip
    IN  /\ At(i, {"tip"}) /\ NoFault
        /\ \/ /\ tip.number \notin DOMAIN chain
              /\ ToFail(i)
           \/ /\ Canonical(tip.number, tip.hash)
              /\ Goto(i, [run[i] EXCEPT !.pc = "decide"])
           \/ /\ tip.number \in DOMAIN chain /\ chain[tip.number] # tip.hash
              /\ Goto(i, [run[i] EXCEPT !.pc = "window", !.high = tip.number])
        /\ UNCHANGED storeVars

\* findCommonAncestor, one window: the stored rows, then their canonical headers.
ReadWindow(i) ==
    LET low == run[i].high - ReorgWalkWindow + 1
        stored == {h \in Height : h >= low /\ h <= run[i].high /\ rows[Target(i)][h] # NoBlock}
    IN  /\ At(i, {"window"}) /\ NoFault
        /\ Goto(i, IF stored = {}
                   THEN [run[i] EXCEPT !.pc = "rewind", !.ancestor = NoAncestor]
                   ELSE [run[i] EXCEPT !.pc = "compare",
                                       !.window = [h \in stored |-> rows[Target(i)][h]]])
        /\ UNCHANGED storeVars

MatchingHeights(window) == DOMAIN window \cap DOMAIN chain

Matching(window) == {h \in DOMAIN window : Canonical(h, window[h])}

\* One window: the highest stored block the chain still has is the ancestor, and
\* without one the walk goes on below the lowest. It ends at the stored rows, or at
\* height 0, without an ancestor.
CompareWindow(i) ==
    LET window == run[i].window
        stored == DOMAIN window
        matching == Matching(window)
    IN  /\ At(i, {"compare"}) /\ NoFault
        /\ \/ /\ ~(stored \subseteq DOMAIN chain)
              /\ ToFail(i)
           \/ /\ stored \subseteq DOMAIN chain
              /\ \E h \in matching :
                    /\ \A k \in matching : k <= h
                    /\ Goto(i, [run[i] EXCEPT !.pc = "rewind", !.ancestor = h])
           \/ /\ stored \subseteq DOMAIN chain /\ matching = {}
              /\ \E low \in stored :
                    /\ \A k \in stored : low <= k
                    /\ Goto(i, IF low = 0
                               THEN [run[i] EXCEPT !.pc = "rewind", !.ancestor = NoAncestor]
                               ELSE [run[i] EXCEPT !.pc = "window", !.high = low - 1])
        /\ UNCHANGED storeVars

RewindStore(i) ==
    IF run[i].ancestor = NoAncestor THEN RewindToStart(Target(i))
    ELSE RewindToAncestor(Target(i), run[i].ancestor)

RewoundTo(i) ==
    IF run[i].ancestor = NoAncestor THEN InitialCheckpoint(Target(i))
    ELSE RewoundCheckpoint(Target(i), run[i].ancestor)

Rewind(i) ==
    /\ At(i, {"rewind"}) /\ NoFault
    /\ RewindStore(i)
    /\ Goto(i, [run[i] EXCEPT !.pc = "decide", !.cp = RewoundTo(i), !.window = NoHeaders])

\* Another process rewound below the ancestor since the walk.
RewindRejected(i) ==
    /\ At(i, {"rewind"}) /\ NoFault
    /\ run[i].ancestor # NoAncestor
    /\ ~RewindAccepted(Target(i), run[i].ancestor)
    /\ ToFail(i)
    /\ UNCHANGED storeVars

EndAfterIdle(i) == EndRun(i)

\* The next contract of the rotation, or the end of a run without a range; the
\* cursor moves only when a range was committed.
NextContract(i) ==
    IF run[i].offset + 1 < run[i].n
    THEN Goto(i, [NoRun EXCEPT !.pc = "ensure", !.safe = run[i].safe, !.n = run[i].n,
                               !.start = run[i].start, !.offset = run[i].offset + 1])
    ELSE EndRun(i)

CaughtUpOneLate(i) == run[i].cp.next > run[i].safe + 1

CaughtUp(i) == run[i].cp.next > run[i].safe

SkipIdle(i) ==
    /\ At(i, {"decide"}) /\ NoFault
    /\ CaughtUp(i) /\ run[i].cp.status = "idle"
    /\ NextContract(i)
    /\ UNCHANGED storeVars

MarkIdle(i) ==
    /\ At(i, {"decide"}) /\ NoFault
    /\ CaughtUp(i) /\ run[i].cp.status # "idle"
    /\ SetCheckpointStatus(Target(i), "idle")
    /\ NextContract(i)

\* The range this run may commit.
RangeEnd(i) ==
    LET last == run[i].cp.next + MaxRangeBlocks - 1
    IN  IF last > run[i].safe THEN run[i].safe ELSE last

MarkRunning(i) ==
    /\ At(i, {"decide"}) /\ NoFault
    /\ ~CaughtUp(i)
    /\ SetCheckpointStatus(Target(i), "running")
    /\ Goto(i, [run[i] EXCEPT !.pc = "headers", !.attempt = 1,
                   !.commit = [NoCommit EXCEPT
                        !.from = run[i].cp.next, !.to = RangeEnd(i),
                        !.status = IF RangeEnd(i) = run[i].safe THEN "idle" ELSE "pending"]])

\* readRange: the header batch, then the logs of the same heights.
ReadHeaders(i) ==
    LET range == run[i].commit.from..run[i].commit.to
    IN  /\ At(i, {"headers"}) /\ NoFault
        /\ IF range \subseteq DOMAIN chain
           THEN Goto(i, [run[i] EXCEPT !.pc = "logs",
                                       !.commit.blocks = [h \in range |-> chain[h]]])
           ELSE ToFail(i)
        /\ UNCHANGED storeVars

\* decodeRange: every returned log must be of the block the header batch named.
\* A height without logs is not verified.
ReadLogs(i) ==
    LET commit == run[i].commit
        withLogs == {h \in (commit.from..commit.to) \cap DOMAIN chain :
                        OccurrencesIn(Target(i), chain[h]) # {}}
    IN  /\ At(i, {"logs"}) /\ NoFault
        /\ IF \A h \in withLogs : chain[h] = commit.blocks[h]
           THEN Goto(i, [run[i] EXCEPT !.pc = "commit",
                    !.commit.events = UNION {OccurrencesIn(Target(i), commit.blocks[h]) :
                                                h \in withLogs}])
           ELSE ToFail(i)
        /\ UNCHANGED storeVars

CommitKeepingCursor(i) ==
    /\ At(i, {"commit"}) /\ NoFault
    /\ CommitRange(Target(i), run[i].commit)
    /\ EndRun(i)

Commit(i) ==
    /\ At(i, {"commit"}) /\ NoFault
    /\ CommitRange(Target(i), run[i].commit)
    /\ run' = [run EXCEPT ![i] = NoRun]
    /\ cursor' = [cursor EXCEPT ![i] = (Position(i) + 1) % run[i].n]

CommitRejected(i) ==
    /\ At(i, {"commit"}) /\ NoFault
    /\ ~CommitAccepted(Target(i), run[i].commit)
    /\ ToFail(i)
    /\ UNCHANGED storeVars

\* failRange: the write is detached from the run, so it happens on shutdown too.
Fail(i) ==
    /\ At(i, {"fail"}) /\ NoFault
    /\ SetCheckpointStatus(Target(i), "error")
    /\ EndRun(i)

Step(i) ==
    \/ Start(i) \/ Tick(i) \/ Ensure(i)
    \/ CheckTip(i) \/ ReadWindow(i) \/ CompareWindow(i) \/ Rewind(i) \/ RewindRejected(i)
    \/ SkipIdle(i) \/ MarkIdle(i) \/ MarkRunning(i)
    \/ ReadHeaders(i) \/ ReadLogs(i) \/ Commit(i) \/ CommitRejected(i) \/ Fail(i)

-----------------------------------------------------------------------------
(* Failures. *)

\* runWithRetry: a transient failure repeats the range from its header batch.
Retry(i) ==
    IF run[i].attempt < RetryAttempts
    THEN Goto(i, [run[i] EXCEPT !.pc = "headers", !.attempt = @ + 1,
                                !.commit.blocks = NoHeaders, !.commit.events = {}])
    ELSE ToFail(i)

TransientFailure(i) ==
    /\ At(i, {"headers", "logs", "commit"})
    /\ Fault
    /\ Retry(i)
    /\ UNCHANGED storeVars

\* The transaction committed and its answer was lost with the connection.
CommitAnswerLost(i) ==
    /\ At(i, {"commit"}) /\ Fault
    /\ CommitRange(Target(i), run[i].commit)
    /\ Retry(i)

\* An unclassified error, cancellation, or the end of the run's ten seconds.
PermanentFailure(i) ==
    /\ At(i, {"tip", "window", "compare", "rewind", "headers", "logs", "commit"})
    /\ Fault
    /\ ToFail(i)
    /\ UNCHANGED storeVars

RewindAnswerLost(i) ==
    /\ At(i, {"rewind"}) /\ Fault
    /\ RewindStore(i)
    /\ ToFail(i)

\* EnsureCheckpoint and the status writes return without recording a failure,
\* whether or not they took effect.
NoCallDue(i) == run[i].pc = "decide" /\ CaughtUp(i) /\ run[i].cp.status = "idle"

CallFails(i) ==
    /\ At(i, {"ensure", "decide", "fail"})
    /\ Fault
    /\ ~NoCallDue(i)
    /\ EndRun(i)
    /\ UNCHANGED storeVars

CallAnswerLost(i) ==
    /\ At(i, {"ensure", "decide"})
    /\ Fault
    /\ ~NoCallDue(i)
    /\ CASE run[i].pc = "ensure" -> EnsureCheckpoint(Target(i))
         [] run[i].pc = "decide" -> SetCheckpointStatus(Target(i),
                                        IF CaughtUp(i) THEN "idle" ELSE "running")
    /\ EndRun(i)

Crash(i) ==
    /\ At(i, PC \ {"off"})
    /\ Fault
    /\ Goto(i, NotStarted)
    /\ UNCHANGED storeVars

FaultStep(i) ==
    \/ TransientFailure(i) \/ CommitAnswerLost(i) \/ PermanentFailure(i)
    \/ RewindAnswerLost(i) \/ CallFails(i) \/ CallAnswerLost(i) \/ Crash(i)

-----------------------------------------------------------------------------
(* The environment: external to the process. *)

\* The heights a run in progress relies on: up to its safe head, and those stored
\* already (the safe head may have gone back since they were).
KeepsRuns(new) ==
    \A i \in Instance : InRun(i) =>
        \A h \in DOMAIN chain :
            h <= run[i].safe \/ rows[Target(i)][h] # NoBlock =>
                h \in DOMAIN new /\ new[h] = chain[h]

\* A new head, or a reorganization.
ChainMoves ==
    /\ moves < MaxMoves /\ moves' = moves + 1
    /\ chain' \in Chains \ {chain}
    /\ DeepReorgMidRun \/ KeepsRuns(chain')
    /\ UNCHANGED <<storeVars, tracked, run, cursor, faults>>

\* A user tracks a deployment nobody tracked before.
TrackContract ==
    /\ \E c \in Contract :
        /\ \A k \in DOMAIN tracked : tracked[k] < c
        /\ tracked' = Append(tracked, c)
    /\ UNCHANGED <<storeVars, chain, run, cursor, faults, moves>>

Next ==
    \/ \E i \in Instance : Step(i) \/ FaultStep(i)
    \/ ChainMoves
    \/ TrackContract

Spec == ScannerInit /\ [][Next]_vars

\* The worker's ticker keeps firing, every call of a run returns, and a process
\* that died is started again by the platform.
FairSpec == Spec /\ \A i \in Instance : WF_vars(Step(i))

-----------------------------------------------------------------------------
(* Properties. *)

HeaderMaps == UNION {[S -> Block] : S \in SUBSET Height}

Run == [pc : PC, safe : Height, n : Nat \ {0}, start : Nat, offset : Nat,
        cp : Checkpoint \cup {NoCheckpoint}, high : Height, window : HeaderMaps,
        ancestor : Height \cup {NoAncestor}, attempt : 0..RetryAttempts,
        commit : [from : Height, to : Height, status : {"idle", "pending"},
                  blocks : HeaderMaps, events : SUBSET (Block \X Nat)]]

\* What a run relies on at each of its calls: its contracts are still tracked, it
\* holds a checkpoint from the second call on, and the range it commits is one the
\* repository's validation accepts.
RunOK(i) ==
    LET r == run[i]
    IN  /\ InRun(i) => r.n <= Len(tracked)
        /\ r.pc \in {"tip", "window", "compare", "rewind", "decide"} => r.cp # NoCheckpoint
        /\ r.pc = "tip" => r.cp.tip # NoTip
        /\ r.pc \in {"headers", "logs", "commit"} => r.commit.from <= r.commit.to
        /\ r.pc \in {"logs", "commit"} => r.commit.blocks \in Headers(r.commit.from, r.commit.to)
        /\ r.pc = "commit" => IsRangeCommit(Target(i), r.commit)

\* The variables have their types, and every run is in a state its calls can rely on.
ScannerTypeOK ==
    /\ StoreTypeOK
    /\ chain \in Chains
    /\ tracked \in Seq(Contract)
    /\ cursor \in [Instance -> Nat]
    /\ run \in [Instance -> Run]
    /\ \A i \in Instance : RunOK(i)

\* With one scanner the tables hold exactly the heights from the start block to
\* next_block: no row survives above the checkpoint, which a later commit on
\* another fork would collide with for good (ErrConflictingBlockHash).
RowsMatchCheckpoint ==
    \A c \in Contract :
        {h \in Height : rows[c][h] # NoBlock} =
            IF checkpoint[c] = NoCheckpoint THEN {}
            ELSE StartBlock[c]..(checkpoint[c].next - 1)

\* No event of a stored block is missing, and none is left over: retries, lost
\* answers and rewinds neither lose nor duplicate one.
EventsAreComplete ==
    \A c \in Contract :
        live[c] = UNION {OccurrencesIn(c, rows[c][h]) :
                            h \in {k \in Height : rows[c][k] # NoBlock}}

\* A rewind drops only blocks the chain no longer has.
CanonicalRowsAreKept ==
    [][\A c \in Contract : \A h \in Height :
            rows[c][h] # NoBlock /\ rows'[c][h] = NoBlock =>
                ~Canonical(h, rows[c][h])]_vars

\* The scanner implements the ledger: the stored rows of a contract are its ledger.
Ledger == INSTANCE IndexerLedger WITH
    ledger <- [c \in Contract |->
                [h \in {k \in Height : rows[c][k] # NoBlock} |-> rows[c][h]]]

ImplementsLedger == Ledger!LedgerSpec

\* Everything up to the safe head is stored as the chain has it.
Synced ==
    \A k \in DOMAIN tracked :
        LET c == tracked[k]
            safe == Latest(chain) - (Confirmations - 1)
        IN  /\ checkpoint[c] # NoCheckpoint
            /\ checkpoint[c].next > safe
            /\ checkpoint[c].status = "idle"
            /\ \A h \in StartBlock[c]..(checkpoint[c].next - 1) :
                    Canonical(h, rows[c][h])
            /\ ProjectionsMatchEvents

\* The endpoint serves a chain that ends below a stored tip: every run fails on
\* the missing header until the chain has grown back.
ChainEndsBelowTip ==
    \E c \in Contract : /\ checkpoint[c] # NoCheckpoint
                        /\ checkpoint[c].tip # NoTip
                        /\ checkpoint[c].tip.number > Latest(chain)

\* scanner.go:37-41: a mismatch of any depth with the chain is corrected.
MismatchIsCorrected ==
    <>[](ChainEndsBelowTip \/ \A c \in Contract : \A h \in Height :
            rows[c][h] # NoBlock => Canonical(h, rows[c][h]))

\* However the chain moved and whatever failed, once both stop every tracked
\* contract is caught up with the chain, corrected, and stays so.
EventuallySynced == <>[](Synced \/ ChainEndsBelowTip \/ Latest(chain) < Confirmations - 1)
=============================================================================
