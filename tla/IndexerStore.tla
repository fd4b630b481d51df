---------------------------- MODULE IndexerStore ----------------------------
(***************************************************************************)
(* The indexer's tables and the operations of its repository               *)
(* (src/backend/internal/indexer/postgres.go, migration 0008): checkpoints,*)
(* canonical block rows, event rows and projections, per contract.         *)
(*                                                                         *)
(* Every operation is one SQL statement or one transaction that first      *)
(* locks the contract's checkpoint row, so each is one atomic action; what *)
(* a caller read before is an argument, and may be stale. A call that      *)
(* returns an error has rolled back and changes nothing: it is no action   *)
(* here. IndexerStore!Spec lets any caller make any call the validation    *)
(* accepts, in any order; the scanner's calls are a subset.                *)
(*                                                                         *)
(* Not modelled: identity columns, created_at and observed_at, parent_hash *)
(* (stored, read by nothing), and last_error, which a CHECK ties to        *)
(* status = 'error' and every statement writes together with status.       *)
(***************************************************************************)
EXTENDS Projections

CONSTANT StartBlock     \* [Contract -> Height]: contracts.start_block

ASSUME StartBlockAssumption == StartBlock \in [Contract -> Height]

VARIABLES
    checkpoint,     \* indexer_checkpoints: NoCheckpoint or a record, per contract
    rows,           \* indexed_blocks: the stored hash of a height, or NoBlock
    live,           \* contract_events with removed = FALSE
    removed,        \* contract_events with removed = TRUE
    projection      \* multisig_transactions, transaction_confirmations

storeVars == <<checkpoint, rows, live, removed, projection>>

NoCheckpoint == [status |-> "no checkpoint"]
NoBlock == "no block"
NoTip == [hash |-> NoBlock]

ASSUME NoBlockAssumption == NoBlock \notin Block

Status == {"pending", "running", "idle", "error", "disabled", "unsupported"}

Tip == [number : Height, hash : Block] \cup {NoTip}

\* next_block, last_indexed_block with its hash, status
Checkpoint == [next : 0..(MaxHeight + 1), tip : Tip, status : Status]

\* Assigns only the given contract's part of the five tables.
Write(c, cp, rs, lv, rm, pr) ==
    /\ checkpoint' = [checkpoint EXCEPT ![c] = cp]
    /\ rows' = [rows EXCEPT ![c] = rs]
    /\ live' = [live EXCEPT ![c] = lv]
    /\ removed' = [removed EXCEPT ![c] = rm]
    /\ projection' = [projection EXCEPT ![c] = pr]

WriteCheckpoint(c, cp) ==
    /\ checkpoint' = [checkpoint EXCEPT ![c] = cp]
    /\ UNCHANGED <<rows, live, removed, projection>>

StoreInit ==
    /\ checkpoint = [c \in Contract |-> NoCheckpoint]
    /\ rows = [c \in Contract |-> [h \in Height |-> NoBlock]]
    /\ live = [c \in Contract |-> {}]
    /\ removed = [c \in Contract |-> {}]
    /\ projection = [c \in Contract |-> NoProjections]

-----------------------------------------------------------------------------
\* The row EnsureCheckpoint inserts, and the row it reads back.
InitialCheckpoint(c) == [next |-> StartBlock[c], tip |-> NoTip, status |-> "pending"]

EnsuredCheckpoint(c) ==
    IF checkpoint[c] = NoCheckpoint THEN InitialCheckpoint(c) ELSE checkpoint[c]

EnsureCheckpoint(c) == WriteCheckpoint(c, EnsuredCheckpoint(c))

SetCheckpointStatus(c, status) ==
    /\ checkpoint[c] # NoCheckpoint
    /\ WriteCheckpoint(c, [checkpoint[c] EXCEPT !.status = status])

\* Startup of a process: a range another process had in progress is due again.
ResetRunningCheckpoints ==
    /\ checkpoint' = [c \in Contract |->
            IF checkpoint[c].status = "running"
            THEN [checkpoint[c] EXCEPT !.status = "pending"]
            ELSE checkpoint[c]]
    /\ UNCHANGED <<rows, live, removed, projection>>

-----------------------------------------------------------------------------
\* One header per height of a range, each carrying its number (evm.checkHeaderNumber).
Headers(from, to) ==
    {blocks \in [from..to -> Block] : \A h \in from..to : Number[blocks[h]] = h}

OccurrencesOf(c, blocks) == UNION {OccurrencesIn(c, blocks[h]) : h \in DOMAIN blocks}

\* RangeCommit, with what Validate demands. Its events are a set, which the
\* operations replay in canonical order.
IsRangeCommit(c, commit) ==
    /\ commit.from \in Height /\ commit.to \in commit.from..MaxHeight
    /\ commit.status \in {"idle", "pending"}
    /\ commit.blocks \in Headers(commit.from, commit.to)
    /\ commit.events \subseteq OccurrencesOf(c, commit.blocks)

\* insertBlockHeaders: rows already stored stay, and must carry the same hash.
Conflicts(c, commit) ==
    \E h \in commit.from..commit.to : rows[c][h] \notin {NoBlock, commit.blocks[h]}

AcceptedOverConflict(c, commit) ==
    /\ checkpoint[c] # NoCheckpoint
    /\ commit.from <= checkpoint[c].next
    /\ checkpoint[c].status \notin {"disabled", "unsupported"}

\* Neither ErrCheckpointGap, ErrCheckpointNotIndexable nor ErrConflictingBlockHash.
CommitAccepted(c, commit) ==
    /\ checkpoint[c] # NoCheckpoint
    /\ commit.from <= checkpoint[c].next
    /\ checkpoint[c].status \notin {"disabled", "unsupported"}
    /\ ~Conflicts(c, commit)

Advancing(c, commit) == commit.from = checkpoint[c].next

AdvancedPastGap(commit) ==
    [next |-> commit.to + 2,
     tip |-> [number |-> commit.to, hash |-> commit.blocks[commit.to]],
     status |-> commit.status]

AdvancedCheckpoint(commit) ==
    [next |-> commit.to + 1,
     tip |-> [number |-> commit.to, hash |-> commit.blocks[commit.to]],
     status |-> commit.status]

\* A commit that starts below next_block replays a range: the rows are applied
\* and the checkpoint keeps its position and status.
CommitRange(c, commit) ==
    /\ CommitAccepted(c, commit)
    /\ Write(c,
             IF Advancing(c, commit) THEN AdvancedCheckpoint(commit) ELSE checkpoint[c],
             [h \in Height |-> IF h \in commit.from..commit.to THEN commit.blocks[h]
                                                               ELSE rows[c][h]],
             live[c] \cup commit.events,
             removed[c] \ commit.events,
             ApplyProjections(c, projection[c], commit.events))

-----------------------------------------------------------------------------
AboveNext(events, height) == {o \in events : Number[o[1]] > height + 1}
AtOrAbove(events, height) == {o \in events : Number[o[1]] >= height}

Above(events, height) == {o \in events : Number[o[1]] > height}

\* The ancestor must be below next_block and stored.
RewindAccepted(c, ancestor) ==
    /\ checkpoint[c] # NoCheckpoint
    /\ ancestor < checkpoint[c].next
    /\ rows[c][ancestor] # NoBlock

RewoundWithOldHash(c, ancestor) ==
    [next |-> ancestor + 1,
     tip |-> [number |-> ancestor, hash |-> checkpoint[c].tip.hash],
     status |-> "pending"]

RewoundCheckpoint(c, ancestor) ==
    [next |-> ancestor + 1,
     tip |-> [number |-> ancestor, hash |-> rows[c][ancestor]],
     status |-> "pending"]

RowsWithOneTooMany(c, ancestor) ==
    [h \in Height |-> IF h > ancestor + 1 THEN NoBlock ELSE rows[c][h]]
RowsBelow(c, ancestor) ==
    [h \in Height |-> IF h >= ancestor THEN NoBlock ELSE rows[c][h]]

RowsUpTo(c, ancestor) ==
    [h \in Height |-> IF h > ancestor THEN NoBlock ELSE rows[c][h]]

RewindDeletingEvents(c, ancestor) ==
    LET orphaned == Above(live[c], ancestor)
    IN  /\ RewindAccepted(c, ancestor)
        /\ Write(c, RewoundCheckpoint(c, ancestor), RowsUpTo(c, ancestor),
                 live[c] \ orphaned, removed[c], Rebuilt(c, live[c] \ orphaned))

RewindWithoutRebuild(c, ancestor) ==
    LET orphaned == Above(live[c], ancestor)
    IN  /\ RewindAccepted(c, ancestor)
        /\ Write(c, RewoundCheckpoint(c, ancestor), RowsUpTo(c, ancestor),
                 live[c] \ orphaned, removed[c] \cup orphaned, projection[c])

RewindToAncestor(c, ancestor) ==
    LET orphaned == Above(live[c], ancestor)
    IN  /\ RewindAccepted(c, ancestor)
        /\ Write(c,
                 RewoundCheckpoint(c, ancestor),
                 RowsUpTo(c, ancestor),
                 live[c] \ orphaned,
                 removed[c] \cup orphaned,
                 Rebuilt(c, live[c] \ orphaned))

RewindToStart(c) ==
    /\ checkpoint[c] # NoCheckpoint
    /\ Write(c, InitialCheckpoint(c), [h \in Height |-> NoBlock],
             {}, removed[c] \cup live[c], Rebuilt(c, {}))

\* An operation of the port that no code of the process calls yet.
RebuildProjections(c) ==
    /\ checkpoint[c] # NoCheckpoint
    /\ projection' = [projection EXCEPT ![c] = Rebuilt(c, live[c])]
    /\ UNCHANGED <<checkpoint, rows, live, removed>>

-----------------------------------------------------------------------------
\* Every commit Validate accepts.
RangeCommits(c, from, to) ==
    UNION {[from : {from}, to : {to}, status : {"idle", "pending"}, blocks : {blocks},
            events : SUBSET OccurrencesOf(c, blocks)] : blocks \in Headers(from, to)}

StoreStep(c) ==
    \/ EnsureCheckpoint(c)
    \/ \E status \in Status : SetCheckpointStatus(c, status)
    \/ \E from \in Height : \E to \in from..MaxHeight :
            \E commit \in RangeCommits(c, from, to) : CommitRange(c, commit)
    \/ \E ancestor \in Height : RewindToAncestor(c, ancestor)
    \/ RewindToStart(c)
    \/ RebuildProjections(c)

StoreNext == ResetRunningCheckpoints \/ \E c \in Contract : StoreStep(c)

StoreSpec == StoreInit /\ [][StoreNext]_storeVars

-----------------------------------------------------------------------------
(* Properties. *)

\* The tables hold rows of the types migration 0008 gives them, one row for an
\* occurrence. (That the projections are well formed follows from
\* ProjectionsMatchEvents where it holds; the replay is a fold and gets no type.)
StoreTypeOK ==
    /\ checkpoint \in [Contract -> Checkpoint \cup {NoCheckpoint}]
    /\ rows \in [Contract -> [Height -> Block \cup {NoBlock}]]
    /\ live \in [Contract -> SUBSET (Block \X Nat)]
    /\ removed \in [Contract -> SUBSET (Block \X Nat)]
    /\ \A c \in Contract : live[c] \cap removed[c] = {}
    /\ DOMAIN projection = Contract

\* No gap: every height from the start block up to next_block is stored, however
\* commits, replays and rewinds of any number of callers are ordered.
NoUnindexedGap ==
    \A c \in Contract : checkpoint[c] # NoCheckpoint =>
        \A h \in StartBlock[c]..(checkpoint[c].next - 1) : rows[c][h] # NoBlock

\* The checkpoint's last indexed block is the stored block just below next_block.
\* The tip check compares that hash alone with the chain, so a checkpoint and a
\* row that disagree would hide a reorganization.
TipIsStored ==
    \A c \in Contract : checkpoint[c] # NoCheckpoint =>
        LET cp == checkpoint[c]
        IN  IF cp.tip = NoTip THEN cp.next = StartBlock[c]
            ELSE /\ cp.next = cp.tip.number + 1
                 /\ rows[c][cp.tip.number] = cp.tip.hash

\* An event is served to readers only while its block is a stored canonical
\* block: a rewind never leaves the events of a dropped block live, and a commit
\* never makes an event live whose block lost against the stored hash.
LiveEventsAreOfStoredBlocks ==
    \A c \in Contract : \A o \in live[c] : rows[c][Number[o[1]]] = o[1]

\* The checkpoint, the block rows and the event rows of a contract agree, whatever
\* callers of the repository commit, replay and rewind, and in whatever order.
TablesAgree == NoUnindexedGap /\ TipIsStored /\ LiveEventsAreOfStoredBlocks

\* Event rows are history: no operation deletes one.
EventHistoryKept ==
    [][\A c \in Contract : live[c] \cup removed[c] \subseteq live'[c] \cup removed'[c]]_storeVars

\* docs/architecture.md: the occurrence key "is what makes a replayed range a
\* no-op". A commit whose blocks and events are all stored and live already
\* leaves checkpoint, blocks and events alone; it must leave the projections too.
ReplayedRangeIsNoOp ==
    [][UNCHANGED <<checkpoint, rows, live, removed>> => UNCHANGED projection]_storeVars

\* The projections are what a rebuild from the live events would produce.
ProjectionsMatchEvents == \A c \in Contract : projection[c] = Rebuilt(c, live[c])
=============================================================================
