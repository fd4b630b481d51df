------------------------- MODULE IndexerStoreProofs -------------------------
(***************************************************************************)
(* The repository keeps its tables consistent for every number of          *)
(* contracts, every chain and every order of calls by any number of        *)
(* callers: the invariants TLC checks on small instances, proved.          *)
(*                                                                         *)
(* The second half is about the replay of events, for every finite set of  *)
(* events of one chain. ApplyProjections is a recursion, so a fact about   *)
(* it is proved by taking a smallest set of events without it (Smallest):  *)
(* that the recursion exists and has one value, that what comes later may  *)
(* be replayed on top of what came before, that replaying the last events  *)
(* again changes nothing, and what the rows then say of the events.        *)
(***************************************************************************)
EXTENDS IndexerStore, FiniteSetTheorems, WellFoundedInduction, TLAPS

\* The invariant is inductive as the conjunction of the checked ones: a commit
\* needs NoUnindexedGap for the heights below its range, and an event stays live
\* through a commit only because the stored hash of its block stays.
StoreInv ==
    /\ StoreTypeOK
    /\ NoUnindexedGap
    /\ TipIsStored
    /\ LiveEventsAreOfStoredBlocks

\* The same, of the part of the tables that belongs to one contract.
PartInv(c, cp, rs, lv, rm) ==
    /\ cp \in Checkpoint \cup {NoCheckpoint}
    /\ rs \in [Height -> Block \cup {NoBlock}]
    /\ lv \subseteq Block \X Nat /\ rm \subseteq Block \X Nat
    /\ cp # NoCheckpoint => /\ \A h \in StartBlock[c]..(cp.next - 1) : rs[h] # NoBlock
                            /\ IF cp.tip = NoTip THEN cp.next = StartBlock[c]
                               ELSE cp.next = cp.tip.number + 1 /\ rs[cp.tip.number] = cp.tip.hash
    /\ \A o \in lv : rs[Number[o[1]]] = o[1]
    /\ lv \cap rm = {}

Tables ==
    /\ checkpoint = [c \in Contract |-> checkpoint[c]]
    /\ rows = [c \in Contract |-> rows[c]]
    /\ live = [c \in Contract |-> live[c]]
    /\ removed = [c \in Contract |-> removed[c]]
    /\ DOMAIN projection = Contract

LEMMA StoreInvByContract ==
    StoreInv <=> /\ Tables
                 /\ \A c \in Contract : PartInv(c, checkpoint[c], rows[c], live[c], removed[c])
<1>1. StoreTypeOK <=>
        /\ Tables
        /\ \A c \in Contract : /\ live[c] \cap removed[c] = {}
                               /\ checkpoint[c] \in Checkpoint \cup {NoCheckpoint}
                               /\ rows[c] \in [Height -> Block \cup {NoBlock}]
                               /\ live[c] \subseteq Block \X Nat
                               /\ removed[c] \subseteq Block \X Nat
  BY DEF StoreTypeOK, Tables
<1> QED
  BY <1>1 DEF StoreInv, PartInv, NoUnindexedGap, TipIsStored,
              LiveEventsAreOfStoredBlocks

LEMMA StoreInvByContractNext ==
    (/\ Tables
     /\ \A c \in Contract : PartInv(c, checkpoint[c], rows[c], live[c], removed[c]))' => StoreInv'
  BY StoreInvByContract, PTL

\* A step that writes one contract's part of the tables keeps the invariant when
\* the part it writes does.
Writes(c, cp, rs, lv, rm) ==
    /\ checkpoint' = [checkpoint EXCEPT ![c] = cp]
    /\ rows' = [rows EXCEPT ![c] = rs]
    /\ live' = [live EXCEPT ![c] = lv]
    /\ removed' = [removed EXCEPT ![c] = rm]
    /\ DOMAIN projection' = Contract

LEMMA WriteKeeps ==
    ASSUME StoreInv, NEW c \in Contract, NEW cp, NEW rs, NEW lv, NEW rm,
           PartInv(c, cp, rs, lv, rm), Writes(c, cp, rs, lv, rm)
    PROVE  StoreInv'
<1>1. Tables /\ \A d \in Contract : PartInv(d, checkpoint[d], rows[d], live[d], removed[d])
  BY StoreInvByContract
<1>2. Tables'
  BY <1>1 DEF Tables, Writes
<1>3. \A d \in Contract : PartInv(d, checkpoint'[d], rows'[d], live'[d], removed'[d])
  <2> SUFFICES ASSUME NEW d \in Contract
               PROVE  PartInv(d, checkpoint'[d], rows'[d], live'[d], removed'[d])
    OBVIOUS
  <2>1. CASE d = c
    <3>1. checkpoint'[d] = cp /\ rows'[d] = rs /\ live'[d] = lv /\ removed'[d] = rm
      BY <1>1, <2>1 DEF Tables, Writes
    <3> QED  BY <2>1, <3>1
  <2>2. CASE d # c
    <3>1. /\ checkpoint'[d] = checkpoint[d] /\ rows'[d] = rows[d]
          /\ live'[d] = live[d] /\ removed'[d] = removed[d]
      BY <1>1, <2>2 DEF Tables, Writes
    <3> QED  BY <1>1, <3>1
  <2> QED  BY <2>1, <2>2
<1>4. (Tables /\ \A d \in Contract : PartInv(d, checkpoint[d], rows[d], live[d], removed[d]))'
  BY <1>2, <1>3
<1> QED  BY <1>4, StoreInvByContractNext

LEMMA WriteCheckpointKeeps ==
    ASSUME StoreInv, NEW c \in Contract, NEW cp,
           PartInv(c, cp, rows[c], live[c], removed[c]), WriteCheckpoint(c, cp)
    PROVE  StoreInv'
<1>1. Tables
  BY StoreInvByContract
<1>2. Writes(c, cp, rows[c], live[c], removed[c])
  BY <1>1 DEF Tables, Writes, WriteCheckpoint
<1> QED  BY <1>2, WriteKeeps

-----------------------------------------------------------------------------
(* What each operation writes. *)

LEMMA StartBlockType == \A c \in Contract : StartBlock[c] \in Height /\ StartBlock[c] \in Nat
  BY StartBlockAssumption, HeightAssumption DEF Height

LEMMA InitialCheckpointType ==
    ASSUME NEW c \in Contract
    PROVE  /\ InitialCheckpoint(c) \in Checkpoint
           /\ InitialCheckpoint(c).tip = NoTip
           /\ InitialCheckpoint(c).next = StartBlock[c]
  BY StartBlockType, HeightAssumption DEF InitialCheckpoint, Checkpoint, Tip, Status, Height

\* The position of a contract that has indexed nothing.
LEMMA InitialPart ==
    ASSUME NEW c \in Contract, NEW cp, NEW rs, NEW lv, NEW rm, PartInv(c, cp, rs, lv, rm)
    PROVE  PartInv(c, InitialCheckpoint(c), rs, lv, rm)
<1>1. StartBlock[c]..(InitialCheckpoint(c).next - 1) = {}
  BY InitialCheckpointType, StartBlockType
<1> QED  BY <1>1, InitialCheckpointType DEF PartInv

LEMMA StatusPart ==
    ASSUME NEW c \in Contract, NEW cp, NEW rs, NEW lv, NEW rm, PartInv(c, cp, rs, lv, rm),
           cp # NoCheckpoint, NEW status \in Status
    PROVE  PartInv(c, [cp EXCEPT !.status = status], rs, lv, rm)
<1> DEFINE new == [cp EXCEPT !.status = status]
<1>1. cp \in Checkpoint  BY DEF PartInv
<1>2. new \in Checkpoint /\ new.next = cp.next /\ new.tip = cp.tip
  BY <1>1 DEF Checkpoint
<1> HIDE DEF new
<1>3. PartInv(c, new, rs, lv, rm)  BY <1>2 DEF PartInv
<1> QED  BY <1>3 DEF new

LEMMA EnsureCheckpointKeeps ==
    ASSUME StoreInv, NEW c \in Contract, EnsureCheckpoint(c)
    PROVE  StoreInv'
<1>1. PartInv(c, checkpoint[c], rows[c], live[c], removed[c])
  BY StoreInvByContract
<1>2. PartInv(c, EnsuredCheckpoint(c), rows[c], live[c], removed[c])
  BY <1>1, InitialPart DEF EnsuredCheckpoint
<1> QED  BY <1>2, WriteCheckpointKeeps DEF EnsureCheckpoint

LEMMA SetCheckpointStatusKeeps ==
    ASSUME StoreInv, NEW c \in Contract, NEW status \in Status, SetCheckpointStatus(c, status)
    PROVE  StoreInv'
<1>1. PartInv(c, checkpoint[c], rows[c], live[c], removed[c]) /\ checkpoint[c] # NoCheckpoint
  BY StoreInvByContract DEF SetCheckpointStatus
<1>2. PartInv(c, [checkpoint[c] EXCEPT !.status = status], rows[c], live[c], removed[c])
  BY <1>1, StatusPart
<1> QED  BY <1>2, WriteCheckpointKeeps DEF SetCheckpointStatus

LEMMA ResetRunningKeeps ==
    ASSUME StoreInv, ResetRunningCheckpoints
    PROVE  StoreInv'
<1>1. Tables /\ \A d \in Contract : PartInv(d, checkpoint[d], rows[d], live[d], removed[d])
  BY StoreInvByContract
<1>2. Tables'
  BY <1>1 DEF Tables, ResetRunningCheckpoints
<1>3. \A d \in Contract : PartInv(d, checkpoint'[d], rows'[d], live'[d], removed'[d])
  <2> SUFFICES ASSUME NEW d \in Contract
               PROVE  PartInv(d, checkpoint'[d], rows[d], live[d], removed[d])
    BY DEF ResetRunningCheckpoints
  <2>1. PartInv(d, checkpoint[d], rows[d], live[d], removed[d])  BY <1>1
  <2>2. CASE checkpoint[d].status = "running"
    <3>1. checkpoint[d] # NoCheckpoint
      <4>1. NoCheckpoint.status # "running"  BY DEF NoCheckpoint
      <4> QED  BY <2>2, <4>1
    <3>2. checkpoint'[d] = [checkpoint[d] EXCEPT !.status = "pending"]
      BY <2>2 DEF ResetRunningCheckpoints
    <3>3. "pending" \in Status  BY DEF Status
    <3> QED  BY <2>1, <3>1, <3>2, <3>3, StatusPart
  <2>3. CASE checkpoint[d].status # "running"
    BY <2>1, <2>3 DEF ResetRunningCheckpoints
  <2> QED  BY <2>2, <2>3
<1>4. (Tables /\ \A d \in Contract : PartInv(d, checkpoint[d], rows[d], live[d], removed[d]))'
  BY <1>2, <1>3
<1> QED  BY <1>4, StoreInvByContractNext

-----------------------------------------------------------------------------
(* Commits and rewinds. *)

LEMMA OccurrenceType ==
    ASSUME NEW c \in Contract, NEW b \in Block
    PROVE  OccurrencesIn(c, b) \subseteq Block \X Nat
<1>1. Logs[c][b] \in Seq(Log)  BY LogsAssumption
<1>2. DOMAIN Logs[c][b] \subseteq Nat  BY <1>1
<1> QED  BY <1>2 DEF OccurrencesIn

\* An event of a valid commit is of the block the commit has at its height.
LEMMA CommitEvents ==
    ASSUME NEW c \in Contract, NEW commit, IsRangeCommit(c, commit), NEW o \in commit.events
    PROVE  /\ o \in Block \X Nat
           /\ Number[o[1]] \in commit.from..commit.to
           /\ commit.blocks[Number[o[1]]] = o[1]
<1> DEFINE range == commit.from..commit.to
<1>1. commit.blocks \in [range -> Block] /\ \A h \in range : Number[commit.blocks[h]] = h
  BY DEF IsRangeCommit, Headers
<1>2. DOMAIN commit.blocks = range  BY <1>1
<1>3. PICK h \in range : o \in OccurrencesIn(c, commit.blocks[h])
  BY <1>2 DEF IsRangeCommit, OccurrencesOf
<1>4. commit.blocks[h] \in Block  BY <1>1
<1>5. o[1] = commit.blocks[h]  BY <1>3 DEF OccurrencesIn
<1> QED  BY <1>1, <1>3, <1>4, <1>5, OccurrenceType

\* A block is never the value of an empty row, so a tip is never NoTip.
LEMMA TipType ==
    ASSUME NEW b \in Block, NEW h \in Height
    PROVE  [number |-> h, hash |-> b] \in Tip /\ [number |-> h, hash |-> b] # NoTip
<1>1. [number |-> h, hash |-> b].hash # NoTip.hash  BY NoBlockAssumption DEF NoTip
<1> QED  BY <1>1 DEF Tip

LEMMA CommitRangeKeeps ==
    ASSUME StoreInv, NEW c \in Contract, NEW commit, IsRangeCommit(c, commit),
           CommitRange(c, commit)
    PROVE  StoreInv'
<1> DEFINE range == commit.from..commit.to
           cp == IF Advancing(c, commit) THEN AdvancedCheckpoint(commit) ELSE checkpoint[c]
           rs == [h \in Height |-> IF h \in range THEN commit.blocks[h] ELSE rows[c][h]]
           lv == live[c] \cup commit.events
           rm == removed[c] \ commit.events
<1>1. /\ PartInv(c, checkpoint[c], rows[c], live[c], removed[c])
      /\ checkpoint[c] # NoCheckpoint /\ checkpoint[c] \in Checkpoint
  BY StoreInvByContract DEF PartInv, CommitRange, CommitAccepted
<1>2. /\ commit.from \in Nat /\ commit.to \in Nat /\ commit.from <= commit.to
      /\ commit.to \in Height /\ range \subseteq Height
      /\ commit.blocks \in [range -> Block]
  BY HeightAssumption DEF IsRangeCommit, Headers, Height
<1>3. rs \in [Height -> Block \cup {NoBlock}]
  BY <1>1, <1>2 DEF PartInv
<1>4. \A h \in Height : rows[c][h] # NoBlock => rs[h] = rows[c][h]
  BY <1>2 DEF CommitRange, CommitAccepted, Conflicts
<1>5. \A h \in range : rs[h] = commit.blocks[h] /\ rs[h] \in Block /\ rs[h] # NoBlock
  BY <1>2, NoBlockAssumption
<1>6. cp \in Checkpoint
  BY <1>1, <1>2, TipType, HeightAssumption
     DEF AdvancedCheckpoint, Checkpoint, Status, IsRangeCommit, Height
<1>7. \A h \in StartBlock[c]..(cp.next - 1) : rs[h] # NoBlock
  <2> SUFFICES ASSUME NEW h \in StartBlock[c]..(cp.next - 1) PROVE rs[h] # NoBlock
    OBVIOUS
  <2>1. h \in Height
    BY <1>6, StartBlockType, HeightAssumption DEF Checkpoint, Height
  <2>2. CASE h \in range  BY <1>5, <2>2
  <2>3. CASE h \notin range
    <3>1. h \in StartBlock[c]..(checkpoint[c].next - 1)
      BY <1>1, <1>2, <2>1, <2>3, StartBlockType
         DEF Advancing, AdvancedCheckpoint, Checkpoint, Height
    <3> QED  BY <1>1, <1>4, <2>1, <3>1 DEF PartInv
  <2> QED  BY <2>2, <2>3
<1>8. IF cp.tip = NoTip THEN cp.next = StartBlock[c]
      ELSE cp.next = cp.tip.number + 1 /\ rs[cp.tip.number] = cp.tip.hash
  <2>1. CASE Advancing(c, commit)
    <3>1. commit.to \in range /\ commit.blocks[commit.to] \in Block  BY <1>2
    <3>2. cp.tip = [number |-> commit.to, hash |-> commit.blocks[commit.to]]
          /\ cp.next = commit.to + 1
      BY <2>1 DEF AdvancedCheckpoint
    <3>3. cp.tip # NoTip  BY <1>2, <3>1, <3>2, TipType
    <3> QED  BY <1>5, <3>1, <3>2, <3>3
  <2>2. CASE ~Advancing(c, commit)
    <3>1. cp = checkpoint[c]  BY <2>2
    <3>2. CASE cp.tip = NoTip  BY <1>1, <3>1, <3>2 DEF PartInv
    <3>3. CASE cp.tip # NoTip
      <4>1. cp.tip.number \in Height /\ cp.tip.hash \in Block
        BY <1>6, <3>3 DEF Checkpoint, Tip
      <4> QED  BY <1>1, <1>4, <3>1, <3>3, <4>1, NoBlockAssumption DEF PartInv
    <3> QED  BY <3>2, <3>3
  <2> QED  BY <2>1, <2>2
<1>9. \A o \in lv : rs[Number[o[1]]] = o[1]
  <2> SUFFICES ASSUME NEW o \in lv PROVE rs[Number[o[1]]] = o[1]
    OBVIOUS
  <2>1. CASE o \in commit.events  BY <1>5, <2>1, CommitEvents
  <2>2. CASE o \in live[c]
    <3>1. o[1] \in Block /\ Number[o[1]] \in Height
      BY <1>1, <2>2, NumberAssumption DEF PartInv
    <3>2. rows[c][Number[o[1]]] = o[1]  BY <1>1, <2>2 DEF PartInv
    <3> QED  BY <1>4, <3>1, <3>2, NoBlockAssumption
  <2> QED  BY <2>1, <2>2
<1>10. lv \subseteq Block \X Nat /\ rm \subseteq Block \X Nat /\ lv \cap rm = {}
  BY <1>1, CommitEvents DEF PartInv
<1> HIDE DEF cp, rs, lv, rm
<1>11. PartInv(c, cp, rs, lv, rm)
  BY <1>3, <1>6, <1>7, <1>8, <1>9, <1>10 DEF PartInv
<1>12. Writes(c, cp, rs, lv, rm)
  BY StoreInvByContract DEF CommitRange, Write, Writes, Tables, cp, rs, lv, rm
<1> QED  BY <1>11, <1>12, WriteKeeps

LEMMA RewindToAncestorKeeps ==
    ASSUME StoreInv, NEW c \in Contract, NEW ancestor \in Height, RewindToAncestor(c, ancestor)
    PROVE  StoreInv'
<1> DEFINE orphaned == Above(live[c], ancestor)
           cp == RewoundCheckpoint(c, ancestor)
           rs == RowsUpTo(c, ancestor)
           lv == live[c] \ orphaned
           rm == removed[c] \cup orphaned
<1>1. /\ PartInv(c, checkpoint[c], rows[c], live[c], removed[c])
      /\ checkpoint[c] # NoCheckpoint /\ checkpoint[c] \in Checkpoint
      /\ ancestor < checkpoint[c].next /\ rows[c][ancestor] \in Block
  BY StoreInvByContract DEF PartInv, RewindToAncestor, RewindAccepted
<1>2. rs \in [Height -> Block \cup {NoBlock}]
  BY <1>1 DEF PartInv, RowsUpTo
<1>3. ancestor \in Nat /\ \A h \in Height : h \in Nat
  BY HeightAssumption DEF Height
<1>4. rs[ancestor] = rows[c][ancestor]  BY <1>3 DEF RowsUpTo
<1>5. cp \in Checkpoint /\ cp.tip # NoTip /\ cp.next = ancestor + 1
      /\ cp.tip.number = ancestor /\ cp.tip.hash = rs[ancestor]
  BY <1>1, <1>3, <1>4, TipType, HeightAssumption
     DEF RewoundCheckpoint, Checkpoint, Status, Height
<1>6. \A h \in StartBlock[c]..(cp.next - 1) : rs[h] # NoBlock
  <2> SUFFICES ASSUME NEW h \in StartBlock[c]..(cp.next - 1) PROVE rs[h] # NoBlock
    OBVIOUS
  <2>1. h \in Height /\ h <= ancestor
    BY <1>5, <1>3, StartBlockType, HeightAssumption DEF Height
  <2>2. h \in StartBlock[c]..(checkpoint[c].next - 1)
    BY <1>1, <1>3, <2>1, StartBlockType, HeightAssumption DEF Checkpoint, Height
  <2>3. rs[h] = rows[c][h]  BY <1>3, <2>1 DEF RowsUpTo
  <2> QED  BY <1>1, <2>2, <2>3 DEF PartInv
<1>7. \A o \in lv : rs[Number[o[1]]] = o[1]
  <2> SUFFICES ASSUME NEW o \in lv PROVE rs[Number[o[1]]] = o[1]
    OBVIOUS
  <2>1. o[1] \in Block /\ Number[o[1]] \in Height
    BY <1>1, NumberAssumption DEF PartInv
  <2>2. rows[c][Number[o[1]]] = o[1]  BY <1>1 DEF PartInv
  <2>3. ~(Number[o[1]] > ancestor)  BY DEF Above
  <2> QED  BY <2>1, <2>2, <2>3 DEF RowsUpTo
<1>8. lv \subseteq Block \X Nat /\ rm \subseteq Block \X Nat /\ lv \cap rm = {}
  BY <1>1 DEF PartInv, Above
<1>9. Writes(c, cp, rs, lv, rm)
  BY StoreInvByContract DEF RewindToAncestor, Write, Writes, Tables
<1> HIDE DEF cp, rs, lv, rm
<1>10. PartInv(c, cp, rs, lv, rm)
  BY <1>2, <1>5, <1>6, <1>7, <1>8 DEF PartInv
<1> QED  BY <1>9, <1>10, WriteKeeps

LEMMA RewindToStartKeeps ==
    ASSUME StoreInv, NEW c \in Contract, RewindToStart(c)
    PROVE  StoreInv'
<1> DEFINE rs == [h \in Height |-> NoBlock]
           rm == removed[c] \cup live[c]
<1>1. PartInv(c, checkpoint[c], rows[c], live[c], removed[c])
  BY StoreInvByContract
<1>2. PartInv(c, NoCheckpoint, rs, {}, rm)
  BY <1>1 DEF PartInv
<1>3. PartInv(c, InitialCheckpoint(c), rs, {}, rm)
  BY <1>2, InitialPart
<1>4. Writes(c, InitialCheckpoint(c), rs, {}, rm)
  BY StoreInvByContract DEF RewindToStart, Write, Writes, Tables
<1> QED  BY <1>3, <1>4, WriteKeeps

LEMMA RebuildProjectionsKeeps ==
    ASSUME StoreInv, NEW c \in Contract, RebuildProjections(c)
    PROVE  StoreInv'
<1>1. DOMAIN projection' = Contract
  BY DEF RebuildProjections, StoreInv, StoreTypeOK
<1> QED
  BY <1>1 DEF RebuildProjections, StoreInv, StoreTypeOK, NoUnindexedGap, TipIsStored,
              LiveEventsAreOfStoredBlocks

-----------------------------------------------------------------------------
LEMMA RangeCommitsValid ==
    ASSUME NEW c \in Contract, NEW from \in Height, NEW to \in from..MaxHeight,
           NEW commit \in RangeCommits(c, from, to)
    PROVE  IsRangeCommit(c, commit)
<1>1. PICK blocks \in Headers(from, to) :
            commit \in [from : {from}, to : {to}, status : {"idle", "pending"},
                        blocks : {blocks}, events : SUBSET OccurrencesOf(c, blocks)]
  BY DEF RangeCommits
<1>2. /\ commit.from = from /\ commit.to = to /\ commit.status \in {"idle", "pending"}
      /\ commit.blocks = blocks /\ commit.events \subseteq OccurrencesOf(c, blocks)
  BY <1>1
<1> QED  BY <1>2 DEF IsRangeCommit

LEMMA StoreInitially == StoreInit => StoreInv
  BY DEF StoreInit, StoreInv, StoreTypeOK, NoUnindexedGap, TipIsStored,
         LiveEventsAreOfStoredBlocks

LEMMA StoreStepKeeps == StoreInv /\ [StoreNext]_storeVars => StoreInv'
<1> SUFFICES ASSUME StoreInv, [StoreNext]_storeVars PROVE StoreInv'
  OBVIOUS
<1>1. CASE ResetRunningCheckpoints  BY <1>1, ResetRunningKeeps
<1>2. ASSUME NEW c \in Contract, StoreStep(c) PROVE StoreInv'
  <2>1. CASE EnsureCheckpoint(c)  BY <2>1, EnsureCheckpointKeeps
  <2>2. CASE \E status \in Status : SetCheckpointStatus(c, status)
    BY <2>2, SetCheckpointStatusKeeps
  <2>3. CASE \E from \in Height : \E to \in from..MaxHeight :
                \E commit \in RangeCommits(c, from, to) : CommitRange(c, commit)
    BY <2>3, RangeCommitsValid, CommitRangeKeeps
  <2>4. CASE \E ancestor \in Height : RewindToAncestor(c, ancestor)
    BY <2>4, RewindToAncestorKeeps
  <2>5. CASE RewindToStart(c)  BY <2>5, RewindToStartKeeps
  <2>6. CASE RebuildProjections(c)  BY <2>6, RebuildProjectionsKeeps
  <2> QED  BY <1>2, <2>1, <2>2, <2>3, <2>4, <2>5, <2>6 DEF StoreStep
<1>3. CASE UNCHANGED storeVars
  BY <1>3 DEF storeVars, StoreInv, StoreTypeOK, NoUnindexedGap, TipIsStored,
              LiveEventsAreOfStoredBlocks
<1> QED  BY <1>1, <1>2, <1>3 DEF StoreNext

\* Whatever calls the repository's callers make, in any order and from any number
\* of processes, the tables stay well typed, without a gap below next_block, with
\* the checkpoint's tip stored, and with events live only for stored blocks.
THEOREM StoreSafety == StoreSpec => [](StoreTypeOK /\ TablesAgree)
<1>1. StoreInit => StoreInv  BY StoreInitially
<1>2. StoreInv /\ [StoreNext]_storeVars => StoreInv'  BY StoreStepKeeps
<1>3. StoreSpec => []StoreInv  BY <1>1, <1>2, PTL DEF StoreSpec
<1>4. StoreInv => StoreTypeOK /\ TablesAgree  BY DEF StoreInv, TablesAgree
<1> QED  BY <1>3, <1>4, PTL

\* No call of any caller deletes an event row.
THEOREM StoreKeepsHistory == StoreSpec => EventHistoryKept
<1> DEFINE Kept == \A c \in Contract : live[c] \cup removed[c] \subseteq live'[c] \cup removed'[c]
<1>1. StoreInit => StoreInv  BY StoreInitially
<1>2. StoreInv /\ [StoreNext]_storeVars => StoreInv'  BY StoreStepKeeps
<1>3. StoreInv /\ [StoreNext]_storeVars => [Kept]_storeVars
  <2> SUFFICES ASSUME Tables, StoreNext PROVE Kept
    BY StoreInvByContract
  <2>1. CASE ResetRunningCheckpoints  BY <2>1 DEF ResetRunningCheckpoints
  <2>2. ASSUME NEW c \in Contract, NEW cp, NEW rs, NEW lv, NEW rm, NEW pr,
               Write(c, cp, rs, lv, rm, pr), live[c] \cup removed[c] \subseteq lv \cup rm
        PROVE  Kept
    BY <2>2 DEF Tables, Write
  <2>3. ASSUME NEW c \in Contract, StoreStep(c) PROVE Kept
    <3>1. CASE EnsureCheckpoint(c)  BY <3>1 DEF EnsureCheckpoint, WriteCheckpoint
    <3>2. CASE \E status \in Status : SetCheckpointStatus(c, status)
      BY <3>2 DEF SetCheckpointStatus, WriteCheckpoint
    <3>3. ASSUME NEW commit, CommitRange(c, commit) PROVE Kept
      <4>1. live[c] \cup removed[c] \subseteq
                (live[c] \cup commit.events) \cup (removed[c] \ commit.events)
        OBVIOUS
      <4> QED  BY <2>2, <3>3, <4>1 DEF CommitRange
    <3>4. ASSUME NEW ancestor, RewindToAncestor(c, ancestor) PROVE Kept
      <4> DEFINE orphaned == Above(live[c], ancestor)
      <4>1. live[c] \cup removed[c] \subseteq (live[c] \ orphaned) \cup (removed[c] \cup orphaned)
        OBVIOUS
      <4> QED  BY <2>2, <3>4, <4>1 DEF RewindToAncestor
    <3>5. CASE RewindToStart(c)  BY <2>2, <3>5 DEF RewindToStart
    <3>6. CASE RebuildProjections(c)  BY <3>6 DEF RebuildProjections
    <3> QED  BY <2>3, <3>1, <3>2, <3>3, <3>4, <3>5, <3>6 DEF StoreStep
  <2> QED  BY <2>1, <2>3 DEF StoreNext
<1> QED  BY <1>1, <1>2, <1>3, PTL DEF StoreSpec, EventHistoryKept

-----------------------------------------------------------------------------
(* Sets of events in canonical order. *)

\* The last event of a set in canonical order.
Last(S) == CHOOSE o \in S : \A p \in S \ {o} : Before(p, o)

\* Finitely many occurrences of the blocks of one chain: no two blocks of one height.
Line(S) ==
    /\ IsFiniteSet(S) /\ S \subseteq Block \X Nat
    /\ \A o, p \in S : Number[o[1]] = Number[p[1]] => o[1] = p[1]

\* The least element of a set of numbers, which stands for induction over them.
LEMMA Least == ASSUME NEW S, S \subseteq Nat, S # {} PROVE \E i \in S : \A j \in S : i <= j
<1> DEFINE R == OpToRel(<, Nat)
<1>1. IsWellFoundedOn(R, Nat)  BY NatLessThanWellFounded
<1>2. \A i, j \in Nat : i < j => <<i, j>> \in R  BY DEF OpToRel
<1> HIDE DEF R
<1>3. PICK i \in S : \A j \in S : ~(<<j, i>> \in R)  BY <1>1, WFMin
<1>4. ASSUME NEW j \in S PROVE i <= j
  <2>1. i \in Nat /\ j \in Nat /\ ~(j < i)  BY <1>2, <1>3
  <2> QED  BY <2>1
<1> QED  BY <1>4

\* Among subsets of a finite set one has the fewest elements: induction over finite sets
\* takes a smallest counterexample.
LEMMA Smallest ==
    ASSUME NEW S, IsFiniteSet(S), NEW family, family \subseteq SUBSET S, family # {}
    PROVE  \E T \in family : /\ IsFiniteSet(T) /\ Cardinality(T) \in Nat
                             /\ \A x \in T : /\ T \ {x} \notin family
                                             /\ Cardinality(T \ {x}) = Cardinality(T) - 1
<1> DEFINE sizes == {Cardinality(T) : T \in family}
<1>1. \A T \in family : IsFiniteSet(T) /\ Cardinality(T) \in Nat
  BY FS_Subset, FS_CardinalityType
<1>2. sizes \subseteq Nat /\ sizes # {}  BY <1>1
<1>3. PICK n \in sizes : \A m \in sizes : n <= m
  <2> HIDE DEF sizes
  <2> QED  BY <1>2, Least
<1>4. PICK T \in family : Cardinality(T) = n  BY <1>3
<1>5. \A x \in T : Cardinality(T \ {x}) = Cardinality(T) - 1
  BY <1>1, FS_RemoveElement
<1>6. ASSUME NEW x \in T PROVE T \ {x} \notin family
  <2>1. SUFFICES ASSUME T \ {x} \in family PROVE FALSE
    OBVIOUS
  <2>2. n <= Cardinality(T \ {x})  BY <1>3, <2>1
  <2>3. Cardinality(T \ {x}) = n - 1 /\ n \in Nat  BY <1>1, <1>4, <1>5
  <2> QED  BY <2>2, <2>3
<1> QED  BY <1>1, <1>5, <1>6

\* The order of a line.
LEMMA LineOrder ==
    ASSUME NEW S, Line(S)
    PROVE  /\ \A o, p \in S : o # p => Before(o, p) \/ Before(p, o)
           /\ \A o, p \in S : ~(Before(o, p) /\ Before(p, o))
           /\ \A o, p, q \in S : Before(o, p) /\ Before(p, q) => Before(o, q)
<1>1. \A o \in S : Number[o[1]] \in Int /\ o[2] \in Int /\ o = <<o[1], o[2]>>
  BY NumberAssumption, HeightAssumption DEF Line, Height
<1>2. \A o, p \in S : Number[o[1]] = Number[p[1]] => o[1] = p[1]  BY DEF Line
<1> QED  BY <1>1, <1>2 DEF Before

LEMMA LinePart == ASSUME NEW S, NEW T, Line(S), T \subseteq S PROVE Line(T)
<1>1. IsFiniteSet(T)  BY FS_Subset DEF Line
<1> QED  BY <1>1 DEF Line

\* A line that is not empty has a last event.
LEMMA HasLast ==
    ASSUME NEW S, Line(S), S # {}
    PROVE  Last(S) \in S /\ \A p \in S \ {Last(S)} : Before(p, Last(S))
<1> DEFINE Has(T) == \E o \in T : \A p \in T \ {o} : Before(p, o)
           bad == {T \in SUBSET S : T # {} /\ ~Has(T)}
<1>1. ASSUME bad # {} PROVE FALSE
  <2>1. bad \subseteq SUBSET S  OBVIOUS
  <2>2. PICK T \in bad : \A x \in T : T \ {x} \notin bad
    <3> HIDE DEF bad
    <3> QED  BY <1>1, <2>1, Smallest DEF Line
  <2>3. PICK x \in T : TRUE  OBVIOUS
  <2>4. CASE T \ {x} = {}  BY <2>4
  <2>5. CASE T \ {x} # {}
    <3>1. PICK y \in T \ {x} : \A p \in (T \ {x}) \ {y} : Before(p, y)
      BY <2>2, <2>3, <2>5
    <3>2. T \subseteq S  OBVIOUS
    <3>3. CASE Before(x, y)
      <4>1. \A p \in T \ {y} : Before(p, y)  BY <3>1, <3>3
      <4> QED  BY <3>1, <4>1
    <3>4. CASE Before(y, x)
      <4>1. \A p \in T \ {x} : Before(p, x)  BY <2>3, <3>1, <3>2, <3>4, LineOrder
      <4> QED  BY <2>3, <4>1
    <3> QED  BY <2>3, <3>1, <3>2, <3>3, <3>4, LineOrder
  <2> QED  BY <2>4, <2>5
<1>2. Has(S)  BY <1>1
<1> QED  BY <1>2 DEF Last

LEMMA LastIs ==
    ASSUME NEW S, Line(S), NEW o \in S, \A p \in S \ {o} : Before(p, o)
    PROVE  Last(S) = o
  BY HasLast, LineOrder

-----------------------------------------------------------------------------
(* The replay is the recursion it looks like. *)

IsReplay(f, c, table, S) ==
    f = [T \in SUBSET S |-> IF T = {} THEN table ELSE Project(c, Last(T), f[T \ {Last(T)}])]

Upto(S, n) == {T \in SUBSET S : Cardinality(T) <= n}

IsReplayUpto(f, c, table, S, n) ==
    f = [T \in Upto(S, n) |-> IF T = {} THEN table ELSE Project(c, Last(T), f[T \ {Last(T)}])]

LEMMA Without ==
    ASSUME NEW S, Line(S), NEW T \in SUBSET S, T # {}
    PROVE  /\ Last(T) \in T /\ T \ {Last(T)} \in SUBSET S
           /\ Cardinality(T) \in Nat /\ Cardinality(T) > 0
           /\ Cardinality(T \ {Last(T)}) = Cardinality(T) - 1
<1>1. Line(T)  BY LinePart
<1>2. Last(T) \in T  BY <1>1, HasLast
<1>3. /\ Cardinality(T) \in Nat /\ Cardinality(T \ {Last(T)}) \in Nat
      /\ Cardinality(T \ {Last(T)}) = Cardinality(T) - 1
  BY <1>1, <1>2, FS_CardinalityType, FS_RemoveElement DEF Line
<1> QED  BY <1>2, <1>3

\* The replay of a line exists: one of size n + 1 is made from one of size n.
LEMMA ReplayExists ==
    ASSUME NEW c, NEW table, NEW S, Line(S) PROVE \E f : IsReplay(f, c, table, S)
<1> DEFINE P(n) == \E f : IsReplayUpto(f, c, table, S, n)
           bad == {n \in Nat : ~P(n)}
<1>1. P(0)
  <2>1. \A T \in Upto(S, 0) : T = {}
    <3> SUFFICES ASSUME NEW T \in Upto(S, 0), T # {} PROVE FALSE
      OBVIOUS
    <3>1. T \in SUBSET S /\ Cardinality(T) <= 0  BY DEF Upto
    <3>2. Cardinality(T) \in Nat /\ Cardinality(T) > 0  BY <3>1, Without
    <3> QED  BY <3>1, <3>2
  <2>2. IsReplayUpto([T \in Upto(S, 0) |-> table], c, table, S, 0)
    BY <2>1 DEF IsReplayUpto
  <2> QED  BY <2>2
<1>2. ASSUME NEW n \in Nat, P(n) PROVE P(n + 1)
  <2>1. PICK f : IsReplayUpto(f, c, table, S, n)  BY <1>2
  <2> DEFINE g == [T \in Upto(S, n + 1) |->
                      IF T = {} THEN table ELSE Project(c, Last(T), f[T \ {Last(T)}])]
  <2>2. ASSUME NEW T \in Upto(S, n + 1), T # {}
        PROVE  T \ {Last(T)} \in Upto(S, n) /\ T \ {Last(T)} \in Upto(S, n + 1)
    BY <2>2, Without DEF Upto
  <2>3. \A T \in Upto(S, n) : T \in Upto(S, n + 1)
    <3> SUFFICES ASSUME NEW T \in Upto(S, n) PROVE T \in Upto(S, n + 1)
      OBVIOUS
    <3>1. CASE T = {}
      <4>1. Cardinality(T) = 0  BY <3>1, FS_EmptySet
      <4>2. T \in SUBSET S /\ 0 <= n + 1  BY DEF Upto
      <4> QED  BY <4>1, <4>2 DEF Upto
    <3>2. CASE T # {}
      <4>1. T \in SUBSET S /\ Cardinality(T) <= n  BY DEF Upto
      <4>2. Cardinality(T) \in Nat  BY <3>2, <4>1, Without
      <4>3. Cardinality(T) <= n + 1  BY <4>1, <4>2
      <4> QED  BY <4>1, <4>3 DEF Upto
    <3> QED  BY <3>1, <3>2
  <2>4. \A T \in Upto(S, n) : g[T] = f[T]  BY <2>1, <2>3 DEF IsReplayUpto
  <2>5. g = [T \in Upto(S, n + 1) |->
                IF T = {} THEN table ELSE Project(c, Last(T), g[T \ {Last(T)}])]
    <3>1. \A T \in Upto(S, n + 1) : T # {} => g[T \ {Last(T)}] = f[T \ {Last(T)}]
      BY <2>2, <2>4
    <3> QED  BY <3>1
  <2> QED  BY <2>5 DEF IsReplayUpto
<1>3. ASSUME bad # {} PROVE FALSE
  <2>1. PICK n \in bad : \A m \in bad : n <= m
    <3>1. bad \subseteq Nat  OBVIOUS
    <3> HIDE DEF bad
    <3> QED  BY <1>3, <3>1, Least
  <2> HIDE DEF P
  <2>2. n # 0  BY <1>1
  <2>3. n - 1 \in Nat /\ P(n - 1)  BY <2>1, <2>2
  <2>4. (n - 1) + 1 = n  OBVIOUS
  <2> QED  BY <1>2, <2>3, <2>4
<1>4. Cardinality(S) \in Nat /\ IsFiniteSet(S)  BY FS_CardinalityType DEF Line
<1>5. P(Cardinality(S))  BY <1>3, <1>4
<1>6. Upto(S, Cardinality(S)) = SUBSET S
  <2>1. \A T \in SUBSET S : Cardinality(T) <= Cardinality(S)  BY <1>4, FS_Subset
  <2> QED  BY <2>1 DEF Upto
<1>7. PICK f : IsReplayUpto(f, c, table, S, Cardinality(S))  BY <1>5
<1>8. IsReplay(f, c, table, S)  BY <1>6, <1>7 DEF IsReplayUpto, IsReplay
<1> QED  BY <1>8

\* Two replays agree on what both replay.
LEMMA ReplayUnique ==
    ASSUME NEW c, NEW table, NEW S, Line(S), NEW R, R \subseteq S,
           NEW f, IsReplay(f, c, table, S), NEW g, IsReplay(g, c, table, R)
    PROVE  \A T \in SUBSET R : f[T] = g[T]
<1> DEFINE bad == {T \in SUBSET R : f[T] # g[T]}
<1>1. ASSUME bad # {} PROVE FALSE
  <2>1. Line(R)  BY LinePart
  <2>2. bad \subseteq SUBSET R  OBVIOUS
  <2>3. PICK T \in bad : \A x \in T : T \ {x} \notin bad
    <3> HIDE DEF bad
    <3> QED  BY <1>1, <2>1, <2>2, Smallest DEF Line
  <2>4. T \in SUBSET S /\ T \in SUBSET R /\ f[T] # g[T]  OBVIOUS
  <2>5. /\ f[T] = IF T = {} THEN table ELSE Project(c, Last(T), f[T \ {Last(T)}])
        /\ g[T] = IF T = {} THEN table ELSE Project(c, Last(T), g[T \ {Last(T)}])
    BY <2>4 DEF IsReplay
  <2>6. T # {}  BY <2>4, <2>5
  <2>7. Last(T) \in T  BY <2>4, <2>6, Without
  <2>8. f[T \ {Last(T)}] = g[T \ {Last(T)}]  BY <2>3, <2>4, <2>7
  <2> QED  BY <2>4, <2>5, <2>8
<1> QED  BY <1>1

LEMMA ReplayValue ==
    ASSUME NEW c, NEW table, NEW S, Line(S), NEW f, IsReplay(f, c, table, S), NEW T \in SUBSET S
    PROVE  ApplyProjections(c, table, T) = f[T]
<1>1. ApplyProjections(c, table, T) = (CHOOSE g : IsReplay(g, c, table, T))[T]
  BY DEF ApplyProjections, MapThenFoldSet, IsReplay, Last
<1>2. Line(T)  BY LinePart
<1>3. IsReplay(CHOOSE g : IsReplay(g, c, table, T), c, table, T)  BY <1>2, ReplayExists
<1> QED  BY <1>1, <1>3, ReplayUnique

\* No events leave the table alone; the last of some is applied to what the others left.
LEMMA ReplayStep ==
    ASSUME NEW c, NEW table, NEW S, Line(S)
    PROVE  /\ ApplyProjections(c, table, {}) = table
           /\ S # {} => ApplyProjections(c, table, S) =
                        Project(c, Last(S), ApplyProjections(c, table, S \ {Last(S)}))
<1>1. PICK f : IsReplay(f, c, table, S)  BY ReplayExists
<1>2. ApplyProjections(c, table, {}) = f[{}] /\ ApplyProjections(c, table, S) = f[S]
  BY <1>1, ReplayValue
<1>3. ApplyProjections(c, table, S \ {Last(S)}) = f[S \ {Last(S)}]  BY <1>1, ReplayValue
<1>4. f[{}] = table /\ (S # {} => f[S] = Project(c, Last(S), f[S \ {Last(S)}]))
  <2>1. {} \in SUBSET S /\ S \in SUBSET S  OBVIOUS
  <2> QED  BY <1>1, <2>1 DEF IsReplay
<1> QED  BY <1>2, <1>3, <1>4

-----------------------------------------------------------------------------
(* Replaying in parts, and again. *)

\* Replaying what comes first and then what comes after is replaying both.
LEMMA ReplaySplit ==
    ASSUME NEW c, NEW table, NEW S, NEW T, Line(S \cup T), \A o \in S, p \in T : Before(o, p)
    PROVE  ApplyProjections(c, table, S \cup T) =
           ApplyProjections(c, ApplyProjections(c, table, S), T)
<1> DEFINE Splits(R) == ApplyProjections(c, table, S \cup R) =
                        ApplyProjections(c, ApplyProjections(c, table, S), R)
           bad == {R \in SUBSET T : ~Splits(R)}
<1>1. Line(S) /\ Line(T)  BY LinePart
<1>2. ASSUME bad # {} PROVE FALSE
  <2>1. bad \subseteq SUBSET T  OBVIOUS
  <2>2. PICK R \in bad : \A x \in R : R \ {x} \notin bad
    <3> HIDE DEF bad
    <3> QED  BY <1>1, <1>2, <2>1, Smallest DEF Line
  <2>3. R \subseteq T /\ ~Splits(R)  OBVIOUS
  <2>4. Line(R) /\ Line(S \cup R)  BY <2>3, LinePart
  <2>5. CASE R = {}
    <3>1. S \cup R = S  BY <2>5
    <3>2. ApplyProjections(c, ApplyProjections(c, table, S), R) = ApplyProjections(c, table, S)
      BY <2>4, <2>5, ReplayStep
    <3> QED  BY <2>3, <3>1, <3>2
  <2>6. CASE R # {}
    <3> DEFINE o == Last(R)
    <3>1. o \in R /\ \A p \in R \ {o} : Before(p, o)  BY <2>4, <2>6, HasLast
    <3>2. Splits(R \ {o})
      <4>1. R \ {o} \in SUBSET T /\ R \ {o} \notin bad  BY <2>2, <2>3, <3>1
      <4> QED  BY <4>1
    <3>3. o \notin S  BY <2>3, <2>4, <3>1, LineOrder
    <3>4. Last(S \cup R) = o
      <4>1. \A p \in (S \cup R) \ {o} : Before(p, o)  BY <2>3, <3>1
      <4> HIDE DEF o
      <4> QED  BY <2>4, <3>1, <4>1, LastIs
    <3>5. (S \cup R) \ {o} = S \cup (R \ {o})  BY <3>3
    <3>6. ApplyProjections(c, table, S \cup R) =
          Project(c, o, ApplyProjections(c, table, S \cup (R \ {o})))
      <4>1. S \cup R # {}  BY <2>6
      <4> QED  BY <2>4, <3>4, <3>5, <4>1, ReplayStep
    <3>7. ApplyProjections(c, ApplyProjections(c, table, S), R) =
          Project(c, o, ApplyProjections(c, ApplyProjections(c, table, S), R \ {o}))
      BY <2>4, <2>6, ReplayStep
    <3> QED  BY <2>3, <3>2, <3>6, <3>7
  <2> QED  BY <2>5, <2>6
<1>3. Splits(T)  BY <1>2
<1> QED  BY <1>3

-----------------------------------------------------------------------------
(* What an event writes, column by column. *)

MarkSet == (EvmTx \X Height) \cup {NoMark}
VoteRecord == [confirmed : BOOLEAN, confirmedIn : MarkSet, revokedIn : MarkSet]
Vote == VoteRecord \cup {NoConfirmation}
RowRecord == [submit : MarkSet, execute : MarkSet, confirmations : [Owner -> Vote]]
Row == RowRecord \cup {NoRow}
Table == [TxIndex -> Row]

Occurrence(c) == {o \in Block \X Nat : o[2] \in DOMAIN Logs[c][o[1]]}

LEMMA VoteIsOne == NoConfirmation \notin VoteRecord
<1>1. "revokedIn" \notin DOMAIN NoConfirmation  BY DEF NoConfirmation
<1>2. \A v \in VoteRecord : "revokedIn" \in DOMAIN v  BY DEF VoteRecord
<1> QED  BY <1>1, <1>2

LEMMA RowIsOne == NoRow \notin RowRecord
<1>1. "execute" \notin DOMAIN NoRow  BY DEF NoRow
<1>2. \A r \in RowRecord : "execute" \in DOMAIN r  BY DEF RowRecord
<1> QED  BY <1>1, <1>2

LEMMA EnsuredRow ==
    ASSUME NEW r \in Row
    PROVE  /\ EnsureTransactionRow(r) \in RowRecord
           /\ r # NoRow => EnsureTransactionRow(r) = r
           /\ r = NoRow => EnsureTransactionRow(r) = PlaceholderRow
<1>1. PlaceholderRow \in RowRecord  BY DEF PlaceholderRow, RowRecord, Vote, MarkSet
<1> QED  BY <1>1 DEF EnsureTransactionRow, Row

\* The vote an owner has after a confirmation or a revocation.
Voted(v, mark, confirmed) ==
    CASE v = NoConfirmation /\ confirmed  -> ConfirmationRow(TRUE, mark, NoMark)
      [] v = NoConfirmation /\ ~confirmed -> ConfirmationRow(FALSE, NoMark, mark)
      [] v # NoConfirmation /\ confirmed  -> [v EXCEPT !.confirmed = TRUE, !.confirmedIn = mark]
      [] OTHER                            -> [v EXCEPT !.confirmed = FALSE, !.revokedIn = mark]

LEMMA VotedConfirmed ==
    ASSUME NEW v \in Vote, NEW mark \in MarkSet
    PROVE  /\ Voted(v, mark, TRUE) \in VoteRecord
           /\ Voted(v, mark, TRUE).confirmed /\ Voted(v, mark, TRUE).confirmedIn = mark
           /\ Voted(v, mark, TRUE).revokedIn = IF v = NoConfirmation THEN NoMark ELSE v.revokedIn
<1>1. CASE v = NoConfirmation
  <2> DEFINE n == ConfirmationRow(TRUE, mark, NoMark)
  <2>1. Voted(v, mark, TRUE) = n  BY <1>1 DEF Voted
  <2>2. NoMark \in MarkSet  BY DEF MarkSet
  <2>3. n \in VoteRecord  BY <2>2 DEF ConfirmationRow, VoteRecord
  <2>4. n.confirmed /\ n.confirmedIn = mark /\ n.revokedIn = NoMark  BY DEF ConfirmationRow
  <2> HIDE DEF n
  <2> QED  BY <1>1, <2>1, <2>3, <2>4
<1>2. CASE v # NoConfirmation
  <2>1. Voted(v, mark, TRUE) = [v EXCEPT !.confirmed = TRUE, !.confirmedIn = mark]
    BY <1>2 DEF Voted
  <2>2. v \in VoteRecord  BY <1>2 DEF Vote
  <2> DEFINE n == [v EXCEPT !.confirmed = TRUE, !.confirmedIn = mark]
  <2>3. n \in VoteRecord  BY <2>2 DEF VoteRecord
  <2>4. n.confirmed /\ n.confirmedIn = mark /\ n.revokedIn = v.revokedIn
    BY <2>2 DEF VoteRecord
  <2>5. Voted(v, mark, TRUE) = n  BY <2>1
  <2> HIDE DEF n
  <2> QED  BY <1>2, <2>3, <2>4, <2>5
<1> QED  BY <1>1, <1>2

LEMMA VotedRevoked ==
    ASSUME NEW v \in Vote, NEW mark \in MarkSet
    PROVE  /\ Voted(v, mark, FALSE) \in VoteRecord
           /\ ~Voted(v, mark, FALSE).confirmed /\ Voted(v, mark, FALSE).revokedIn = mark
           /\ Voted(v, mark, FALSE).confirmedIn = IF v = NoConfirmation THEN NoMark ELSE v.confirmedIn
<1>1. CASE v = NoConfirmation
  <2> DEFINE n == ConfirmationRow(FALSE, NoMark, mark)
  <2>1. Voted(v, mark, FALSE) = n  BY <1>1 DEF Voted
  <2>2. NoMark \in MarkSet  BY DEF MarkSet
  <2>3. n \in VoteRecord  BY <2>2 DEF ConfirmationRow, VoteRecord
  <2>4. ~n.confirmed /\ n.confirmedIn = NoMark /\ n.revokedIn = mark  BY DEF ConfirmationRow
  <2> HIDE DEF n
  <2> QED  BY <1>1, <2>1, <2>3, <2>4
<1>2. CASE v # NoConfirmation
  <2>1. Voted(v, mark, FALSE) = [v EXCEPT !.confirmed = FALSE, !.revokedIn = mark]
    BY <1>2 DEF Voted
  <2>2. v \in VoteRecord  BY <1>2 DEF Vote
  <2> DEFINE n == [v EXCEPT !.confirmed = FALSE, !.revokedIn = mark]
  <2>3. n \in VoteRecord  BY <2>2 DEF VoteRecord
  <2>4. ~n.confirmed /\ n.revokedIn = mark /\ n.confirmedIn = v.confirmedIn
    BY <2>2 DEF VoteRecord
  <2>5. Voted(v, mark, FALSE) = n  BY <2>1
  <2> HIDE DEF n
  <2> QED  BY <1>2, <2>3, <2>4, <2>5
<1> QED  BY <1>1, <1>2

WithVote(row, w, v) == [row EXCEPT !.confirmations = [row.confirmations EXCEPT ![w] = v]]

\* The row after an event.
LEMMA ProjectRowIs ==
    ASSUME NEW r \in Row, NEW log \in Log, NEW mark
    PROVE  LET e == EnsureTransactionRow(r) v == e.confirmations[log.owner]
           IN  /\ log.name = "SubmitTransaction" =>
                    ProjectRow(r, log, mark) = [e EXCEPT !.submit = mark]
               /\ log.name = "ExecuteTransaction" =>
                    ProjectRow(r, log, mark) = [e EXCEPT !.execute = mark]
               /\ log.name = "ConfirmTransaction" =>
                    ProjectRow(r, log, mark) = WithVote(e, log.owner, Voted(v, mark, TRUE))
               /\ log.name = "RevokeConfirmation" =>
                    ProjectRow(r, log, mark) = WithVote(e, log.owner, Voted(v, mark, FALSE))
<1> DEFINE e == EnsureTransactionRow(r)
           v == e.confirmations[log.owner]
<1>0. e \in RowRecord  BY EnsuredRow
<1>1. log.name = "SubmitTransaction" => ProjectRow(r, log, mark) = [e EXCEPT !.submit = mark]
  BY DEF ProjectRow, ProjectSubmit
<1>2. log.name = "ExecuteTransaction" => ProjectRow(r, log, mark) = [e EXCEPT !.execute = mark]
  BY DEF ProjectRow, ProjectExecution
<1>3. ASSUME log.name = "ConfirmTransaction"
      PROVE  ProjectRow(r, log, mark) = WithVote(e, log.owner, Voted(v, mark, TRUE))
  <2>1. ProjectRow(r, log, mark) = ProjectConfirmation(r, log.owner, mark, TRUE)
    BY <1>3 DEF ProjectRow
  <2>2. ProjectConfirmation(r, log.owner, mark, TRUE) = WithVote(e, log.owner, Voted(v, mark, TRUE))
    BY DEF ProjectConfirmation, WithVote, Voted
  <2> QED  BY <2>1, <2>2
<1>4. ASSUME log.name = "RevokeConfirmation"
      PROVE  ProjectRow(r, log, mark) = WithVote(e, log.owner, Voted(v, mark, FALSE))
  <2>1. ProjectRow(r, log, mark) = ProjectConfirmation(r, log.owner, mark, FALSE)
    BY <1>4 DEF ProjectRow
  <2>2. ProjectConfirmation(r, log.owner, mark, FALSE) = WithVote(e, log.owner, Voted(v, mark, FALSE))
    BY DEF ProjectConfirmation, WithVote, Voted
  <2> QED  BY <2>1, <2>2
<1> QED  BY <1>1, <1>2, <1>3, <1>4

\* A column of a row, or of the vote of one owner.
Column == [of : {"row", "submit", "execute"}, owner : {0}]
          \cup [of : {"vote", "confirmed", "confirmedIn", "revokedIn"}, owner : Owner]

VoteOf(r, w) == IF r = NoRow THEN NoConfirmation ELSE r.confirmations[w]

RowCell(r, k) ==
    CASE k.of = "row"     -> IF r = NoRow THEN 0 ELSE 1
      [] k.of = "submit"  -> IF r = NoRow THEN NoMark ELSE r.submit
      [] OTHER            -> IF r = NoRow THEN NoMark ELSE r.execute

VoteCell(v, k) ==
    CASE k.of = "vote"        -> IF v = NoConfirmation THEN 0 ELSE 1
      [] k.of = "confirmed"   -> IF v = NoConfirmation THEN 0 ELSE IF v.confirmed THEN 1 ELSE 0
      [] k.of = "confirmedIn" -> IF v = NoConfirmation THEN NoMark ELSE v.confirmedIn
      [] OTHER                -> IF v = NoConfirmation THEN NoMark ELSE v.revokedIn

Cell(r, k) == IF k.of \in {"row", "submit", "execute"} THEN RowCell(r, k)
                                                       ELSE VoteCell(VoteOf(r, k.owner), k)

Sets(log, k) ==
    \/ k.of = "row"
    \/ k.of = "submit" /\ log.name = "SubmitTransaction"
    \/ k.of = "execute" /\ log.name = "ExecuteTransaction"
    \/ /\ k.of \in {"vote", "confirmed"} /\ k.owner = log.owner
       /\ log.name \in {"ConfirmTransaction", "RevokeConfirmation"}
    \/ k.of = "confirmedIn" /\ k.owner = log.owner /\ log.name = "ConfirmTransaction"
    \/ k.of = "revokedIn" /\ k.owner = log.owner /\ log.name = "RevokeConfirmation"

Written(log, mark, k) ==
    CASE k.of \in {"row", "vote"} -> 1
      [] k.of = "confirmed"       -> IF log.name = "ConfirmTransaction" THEN 1 ELSE 0
      [] OTHER                    -> mark

LEMMA EnsuredCell ==
    ASSUME NEW r \in Row, NEW k \in Column, k.of # "row"
    PROVE  Cell(EnsureTransactionRow(r), k) = Cell(r, k)
<1>1. CASE r # NoRow  BY <1>1, EnsuredRow
<1>2. CASE r = NoRow
  <2>1. EnsureTransactionRow(r) = PlaceholderRow /\ PlaceholderRow # NoRow
    BY <1>2, EnsuredRow, RowIsOne
  <2>2. /\ PlaceholderRow.submit = NoMark /\ PlaceholderRow.execute = NoMark
        /\ \A w \in Owner : PlaceholderRow.confirmations[w] = NoConfirmation
    BY DEF PlaceholderRow
  <2>3. CASE k.of \in {"submit", "execute"}
    BY <1>2, <2>1, <2>2, <2>3 DEF Cell, RowCell
  <2>4. CASE k.of \notin {"submit", "execute"}
    <3>1. k.owner \in Owner /\ k.of \notin {"row", "submit", "execute"}  BY <2>4 DEF Column
    <3>2. VoteOf(r, k.owner) = VoteOf(PlaceholderRow, k.owner)
      BY <1>2, <2>1, <2>2, <3>1 DEF VoteOf
    <3> QED  BY <2>1, <3>1, <3>2 DEF Cell
  <2> QED  BY <2>3, <2>4
<1> QED  BY <1>1, <1>2

\* The row after an event is a row; a column it writes holds the event's value and the
\* others what they held.
LEMMA SubmitRowCell ==
    ASSUME NEW r \in Row, NEW log \in Log, NEW mark \in MarkSet, NEW k \in Column,
           log.name = "SubmitTransaction"
    PROVE  /\ ProjectRow(r, log, mark) \in RowRecord
           /\ Cell(ProjectRow(r, log, mark), k) =
              IF Sets(log, k) THEN Written(log, mark, k) ELSE Cell(r, k)
<1> DEFINE e == EnsureTransactionRow(r)
           n == [e EXCEPT !.submit = mark]
<1>1. e \in RowRecord /\ e # NoRow  BY EnsuredRow, RowIsOne
<1>2. ProjectRow(r, log, mark) = n  BY ProjectRowIs
<1> HIDE DEF e
<1>3. /\ n \in RowRecord /\ n.submit = mark /\ n.execute = e.execute
      /\ n.confirmations = e.confirmations
  BY <1>1 DEF RowRecord
<1> HIDE DEF n
<1>4. n # NoRow  BY <1>3, RowIsOne
<1> SUFFICES Cell(n, k) = IF Sets(log, k) THEN Written(log, mark, k) ELSE Cell(r, k)
  BY <1>2, <1>3
<1>5. CASE k.of = "row"  BY <1>4, <1>5 DEF Cell, RowCell, Sets, Written
<1>6. CASE k.of = "submit"  BY <1>3, <1>4, <1>6 DEF Cell, RowCell, Sets, Written
<1>7. CASE k.of \notin {"row", "submit"}
  <2>1. ~Sets(log, k)  BY <1>7 DEF Sets
  <2>2. Cell(n, k) = Cell(e, k)
    <3>1. CASE k.of = "execute"  BY <1>1, <1>3, <1>4, <3>1 DEF Cell, RowCell
    <3>2. CASE k.of # "execute"
      <4>1. VoteOf(n, k.owner) = VoteOf(e, k.owner)  BY <1>1, <1>3, <1>4 DEF VoteOf
      <4> QED  BY <1>7, <3>2, <4>1 DEF Cell
    <3> QED  BY <3>1, <3>2
  <2>3. Cell(e, k) = Cell(r, k)  BY <1>7, EnsuredCell DEF e
  <2> QED  BY <2>1, <2>2, <2>3
<1> QED  BY <1>5, <1>6, <1>7

LEMMA ExecuteRowCell ==
    ASSUME NEW r \in Row, NEW log \in Log, NEW mark \in MarkSet, NEW k \in Column,
           log.name = "ExecuteTransaction"
    PROVE  /\ ProjectRow(r, log, mark) \in RowRecord
           /\ Cell(ProjectRow(r, log, mark), k) =
              IF Sets(log, k) THEN Written(log, mark, k) ELSE Cell(r, k)
<1> DEFINE e == EnsureTransactionRow(r)
           n == [e EXCEPT !.execute = mark]
<1>1. e \in RowRecord /\ e # NoRow  BY EnsuredRow, RowIsOne
<1>2. ProjectRow(r, log, mark) = n  BY ProjectRowIs
<1> HIDE DEF e
<1>3. /\ n \in RowRecord /\ n.execute = mark /\ n.submit = e.submit
      /\ n.confirmations = e.confirmations
  BY <1>1 DEF RowRecord
<1> HIDE DEF n
<1>4. n # NoRow  BY <1>3, RowIsOne
<1> SUFFICES Cell(n, k) = IF Sets(log, k) THEN Written(log, mark, k) ELSE Cell(r, k)
  BY <1>2, <1>3
<1>5. CASE k.of = "row"  BY <1>4, <1>5 DEF Cell, RowCell, Sets, Written
<1>6. CASE k.of = "execute"  BY <1>3, <1>4, <1>6 DEF Cell, RowCell, Sets, Written
<1>7. CASE k.of \notin {"row", "execute"}
  <2>1. ~Sets(log, k)  BY <1>7 DEF Sets
  <2>2. Cell(n, k) = Cell(e, k)
    <3>1. CASE k.of = "submit"  BY <1>1, <1>3, <1>4, <3>1 DEF Cell, RowCell
    <3>2. CASE k.of # "submit"
      <4>1. VoteOf(n, k.owner) = VoteOf(e, k.owner)  BY <1>1, <1>3, <1>4 DEF VoteOf
      <4> QED  BY <1>7, <3>2, <4>1 DEF Cell
    <3> QED  BY <3>1, <3>2
  <2>3. Cell(e, k) = Cell(r, k)  BY <1>7, EnsuredCell DEF e
  <2> QED  BY <2>1, <2>2, <2>3
<1> QED  BY <1>5, <1>6, <1>7

\* A confirmation or a revocation writes the vote of its owner.
LEMMA VoteRowCell ==
    ASSUME NEW r \in Row, NEW log \in Log, NEW mark \in MarkSet, NEW k \in Column,
           log.name \in {"ConfirmTransaction", "RevokeConfirmation"}
    PROVE  /\ ProjectRow(r, log, mark) \in RowRecord
           /\ Cell(ProjectRow(r, log, mark), k) =
              IF Sets(log, k) THEN Written(log, mark, k) ELSE Cell(r, k)
<1> DEFINE e == EnsureTransactionRow(r)
           w == log.owner
           v == e.confirmations[w]
<1>1. e \in RowRecord /\ e # NoRow  BY EnsuredRow, RowIsOne
<1>2. w \in Owner /\ v \in Vote
  <2> HIDE DEF e
  <2> QED  BY <1>1 DEF Log, RowRecord
<1>3. PICK x \in VoteRecord :
        /\ ProjectRow(r, log, mark) = WithVote(e, w, x)
        /\ log.name = "ConfirmTransaction" =>
             /\ x.confirmed /\ x.confirmedIn = mark
             /\ x.revokedIn = IF v = NoConfirmation THEN NoMark ELSE v.revokedIn
        /\ log.name = "RevokeConfirmation" =>
             /\ ~x.confirmed /\ x.revokedIn = mark
             /\ x.confirmedIn = IF v = NoConfirmation THEN NoMark ELSE v.confirmedIn
  <2>1. CASE log.name = "ConfirmTransaction"
    <3>1. ProjectRow(r, log, mark) = WithVote(e, w, Voted(v, mark, TRUE))
      BY <2>1, ProjectRowIs
    <3> HIDE DEF e, v, w
    <3> QED  BY <1>2, <2>1, <3>1, VotedConfirmed
  <2>2. CASE log.name = "RevokeConfirmation"
    <3>1. ProjectRow(r, log, mark) = WithVote(e, w, Voted(v, mark, FALSE))
      BY <2>2, ProjectRowIs
    <3> HIDE DEF e, v, w
    <3> QED  BY <1>2, <2>2, <3>1, VotedRevoked
  <2> QED  BY <2>1, <2>2
<1> DEFINE n == WithVote(e, w, x)
           votes == [e.confirmations EXCEPT ![w] = x]
<1>4. EnsureTransactionRow(r) = e /\ e.confirmations[w] = v  OBVIOUS
<1> HIDE DEF e, v
<1>5. /\ votes \in [Owner -> Vote] /\ votes[w] = x
      /\ \A u \in Owner \ {w} : votes[u] = e.confirmations[u]
  BY <1>1, <1>2 DEF RowRecord, Vote
<1>6. n = [e EXCEPT !.confirmations = votes]  BY DEF WithVote
<1> HIDE DEF votes
<1>7. /\ n \in RowRecord /\ n.execute = e.execute /\ n.submit = e.submit
      /\ n.confirmations = votes
  BY <1>1, <1>5, <1>6 DEF RowRecord
<1> HIDE DEF n
<1>8. ProjectRow(r, log, mark) = n /\ n # NoRow  BY <1>3, <1>7, RowIsOne DEF n
<1> SUFFICES Cell(n, k) = IF Sets(log, k) THEN Written(log, mark, k) ELSE Cell(r, k)
  BY <1>7, <1>8
<1>9. CASE k.of = "row"  BY <1>8, <1>9 DEF Cell, RowCell, Sets, Written
<1>10. CASE k.of \in {"submit", "execute"}
  <2>1. ~Sets(log, k)  BY <1>10 DEF Sets
  <2>2. Cell(n, k) = Cell(e, k)  BY <1>1, <1>7, <1>8, <1>10 DEF Cell, RowCell
  <2>3. Cell(e, k) = Cell(r, k)  BY <1>4, <1>10, EnsuredCell
  <2> QED  BY <2>1, <2>2, <2>3
<1>11. CASE k.of \notin {"row", "submit", "execute"}
  <2>1. /\ k.owner \in Owner /\ k.of \in {"vote", "confirmed", "confirmedIn", "revokedIn"}
    BY <1>11 DEF Column
  <2>2. /\ Cell(n, k) = VoteCell(VoteOf(n, k.owner), k)
        /\ Cell(e, k) = VoteCell(VoteOf(e, k.owner), k)
    BY <1>11 DEF Cell
  <2>3. VoteOf(n, k.owner) = votes[k.owner] /\ VoteOf(e, k.owner) = e.confirmations[k.owner]
    BY <1>1, <1>7, <1>8 DEF VoteOf
  <2>4. Cell(e, k) = Cell(r, k)  BY <1>4, <1>11, EnsuredCell
  <2>5. CASE k.owner # w
    <3>1. ~Sets(log, k)  BY <1>11, <2>5 DEF Sets
    <3>2. Cell(n, k) = Cell(e, k)  BY <1>5, <2>1, <2>2, <2>3, <2>5
    <3> QED  BY <2>4, <3>1, <3>2
  <2>6. CASE k.owner = w
    <3>1. Cell(n, k) = VoteCell(x, k) /\ Cell(r, k) = VoteCell(v, k)
      BY <1>4, <1>5, <2>2, <2>3, <2>4, <2>6
    <3>2. x # NoConfirmation  BY <1>3, VoteIsOne
    <3> HIDE DEF w
    <3>3. VoteCell(x, k) = IF Sets(log, k) THEN Written(log, mark, k) ELSE VoteCell(v, k)
      <4>1. CASE k.of = "vote"  BY <2>6, <3>2, <4>1 DEF VoteCell, Sets, Written, w
      <4>2. CASE k.of = "confirmed"
        <5>1. VoteCell(x, k) = IF log.name = "ConfirmTransaction" THEN 1 ELSE 0
          BY <1>3, <3>2, <4>2 DEF VoteCell
        <5> QED  BY <2>6, <4>2, <5>1 DEF Sets, Written, w
      <4>3. CASE k.of = "confirmedIn"
        <5>1. VoteCell(x, k) = x.confirmedIn  BY <3>2, <4>3 DEF VoteCell
        <5>2. VoteCell(v, k) = IF v = NoConfirmation THEN NoMark ELSE v.confirmedIn
          BY <4>3 DEF VoteCell
        <5> QED  BY <1>3, <2>6, <4>3, <5>1, <5>2 DEF Sets, Written, w
      <4>4. CASE k.of = "revokedIn"
        <5>1. VoteCell(x, k) = x.revokedIn  BY <3>2, <4>4 DEF VoteCell
        <5>2. VoteCell(v, k) = IF v = NoConfirmation THEN NoMark ELSE v.revokedIn
          BY <4>4 DEF VoteCell
        <5> QED  BY <1>3, <2>6, <4>4, <5>1, <5>2 DEF Sets, Written, w
      <4> QED  BY <2>1, <4>1, <4>2, <4>3, <4>4
    <3> QED  BY <3>1, <3>3
  <2> QED  BY <2>5, <2>6
<1> QED  BY <1>9, <1>10, <1>11

LEMMA ProjectedRow ==
    ASSUME NEW r \in Row, NEW log \in Log, NEW mark \in MarkSet, NEW k \in Column
    PROVE  /\ ProjectRow(r, log, mark) \in Row
           /\ Cell(ProjectRow(r, log, mark), k) =
              IF Sets(log, k) THEN Written(log, mark, k) ELSE Cell(r, k)
<1>1. log.name \in EventName  BY DEF Log
<1>2. CASE log.name = "SubmitTransaction"  BY <1>2, SubmitRowCell DEF Row
<1>3. CASE log.name = "ExecuteTransaction"  BY <1>3, ExecuteRowCell DEF Row
<1>4. CASE log.name \in {"ConfirmTransaction", "RevokeConfirmation"}  BY <1>4, VoteRowCell DEF Row
<1> QED  BY <1>1, <1>2, <1>3, <1>4 DEF EventName

LEMMA MarkType ==
    ASSUME NEW c \in Contract, NEW o \in Occurrence(c)
    PROVE  LogOf(c, o) \in Log /\ Mark(c, o) \in MarkSet
<1>1. o[1] \in Block /\ o[2] \in DOMAIN Logs[c][o[1]]  BY DEF Occurrence
<1>2. Logs[c][o[1]] \in Seq(Log)  BY <1>1, LogsAssumption
<1>3. LogOf(c, o) \in Log  BY <1>1, <1>2 DEF LogOf
<1>4. LogOf(c, o).evm \in EvmTx  BY <1>3 DEF Log
<1>5. Number[o[1]] \in Height  BY <1>1, NumberAssumption
<1> QED  BY <1>3, <1>4, <1>5 DEF Mark, MarkSet

\* An event writes the columns of its kind in the row of its transaction, and no others.
LEMMA ProjectedTable ==
    ASSUME NEW c \in Contract, NEW o \in Occurrence(c), NEW table \in Table
    PROVE  /\ Project(c, o, table) \in Table
           /\ \A tx \in TxIndex, k \in Column :
                Cell(Project(c, o, table)[tx], k) =
                IF LogOf(c, o).tx = tx /\ Sets(LogOf(c, o), k)
                THEN Written(LogOf(c, o), Mark(c, o), k) ELSE Cell(table[tx], k)
<1> DEFINE log == LogOf(c, o)
           row == ProjectRow(table[log.tx], log, Mark(c, o))
<1>1. log \in Log /\ Mark(c, o) \in MarkSet  BY MarkType
<1>2. log.tx \in TxIndex  BY <1>1 DEF Log
<1>3. table[log.tx] \in Row  BY <1>2 DEF Table
<1>4. Project(c, o, table) = [table EXCEPT ![log.tx] = row]  BY DEF Project
<1>5. /\ row \in Row
      /\ \A k \in Column : Cell(row, k) = IF Sets(log, k) THEN Written(log, Mark(c, o), k)
                                                            ELSE Cell(table[log.tx], k)
  <2> HIDE DEF log
  <2>1. row \in Row
    <3>1. [of |-> "row", owner |-> 0] \in Column  BY DEF Column
    <3> QED  BY <1>1, <1>3, <3>1, ProjectedRow
  <2> QED  BY <1>1, <1>3, <2>1, ProjectedRow
<1> HIDE DEF row, log
<1>6. [table EXCEPT ![log.tx] = row] \in Table  BY <1>2, <1>5 DEF Table
<1>7. \A tx \in TxIndex : [table EXCEPT ![log.tx] = row][tx] =
                          IF log.tx = tx THEN row ELSE table[tx]
  BY <1>2 DEF Table
<1>8. ASSUME NEW tx \in TxIndex, NEW k \in Column
      PROVE  Cell(Project(c, o, table)[tx], k) =
             IF log.tx = tx /\ Sets(log, k) THEN Written(log, Mark(c, o), k)
                                              ELSE Cell(table[tx], k)
  <2>1. CASE log.tx = tx
    <3>1. Project(c, o, table)[tx] = row  BY <1>4, <1>7, <2>1
    <3> QED  BY <1>5, <2>1, <3>1
  <2>2. CASE log.tx # tx
    <3>1. Project(c, o, table)[tx] = table[tx]  BY <1>4, <1>7, <2>2
    <3> QED  BY <2>2, <3>1
  <2> QED  BY <2>1, <2>2
<1> QED  BY <1>4, <1>6, <1>8 DEF log

Events(c, S) == Line(S) /\ S \subseteq Occurrence(c)

LEMMA NoProjectionsType == NoProjections \in Table
  BY DEF NoProjections, Table, Row

LEMMA ReplayType ==
    ASSUME NEW c \in Contract, NEW S, Events(c, S), NEW table \in Table
    PROVE  ApplyProjections(c, table, S) \in Table
<1> DEFINE bad == {T \in SUBSET S : ApplyProjections(c, table, T) \notin Table}
<1>1. ASSUME bad # {} PROVE FALSE
  <2>1. bad \subseteq SUBSET S  OBVIOUS
  <2>2. PICK T \in bad : \A x \in T : T \ {x} \notin bad
    <3> HIDE DEF bad
    <3> QED  BY <1>1, <2>1, Smallest DEF Line, Events
  <2>3. T \in SUBSET S /\ ApplyProjections(c, table, T) \notin Table  OBVIOUS
  <2>4. Line(T) /\ T \subseteq Occurrence(c)  BY <2>3, LinePart DEF Events
  <2>5. T # {}  BY <2>3, <2>4, ReplayStep
  <2>6. Last(T) \in T  BY <2>4, <2>5, HasLast
  <2>7. ApplyProjections(c, table, T \ {Last(T)}) \in Table  BY <2>2, <2>3, <2>6
  <2>8. Project(c, Last(T), ApplyProjections(c, table, T \ {Last(T)})) \in Table
    BY <2>4, <2>6, <2>7, ProjectedTable
  <2> QED  BY <2>3, <2>4, <2>5, <2>8, ReplayStep
<1> QED  BY <1>1

\* A column keeps what it held before a replay, or what it holds after depends on the
\* events alone: they write it or they do not.
KeptCell(c, S, tx, k) ==
    \A table \in Table : Cell(ApplyProjections(c, table, S)[tx], k) = Cell(table[tx], k)
SettledCell(c, S, tx, k) ==
    \A table, other \in Table : Cell(ApplyProjections(c, table, S)[tx], k) =
                                Cell(ApplyProjections(c, other, S)[tx], k)

LEMMA ReplayCells ==
    ASSUME NEW c \in Contract, NEW S, Events(c, S), NEW tx \in TxIndex, NEW k \in Column
    PROVE  KeptCell(c, S, tx, k) \/ SettledCell(c, S, tx, k)
<1> DEFINE bad == {T \in SUBSET S : ~(KeptCell(c, T, tx, k) \/ SettledCell(c, T, tx, k))}
<1>1. ASSUME bad # {} PROVE FALSE
  <2>1. bad \subseteq SUBSET S  OBVIOUS
  <2>2. PICK T \in bad : \A x \in T : T \ {x} \notin bad
    <3> HIDE DEF bad
    <3> QED  BY <1>1, <2>1, Smallest DEF Line, Events
  <2>3. T \in SUBSET S /\ ~KeptCell(c, T, tx, k) /\ ~SettledCell(c, T, tx, k)  OBVIOUS
  <2>4. Line(T) /\ T \subseteq Occurrence(c)  BY <2>3, LinePart DEF Events
  <2>5. T # {}
    <3>1. SUFFICES ASSUME T = {} PROVE KeptCell(c, T, tx, k)
      BY <2>3
    <3>2. \A table \in Table : ApplyProjections(c, table, T) = table
      BY <2>4, <3>1, ReplayStep
    <3> QED  BY <3>2 DEF KeptCell
  <2> DEFINE o == Last(T)
             rest == T \ {o}
  <2>6. o \in T /\ o \in Occurrence(c)  BY <2>4, <2>5, HasLast
  <2>7. rest \in SUBSET S /\ (KeptCell(c, rest, tx, k) \/ SettledCell(c, rest, tx, k))
    BY <2>2, <2>3, <2>6
  <2>8. \A table \in Table :
          /\ ApplyProjections(c, table, T) = Project(c, o, ApplyProjections(c, table, rest))
          /\ ApplyProjections(c, table, rest) \in Table
    <3>1. Events(c, rest)  BY <2>4, LinePart DEF Events
    <3> QED  BY <2>4, <2>5, <3>1, ReplayStep, ReplayType
  <2> HIDE DEF o, rest
  <2>9. \A table \in Table :
          Cell(ApplyProjections(c, table, T)[tx], k) =
          IF LogOf(c, o).tx = tx /\ Sets(LogOf(c, o), k)
          THEN Written(LogOf(c, o), Mark(c, o), k)
          ELSE Cell(ApplyProjections(c, table, rest)[tx], k)
    BY <2>6, <2>8, ProjectedTable
  <2>10. CASE LogOf(c, o).tx = tx /\ Sets(LogOf(c, o), k)
    <3>1. SettledCell(c, T, tx, k)  BY <2>9, <2>10 DEF SettledCell
    <3> QED  BY <2>3, <3>1
  <2>11. CASE ~(LogOf(c, o).tx = tx /\ Sets(LogOf(c, o), k))
    <3>1. \A table \in Table : Cell(ApplyProjections(c, table, T)[tx], k) =
                               Cell(ApplyProjections(c, table, rest)[tx], k)
      BY <2>9, <2>11
    <3>2. KeptCell(c, rest, tx, k) => KeptCell(c, T, tx, k)  BY <3>1 DEF KeptCell
    <3>3. SettledCell(c, rest, tx, k) => SettledCell(c, T, tx, k)  BY <3>1 DEF SettledCell
    <3> QED  BY <2>3, <2>7, <3>2, <3>3
  <2> QED  BY <2>10, <2>11
<1> QED  BY <1>1

LEMMA SameVote ==
    ASSUME NEW v \in Vote, NEW x \in Vote, NEW w \in Owner,
           \A k \in Column : k.owner = w /\ k.of \notin {"row", "submit", "execute"} =>
                             VoteCell(v, k) = VoteCell(x, k)
    PROVE  v = x
<1> DEFINE Col(of) == [of |-> of, owner |-> w]
<1>1. \A of \in {"vote", "confirmed", "confirmedIn", "revokedIn"} :
        Col(of) \in Column /\ Col(of).of = of /\ Col(of).owner = w
  BY DEF Column
<1> HIDE DEF Col
<1>2. \A of \in {"vote", "confirmed", "confirmedIn", "revokedIn"} :
        VoteCell(v, Col(of)) = VoteCell(x, Col(of))
  BY <1>1
<1>3. v = NoConfirmation <=> x = NoConfirmation
  <2>1. \A y : VoteCell(y, Col("vote")) = IF y = NoConfirmation THEN 0 ELSE 1
    BY <1>1 DEF VoteCell
  <2> QED  BY <1>2, <2>1
<1>4. ASSUME v # NoConfirmation, x # NoConfirmation PROVE v = x
  <2>1. v \in VoteRecord /\ x \in VoteRecord  BY <1>4 DEF Vote
  <2>2. VoteCell(v, Col("confirmedIn")) = v.confirmedIn
        /\ VoteCell(x, Col("confirmedIn")) = x.confirmedIn
        /\ VoteCell(v, Col("revokedIn")) = v.revokedIn
        /\ VoteCell(x, Col("revokedIn")) = x.revokedIn
    BY <1>1, <1>4 DEF VoteCell
  <2>3. /\ VoteCell(v, Col("confirmed")) = IF v.confirmed THEN 1 ELSE 0
        /\ VoteCell(x, Col("confirmed")) = IF x.confirmed THEN 1 ELSE 0
    BY <1>1, <1>4 DEF VoteCell
  <2>4. v.confirmedIn = x.confirmedIn /\ v.revokedIn = x.revokedIn  BY <1>2, <2>2
  <2>5. v.confirmed <=> x.confirmed
    <3>1. VoteCell(v, Col("confirmed")) = VoteCell(x, Col("confirmed"))  BY <1>2
    <3> QED  BY <2>3, <3>1
  <2> QED  BY <2>1, <2>4, <2>5 DEF VoteRecord
<1> QED  BY <1>3, <1>4

LEMMA SameRow ==
    ASSUME NEW r \in Row, NEW s \in Row, \A k \in Column : Cell(r, k) = Cell(s, k)
    PROVE  r = s
<1> DEFINE Col(of) == [of |-> of, owner |-> 0]
<1>1. \A of \in {"row", "submit", "execute"} : Col(of) \in Column /\ Col(of).of = of
  BY DEF Column
<1> HIDE DEF Col
<1>2. \A of \in {"row", "submit", "execute"} : RowCell(r, Col(of)) = RowCell(s, Col(of))
  BY <1>1 DEF Cell
<1>3. r = NoRow <=> s = NoRow
  <2>1. \A y : RowCell(y, Col("row")) = IF y = NoRow THEN 0 ELSE 1
    BY <1>1 DEF RowCell
  <2> QED  BY <1>2, <2>1
<1>4. ASSUME r # NoRow, s # NoRow PROVE r = s
  <2>1. r \in RowRecord /\ s \in RowRecord  BY <1>4 DEF Row
  <2>2. /\ RowCell(r, Col("submit")) = r.submit /\ RowCell(s, Col("submit")) = s.submit
        /\ RowCell(r, Col("execute")) = r.execute /\ RowCell(s, Col("execute")) = s.execute
    BY <1>1, <1>4 DEF RowCell
  <2>3. r.submit = s.submit /\ r.execute = s.execute  BY <1>2, <2>2
  <2>4. ASSUME NEW w \in Owner PROVE r.confirmations[w] = s.confirmations[w]
    <3>1. r.confirmations[w] \in Vote /\ s.confirmations[w] \in Vote  BY <2>1 DEF RowRecord
    <3>2. ASSUME NEW k \in Column, k.owner = w, k.of \notin {"row", "submit", "execute"}
          PROVE  VoteCell(r.confirmations[w], k) = VoteCell(s.confirmations[w], k)
      BY <1>4, <3>2 DEF Cell, VoteOf
    <3> QED  BY <3>1, <3>2, SameVote
  <2>5. r.confirmations = s.confirmations
    <3>1. r.confirmations \in [Owner -> Vote] /\ s.confirmations \in [Owner -> Vote]
      BY <2>1 DEF RowRecord
    <3> QED  BY <2>4, <3>1
  <2> QED  BY <2>1, <2>3, <2>5 DEF RowRecord
<1> QED  BY <1>3, <1>4

\* Replaying a set of events again changes nothing.
LEMMA ReplayAgain ==
    ASSUME NEW c \in Contract, NEW S, Events(c, S), NEW table \in Table
    PROVE  ApplyProjections(c, ApplyProjections(c, table, S), S) = ApplyProjections(c, table, S)
<1> DEFINE once == ApplyProjections(c, table, S)
           again == ApplyProjections(c, once, S)
<1>1. once \in Table /\ again \in Table  BY ReplayType
<1>2. ASSUME NEW tx \in TxIndex, NEW k \in Column
      PROVE  Cell(again[tx], k) = Cell(once[tx], k)
  BY <1>1, ReplayCells DEF KeptCell, SettledCell
<1> HIDE DEF once, again
<1>3. ASSUME NEW tx \in TxIndex PROVE again[tx] = once[tx]
  <2>1. again[tx] \in Row /\ once[tx] \in Row  BY <1>1 DEF Table
  <2> QED  BY <1>2, <2>1, SameRow
<1>4. again = once  BY <1>1, <1>3 DEF Table
<1> QED  BY <1>4 DEF once, again

\* A replay of events the table already has, with nothing after them, changes nothing.
LEMMA RebuiltAgain ==
    ASSUME NEW c \in Contract, NEW S, Events(c, S), NEW T, T \subseteq S,
           \A o \in S \ T, p \in T : Before(o, p)
    PROVE  ApplyProjections(c, Rebuilt(c, S), T) = Rebuilt(c, S)
<1> DEFINE head == ApplyProjections(c, NoProjections, S \ T)
<1>1. (S \ T) \cup T = S  OBVIOUS
<1>2. Line(S)  BY DEF Events
<1>3. Rebuilt(c, S) = ApplyProjections(c, head, T)
  BY <1>1, <1>2, ReplaySplit DEF Rebuilt
<1>4. Events(c, S \ T) /\ Events(c, T)  BY LinePart DEF Events
<1>5. head \in Table  BY <1>4, ReplayType, NoProjectionsType
<1> QED  BY <1>3, <1>4, <1>5, ReplayAgain

\* Events that come after all the others are added by replaying them alone.
LEMMA RebuiltMore ==
    ASSUME NEW c \in Contract, NEW S, NEW T, Events(c, S \cup T),
           \A o \in S, p \in T : Before(o, p)
    PROVE  ApplyProjections(c, Rebuilt(c, S), T) = Rebuilt(c, S \cup T)
  BY ReplaySplit DEF Rebuilt, Events

-----------------------------------------------------------------------------
(* What a replay says. *)

\* The event sets a column of the row of a transaction.
SetBy(c, o, tx, k) == LogOf(c, o).tx = tx /\ Sets(LogOf(c, o), k)

\* The last event that sets a column decides it, whatever the table held before.
LEMMA ReplayedCell ==
    ASSUME NEW c \in Contract, NEW S, Events(c, S), NEW table \in Table,
           NEW tx \in TxIndex, NEW k \in Column
    PROVE  /\ (\A o \in S : ~SetBy(c, o, tx, k)) =>
                Cell(ApplyProjections(c, table, S)[tx], k) = Cell(table[tx], k)
           /\ \A o \in S :
                SetBy(c, o, tx, k) /\ (\A p \in S \ {o} : SetBy(c, p, tx, k) => Before(p, o)) =>
                Cell(ApplyProjections(c, table, S)[tx], k) = Written(LogOf(c, o), Mark(c, o), k)
<1> DEFINE Value(T) == Cell(ApplyProjections(c, table, T)[tx], k)
           Decides(T, o) == SetBy(c, o, tx, k) /\ \A p \in T \ {o} : SetBy(c, p, tx, k) => Before(p, o)
           Holds(T) == /\ (\A o \in T : ~SetBy(c, o, tx, k)) => Value(T) = Cell(table[tx], k)
                       /\ \A o \in T : Decides(T, o) =>
                                       Value(T) = Written(LogOf(c, o), Mark(c, o), k)
           bad == {T \in SUBSET S : ~Holds(T)}
<1>1. ASSUME bad # {} PROVE FALSE
  <2>1. bad \subseteq SUBSET S  OBVIOUS
  <2>2. PICK T \in bad : \A x \in T : T \ {x} \notin bad
    <3> HIDE DEF bad
    <3> QED  BY <1>1, <2>1, Smallest DEF Line, Events
  <2>3. T \in SUBSET S /\ ~Holds(T)  OBVIOUS
  <2>4. Line(T) /\ T \subseteq Occurrence(c)  BY <2>3, LinePart DEF Events
  <2>5. T # {}
    <3>1. SUFFICES ASSUME T = {} PROVE Holds(T)
      BY <2>3
    <3>2. ApplyProjections(c, table, T) = table  BY <2>4, <3>1, ReplayStep
    <3> QED  BY <3>1, <3>2
  <2> DEFINE last == Last(T)
             rest == T \ {last}
  <2>6. /\ last \in T /\ last \in Occurrence(c) /\ rest \subseteq T /\ T = rest \cup {last}
        /\ \A p \in rest : Before(p, last) /\ ~Before(last, p)
    <3>1. last \in T /\ \A p \in rest : Before(p, last)  BY <2>4, <2>5, HasLast
    <3> HIDE DEF last
    <3> QED  BY <2>4, <3>1, LineOrder
  <2>7. rest \in SUBSET S /\ Holds(rest)
    <3>1. rest \in SUBSET S /\ rest \notin bad  BY <2>2, <2>3, <2>6
    <3> QED  BY <3>1
  <2>8. /\ ApplyProjections(c, table, T) = Project(c, last, ApplyProjections(c, table, rest))
        /\ ApplyProjections(c, table, rest) \in Table
    <3>1. Events(c, rest)  BY <2>4, LinePart DEF Events
    <3> QED  BY <2>4, <2>5, <3>1, ReplayStep, ReplayType
  <2> HIDE DEF last, rest
  <2>9. Value(T) = IF SetBy(c, last, tx, k) THEN Written(LogOf(c, last), Mark(c, last), k)
                   ELSE Value(rest)
    BY <2>6, <2>8, ProjectedTable DEF SetBy
  <2> HIDE DEF Value
  <2>10. CASE SetBy(c, last, tx, k)
    <3>1. \A o \in T : Decides(T, o) => o = last  BY <2>6, <2>10
    <3> QED  BY <2>3, <2>6, <2>9, <2>10, <3>1
  <2>11. CASE ~SetBy(c, last, tx, k)
    <3>1. \A o \in T : Decides(T, o) => o \in rest /\ Decides(rest, o)  BY <2>6, <2>11
    <3> QED  BY <2>3, <2>6, <2>7, <2>9, <2>11, <3>1
  <2> QED  BY <2>10, <2>11
<1>2. Holds(S)  BY <1>1
<1> QED  BY <1>2

Confirmed(row, w) ==
    row # NoRow /\ row.confirmations[w] # NoConfirmation /\ row.confirmations[w].confirmed

VotesOn(c, S, tx, w) ==
    {o \in S : /\ LogOf(c, o).tx = tx /\ LogOf(c, o).owner = w
               /\ LogOf(c, o).name \in {"ConfirmTransaction", "RevokeConfirmation"}}

EventsNamed(c, S, tx, name) == {o \in S : LogOf(c, o).tx = tx /\ LogOf(c, o).name = name}

SubmitOf(row)  == IF row = NoRow THEN NoMark ELSE row.submit
ExecuteOf(row) == IF row = NoRow THEN NoMark ELSE row.execute

\* A group of columns is that of the last of these events, and null without any.
IsOfTheLast(c, mark, events) == mark = IF events = {} THEN NoMark ELSE Mark(c, Last(events))

\* A table that says what the events S say: which transactions they name, which of these
\* were submitted and executed, by the last event that did so, and for each owner whether
\* its last vote confirmed.
SaysWhatHappened(c, table, S) ==
    \A tx \in TxIndex :
        /\ table[tx] # NoRow <=> \E o \in S : LogOf(c, o).tx = tx
        /\ IsOfTheLast(c, SubmitOf(table[tx]), EventsNamed(c, S, tx, "SubmitTransaction"))
        /\ IsOfTheLast(c, ExecuteOf(table[tx]), EventsNamed(c, S, tx, "ExecuteTransaction"))
        /\ \A w \in Owner :
              LET votes == VotesOn(c, S, tx, w)
              IN  Confirmed(table[tx], w) <=>
                    votes # {} /\ LogOf(c, Last(votes)).name = "ConfirmTransaction"

\* The column is what the last of its events wrote, or empty.
LEMMA RebuiltCell ==
    ASSUME NEW c \in Contract, NEW S, Events(c, S), NEW tx \in TxIndex, NEW k \in Column
    PROVE  LET setters == {o \in S : SetBy(c, o, tx, k)}
           IN  /\ setters = {} => Cell(Rebuilt(c, S)[tx], k) = Cell(NoRow, k)
               /\ setters # {} => /\ Last(setters) \in setters
                                  /\ Cell(Rebuilt(c, S)[tx], k) =
                                     Written(LogOf(c, Last(setters)), Mark(c, Last(setters)), k)
<1> DEFINE setters == {o \in S : SetBy(c, o, tx, k)}
<1>1. NoProjections \in Table /\ NoProjections[tx] = NoRow
  BY NoProjectionsType DEF NoProjections
<1>2. CASE setters = {}
  <2>1. \A o \in S : ~SetBy(c, o, tx, k)  BY <1>2
  <2>2. Cell(ApplyProjections(c, NoProjections, S)[tx], k) = Cell(NoProjections[tx], k)
    BY <1>1, <2>1, ReplayedCell
  <2> QED  BY <1>1, <1>2, <2>2 DEF Rebuilt
<1>3. CASE setters # {}
  <2>1. Line(setters)  BY LinePart DEF Events
  <2>2. Last(setters) \in setters /\ \A p \in setters \ {Last(setters)} : Before(p, Last(setters))
    BY <1>3, <2>1, HasLast
  <2> DEFINE last == Last(setters)
  <2>3. /\ last \in S /\ SetBy(c, last, tx, k)
        /\ \A p \in S \ {last} : SetBy(c, p, tx, k) => Before(p, last)
    BY <2>2
  <2> HIDE DEF last
  <2>4. Cell(ApplyProjections(c, NoProjections, S)[tx], k) =
        Written(LogOf(c, last), Mark(c, last), k)
    BY <1>1, <2>3, ReplayedCell
  <2> QED  BY <1>3, <2>2, <2>4 DEF Rebuilt, last
<1> QED  BY <1>2, <1>3

\* The replay of any events of one chain says what they say.
THEOREM ReplaySaysWhatHappened ==
    ASSUME NEW c \in Contract, NEW S, Events(c, S) PROVE SaysWhatHappened(c, Rebuilt(c, S), S)
<1> SUFFICES ASSUME NEW tx \in TxIndex
             PROVE  LET row == Rebuilt(c, S)[tx] IN
                    /\ row # NoRow <=> \E o \in S : LogOf(c, o).tx = tx
                    /\ IsOfTheLast(c, SubmitOf(row), EventsNamed(c, S, tx, "SubmitTransaction"))
                    /\ IsOfTheLast(c, ExecuteOf(row), EventsNamed(c, S, tx, "ExecuteTransaction"))
                    /\ \A w \in Owner :
                          Confirmed(row, w) <=>
                             /\ VotesOn(c, S, tx, w) # {}
                             /\ LogOf(c, Last(VotesOn(c, S, tx, w))).name = "ConfirmTransaction"
  BY DEF SaysWhatHappened
<1> DEFINE row == Rebuilt(c, S)[tx]
<1>1. IsOfTheLast(c, SubmitOf(row), EventsNamed(c, S, tx, "SubmitTransaction"))
  <2> DEFINE k == [of |-> "submit", owner |-> 0]
  <2>1. k \in Column /\ k.of = "submit"  BY DEF Column
  <2> HIDE DEF k
  <2>2. \A r : Cell(r, k) = SubmitOf(r)  BY <2>1 DEF Cell, RowCell, SubmitOf
  <2>3. \A log, mark : Written(log, mark, k) = mark  BY <2>1 DEF Written
  <2> DEFINE setters == {o \in S : SetBy(c, o, tx, k)}
  <2>4. setters = EventsNamed(c, S, tx, "SubmitTransaction")
    BY <2>1 DEF SetBy, Sets, EventsNamed
  <2>5. /\ setters = {} => Cell(row, k) = Cell(NoRow, k)
        /\ setters # {} => Cell(row, k) = Written(LogOf(c, Last(setters)), Mark(c, Last(setters)), k)
    BY <2>1, RebuiltCell
  <2>6. SubmitOf(NoRow) = NoMark  BY DEF SubmitOf
  <2> HIDE DEF setters, row
  <2> QED  BY <2>2, <2>3, <2>4, <2>5, <2>6 DEF IsOfTheLast
<1>2. row # NoRow <=> \E o \in S : LogOf(c, o).tx = tx
  <2> DEFINE k == [of |-> "row", owner |-> 0]
  <2>1. k \in Column /\ k.of = "row"  BY DEF Column
  <2> HIDE DEF k
  <2>2. \A r : Cell(r, k) = IF r = NoRow THEN 0 ELSE 1  BY <2>1 DEF Cell, RowCell
  <2>3. \A log, mark : Written(log, mark, k) = 1  BY <2>1 DEF Written
  <2>4. \A o \in S : SetBy(c, o, tx, k) <=> LogOf(c, o).tx = tx  BY <2>1 DEF SetBy, Sets
  <2> DEFINE setters == {o \in S : SetBy(c, o, tx, k)}
  <2>5. /\ setters = {} => Cell(row, k) = Cell(NoRow, k)
        /\ setters # {} => Cell(row, k) = Written(LogOf(c, Last(setters)), Mark(c, Last(setters)), k)
    BY <2>1, RebuiltCell
  <2>6. setters # {} <=> \E o \in S : LogOf(c, o).tx = tx  BY <2>4
  <2> HIDE DEF setters, row
  <2> QED  BY <2>2, <2>3, <2>5, <2>6
<1>3. IsOfTheLast(c, ExecuteOf(row), EventsNamed(c, S, tx, "ExecuteTransaction"))
  <2> DEFINE k == [of |-> "execute", owner |-> 0]
  <2>1. k \in Column /\ k.of = "execute"  BY DEF Column
  <2> HIDE DEF k
  <2>2. \A r : Cell(r, k) = ExecuteOf(r)  BY <2>1 DEF Cell, RowCell, ExecuteOf
  <2>3. \A log, mark : Written(log, mark, k) = mark  BY <2>1 DEF Written
  <2> DEFINE setters == {o \in S : SetBy(c, o, tx, k)}
  <2>4. setters = EventsNamed(c, S, tx, "ExecuteTransaction")
    BY <2>1 DEF SetBy, Sets, EventsNamed
  <2>5. /\ setters = {} => Cell(row, k) = Cell(NoRow, k)
        /\ setters # {} => Cell(row, k) = Written(LogOf(c, Last(setters)), Mark(c, Last(setters)), k)
    BY <2>1, RebuiltCell
  <2>6. ExecuteOf(NoRow) = NoMark  BY DEF ExecuteOf
  <2> HIDE DEF setters, row
  <2> QED  BY <2>2, <2>3, <2>4, <2>5, <2>6 DEF IsOfTheLast
<1>4. ASSUME NEW w \in Owner
      PROVE  Confirmed(row, w) <=>
                /\ VotesOn(c, S, tx, w) # {}
                /\ LogOf(c, Last(VotesOn(c, S, tx, w))).name = "ConfirmTransaction"
  <2> DEFINE k == [of |-> "confirmed", owner |-> w]
  <2>1. k \in Column /\ k.of = "confirmed" /\ k.owner = w  BY DEF Column
  <2> HIDE DEF k
  <2>2. \A r : Cell(r, k) = 1 <=> Confirmed(r, w)
    <3> SUFFICES ASSUME NEW r PROVE Cell(r, k) = 1 <=> Confirmed(r, w)
      OBVIOUS
    <3> DEFINE v == VoteOf(r, w)
    <3>1. Cell(r, k) = IF v = NoConfirmation THEN 0 ELSE IF v.confirmed THEN 1 ELSE 0
      BY <2>1 DEF Cell, VoteCell
    <3>2. Confirmed(r, w) <=> v # NoConfirmation /\ v.confirmed
      BY DEF Confirmed, VoteOf
    <3> HIDE DEF v
    <3> QED  BY <3>1, <3>2
  <2>3. \A log, mark : Written(log, mark, k) = IF log.name = "ConfirmTransaction" THEN 1 ELSE 0
    BY <2>1 DEF Written
  <2> DEFINE setters == {o \in S : SetBy(c, o, tx, k)}
  <2>4. setters = VotesOn(c, S, tx, w)  BY <2>1 DEF SetBy, Sets, VotesOn
  <2>5. /\ setters = {} => Cell(row, k) = Cell(NoRow, k)
        /\ setters # {} => Cell(row, k) = Written(LogOf(c, Last(setters)), Mark(c, Last(setters)), k)
    BY <2>1, RebuiltCell
  <2>6. ~Confirmed(NoRow, w)  BY DEF Confirmed
  <2> HIDE DEF setters, row
  <2> QED  BY <2>2, <2>3, <2>4, <2>5, <2>6
<1> QED  BY <1>1, <1>2, <1>3, <1>4
=============================================================================
