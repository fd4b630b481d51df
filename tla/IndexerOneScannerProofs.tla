----------------------- MODULE IndexerOneScannerProofs -----------------------
(***************************************************************************)
(* What one process promises and several do not: the stored rows are the   *)
(* heights below the checkpoint, no event of them is missing or left over, *)
(* a rewind drops no block the chain still has, the projections say what   *)
(* the live events say, and the rows of a contract are the ledger of       *)
(* IndexerLedger.                                                          *)
(*                                                                         *)
(* A run is as good as what it has read. PlaceInv says that the checkpoint *)
(* it holds is the stored one, or that the range it holds is due or was    *)
(* committed with a lost answer. ChainInv says what each call has learned  *)
(* of the chain, and that it still holds at the next one. TurnsInv says    *)
(* how far a contract that waits is ahead of the cursor.                   *)
(***************************************************************************)
EXTENDS IndexerScannerProofs, IndexerRotation

OneScanner == \A i, j \in Instance : i = j

\* The heights at which a table of block rows holds a block.
Stored(rs) == {h \in Height : rs[h] # NoBlock}

RowsAre(c, cp, rs) ==
    Stored(rs) = IF cp = NoCheckpoint THEN {} ELSE StartBlock[c]..(cp.next - 1)

Reading == {"tip", "window", "compare", "rewind", "decide"}
Ranging == {"headers", "logs", "commit"}

RunAgrees(r, c, cp) ==
    /\ r.pc \in Reading => cp # NoCheckpoint /\ r.cp.next = cp.next /\ r.cp.tip = cp.tip
    /\ r.pc \in Ranging => /\ cp # NoCheckpoint /\ cp.next \in {r.commit.from, r.commit.to + 1}
                           /\ StartBlock[c] <= r.commit.from

RowsInv == \A c \in Contract : RowsAre(c, checkpoint[c], rows[c])
RunsAgree == \A i \in Instance : RunAgrees(run[i], Target(i), checkpoint[Target(i)])
PlaceInv == RowsInv /\ RunsAgree

LEMMA CheckpointIsOne == \A cp \in Checkpoint : cp # NoCheckpoint
<1>1. NoCheckpoint.status \notin Status  BY DEF NoCheckpoint, Status
<1> QED  BY <1>1 DEF Checkpoint

\* The state a step of a run starts from.
LEMMA StepFacts ==
    ASSUME ScannerInv, NEW i \in Instance, InRun(i)
    PROVE  /\ run \in [Instance -> Run] /\ run[i] \in Run /\ Target(i) \in Contract
           /\ checkpoint \in [Contract -> Checkpoint \cup {NoCheckpoint}]
           /\ rows \in [Contract -> [Height -> Block \cup {NoBlock}]]
           /\ live \in [Contract -> SUBSET (Block \X Nat)]
           /\ StoreInv /\ RunInv(run[i], tracked)
  BY InRunFacts, TargetType DEF ControlOK, Runs, StoreInv, StoreTypeOK

SamePlace(r, s) == r.start = s.start /\ r.offset = s.offset /\ r.n = s.n

LEMMA TargetStays ==
    ASSUME ScannerInv, NEW i \in Instance, NEW next, run' = [run EXCEPT ![i] = next],
           UNCHANGED tracked, SamePlace(next, run[i])
    PROVE  Target(i)' = Target(i)
<1>1. run'[i] = next  BY DEF ScannerInv, ScannerTypeOK
<1> QED  BY <1>1 DEF Target, Position, SamePlace

\* A step of the only process leaves every run where its next call can start when it
\* leaves its own there.
LEMMA RunsAgreeNext ==
    ASSUME ScannerInv, OneScanner, NEW i \in Instance, NEW next,
           run' = [run EXCEPT ![i] = next], UNCHANGED tracked,
           next.pc \in Reading \cup Ranging =>
              SamePlace(next, run[i]) /\ RunAgrees(next, Target(i), checkpoint'[Target(i)])
    PROVE  RunsAgree'
<1>1. run'[i] = next  BY DEF ScannerInv, ScannerTypeOK
<1>2. CASE next.pc \in Reading \cup Ranging
  <2>1. Target(i)' = Target(i)  BY <1>2, TargetStays
  <2>2. RunAgrees(run'[i], Target(i)', checkpoint'[Target(i)'])  BY <1>1, <1>2, <2>1
  <2> QED  BY <2>2 DEF RunsAgree, OneScanner
<1>3. CASE next.pc \notin Reading \cup Ranging
  <2>1. \A c, cp : RunAgrees(run'[i], c, cp)  BY <1>1, <1>3 DEF RunAgrees
  <2> QED  BY <2>1 DEF RunsAgree, OneScanner
<1> QED  BY <1>2, <1>3

\* A step that writes one contract keeps the rows of every contract when it keeps those.
LEMMA RowsNext ==
    ASSUME StoreInv, RowsInv, NEW c \in Contract, NEW cp, NEW rs, RowsAre(c, cp, rs),
           checkpoint' = [checkpoint EXCEPT ![c] = cp], rows' = [rows EXCEPT ![c] = rs]
    PROVE  RowsInv' /\ checkpoint'[c] = cp
<1>1. /\ checkpoint \in [Contract -> Checkpoint \cup {NoCheckpoint}]
      /\ rows \in [Contract -> [Height -> Block \cup {NoBlock}]]
  BY DEF StoreInv, StoreTypeOK
<1> QED  BY <1>1 DEF RowsInv

\* next_block is never below the start block.
LEMMA NextFromStart ==
    ASSUME StoreInv, RowsInv, NEW c \in Contract, checkpoint[c] # NoCheckpoint
    PROVE  /\ StartBlock[c] \in Nat /\ checkpoint[c].next \in Nat
           /\ StartBlock[c] <= checkpoint[c].next
<1>1. checkpoint[c] \in Checkpoint  BY DEF StoreInv, StoreTypeOK
<1>2. StartBlock[c] \in Nat /\ checkpoint[c].next \in Nat
  BY <1>1, StartBlockType, HeightAssumption DEF Checkpoint
<1>3. checkpoint[c].tip = NoTip => checkpoint[c].next = StartBlock[c]
  BY DEF StoreInv, TipIsStored
<1>4. ASSUME checkpoint[c].tip # NoTip PROVE StartBlock[c] <= checkpoint[c].next
  <2>1. /\ checkpoint[c].tip.number \in Height /\ checkpoint[c].tip.hash \in Block
        /\ rows[c][checkpoint[c].tip.number] = checkpoint[c].tip.hash
    BY <1>1, <1>4 DEF StoreInv, TipIsStored, Checkpoint, Tip
  <2>2. checkpoint[c].tip.number \in Stored(rows[c])  BY <2>1, NoBlockAssumption DEF Stored
  <2>3. checkpoint[c].tip.number \in StartBlock[c]..(checkpoint[c].next - 1)
    BY <2>2 DEF RowsInv, RowsAre
  <2> QED  BY <1>2, <2>3
<1> QED  BY <1>2, <1>3, <1>4

LEMMA CheckpointRowsNext ==
    ASSUME StoreInv, RowsInv, NEW c \in Contract, NEW cp, RowsAre(c, cp, rows[c]),
           WriteCheckpoint(c, cp)
    PROVE  RowsInv' /\ checkpoint'[c] = cp
<1>1. rows \in [Contract -> [Height -> Block \cup {NoBlock}]]
  BY DEF StoreInv, StoreTypeOK
<1>2. rows' = [rows EXCEPT ![c] = rows[c]]  BY <1>1 DEF WriteCheckpoint
<1> QED  BY <1>2, RowsNext DEF WriteCheckpoint

\* The status of a checkpoint is not part of its position.
LEMMA StatusRowsNext ==
    ASSUME StoreInv, RowsInv, NEW c \in Contract, NEW status \in Status,
           SetCheckpointStatus(c, status)
    PROVE  /\ RowsInv' /\ checkpoint'[c] # NoCheckpoint
           /\ checkpoint'[c].next = checkpoint[c].next /\ checkpoint'[c].tip = checkpoint[c].tip
<1> DEFINE cp == [checkpoint[c] EXCEPT !.status = status]
<1>1. checkpoint[c] \in Checkpoint /\ checkpoint[c] # NoCheckpoint
  BY DEF SetCheckpointStatus, StoreInv, StoreTypeOK
<1>2. cp \in Checkpoint /\ cp.next = checkpoint[c].next /\ cp.tip = checkpoint[c].tip
  BY <1>1 DEF Checkpoint
<1>3. WriteCheckpoint(c, cp)  BY DEF SetCheckpointStatus
<1> HIDE DEF cp
<1>4. cp # NoCheckpoint  BY <1>2, CheckpointIsOne
<1>5. RowsAre(c, cp, rows[c])  BY <1>1, <1>2, <1>4 DEF RowsInv, RowsAre
<1> QED  BY <1>2, <1>3, <1>4, <1>5, CheckpointRowsNext

LEMMA EnsureRowsNext ==
    ASSUME StoreInv, RowsInv, NEW c \in Contract, EnsureCheckpoint(c)
    PROVE  /\ RowsInv' /\ checkpoint'[c] = EnsuredCheckpoint(c)
           /\ EnsuredCheckpoint(c) # NoCheckpoint
<1>1. InitialCheckpoint(c) # NoCheckpoint /\ InitialCheckpoint(c).next = StartBlock[c]
  BY InitialCheckpointType, CheckpointIsOne
<1>2. StartBlock[c]..(StartBlock[c] - 1) = {}  BY StartBlockType
<1>3. EnsuredCheckpoint(c) # NoCheckpoint  BY <1>1 DEF EnsuredCheckpoint
<1>4. RowsAre(c, EnsuredCheckpoint(c), rows[c])
  BY <1>1, <1>2 DEF RowsInv, RowsAre, EnsuredCheckpoint
<1> QED  BY <1>3, <1>4, CheckpointRowsNext DEF EnsureCheckpoint

LEMMA ResetRowsNext ==
    ASSUME StoreInv, RowsInv, ResetRunningCheckpoints
    PROVE  RowsInv'
<1> SUFFICES ASSUME NEW c \in Contract PROVE RowsAre(c, checkpoint'[c], rows[c])
  BY DEF ResetRunningCheckpoints, RowsInv
<1>1. checkpoint[c] \in Checkpoint \cup {NoCheckpoint}
  BY DEF StoreInv, StoreTypeOK
<1>2. checkpoint'[c] = IF checkpoint[c].status = "running"
                       THEN [checkpoint[c] EXCEPT !.status = "pending"] ELSE checkpoint[c]
  BY DEF ResetRunningCheckpoints
<1>3. CASE checkpoint[c].status = "running"
  <2> DEFINE cp == [checkpoint[c] EXCEPT !.status = "pending"]
  <2>1. checkpoint[c] \in Checkpoint
    <3>1. NoCheckpoint.status # "running"  BY DEF NoCheckpoint
    <3> QED  BY <1>1, <1>3, <3>1
  <2>2. cp \in Checkpoint /\ cp.next = checkpoint[c].next
    BY <2>1 DEF Checkpoint, Status
  <2>3. cp # NoCheckpoint /\ checkpoint[c] # NoCheckpoint  BY <2>1, <2>2, CheckpointIsOne
  <2> HIDE DEF cp
  <2>4. checkpoint'[c] = cp  BY <1>2, <1>3 DEF cp
  <2> QED  BY <2>2, <2>3, <2>4 DEF RowsInv, RowsAre
<1>4. CASE checkpoint[c].status # "running"  BY <1>2, <1>4 DEF RowsInv
<1> QED  BY <1>3, <1>4

\* A range that is due, or was committed before: afterwards the checkpoint is past it.
LEMMA CommitRowsNext ==
    ASSUME StoreInv, RowsInv, NEW c \in Contract, NEW commit, IsRangeCommit(c, commit),
           CommitRange(c, commit), checkpoint[c].next \in {commit.from, commit.to + 1},
           StartBlock[c] <= commit.from
    PROVE  /\ RowsInv' /\ checkpoint'[c] # NoCheckpoint
           /\ checkpoint'[c].next = commit.to + 1
<1> DEFINE range == commit.from..commit.to
           cp == IF Advancing(c, commit) THEN AdvancedCheckpoint(commit) ELSE checkpoint[c]
           rs == [h \in Height |-> IF h \in range THEN commit.blocks[h] ELSE rows[c][h]]
<1>1. /\ checkpoint[c] # NoCheckpoint /\ checkpoint[c] \in Checkpoint
      /\ checkpoint' = [checkpoint EXCEPT ![c] = cp] /\ rows' = [rows EXCEPT ![c] = rs]
  BY DEF CommitRange, CommitAccepted, Write, StoreInv, StoreTypeOK
<1>2. /\ commit.from \in Nat /\ commit.to \in Nat /\ commit.from <= commit.to
      /\ range \subseteq Height /\ commit.blocks \in [range -> Block]
  BY HeightAssumption DEF IsRangeCommit, Headers, Height
<1>3. cp.next = commit.to + 1 /\ cp # NoCheckpoint
  <2>1. CASE Advancing(c, commit)
    <3>1. AdvancedCheckpoint(commit).status # NoCheckpoint.status
      BY DEF AdvancedCheckpoint, NoCheckpoint, IsRangeCommit
    <3>2. AdvancedCheckpoint(commit).next = commit.to + 1  BY DEF AdvancedCheckpoint
    <3> QED  BY <2>1, <3>1, <3>2
  <2>2. CASE ~Advancing(c, commit)
    BY <1>1, <2>2 DEF Advancing
  <2> QED  BY <2>1, <2>2
<1>4. Stored(rs) = Stored(rows[c]) \cup range
  <2>1. \A h \in range : commit.blocks[h] # NoBlock  BY <1>2, NoBlockAssumption
  <2> QED  BY <1>2, <2>1 DEF Stored
<1>5. Stored(rows[c]) = StartBlock[c]..(checkpoint[c].next - 1)
  BY <1>1 DEF RowsInv, RowsAre
<1>6. StartBlock[c] \in Nat /\ checkpoint[c].next \in Nat /\ StartBlock[c] <= checkpoint[c].next
  BY <1>1, NextFromStart
<1>7. Stored(rs) = StartBlock[c]..commit.to
  <2> HIDE DEF rs, range
  <2>1. range = commit.from..commit.to  BY DEF range
  <2> QED  BY <1>2, <1>4, <1>5, <1>6, <2>1
<1> HIDE DEF cp, rs, range
<1>8. RowsAre(c, cp, rs)
  <2>1. (commit.to + 1) - 1 = commit.to  BY <1>2
  <2> QED  BY <1>3, <1>7, <2>1 DEF RowsAre
<1>9. RowsInv' /\ checkpoint'[c] = cp  BY <1>1, <1>8, RowsNext
<1> QED  BY <1>3, <1>9

\* A rewind leaves the rows up to the ancestor, or none.
LEMMA RewindRowsNext ==
    ASSUME ScannerInv, RowsInv, NEW i \in Instance, InRun(i), RewindStore(i)
    PROVE  /\ RowsInv' /\ checkpoint'[Target(i)] = RewoundTo(i)
           /\ RewoundTo(i) # NoCheckpoint
<1> DEFINE c == Target(i)
           a == run[i].ancestor
<1>1. StoreInv /\ c \in Contract /\ a \in Height \cup {NoAncestor}
  BY StepFacts DEF Run
<1>2. CASE a = NoAncestor
  <2> DEFINE rs == [h \in Height |-> NoBlock]
  <2>1. /\ RewoundTo(i) = InitialCheckpoint(c) /\ InitialCheckpoint(c) # NoCheckpoint
        /\ InitialCheckpoint(c).next = StartBlock[c]
    BY <1>1, <1>2, InitialCheckpointType, CheckpointIsOne DEF RewoundTo
  <2>2. StartBlock[c]..(StartBlock[c] - 1) = {}  BY <1>1, StartBlockType
  <2>3. RowsAre(c, InitialCheckpoint(c), rs)  BY <2>1, <2>2 DEF RowsAre, Stored
  <2>4. /\ checkpoint' = [checkpoint EXCEPT ![c] = InitialCheckpoint(c)]
        /\ rows' = [rows EXCEPT ![c] = rs]
    BY <1>2 DEF RewindStore, RewindToStart, Write
  <2> HIDE DEF rs, c
  <2> QED  BY <1>1, <2>1, <2>3, <2>4, RowsNext DEF c
<1>3. CASE a # NoAncestor
  <2> DEFINE cp == RewoundCheckpoint(c, a)
             rs == RowsUpTo(c, a)
  <2>1. /\ RewindToAncestor(c, a) /\ RewoundTo(i) = cp /\ a \in Height
    BY <1>1, <1>3 DEF RewindStore, RewoundTo
  <2>2. /\ checkpoint[c] # NoCheckpoint /\ a < checkpoint[c].next /\ rows[c][a] # NoBlock
        /\ checkpoint' = [checkpoint EXCEPT ![c] = cp] /\ rows' = [rows EXCEPT ![c] = rs]
    BY <2>1 DEF RewindToAncestor, RewindAccepted, Write
  <2>3. cp.next = a + 1 /\ cp # NoCheckpoint
    <3>1. cp.status # NoCheckpoint.status  BY DEF RewoundCheckpoint, NoCheckpoint
    <3> QED  BY <3>1 DEF RewoundCheckpoint
  <2>4. Stored(rows[c]) = StartBlock[c]..(checkpoint[c].next - 1)
    BY <1>1, <2>2 DEF RowsInv, RowsAre
  <2>5. Stored(rs) = {h \in Stored(rows[c]) : h <= a}
    BY <2>1, HeightAssumption DEF Stored, RowsUpTo, Height
  <2>6. StartBlock[c] \in Nat /\ checkpoint[c].next \in Nat /\ a \in Nat
    BY <1>1, <2>1, <2>2, NextFromStart, HeightAssumption DEF Height
  <2> HIDE DEF rs, cp, c, a
  <2>7. Stored(rs) = StartBlock[c]..a  BY <2>2, <2>4, <2>5, <2>6
  <2>8. RowsAre(c, cp, rs)  BY <2>3, <2>6, <2>7 DEF RowsAre
  <2> QED  BY <1>1, <2>1, <2>2, <2>3, <2>8, RowsNext DEF c
<1> QED  BY <1>2, <1>3

-----------------------------------------------------------------------------
(* The steps of a run. *)

\* The place of a run after a step that writes no table.
Keeps(next, r) ==
    \/ next.pc \notin Reading \cup Ranging
    \/ /\ next.pc \in Reading /\ r.pc \in Reading
       /\ SamePlace(next, r) /\ next.cp = r.cp
    \/ /\ next.pc \in Ranging /\ r.pc \in Ranging
       /\ SamePlace(next, r) /\ next.commit.from = r.commit.from /\ next.commit.to = r.commit.to

LEMMA KeepsPlace ==
    ASSUME ScannerInv, OneScanner, PlaceInv, NEW i \in Instance, NEW next,
           run' = [run EXCEPT ![i] = next], UNCHANGED <<storeVars, tracked>>,
           Keeps(next, run[i])
    PROVE  PlaceInv'
<1>1. RowsInv'  BY DEF PlaceInv, RowsInv, storeVars
<1>2. RunAgrees(run[i], Target(i), checkpoint[Target(i)])  BY DEF PlaceInv, RunsAgree
<1>3. checkpoint' = checkpoint  BY DEF storeVars
<1>4. next.pc \in Reading \cup Ranging =>
        SamePlace(next, run[i]) /\ RunAgrees(next, Target(i), checkpoint'[Target(i)])
  BY <1>2, <1>3 DEF Keeps, RunAgrees, Reading, Ranging
<1>5. RunsAgree'  BY <1>4, RunsAgreeNext
<1> QED  BY <1>1, <1>5 DEF PlaceInv

\* A run that ends, fails or goes to its next contract relies on nothing it has read.
LEMMA LeavingPlace ==
    ASSUME ScannerInv, OneScanner, RowsInv', NEW i \in Instance, NEW next,
           run' = [run EXCEPT ![i] = next], UNCHANGED tracked,
           next.pc \notin Reading \cup Ranging
    PROVE  PlaceInv'
  BY RunsAgreeNext DEF PlaceInv

LEMMA ToFailPlace ==
    ASSUME ScannerInv, OneScanner, RowsInv', NEW i \in Instance, InRun(i), ToFail(i),
           UNCHANGED tracked
    PROVE  PlaceInv'
<1>1. run[i] \in Run  BY StepFacts
<1>2. [run[i] EXCEPT !.pc = "fail"].pc \notin Reading \cup Ranging
  BY <1>1 DEF Reading, Ranging, Run
<1> QED  BY <1>2, LeavingPlace DEF ToFail, Goto

LEMMA RowsUnchanged ==
    ASSUME PlaceInv, UNCHANGED storeVars
    PROVE  RowsInv'
  BY DEF PlaceInv, RowsInv, storeVars

\* The steps that begin a run, and those after which it relies on nothing it has read.
LeavingStep(i) ==
    \/ Start(i) \/ Tick(i) \/ RewindRejected(i) \/ SkipIdle(i) \/ MarkIdle(i)
    \/ CommitRejected(i) \/ Fail(i) \/ PermanentFailure(i) \/ RewindAnswerLost(i)
    \/ CallFails(i) \/ CallAnswerLost(i) \/ Crash(i)

LEMMA LeavingRun ==
    ASSUME ScannerInv, NEW i \in Instance, LeavingStep(i)
    PROVE  /\ \E next : run' = [run EXCEPT ![i] = next] /\ next.pc \notin Reading \cup Ranging
           /\ UNCHANGED <<chain, tracked>>
<1>1. UNCHANGED <<chain, tracked>>
  BY DEF LeavingStep, Start, Tick, RewindRejected, SkipIdle, MarkIdle, CommitRejected, Fail,
         PermanentFailure, RewindAnswerLost, CallFails, CallAnswerLost, Crash, At
<1>2. run[i] \in Run  BY DEF ScannerInv, ScannerTypeOK
<1>3. /\ NoRun.pc \notin Reading \cup Ranging /\ NotStarted.pc \notin Reading \cup Ranging
      /\ [run[i] EXCEPT !.pc = "fail"].pc \notin Reading \cup Ranging
  BY <1>2 DEF NoRun, NotStarted, Reading, Ranging, Run
<1>4. \A safe, n, start, offset :
        [NoRun EXCEPT !.pc = "ensure", !.safe = safe, !.n = n, !.start = start,
                      !.offset = offset].pc \notin Reading \cup Ranging
  BY DEF NoRun, Reading, Ranging
<1>5. CASE Start(i)  BY <1>1, <1>3, <1>5 DEF Start
<1>6. CASE Tick(i)
  <2> DEFINE next == [NoRun EXCEPT !.pc = "ensure",
                                   !.safe = Latest(chain) - (Confirmations - 1),
                                   !.n = Len(tracked), !.start = cursor[i] % Len(tracked)]
  <2>1. next.pc \notin Reading \cup Ranging  BY DEF NoRun, Reading, Ranging
  <2>2. run' = [run EXCEPT ![i] = next]  BY <1>6 DEF Tick, Goto
  <2> HIDE DEF next
  <2> QED  BY <1>1, <2>1, <2>2
<1>7. CASE SkipIdle(i) \/ MarkIdle(i)
  <2>1. \/ run' = [run EXCEPT ![i] = NoRun]
        \/ run' = [run EXCEPT ![i] = [NoRun EXCEPT !.pc = "ensure", !.safe = run[i].safe,
                              !.n = run[i].n, !.start = run[i].start,
                              !.offset = run[i].offset + 1]]
    BY <1>7 DEF SkipIdle, MarkIdle, NextContract, EndRun, Goto
  <2>2. ASSUME NEW next, run' = [run EXCEPT ![i] = next], next.pc \notin Reading \cup Ranging
        PROVE  \E new : run' = [run EXCEPT ![i] = new] /\ new.pc \notin Reading \cup Ranging
    BY <2>2
  <2> QED  BY <1>1, <1>3, <1>4, <2>1, <2>2
<1>8. CASE EndRun(i)  BY <1>1, <1>3, <1>8 DEF EndRun, Goto
<1>9. CASE ToFail(i)  BY <1>1, <1>3, <1>9 DEF ToFail, Goto
<1>10. CASE Crash(i)  BY <1>1, <1>3, <1>10 DEF Crash, Goto
<1> QED  BY <1>5, <1>6, <1>7, <1>8, <1>9, <1>10
    DEF LeavingStep, RewindRejected, CommitRejected, Fail, PermanentFailure, RewindAnswerLost,
        CallFails, CallAnswerLost

\* Of these, only a rewind writes rows.
LEMMA LeavingStore ==
    ASSUME NEW i \in Instance, LeavingStep(i)
    PROVE  \/ UNCHANGED storeVars
           \/ ResetRunningCheckpoints
           \/ /\ InRun(i)
              /\ \/ EnsureCheckpoint(Target(i))
                 \/ \E status \in Status : SetCheckpointStatus(Target(i), status)
           \/ run[i].pc = "rewind" /\ RewindStore(i)
  BY DEF LeavingStep, Start, Tick, RewindRejected, SkipIdle, MarkIdle, CommitRejected, Fail,
         PermanentFailure, RewindAnswerLost, CallFails, CallAnswerLost, Crash, At, InRun, Status

LEMMA LeavingStepPlace ==
    ASSUME ScannerInv, OneScanner, PlaceInv, NEW i \in Instance, LeavingStep(i)
    PROVE  PlaceInv'
<1>1. StoreInv /\ RowsInv  BY DEF ScannerInv, PlaceInv
<1>2. CASE UNCHANGED storeVars  BY <1>2, LeavingRun, LeavingPlace, RowsUnchanged
<1>3. CASE ResetRunningCheckpoints
  <2>1. RowsInv'  BY <1>1, <1>3, ResetRowsNext
  <2> QED  BY <2>1, LeavingRun, LeavingPlace
<1>4. CASE /\ InRun(i)
           /\ \/ EnsureCheckpoint(Target(i))
              \/ \E status \in Status : SetCheckpointStatus(Target(i), status)
  <2>1. RowsInv'  BY <1>1, <1>4, StepFacts, EnsureRowsNext, StatusRowsNext
  <2> QED  BY <2>1, LeavingRun, LeavingPlace
<1>5. CASE run[i].pc = "rewind" /\ RewindStore(i)
  <2>1. InRun(i)  BY <1>5 DEF InRun
  <2>2. RowsInv'  BY <1>1, <1>5, <2>1, RewindRowsNext
  <2> QED  BY <2>2, LeavingRun, LeavingPlace
<1> QED  BY <1>2, <1>3, <1>4, <1>5, LeavingStore

\* The reads of the tip check and of the ancestor walk, of the headers and of the logs.
LEMMA ReadingStepPlace ==
    ASSUME ScannerInv, OneScanner, PlaceInv, NEW i \in Instance,
           CheckTip(i) \/ ReadWindow(i) \/ CompareWindow(i) \/ ReadHeaders(i) \/ ReadLogs(i)
    PROVE  PlaceInv'
<1> DEFINE r == run[i]
<1>1. /\ r.pc \in Reading \cup Ranging /\ UNCHANGED <<storeVars, tracked>> /\ InRun(i)
      /\ r \in Run
  BY StepFacts DEF CheckTip, ReadWindow, CompareWindow, ReadHeaders, ReadLogs, At, Reading, Ranging,
         InRun
<1>2. CASE ToFail(i)  BY <1>1, <1>2, ToFailPlace, RowsUnchanged
<1>3. ASSUME r.pc \in Reading, NEW pc \in Reading, NEW high, NEW window, NEW ancestor,
             Goto(i, [r EXCEPT !.pc = pc, !.high = high, !.window = window,
                               !.ancestor = ancestor])
      PROVE  PlaceInv'
  <2> DEFINE next == [r EXCEPT !.pc = pc, !.high = high, !.window = window,
                               !.ancestor = ancestor]
  <2>1. Keeps(next, r)  BY <1>1, <1>3 DEF Keeps, SamePlace, Run
  <2>2. run' = [run EXCEPT ![i] = next]  BY <1>3 DEF Goto
  <2> HIDE DEF next
  <2> QED  BY <1>1, <2>1, <2>2, KeepsPlace
<1>4. CASE CheckTip(i)
  <2>1. \/ ToFail(i)
        \/ Goto(i, [r EXCEPT !.pc = "decide", !.high = r.high, !.window = r.window,
                             !.ancestor = r.ancestor])
        \/ Goto(i, [r EXCEPT !.pc = "window", !.high = r.cp.tip.number, !.window = r.window,
                             !.ancestor = r.ancestor])
    BY <1>1, <1>4 DEF CheckTip, Run
  <2> QED  BY <1>2, <1>3, <1>4, <2>1 DEF CheckTip, At, Reading
<1>5. CASE ReadWindow(i)
  <2>1. \/ Goto(i, [r EXCEPT !.pc = "rewind", !.high = r.high, !.window = r.window,
                             !.ancestor = NoAncestor])
        \/ \E window : Goto(i, [r EXCEPT !.pc = "compare", !.high = r.high, !.window = window,
                                         !.ancestor = r.ancestor])
    <3>1. \/ Goto(i, [r EXCEPT !.pc = "rewind", !.ancestor = NoAncestor])
          \/ \E window : Goto(i, [r EXCEPT !.pc = "compare", !.window = window])
      BY <1>5 DEF ReadWindow
    <3> QED  BY <1>1, <3>1 DEF Run
  <2> QED  BY <1>3, <1>5, <2>1 DEF ReadWindow, At, Reading
<1>6. CASE CompareWindow(i)
  <2>1. \/ ToFail(i)
        \/ \E h : Goto(i, [r EXCEPT !.pc = "rewind", !.high = r.high, !.window = r.window,
                                    !.ancestor = h])
        \/ \E h : Goto(i, [r EXCEPT !.pc = "window", !.high = h, !.window = r.window,
                                    !.ancestor = r.ancestor])
    <3>1. \/ ToFail(i)
          \/ \E h : Goto(i, [r EXCEPT !.pc = "rewind", !.ancestor = h])
          \/ \E h : Goto(i, [r EXCEPT !.pc = "window", !.high = h])
      BY <1>6 DEF CompareWindow
    <3> QED  BY <1>1, <3>1 DEF Run
  <2> QED  BY <1>2, <1>3, <1>6, <2>1 DEF CompareWindow, At, Reading
<1>7. ASSUME r.pc \in Ranging, NEW pc \in Ranging, NEW commit,
             commit.from = r.commit.from, commit.to = r.commit.to,
             Goto(i, [r EXCEPT !.pc = pc, !.commit = commit])
      PROVE  PlaceInv'
  <2> DEFINE next == [r EXCEPT !.pc = pc, !.commit = commit]
  <2>1. Keeps(next, r)  BY <1>1, <1>7 DEF Keeps, SamePlace, Run
  <2>2. run' = [run EXCEPT ![i] = next]  BY <1>7 DEF Goto
  <2> HIDE DEF next
  <2> QED  BY <1>1, <2>1, <2>2, KeepsPlace
<1>8. CASE ReadHeaders(i)
  <2>1. \/ ToFail(i)
        \/ \E blocks : Goto(i, [r EXCEPT !.pc = "logs",
                                         !.commit = [r.commit EXCEPT !.blocks = blocks]])
    BY <1>1, <1>8 DEF ReadHeaders, Run
  <2>2. \A blocks : LET commit == [r.commit EXCEPT !.blocks = blocks]
                    IN  commit.from = r.commit.from /\ commit.to = r.commit.to
    BY <1>1 DEF Run
  <2> QED  BY <1>2, <1>7, <1>8, <2>1, <2>2 DEF ReadHeaders, At, Ranging
<1>9. CASE ReadLogs(i)
  <2>1. \/ ToFail(i)
        \/ \E events : Goto(i, [r EXCEPT !.pc = "commit",
                                         !.commit = [r.commit EXCEPT !.events = events]])
    BY <1>1, <1>9 DEF ReadLogs, Run
  <2>2. \A events : LET commit == [r.commit EXCEPT !.events = events]
                    IN  commit.from = r.commit.from /\ commit.to = r.commit.to
    BY <1>1 DEF Run
  <2> QED  BY <1>2, <1>7, <1>9, <2>1, <2>2 DEF ReadLogs, At, Ranging
<1> QED  BY <1>4, <1>5, <1>6, <1>8, <1>9

\* The writes after which a run relies on what it wrote.
LEMMA EnsurePlace ==
    ASSUME ScannerInv, OneScanner, PlaceInv, NEW i \in Instance, Ensure(i)
    PROVE  PlaceInv'
<1> DEFINE c == Target(i)
           cp == EnsuredCheckpoint(c)
           next == [run[i] EXCEPT !.cp = cp, !.pc = IF cp.tip = NoTip THEN "decide" ELSE "tip"]
<1>1. /\ run[i].pc = "ensure" /\ InRun(i) /\ UNCHANGED tracked /\ run' = [run EXCEPT ![i] = next]
      /\ EnsureCheckpoint(c)
  BY DEF Ensure, At, InRun, Goto
<1>2. run[i] \in Run /\ c \in Contract /\ StoreInv  BY <1>1, StepFacts
<1>3. RowsInv' /\ checkpoint'[c] = cp /\ cp # NoCheckpoint
  BY <1>1, <1>2, EnsureRowsNext DEF PlaceInv
<1> HIDE DEF cp
<1>4. SamePlace(next, run[i]) /\ next.pc \notin Ranging /\ next.cp = cp
  BY <1>2 DEF SamePlace, Ranging, Run
<1> HIDE DEF next
<1>5. RunAgrees(next, c, checkpoint'[c])  BY <1>3, <1>4 DEF RunAgrees
<1>6. RunsAgree'  BY <1>1, <1>4, <1>5, RunsAgreeNext
<1> QED  BY <1>3, <1>6 DEF PlaceInv

LEMMA RewindPlace ==
    ASSUME ScannerInv, OneScanner, PlaceInv, NEW i \in Instance, Rewind(i)
    PROVE  PlaceInv'
<1> DEFINE c == Target(i)
           next == [run[i] EXCEPT !.pc = "decide", !.cp = RewoundTo(i), !.window = NoHeaders]
<1>1. /\ run[i].pc = "rewind" /\ InRun(i) /\ UNCHANGED tracked /\ run' = [run EXCEPT ![i] = next]
      /\ RewindStore(i)
  BY DEF Rewind, At, InRun, Goto
<1>2. run[i] \in Run /\ c \in Contract  BY <1>1, StepFacts
<1>3. RowsInv' /\ checkpoint'[c] = RewoundTo(i) /\ RewoundTo(i) # NoCheckpoint
  BY <1>1, RewindRowsNext DEF PlaceInv
<1>4. SamePlace(next, run[i]) /\ next.pc \notin Ranging /\ next.cp = RewoundTo(i)
  BY <1>2 DEF SamePlace, Ranging, Run
<1> HIDE DEF next
<1>5. RunAgrees(next, c, checkpoint'[c])  BY <1>3, <1>4 DEF RunAgrees
<1>6. RunsAgree'  BY <1>1, <1>4, <1>5, RunsAgreeNext
<1> QED  BY <1>3, <1>6 DEF PlaceInv

LEMMA MarkRunningPlace ==
    ASSUME ScannerInv, OneScanner, PlaceInv, NEW i \in Instance, MarkRunning(i)
    PROVE  PlaceInv'
<1> DEFINE c == Target(i)
           status == IF RangeEnd(i) = run[i].safe THEN "idle" ELSE "pending"
           commit == [NoCommit EXCEPT !.from = run[i].cp.next, !.to = RangeEnd(i),
                                      !.status = status]
           next == [run[i] EXCEPT !.pc = "headers", !.attempt = 1, !.commit = commit]
<1>1. /\ run[i].pc = "decide" /\ InRun(i) /\ UNCHANGED tracked /\ run' = [run EXCEPT ![i] = next]
      /\ SetCheckpointStatus(c, "running")
  BY DEF MarkRunning, At, InRun, Goto
<1>2. run[i] \in Run /\ c \in Contract /\ StoreInv /\ RowsInv
  BY <1>1, StepFacts DEF PlaceInv
<1>3. /\ RowsInv' /\ checkpoint'[c] # NoCheckpoint
      /\ checkpoint'[c].next = checkpoint[c].next
  BY <1>1, <1>2, StatusRowsNext DEF Status
<1>4. run[i].cp.next = checkpoint[c].next /\ checkpoint[c] # NoCheckpoint
  BY <1>1 DEF PlaceInv, RunsAgree, RunAgrees, Reading
<1>5. StartBlock[c] <= run[i].cp.next  BY <1>2, <1>4, NextFromStart
<1>6. SamePlace(next, run[i]) /\ next.pc \notin Reading /\ next.commit.from = run[i].cp.next
  BY <1>2 DEF SamePlace, Reading, Run, NoCommit
<1> HIDE DEF next
<1>7. RunAgrees(next, c, checkpoint'[c])  BY <1>3, <1>4, <1>5, <1>6 DEF RunAgrees
<1>8. RunsAgree'  BY <1>1, <1>6, <1>7, RunsAgreeNext
<1> QED  BY <1>3, <1>8 DEF PlaceInv

\* A commit finds its range due, or committed already by an attempt whose answer was lost.
LEMMA RunCommitRows ==
    ASSUME ScannerInv, PlaceInv, NEW i \in Instance, run[i].pc = "commit",
           CommitRange(Target(i), run[i].commit)
    PROVE  /\ RowsInv' /\ checkpoint'[Target(i)] # NoCheckpoint
           /\ checkpoint'[Target(i)].next = run[i].commit.to + 1
<1>1. InRun(i)  BY DEF InRun
<1>2. /\ IsRangeCommit(Target(i), run[i].commit) /\ StoreInv /\ Target(i) \in Contract
  BY <1>1, StepFacts, TargetType, InRunFacts DEF RunInv
<1>3. /\ checkpoint[Target(i)].next \in {run[i].commit.from, run[i].commit.to + 1}
      /\ StartBlock[Target(i)] <= run[i].commit.from
  BY DEF PlaceInv, RunsAgree, RunAgrees, Ranging
<1> QED  BY <1>2, <1>3, CommitRowsNext DEF PlaceInv

LEMMA CommitPlace ==
    ASSUME ScannerInv, OneScanner, PlaceInv, NEW i \in Instance, Commit(i)
    PROVE  PlaceInv'
<1>1. RowsInv'  BY RunCommitRows DEF Commit, At
<1>2. NoRun.pc \notin Reading \cup Ranging  BY DEF NoRun, Reading, Ranging
<1> QED  BY <1>1, <1>2, LeavingPlace DEF Commit, At

LEMMA RetryPlace ==
    ASSUME ScannerInv, OneScanner, PlaceInv, NEW i \in Instance,
           TransientFailure(i) \/ CommitAnswerLost(i)
    PROVE  PlaceInv'
<1> DEFINE c == Target(i)
           next == [run[i] EXCEPT !.pc = "headers", !.attempt = @ + 1,
                                  !.commit.blocks = NoHeaders, !.commit.events = {}]
<1>1. run[i].pc \in Ranging /\ InRun(i) /\ UNCHANGED tracked /\ Retry(i)
  BY DEF TransientFailure, CommitAnswerLost, At, InRun, Ranging
<1>2. run[i] \in Run /\ c \in Contract  BY <1>1, StepFacts
<1>3. /\ checkpoint[c] # NoCheckpoint /\ StartBlock[c] <= run[i].commit.from
      /\ checkpoint[c].next \in {run[i].commit.from, run[i].commit.to + 1}
  BY <1>1 DEF PlaceInv, RunsAgree, RunAgrees
<1>4. /\ RowsInv' /\ checkpoint'[c] # NoCheckpoint
      /\ checkpoint'[c].next \in {run[i].commit.from, run[i].commit.to + 1}
  <2>1. CASE TransientFailure(i)
    <3>1. UNCHANGED storeVars  BY <2>1 DEF TransientFailure
    <3> QED  BY <1>3, <3>1, RowsUnchanged DEF storeVars
  <2>2. CASE CommitAnswerLost(i)  BY <2>2, RunCommitRows DEF CommitAnswerLost, At
  <2> QED  BY <2>1, <2>2
<1>5. CASE ToFail(i)  BY <1>1, <1>4, <1>5, ToFailPlace
<1>6. CASE Goto(i, next)
  <2>1. /\ SamePlace(next, run[i]) /\ next.pc \notin Reading
        /\ next.commit.from = run[i].commit.from /\ next.commit.to = run[i].commit.to
    BY <1>2 DEF SamePlace, Reading, Run
  <2>2. run' = [run EXCEPT ![i] = next]  BY <1>6 DEF Goto
  <2> HIDE DEF next
  <2>3. RunAgrees(next, c, checkpoint'[c])  BY <1>3, <1>4, <2>1 DEF RunAgrees
  <2>4. RunsAgree'  BY <1>1, <2>1, <2>2, <2>3, RunsAgreeNext
  <2> QED  BY <1>4, <2>4 DEF PlaceInv
<1> QED  BY <1>1, <1>5, <1>6 DEF Retry

\* A longer watch set leaves the contracts of the runs in progress where they are.
LEMMA TrackedTargets ==
    ASSUME ScannerInv, NEW c \in Contract, tracked' = Append(tracked, c), UNCHANGED run,
           NEW i \in Instance, InRun(i)
    PROVE  Target(i)' = Target(i)
<1>1. /\ tracked \in Seq(Contract) /\ RunInv(run[i], tracked) /\ run[i] \in Run
  BY InRunFacts DEF ControlOK
<1> DEFINE p == (run[i].start + run[i].offset) % run[i].n
<1>2. p \in 0..(run[i].n - 1)  BY <1>1, PositionType DEF InRun
<1>3. run[i].n \in Nat \ {0} /\ run[i].n <= Len(tracked) /\ Len(tracked) \in Nat
  BY <1>1 DEF RunInv, Run, InRun
<1> HIDE DEF p
<1>4. p + 1 \in 1..Len(tracked)  BY <1>2, <1>3
<1>5. tracked'[p + 1] = tracked[p + 1]  BY <1>1, <1>4
<1> QED  BY <1>5 DEF Target, Position, p

LEMMA PlaceStep == OneScanner /\ ScannerInv /\ PlaceInv /\ [Next]_vars => PlaceInv'
<1> SUFFICES ASSUME OneScanner, ScannerInv, PlaceInv, [Next]_vars PROVE PlaceInv'
  OBVIOUS
<1>1. ASSUME NEW i \in Instance, Step(i) PROVE PlaceInv'
  BY <1>1, LeavingStepPlace, ReadingStepPlace, EnsurePlace, RewindPlace, MarkRunningPlace,
     CommitPlace DEF Step, LeavingStep
<1>2. ASSUME NEW i \in Instance, FaultStep(i) PROVE PlaceInv'
  BY <1>2, LeavingStepPlace, RetryPlace DEF FaultStep, LeavingStep
<1>3. ASSUME UNCHANGED <<storeVars, run>>,
             \A i \in Instance : InRun(i) => Target(i)' = Target(i)
      PROVE  PlaceInv'
  <2>1. RowsInv'  BY <1>3, RowsUnchanged
  <2>2. ASSUME NEW i \in Instance
        PROVE  RunAgrees(run[i], Target(i)', checkpoint[Target(i)'])
    <3>1. RunAgrees(run[i], Target(i), checkpoint[Target(i)])  BY DEF PlaceInv, RunsAgree
    <3>2. CASE InRun(i)  BY <1>3, <3>1, <3>2
    <3>3. CASE ~InRun(i)  BY <3>3 DEF InRun, RunAgrees, Reading, Ranging
    <3> QED  BY <3>2, <3>3
  <2>3. RunsAgree'  BY <1>3, <2>2 DEF RunsAgree, storeVars
  <2> QED  BY <2>1, <2>3 DEF PlaceInv
<1>4. CASE ChainMoves  BY <1>3, <1>4 DEF ChainMoves, Target, Position
<1>5. CASE TrackContract  BY <1>3, <1>5, TrackedTargets DEF TrackContract
<1>6. CASE UNCHANGED vars  BY <1>3, <1>6 DEF vars, Target, Position
<1> QED  BY <1>1, <1>2, <1>4, <1>5, <1>6 DEF Next

LEMMA PlaceInitially == ScannerInit => PlaceInv
<1> SUFFICES ASSUME ScannerInit PROVE PlaceInv
  OBVIOUS
<1>1. RowsInv
  BY DEF ScannerInit, StoreInit, RowsInv, RowsAre, Stored
<1>2. \A i \in Instance : run[i].pc = "off"
  BY DEF ScannerInit, NotStarted, NoRun
<1>3. RunsAgree  BY <1>2 DEF RunsAgree, RunAgrees, Reading, Ranging
<1> QED  BY <1>1, <1>3 DEF PlaceInv

LEMMA PlaceHolds == ASSUME OneScanner PROVE Spec => [](ScannerInv /\ PlaceInv)
<1>1. ScannerInit => PlaceInv  BY PlaceInitially
<1>2. ScannerInv /\ PlaceInv /\ [Next]_vars => PlaceInv'  BY PlaceStep
<1> QED  BY <1>1, <1>2, ScannerInvHolds, PTL DEF Spec

\* One process keeps the stored rows exactly the heights below the checkpoint, through
\* rewinds, replayed ranges, lost answers and crashes, and however the chain moves under
\* a run: no row is left above the checkpoint for a later commit to collide with.
THEOREM OneScannerRows == ASSUME OneScanner PROVE Spec => []RowsMatchCheckpoint
<1>1. PlaceInv => RowsMatchCheckpoint
  BY DEF PlaceInv, RowsInv, RowsAre, Stored, RowsMatchCheckpoint
<1> QED  BY <1>1, PlaceHolds, PTL

-----------------------------------------------------------------------------
(* What a run has learned of the chain. It may trust that as long as the   *)
(* chain changes at the heights it relies on between runs only             *)
(* (DeepReorgMidRun = FALSE).                                              *)

Has(ch, h, b) == h \in DOMAIN ch /\ ch[h] = b

AllCanonical(ch, rs) == \A h \in Stored(rs) : Has(ch, h, rs[h])
OneChain(rs) == \E ch \in Chains : AllCanonical(ch, rs)

\* The stored blocks above a height that the chain has replaced.
DroppedAbove(ch, rs, k) ==
    \A h \in Stored(rs) : h > k => h \in DOMAIN ch /\ ch[h] # rs[h]

WalkFollows(r, cp, rs, ch) ==
    DroppedAbove(ch, rs, r.high) /\ r.high < cp.next

\* A window is the stored blocks of a stretch of heights that ends at its high one.
WindowFollows(r, rs) ==
    /\ DOMAIN r.window \subseteq Stored(rs)
    /\ \A h \in DOMAIN r.window : r.window[h] = rs[h] /\ h <= r.high
    /\ \A h \in DOMAIN r.window, k \in Stored(rs) :
            h <= k /\ k <= r.high => k \in DOMAIN r.window

\* NoAncestor is below every height.
AncestorFollows(r, rs, ch) ==
    /\ DroppedAbove(ch, rs, r.ancestor)
    /\ r.ancestor # NoAncestor =>
            r.ancestor \in Stored(rs) /\ Has(ch, r.ancestor, rs[r.ancestor])

RunFollows(r, c, cp, rs, ch) ==
    /\ r.pc \in Ranging \cup {"decide"} => AllCanonical(ch, rs)
    /\ r.pc \in {"window", "compare"} => WalkFollows(r, cp, rs, ch)
    /\ r.pc = "compare" => WindowFollows(r, rs)
    /\ r.pc = "rewind" => AncestorFollows(r, rs, ch)
    /\ r.pc \in Ranging => r.commit.to <= r.safe
    /\ r.pc \in {"logs", "commit"} =>
            \A h \in r.commit.from..r.commit.to : Has(ch, h, r.commit.blocks[h])
    /\ r.pc = "commit" => r.commit.events = OccurrencesOf(c, r.commit.blocks)

EventsOf(c, rs) == UNION {OccurrencesIn(c, rs[h]) : h \in Stored(rs)}

TablesFollow == \A c \in Contract : OneChain(rows[c]) /\ live[c] = EventsOf(c, rows[c])
RunsFollow == \A i \in Instance :
    RunFollows(run[i], Target(i), checkpoint[Target(i)], rows[Target(i)], chain)
ChainInv == TablesFollow /\ RunsFollow

\* A hash determines its ancestors: below a stored block the chain has, it has them all.
LEMMA CanonicalBelow ==
    ASSUME NEW ch \in Chains, NEW rs, OneChain(rs), NEW a \in Stored(rs), Has(ch, a, rs[a])
    PROVE  \A h \in Stored(rs) : h <= a => Has(ch, h, rs[h])
<1>1. PICK other \in Chains : AllCanonical(other, rs)  BY DEF OneChain
<1>2. a \in DOMAIN other /\ other[a] = ch[a] /\ a \in DOMAIN ch  BY <1>1 DEF AllCanonical, Has
<1>3. \A k \in 0..a : ch[k] = other[k]  BY <1>2, HashAssumption
<1> SUFFICES ASSUME NEW h \in Stored(rs), h <= a PROVE Has(ch, h, rs[h])
  OBVIOUS
<1>4. h \in 0..a /\ a \in Nat  BY HeightAssumption DEF Stored, Height
<1>5. other[h] = rs[h]  BY <1>1 DEF AllCanonical, Has
<1>6. DOMAIN ch = 0..Latest(ch) /\ Latest(ch) \in Nat
  BY ChainShape, HeightAssumption DEF Height
<1>7. h \in DOMAIN ch  BY <1>2, <1>4, <1>6
<1> QED  BY <1>3, <1>4, <1>5, <1>7 DEF Has

\* The row of a height holds a block of that number.
LEMMA StoredNumber ==
    ASSUME NEW rs, OneChain(rs), NEW h \in Stored(rs)
    PROVE  rs[h] \in Block /\ Number[rs[h]] = h
<1>1. PICK ch \in Chains : AllCanonical(ch, rs)  BY DEF OneChain
<1> QED  BY <1>1, ChainShape DEF AllCanonical, Has

LEMMA RunsFollowNext ==
    ASSUME ScannerInv, OneScanner, NEW i \in Instance, NEW next,
           run' = [run EXCEPT ![i] = next], UNCHANGED <<tracked, chain>>,
           next.pc \in (Reading \ {"tip"}) \cup Ranging =>
              /\ SamePlace(next, run[i])
              /\ RunFollows(next, Target(i), checkpoint'[Target(i)], rows'[Target(i)], chain)
    PROVE  RunsFollow'
<1>1. run'[i] = next  BY DEF ScannerInv, ScannerTypeOK
<1>2. CASE next.pc \in (Reading \ {"tip"}) \cup Ranging
  <2>1. Target(i)' = Target(i)  BY <1>2, TargetStays
  <2>2. RunFollows(run'[i], Target(i)', checkpoint'[Target(i)'], rows'[Target(i)'], chain')
    BY <1>1, <1>2, <2>1
  <2> QED  BY <2>2 DEF RunsFollow, OneScanner
<1>3. CASE next.pc \notin (Reading \ {"tip"}) \cup Ranging
  <2>1. \A c, cp, rs, ch : RunFollows(run'[i], c, cp, rs, ch)
    BY <1>1, <1>3 DEF RunFollows, Reading, Ranging
  <2> QED  BY <2>1 DEF RunsFollow, OneScanner
<1> QED  BY <1>2, <1>3

LEMMA TablesKept ==
    ASSUME TablesFollow, UNCHANGED <<rows, live>>
    PROVE  TablesFollow'
  BY DEF TablesFollow

\* A step that writes the rows and events of one contract.
LEMMA TablesNext ==
    ASSUME StoreInv, TablesFollow, NEW c \in Contract, NEW rs, OneChain(rs),
           rows' = [rows EXCEPT ![c] = rs], live' = [live EXCEPT ![c] = EventsOf(c, rs)]
    PROVE  TablesFollow' /\ rows'[c] = rs
<1>1. /\ rows \in [Contract -> [Height -> Block \cup {NoBlock}]]
      /\ live \in [Contract -> SUBSET (Block \X Nat)]
  BY DEF StoreInv, StoreTypeOK
<1> QED  BY <1>1 DEF TablesFollow

-----------------------------------------------------------------------------
(* What the two writes of rows do.                                         *)

\* The rows the chain still has.
CanonicalPart(ch, rs) == [h \in Height |-> IF Has(ch, h, rs[h]) THEN rs[h] ELSE NoBlock]

LEMMA CanonicalPartFacts ==
    ASSUME NEW ch \in Chains, NEW rs \in [Height -> Block \cup {NoBlock}]
    PROVE  /\ Stored(CanonicalPart(ch, rs)) = {h \in Stored(rs) : Has(ch, h, rs[h])}
           /\ \A h \in Stored(CanonicalPart(ch, rs)) : CanonicalPart(ch, rs)[h] = rs[h]
           /\ AllCanonical(ch, CanonicalPart(ch, rs)) /\ OneChain(CanonicalPart(ch, rs))
<1>1. \A h \in Height : CanonicalPart(ch, rs)[h] = IF Has(ch, h, rs[h]) THEN rs[h] ELSE NoBlock
  BY DEF CanonicalPart
<1>2. /\ Stored(CanonicalPart(ch, rs)) = {h \in Stored(rs) : Has(ch, h, rs[h])}
      /\ \A h \in Stored(CanonicalPart(ch, rs)) : CanonicalPart(ch, rs)[h] = rs[h]
  BY <1>1 DEF Stored
<1>3. AllCanonical(ch, CanonicalPart(ch, rs))  BY <1>2 DEF AllCanonical
<1> QED  BY <1>2, <1>3 DEF OneChain

\* The events up to a height are those of the rows up to it.
LEMMA EventsUpTo ==
    ASSUME NEW c, NEW rs, OneChain(rs), NEW a, NEW new,
           Stored(new) = {h \in Stored(rs) : ~(h > a)},
           \A h \in Stored(new) : new[h] = rs[h]
    PROVE  EventsOf(c, rs) \ Above(EventsOf(c, rs), a) = EventsOf(c, new)
<1>1. ASSUME NEW h \in Stored(rs), NEW o \in OccurrencesIn(c, rs[h])
      PROVE  Number[o[1]] = h
  <2>1. o[1] = rs[h]  BY <1>1 DEF OccurrencesIn
  <2> QED  BY <2>1, StoredNumber
<1>2. ASSUME NEW o \in EventsOf(c, rs), ~(Number[o[1]] > a)
      PROVE  o \in EventsOf(c, new)
  <2>1. PICK h \in Stored(rs) : o \in OccurrencesIn(c, rs[h])  BY <1>2 DEF EventsOf
  <2>2. h \in Stored(new)  BY <1>1, <1>2, <2>1
  <2> QED  BY <2>1, <2>2 DEF EventsOf
<1>3. ASSUME NEW o \in EventsOf(c, new)
      PROVE  o \in EventsOf(c, rs) /\ ~(Number[o[1]] > a)
  <2>1. PICK h \in Stored(new) : o \in OccurrencesIn(c, rs[h])  BY <1>3 DEF EventsOf
  <2> QED  BY <1>1, <2>1 DEF EventsOf
<1> QED  BY <1>2, <1>3 DEF Above

\* A rewind drops exactly the stored blocks the chain no longer has.
LEMMA RewindEffect ==
    ASSUME ScannerInv, ChainInv, NEW i \in Instance, run[i].pc = "rewind", RewindStore(i)
    PROVE  /\ rows' = [rows EXCEPT ![Target(i)] = CanonicalPart(chain, rows[Target(i)])]
           /\ TablesFollow'
<1> DEFINE c == Target(i)
           a == run[i].ancestor
           rs == rows[c]
           new == CanonicalPart(chain, rs)
<1>1. /\ StoreInv /\ c \in Contract /\ a \in Height \cup {NoAncestor} /\ chain \in Chains
      /\ rs \in [Height -> Block \cup {NoBlock}]
      /\ live \in [Contract -> SUBSET (Block \X Nat)]
  BY StepFacts DEF InRun, Run, ScannerInv, ScannerTypeOK
<1>2. OneChain(rs) /\ live[c] = EventsOf(c, rs)  BY <1>1 DEF ChainInv, TablesFollow
<1>3. AncestorFollows(run[i], rs, chain)  BY DEF ChainInv, RunsFollow, RunFollows
<1>4. \A h \in Height : Has(chain, h, rs[h]) => h \in Stored(rs)
  BY <1>1, ChainShape, NoBlockAssumption DEF Stored, Has
<1>5. \A h \in Stored(rs) : Has(chain, h, rs[h]) <=> ~(h > a)
  <2> SUFFICES ASSUME NEW h \in Stored(rs) PROVE Has(chain, h, rs[h]) <=> ~(h > a)
    OBVIOUS
  <2>1. h > a => ~Has(chain, h, rs[h])  BY <1>3 DEF AncestorFollows, DroppedAbove, Has
  <2>2. ASSUME ~(h > a) PROVE Has(chain, h, rs[h])
    <3>1. h \in Nat  BY HeightAssumption DEF Stored, Height
    <3>2. a # NoAncestor  BY <2>2, <3>1 DEF NoAncestor
    <3>3. a \in Stored(rs) /\ Has(chain, a, rs[a])  BY <1>3, <3>2 DEF AncestorFollows
    <3>4. h <= a  BY <1>1, <2>2, <3>1, <3>2, HeightAssumption DEF Height
    <3> QED  BY <1>1, <1>2, <3>3, <3>4, CanonicalBelow
  <2> QED  BY <2>1, <2>2
<1>6. Stored(new) = {h \in Stored(rs) : ~(h > a)} /\ \A h \in Stored(new) : new[h] = rs[h]
  BY <1>1, <1>5, CanonicalPartFacts
<1>7. OneChain(new)  BY <1>1, CanonicalPartFacts
<1>8. CASE a = NoAncestor
  <2>1. \A h \in Height : h > a  BY <1>8, HeightAssumption DEF Height, NoAncestor
  <2>2. Stored(new) = {}  BY <1>6, <2>1 DEF Stored
  <2>3. new = [h \in Height |-> NoBlock]  BY <2>2 DEF Stored, CanonicalPart
  <2>4. EventsOf(c, new) = {}  BY <2>2 DEF EventsOf
  <2> HIDE DEF c, new
  <2>5. rows' = [rows EXCEPT ![c] = new] /\ live' = [live EXCEPT ![c] = EventsOf(c, new)]
    BY <1>8, <2>3, <2>4 DEF RewindStore, RewindToStart, Write, c
  <2> QED  BY <1>1, <1>7, <2>5, TablesNext DEF ChainInv, c, new
<1>9. CASE a # NoAncestor
  <2>1. RowsUpTo(c, a) = new
    <3>1. \A h \in Height : rs[h] = NoBlock \/ h \in Stored(rs)  BY DEF Stored
    <3>2. \A h \in Height : (IF h > a THEN NoBlock ELSE rs[h]) =
                            (IF Has(chain, h, rs[h]) THEN rs[h] ELSE NoBlock)
      BY <1>4, <1>5, <3>1
    <3> QED  BY <3>2 DEF RowsUpTo, CanonicalPart
  <2>2. live[c] \ Above(live[c], a) = EventsOf(c, new)
    <3> HIDE DEF new, rs, c, a
    <3>1. EventsOf(c, rs) \ Above(EventsOf(c, rs), a) = EventsOf(c, new)
      BY <1>2, <1>6, EventsUpTo
    <3> QED  BY <1>2, <3>1
  <2>3. RewindToAncestor(c, a)  BY <1>9 DEF RewindStore
  <2> HIDE DEF c, new, a
  <2>4. rows' = [rows EXCEPT ![c] = new] /\ live' = [live EXCEPT ![c] = EventsOf(c, new)]
    BY <2>1, <2>2, <2>3 DEF RewindToAncestor, Write
  <2> QED  BY <1>1, <1>7, <2>4, TablesNext DEF ChainInv, c, new
<1> QED  BY <1>8, <1>9

\* A commit adds canonical blocks with all their events to rows that are canonical.
LEMMA CommitEffect ==
    ASSUME ScannerInv, ChainInv, NEW i \in Instance, run[i].pc = "commit",
           CommitRange(Target(i), run[i].commit)
    PROVE  /\ \E new : /\ rows' = [rows EXCEPT ![Target(i)] = new] /\ rows'[Target(i)] = new
                       /\ AllCanonical(chain, new)
                       /\ \A h \in Stored(rows[Target(i)]) : new[h] = rows[Target(i)][h]
                       /\ new \in [Height -> Block \cup {NoBlock}]
                       /\ Stored(new) = Stored(rows[Target(i)])
                                            \cup run[i].commit.from..run[i].commit.to
           /\ TablesFollow'
<1> DEFINE c == Target(i)
           commit == run[i].commit
           range == commit.from..commit.to
           rs == rows[c]
           new == [h \in Height |-> IF h \in range THEN commit.blocks[h] ELSE rs[h]]
<1>1. /\ StoreInv /\ c \in Contract /\ chain \in Chains
      /\ rs \in [Height -> Block \cup {NoBlock}]
      /\ live \in [Contract -> SUBSET (Block \X Nat)]
  BY StepFacts DEF InRun, ScannerInv, ScannerTypeOK
<1>2. IsRangeCommit(c, commit)
  <2>1. InRun(i)  BY DEF InRun
  <2> QED  BY <2>1, InRunFacts, TargetType DEF RunInv
<1>3. /\ range \subseteq Height /\ commit.blocks \in [range -> Block]
      /\ DOMAIN commit.blocks = range
  BY <1>2, HeightAssumption DEF IsRangeCommit, Headers, Height
<1>4. OneChain(rs) /\ live[c] = EventsOf(c, rs)  BY <1>1 DEF ChainInv, TablesFollow
<1>5. /\ AllCanonical(chain, rs) /\ \A h \in range : Has(chain, h, commit.blocks[h])
      /\ commit.events = OccurrencesOf(c, commit.blocks)
  BY DEF ChainInv, RunsFollow, RunFollows, Ranging
<1>6. \A h \in Stored(rs) : new[h] = rs[h]
  <2> SUFFICES ASSUME NEW h \in Stored(rs) PROVE new[h] = rs[h]
    OBVIOUS
  <2>1. h \in range => commit.blocks[h] = rs[h]  BY <1>5 DEF AllCanonical, Has
  <2> QED  BY <2>1 DEF Stored
<1>7. Stored(new) = Stored(rs) \cup range /\ \A h \in range : new[h] = commit.blocks[h]
  BY <1>3, NoBlockAssumption DEF Stored
<1>8. AllCanonical(chain, new)  BY <1>5, <1>6, <1>7 DEF AllCanonical
<1>9. live[c] \cup commit.events = EventsOf(c, new)
  <2> HIDE DEF new, rs, range, commit
  <2> QED  BY <1>3, <1>4, <1>5, <1>6, <1>7 DEF EventsOf, OccurrencesOf
<1>10. OneChain(new)  BY <1>1, <1>8 DEF OneChain
<1>11. new \in [Height -> Block \cup {NoBlock}]  BY <1>1, <1>3
<1>12. rows' = [rows EXCEPT ![c] = new]  BY DEF CommitRange, Write
<1>13. live' = [live EXCEPT ![c] = EventsOf(c, new)]
  BY <1>9 DEF CommitRange, Write
<1> HIDE DEF new
<1>14. TablesFollow' /\ rows'[c] = new
  BY <1>1, <1>10, <1>12, <1>13, TablesNext DEF ChainInv
<1> QED  BY <1>6, <1>7, <1>8, <1>11, <1>12, <1>14

-----------------------------------------------------------------------------
(* The steps of a run, over a chain it may trust.                          *)

\* The state a step of a run starts from.
LEMMA ChainFacts ==
    ASSUME ScannerInv, PlaceInv, ChainInv, NEW i \in Instance, InRun(i)
    PROVE  LET c == Target(i)
           IN  /\ run[i] \in Run /\ c \in Contract /\ chain \in Chains
               /\ rows[c] \in [Height -> Block \cup {NoBlock}] /\ OneChain(rows[c])
               /\ RowsAre(c, checkpoint[c], rows[c])
               /\ RunAgrees(run[i], c, checkpoint[c])
               /\ RunFollows(run[i], c, checkpoint[c], rows[c], chain)
<1>1. /\ Target(i) \in Contract /\ run[i] \in Run /\ chain \in Chains
      /\ rows \in [Contract -> [Height -> Block \cup {NoBlock}]]
  BY StepFacts DEF ScannerInv, ScannerTypeOK
<1> QED
  BY <1>1 DEF PlaceInv, RowsInv, RunsAgree, ChainInv, TablesFollow, RunsFollow

LEMMA LeavingFollows ==
    ASSUME ScannerInv, OneScanner, TablesFollow', NEW i \in Instance, NEW next,
           run' = [run EXCEPT ![i] = next], UNCHANGED <<chain, tracked>>,
           next.pc \notin Reading \cup Ranging
    PROVE  ChainInv'
  BY RunsFollowNext DEF ChainInv

LEMMA LeavingStepFollows ==
    ASSUME ScannerInv, OneScanner, ChainInv, NEW i \in Instance, LeavingStep(i)
    PROVE  ChainInv'
<1>1. TablesFollow'
  <2>1. CASE UNCHANGED <<rows, live>>  BY <2>1, TablesKept DEF ChainInv
  <2>2. CASE run[i].pc = "rewind" /\ RewindStore(i)  BY <2>2, RewindEffect
  <2> QED
    BY <2>1, <2>2, LeavingStore
       DEF storeVars, ResetRunningCheckpoints, EnsureCheckpoint, SetCheckpointStatus,
           WriteCheckpoint
<1> QED  BY <1>1, LeavingRun, LeavingFollows

LEMMA ToFailFollows ==
    ASSUME ScannerInv, OneScanner, TablesFollow', NEW i \in Instance, InRun(i), ToFail(i),
           UNCHANGED <<chain, tracked>>
    PROVE  ChainInv'
<1>1. run[i] \in Run  BY StepFacts
<1>2. [run[i] EXCEPT !.pc = "fail"].pc \notin Reading \cup Ranging
  BY <1>1 DEF Reading, Ranging, Run
<1> QED  BY <1>2, LeavingFollows DEF ToFail, Goto

\* A step that leaves rows, events and checkpoints alone.
LEMMA ReadFollows ==
    ASSUME ScannerInv, OneScanner, ChainInv, NEW i \in Instance, NEW next,
           Goto(i, next), UNCHANGED <<storeVars, chain, tracked>>, SamePlace(next, run[i]),
           RunFollows(next, Target(i), checkpoint[Target(i)], rows[Target(i)], chain)
    PROVE  ChainInv'
<1>1. TablesFollow'  BY TablesKept DEF ChainInv, storeVars
<1>2. RunsFollow'  BY RunsFollowNext DEF Goto, storeVars
<1> QED  BY <1>1, <1>2 DEF ChainInv

\* Without an indexed block a contract has no rows.
LEMMA NoTipNoRows ==
    ASSUME StoreInv, RowsInv, NEW c \in Contract,
           checkpoint[c] = NoCheckpoint \/ checkpoint[c].tip = NoTip
    PROVE  Stored(rows[c]) = {}
<1>1. CASE checkpoint[c] = NoCheckpoint  BY <1>1 DEF RowsInv, RowsAre
<1>2. CASE checkpoint[c] # NoCheckpoint
  <2>1. checkpoint[c].next = StartBlock[c]  BY <1>2 DEF StoreInv, TipIsStored
  <2>2. StartBlock[c]..(StartBlock[c] - 1) = {}  BY StartBlockType
  <2> QED  BY <1>2, <2>1, <2>2 DEF RowsInv, RowsAre
<1> QED  BY <1>1, <1>2

LEMMA EnsureFollows ==
    ASSUME ScannerInv, OneScanner, PlaceInv, ChainInv, NEW i \in Instance, Ensure(i)
    PROVE  ChainInv'
<1> DEFINE c == Target(i)
           cp == EnsuredCheckpoint(c)
           next == [run[i] EXCEPT !.cp = cp, !.pc = IF cp.tip = NoTip THEN "decide" ELSE "tip"]
<1>1. /\ InRun(i) /\ UNCHANGED <<chain, tracked>> /\ run' = [run EXCEPT ![i] = next]
      /\ UNCHANGED <<rows, live>>
  BY DEF Ensure, At, InRun, Goto, EnsureCheckpoint, WriteCheckpoint
<1>2. run[i] \in Run /\ c \in Contract /\ StoreInv /\ RowsInv
  BY <1>1, StepFacts DEF PlaceInv
<1>3. TablesFollow'  BY <1>1, TablesKept DEF ChainInv
<1>4. cp.tip = NoTip => checkpoint[c] = NoCheckpoint \/ checkpoint[c].tip = NoTip
  BY DEF EnsuredCheckpoint
<1> HIDE DEF cp
<1>5. /\ SamePlace(next, run[i])
      /\ next.pc = IF cp.tip = NoTip THEN "decide" ELSE "tip"
  BY <1>2 DEF SamePlace, Run
<1> HIDE DEF next
<1>6. CASE cp.tip = NoTip
  <2>1. Stored(rows[c]) = {}  BY <1>2, <1>4, <1>6, NoTipNoRows
  <2>2. RunFollows(next, c, checkpoint'[c], rows'[c], chain)
    BY <1>1, <1>5, <1>6, <2>1 DEF RunFollows, AllCanonical, Ranging
  <2> QED  BY <1>1, <1>3, <1>5, <2>2, RunsFollowNext DEF ChainInv
<1>7. CASE cp.tip # NoTip
  BY <1>1, <1>3, <1>5, <1>7, RunsFollowNext DEF ChainInv, Reading, Ranging
<1> QED  BY <1>6, <1>7

\* A canonical tip makes every row canonical; otherwise the walk starts at the tip.
LEMMA CheckTipFollows ==
    ASSUME ScannerInv, OneScanner, PlaceInv, ChainInv, NEW i \in Instance, CheckTip(i)
    PROVE  ChainInv'
<1> DEFINE c == Target(i)
           r == run[i]
           tip == r.cp.tip
<1>1. /\ r.pc = "tip" /\ InRun(i) /\ UNCHANGED <<storeVars, chain, tracked>>
  BY DEF CheckTip, At, InRun
<1>2. /\ r \in Run /\ c \in Contract /\ chain \in Chains /\ OneChain(rows[c])
      /\ RowsAre(c, checkpoint[c], rows[c]) /\ StoreInv /\ RunInv(r, tracked)
  BY <1>1, ChainFacts, StepFacts
<1>3. /\ checkpoint[c] # NoCheckpoint /\ r.cp.next = checkpoint[c].next
      /\ tip = checkpoint[c].tip /\ tip # NoTip
  <2>1. RunAgrees(r, c, checkpoint[c])  BY <1>1, ChainFacts
  <2> QED  BY <1>1, <1>2, <2>1 DEF RunAgrees, Reading, RunInv
<1>4. /\ tip.number \in Height /\ tip.hash \in Block /\ checkpoint[c].next = tip.number + 1
      /\ rows[c][tip.number] = tip.hash
  BY <1>2, <1>3 DEF StoreInv, StoreTypeOK, TipIsStored, Checkpoint, Tip
<1>5. tip.number \in Stored(rows[c])  BY <1>4, NoBlockAssumption DEF Stored
<1>6. \A h \in Stored(rows[c]) : h <= tip.number
  BY <1>2, <1>3, <1>4, StartBlockType, HeightAssumption DEF RowsAre, Height
<1>7. CASE ToFail(i)
  <2>1. TablesFollow'  BY <1>1, TablesKept DEF ChainInv, storeVars
  <2> QED  BY <1>1, <1>7, <2>1, ToFailFollows
<1>8. CASE Canonical(tip.number, tip.hash) /\ Goto(i, [r EXCEPT !.pc = "decide"])
  <2> DEFINE next == [r EXCEPT !.pc = "decide"]
  <2>1. Has(chain, tip.number, rows[c][tip.number])  BY <1>4, <1>8 DEF Canonical, Has
  <2>2. AllCanonical(chain, rows[c])
    BY <1>2, <1>5, <1>6, <2>1, CanonicalBelow DEF AllCanonical
  <2>3. next.pc = "decide" /\ SamePlace(next, r)  BY <1>2 DEF SamePlace, Run
  <2>4. Goto(i, next)  BY <1>8
  <2> HIDE DEF next
  <2>5. RunFollows(next, c, checkpoint[c], rows[c], chain)
    BY <2>2, <2>3 DEF RunFollows, Ranging
  <2> QED  BY <1>1, <2>3, <2>4, <2>5, ReadFollows
<1>9. CASE Goto(i, [r EXCEPT !.pc = "window", !.high = tip.number])
  <2> DEFINE next == [r EXCEPT !.pc = "window", !.high = tip.number]
  <2>1. next.pc = "window" /\ next.high = tip.number /\ SamePlace(next, r)
    BY <1>2 DEF SamePlace, Run
  <2>2. Goto(i, next)  BY <1>9
  <2> HIDE DEF next
  <2>3. DroppedAbove(chain, rows[c], tip.number)
    BY <1>4, <1>6, HeightAssumption DEF DroppedAbove, Stored, Height
  <2>4. tip.number < checkpoint[c].next  BY <1>4, HeightAssumption DEF Height
  <2>5. RunFollows(next, c, checkpoint[c], rows[c], chain)
    BY <2>1, <2>3, <2>4 DEF RunFollows, Ranging, WalkFollows
  <2> QED  BY <1>1, <2>1, <2>2, <2>5, ReadFollows
<1> QED  BY <1>7, <1>8, <1>9 DEF CheckTip

\* A window without a stored block is below the start: the rows have no gap.
LEMMA ReadWindowFollows ==
    ASSUME ScannerInv, OneScanner, PlaceInv, ChainInv, NEW i \in Instance, ReadWindow(i)
    PROVE  ChainInv'
<1> DEFINE c == Target(i)
           r == run[i]
           low == r.high - ReorgWalkWindow + 1
           stored == {h \in Height : h >= low /\ h <= r.high /\ rows[c][h] # NoBlock}
           window == [h \in stored |-> rows[c][h]]
<1>1. /\ r.pc = "window" /\ InRun(i) /\ UNCHANGED <<storeVars, chain, tracked>>
  BY DEF ReadWindow, At, InRun
<1>2. /\ r \in Run /\ c \in Contract /\ RowsAre(c, checkpoint[c], rows[c])
      /\ RunAgrees(r, c, checkpoint[c])
      /\ RunFollows(r, c, checkpoint[c], rows[c], chain)
  BY <1>1, ChainFacts
<1>3. DroppedAbove(chain, rows[c], r.high) /\ r.high < checkpoint[c].next
  BY <1>1, <1>2 DEF RunFollows, WalkFollows
<1>4. r.high \in Nat /\ low <= r.high
  BY <1>2, HeightAssumption, ScannerAssumption DEF Run, Height
<1>5. stored = {h \in Stored(rows[c]) : h >= low /\ h <= r.high}  BY DEF Stored
<1>6. CASE stored = {}
  <2> DEFINE next == [r EXCEPT !.pc = "rewind", !.ancestor = NoAncestor]
  <2>1. /\ next.pc = "rewind" /\ next.ancestor = NoAncestor /\ SamePlace(next, r)
    BY <1>2 DEF SamePlace, Run
  <2>2. Goto(i, next)  BY <1>6 DEF ReadWindow
  <2> HIDE DEF next
  <2>3. \A h \in Stored(rows[c]) : h > r.high
    <3> SUFFICES ASSUME NEW h \in Stored(rows[c]), ~(h > r.high) PROVE FALSE
      OBVIOUS
    <3>1. checkpoint[c] # NoCheckpoint  BY <1>1, <1>2 DEF RunAgrees, Reading
    <3>2. Stored(rows[c]) = StartBlock[c]..(checkpoint[c].next - 1)
      BY <1>2, <3>1 DEF RowsAre
    <3>3. checkpoint[c].next \in Nat
      BY <1>2, <3>1, NextFromStart DEF ScannerInv, PlaceInv
    <3>4. r.high \in Stored(rows[c])
      BY <1>2, <1>3, <1>4, <3>2, <3>3, StartBlockType
    <3>5. r.high \in stored  BY <1>4, <1>5, <3>4
    <3> QED  BY <1>6, <3>5
  <2>4. DroppedAbove(chain, rows[c], NoAncestor)  BY <1>3, <2>3 DEF DroppedAbove
  <2>5. RunFollows(next, c, checkpoint[c], rows[c], chain)
    BY <2>1, <2>4 DEF RunFollows, Ranging, AncestorFollows
  <2> QED  BY <1>1, <2>1, <2>2, <2>5, ReadFollows
<1>7. CASE stored # {}
  <2> DEFINE next == [r EXCEPT !.pc = "compare", !.window = window]
  <2> HIDE DEF window
  <2>1. /\ next.pc = "compare" /\ next.window = window /\ next.high = r.high
        /\ SamePlace(next, r)
    BY <1>2 DEF SamePlace, Run
  <2>2. Goto(i, next)  BY <1>7 DEF ReadWindow, window
  <2> HIDE DEF next
  <2>3. DOMAIN window = stored /\ \A h \in stored : window[h] = rows[c][h]
    BY DEF window
  <2>4. low \in Int /\ \A h \in Stored(rows[c]) : h \in Nat
    BY <1>2, <1>4, HeightAssumption, ScannerAssumption DEF Stored, Height
  <2> HIDE DEF stored, low
  <2>5. WindowFollows(next, rows[c])
    BY <1>4, <1>5, <2>1, <2>3, <2>4 DEF WindowFollows
  <2>6. RunFollows(next, c, checkpoint[c], rows[c], chain)
    BY <1>3, <2>1, <2>5 DEF RunFollows, Ranging, WalkFollows
  <2> QED  BY <1>1, <2>1, <2>2, <2>6, ReadFollows
<1> QED  BY <1>6, <1>7

\* The highest block of a window the chain has is the ancestor; without one, every
\* stored block from the lowest of the window on is dropped.
LEMMA CompareWindowFollows ==
    ASSUME ScannerInv, OneScanner, PlaceInv, ChainInv, NEW i \in Instance, CompareWindow(i)
    PROVE  ChainInv'
<1> DEFINE c == Target(i)
           r == run[i]
           stored == DOMAIN r.window
           matching == Matching(r.window)
           rs == rows[c]
<1>1. /\ r.pc = "compare" /\ InRun(i) /\ UNCHANGED <<storeVars, chain, tracked>>
  BY DEF CompareWindow, At, InRun
<1>2. r \in Run /\ c \in Contract /\ RunFollows(r, c, checkpoint[c], rs, chain)
      /\ RowsAre(c, checkpoint[c], rs) /\ RunAgrees(r, c, checkpoint[c])
  BY <1>1, ChainFacts
<1>3. /\ DroppedAbove(chain, rs, r.high) /\ r.high < checkpoint[c].next
      /\ WindowFollows(r, rs)
  BY <1>1, <1>2 DEF RunFollows, WalkFollows
<1>4. /\ stored \subseteq Stored(rs) /\ \A h \in stored : r.window[h] = rs[h] /\ h <= r.high
      /\ \A h \in stored, k \in Stored(rs) : h <= k /\ k <= r.high => k \in stored
  BY <1>3 DEF WindowFollows
<1>5. /\ r.high \in Nat /\ \A h \in Stored(rs) : h \in Nat
  BY <1>2, HeightAssumption DEF Run, Stored, Height
<1>6. CASE ToFail(i)
  <2>1. TablesFollow'  BY <1>1, TablesKept DEF ChainInv, storeVars
  <2> QED  BY <1>1, <1>6, <2>1, ToFailFollows
<1>7. ASSUME NEW low \in stored, NEW a \in Int, stored \subseteq DOMAIN chain,
             \A k \in Stored(rs) : k > a /\ k <= r.high => low <= k /\ k \notin matching
      PROVE  DroppedAbove(chain, rs, a)
  <2> SUFFICES ASSUME NEW k \in Stored(rs), k > a PROVE k \in DOMAIN chain /\ chain[k] # rs[k]
    BY DEF DroppedAbove
  <2>1. CASE k > r.high  BY <1>3, <2>1 DEF DroppedAbove
  <2>2. CASE k <= r.high
    <3>1. k \in stored /\ k \notin matching  BY <1>4, <1>7, <2>2
    <3>2. ~(chain[k] = r.window[k])  BY <1>7, <3>1 DEF Matching, Canonical
    <3> QED  BY <1>4, <1>7, <3>1, <3>2
  <2> QED  BY <1>5, <2>1, <2>2
<1>8. ASSUME NEW a, Goto(i, [r EXCEPT !.pc = "rewind", !.ancestor = a]),
             AncestorFollows([ancestor |-> a], rs, chain)
      PROVE  ChainInv'
  <2> DEFINE next == [r EXCEPT !.pc = "rewind", !.ancestor = a]
  <2>1. next.pc = "rewind" /\ next.ancestor = a /\ SamePlace(next, r)
    BY <1>2 DEF SamePlace, Run
  <2>2. Goto(i, next)  BY <1>8
  <2> HIDE DEF next
  <2>3. RunFollows(next, c, checkpoint[c], rs, chain)
    BY <1>8, <2>1 DEF RunFollows, Ranging, AncestorFollows
  <2> QED  BY <1>1, <2>1, <2>2, <2>3, ReadFollows
<1>9. CASE /\ stored \subseteq DOMAIN chain
           /\ \E h \in matching : /\ \A k \in matching : k <= h
                                  /\ Goto(i, [r EXCEPT !.pc = "rewind", !.ancestor = h])
  <2>1. PICK h \in matching : /\ \A k \in matching : k <= h
                              /\ Goto(i, [r EXCEPT !.pc = "rewind", !.ancestor = h])
    BY <1>9
  <2>2. h \in stored /\ Has(chain, h, rs[h]) /\ h \in Stored(rs) /\ h \in Nat
    BY <1>4, <1>5 DEF Matching, Canonical, Has
  <2>3. DroppedAbove(chain, rs, h)
    <3>1. \A k \in Stored(rs) : k > h => k \notin matching  BY <1>5, <2>1, <2>2
    <3>2. \A k \in Stored(rs) : k > h => h <= k  BY <1>5, <2>2
    <3> HIDE DEF matching, stored, rs
    <3> QED  BY <1>7, <1>9, <2>2, <3>1, <3>2
  <2>4. AncestorFollows([ancestor |-> h], rs, chain)
    BY <2>2, <2>3 DEF AncestorFollows
  <2> QED  BY <1>8, <2>1, <2>4
<1>10. CASE /\ stored \subseteq DOMAIN chain /\ matching = {}
            /\ \E low \in stored :
                  /\ \A k \in stored : low <= k
                  /\ Goto(i, IF low = 0
                             THEN [r EXCEPT !.pc = "rewind", !.ancestor = NoAncestor]
                             ELSE [r EXCEPT !.pc = "window", !.high = low - 1])
  <2>1. PICK low \in stored :
                  /\ \A k \in stored : low <= k
                  /\ Goto(i, IF low = 0
                             THEN [r EXCEPT !.pc = "rewind", !.ancestor = NoAncestor]
                             ELSE [r EXCEPT !.pc = "window", !.high = low - 1])
    BY <1>10
  <2>2. low \in Stored(rs) /\ low \in Nat /\ low <= r.high  BY <1>4, <1>5
  <2>3. DroppedAbove(chain, rs, low - 1)
    <3>1. \A k \in Stored(rs) : k > low - 1 => low <= k  BY <1>5, <2>2
    <3> HIDE DEF matching, stored, rs
    <3> QED  BY <1>7, <1>10, <2>2, <3>1
  <2>4. CASE low = 0
    <3>1. AncestorFollows([ancestor |-> NoAncestor], rs, chain)
      BY <2>3, <2>4 DEF AncestorFollows, NoAncestor
    <3> QED  BY <1>8, <2>1, <2>4, <3>1
  <2>5. CASE low # 0
    <3> DEFINE next == [r EXCEPT !.pc = "window", !.high = low - 1]
    <3>1. next.pc = "window" /\ next.high = low - 1 /\ SamePlace(next, r)
      BY <1>2 DEF SamePlace, Run
    <3>2. Goto(i, next)  BY <2>1, <2>5
    <3> HIDE DEF next
    <3>3. checkpoint[c] # NoCheckpoint  BY <1>1, <1>2 DEF RunAgrees, Reading
    <3>4. checkpoint[c].next \in Nat  BY <1>2, <3>3, NextFromStart DEF ScannerInv, PlaceInv
    <3>5. low - 1 < checkpoint[c].next  BY <1>3, <1>5, <2>2, <3>4
    <3>6. RunFollows(next, c, checkpoint[c], rs, chain)
      BY <2>3, <3>1, <3>5 DEF RunFollows, Ranging, WalkFollows
    <3> QED  BY <1>1, <3>1, <3>2, <3>6, ReadFollows
  <2> QED  BY <2>4, <2>5
<1> QED  BY <1>6, <1>9, <1>10 DEF CompareWindow

LEMMA RewindFollows ==
    ASSUME ScannerInv, OneScanner, PlaceInv, ChainInv, NEW i \in Instance, Rewind(i)
    PROVE  ChainInv'
<1> DEFINE c == Target(i)
           next == [run[i] EXCEPT !.pc = "decide", !.cp = RewoundTo(i), !.window = NoHeaders]
<1>1. /\ run[i].pc = "rewind" /\ InRun(i) /\ UNCHANGED <<chain, tracked>>
      /\ run' = [run EXCEPT ![i] = next] /\ RewindStore(i)
  BY DEF Rewind, At, InRun, Goto
<1>2. /\ run[i] \in Run /\ c \in Contract /\ chain \in Chains
      /\ rows[c] \in [Height -> Block \cup {NoBlock}]
  BY <1>1, ChainFacts
<1>3. rows' = [rows EXCEPT ![c] = CanonicalPart(chain, rows[c])] /\ TablesFollow'
  BY <1>1, RewindEffect
<1>4. rows'[c] = CanonicalPart(chain, rows[c])
  BY <1>2, <1>3 DEF ScannerInv, StoreInv, StoreTypeOK
<1>5. AllCanonical(chain, rows'[c])  BY <1>2, <1>4, CanonicalPartFacts
<1>6. next.pc = "decide" /\ SamePlace(next, run[i])  BY <1>2 DEF SamePlace, Run
<1> HIDE DEF next
<1>7. RunFollows(next, c, checkpoint'[c], rows'[c], chain)
  BY <1>5, <1>6 DEF RunFollows, Ranging
<1> QED  BY <1>1, <1>3, <1>6, <1>7, RunsFollowNext DEF ChainInv

LEMMA MarkRunningFollows ==
    ASSUME ScannerInv, OneScanner, PlaceInv, ChainInv, NEW i \in Instance, MarkRunning(i)
    PROVE  ChainInv'
<1> DEFINE c == Target(i)
           status == IF RangeEnd(i) = run[i].safe THEN "idle" ELSE "pending"
           commit == [NoCommit EXCEPT !.from = run[i].cp.next, !.to = RangeEnd(i),
                                      !.status = status]
           next == [run[i] EXCEPT !.pc = "headers", !.attempt = 1, !.commit = commit]
<1>1. /\ run[i].pc = "decide" /\ InRun(i) /\ UNCHANGED <<chain, tracked, rows, live>>
      /\ run' = [run EXCEPT ![i] = next] /\ ~CaughtUp(i)
  BY DEF MarkRunning, At, InRun, Goto, SetCheckpointStatus, WriteCheckpoint
<1>2. run[i] \in Run /\ RunFollows(run[i], c, checkpoint[c], rows[c], chain)
      /\ RunAgrees(run[i], c, checkpoint[c]) /\ RunInv(run[i], tracked)
  BY <1>1, ChainFacts, StepFacts
<1>3. TablesFollow'  BY <1>1, TablesKept DEF ChainInv
<1>4. AllCanonical(chain, rows[c])  BY <1>1, <1>2 DEF RunFollows
<1>5. RangeEnd(i) <= run[i].safe
  <2>1. run[i].cp # NoCheckpoint  BY <1>1, <1>2 DEF RunInv
  <2>2. RangeEnd(i) \in Height /\ run[i].safe \in Height /\ run[i].cp.next \in Height
    BY <1>1, <1>2, <2>1, RangeType DEF Run
  <2> QED  BY <2>2, HeightAssumption, ScannerAssumption DEF RangeEnd, Height
<1>6. /\ next.pc = "headers" /\ next.commit.to = RangeEnd(i) /\ next.safe = run[i].safe
      /\ SamePlace(next, run[i])
  BY <1>2 DEF SamePlace, Run, NoCommit
<1> HIDE DEF next
<1>7. RunFollows(next, c, checkpoint'[c], rows'[c], chain)
  BY <1>1, <1>4, <1>5, <1>6 DEF RunFollows
<1> QED  BY <1>1, <1>3, <1>6, <1>7, RunsFollowNext DEF ChainInv

LEMMA ReadHeadersFollows ==
    ASSUME ScannerInv, OneScanner, PlaceInv, ChainInv, NEW i \in Instance, ReadHeaders(i)
    PROVE  ChainInv'
<1> DEFINE c == Target(i)
           r == run[i]
           range == r.commit.from..r.commit.to
           blocks == [h \in range |-> chain[h]]
           next == [r EXCEPT !.pc = "logs", !.commit.blocks = blocks]
<1>1. /\ r.pc = "headers" /\ InRun(i) /\ UNCHANGED <<storeVars, chain, tracked>>
  BY DEF ReadHeaders, At, InRun
<1>2. r \in Run /\ RunFollows(r, c, checkpoint[c], rows[c], chain)
  BY <1>1, ChainFacts
<1>3. CASE ToFail(i)
  <2>1. TablesFollow'  BY <1>1, TablesKept DEF ChainInv, storeVars
  <2> QED  BY <1>1, <1>3, <2>1, ToFailFollows
<1>4. CASE range \subseteq DOMAIN chain /\ Goto(i, next)
  <2>1. /\ next.pc = "logs" /\ next.safe = r.safe /\ SamePlace(next, r)
        /\ next.commit.from = r.commit.from /\ next.commit.to = r.commit.to
        /\ next.commit.blocks = blocks
    BY <1>2 DEF SamePlace, Run
  <2> HIDE DEF next
  <2>2. \A h \in range : Has(chain, h, blocks[h])  BY <1>4 DEF Has
  <2>3. RunFollows(next, c, checkpoint[c], rows[c], chain)
    BY <1>1, <1>2, <2>1, <2>2 DEF RunFollows, Ranging
  <2> QED  BY <1>1, <1>4, <2>1, <2>3, ReadFollows
<1> QED  BY <1>3, <1>4 DEF ReadHeaders

\* The heights without logs, which are not verified, have no events to add.
LEMMA ReadLogsFollows ==
    ASSUME ScannerInv, OneScanner, PlaceInv, ChainInv, NEW i \in Instance, ReadLogs(i)
    PROVE  ChainInv'
<1> DEFINE c == Target(i)
           r == run[i]
           commit == r.commit
           range == commit.from..commit.to
           withLogs == {h \in range \cap DOMAIN chain : OccurrencesIn(c, chain[h]) # {}}
           events == UNION {OccurrencesIn(c, commit.blocks[h]) : h \in withLogs}
           next == [r EXCEPT !.pc = "commit", !.commit.events = events]
<1>1. /\ r.pc = "logs" /\ InRun(i) /\ UNCHANGED <<storeVars, chain, tracked>>
  BY DEF ReadLogs, At, InRun
<1>2. r \in Run /\ RunFollows(r, c, checkpoint[c], rows[c], chain) /\ RunInv(r, tracked)
  BY <1>1, ChainFacts, StepFacts
<1>3. CASE ToFail(i)
  <2>1. TablesFollow'  BY <1>1, TablesKept DEF ChainInv, storeVars
  <2> QED  BY <1>1, <1>3, <2>1, ToFailFollows
<1>4. CASE Goto(i, next)
  <2>1. \A h \in range : Has(chain, h, commit.blocks[h])  BY <1>1, <1>2 DEF RunFollows
  <2>2. DOMAIN commit.blocks = range  BY <1>1, <1>2 DEF RunInv, Headers
  <2>3. events = OccurrencesOf(c, commit.blocks)
    BY <2>1, <2>2 DEF OccurrencesOf, Has
  <2> HIDE DEF events
  <2>4. /\ next.pc = "commit" /\ next.safe = r.safe /\ SamePlace(next, r)
        /\ next.commit.from = commit.from /\ next.commit.to = commit.to
        /\ next.commit.blocks = commit.blocks /\ next.commit.events = events
    BY <1>2 DEF SamePlace, Run
  <2> HIDE DEF next
  <2>5. RunFollows(next, c, checkpoint[c], rows[c], chain)
    BY <1>1, <1>2, <2>3, <2>4 DEF RunFollows, Ranging
  <2> QED  BY <1>1, <1>4, <2>4, <2>5, ReadFollows
<1> QED  BY <1>3, <1>4 DEF ReadLogs

LEMMA CommitFollows ==
    ASSUME ScannerInv, OneScanner, PlaceInv, ChainInv, NEW i \in Instance, Commit(i)
    PROVE  ChainInv'
<1>1. TablesFollow'  BY CommitEffect DEF Commit, At
<1>2. NoRun.pc \notin Reading \cup Ranging  BY DEF NoRun, Reading, Ranging
<1> QED  BY <1>1, <1>2, LeavingFollows DEF Commit, At

LEMMA RetryFollows ==
    ASSUME ScannerInv, OneScanner, PlaceInv, ChainInv, NEW i \in Instance,
           TransientFailure(i) \/ CommitAnswerLost(i)
    PROVE  ChainInv'
<1> DEFINE c == Target(i)
           next == [run[i] EXCEPT !.pc = "headers", !.attempt = @ + 1,
                                  !.commit.blocks = NoHeaders, !.commit.events = {}]
<1>1. run[i].pc \in Ranging /\ InRun(i) /\ UNCHANGED <<chain, tracked>> /\ Retry(i)
  BY DEF TransientFailure, CommitAnswerLost, At, InRun, Ranging
<1>2. run[i] \in Run /\ RunFollows(run[i], c, checkpoint[c], rows[c], chain)
  BY <1>1, ChainFacts
<1>3. AllCanonical(chain, rows'[c]) /\ TablesFollow'
  <2>1. CASE UNCHANGED storeVars
    BY <1>1, <1>2, <2>1, TablesKept DEF RunFollows, ChainInv, storeVars
  <2>2. CASE CommitAnswerLost(i)  BY <2>2, CommitEffect DEF CommitAnswerLost, At
  <2> QED  BY <2>1, <2>2 DEF TransientFailure
<1>4. CASE ToFail(i)  BY <1>1, <1>3, <1>4, ToFailFollows
<1>5. CASE Goto(i, next)
  <2>1. /\ next.pc = "headers" /\ next.safe = run[i].safe /\ SamePlace(next, run[i])
        /\ next.commit.to = run[i].commit.to
    BY <1>2 DEF SamePlace, Run
  <2>2. run' = [run EXCEPT ![i] = next]  BY <1>5 DEF Goto
  <2> HIDE DEF next
  <2>3. RunFollows(next, c, checkpoint'[c], rows'[c], chain)
    BY <1>1, <1>2, <1>3, <2>1 DEF RunFollows
  <2> QED  BY <1>1, <1>3, <2>1, <2>2, <2>3, RunsFollowNext DEF ChainInv
<1> QED  BY <1>1, <1>4, <1>5 DEF Retry

\* The chain moves at heights no run in progress relies on.
LEMMA ChainMovesFollows ==
    ASSUME ScannerInv, PlaceInv, ChainInv, DeepReorgMidRun = FALSE, ChainMoves
    PROVE  ChainInv'
<1>1. UNCHANGED <<storeVars, tracked, run>> /\ KeepsRuns(chain')
  BY DEF ChainMoves
<1>2. TablesFollow'  BY <1>1, TablesKept DEF ChainInv, storeVars
<1>3. ASSUME NEW i \in Instance
      PROVE  RunFollows(run[i], Target(i), checkpoint[Target(i)], rows[Target(i)], chain')
  <2> DEFINE r == run[i]
             c == Target(i)
             rs == rows[c]
  <2>1. RunFollows(r, c, checkpoint[c], rs, chain)  BY DEF ChainInv, RunsFollow
  <2>2. CASE ~InRun(i)  BY <2>2 DEF InRun, RunFollows, Ranging
  <2>3. CASE InRun(i)
    <3>1. \A h \in DOMAIN chain : h <= r.safe \/ rs[h] # NoBlock =>
                h \in DOMAIN chain' /\ chain'[h] = chain[h]
      BY <1>1, <2>3 DEF KeepsRuns
    <3>2. \A h \in Stored(rs) : h \in DOMAIN chain =>
                h \in DOMAIN chain' /\ chain'[h] = chain[h]
      BY <3>1 DEF Stored
    <3>3. AllCanonical(chain, rs) => AllCanonical(chain', rs)
      BY <3>2 DEF AllCanonical, Has
    <3>4. \A k : DroppedAbove(chain, rs, k) => DroppedAbove(chain', rs, k)
      BY <3>2 DEF DroppedAbove
    <3>5. AncestorFollows(r, rs, chain) => AncestorFollows(r, rs, chain')
      BY <3>2, <3>4 DEF AncestorFollows, Has
    <3>6. ASSUME r.pc \in Ranging, NEW h \in r.commit.from..r.commit.to, NEW b,
                 Has(chain, h, b)
          PROVE  Has(chain', h, b)
      <4>1. r \in Run  BY <2>3, StepFacts
      <4>2. r.commit.to <= r.safe  BY <2>1, <3>6 DEF RunFollows
      <4>3. h <= r.safe
        BY <3>6, <4>1, <4>2, HeightAssumption DEF Run, Height
      <4> QED  BY <3>1, <3>6, <4>3 DEF Has
    <3> HIDE DEF r, c, rs
    <3>7. RunFollows(r, c, checkpoint[c], rs, chain')
      BY <2>1, <3>3, <3>4, <3>5, <3>6 DEF RunFollows, WalkFollows, Ranging
    <3> QED  BY <3>7 DEF r, c, rs
  <2> QED  BY <2>2, <2>3
<1>4. RunsFollow'
  BY <1>1, <1>3 DEF RunsFollow, storeVars, Target, Position
<1> QED  BY <1>2, <1>4 DEF ChainInv

OneTrustedChain == OneScanner /\ DeepReorgMidRun = FALSE

LEMMA ChainStep ==
    OneTrustedChain /\ ScannerInv /\ PlaceInv /\ ChainInv /\ [Next]_vars => ChainInv'
<1> SUFFICES ASSUME OneTrustedChain, ScannerInv, PlaceInv, ChainInv, [Next]_vars PROVE ChainInv'
  OBVIOUS
<1> USE DEF OneTrustedChain
<1>1. ASSUME NEW i \in Instance, Step(i) PROVE ChainInv'
  BY <1>1, LeavingStepFollows, EnsureFollows, CheckTipFollows, ReadWindowFollows,
     CompareWindowFollows, RewindFollows, MarkRunningFollows, ReadHeadersFollows,
     ReadLogsFollows, CommitFollows DEF Step, LeavingStep
<1>2. ASSUME NEW i \in Instance, FaultStep(i) PROVE ChainInv'
  BY <1>2, LeavingStepFollows, RetryFollows DEF FaultStep, LeavingStep
<1>3. ASSUME UNCHANGED <<storeVars, chain, run>>,
             \A i \in Instance : InRun(i) => Target(i)' = Target(i)
      PROVE  ChainInv'
  <2>1. TablesFollow'  BY <1>3, TablesKept DEF ChainInv, storeVars
  <2>2. ASSUME NEW i \in Instance
        PROVE  RunFollows(run[i], Target(i)', checkpoint[Target(i)'], rows[Target(i)'], chain)
    <3>1. RunFollows(run[i], Target(i), checkpoint[Target(i)], rows[Target(i)], chain)
      BY DEF ChainInv, RunsFollow
    <3>2. CASE InRun(i)  BY <1>3, <3>1, <3>2
    <3>3. CASE ~InRun(i)  BY <3>3 DEF InRun, RunFollows, Ranging
    <3> QED  BY <3>2, <3>3
  <2>3. RunsFollow'  BY <1>3, <2>2 DEF RunsFollow, storeVars
  <2> QED  BY <2>1, <2>3 DEF ChainInv
<1>4. CASE ChainMoves  BY <1>4, ChainMovesFollows
<1>5. CASE TrackContract  BY <1>3, <1>5, TrackedTargets DEF TrackContract
<1>6. CASE UNCHANGED vars  BY <1>3, <1>6 DEF vars, Target, Position
<1> QED  BY <1>1, <1>2, <1>4, <1>5, <1>6 DEF Next

LEMMA ChainInitially == ScannerInit => ChainInv
<1> SUFFICES ASSUME ScannerInit PROVE ChainInv
  OBVIOUS
<1>1. \A c \in Contract : Stored(rows[c]) = {} /\ live[c] = {}
  BY DEF ScannerInit, StoreInit, Stored
<1>2. chain \in Chains  BY DEF ScannerInit
<1>3. TablesFollow  BY <1>1, <1>2 DEF TablesFollow, OneChain, AllCanonical, EventsOf
<1>4. \A i \in Instance : run[i].pc = "off"
  BY DEF ScannerInit, NotStarted, NoRun
<1>5. RunsFollow  BY <1>4 DEF RunsFollow, RunFollows, Ranging
<1> QED  BY <1>3, <1>5 DEF ChainInv

LEMMA ChainHolds == ASSUME OneTrustedChain PROVE Spec => [](ScannerInv /\ PlaceInv /\ ChainInv)
<1>1. ScannerInit => ChainInv  BY ChainInitially
<1>2. ScannerInv /\ PlaceInv /\ ChainInv /\ [Next]_vars => ChainInv'  BY ChainStep
<1>3. Spec => [](ScannerInv /\ PlaceInv)  BY PlaceHolds DEF OneTrustedChain
<1> QED  BY <1>1, <1>2, <1>3, PTL DEF Spec

-----------------------------------------------------------------------------
(* The theorems.                                                           *)

\* What a step does to the block rows, the events and the projections.
RowsStep ==
    \/ UNCHANGED <<rows, live, projection>>
    \/ /\ UNCHANGED chain
       /\ \E i \in Instance : /\ run[i].pc = "rewind" /\ RewindStore(i)
    \/ /\ UNCHANGED chain
       /\ \E i \in Instance : /\ run[i].pc = "commit"
                              /\ CommitRange(Target(i), run[i].commit)

LEMMA NextRows == [Next]_vars => RowsStep
<1> SUFFICES ASSUME [Next]_vars PROVE RowsStep
  OBVIOUS
<1>1. ASSUME NEW i \in Instance, LeavingStep(i) PROVE RowsStep
  <2>1. UNCHANGED chain
    BY <1>1 DEF LeavingStep, Start, Tick, RewindRejected, SkipIdle, MarkIdle, CommitRejected,
                Fail, PermanentFailure, RewindAnswerLost, CallFails, CallAnswerLost, Crash, At
  <2> QED
    BY <1>1, <2>1, LeavingStore
       DEF RowsStep, storeVars, ResetRunningCheckpoints, EnsureCheckpoint,
           SetCheckpointStatus, WriteCheckpoint
<1>2. ASSUME NEW i \in Instance, CommitAnswerLost(i) \/ Commit(i) \/ Rewind(i) PROVE RowsStep
  BY <1>2 DEF RowsStep, CommitAnswerLost, Commit, Rewind, At
<1>3. ASSUME NEW i \in Instance, Step(i) \/ FaultStep(i) PROVE RowsStep
  <2>1. \/ UNCHANGED <<rows, live, projection>>
        \/ LeavingStep(i) \/ CommitAnswerLost(i) \/ Commit(i) \/ Rewind(i)
    BY <1>3 DEF Step, FaultStep, LeavingStep, Ensure, CheckTip, ReadWindow, CompareWindow,
                MarkRunning, ReadHeaders, ReadLogs, TransientFailure, EnsureCheckpoint,
                SetCheckpointStatus, WriteCheckpoint, storeVars
  <2> QED  BY <1>1, <1>2, <2>1 DEF RowsStep
<1>4. CASE ChainMoves \/ TrackContract \/ UNCHANGED vars
  BY <1>4 DEF ChainMoves, TrackContract, vars, storeVars, RowsStep
<1> QED  BY <1>3, <1>4 DEF Next

\* No event of a stored block is missing and none is left over, whatever is retried,
\* rewound or lost: what each commit adds is what the chain logged in its blocks.
THEOREM OneScannerEvents == ASSUME OneTrustedChain PROVE Spec => []EventsAreComplete
<1>1. ChainInv => EventsAreComplete
  BY DEF ChainInv, TablesFollow, EventsOf, Stored, EventsAreComplete
<1> QED  BY <1>1, ChainHolds, PTL

\* No step drops a stored block the chain still has: the walk stops at the highest
\* one, in whichever window it is found.
THEOREM OneScannerKeepsCanonicalRows ==
    ASSUME OneTrustedChain PROVE Spec => CanonicalRowsAreKept
<1> DEFINE Kept == \A c \in Contract : \A h \in Height :
                        rows[c][h] # NoBlock /\ rows'[c][h] = NoBlock =>
                            ~Canonical(h, rows[c][h])
<1>1. ScannerInv /\ ChainInv /\ [Next]_vars => [Kept]_vars
  <2> SUFFICES ASSUME ScannerInv, ChainInv, [Next]_vars PROVE Kept
    OBVIOUS
  <2>1. rows \in [Contract -> [Height -> Block \cup {NoBlock}]]
    BY DEF ScannerInv, StoreInv, StoreTypeOK
  <2>2. CASE UNCHANGED rows  BY <2>2
  <2>3. ASSUME NEW i \in Instance, run[i].pc = "rewind", RewindStore(i) PROVE Kept
    <3>1. rows' = [rows EXCEPT ![Target(i)] = CanonicalPart(chain, rows[Target(i)])]
      BY <2>3, RewindEffect
    <3> QED  BY <2>1, <3>1 DEF CanonicalPart, Canonical, Has
  <2>4. ASSUME NEW i \in Instance, run[i].pc = "commit", CommitRange(Target(i), run[i].commit)
        PROVE  Kept
    <3>1. PICK new : /\ rows' = [rows EXCEPT ![Target(i)] = new]
                     /\ \A h \in Stored(rows[Target(i)]) : new[h] = rows[Target(i)][h]
      BY <2>4, CommitEffect
    <3> QED  BY <2>1, <3>1 DEF Stored
  <2> QED  BY <2>2, <2>3, <2>4, NextRows DEF RowsStep
<1> QED  BY <1>1, ChainHolds, PTL DEF Spec, CanonicalRowsAreKept

-----------------------------------------------------------------------------
(* The projections.                                                        *)

\* The events of the stored rows of one chain.
LEMMA EventsOfChain ==
    ASSUME NEW c \in Contract, NEW rs \in [Height -> Block \cup {NoBlock}], OneChain(rs)
    PROVE  /\ Events(c, EventsOf(c, rs))
           /\ \A o \in EventsOf(c, rs) : /\ Number[o[1]] \in Stored(rs)
                                         /\ o[1] = rs[Number[o[1]]]
<1>1. ASSUME NEW o \in EventsOf(c, rs)
      PROVE  /\ Number[o[1]] \in Stored(rs) /\ o[1] = rs[Number[o[1]]]
             /\ o \in Occurrence(c)
  <2>1. PICK h \in Stored(rs) : o \in OccurrencesIn(c, rs[h])  BY DEF EventsOf
  <2>2. rs[h] \in Block /\ Number[rs[h]] = h  BY StoredNumber
  <2>3. o[1] = rs[h] /\ o[2] \in DOMAIN Logs[c][rs[h]]  BY <2>1 DEF OccurrencesIn
  <2>4. o \in Block \X Nat  BY <2>1, <2>2, OccurrenceType
  <2> QED  BY <2>2, <2>3, <2>4 DEF Occurrence
<1>2. \A o, p \in EventsOf(c, rs) : Number[o[1]] = Number[p[1]] => o[1] = p[1]  BY <1>1
<1>3. IsFiniteSet(EventsOf(c, rs))
  <2> DEFINE f == [h \in Stored(rs) |-> OccurrencesIn(c, rs[h])]
             parts == {f[h] : h \in Stored(rs)}
  <2>1. IsFiniteSet(Stored(rs))
    <3>1. IsFiniteSet(Height)  BY HeightAssumption, FS_Interval DEF Height
    <3> QED  BY <3>1, FS_Subset DEF Stored
  <2>2. f \in Surjection(Stored(rs), parts)  BY DEF Surjection
  <2>3. IsFiniteSet(parts)
    <3> HIDE DEF parts, f
    <3> QED  BY <2>1, <2>2, FS_Surjection
  <2>4. ASSUME NEW h \in Stored(rs) PROVE IsFiniteSet(f[h])
    <3>1. rs[h] \in Block  BY StoredNumber
    <3>2. Logs[c][rs[h]] \in Seq(Log)  BY <3>1, LogsAssumption
    <3>3. DOMAIN Logs[c][rs[h]] = 1..Len(Logs[c][rs[h]]) /\ Len(Logs[c][rs[h]]) \in Nat  BY <3>2
    <3>4. IsFiniteSet(DOMAIN Logs[c][rs[h]])  BY <3>3, FS_Interval
    <3>5. IsFiniteSet({rs[h]})  BY FS_Singleton
    <3> QED  BY <3>4, <3>5, FS_Product DEF OccurrencesIn
  <2>5. \A T \in parts : IsFiniteSet(T)
    <3> HIDE DEF f
    <3> QED  BY <2>4
  <2>6. EventsOf(c, rs) = UNION parts  BY DEF EventsOf
  <2> HIDE DEF parts
  <2> QED  BY <2>3, <2>5, <2>6, FS_UNION
<1>4. EventsOf(c, rs) \subseteq Block \X Nat  BY <1>1 DEF Occurrence
<1> QED  BY <1>1, <1>2, <1>3, <1>4 DEF Events, Line

\* What a step writes of one contract, and what it leaves of the others.
LEMMA ProjectionsNext ==
    ASSUME StoreInv, ProjectionsMatchEvents, NEW c \in Contract, NEW lv,
           live' = [live EXCEPT ![c] = lv],
           projection' = [projection EXCEPT ![c] = Rebuilt(c, lv)]
    PROVE  ProjectionsMatchEvents'
<1>1. DOMAIN live = Contract /\ DOMAIN projection = Contract  BY DEF StoreInv, StoreTypeOK
<1>2. \A d \in Contract : live'[d] = IF d = c THEN lv ELSE live[d]  BY <1>1
<1>3. \A d \in Contract : projection'[d] = IF d = c THEN Rebuilt(c, lv) ELSE projection[d]
  BY <1>1
<1> QED  BY <1>2, <1>3 DEF ProjectionsMatchEvents

LEMMA RewindProjections ==
    ASSUME ScannerInv, ProjectionsMatchEvents, NEW i \in Instance, run[i].pc = "rewind",
           RewindStore(i)
    PROVE  ProjectionsMatchEvents'
<1>1. Target(i) \in Contract /\ StoreInv  BY StepFacts DEF InRun
<1>2. CASE run[i].ancestor = NoAncestor
  <2>1. /\ live' = [live EXCEPT ![Target(i)] = {}]
        /\ projection' = [projection EXCEPT ![Target(i)] = Rebuilt(Target(i), {})]
    BY <1>2 DEF RewindStore, RewindToStart, Write
  <2> QED  BY <1>1, <2>1, ProjectionsNext
<1>3. CASE run[i].ancestor # NoAncestor
  <2> DEFINE c == Target(i)
             lv == live[c] \ Above(live[c], run[i].ancestor)
  <2>1. /\ live' = [live EXCEPT ![c] = lv]
        /\ projection' = [projection EXCEPT ![c] = Rebuilt(c, lv)]
    BY <1>3 DEF RewindStore, RewindToAncestor, Write
  <2> HIDE DEF lv
  <2> QED  BY <1>1, <2>1, ProjectionsNext
<1> QED  BY <1>2, <1>3

\* A commit that is due adds events after all the others. One whose answer was lost has
\* the last events of the table again.
LEMMA CommitProjections ==
    ASSUME ScannerInv, PlaceInv, ChainInv, ProjectionsMatchEvents, NEW i \in Instance,
           run[i].pc = "commit", CommitRange(Target(i), run[i].commit)
    PROVE  ProjectionsMatchEvents'
<1>0. InRun(i)  BY DEF InRun
<1> PICK c \in Contract : c = Target(i)  BY <1>0, StepFacts
<1> DEFINE commit == run[i].commit
           rs == rows[c]
<1>1. /\ chain \in Chains /\ rs \in [Height -> Block \cup {NoBlock}] /\ StoreInv
      /\ RowsAre(c, checkpoint[c], rs) /\ IsRangeCommit(c, commit)
  BY <1>0, ChainFacts, StepFacts, InRunFacts, TargetType DEF RunInv
<1>2. /\ checkpoint[c] # NoCheckpoint /\ checkpoint[c].next \in {commit.from, commit.to + 1}
      /\ StartBlock[c] <= commit.from
  <2>1. RunAgrees(run[i], c, checkpoint[c])  BY <1>0, ChainFacts
  <2> QED  BY <2>1 DEF RunAgrees, Ranging
<1>3. /\ AllCanonical(chain, rs)
      /\ \A h \in commit.from..commit.to : Has(chain, h, commit.blocks[h])
      /\ commit.events = OccurrencesOf(c, commit.blocks)
  <2>1. RunFollows(run[i], c, checkpoint[c], rs, chain)  BY <1>0, ChainFacts
  <2> QED  BY <2>1 DEF RunFollows, Ranging
<1>4. /\ commit.from \in Nat /\ commit.to \in Nat /\ commit.from <= commit.to
      /\ commit.to \in Height /\ StartBlock[c] \in Nat
      /\ DOMAIN commit.blocks = commit.from..commit.to
  BY <1>1, StartBlockType, HeightAssumption DEF IsRangeCommit, Height, Headers
<1>5. Stored(rs) = StartBlock[c]..(checkpoint[c].next - 1)
  BY <1>1, <1>2 DEF RowsAre
<1>6. OneChain(rs) /\ live[c] = EventsOf(c, rs)  BY DEF ChainInv, TablesFollow
<1>7. /\ live' = [live EXCEPT ![c] = live[c] \cup commit.events]
      /\ projection' = [projection EXCEPT ![c] =
                            ApplyProjections(c, projection[c], commit.events)]
  BY DEF CommitRange, Write
<1>8. projection[c] = Rebuilt(c, live[c])  BY DEF ProjectionsMatchEvents
<1>9. /\ Events(c, live[c])
      /\ \A o \in live[c] : Number[o[1]] \in Stored(rs) /\ o[1] = rs[Number[o[1]]]
  BY <1>1, <1>6, EventsOfChain
<1>10. Events(c, live[c] \cup commit.events)
  <2>1. PICK new : /\ rows' = [rows EXCEPT ![c] = new] /\ rows'[c] = new
                   /\ AllCanonical(chain, new)
                   /\ new \in [Height -> Block \cup {NoBlock}]
                   /\ TablesFollow'
    BY CommitEffect
  <2>2. live'[c] = EventsOf(c, new) /\ OneChain(new)
    BY <2>1, <1>1 DEF TablesFollow, OneChain
  <2>3. live'[c] = live[c] \cup commit.events
    <3>1. DOMAIN live = Contract  BY <1>1 DEF StoreInv, StoreTypeOK
    <3> QED  BY <1>7, <3>1
  <2>4. Events(c, EventsOf(c, new))  BY <2>1, <2>2, EventsOfChain
  <2> QED  BY <2>2, <2>3, <2>4
<1>11. \A o \in commit.events : Number[o[1]] \in commit.from..commit.to
  BY <1>1, CommitEvents
<1> SUFFICES ApplyProjections(c, Rebuilt(c, live[c]), commit.events) =
             Rebuilt(c, live[c] \cup commit.events)
  <2> HIDE DEF commit, rs
  <2> QED  BY <1>1, <1>7, <1>8, ProjectionsNext
<1> HIDE DEF commit, rs
<1>12. CASE checkpoint[c].next = commit.from
  <2>1. \A o \in live[c], p \in commit.events : Before(o, p)
    BY <1>4, <1>5, <1>9, <1>11, <1>12 DEF Before
  <2> QED  BY <1>10, <2>1, RebuiltMore
<1>13. CASE checkpoint[c].next = commit.to + 1
  <2>1. \A h \in commit.from..commit.to : h \in Stored(rs) /\ rs[h] = commit.blocks[h]
    <3>1. \A h \in commit.from..commit.to : h \in Stored(rs)  BY <1>2, <1>4, <1>5, <1>13
    <3> QED  BY <1>3, <3>1 DEF AllCanonical, Has
  <2>2. commit.events \subseteq live[c]
    BY <1>3, <1>4, <1>6, <2>1 DEF OccurrencesOf, EventsOf
  <2>3. ASSUME NEW o \in live[c], Number[o[1]] \in commit.from..commit.to
        PROVE  o \in commit.events
    <3>1. PICK h \in Stored(rs) : o \in OccurrencesIn(c, rs[h])  BY <1>6 DEF EventsOf
    <3>2. o[1] = rs[h]  BY <3>1 DEF OccurrencesIn
    <3>3. h = Number[o[1]]  BY <1>6, <3>2, StoredNumber
    <3> QED  BY <1>3, <1>4, <2>1, <2>3, <3>1, <3>3 DEF OccurrencesOf
  <2>4. \A o \in live[c] : Number[o[1]] \in Nat /\ Number[o[1]] <= commit.to
    BY <1>4, <1>5, <1>9, <1>13
  <2>5. \A o \in live[c] \ commit.events, p \in commit.events : Before(o, p)
    BY <1>4, <1>11, <2>3, <2>4 DEF Before
  <2>6. live[c] \cup commit.events = live[c]  BY <2>2
  <2> QED  BY <1>9, <2>2, <2>5, <2>6, RebuiltAgain
<1> QED  BY <1>2, <1>12, <1>13

\* The projections are at every moment what a rebuild from the live events would produce:
\* a commit adds what comes last in canonical order, a commit whose answer was lost
\* replays the last events a second time, and neither needs a rebuild.
THEOREM OneScannerProjections ==
    ASSUME OneTrustedChain PROVE Spec => []ProjectionsMatchEvents
<1>1. ScannerInit => ProjectionsMatchEvents
  <2> SUFFICES ASSUME ScannerInit, NEW c \in Contract PROVE projection[c] = Rebuilt(c, live[c])
    BY DEF ProjectionsMatchEvents
  <2>1. projection[c] = NoProjections /\ live[c] = {}  BY DEF ScannerInit, StoreInit
  <2>2. Line({})  BY FS_EmptySet DEF Line
  <2>3. Rebuilt(c, {}) = NoProjections  BY <2>2, ReplayStep DEF Rebuilt
  <2> QED  BY <2>1, <2>3
<1>2. ScannerInv /\ PlaceInv /\ ChainInv /\ ProjectionsMatchEvents /\ [Next]_vars =>
        ProjectionsMatchEvents'
  <2> SUFFICES ASSUME ScannerInv, PlaceInv, ChainInv, ProjectionsMatchEvents, [Next]_vars
               PROVE  ProjectionsMatchEvents'
    OBVIOUS
  <2>1. CASE UNCHANGED <<rows, live, projection>>  BY <2>1 DEF ProjectionsMatchEvents
  <2> QED  BY <2>1, NextRows, RewindProjections, CommitProjections DEF RowsStep
<1> QED  BY <1>1, <1>2, ChainHolds, PTL DEF Spec

\* What readers see of a contract's transactions is at every moment what its live events
\* say, under the hypotheses of OneScannerProjections.
THEOREM OneScannerSaysWhatHappened ==
    ASSUME OneTrustedChain
    PROVE  Spec => [](\A c \in Contract : SaysWhatHappened(c, projection[c], live[c]))
<1> DEFINE Says == \A c \in Contract : SaysWhatHappened(c, projection[c], live[c])
<1>1. ScannerInv /\ ChainInv /\ ProjectionsMatchEvents => Says
  <2> SUFFICES ASSUME ScannerInv, ChainInv, ProjectionsMatchEvents, NEW c \in Contract
               PROVE  SaysWhatHappened(c, projection[c], live[c])
    OBVIOUS
  <2>1. /\ rows[c] \in [Height -> Block \cup {NoBlock}] /\ OneChain(rows[c])
        /\ live[c] = EventsOf(c, rows[c])
    BY DEF ScannerInv, StoreInv, StoreTypeOK, ChainInv, TablesFollow
  <2>2. Events(c, live[c])  BY <2>1, EventsOfChain
  <2> QED  BY <2>2, ReplaySaysWhatHappened DEF ProjectionsMatchEvents
<1> QED  BY <1>1, ChainHolds, OneScannerProjections, PTL

-----------------------------------------------------------------------------
(* The ledger.                                                             *)

LedgerOf(rs) == [h \in {k \in Height : rs[k] # NoBlock} |-> rs[h]]
TheLedger == [c \in Contract |-> [h \in {k \in Height : rows[c][k] # NoBlock} |-> rows[c][h]]]

LEMMA LedgerFacts ==
    \A rs : DOMAIN LedgerOf(rs) = Stored(rs) /\ \A h \in Stored(rs) : LedgerOf(rs)[h] = rs[h]
  BY DEF LedgerOf, Stored

\* A step that writes the rows of one contract writes its ledger.
LEMMA LedgerNext ==
    ASSUME StoreInv, NEW c \in Contract, NEW rs, rows' = [rows EXCEPT ![c] = rs]
    PROVE  TheLedger' = [TheLedger EXCEPT ![c] = LedgerOf(rs)]
<1>1. DOMAIN rows = Contract  BY DEF StoreInv, StoreTypeOK
<1>2. \A d \in Contract : rows'[d] = IF d = c THEN rs ELSE rows[d]  BY <1>1
<1>3. TheLedger = [d \in Contract |-> LedgerOf(rows[d])]  BY DEF TheLedger, LedgerOf
<1>4. TheLedger' = [d \in Contract |-> LedgerOf(rows'[d])]  BY DEF TheLedger, LedgerOf
<1>5. TheLedger' = [d \in Contract |-> IF d = c THEN LedgerOf(rs) ELSE LedgerOf(rows[d])]
  BY <1>2, <1>4
<1> QED  BY <1>3, <1>5

\* A rewind truncates the ledger to what the chain still has, if that is less.
LEMMA RewindTruncates ==
    ASSUME ScannerInv, PlaceInv, ChainInv, NEW i \in Instance, run[i].pc = "rewind",
           RewindStore(i), UNCHANGED chain
    PROVE  UNCHANGED rows \/ \E c \in Contract : Ledger!Truncate(c)
<1>0. InRun(i)  BY DEF InRun
<1> PICK c \in Contract : c = Target(i)  BY <1>0, StepFacts
<1> DEFINE rs == rows[c]
           new == CanonicalPart(chain, rs)
<1>1. chain \in Chains /\ rs \in [Height -> Block \cup {NoBlock}] /\ StoreInv
  BY <1>0, ChainFacts, StepFacts
<1>2. rows' = [rows EXCEPT ![c] = new]  BY RewindEffect
<1>3. Stored(new) = {h \in Stored(rs) : Has(chain, h, rs[h])}
      /\ \A h \in Stored(new) : new[h] = rs[h]
  BY <1>1, CanonicalPartFacts
<1>4. TheLedger[c] = LedgerOf(rs)  BY <1>1 DEF TheLedger, LedgerOf
<1>5. CASE Stored(new) = Stored(rs)
  <2>1. \A h \in Height : rs[h] = NoBlock \/ h \in Stored(rs)  BY DEF Stored
  <2>2. \A h \in Height : new[h] = rs[h]
    BY <1>1, <1>3, <1>5, <2>1, ChainShape, NoBlockAssumption DEF CanonicalPart, Has
  <2>3. new = rs  BY <1>1, <2>2 DEF CanonicalPart
  <2> HIDE DEF new
  <2>4. rows' = rows  BY <1>1, <1>2, <2>3 DEF StoreInv, StoreTypeOK
  <2> QED  BY <2>4
<1>6. CASE Stored(new) # Stored(rs)
  <2> DEFINE kept == {h \in DOMAIN TheLedger[c] : Ledger!Agrees(h, TheLedger[c])}
  <2> HIDE DEF new, rs
  <2>1. kept = Stored(new)
    BY <1>3, <1>4, LedgerFacts DEF Ledger!Agrees, Has
  <2>2. LedgerOf(new) = [h \in kept |-> TheLedger[c][h]]
    BY <1>3, <1>4, <2>1, LedgerFacts DEF LedgerOf, Stored
  <2>3. TheLedger' = [TheLedger EXCEPT ![c] = [h \in kept |-> TheLedger[c][h]]]
    BY <1>1, <1>2, <2>2, LedgerNext
  <2>4. kept # DOMAIN TheLedger[c]  BY <1>4, <1>6, <2>1, LedgerFacts
  <2>5. Ledger!Truncate(c)
    BY <2>3, <2>4 DEF Ledger!Truncate, TheLedger
  <2> QED  BY <2>5
<1> QED  BY <1>5, <1>6

\* A commit extends the ledger by its range; one that was committed before changes nothing.
LEMMA CommitExtends ==
    ASSUME ScannerInv, PlaceInv, ChainInv, NEW i \in Instance, run[i].pc = "commit",
           CommitRange(Target(i), run[i].commit), UNCHANGED chain
    PROVE  UNCHANGED rows \/ \E c \in Contract : Ledger!Extend(c)
<1>0. InRun(i)  BY DEF InRun
<1> PICK c \in Contract : c = Target(i)  BY <1>0, StepFacts
<1> DEFINE commit == run[i].commit
           rs == rows[c]
<1>1. /\ chain \in Chains /\ rs \in [Height -> Block \cup {NoBlock}] /\ StoreInv
      /\ RowsAre(c, checkpoint[c], rs) /\ IsRangeCommit(c, commit)
  BY <1>0, ChainFacts, StepFacts, InRunFacts, TargetType DEF RunInv
<1>2. /\ checkpoint[c] # NoCheckpoint /\ checkpoint[c].next \in {commit.from, commit.to + 1}
      /\ StartBlock[c] <= commit.from
  <2>1. RunAgrees(run[i], c, checkpoint[c])  BY <1>0, ChainFacts
  <2> QED  BY <2>1 DEF RunAgrees, Ranging
<1>3. /\ AllCanonical(chain, rs)
      /\ \A h \in commit.from..commit.to : Has(chain, h, commit.blocks[h])
  <2>1. RunFollows(run[i], c, checkpoint[c], rs, chain)  BY <1>0, ChainFacts
  <2> QED  BY <2>1 DEF RunFollows, Ranging
<1>4. /\ commit.from \in Nat /\ commit.to \in Nat /\ commit.from <= commit.to
      /\ commit.to \in Height /\ StartBlock[c] \in Nat
  BY <1>1, StartBlockType, HeightAssumption DEF IsRangeCommit, Height
<1>5. Stored(rs) = StartBlock[c]..(checkpoint[c].next - 1)
  BY <1>1, <1>2 DEF RowsAre
<1>6. PICK new : /\ rows' = [rows EXCEPT ![c] = new] /\ AllCanonical(chain, new)
                 /\ \A h \in Stored(rs) : new[h] = rs[h]
                 /\ new \in [Height -> Block \cup {NoBlock}]
                 /\ Stored(new) = Stored(rs) \cup commit.from..commit.to
  BY CommitEffect
<1> HIDE DEF commit, rs
<1>7. Stored(new) = StartBlock[c]..commit.to  BY <1>2, <1>4, <1>5, <1>6
<1>8. CASE checkpoint[c].next = commit.to + 1
  <2>1. Stored(new) = Stored(rs)  BY <1>4, <1>5, <1>7, <1>8
  <2>2. \A h \in Height : new[h] = rs[h]  BY <1>6, <2>1 DEF Stored
  <2>3. new = rs  BY <1>1, <1>6, <2>2
  <2> QED  BY <1>1, <1>6, <2>3 DEF StoreInv, StoreTypeOK, rs
<1>9. CASE checkpoint[c].next = commit.from
  <2>1. TheLedger[c] = LedgerOf(rs) /\ DOMAIN TheLedger[c] = StartBlock[c]..(commit.from - 1)
    BY <1>5, <1>9, LedgerFacts DEF TheLedger, LedgerOf, rs
  <2>2. \A h \in DOMAIN TheLedger[c] : Ledger!Agrees(h, TheLedger[c])
    <3> SUFFICES ASSUME NEW h \in DOMAIN TheLedger[c] PROVE Ledger!Agrees(h, TheLedger[c])
      OBVIOUS
    <3>1. h \in Stored(rs) /\ TheLedger[c][h] = rs[h]  BY <2>1, LedgerFacts
    <3> QED  BY <1>3, <3>1 DEF Ledger!Agrees, AllCanonical, Has
  <2>3. /\ commit.to \in DOMAIN chain /\ commit.to \notin DOMAIN TheLedger[c]
        /\ commit.to >= StartBlock[c] /\ \A h \in DOMAIN TheLedger[c] : h < commit.to
    BY <1>2, <1>3, <1>4, <2>1 DEF Has
  <2>4. LedgerOf(new) = [h \in StartBlock[c]..commit.to |-> chain[h]]
    BY <1>6, <1>7 DEF LedgerOf, Stored, AllCanonical, Has
  <2>5. TheLedger' = [TheLedger EXCEPT ![c] = [h \in StartBlock[c]..commit.to |-> chain[h]]]
    <3>1. TheLedger' = [TheLedger EXCEPT ![c] = LedgerOf(new)]  BY <1>1, <1>6, LedgerNext
    <3> QED  BY <2>4, <3>1
  <2>6. Ledger!Extend(c)
    BY <2>2, <2>3, <2>5 DEF Ledger!Extend, TheLedger
  <2> QED  BY <2>6
<1> QED  BY <1>2, <1>8, <1>9

LEMMA LedgerStep ==
    ScannerInv /\ PlaceInv /\ ChainInv /\ ScannerInv' /\ [Next]_vars =>
        [Ledger!LedgerNext]_(Ledger!ledgerVars)
<1> SUFFICES ASSUME ScannerInv, PlaceInv, ChainInv, ScannerInv', [Next]_vars
             PROVE  [Ledger!LedgerNext]_(Ledger!ledgerVars)
  OBVIOUS
<1>1. CASE UNCHANGED rows
  <2>1. chain' \in Chains  BY DEF ScannerInv, ScannerTypeOK
  <2> QED  BY <1>1, <2>1 DEF Ledger!LedgerNext, Ledger!Move
<1>2. CASE \E c \in Contract : Ledger!Extend(c) \/ Ledger!Truncate(c)
  BY <1>2 DEF Ledger!LedgerNext
<1> QED  BY <1>1, <1>2, NextRows, RewindTruncates, CommitExtends DEF RowsStep

\* The stored rows of one process are the ledger: they grow by canonical ranges on top
\* of canonical rows, and shrink to exactly what the chain still has, whatever runs,
\* retries, lost answers, walks and crashes lie between.
THEOREM OneScannerImplementsLedger ==
    ASSUME OneTrustedChain PROVE Spec => ImplementsLedger
<1>1. ScannerInit => Ledger!LedgerInit
  <2> SUFFICES ASSUME ScannerInit PROVE Ledger!LedgerInit
    OBVIOUS
  <2>1. chain \in Chains /\ rows = [c \in Contract |-> [h \in Height |-> NoBlock]]
    BY DEF ScannerInit, StoreInit
  <2>2. \A c \in Contract : {k \in Height : rows[c][k] # NoBlock} = {}  BY <2>1
  <2>3. \A c \in Contract :
            [h \in {k \in Height : rows[c][k] # NoBlock} |-> rows[c][h]] = [h \in {} |-> h]
    BY <2>2
  <2> QED  BY <2>1, <2>3 DEF Ledger!LedgerInit, Ledger!Empty
<1>2. ScannerInv /\ PlaceInv /\ ChainInv /\ ScannerInv' /\ [Next]_vars =>
        [Ledger!LedgerNext]_(Ledger!ledgerVars)
  BY LedgerStep
<1> QED  BY <1>1, <1>2, ChainHolds, PTL DEF Spec, ImplementsLedger, Ledger!LedgerSpec

-----------------------------------------------------------------------------
(* The rotation: whom a cursor comes to, and when.                         *)

\* How far contract k of a watch set of len is ahead of the cursor.
Ahead(k, cur, len) == IF k > cur THEN k - 1 - cur ELSE k - 1 - cur + len

Quiet == \A c \in Contract : waits[c] = 0

\* A run begins at the cursor, and every contract it has gone past is caught up with it.
PastAll(r, tr, cps) ==
    \A k \in 1..r.n : Ahead(k, r.start, r.n) < r.offset =>
        cps[tr[k]] # NoCheckpoint /\ cps[tr[k]].next > r.safe

RunTurns(r, cur, tr, cps, quiet) ==
    /\ r.pc \notin {"off", "wait"} =>
          r.start = cur /\ r.start < r.n /\ r.offset < r.n /\ PastAll(r, tr, cps)
    /\ r.pc = "off" => quiet
    /\ r.pc \in Ranging => quiet \/ cps[TargetOf(r, tr)].next = r.commit.from

\* A contract has waited for those behind the cursor at most.
InTurn(cur, tr, ws) ==
    /\ cur = 0 \/ cur < Len(tr)
    /\ \A k \in DOMAIN tr : ws[tr[k]] + Ahead(k, cur, Len(tr)) < Len(tr)

InOrder == \A j, k \in DOMAIN tracked : j < k => tracked[j] < tracked[k]

\* Nor does anybody wait when there is no process.
UntrackedWaitNot ==
    \A c \in Contract :
        (\A k \in DOMAIN tracked : tracked[k] # c) \/ Instance = {} => waits[c] = 0

WaitsType == waits \in [Contract -> Nat] /\ faults \in Nat

TurnsInv ==
    /\ WaitsType /\ InOrder /\ UntrackedWaitNot
    /\ \A i \in Instance : /\ InTurn(cursor[i], tracked, waits)
                           /\ RunTurns(run[i], cursor[i], tracked, checkpoint, Quiet)

LEMMA Wraps ==
    ASSUME NEW n \in Nat \ {0}, NEW s \in 0..(n - 1), NEW o \in 0..(n - 1)
    PROVE  (s + o) % n = IF s + o < n THEN s + o ELSE s + o - n
  OBVIOUS

LEMMA WithinOneRound ==
    ASSUME NEW n \in Nat \ {0}, NEW s \in 0..(n - 1)
    PROVE  s % n = s
  OBVIOUS

\* The contract a run is at is as far ahead of its start as its offset says.
LEMMA TargetAhead ==
    ASSUME NEW n \in Nat \ {0}, NEW s \in 0..(n - 1), NEW o \in 0..(n - 1)
    PROVE  /\ ((s + o) % n) + 1 \in 1..n
           /\ \A k \in 1..n : Ahead(k, s, n) = o <=> k = ((s + o) % n) + 1
<1>1. (s + o) % n = IF s + o < n THEN s + o ELSE s + o - n  BY Wraps
<1> DEFINE p == (s + o) % n
<1>2. p = IF s + o < n THEN s + o ELSE s + o - n  BY <1>1
<1> HIDE DEF p
<1>3. /\ p + 1 \in 1..n
      /\ \A k \in 1..n : Ahead(k, s, n) = o <=> k = p + 1
  BY <1>2 DEF Ahead
<1> QED  BY <1>3 DEF p

LEMMA AheadType ==
    ASSUME NEW n \in Nat \ {0}, NEW s \in 0..(n - 1), NEW k \in 1..n
    PROVE  Ahead(k, s, n) \in 0..(n - 1)
  BY DEF Ahead

\* A cursor that moves past the target of a run comes nearer to what is ahead of it, also
\* in a watch set that has grown since the run began.
LEMMA ComesNearer ==
    ASSUME NEW n \in Nat \ {0}, NEW len \in Nat, n <= len, NEW s \in 0..(n - 1),
           NEW o \in 0..(n - 1), NEW k \in 1..n, Ahead(k, s, n) > o
    PROVE  Ahead(k, (((s + o) % n) + 1) % n, len) + 1 <= Ahead(k, s, len)
<1> DEFINE p == (s + o) % n
           q == (p + 1) % n
<1>1. p = IF s + o < n THEN s + o ELSE s + o - n  BY Wraps
<1> HIDE DEF p
<1>2. p \in 0..(n - 1)  BY <1>1
<1>3. n = 1 => FALSE  BY DEF Ahead
<1>4. 1 \in 0..(n - 1)  BY <1>3
<1>5. q = IF p + 1 < n THEN p + 1 ELSE p + 1 - n  BY <1>2, <1>4, Wraps
<1> HIDE DEF q
<1>6. Ahead(k, q, len) + 1 <= Ahead(k, s, len)  BY <1>1, <1>2, <1>5 DEF Ahead
<1> QED  BY <1>6 DEF p, q

-----------------------------------------------------------------------------
(* The steps of a run, with the monitor. *)

LEMMA RunTypes ==
    ASSUME ScannerInv, NEW i \in Instance
    PROVE  /\ run \in [Instance -> Run] /\ cursor \in [Instance -> Nat]
           /\ tracked \in Seq(Contract) /\ Len(tracked) \in Nat
           /\ DOMAIN tracked = 1..Len(tracked)
           /\ run[i].n \in Nat \ {0} /\ run[i].start \in Nat /\ run[i].offset \in Nat
           /\ run[i].safe \in Nat /\ run[i].pc \in PC
           /\ InRun(i) => run[i].n <= Len(tracked)
<1>1. /\ run \in [Instance -> Run] /\ cursor \in [Instance -> Nat]
      /\ tracked \in Seq(Contract) /\ RunInv(run[i], tracked)
  BY ScannerInvByParts DEF ControlOK, Runs
<1>2. run[i] \in Run  BY <1>1
<1>3. /\ run[i].n \in Nat \ {0} /\ run[i].start \in Nat /\ run[i].offset \in Nat
      /\ run[i].safe \in Height /\ run[i].pc \in PC
  BY <1>2 DEF Run
<1>4. run[i].safe \in Nat  BY <1>3, HeightAssumption DEF Height
<1>5. InRun(i) => run[i].n <= Len(tracked)  BY <1>1 DEF RunInv, InRun
<1>6. Len(tracked) \in Nat /\ DOMAIN tracked = 1..Len(tracked)  BY <1>1
<1> QED  BY <1>1, <1>3, <1>4, <1>5, <1>6

\* What the target of a run in progress is, among the contracts of its watch set.
LEMMA TargetPlace ==
    ASSUME ScannerInv, TurnsInv, NEW i \in Instance, InRun(i)
    PROVE  /\ Position(i) + 1 \in 1..run[i].n /\ Target(i) = tracked[Position(i) + 1]
           /\ \A k \in 1..run[i].n : Ahead(k, run[i].start, run[i].n) = run[i].offset
                                      <=> k = Position(i) + 1
           /\ \A k \in 1..run[i].n : k # Position(i) + 1 => tracked[k] # Target(i)
           /\ \A k \in 1..run[i].n : tracked[k] \in Contract
<1>1. /\ run[i].n \in Nat \ {0} /\ run[i].start \in 0..(run[i].n - 1)
      /\ run[i].offset \in 0..(run[i].n - 1) /\ run[i].n <= Len(tracked)
      /\ tracked \in Seq(Contract) /\ Len(tracked) \in Nat
  BY RunTypes DEF TurnsInv, RunTurns, InRun
<1>2. /\ Position(i) + 1 \in 1..run[i].n
      /\ \A k \in 1..run[i].n : Ahead(k, run[i].start, run[i].n) = run[i].offset
                                  <=> k = Position(i) + 1
  BY <1>1, TargetAhead DEF Position
<1>3. Target(i) = tracked[Position(i) + 1]  BY DEF Target
<1>4. 1..run[i].n \subseteq DOMAIN tracked  BY <1>1
<1>5. \A k \in 1..run[i].n : tracked[k] \in Contract  BY <1>1, <1>4
<1>6. \A j, k \in 1..run[i].n : j < k => tracked[j] < tracked[k]
  BY <1>4 DEF TurnsInv, InOrder
<1>7. ASSUME NEW k \in 1..run[i].n, k # Position(i) + 1 PROVE tracked[k] # Target(i)
  <2>1. k < Position(i) + 1 \/ Position(i) + 1 < k  BY <1>1, <1>2, <1>7
  <2>2. tracked[k] < Target(i) \/ Target(i) < tracked[k]  BY <1>2, <1>3, <1>6, <2>1
  <2>3. tracked[k] \in Nat /\ Target(i) \in Nat  BY <1>2, <1>3, <1>5, IdsAssumption
  <2> QED  BY <2>2, <2>3
<1> QED  BY <1>2, <1>3, <1>5, <1>7

WaitsShrink == waits' \in [Contract -> Nat] /\ \A c \in Contract : waits'[c] \in {0, waits[c]}

LEMMA ShrinkKeepsTurns ==
    ASSUME TurnsInv, WaitsShrink, tracked \in Seq(Contract), NEW cur,
           InTurn(cur, tracked, waits), cur \in Nat
    PROVE  InTurn(cur, tracked, waits')
<1> SUFFICES ASSUME NEW k \in DOMAIN tracked
             PROVE  waits'[tracked[k]] + Ahead(k, cur, Len(tracked)) < Len(tracked)
  BY DEF InTurn
<1>1. waits[tracked[k]] + Ahead(k, cur, Len(tracked)) < Len(tracked)  BY DEF InTurn
<1>2. tracked[k] \in Contract /\ k \in 1..Len(tracked) /\ Len(tracked) \in Nat  OBVIOUS
<1>3. waits[tracked[k]] \in Nat /\ waits'[tracked[k]] \in {0, waits[tracked[k]]}
  BY <1>2 DEF TurnsInv, WaitsType, WaitsShrink
<1>4. Ahead(k, cur, Len(tracked)) \in Int  BY <1>2 DEF Ahead
<1> QED  BY <1>1, <1>2, <1>3, <1>4

LEMMA TurnsNext ==
    ASSUME ScannerInv, OneScanner, TurnsInv, WaitsShrink, faults' \in Nat,
           NEW i \in Instance, NEW next, run' = [run EXCEPT ![i] = next],
           UNCHANGED <<cursor, tracked>>,
           RunTurns(next, cursor[i], tracked, checkpoint', Quiet')
    PROVE  TurnsInv'
<1>1. tracked \in Seq(Contract) /\ run'[i] = next /\ cursor[i] \in Nat  BY RunTypes
<1>2. InTurn(cursor[i], tracked, waits')  BY <1>1, ShrinkKeepsTurns DEF TurnsInv
<1>3. WaitsType' /\ InOrder' /\ UntrackedWaitNot'
  BY DEF TurnsInv, WaitsShrink, WaitsType, InOrder, UntrackedWaitNot
<1> QED  BY <1>1, <1>2, <1>3 DEF TurnsInv, OneScanner

SameRound(next, r) == SamePlace(next, r) /\ next.safe = r.safe

\* A step that stays at its contract writes the checkpoint of no other.
LEMMA StaysInTurn ==
    ASSUME ScannerInv, OneScanner, TurnsInv, WaitsShrink, faults' \in Nat,
           NEW i \in Instance, InRun(i), NEW next, run' = [run EXCEPT ![i] = next],
           UNCHANGED <<cursor, tracked>>, SameRound(next, run[i]), next.pc # "off",
           \A c \in Contract : c # Target(i) => checkpoint'[c] = checkpoint[c],
           next.pc \in Ranging => Quiet' \/ checkpoint'[Target(i)].next = next.commit.from
    PROVE  TurnsInv'
<1>1. RunTurns(run[i], cursor[i], tracked, checkpoint, Quiet)  BY DEF TurnsInv
<1>2. next.start = run[i].start /\ next.offset = run[i].offset /\ next.n = run[i].n
      /\ next.safe = run[i].safe
  BY DEF SameRound, SamePlace
<1>3. TargetOf(next, tracked) = Target(i)  BY <1>2 DEF TargetOf, Target, Position
<1>4. PastAll(next, tracked, checkpoint')
  <2> SUFFICES ASSUME NEW k \in 1..run[i].n, Ahead(k, run[i].start, run[i].n) < run[i].offset
               PROVE  checkpoint'[tracked[k]] # NoCheckpoint
                      /\ checkpoint'[tracked[k]].next > run[i].safe
    BY <1>2 DEF PastAll
  <2>1. checkpoint[tracked[k]] # NoCheckpoint /\ checkpoint[tracked[k]].next > run[i].safe
    BY <1>1 DEF RunTurns, PastAll, InRun
  <2>2. tracked[k] \in Contract  BY TargetPlace
  <2>3. Ahead(k, run[i].start, run[i].n) # run[i].offset  BY RunTypes DEF Ahead
  <2>4. tracked[k] # Target(i)  BY <2>3, TargetPlace
  <2> QED  BY <2>1, <2>2, <2>4
<1>5. RunTurns(next, cursor[i], tracked, checkpoint', Quiet')
  BY <1>1, <1>2, <1>3, <1>4 DEF RunTurns, InRun
<1> QED  BY <1>5, TurnsNext

LEMMA EndRunTurns ==
    ASSUME ScannerInv, OneScanner, TurnsInv, WaitsShrink, faults' \in Nat,
           NEW i \in Instance, EndRun(i), UNCHANGED tracked
    PROVE  TurnsInv'
<1>1. NoRun.pc = "wait"  BY DEF NoRun
<1>2. RunTurns(NoRun, cursor[i], tracked, checkpoint', Quiet')  BY <1>1 DEF RunTurns, Ranging
<1> QED  BY <1>2, TurnsNext DEF EndRun, Goto

LEMMA ToFailTurns ==
    ASSUME ScannerInv, OneScanner, TurnsInv, WaitsShrink, faults' \in Nat,
           NEW i \in Instance, InRun(i), ToFail(i), UNCHANGED tracked,
           \A c \in Contract : c # Target(i) => checkpoint'[c] = checkpoint[c]
    PROVE  TurnsInv'
<1> DEFINE next == [run[i] EXCEPT !.pc = "fail"]
<1>1. run[i] \in Run  BY StepFacts
<1>2. SameRound(next, run[i]) /\ next.pc \notin Ranging /\ next.pc # "off"
  BY <1>1 DEF SameRound, SamePlace, Ranging, Run
<1>3. run' = [run EXCEPT ![i] = next] /\ UNCHANGED cursor  BY DEF ToFail, Goto
<1> HIDE DEF next
<1> QED  BY <1>2, <1>3, StaysInTurn

\* A step that goes on with its contract, and writes no table or only the checkpoint of it.
OwnCheckpoint(i) == \A c \in Contract : c # Target(i) => checkpoint'[c] = checkpoint[c]

LEMMA WritesItsOwn ==
    ASSUME ScannerInv, NEW i \in Instance, InRun(i)
    PROVE  /\ UNCHANGED storeVars => OwnCheckpoint(i)
           /\ \A cp : WriteCheckpoint(Target(i), cp) => OwnCheckpoint(i)
           /\ \A status : SetCheckpointStatus(Target(i), status) => OwnCheckpoint(i)
           /\ EnsureCheckpoint(Target(i)) => OwnCheckpoint(i)
           /\ RewindStore(i) => OwnCheckpoint(i)
           /\ CommitRange(Target(i), run[i].commit) => OwnCheckpoint(i)
<1>1. checkpoint \in [Contract -> Checkpoint \cup {NoCheckpoint}]  BY StepFacts
<1>2. ASSUME NEW cp, checkpoint' = [checkpoint EXCEPT ![Target(i)] = cp] PROVE OwnCheckpoint(i)
  BY <1>1, <1>2 DEF OwnCheckpoint
<1>3. UNCHANGED storeVars => OwnCheckpoint(i)  BY DEF storeVars, OwnCheckpoint
<1>4. \A cp : WriteCheckpoint(Target(i), cp) => OwnCheckpoint(i)
  BY <1>2 DEF WriteCheckpoint
<1>5. ASSUME NEW status, SetCheckpointStatus(Target(i), status) PROVE OwnCheckpoint(i)
  BY <1>4, <1>5 DEF SetCheckpointStatus
<1>6. EnsureCheckpoint(Target(i)) => OwnCheckpoint(i)  BY <1>4 DEF EnsureCheckpoint
<1>7. RewindStore(i) => OwnCheckpoint(i)
  BY <1>2 DEF RewindStore, RewindToAncestor, RewindToStart, Write
<1>8. CommitRange(Target(i), run[i].commit) => OwnCheckpoint(i)
  BY <1>2 DEF CommitRange, Write
<1> QED  BY <1>3, <1>4, <1>5, <1>6, <1>7, <1>8

LEMMA ReadingTurns ==
    ASSUME ScannerInv, OneScanner, TurnsInv, WaitsShrink, NEW i \in Instance,
           Ensure(i) \/ CheckTip(i) \/ ReadWindow(i) \/ CompareWindow(i) \/ Rewind(i)
             \/ RewindRejected(i)
    PROVE  TurnsInv'
<1>1. /\ InRun(i) /\ UNCHANGED tracked /\ UNCHANGED faults
  BY DEF Ensure, CheckTip, ReadWindow, CompareWindow, Rewind, RewindRejected, At, InRun, NoFault
<1>2. faults' \in Nat  BY <1>1 DEF TurnsInv, WaitsType
<1>3. OwnCheckpoint(i)
  BY <1>1, WritesItsOwn
     DEF Ensure, CheckTip, ReadWindow, CompareWindow, Rewind, RewindRejected
<1>4. run[i] \in Run  BY <1>1, StepFacts
<1>5. CASE ToFail(i)  BY <1>1, <1>2, <1>3, <1>5, ToFailTurns DEF OwnCheckpoint
<1>6. ASSUME NEW next, Goto(i, next), SameRound(next, run[i]), next.pc \in Reading
      PROVE  TurnsInv'
  <2>1. next.pc \notin Ranging /\ next.pc # "off"  BY <1>6 DEF Reading, Ranging
  <2> QED  BY <1>1, <1>2, <1>3, <1>6, <2>1, StaysInTurn DEF Goto, OwnCheckpoint
<1>7. CASE Ensure(i)
  <2> DEFINE cp == EnsuredCheckpoint(Target(i))
             pc == IF cp.tip = NoTip THEN "decide" ELSE "tip"
             next == [run[i] EXCEPT !.cp = cp, !.pc = pc]
  <2>1. Goto(i, next)  BY <1>7 DEF Ensure
  <2>2. pc \in Reading  BY DEF Reading
  <2> HIDE DEF cp, pc
  <2>3. SameRound(next, run[i]) /\ next.pc = pc  BY <1>4 DEF SameRound, SamePlace, Run
  <2> HIDE DEF next
  <2> QED  BY <1>6, <2>1, <2>2, <2>3
<1>8. CASE CheckTip(i)
  <2> DEFINE decide == [run[i] EXCEPT !.pc = "decide"]
             window == [run[i] EXCEPT !.pc = "window", !.high = run[i].cp.tip.number]
  <2>1. ToFail(i) \/ Goto(i, decide) \/ Goto(i, window)  BY <1>8 DEF CheckTip
  <2>2. SameRound(decide, run[i]) /\ decide.pc \in Reading
    BY <1>4 DEF SameRound, SamePlace, Run, Reading
  <2>3. SameRound(window, run[i]) /\ window.pc \in Reading
    BY <1>4 DEF SameRound, SamePlace, Run, Reading
  <2> HIDE DEF decide, window
  <2> QED  BY <1>5, <1>6, <2>1, <2>2, <2>3
<1>10. ASSUME NEW a, Goto(i, [run[i] EXCEPT !.pc = "rewind", !.ancestor = a]) PROVE TurnsInv'
  <2> DEFINE next == [run[i] EXCEPT !.pc = "rewind", !.ancestor = a]
  <2>1. SameRound(next, run[i]) /\ next.pc \in Reading /\ Goto(i, next)
    BY <1>4, <1>10 DEF SameRound, SamePlace, Run, Reading
  <2> HIDE DEF next
  <2> QED  BY <1>6, <2>1
<1>11. CASE ReadWindow(i)
  <2> DEFINE low == run[i].high - ReorgWalkWindow + 1
             stored == {h \in Height : h >= low /\ h <= run[i].high
                                        /\ rows[Target(i)][h] # NoBlock}
             window == [h \in stored |-> rows[Target(i)][h]]
             next == [run[i] EXCEPT !.pc = "compare", !.window = window]
  <2>1. Goto(i, [run[i] EXCEPT !.pc = "rewind", !.ancestor = NoAncestor]) \/ Goto(i, next)
    BY <1>11 DEF ReadWindow
  <2> HIDE DEF window
  <2>2. SameRound(next, run[i]) /\ next.pc \in Reading
    BY <1>4 DEF SameRound, SamePlace, Run, Reading
  <2> HIDE DEF next
  <2> QED  BY <1>6, <1>10, <2>1, <2>2
<1>12. CASE CompareWindow(i)
  <2>1. \/ ToFail(i)
        \/ \E a : Goto(i, [run[i] EXCEPT !.pc = "rewind", !.ancestor = a])
        \/ \E high : Goto(i, [run[i] EXCEPT !.pc = "window", !.high = high])
    BY <1>12 DEF CompareWindow
  <2>2. ASSUME NEW high, Goto(i, [run[i] EXCEPT !.pc = "window", !.high = high]) PROVE TurnsInv'
    <3> DEFINE next == [run[i] EXCEPT !.pc = "window", !.high = high]
    <3>1. SameRound(next, run[i]) /\ next.pc \in Reading /\ Goto(i, next)
      BY <1>4, <2>2 DEF SameRound, SamePlace, Run, Reading
    <3> HIDE DEF next
    <3> QED  BY <1>6, <3>1
  <2> QED  BY <1>5, <1>10, <2>1, <2>2
<1>13. CASE Rewind(i)
  <2> DEFINE cp == RewoundTo(i)
             next == [run[i] EXCEPT !.pc = "decide", !.cp = cp, !.window = NoHeaders]
  <2>1. Goto(i, next)  BY <1>13 DEF Rewind
  <2> HIDE DEF cp
  <2>2. SameRound(next, run[i]) /\ next.pc \in Reading
    BY <1>4 DEF SameRound, SamePlace, Run, Reading
  <2> HIDE DEF next
  <2> QED  BY <1>6, <2>1, <2>2
<1>14. CASE RewindRejected(i)  BY <1>5, <1>14 DEF RewindRejected
<1> QED  BY <1>7, <1>8, <1>11, <1>12, <1>13, <1>14

\* A range a run holds begins at next_block, or nobody has waited since a failure.
LEMMA RangingTurns ==
    ASSUME ScannerInv, OneScanner, PlaceInv, TurnsInv, WaitsShrink, NEW i \in Instance,
           MarkRunning(i) \/ ReadHeaders(i) \/ ReadLogs(i) \/ CommitRejected(i)
    PROVE  TurnsInv'
<1>1. InRun(i) /\ UNCHANGED tracked /\ UNCHANGED faults
  BY DEF MarkRunning, ReadHeaders, ReadLogs, CommitRejected, At, InRun, NoFault
<1>2. faults' \in Nat  BY <1>1 DEF TurnsInv, WaitsType
<1>3. OwnCheckpoint(i)
  BY <1>1, WritesItsOwn DEF MarkRunning, ReadHeaders, ReadLogs, CommitRejected
<1>4. run[i] \in Run  BY <1>1, StepFacts
<1>5. CASE ToFail(i)  BY <1>1, <1>2, <1>3, <1>5, ToFailTurns DEF OwnCheckpoint
<1>6. CASE MarkRunning(i)
  <2> DEFINE commit == [NoCommit EXCEPT
                          !.from = run[i].cp.next, !.to = RangeEnd(i),
                          !.status = IF RangeEnd(i) = run[i].safe THEN "idle" ELSE "pending"]
             next == [run[i] EXCEPT !.pc = "headers", !.attempt = 1, !.commit = commit]
  <2>1. /\ Goto(i, next) /\ SetCheckpointStatus(Target(i), "running") /\ run[i].pc = "decide"
    BY <1>6 DEF MarkRunning, At
  <2>2. commit.from = run[i].cp.next  BY DEF NoCommit
  <2> HIDE DEF commit
  <2>3. SameRound(next, run[i]) /\ next.pc = "headers" /\ next.commit = commit
    BY <1>4 DEF SameRound, SamePlace, Run
  <2>4. run[i].cp.next = checkpoint[Target(i)].next
    BY <2>1 DEF PlaceInv, RunsAgree, RunAgrees, Reading
  <2>5. checkpoint'[Target(i)].next = checkpoint[Target(i)].next
    BY <1>1, <2>1, StepFacts, StatusRowsNext DEF PlaceInv, Status
  <2> HIDE DEF next
  <2> QED
    BY <1>1, <1>2, <1>3, <2>1, <2>2, <2>3, <2>4, <2>5, StaysInTurn DEF Goto, OwnCheckpoint
<1>7. ASSUME run[i].pc \in Ranging, UNCHANGED storeVars, NEW next, Goto(i, next),
             SameRound(next, run[i]), next.pc # "off", next.commit.from = run[i].commit.from
      PROVE  TurnsInv'
  <2>1. Quiet \/ checkpoint[Target(i)].next = run[i].commit.from
    BY <1>7 DEF TurnsInv, RunTurns, TargetOf, Target, Position
  <2>2. Quiet => Quiet'  BY DEF WaitsShrink, Quiet
  <2>3. checkpoint' = checkpoint  BY <1>7 DEF storeVars
  <2> QED
    BY <1>1, <1>2, <1>3, <1>7, <2>1, <2>2, <2>3, StaysInTurn DEF Goto, OwnCheckpoint
<1>8. CASE ReadHeaders(i)
  <2> DEFINE range == run[i].commit.from..run[i].commit.to
             blocks == [h \in range |-> chain[h]]
             next == [run[i] EXCEPT !.pc = "logs", !.commit.blocks = blocks]
  <2>1. ToFail(i) \/ Goto(i, next)  BY <1>8 DEF ReadHeaders
  <2>2. run[i].pc \in Ranging /\ UNCHANGED storeVars
    BY <1>8 DEF ReadHeaders, At, Ranging
  <2> HIDE DEF blocks
  <2>3. /\ SameRound(next, run[i]) /\ next.pc # "off"
        /\ next.commit.from = run[i].commit.from
    BY <1>4 DEF SameRound, SamePlace, Run
  <2> QED  BY <1>5, <1>7, <2>1, <2>2, <2>3
<1>9. CASE ReadLogs(i)
  <2>1. ToFail(i) \/ \E events : Goto(i, [run[i] EXCEPT !.pc = "commit", !.commit.events = events])
    BY <1>9 DEF ReadLogs
  <2>2. run[i].pc \in Ranging /\ UNCHANGED storeVars
    BY <1>9 DEF ReadLogs, At, Ranging
  <2>3. ASSUME NEW events
        PROVE  LET next == [run[i] EXCEPT !.pc = "commit", !.commit.events = events]
               IN  /\ SameRound(next, run[i]) /\ next.pc # "off"
                   /\ next.commit.from = run[i].commit.from
    BY <1>4 DEF SameRound, SamePlace, Run
  <2> QED  BY <1>5, <1>7, <2>1, <2>2, <2>3
<1>10. CASE CommitRejected(i)  BY <1>5, <1>10 DEF CommitRejected
<1> QED  BY <1>6, <1>8, <1>9, <1>10

\* The next contract of a run: the one it leaves is caught up with it.
LEMMA NextContractTurns ==
    ASSUME ScannerInv, OneScanner, PlaceInv, TurnsInv, WaitsShrink, NEW i \in Instance,
           SkipIdle(i) \/ MarkIdle(i)
    PROVE  TurnsInv'
<1> DEFINE next == [NoRun EXCEPT !.pc = "ensure", !.safe = run[i].safe, !.n = run[i].n,
                                 !.start = run[i].start, !.offset = run[i].offset + 1]
           r == run[i]
<1>1. /\ r.pc = "decide" /\ InRun(i) /\ UNCHANGED tracked /\ UNCHANGED faults
      /\ CaughtUp(i) /\ NextContract(i)
      /\ UNCHANGED storeVars \/ SetCheckpointStatus(Target(i), "idle")
  BY DEF SkipIdle, MarkIdle, At, InRun, NoFault
<1>2. faults' \in Nat  BY <1>1 DEF TurnsInv, WaitsType
<1>3. CASE EndRun(i)  BY <1>1, <1>2, <1>3, EndRunTurns
<1>4. CASE r.offset + 1 < r.n /\ Goto(i, next)
  <2>1. /\ r.cp.next > r.safe /\ checkpoint[Target(i)] # NoCheckpoint
        /\ r.cp.next = checkpoint[Target(i)].next
    BY <1>1 DEF CaughtUp, PlaceInv, RunsAgree, RunAgrees, Reading
  <2>2. checkpoint'[Target(i)] # NoCheckpoint /\ checkpoint'[Target(i)].next > r.safe
    <3>1. CASE UNCHANGED storeVars  BY <2>1, <3>1 DEF storeVars
    <3>2. CASE SetCheckpointStatus(Target(i), "idle")
      BY <1>1, <2>1, <3>2, StepFacts, StatusRowsNext DEF PlaceInv, Status
    <3> QED  BY <1>1, <3>1, <3>2
  <2>3. OwnCheckpoint(i)  BY <1>1, WritesItsOwn
  <2>4. /\ next.pc = "ensure" /\ next.start = r.start /\ next.n = r.n
        /\ next.offset = r.offset + 1 /\ next.safe = r.safe
    BY DEF NoRun
  <2>5. /\ r.start = cursor[i] /\ r.start < r.n /\ PastAll(r, tracked, checkpoint)
    BY <1>1 DEF TurnsInv, RunTurns
  <2>6. run' = [run EXCEPT ![i] = next] /\ UNCHANGED cursor  BY <1>4 DEF Goto
  <2> HIDE DEF next
  <2>7. PastAll(next, tracked, checkpoint')
    <3> SUFFICES ASSUME NEW k \in 1..r.n, Ahead(k, r.start, r.n) < r.offset + 1
                 PROVE  /\ checkpoint'[tracked[k]] # NoCheckpoint
                        /\ checkpoint'[tracked[k]].next > r.safe
      BY <2>4 DEF PastAll
    <3>1. Ahead(k, r.start, r.n) < r.offset \/ Ahead(k, r.start, r.n) = r.offset
      <4>1. r.n \in Nat /\ r.start \in Nat /\ r.offset \in Nat  BY RunTypes
      <4>2. Ahead(k, r.start, r.n) \in Int  BY <4>1 DEF Ahead
      <4> QED  BY <4>1, <4>2
    <3>2. CASE Ahead(k, r.start, r.n) = r.offset
      <4>1. tracked[k] = Target(i)  BY <1>1, <3>2, TargetPlace
      <4> QED  BY <2>2, <4>1
    <3>3. CASE Ahead(k, r.start, r.n) < r.offset
      <4>1. /\ checkpoint[tracked[k]] # NoCheckpoint
            /\ checkpoint[tracked[k]].next > r.safe
        BY <2>5, <3>3 DEF PastAll
      <4>2. tracked[k] \in Contract  BY <1>1, TargetPlace
      <4> QED  BY <2>2, <2>3, <4>1, <4>2 DEF OwnCheckpoint
    <3> QED  BY <3>1, <3>2, <3>3
  <2>8. RunTurns(next, cursor[i], tracked, checkpoint', Quiet')
    BY <1>4, <2>4, <2>5, <2>7 DEF RunTurns, Ranging
  <2> QED  BY <1>1, <1>2, <2>6, <2>8, TurnsNext
<1> QED  BY <1>1, <1>3, <1>4 DEF NextContract

LEMMA TickTurns ==
    ASSUME ScannerInv, OneScanner, TurnsInv, WaitsShrink, NEW i \in Instance, Tick(i)
    PROVE  TurnsInv'
<1> DEFINE next == [NoRun EXCEPT !.pc = "ensure",
                                 !.safe = Latest(chain) - (Confirmations - 1),
                                 !.n = Len(tracked), !.start = cursor[i] % Len(tracked)]
<1>1. /\ run' = [run EXCEPT ![i] = next] /\ UNCHANGED <<cursor, tracked, faults>>
      /\ Len(tracked) > 0
  BY DEF Tick, At, Goto, NoFault
<1>2. Len(tracked) \in Nat /\ cursor[i] \in Nat  BY RunTypes
<1>3. cursor[i] \in 0..(Len(tracked) - 1)  BY <1>1, <1>2 DEF TurnsInv, InTurn
<1>4. cursor[i] % Len(tracked) = cursor[i]  BY <1>1, <1>2, <1>3, WithinOneRound
<1>5. next.pc = "ensure" /\ next.offset = 0 /\ next.n = Len(tracked) /\ next.start = cursor[i]
  BY <1>4 DEF NoRun
<1> HIDE DEF next
<1>6. PastAll(next, tracked, checkpoint')
  BY <1>1, <1>2, <1>3, <1>5 DEF PastAll, Ahead
<1>7. RunTurns(next, cursor[i], tracked, checkpoint', Quiet')
  BY <1>1, <1>2, <1>3, <1>5, <1>6 DEF RunTurns, Ranging
<1>8. faults' \in Nat  BY <1>1 DEF TurnsInv, WaitsType
<1> QED  BY <1>1, <1>7, <1>8, TurnsNext

LEMMA QuietTurns ==
    ASSUME ScannerInv, NEW cur, cur \in Nat, cur = 0 \/ cur < Len(tracked), Quiet'
    PROVE  InTurn(cur, tracked, waits')
<1>1. tracked \in Seq(Contract)  BY ScannerInvByParts DEF ControlOK
<1> SUFFICES ASSUME NEW k \in DOMAIN tracked
             PROVE  waits'[tracked[k]] + Ahead(k, cur, Len(tracked)) < Len(tracked)
  BY DEF InTurn
<1>2. tracked[k] \in Contract /\ k \in 1..Len(tracked) /\ Len(tracked) \in Nat  BY <1>1
<1>3. waits'[tracked[k]] = 0  BY <1>2 DEF Quiet
<1>4. Ahead(k, cur, Len(tracked)) < Len(tracked)  BY <1>2 DEF Ahead
<1>5. Ahead(k, cur, Len(tracked)) \in Int  BY <1>2 DEF Ahead
<1> QED  BY <1>3, <1>4, <1>5

\* A process that starts has no cursor yet, and nobody has waited since it stopped.
LEMMA StartTurns ==
    ASSUME ScannerInv, OneScanner, TurnsInv, WaitsShrink, NEW i \in Instance, Start(i)
    PROVE  TurnsInv'
<1>1. /\ run' = [run EXCEPT ![i] = NoRun] /\ cursor' = [cursor EXCEPT ![i] = 0]
      /\ run[i].pc = "off" /\ UNCHANGED <<tracked, faults>>
  BY DEF Start, At, NoFault
<1>2. run \in [Instance -> Run] /\ cursor \in [Instance -> Nat]  BY RunTypes
<1>3. Quiet'  BY <1>1 DEF TurnsInv, RunTurns, WaitsShrink, Quiet
<1>4. InTurn(0, tracked, waits')  BY <1>3, QuietTurns
<1>5. NoRun.pc = "wait"  BY DEF NoRun
<1>6. RunTurns(NoRun, 0, tracked, checkpoint', Quiet')  BY <1>5 DEF RunTurns, Ranging
<1>7. WaitsType' /\ InOrder' /\ UntrackedWaitNot'
  BY <1>1 DEF TurnsInv, WaitsShrink, WaitsType, InOrder, UntrackedWaitNot
<1>8. run'[i] = NoRun /\ cursor'[i] = 0 /\ tracked' = tracked  BY <1>1, <1>2
<1> QED  BY <1>4, <1>6, <1>7, <1>8 DEF TurnsInv, OneScanner

\* A failure begins a new round.
LEMMA FaultTurns ==
    ASSUME ScannerInv, OneScanner, PlaceInv, TurnsInv, WaitsShrink,
           faults' # faults => Quiet', NEW i \in Instance, FaultStep(i)
    PROVE  TurnsInv'
<1>1. faults' = faults + 1 /\ UNCHANGED tracked
  BY DEF FaultStep, TransientFailure, CommitAnswerLost, PermanentFailure, RewindAnswerLost,
         CallFails, CallAnswerLost, Crash, At, Fault
<1>2. faults' \in Nat /\ Quiet'  BY <1>1 DEF TurnsInv, WaitsType
<1>3. CASE CallFails(i) \/ CallAnswerLost(i)
  <2>1. EndRun(i)  BY <1>3 DEF CallFails, CallAnswerLost
  <2> QED  BY <1>1, <1>2, <2>1, EndRunTurns
<1>4. CASE PermanentFailure(i) \/ RewindAnswerLost(i)
  <2>1. InRun(i) /\ ToFail(i)
    BY <1>4 DEF PermanentFailure, RewindAnswerLost, At, InRun
  <2>2. OwnCheckpoint(i)
    BY <1>4, <2>1, WritesItsOwn DEF PermanentFailure, RewindAnswerLost
  <2> QED  BY <1>1, <1>2, <2>1, <2>2, ToFailTurns DEF OwnCheckpoint
<1>5. CASE TransientFailure(i) \/ CommitAnswerLost(i)
  <2> DEFINE next == [run[i] EXCEPT !.pc = "headers", !.attempt = @ + 1,
                                    !.commit.blocks = NoHeaders, !.commit.events = {}]
  <2>1. InRun(i) /\ Retry(i)  BY <1>5 DEF TransientFailure, CommitAnswerLost, At, InRun
  <2>2. OwnCheckpoint(i)
    BY <1>5, <2>1, WritesItsOwn DEF TransientFailure, CommitAnswerLost
  <2>3. CASE ToFail(i)  BY <1>1, <1>2, <2>1, <2>2, <2>3, ToFailTurns DEF OwnCheckpoint
  <2>4. CASE Goto(i, next)
    <3>1. run[i] \in Run  BY <2>1, StepFacts
    <3>2. SameRound(next, run[i]) /\ next.pc # "off"
      BY <3>1 DEF SameRound, SamePlace, Run
    <3>3. run' = [run EXCEPT ![i] = next] /\ UNCHANGED cursor  BY <2>4 DEF Goto
    <3> HIDE DEF next
    <3> QED  BY <1>1, <1>2, <2>1, <2>2, <3>2, <3>3, StaysInTurn DEF OwnCheckpoint
  <2> QED  BY <2>1, <2>3, <2>4 DEF Retry
<1>6. CASE Crash(i)
  <2>1. NotStarted.pc = "off"  BY DEF NotStarted, NoRun
  <2>2. RunTurns(NotStarted, cursor[i], tracked, checkpoint', Quiet')
    BY <1>2, <2>1 DEF RunTurns, Ranging
  <2>3. run' = [run EXCEPT ![i] = NotStarted] /\ UNCHANGED cursor  BY <1>6 DEF Crash, Goto
  <2> QED  BY <1>1, <1>2, <2>2, <2>3, TurnsNext
<1> QED  BY <1>3, <1>4, <1>5, <1>6 DEF FaultStep

\* A new contract comes last: it and those behind the cursor are one further ahead in a
\* watch set that is one longer.
LEMMA TrackTurns ==
    ASSUME ScannerInv, TurnsInv, WaitsShrink, TrackContract
    PROVE  TurnsInv'
<1> DEFINE len == Len(tracked)
<1>1. PICK c \in Contract : /\ \A k \in DOMAIN tracked : tracked[k] < c
                            /\ tracked' = Append(tracked, c)
  BY DEF TrackContract
<1>2. UNCHANGED <<checkpoint, run, cursor, faults>>  BY DEF TrackContract, storeVars
<1>3. tracked \in Seq(Contract) /\ len \in Nat /\ DOMAIN tracked = 1..len
  BY ScannerInvByParts DEF ControlOK
<1>4. /\ Len(tracked') = len + 1 /\ DOMAIN tracked' = 1..(len + 1)
      /\ tracked'[len + 1] = c /\ \A k \in 1..len : tracked'[k] = tracked[k]
  BY <1>1, <1>3
<1> HIDE DEF len
<1>5. WaitsType'  BY <1>2 DEF TurnsInv, WaitsType, WaitsShrink
<1>6. InOrder'
  <2> SUFFICES ASSUME NEW j \in 1..(len + 1), NEW k \in 1..(len + 1), j < k
               PROVE  tracked'[j] < tracked'[k]
    BY <1>4 DEF InOrder
  <2>1. j \in 1..len  BY <1>3
  <2>2. CASE k = len + 1  BY <1>1, <1>3, <1>4, <2>1, <2>2
  <2>3. CASE k # len + 1
    <3>1. k \in 1..len  BY <1>3, <2>3
    <3> QED  BY <1>3, <1>4, <2>1, <3>1 DEF TurnsInv, InOrder
  <2> QED  BY <2>2, <2>3
<1>7. UntrackedWaitNot'
  <2> SUFFICES ASSUME NEW d \in Contract,
                      (\A k \in 1..(len + 1) : tracked'[k] # d) \/ Instance = {}
               PROVE  waits'[d] = 0
    BY <1>4 DEF UntrackedWaitNot
  <2>1. (\A k \in 1..len : tracked[k] # d) \/ Instance = {}  BY <1>3, <1>4
  <2>2. waits[d] = 0  BY <1>3, <2>1 DEF TurnsInv, UntrackedWaitNot
  <2> QED  BY <2>2 DEF WaitsShrink
<1>8. waits[c] = 0
  <2>1. c \in Nat /\ \A k \in DOMAIN tracked : tracked[k] \in Nat
    <3>1. \A k \in DOMAIN tracked : tracked[k] \in Contract  BY <1>3
    <3> QED  BY <3>1, IdsAssumption
  <2>2. \A k \in DOMAIN tracked : tracked[k] # c  BY <1>1, <2>1
  <2> QED  BY <2>2 DEF TurnsInv, UntrackedWaitNot
<1>9. ASSUME NEW i \in Instance PROVE InTurn(cursor[i], tracked', waits')
  <2>1. cursor[i] \in Nat /\ InTurn(cursor[i], tracked, waits)  BY RunTypes DEF TurnsInv
  <2>2. cursor[i] = 0 \/ cursor[i] < len  BY <2>1 DEF InTurn, len
  <2>3. ASSUME NEW k \in 1..(len + 1)
        PROVE  waits'[tracked'[k]] + Ahead(k, cursor[i], len + 1) < len + 1
    <3>1. CASE k = len + 1
      <4>1. waits'[tracked'[k]] = 0  BY <1>4, <1>8, <3>1 DEF WaitsShrink
      <4> QED  BY <1>3, <2>1, <2>2, <3>1, <4>1 DEF Ahead
    <3>2. CASE k # len + 1
      <4>1. k \in 1..len  BY <1>3, <3>2
      <4>2. waits[tracked[k]] + Ahead(k, cursor[i], len) < len
        BY <1>3, <2>1, <4>1 DEF InTurn, len
      <4>3. tracked[k] \in Contract /\ tracked'[k] = tracked[k]  BY <1>3, <1>4, <4>1
      <4>4. waits[tracked[k]] \in Nat /\ waits'[tracked[k]] \in {0, waits[tracked[k]]}
        BY <4>3 DEF TurnsInv, WaitsType, WaitsShrink
      <4>5. /\ Ahead(k, cursor[i], len) \in Int
            /\ Ahead(k, cursor[i], len + 1) \in Int
            /\ Ahead(k, cursor[i], len + 1) <= Ahead(k, cursor[i], len) + 1
        BY <1>3, <2>1, <4>1 DEF Ahead
      <4> QED  BY <1>3, <4>2, <4>3, <4>4, <4>5
    <3> QED  BY <3>1, <3>2
  <2> QED  BY <1>3, <1>4, <2>1, <2>2, <2>3 DEF InTurn
<1>10. ASSUME NEW i \in Instance PROVE RunTurns(run[i], cursor[i], tracked', checkpoint, Quiet')
  <2>1. RunTurns(run[i], cursor[i], tracked, checkpoint, Quiet)  BY DEF TurnsInv
  <2>2. Quiet => Quiet'  BY DEF WaitsShrink, Quiet
  <2>3. CASE InRun(i)
    <3>1. run[i].n \in Nat /\ run[i].n <= len  BY <2>3, RunTypes DEF len
    <3>2. \A k \in 1..run[i].n : tracked'[k] = tracked[k]  BY <1>3, <1>4, <3>1
    <3>3. PastAll(run[i], tracked', checkpoint)
      BY <2>1, <2>3, <3>2 DEF RunTurns, PastAll, InRun
    <3>4. Position(i) + 1 \in 1..run[i].n  BY <2>3, TargetPlace
    <3>5. TargetOf(run[i], tracked') = TargetOf(run[i], tracked)
      BY <3>2, <3>4 DEF TargetOf, Position
    <3> QED  BY <2>1, <2>2, <2>3, <3>3, <3>5 DEF RunTurns, InRun
  <2>4. CASE ~InRun(i)  BY <2>1, <2>2, <2>4 DEF RunTurns, InRun, Ranging
  <2> QED  BY <2>3, <2>4
<1> QED  BY <1>2, <1>5, <1>6, <1>7, <1>9, <1>10 DEF TurnsInv

LEMMA StillTurns ==
    ASSUME ScannerInv, TurnsInv, WaitsShrink,
           UNCHANGED <<checkpoint, run, cursor, tracked, faults>>
    PROVE  TurnsInv'
<1>1. tracked \in Seq(Contract)  BY ScannerInvByParts DEF ControlOK
<1>2. WaitsType' /\ InOrder' /\ UntrackedWaitNot'
  BY DEF TurnsInv, WaitsShrink, WaitsType, InOrder, UntrackedWaitNot
<1>3. ASSUME NEW i \in Instance
      PROVE  /\ InTurn(cursor[i], tracked, waits')
             /\ RunTurns(run[i], cursor[i], tracked, checkpoint, Quiet')
  <2>1. InTurn(cursor[i], tracked, waits) /\ cursor[i] \in Nat  BY RunTypes DEF TurnsInv
  <2>2. Quiet => Quiet'  BY DEF WaitsShrink, Quiet
  <2>3. RunTurns(run[i], cursor[i], tracked, checkpoint, Quiet')
    BY <2>2 DEF TurnsInv, RunTurns
  <2> QED  BY <1>1, <2>1, <2>3, ShrinkKeepsTurns
<1> QED  BY <1>2, <1>3 DEF TurnsInv

-----------------------------------------------------------------------------
(* What the monitor counts. *)

\* Only the commit of a range makes anybody wait.
LEMMA WaitsOnlyForCommits ==
    ASSUME ScannerInv, OneScanner, TurnsInv, MonitorNext, ~\E i \in Instance : Commit(i)
    PROVE  WaitsShrink /\ (faults' # faults => Quiet')
<1>1. waits \in [Contract -> Nat]  BY DEF TurnsInv, WaitsType
<1>2. CASE faults' # faults
  <2>1. waits' = [c \in Contract |-> 0]  BY <1>2 DEF MonitorNext
  <2> QED  BY <2>1 DEF WaitsShrink, Quiet
<1>3. CASE faults' = faults /\ \E i \in Instance : run[i].pc = "commit"
  <2>1. PICK i \in Instance : run[i].pc = "commit"  BY <1>3
  <2>2. faults \in Nat  BY DEF TurnsInv, WaitsType
  <2>3. \A j \in Instance : ~FaultStep(j)
    <3>1. \A j \in Instance : FaultStep(j) => faults' = faults + 1
      BY DEF FaultStep, TransientFailure, CommitAnswerLost, PermanentFailure,
             RewindAnswerLost, CallFails, CallAnswerLost, Crash, Fault
    <3> QED  BY <1>3, <2>2, <3>1
  <2>4. \A j \in Instance : Step(j) => CommitRejected(j)
    BY <2>1 DEF OneScanner, Step, Start, Tick, Ensure, CheckTip, ReadWindow, CompareWindow,
                Rewind, RewindRejected, SkipIdle, MarkIdle, MarkRunning, ReadHeaders, ReadLogs,
                Fail, At
  <2>5. checkpoint' = checkpoint
    BY <2>3, <2>4 DEF MonitorNext, Next, CommitRejected, ChainMoves, TrackContract, storeVars
  <2>6. \A c \in Contract : checkpoint[c] \in Checkpoint \cup {NoCheckpoint}
    BY DEF ScannerInv, StoreInv, StoreTypeOK
  <2>7. ASSUME NEW c \in Contract PROVE ~Advanced(c)
    <3>1. checkpoint[c] # NoCheckpoint => checkpoint[c].next \in Nat
      BY <2>6, HeightAssumption DEF Checkpoint
    <3> QED  BY <2>5, <3>1 DEF Advanced
  <2>8. waits' = waits  BY <1>3, <2>7 DEF MonitorNext
  <2> QED  BY <1>1, <1>3, <2>8 DEF WaitsShrink
<1>4. CASE faults' = faults /\ \A i \in Instance : run[i].pc # "commit"
  <2>1. \A c : ~HasRangeDue(c)  BY <1>4 DEF HasRangeDue
  <2>2. waits' = waits \/ waits' = [d \in Contract |-> 0]
    BY <1>4, <2>1 DEF MonitorNext
  <2> QED  BY <1>1, <1>4, <2>2 DEF WaitsShrink
<1> QED  BY <1>2, <1>3, <1>4

\* After a commit a contract that waits has the target of the run behind it.
LEMMA CommitTurns ==
    ASSUME ScannerInv, OneScanner, PlaceInv, TurnsInv, MonitorNext,
           NEW i \in Instance, Commit(i)
    PROVE  TurnsInv'
<1> DEFINE r == run[i]
           t == Target(i)
           q == (Position(i) + 1) % r.n
           len == Len(tracked)
           Someone == \E c \in Contract : Advanced(c)
<1>1. /\ r.pc = "commit" /\ InRun(i) /\ UNCHANGED <<tracked, faults>>
      /\ CommitRange(t, r.commit) /\ run' = [run EXCEPT ![i] = NoRun]
      /\ cursor' = [cursor EXCEPT ![i] = q]
  BY DEF Commit, At, InRun, NoFault
<1>2. /\ run \in [Instance -> Run] /\ cursor \in [Instance -> Nat] /\ len \in Nat
      /\ tracked \in Seq(Contract) /\ DOMAIN tracked = 1..len
      /\ r.n \in Nat \ {0} /\ r.n <= len /\ r.safe \in Nat
      /\ r.start \in Nat /\ r.offset \in Nat
  BY <1>1, RunTypes
<1>3. /\ InTurn(cursor[i], tracked, waits) /\ r.start = cursor[i] /\ r.start < r.n
      /\ r.offset < r.n /\ PastAll(r, tracked, checkpoint)
      /\ Quiet \/ checkpoint[t].next = r.commit.from
      /\ waits \in [Contract -> Nat]
  BY <1>1 DEF TurnsInv, WaitsType, RunTurns, Ranging, TargetOf, Target, Position
<1>4. t \in Contract /\ \A c \in Contract : checkpoint[c] \in Checkpoint \cup {NoCheckpoint}
  BY <1>1, StepFacts
<1>5. \A c \in Contract : checkpoint[c] # NoCheckpoint => checkpoint[c].next \in Nat
  BY <1>4, HeightAssumption DEF Checkpoint
<1>6. \A c \in Contract : Advanced(c) => c = t
  <2>1. OwnCheckpoint(i)  BY <1>1, WritesItsOwn
  <2> QED  BY <1>5, <2>1 DEF OwnCheckpoint, Advanced
<1>7. Someone \/ Quiet
  <2>1. /\ checkpoint'[t] # NoCheckpoint /\ checkpoint'[t].next = r.commit.to + 1
        /\ checkpoint[t] # NoCheckpoint
    BY <1>1, RunCommitRows DEF CommitRange, CommitAccepted
  <2>2. r.commit.from <= r.commit.to /\ r.commit.from \in Height /\ r.commit.to \in Height
    BY <1>1, StepFacts DEF RunInv, Run
  <2>3. r.commit.from \in Nat /\ r.commit.to \in Nat  BY <2>2, HeightAssumption DEF Height
  <2>4. checkpoint[t].next = r.commit.from => Advanced(t)
    BY <2>1, <2>2, <2>3 DEF Advanced
  <2> QED  BY <1>3, <1>4, <2>4
<1>8. waits' = IF Someone
               THEN [d \in Contract |-> IF HasRangeDue(d) /\ ~Advanced(d) THEN waits[d] + 1 ELSE 0]
               ELSE waits
  BY <1>1 DEF MonitorNext
<1>9. /\ Position(i) + 1 \in 1..r.n
      /\ \A k \in 1..r.n : Ahead(k, r.start, r.n) = r.offset <=> k = Position(i) + 1
      /\ t = tracked[Position(i) + 1]
      /\ Position(i) = (r.start + r.offset) % r.n
  BY <1>1, TargetPlace DEF Position
<1>10. q \in 0..(r.n - 1)  BY <1>2, <1>9
<1>11. \A d \in Contract : HasRangeDue(d) =>
          \E k \in 1..r.n : /\ tracked[k] = d
                            /\ checkpoint[d] # NoCheckpoint => checkpoint[d].next <= r.safe
  BY DEF HasRangeDue, OneScanner
<1>12. InTurn(q, tracked, waits')
  <2>1. CASE ~Someone
    <3>1. Quiet'  BY <1>7, <1>8, <2>1 DEF Quiet
    <3> HIDE DEF q
    <3> QED  BY <1>2, <1>10, <3>1, QuietTurns
  <2>2. CASE Someone
    <3> SUFFICES ASSUME NEW k \in 1..len PROVE waits'[tracked[k]] + Ahead(k, q, len) < len
      <4> HIDE DEF q
      <4> QED  BY <1>2, <1>10 DEF InTurn
    <3> DEFINE d == tracked[k]
    <3>1. d \in Contract  BY <1>2
    <3>2. q \in 0..(len - 1)
      <4> HIDE DEF q, len
      <4> QED  BY <1>2, <1>10
    <3>3. Ahead(k, q, len) \in 0..(len - 1)
      <4> HIDE DEF q, len
      <4>1. len \in Nat \ {0}  BY <1>2
      <4> QED  BY <3>2, <4>1, AheadType
    <3>4. CASE ~(HasRangeDue(d) /\ ~Advanced(d))
      <4>1. waits'[d] = 0  BY <1>8, <2>2, <3>1, <3>4
      <4> HIDE DEF q, len
      <4> QED  BY <1>2, <3>3, <4>1
    <3>5. CASE HasRangeDue(d) /\ ~Advanced(d)
      <4>1. waits'[d] = waits[d] + 1  BY <1>8, <2>2, <3>1, <3>5
      <4>2. PICK m \in 1..r.n :
                /\ tracked[m] = d
                /\ checkpoint[d] # NoCheckpoint => checkpoint[d].next <= r.safe
        BY <1>11, <3>1, <3>5
      <4>3. m = k
        <5>1. m \in DOMAIN tracked /\ k \in DOMAIN tracked /\ m \in Int /\ k \in Int
          BY <1>2
        <5>2. ~(m < k) /\ ~(k < m)
          <6>1. d \in Nat  BY <3>1, IdsAssumption
          <6>2. ~(d < d)  BY <6>1
          <6> QED  BY <4>2, <5>1, <6>2 DEF TurnsInv, InOrder
        <5> QED  BY <5>1, <5>2
      <4>4. k \in 1..r.n  BY <4>3
      <4>5. d # t  BY <1>4, <1>6, <2>2, <3>5
      <4>6. Ahead(k, r.start, r.n) # r.offset  BY <1>9, <4>4, <4>5
      <4>7. ~(Ahead(k, r.start, r.n) < r.offset)
        <5>1. SUFFICES ASSUME Ahead(k, r.start, r.n) < r.offset PROVE FALSE
          OBVIOUS
        <5>2. checkpoint[d] # NoCheckpoint /\ checkpoint[d].next > r.safe
          BY <1>3, <4>4, <5>1 DEF PastAll
        <5> QED  BY <1>2, <1>5, <3>1, <4>2, <5>2
      <4>8. Ahead(k, r.start, r.n) \in Int  BY <1>2, <4>4 DEF Ahead
      <4>9. Ahead(k, r.start, r.n) > r.offset  BY <1>2, <4>6, <4>7, <4>8
      <4>10. Ahead(k, q, len) + 1 <= Ahead(k, r.start, len)
        <5>1. r.start \in 0..(r.n - 1) /\ r.offset \in 0..(r.n - 1)  BY <1>2, <1>3
        <5>2. q = (((r.start + r.offset) % r.n) + 1) % r.n  BY <1>9
        <5> HIDE DEF q, len
        <5> QED  BY <1>2, <4>4, <4>9, <5>1, <5>2, ComesNearer
      <4>11. waits[d] + Ahead(k, r.start, len) < len
        BY <1>2, <1>3 DEF InTurn
      <4>12. waits[d] \in Nat /\ Ahead(k, r.start, len) \in Int
        BY <1>2, <1>3, <3>1 DEF Ahead
      <4> HIDE DEF q, len, d
      <4> QED  BY <1>2, <3>3, <4>1, <4>10, <4>11, <4>12 DEF d
    <3> QED  BY <3>4, <3>5
  <2> QED  BY <2>1, <2>2
<1>13. waits' \in [Contract -> Nat]  BY <1>3, <1>8
<1>14. WaitsType' /\ InOrder'
  BY <1>1, <1>13 DEF TurnsInv, WaitsType, InOrder
<1>15. UntrackedWaitNot'
  <2> SUFFICES ASSUME NEW d \in Contract, \A k \in 1..len : tracked[k] # d
               PROVE  waits'[d] = 0
    BY <1>1, <1>2, Instance # {} DEF UntrackedWaitNot
  <2>1. waits[d] = 0  BY <1>2 DEF TurnsInv, UntrackedWaitNot
  <2>2. ~HasRangeDue(d)
    <3>1. \A k \in 1..r.n : tracked[k] # d
      <4>1. \A k \in 1..r.n : k \in 1..len
        <5> HIDE DEF len
        <5> QED  BY <1>2
      <4> QED  BY <4>1
    <3> QED  BY <1>11, <3>1
  <2> QED  BY <1>8, <2>1, <2>2
<1>16. NoRun.pc = "wait"  BY DEF NoRun
<1>17. RunTurns(NoRun, q, tracked, checkpoint', Quiet')  BY <1>16 DEF RunTurns, Ranging
<1>18. run'[i] = NoRun /\ cursor'[i] = q /\ tracked' = tracked  BY <1>1, <1>2
<1> HIDE DEF q
<1> QED  BY <1>12, <1>14, <1>15, <1>17, <1>18 DEF TurnsInv, OneScanner

LEMMA TurnsStep ==
    OneScanner /\ ScannerInv /\ PlaceInv /\ TurnsInv /\ [MonitorNext]_<<vars, waits>> => TurnsInv'
<1> SUFFICES ASSUME OneScanner, ScannerInv, PlaceInv, TurnsInv, [MonitorNext]_<<vars, waits>>
             PROVE  TurnsInv'
  OBVIOUS
<1>1. CASE UNCHANGED <<vars, waits>>
  <2>1. WaitsShrink  BY <1>1 DEF TurnsInv, WaitsType, WaitsShrink
  <2>2. UNCHANGED <<checkpoint, run, cursor, tracked, faults>>
    BY <1>1 DEF vars, storeVars
  <2> QED  BY <2>1, <2>2, StillTurns
<1>2. CASE MonitorNext /\ \E i \in Instance : Commit(i)  BY <1>2, CommitTurns
<1>3. CASE MonitorNext /\ ~\E i \in Instance : Commit(i)
  <2>1. WaitsShrink /\ (faults' # faults => Quiet')  BY <1>3, WaitsOnlyForCommits
  <2>2. faults \in Nat  BY DEF TurnsInv, WaitsType
  <2>3. ASSUME NEW i \in Instance, Step(i) PROVE TurnsInv'
    <3>1. CASE Fail(i)
      <4>1. EndRun(i) /\ UNCHANGED <<tracked, faults>>  BY <3>1 DEF Fail, At, NoFault
      <4> QED  BY <2>1, <2>2, <4>1, EndRunTurns
    <3> QED
      BY <1>3, <2>1, <2>3, <3>1, StartTurns, TickTurns, ReadingTurns, RangingTurns,
         NextContractTurns DEF Step
  <2>4. ASSUME NEW i \in Instance, FaultStep(i) PROVE TurnsInv'
    BY <2>1, <2>4, FaultTurns
  <2>5. CASE ChainMoves
    <3>1. UNCHANGED <<checkpoint, run, cursor, tracked, faults>>
      BY <2>5 DEF ChainMoves, storeVars
    <3> QED  BY <2>1, <3>1, StillTurns
  <2>6. CASE TrackContract  BY <2>1, <2>6, TrackTurns
  <2> QED  BY <1>3, <2>3, <2>4, <2>5, <2>6 DEF MonitorNext, Next
<1> QED  BY <1>1, <1>2, <1>3

LEMMA TurnsInitially == MonitorInit => TurnsInv
<1> SUFFICES ASSUME MonitorInit PROVE TurnsInv
  OBVIOUS
<1>1. /\ waits = [c \in Contract |-> 0] /\ faults = 0 /\ tracked = <<>>
      /\ run = [i \in Instance |-> NotStarted] /\ cursor = [i \in Instance |-> 0]
  BY DEF MonitorInit, ScannerInit
<1>2. DOMAIN tracked = {}  BY <1>1
<1>3. WaitsType /\ InOrder /\ UntrackedWaitNot /\ Quiet
  BY <1>1, <1>2 DEF WaitsType, InOrder, UntrackedWaitNot, Quiet
<1>4. NotStarted.pc = "off"  BY DEF NotStarted, NoRun
<1>5. ASSUME NEW i \in Instance
      PROVE  /\ InTurn(cursor[i], tracked, waits)
             /\ RunTurns(run[i], cursor[i], tracked, checkpoint, Quiet)
  BY <1>1, <1>2, <1>3, <1>4 DEF InTurn, RunTurns, Ranging
<1> QED  BY <1>3, <1>5 DEF TurnsInv

LEMMA TurnsHold == ASSUME OneScanner PROVE MonitorSpec => [](ScannerInv /\ TurnsInv)
<1>1. MonitorInit => ScannerInit  BY DEF MonitorInit
<1>2. [MonitorNext]_<<vars, waits>> => [Next]_vars  BY DEF MonitorNext
<1>3. MonitorInit => TurnsInv  BY TurnsInitially
<1>4. ScannerInv /\ PlaceInv /\ TurnsInv /\ [MonitorNext]_<<vars, waits>> => TurnsInv'
  BY TurnsStep
<1> QED  BY <1>1, <1>2, <1>3, <1>4, PlaceHolds, PTL DEF MonitorSpec, Spec

\* A deployment is tracked once, so a watch set is no longer than there are contracts.
LEMMA TrackedAreFew ==
    ASSUME ScannerInv, TurnsInv
    PROVE  Len(tracked) <= Cardinality(Contract)
<1>1. tracked \in Seq(Contract) /\ Len(tracked) \in Nat  BY ScannerInvByParts DEF ControlOK
<1>2. DOMAIN tracked = 1..Len(tracked) /\ \A k \in DOMAIN tracked : tracked[k] \in Contract
  BY <1>1
<1>3. \A j, k \in DOMAIN tracked : tracked[j] = tracked[k] => j = k
  <2> SUFFICES ASSUME NEW j \in DOMAIN tracked, NEW k \in DOMAIN tracked,
                      tracked[j] = tracked[k], j # k
               PROVE  FALSE
    OBVIOUS
  <2>1. j < k \/ k < j  BY <1>2
  <2>2. tracked[k] \in Nat  BY <1>2, IdsAssumption
  <2>3. tracked[j] < tracked[k] \/ tracked[k] < tracked[j]
    BY <2>1 DEF TurnsInv, InOrder
  <2> QED  BY <2>2, <2>3
<1>4. tracked \in Injection(1..Len(tracked), Contract)
  BY <1>1, <1>2, <1>3 DEF Injection, IsInjective
<1>5. Cardinality(1..Len(tracked)) <= Cardinality(Contract)
  BY <1>4, IdsAssumption, FS_Injection
<1>6. Cardinality(1..Len(tracked)) = Len(tracked)
  <2>1. Cardinality(1..Len(tracked)) = IF 1 > Len(tracked) THEN 0 ELSE Len(tracked) - 1 + 1
    BY <1>1, FS_Interval
  <2> QED  BY <1>1, <2>1
<1> QED  BY <1>5, <1>6

\* "Rotate over the eligible contracts so a busy deployment cannot starve the others":
\* between failures a contract with a range due sees at most one range of every other
\* one committed before its own, whatever is rewound or tracked meanwhile: scanner.go, Run.
THEOREM OneScannerRotates == ASSUME OneScanner PROVE MonitorSpec => []WaitsOneRound
<1>1. ScannerInv /\ TurnsInv /\ OneScanner => WaitsOneRound
  <2> SUFFICES ASSUME ScannerInv, TurnsInv, OneScanner, NEW c \in Contract
               PROVE  waits[c] < Cardinality(Contract)
    BY DEF WaitsOneRound
  <2>1. Len(tracked) <= Cardinality(Contract) /\ Len(tracked) \in Nat
    BY TrackedAreFew, ScannerInvByParts DEF ControlOK
  <2>2. Cardinality(Contract) \in Nat /\ Cardinality(Contract) # 0
    BY IdsAssumption, FS_CardinalityType, FS_EmptySet
  <2>3. CASE (\A k \in DOMAIN tracked : tracked[k] # c) \/ Instance = {}
    BY <2>2, <2>3 DEF TurnsInv, UntrackedWaitNot
  <2>4. ASSUME NEW k \in DOMAIN tracked, tracked[k] = c, NEW i \in Instance
        PROVE  waits[c] < Len(tracked)
    <3>1. waits[c] + Ahead(k, cursor[i], Len(tracked)) < Len(tracked)
      BY <2>4 DEF TurnsInv, InTurn
    <3>2. cursor[i] \in Nat /\ k \in 1..Len(tracked) /\ waits[c] \in Nat
      BY RunTypes DEF TurnsInv, WaitsType
    <3>3. cursor[i] = 0 \/ cursor[i] < Len(tracked)  BY DEF TurnsInv, InTurn
    <3>4. Ahead(k, cursor[i], Len(tracked)) \in Nat
      BY <2>1, <3>2, <3>3 DEF Ahead
    <3> QED  BY <2>1, <3>1, <3>2, <3>4
  <2>5. waits[c] \in Nat  BY DEF TurnsInv, WaitsType
  <2> QED  BY <2>1, <2>2, <2>3, <2>4, <2>5
<1> QED  BY <1>1, TurnsHold, PTL
=============================================================================
