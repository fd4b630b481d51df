------------------------ MODULE IndexerScannerProofs ------------------------
(***************************************************************************)
(* Every call the scanners of any number of processes make, whatever they  *)
(* read before, whatever fails and however the chain moves meanwhile, is   *)
(* one the repository accepts as valid: the scanner implements the         *)
(* specification of the repository, and with it everything proved of it.   *)
(***************************************************************************)
EXTENDS IndexerScanner, IndexerStoreProofs

ScannerInv == StoreInv /\ ScannerTypeOK

\* The run a process has in progress, as a value, over the watch set it read.
TargetOf(r, tr) == tr[((r.start + r.offset) % r.n) + 1]

RunInv(r, tr) ==
    /\ r \in Run
    /\ r.pc \notin {"off", "wait"} => r.n <= Len(tr)
    /\ r.pc \in {"tip", "window", "compare", "rewind", "decide"} => r.cp # NoCheckpoint
    /\ r.pc = "tip" => r.cp.tip # NoTip
    /\ r.pc \in {"headers", "logs", "commit"} => r.commit.from <= r.commit.to
    /\ r.pc \in {"logs", "commit"} => r.commit.blocks \in Headers(r.commit.from, r.commit.to)
    /\ r.pc = "commit" => IsRangeCommit(TargetOf(r, tr), r.commit)

Runs == run \in [Instance -> Run] /\ \A i \in Instance : RunInv(run[i], tracked)

LEMMA RunsByInstance ==
    run \in [Instance -> Run] =>
        (\A i \in Instance : RunOK(i) <=> RunInv(run[i], tracked))
  BY DEF RunInv, RunOK, InRun, Target, Position, TargetOf

\* The part of ScannerTypeOK that is not about the tables.
ControlOK ==
    /\ chain \in Chains
    /\ tracked \in Seq(Contract)
    /\ cursor \in [Instance -> Nat]
    /\ Runs

LEMMA ScannerInvByParts == ScannerInv <=> StoreInv /\ ControlOK
  BY RunsByInstance DEF ScannerInv, ScannerTypeOK, ControlOK, Runs, StoreInv

LEMMA PositionType ==
    ASSUME NEW r, NEW tr \in Seq(Contract), RunInv(r, tr), r.pc \notin {"off", "wait"}
    PROVE  /\ (r.start + r.offset) % r.n \in 0..(r.n - 1)
           /\ TargetOf(r, tr) \in Contract
<1>1. r.n \in Nat \ {0} /\ r.start + r.offset \in Nat /\ r.n <= Len(tr)
  BY DEF RunInv, Run
<1> DEFINE p == (r.start + r.offset) % r.n
<1>2. p \in 0..(r.n - 1)  BY <1>1
<1> HIDE DEF p
<1>3. p + 1 \in 1..Len(tr)  BY <1>1, <1>2
<1>4. tr[p + 1] \in Contract  BY <1>3
<1> QED  BY <1>2, <1>4 DEF p, TargetOf

\* A chain is a function from the heights up to its latest block.
LEMMA ChainShape ==
    ASSUME NEW ch \in Chains
    PROVE  /\ Latest(ch) \in Height
           /\ DOMAIN ch = 0..Latest(ch)
           /\ \A h \in DOMAIN ch : ch[h] \in Block /\ Number[ch[h]] = h
<1>1. PICK latest \in Height : /\ ch \in [0..latest -> Block]
                               /\ \A h \in 0..latest : Number[ch[h]] = h
  BY ChainsAssumption
<1>2. DOMAIN ch = 0..latest  BY <1>1
<1>3. latest \in DOMAIN ch /\ \A k \in DOMAIN ch : k <= latest
  BY <1>2, HeightAssumption DEF Height
<1>4. \A h \in DOMAIN ch : (\A k \in DOMAIN ch : k <= h) => h = latest
  BY <1>2, <1>3, HeightAssumption DEF Height
<1>5. Latest(ch) = latest  BY <1>3, <1>4 DEF Latest
<1> QED  BY <1>1, <1>2, <1>5

LEMMA HeadersAreMaps ==
    ASSUME NEW from \in Height, NEW to \in Height, NEW blocks \in Headers(from, to)
    PROVE  blocks \in HeaderMaps
<1>1. from..to \in SUBSET Height  BY HeightAssumption DEF Height
<1>2. blocks \in [from..to -> Block]  BY DEF Headers
<1> QED  BY <1>1, <1>2 DEF HeaderMaps

LEMMA NoHeadersType == NoHeaders \in HeaderMaps
<1>1. NoHeaders \in [{} -> Block]  BY DEF NoHeaders
<1>2. {} \in SUBSET Height  OBVIOUS
<1> QED  BY <1>1, <1>2 DEF HeaderMaps

LEMMA NoRunInv ==
    ASSUME NEW tr
    PROVE  RunInv(NoRun, tr) /\ RunInv(NotStarted, tr)
<1>1. 0 \in Height /\ 0 \in 0..RetryAttempts /\ 1 \in Nat \ {0}
  BY HeightAssumption, ScannerAssumption DEF Height
<1>2. NoRun \in Run /\ NoRun.pc = "wait" /\ NotStarted \in Run /\ NotStarted.pc = "off"
  BY <1>1, NoHeadersType DEF NoRun, NotStarted, Run, PC, NoCommit
<1> QED  BY <1>2 DEF RunInv

-----------------------------------------------------------------------------
(* What a step of a scanner must do. *)

Serves ==
    /\ [StoreNext]_storeVars
    /\ Runs'
    /\ UNCHANGED <<chain, tracked>>
    /\ cursor' \in [Instance -> Nat]

LEMMA RunChanges ==
    ASSUME ControlOK, NEW i \in Instance, NEW next, RunInv(next, tracked),
           run' = [run EXCEPT ![i] = next], UNCHANGED tracked
    PROVE  Runs'
  BY DEF ControlOK, Runs, RunInv

LEMMA GotoServes ==
    ASSUME ControlOK, NEW i \in Instance, NEW next, RunInv(next, tracked),
           Goto(i, next), UNCHANGED <<chain, tracked>>, [StoreNext]_storeVars
    PROVE  Serves
<1>1. Runs'  BY RunChanges DEF Goto
<1> QED  BY <1>1 DEF Serves, Goto, ControlOK

LEMMA EndRunServes ==
    ASSUME ControlOK, NEW i \in Instance, EndRun(i), UNCHANGED <<chain, tracked>>,
           [StoreNext]_storeVars
    PROVE  Serves
  BY NoRunInv, GotoServes DEF EndRun

LEMMA ToFailServes ==
    ASSUME ControlOK, NEW i \in Instance, InRun(i), ToFail(i), UNCHANGED <<chain, tracked>>,
           [StoreNext]_storeVars
    PROVE  Serves
<1> DEFINE next == [run[i] EXCEPT !.pc = "fail"]
<1>1. RunInv(run[i], tracked) /\ run[i].pc \notin {"off", "wait"}
  BY DEF ControlOK, Runs, InRun
<1>2. next \in Run /\ next.n = run[i].n /\ next.pc = "fail"
  BY <1>1 DEF RunInv, Run, PC
<1>3. RunInv(next, tracked)  BY <1>1, <1>2 DEF RunInv
<1> HIDE DEF next
<1>4. Goto(i, next)  BY DEF ToFail, next
<1> QED  BY <1>3, <1>4, GotoServes

LEMMA TargetType ==
    ASSUME ControlOK, NEW i \in Instance, InRun(i)
    PROVE  /\ Target(i) \in Contract
           /\ Target(i) = TargetOf(run[i], tracked)
           /\ Position(i) \in Nat
<1>1. RunInv(run[i], tracked) /\ run[i].pc \notin {"off", "wait"} /\ tracked \in Seq(Contract)
  BY DEF ControlOK, Runs, InRun
<1>2. Target(i) = TargetOf(run[i], tracked)  BY DEF Target, TargetOf, Position
<1>3. run[i].n \in Nat \ {0}  BY <1>1 DEF RunInv, Run
<1> QED  BY <1>1, <1>2, <1>3, PositionType DEF Position

\* The calls of the repository a scanner makes are calls of IndexerStore.
LEMMA StatusIsStoreStep ==
    ASSUME NEW c \in Contract, NEW status \in Status, SetCheckpointStatus(c, status)
    PROVE  StoreNext
  BY DEF StoreNext, StoreStep

LEMMA CommitIsStoreStep ==
    ASSUME NEW c \in Contract, NEW commit, IsRangeCommit(c, commit), CommitRange(c, commit),
           commit = [from |-> commit.from, to |-> commit.to, status |-> commit.status,
                     blocks |-> commit.blocks, events |-> commit.events]
    PROVE  StoreNext
<1>1. /\ commit.from \in Height /\ commit.to \in commit.from..MaxHeight
      /\ commit.status \in {"idle", "pending"}
      /\ commit.blocks \in Headers(commit.from, commit.to)
      /\ commit.events \in SUBSET OccurrencesOf(c, commit.blocks)
  BY DEF IsRangeCommit
<1>2. commit \in [from : {commit.from}, to : {commit.to}, status : {"idle", "pending"},
                  blocks : {commit.blocks}, events : SUBSET OccurrencesOf(c, commit.blocks)]
  BY <1>1
<1>3. commit \in RangeCommits(c, commit.from, commit.to)
  BY <1>1, <1>2 DEF RangeCommits
<1>4. StoreStep(c)  BY <1>1, <1>3 DEF StoreStep
<1> QED  BY <1>4 DEF StoreNext

LEMMA RewindIsStoreStep ==
    ASSUME ControlOK, NEW i \in Instance, InRun(i), RewindStore(i)
    PROVE  StoreNext
<1>1. Target(i) \in Contract  BY TargetType
<1>2. run[i].ancestor \in Height \cup {NoAncestor}  BY DEF ControlOK, Runs, RunInv, Run
<1> QED  BY <1>1, <1>2 DEF RewindStore, StoreNext, StoreStep

-----------------------------------------------------------------------------
(* The steps of a run. *)

LEMMA StartServes ==
    ASSUME ScannerInv, NEW i \in Instance, Start(i)
    PROVE  Serves
<1>1. ControlOK  BY ScannerInvByParts
<1>2. Runs'  BY <1>1, NoRunInv, RunChanges DEF Start, At
<1> QED  BY <1>1, <1>2 DEF Start, At, Serves, StoreNext, ControlOK

LEMMA TickServes ==
    ASSUME ScannerInv, NEW i \in Instance, Tick(i)
    PROVE  Serves
<1>1. ControlOK  BY ScannerInvByParts
<1> DEFINE next == [NoRun EXCEPT !.pc = "ensure", !.safe = Latest(chain) - (Confirmations - 1),
                                 !.n = Len(tracked), !.start = cursor[i] % Len(tracked)]
<1>2. Latest(chain) - (Confirmations - 1) \in Height
  BY <1>1, ChainShape, HeightAssumption, ScannerAssumption DEF ControlOK, Tick, Height
<1>3. Len(tracked) \in Nat \ {0} /\ cursor[i] \in Nat  BY <1>1 DEF ControlOK, Tick
<1>4. cursor[i] % Len(tracked) \in Nat  BY <1>3
<1>5. NoRun \in Run  BY NoRunInv DEF RunInv
<1>6. next \in Run /\ next.pc = "ensure" /\ next.n = Len(tracked)
  BY <1>2, <1>3, <1>4, <1>5 DEF Run, PC
<1>7. RunInv(next, tracked)  BY <1>3, <1>6 DEF RunInv
<1> HIDE DEF next
<1>8. Goto(i, next)  BY DEF Tick, next
<1> QED  BY <1>1, <1>7, <1>8, GotoServes DEF Tick, At

LEMMA EnsureServes ==
    ASSUME ScannerInv, NEW i \in Instance, Ensure(i)
    PROVE  Serves
<1>1. ControlOK /\ StoreInv /\ RunInv(run[i], tracked) /\ InRun(i) /\ run[i].pc = "ensure"
  BY ScannerInvByParts DEF ControlOK, Runs, InRun, Ensure, At
<1>2. Target(i) \in Contract  BY <1>1, TargetType
<1> DEFINE cp == EnsuredCheckpoint(Target(i))
           next == [run[i] EXCEPT !.cp = cp, !.pc = IF cp.tip = NoTip THEN "decide" ELSE "tip"]
<1>3. cp \in Checkpoint /\ cp # NoCheckpoint
  <2>1. InitialCheckpoint(Target(i)) \in Checkpoint  BY <1>2, InitialCheckpointType
  <2>2. \A c \in Checkpoint : c # NoCheckpoint
    <3>1. NoCheckpoint.status \notin Status  BY DEF NoCheckpoint, Status
    <3> QED  BY <3>1 DEF Checkpoint
  <2> QED  BY <1>1, <1>2, <2>1, <2>2 DEF EnsuredCheckpoint, StoreInv, StoreTypeOK
<1> HIDE DEF cp
<1>4. next \in Run /\ next.n = run[i].n /\ next.cp = cp
      /\ next.pc = IF cp.tip = NoTip THEN "decide" ELSE "tip"
  BY <1>1, <1>3 DEF RunInv, Run, PC
<1>5. RunInv(next, tracked)  BY <1>1, <1>3, <1>4 DEF RunInv
<1> HIDE DEF next
<1>6. Goto(i, next)  BY DEF Ensure, next, cp
<1>7. StoreNext  BY <1>2 DEF Ensure, StoreNext, StoreStep
<1> QED  BY <1>1, <1>5, <1>6, <1>7, GotoServes DEF Ensure, At

\* The state a step at one of the calls of a run starts from.
LEMMA InRunFacts ==
    ASSUME ScannerInv, NEW i \in Instance, InRun(i)
    PROVE  ControlOK /\ StoreInv /\ run[i] \in Run /\ RunInv(run[i], tracked)
  BY ScannerInvByParts DEF ControlOK, Runs

LEMMA CheckTipServes ==
    ASSUME ScannerInv, NEW i \in Instance, CheckTip(i)
    PROVE  Serves
<1>1. run[i].pc = "tip" /\ InRun(i) /\ UNCHANGED <<chain, tracked>> /\ [StoreNext]_storeVars
  BY DEF CheckTip, At, InRun
<1>2. ControlOK /\ run[i] \in Run /\ RunInv(run[i], tracked)
  BY <1>1, InRunFacts
<1>3. run[i].cp \in Checkpoint /\ run[i].cp # NoCheckpoint /\ run[i].cp.tip \in Tip \ {NoTip}
  BY <1>1, <1>2 DEF RunInv, Run, Checkpoint
<1>4. CASE ToFail(i)  BY <1>1, <1>2, <1>4, ToFailServes
<1>5. CASE Goto(i, [run[i] EXCEPT !.pc = "decide"])
  <2> DEFINE next == [run[i] EXCEPT !.pc = "decide"]
  <2>1. RunInv(next, tracked)  BY <1>1, <1>2, <1>3 DEF RunInv, Run, PC
  <2> HIDE DEF next
  <2>2. Goto(i, next)  BY <1>5 DEF next
  <2> QED  BY <1>1, <1>2, <2>1, <2>2, GotoServes
<1>6. CASE Goto(i, [run[i] EXCEPT !.pc = "window", !.high = run[i].cp.tip.number])
  <2> DEFINE next == [run[i] EXCEPT !.pc = "window", !.high = run[i].cp.tip.number]
  <2>1. run[i].cp.tip.number \in Height  BY <1>3 DEF Tip
  <2>2. RunInv(next, tracked)  BY <1>1, <1>2, <1>3, <2>1 DEF RunInv, Run, PC
  <2> HIDE DEF next
  <2>3. Goto(i, next)  BY <1>6 DEF next
  <2> QED  BY <1>1, <1>2, <2>2, <2>3, GotoServes
<1> QED  BY <1>4, <1>5, <1>6 DEF CheckTip

LEMMA ReadWindowServes ==
    ASSUME ScannerInv, NEW i \in Instance, ReadWindow(i)
    PROVE  Serves
<1>1. run[i].pc = "window" /\ InRun(i) /\ UNCHANGED <<chain, tracked>> /\ [StoreNext]_storeVars
  BY DEF ReadWindow, At, InRun
<1>2. ControlOK /\ StoreInv /\ run[i] \in Run /\ RunInv(run[i], tracked)
  BY <1>1, InRunFacts
<1> DEFINE low == run[i].high - ReorgWalkWindow + 1
           stored == {h \in Height : h >= low /\ h <= run[i].high /\ rows[Target(i)][h] # NoBlock}
           window == [h \in stored |-> rows[Target(i)][h]]
           none == [run[i] EXCEPT !.pc = "rewind", !.ancestor = NoAncestor]
           some == [run[i] EXCEPT !.pc = "compare", !.window = window]
<1>3. Goto(i, IF stored = {} THEN none ELSE some)
  BY DEF ReadWindow
<1>4. window \in HeaderMaps
  <2>1. rows[Target(i)] \in [Height -> Block \cup {NoBlock}]
    BY <1>1, <1>2, TargetType DEF StoreInv, StoreTypeOK
  <2>2. stored \in SUBSET Height  OBVIOUS
  <2>3. window \in [stored -> Block]  BY <2>1
  <2> QED  BY <2>2, <2>3 DEF HeaderMaps
<1> HIDE DEF window, stored
<1>5. RunInv(none, tracked)
  BY <1>1, <1>2 DEF RunInv, Run, PC
<1>6. RunInv(some, tracked)
  BY <1>1, <1>2, <1>4 DEF RunInv, Run, PC
<1> HIDE DEF none, some
<1> QED  BY <1>1, <1>2, <1>3, <1>5, <1>6, GotoServes

LEMMA CompareWindowServes ==
    ASSUME ScannerInv, NEW i \in Instance, CompareWindow(i)
    PROVE  Serves
<1>1. run[i].pc = "compare" /\ InRun(i) /\ UNCHANGED <<chain, tracked>> /\ [StoreNext]_storeVars
  BY DEF CompareWindow, At, InRun
<1>2. ControlOK /\ run[i] \in Run /\ RunInv(run[i], tracked)
  BY <1>1, InRunFacts
<1>3. DOMAIN run[i].window \subseteq Height
  BY <1>2 DEF Run, HeaderMaps
<1>4. CASE ToFail(i)  BY <1>1, <1>2, <1>4, ToFailServes
<1>5. ASSUME NEW a \in Height \cup {NoAncestor},
             Goto(i, [run[i] EXCEPT !.pc = "rewind", !.ancestor = a])
      PROVE  Serves
  <2> DEFINE next == [run[i] EXCEPT !.pc = "rewind", !.ancestor = a]
  <2>1. RunInv(next, tracked)  BY <1>1, <1>2 DEF RunInv, Run, PC
  <2> HIDE DEF next
  <2>2. Goto(i, next)  BY <1>5 DEF next
  <2> QED  BY <1>1, <1>2, <2>1, <2>2, GotoServes
<1>6. ASSUME NEW low \in Height, low # 0,
             Goto(i, [run[i] EXCEPT !.pc = "window", !.high = low - 1])
      PROVE  Serves
  <2> DEFINE next == [run[i] EXCEPT !.pc = "window", !.high = low - 1]
  <2>1. low - 1 \in Height  BY <1>6, HeightAssumption DEF Height
  <2>2. RunInv(next, tracked)  BY <1>1, <1>2, <2>1 DEF RunInv, Run, PC
  <2> HIDE DEF next
  <2>3. Goto(i, next)  BY <1>6 DEF next
  <2> QED  BY <1>1, <1>2, <2>2, <2>3, GotoServes
<1>7. Matching(run[i].window) \subseteq Height  BY <1>3 DEF Matching
<1>8. \/ ToFail(i)
      \/ \E a \in Height : Goto(i, [run[i] EXCEPT !.pc = "rewind", !.ancestor = a])
      \/ \E low \in Height :
            Goto(i, IF low = 0 THEN [run[i] EXCEPT !.pc = "rewind", !.ancestor = NoAncestor]
                               ELSE [run[i] EXCEPT !.pc = "window", !.high = low - 1])
  BY <1>3, <1>7 DEF CompareWindow
<1> QED  BY <1>4, <1>5, <1>6, <1>8

LEMMA RewindServes ==
    ASSUME ScannerInv, NEW i \in Instance, Rewind(i)
    PROVE  Serves
<1>1. run[i].pc = "rewind" /\ InRun(i) /\ UNCHANGED <<chain, tracked>>
  BY DEF Rewind, At, InRun
<1>2. ControlOK /\ StoreInv /\ run[i] \in Run /\ RunInv(run[i], tracked) /\ Target(i) \in Contract
  BY <1>1, InRunFacts, TargetType
<1> DEFINE next == [run[i] EXCEPT !.pc = "decide", !.cp = RewoundTo(i), !.window = NoHeaders]
<1>3. RewoundTo(i) \in Checkpoint
  <2>1. CASE run[i].ancestor = NoAncestor
    BY <1>2, <2>1, InitialCheckpointType DEF RewoundTo
  <2>2. CASE run[i].ancestor # NoAncestor
    <3> DEFINE a == run[i].ancestor
               c == Target(i)
    <3>1. a \in Height  BY <1>2, <2>2 DEF Run
    <3>2. rows[c][a] # NoBlock  BY <2>2 DEF Rewind, RewindStore, RewindToAncestor, RewindAccepted
    <3>3. rows[c][a] \in Block  BY <1>2, <3>1, <3>2 DEF StoreInv, StoreTypeOK
    <3>4. [number |-> a, hash |-> rows[c][a]] \in Tip  BY <3>1, <3>3, TipType
    <3>5. RewoundTo(i) = RewoundCheckpoint(c, a)  BY <2>2 DEF RewoundTo
    <3>6. a + 1 \in 0..(MaxHeight + 1)  BY <3>1, HeightAssumption DEF Height
    <3> QED  BY <3>4, <3>5, <3>6 DEF RewoundCheckpoint, Checkpoint, Status
  <2> QED  BY <2>1, <2>2
<1>4. RewoundTo(i) # NoCheckpoint
  <2>1. NoCheckpoint.status \notin Status  BY DEF NoCheckpoint, Status
  <2> QED  BY <1>3, <2>1 DEF Checkpoint
<1>5. RunInv(next, tracked)
  BY <1>1, <1>2, <1>3, <1>4, NoHeadersType DEF RunInv, Run, PC
<1> HIDE DEF next
<1>6. Goto(i, next)  BY DEF Rewind, next
<1>7. StoreNext  BY <1>1, <1>2, RewindIsStoreStep DEF Rewind
<1> QED  BY <1>1, <1>2, <1>5, <1>6, <1>7, GotoServes

LEMMA RewindRejectedServes ==
    ASSUME ScannerInv, NEW i \in Instance, RewindRejected(i)
    PROVE  Serves
<1>1. InRun(i)  BY DEF RewindRejected, At, InRun
<1> QED  BY <1>1, InRunFacts, ToFailServes DEF RewindRejected, At

LEMMA NextContractServes ==
    ASSUME ScannerInv, NEW i \in Instance, InRun(i), NextContract(i),
           UNCHANGED <<chain, tracked>>, [StoreNext]_storeVars
    PROVE  Serves
<1>1. ControlOK /\ run[i] \in Run /\ RunInv(run[i], tracked)  BY InRunFacts
<1> DEFINE next == [NoRun EXCEPT !.pc = "ensure", !.safe = run[i].safe, !.n = run[i].n,
                                 !.start = run[i].start, !.offset = run[i].offset + 1]
<1>2. CASE EndRun(i)  BY <1>1, <1>2, EndRunServes
<1>3. CASE run[i].offset + 1 < run[i].n
  <2>1. NoRun \in Run  BY NoRunInv DEF RunInv
  <2>2. /\ run[i].safe \in Height /\ run[i].n \in Nat \ {0}
        /\ run[i].start \in Nat /\ run[i].offset + 1 \in Nat
    BY <1>1 DEF Run
  <2>3. next \in Run /\ next.pc = "ensure" /\ next.n = run[i].n
    BY <2>1, <2>2 DEF Run, PC
  <2>4. RunInv(next, tracked)  BY <1>1, <2>3 DEF RunInv, InRun
  <2> HIDE DEF next
  <2>5. Goto(i, next)  BY <1>3 DEF NextContract, next
  <2> QED  BY <1>1, <2>4, <2>5, GotoServes
<1>4. ~(run[i].offset + 1 < run[i].n) => EndRun(i)  BY DEF NextContract
<1> QED  BY <1>2, <1>3, <1>4

LEMMA SkipIdleServes ==
    ASSUME ScannerInv, NEW i \in Instance, SkipIdle(i)
    PROVE  Serves
<1>1. InRun(i)  BY DEF SkipIdle, At, InRun
<1> QED  BY <1>1, NextContractServes DEF SkipIdle, At

LEMMA MarkIdleServes ==
    ASSUME ScannerInv, NEW i \in Instance, MarkIdle(i)
    PROVE  Serves
<1>1. InRun(i)  BY DEF MarkIdle, At, InRun
<1>2. Target(i) \in Contract  BY <1>1, InRunFacts, TargetType
<1>3. StoreNext  BY <1>2, StatusIsStoreStep DEF MarkIdle, Status
<1> QED  BY <1>1, <1>3, NextContractServes DEF MarkIdle, At

\* The range of a run lies between next_block and its safe head.
LEMMA RangeType ==
    ASSUME NEW i \in Instance, run[i] \in Run, run[i].cp # NoCheckpoint, ~CaughtUp(i)
    PROVE  /\ run[i].cp.next \in Height /\ RangeEnd(i) \in Height
           /\ run[i].cp.next <= RangeEnd(i)
<1>1. run[i].cp.next \in 0..(MaxHeight + 1) /\ run[i].safe \in Height
  BY DEF Run, Checkpoint
<1> QED  BY <1>1, HeightAssumption, ScannerAssumption DEF CaughtUp, RangeEnd, Height

LEMMA MarkRunningServes ==
    ASSUME ScannerInv, NEW i \in Instance, MarkRunning(i)
    PROVE  Serves
<1>1. run[i].pc = "decide" /\ InRun(i) /\ UNCHANGED <<chain, tracked>> /\ ~CaughtUp(i)
  BY DEF MarkRunning, At, InRun
<1>2. ControlOK /\ run[i] \in Run /\ RunInv(run[i], tracked) /\ Target(i) \in Contract
  BY <1>1, InRunFacts, TargetType
<1> DEFINE status == IF RangeEnd(i) = run[i].safe THEN "idle" ELSE "pending"
           commit == [NoCommit EXCEPT !.from = run[i].cp.next, !.to = RangeEnd(i),
                                      !.status = status]
           next == [run[i] EXCEPT !.pc = "headers", !.attempt = 1, !.commit = commit]
<1>3. /\ run[i].cp.next \in Height /\ RangeEnd(i) \in Height
      /\ run[i].cp.next <= RangeEnd(i)
  BY <1>1, <1>2, RangeType DEF RunInv
<1> HIDE DEF status
<1>4. status \in {"idle", "pending"}  BY DEF status
<1>5. /\ commit \in [from : Height, to : Height, status : {"idle", "pending"},
                     blocks : HeaderMaps, events : SUBSET (Block \X Nat)]
      /\ commit.from = run[i].cp.next /\ commit.to = RangeEnd(i)
  BY <1>3, <1>4, NoHeadersType DEF NoCommit
<1> HIDE DEF commit
<1>6. 1 \in 0..RetryAttempts  BY ScannerAssumption
<1>7. next \in Run /\ next.n = run[i].n /\ next.pc = "headers" /\ next.commit = commit
  BY <1>2, <1>5, <1>6 DEF Run, PC
<1>8. RunInv(next, tracked)  BY <1>1, <1>2, <1>3, <1>5, <1>7 DEF RunInv
<1> HIDE DEF next
<1>9. Goto(i, next)  BY DEF MarkRunning, next, commit, status
<1>10. StoreNext  BY <1>2, StatusIsStoreStep DEF MarkRunning, Status
<1> QED  BY <1>1, <1>2, <1>8, <1>9, <1>10, GotoServes

LEMMA ReadHeadersServes ==
    ASSUME ScannerInv, NEW i \in Instance, ReadHeaders(i)
    PROVE  Serves
<1>1. run[i].pc = "headers" /\ InRun(i) /\ UNCHANGED <<chain, tracked>> /\ [StoreNext]_storeVars
  BY DEF ReadHeaders, At, InRun
<1>2. ControlOK /\ run[i] \in Run /\ RunInv(run[i], tracked)
  BY <1>1, InRunFacts
<1> DEFINE range == run[i].commit.from..run[i].commit.to
           blocks == [h \in range |-> chain[h]]
           next == [run[i] EXCEPT !.pc = "logs", !.commit.blocks = blocks]
<1>3. CASE range \subseteq DOMAIN chain
  <2>1. blocks \in Headers(run[i].commit.from, run[i].commit.to)
    BY <1>2, <1>3, ChainShape DEF ControlOK, Headers
  <2>2. run[i].commit.from \in Height /\ run[i].commit.to \in Height  BY <1>2 DEF Run
  <2>3. blocks \in HeaderMaps  BY <2>1, <2>2, HeadersAreMaps
  <2> HIDE DEF blocks
  <2>4. /\ next \in Run /\ next.n = run[i].n /\ next.pc = "logs"
        /\ next.commit.from = run[i].commit.from /\ next.commit.to = run[i].commit.to
        /\ next.commit.blocks = blocks
    BY <1>2, <2>3 DEF Run, PC
  <2>5. RunInv(next, tracked)  BY <1>1, <1>2, <2>1, <2>4 DEF RunInv
  <2> HIDE DEF next
  <2>6. Goto(i, next)  BY <1>3 DEF ReadHeaders, next, blocks
  <2> QED  BY <1>1, <1>2, <2>5, <2>6, GotoServes
<1>4. CASE ~(range \subseteq DOMAIN chain)
  <2>1. ToFail(i)  BY <1>4 DEF ReadHeaders
  <2> QED  BY <1>1, <1>2, <2>1, ToFailServes
<1> QED  BY <1>3, <1>4

LEMMA ReadLogsServes ==
    ASSUME ScannerInv, NEW i \in Instance, ReadLogs(i)
    PROVE  Serves
<1>1. run[i].pc = "logs" /\ InRun(i) /\ UNCHANGED <<chain, tracked>> /\ [StoreNext]_storeVars
  BY DEF ReadLogs, At, InRun
<1>2. ControlOK /\ run[i] \in Run /\ RunInv(run[i], tracked)
      /\ Target(i) \in Contract /\ Target(i) = TargetOf(run[i], tracked)
  BY <1>1, InRunFacts, TargetType
<1> DEFINE commit == run[i].commit
           c == Target(i)
           withLogs == {h \in (commit.from..commit.to) \cap DOMAIN chain :
                            OccurrencesIn(c, chain[h]) # {}}
           events == UNION {OccurrencesIn(c, commit.blocks[h]) : h \in withLogs}
           next == [run[i] EXCEPT !.pc = "commit", !.commit.events = events]
<1>3. CASE \A h \in withLogs : chain[h] = commit.blocks[h]
  <2>1. /\ commit.from \in Height /\ commit.to \in commit.from..MaxHeight
        /\ commit.status \in {"idle", "pending"}
        /\ commit.blocks \in Headers(commit.from, commit.to)
    BY <1>1, <1>2, HeightAssumption DEF RunInv, Run, Height
  <2>2. commit.blocks \in [commit.from..commit.to -> Block]  BY <2>1 DEF Headers
  <2>3. events \subseteq OccurrencesOf(c, commit.blocks)
    BY <2>2 DEF OccurrencesOf
  <2>4. events \in SUBSET (Block \X Nat)
    BY <1>2, <2>2, OccurrenceType
  <2> HIDE DEF events
  <2>5. /\ next \in Run /\ next.n = run[i].n /\ next.pc = "commit"
        /\ next.start = run[i].start /\ next.offset = run[i].offset
        /\ next.commit.from = commit.from /\ next.commit.to = commit.to
        /\ next.commit.status = commit.status /\ next.commit.blocks = commit.blocks
        /\ next.commit.events = events
    BY <1>2, <2>4 DEF Run, PC
  <2>6. TargetOf(next, tracked) = c  BY <1>2, <2>5 DEF TargetOf
  <2> HIDE DEF next
  <2>7. IsRangeCommit(c, next.commit)
    BY <2>1, <2>3, <2>5 DEF IsRangeCommit
  <2>8. RunInv(next, tracked)  BY <1>1, <1>2, <2>1, <2>5, <2>6, <2>7 DEF RunInv
  <2>9. Goto(i, next)  BY <1>3 DEF ReadLogs, next, events
  <2> QED  BY <1>1, <1>2, <2>8, <2>9, GotoServes
<1>4. CASE ~(\A h \in withLogs : chain[h] = commit.blocks[h])
  <2>1. ToFail(i)  BY <1>4 DEF ReadLogs
  <2> QED  BY <1>1, <1>2, <2>1, ToFailServes
<1> QED  BY <1>3, <1>4

\* The range a run holds at its commit is one the repository validates.
LEMMA RunCommitIsStoreStep ==
    ASSUME ScannerInv, NEW i \in Instance, run[i].pc = "commit",
           CommitRange(Target(i), run[i].commit)
    PROVE  StoreNext
<1>1. InRun(i)  BY DEF InRun
<1>2. /\ run[i] \in Run /\ RunInv(run[i], tracked)
      /\ Target(i) \in Contract /\ Target(i) = TargetOf(run[i], tracked)
  BY <1>1, InRunFacts, TargetType
<1>3. IsRangeCommit(Target(i), run[i].commit)  BY <1>2 DEF RunInv
<1>4. run[i].commit \in [from : Height, to : Height, status : {"idle", "pending"},
                         blocks : HeaderMaps, events : SUBSET (Block \X Nat)]
  BY <1>2 DEF Run
<1> DEFINE commit == run[i].commit
<1>5. commit = [from |-> commit.from, to |-> commit.to, status |-> commit.status,
                blocks |-> commit.blocks, events |-> commit.events]
  BY <1>4
<1> QED  BY <1>2, <1>3, <1>5, CommitIsStoreStep

LEMMA CommitServes ==
    ASSUME ScannerInv, NEW i \in Instance, Commit(i)
    PROVE  Serves
<1>1. run[i].pc = "commit" /\ InRun(i) /\ UNCHANGED <<chain, tracked>>
  BY DEF Commit, At, InRun
<1>2. ControlOK /\ run[i] \in Run /\ Position(i) \in Nat
  BY <1>1, InRunFacts, TargetType
<1>3. (Position(i) + 1) % run[i].n \in Nat  BY <1>2 DEF Run
<1>4. cursor' \in [Instance -> Nat]  BY <1>2, <1>3 DEF Commit, ControlOK
<1>5. Runs'  BY <1>1, <1>2, NoRunInv, RunChanges DEF Commit
<1>6. StoreNext  BY <1>1, RunCommitIsStoreStep DEF Commit
<1> QED  BY <1>1, <1>4, <1>5, <1>6 DEF Serves

LEMMA CommitRejectedServes ==
    ASSUME ScannerInv, NEW i \in Instance, CommitRejected(i)
    PROVE  Serves
<1>1. InRun(i)  BY DEF CommitRejected, At, InRun
<1> QED  BY <1>1, InRunFacts, ToFailServes DEF CommitRejected, At

LEMMA FailServes ==
    ASSUME ScannerInv, NEW i \in Instance, Fail(i)
    PROVE  Serves
<1>1. InRun(i)  BY DEF Fail, At, InRun
<1>2. ControlOK /\ Target(i) \in Contract  BY <1>1, InRunFacts, TargetType
<1>3. StoreNext  BY <1>2, StatusIsStoreStep DEF Fail, Status
<1> QED  BY <1>2, <1>3, EndRunServes DEF Fail, At

-----------------------------------------------------------------------------
(* Failures. *)

LEMMA RetryServes ==
    ASSUME ScannerInv, NEW i \in Instance, run[i].pc \in {"headers", "logs", "commit"}, Retry(i),
           UNCHANGED <<chain, tracked>>, [StoreNext]_storeVars
    PROVE  Serves
<1>1. InRun(i)  BY DEF InRun
<1>2. ControlOK /\ run[i] \in Run /\ RunInv(run[i], tracked)
  BY <1>1, InRunFacts
<1> DEFINE next == [run[i] EXCEPT !.pc = "headers", !.attempt = @ + 1,
                                  !.commit.blocks = NoHeaders, !.commit.events = {}]
<1>3. CASE run[i].attempt < RetryAttempts
  <2>1. run[i].attempt + 1 \in 0..RetryAttempts
    BY <1>2, <1>3, ScannerAssumption DEF Run
  <2>2. /\ next \in Run /\ next.n = run[i].n /\ next.pc = "headers"
        /\ next.commit.from = run[i].commit.from /\ next.commit.to = run[i].commit.to
    BY <1>2, <2>1, NoHeadersType DEF Run, PC
  <2>3. RunInv(next, tracked)  BY <1>1, <1>2, <2>2 DEF RunInv, InRun
  <2> HIDE DEF next
  <2>4. Goto(i, next)  BY <1>3 DEF Retry, next
  <2> QED  BY <1>2, <2>3, <2>4, GotoServes
<1>4. CASE ~(run[i].attempt < RetryAttempts)
  <2>1. ToFail(i)  BY <1>4 DEF Retry
  <2> QED  BY <1>1, <1>2, <2>1, ToFailServes
<1> QED  BY <1>3, <1>4

LEMMA FaultServes ==
    ASSUME ScannerInv, NEW i \in Instance, FaultStep(i)
    PROVE  Serves
<1>1. CASE TransientFailure(i)  BY <1>1, RetryServes DEF TransientFailure, At
<1>2. CASE CommitAnswerLost(i)
  BY <1>2, RetryServes, RunCommitIsStoreStep DEF CommitAnswerLost, At
<1>3. CASE PermanentFailure(i)
  <2>1. InRun(i)  BY <1>3 DEF PermanentFailure, At, InRun
  <2> QED  BY <1>3, <2>1, InRunFacts, ToFailServes DEF PermanentFailure, At
<1>4. CASE RewindAnswerLost(i)
  <2>1. InRun(i)  BY <1>4 DEF RewindAnswerLost, At, InRun
  <2>2. ControlOK  BY <2>1, InRunFacts
  <2> QED  BY <1>4, <2>1, <2>2, RewindIsStoreStep, ToFailServes DEF RewindAnswerLost, At
<1>5. CASE CallFails(i)
  <2>1. InRun(i)  BY <1>5 DEF CallFails, At, InRun
  <2> QED  BY <1>5, <2>1, InRunFacts, EndRunServes DEF CallFails, At
<1>6. CASE CallAnswerLost(i)
  <2>1. InRun(i)  BY <1>6 DEF CallAnswerLost, At, InRun
  <2>2. ControlOK /\ Target(i) \in Contract  BY <2>1, InRunFacts, TargetType
  <2>3. \/ EnsureCheckpoint(Target(i))
        \/ \E status \in Status : SetCheckpointStatus(Target(i), status)
    BY <1>6 DEF CallAnswerLost, At, Status
  <2>4. StoreNext  BY <2>2, <2>3 DEF StoreNext, StoreStep
  <2> QED  BY <1>6, <2>2, <2>4, EndRunServes DEF CallAnswerLost, At
<1>7. CASE Crash(i)
  <2>1. ControlOK  BY ScannerInvByParts
  <2> QED  BY <1>7, <2>1, NoRunInv, GotoServes DEF Crash, At
<1> QED  BY <1>1, <1>2, <1>3, <1>4, <1>5, <1>6, <1>7 DEF FaultStep

LEMMA StepServes ==
    ASSUME ScannerInv, NEW i \in Instance, Step(i)
    PROVE  Serves
  BY StartServes, TickServes, EnsureServes, CheckTipServes, ReadWindowServes,
     CompareWindowServes, RewindServes, RewindRejectedServes, SkipIdleServes, MarkIdleServes,
     MarkRunningServes, ReadHeadersServes, ReadLogsServes, CommitServes, CommitRejectedServes,
     FailServes DEF Step

-----------------------------------------------------------------------------
(* The environment, and the theorems. *)

\* A longer watch set keeps the positions of the runs in progress.
LEMMA TrackContractKeeps ==
    ASSUME ScannerInv, NEW c \in Contract, tracked' = Append(tracked, c), UNCHANGED run
    PROVE  tracked' \in Seq(Contract) /\ Runs'
<1>1. ControlOK  BY ScannerInvByParts
<1>2. tracked \in Seq(Contract)  BY <1>1 DEF ControlOK
<1>3. /\ tracked' \in Seq(Contract) /\ Len(tracked') = Len(tracked) + 1
      /\ \A k \in 1..Len(tracked) : tracked'[k] = tracked[k]
  BY <1>2
<1>4. ASSUME NEW i \in Instance PROVE RunInv(run[i], tracked')
  <2>1. RunInv(run[i], tracked) /\ run[i] \in Run  BY <1>1 DEF ControlOK, Runs
  <2>2. CASE run[i].pc \in {"off", "wait"}  BY <2>1, <2>2 DEF RunInv
  <2>3. CASE run[i].pc \notin {"off", "wait"}
    <3> DEFINE p == (run[i].start + run[i].offset) % run[i].n
    <3>1. run[i].n \in Nat \ {0} /\ run[i].n <= Len(tracked) /\ Len(tracked) \in Nat
      BY <1>2, <2>1, <2>3 DEF RunInv, Run
    <3>2. p \in 0..(run[i].n - 1)  BY <1>2, <2>1, <2>3, PositionType
    <3> HIDE DEF p
    <3>3. p + 1 \in 1..Len(tracked)  BY <3>1, <3>2
    <3>4. tracked'[p + 1] = tracked[p + 1]  BY <1>3, <3>3
    <3>5. TargetOf(run[i], tracked') = TargetOf(run[i], tracked)  BY <3>4 DEF TargetOf, p
    <3>6. run[i].n <= Len(tracked')  BY <1>3, <3>1
    <3> QED  BY <2>1, <3>5, <3>6 DEF RunInv
  <2> QED  BY <2>2, <2>3
<1> QED  BY <1>1, <1>3, <1>4 DEF ControlOK, Runs

LEMMA StepIsStoreStep ==
    ScannerInv /\ [Next]_vars => [StoreNext]_storeVars /\ ControlOK'
<1> SUFFICES ASSUME ScannerInv, [Next]_vars PROVE [StoreNext]_storeVars /\ ControlOK'
  OBVIOUS
<1>1. ControlOK  BY ScannerInvByParts
<1>2. ASSUME NEW i \in Instance, Step(i) \/ FaultStep(i)
      PROVE  [StoreNext]_storeVars /\ ControlOK'
  <2>1. Serves  BY <1>2, StepServes, FaultServes
  <2> QED  BY <1>1, <2>1 DEF Serves, ControlOK
<1>3. CASE ChainMoves
  BY <1>1, <1>3 DEF ChainMoves, ControlOK, Runs
<1>4. CASE TrackContract
  <2>1. PICK c \in Contract : tracked' = Append(tracked, c)  BY <1>4 DEF TrackContract
  <2>2. tracked' \in Seq(Contract) /\ Runs'  BY <1>4, <2>1, TrackContractKeeps DEF TrackContract
  <2> QED  BY <1>1, <1>4, <2>2 DEF TrackContract, ControlOK
<1>5. CASE UNCHANGED vars
  BY <1>1, <1>5 DEF vars, ControlOK, Runs
<1> QED  BY <1>2, <1>3, <1>4, <1>5 DEF Next

LEMMA ControlInitially == ScannerInit => ControlOK
  BY NoRunInv DEF ScannerInit, ControlOK, Runs, RunInv

LEMMA ScannerInvHolds == Spec => []ScannerInv
<1>1. ScannerInit => StoreInv /\ ControlOK
  BY StoreInitially, ControlInitially DEF ScannerInit
<1>2. ScannerInit => ScannerInv  BY <1>1, ScannerInvByParts
<1>3. ScannerInv /\ [Next]_vars => ScannerInv'
  <2>1. ScannerInv /\ [Next]_vars => ControlOK' /\ StoreInv'
    BY StepIsStoreStep, StoreStepKeeps DEF ScannerInv
  <2>2. ControlOK' /\ StoreInv' => ScannerInv'  BY ScannerInvByParts, PTL
  <2> QED  BY <2>1, <2>2
<1> QED  BY <1>2, <1>3, PTL DEF Spec

\* Whatever the runs of any number of processes have read, each is in a state its
\* next call can rely on: its contracts are still tracked, and the range it is
\* about to commit passes the repository's validation.
THEOREM ScannerTypes == Spec => []ScannerTypeOK
<1>1. ScannerInv => ScannerTypeOK  BY DEF ScannerInv
<1> QED  BY <1>1, ScannerInvHolds, PTL

\* The scanners of any number of processes implement the specification of the
\* repository: stale reads, lost answers, crashes and reorganizations lead to no
\* call of it that its specification does not have.
THEOREM ScannerImplementsStore == Spec => StoreSpec
<1>1. ScannerInit => StoreInit  BY DEF ScannerInit
<1>2. ScannerInv /\ [Next]_vars => [StoreNext]_storeVars  BY StepIsStoreStep
<1> QED  BY <1>1, <1>2, ScannerInvHolds, PTL DEF Spec, StoreSpec

\* The tables stay consistent under any number of scanners, with faults and
\* reorganizations at any point: the claims StoreSafety proves of every caller.
THEOREM ScannerSafety == Spec => []TablesAgree
<1> QED  BY ScannerImplementsStore, StoreSafety, PTL
=============================================================================
