--------------------------- MODULE ApiProcessProofs ---------------------------
(***************************************************************************)
(* The safety of ApiProcess for any set of requests. ReleasedAfterUse and  *)
(* WorkersOutliveTraffic say nothing about where run stands; Lifecycle     *)
(* ties them to it: what has been started, drained and stopped at each     *)
(* point of run, unless something was left behind on the way.              *)
(***************************************************************************)
EXTENDS ApiProcess, TLAPS

Starting == {"open", "startIndexer", "startPurge"}
AfterDrain == {"stopIndexer", "waitIndexer", "stopPurge", "waitPurge", "close", "exited"}
AfterIndexer == {"stopPurge", "waitPurge", "close", "exited"}
AfterPurge == {"close", "exited"}

Lifecycle ==
    /\ main \in Starting => handlers = {}
    /\ main \in {"open", "startIndexer"} => client = "unopened" /\ loop["indexer"] = "none"
    /\ main \in Starting => loop["purge"] = "none"
    /\ main \notin Starting /\ ~failed => loop["purge"] # "none"
    /\ \A w \in Worker : loop[w] = "done" => cancelled[w]
    /\ cancelled["indexer"] => main \in AfterIndexer \cup {"waitIndexer"}
    /\ cancelled["purge"] => main \in AfterPurge \cup {"waitPurge"}
    /\ ~failed /\ main \in AfterDrain => handlers = {}
    /\ ~failed /\ main \in AfterIndexer => ~InUse("indexer")
    /\ ~failed /\ main \in AfterPurge => ~InUse("purge")
    /\ ~failed /\ client = "closed" => main \in AfterIndexer
    /\ pool = "closed" => main \in AfterPurge

ProcessInv == ProcessTypeOK /\ Lifecycle

LEMMA InitProcessInv == ProcessInit => ProcessInv
BY DEF ProcessInit, ProcessInv, ProcessTypeOK, Lifecycle, Main, Resource, Loop, Worker, Starting,
       AfterDrain, AfterIndexer, AfterPurge, InUse

\* Every step of the main goroutine keeps the lifecycle.
LEMMA MainStepKeepsInv == ProcessInv /\ MainStep => ProcessInv'
<1> SUFFICES ASSUME ProcessInv, MainStep PROVE ProcessInv'
  OBVIOUS
<1> USE DEF ProcessInv, ProcessTypeOK, Lifecycle, Main, Resource, Loop, Worker, Starting,
            AfterDrain, AfterIndexer, AfterPurge, InUse, loopVars
<1>1. CASE OpenPool
  BY <1>1 DEF OpenPool, Return
<1>2. CASE StartIndexer
  BY <1>2 DEF StartIndexer, Return, StartLoop
<1>3. CASE StartPurge
  BY <1>3 DEF StartPurge, StartLoop
<1>4. CASE ServeFails
  BY <1>4 DEF ServeFails
<1>5. CASE BeginDrain
  BY <1>5 DEF BeginDrain
<1>6. CASE Drained \/ GraceExpires
  BY <1>6 DEF Drained, GraceExpires
<1>7. ASSUME NEW w \in Worker, Stop(w) PROVE ProcessInv'
  BY <1>7 DEF Stop, StopPC, WaitPC, AfterPC
<1>8. ASSUME NEW w \in Worker, Stopped(w) PROVE ProcessInv'
  BY <1>8 DEF Stopped, WaitPC, AfterPC, Released
<1>9. ASSUME NEW w \in Worker, StopTimesOut(w) PROVE ProcessInv'
  BY <1>9 DEF StopTimesOut, WaitPC, AfterPC, Released
<1>10. CASE ClosePool
  BY <1>10 DEF ClosePool
<1>11. CASE Exit
  BY <1>11 DEF Exit
<1> QED
  BY <1>1, <1>2, <1>3, <1>4, <1>5, <1>6, <1>7, <1>8, <1>9, <1>10, <1>11 DEF MainStep, WaitingStep

\* Signals, requests and the loops of the workers keep it too.
LEMMA OtherStepKeepsInv ==
  ASSUME ProcessInv,
         \/ Signal
         \/ \E r \in Request : Accept(r) \/ Finish(r)
         \/ \E w \in Worker : LoopStep(w)
  PROVE  ProcessInv'
<1> USE DEF ProcessInv, ProcessTypeOK, Lifecycle, Main, Resource, Loop, Worker, Starting,
            AfterDrain, AfterIndexer, AfterPurge, InUse, loopVars
<1>1. CASE Signal
  BY <1>1 DEF Signal
<1>2. ASSUME NEW r \in Request, Accept(r) \/ Finish(r) PROVE ProcessInv'
  BY <1>2 DEF Accept, Finish
<1>3. ASSUME NEW w \in Worker, LoopStep(w) PROVE ProcessInv'
  <2>1. CASE Ticks(w)
    BY <1>3, <2>1 DEF Ticks, OthersUnchanged
  <2>2. CASE BeginRun(w)
    BY <1>3, <2>2 DEF BeginRun, OthersUnchanged
  <2>3. CASE EndRun(w)
    BY <1>3, <2>3 DEF EndRun, OthersUnchanged
  <2>4. CASE LeaveLoop(w)
    BY <1>3, <2>4 DEF LeaveLoop, OthersUnchanged
  <2> QED
    BY <1>3, <2>1, <2>2, <2>3, <2>4 DEF LoopStep
<1> QED
  BY <1>1, <1>2, <1>3

LEMMA ProcessInvHolds == Spec => []ProcessInv
<1>1. ProcessInv /\ [Next]_vars => ProcessInv'
  <2> SUFFICES ASSUME ProcessInv, [Next]_vars PROVE ProcessInv'
    OBVIOUS
  <2>1. CASE Next
    BY <2>1, MainStepKeepsInv, OtherStepKeepsInv DEF Next
  <2>2. CASE UNCHANGED vars
    BY <2>2 DEF vars, loopVars, ProcessInv, ProcessTypeOK, Lifecycle, InUse
  <2> QED
    BY <2>1, <2>2
<1> QED
  BY InitProcessInv, <1>1, PTL DEF Spec

\* The pool is open from start to exit and closed by every exit, and only a loop that was
\* started is cancelled, for any number of requests in any order of the steps of run,
\* worker.go and the request handlers.
THEOREM ProcessTypes == Spec => []ProcessTypeOK
<1>1. ProcessInv => ProcessTypeOK  BY DEF ProcessInv
<1> QED  BY <1>1, ProcessInvHolds, PTL

\* A process that exits cleanly has released its pool and its RPC client after
\* their last user, also when a run of a worker began after the cancel.
THEOREM ProcessReleases == Spec => []ReleasedAfterUse
<1>1. ProcessInv => ReleasedAfterUse
  BY DEF ProcessInv, ProcessTypeOK, Lifecycle, ReleasedAfterUse, InUse, Main, Resource, Loop,
         Worker, Starting, AfterDrain, AfterIndexer, AfterPurge
<1> QED  BY <1>1, ProcessInvHolds, PTL

\* While a request is handled on the way to a clean exit, no worker has been cancelled
\* and the purge loop has been started: the workers stop after the drain.
THEOREM ProcessDrainsFirst == Spec => []WorkersOutliveTraffic
<1>1. ProcessInv => WorkersOutliveTraffic
  BY DEF ProcessInv, ProcessTypeOK, Lifecycle, WorkersOutliveTraffic, InUse, Main, Resource,
         Loop, Worker, Starting, AfterDrain, AfterIndexer, AfterPurge
<1> QED  BY <1>1, ProcessInvHolds, PTL
=============================================================================
