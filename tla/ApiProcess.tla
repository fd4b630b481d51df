------------------------------ MODULE ApiProcess ------------------------------
(***************************************************************************)
(* One API process from start to exit: run and serve (src/backend/cmd/api/ *)
(* run.go), the optional indexer (indexer.go), and the periodic workers    *)
(* (src/backend/internal/worker/worker.go) that share the database pool    *)
(* and the RPC client with the request handlers.                           *)
(*                                                                         *)
(* The main goroutine, the loop goroutine of every worker and the request  *)
(* handlers interleave. A timer may fire at any moment it is awaited. A    *)
(* job may ignore the end of its context, and so may a handler. Not        *)
(* modelled: configuration errors before the pool is opened, and an error  *)
(* of closing the pool, which only sets the exit code.                     *)
(***************************************************************************)
EXTENDS Integers, FiniteSets

CONSTANT Request        \* request handlers

Worker == {"indexer", "purge"}

VARIABLES
    main,       \* where run stands
    failed,     \* runErr / serveErr is not nil: the process will exit with 1
    pool,       \* the database pool
    client,     \* the RPC client of the indexer
    loop,       \* the loop goroutine of a worker
    cancelled,  \* the loop's context is done
    tick,       \* a tick lies in the ticker's channel, which holds one
    handlers,   \* requests being handled
    signalled   \* SIGTERM or SIGINT has cancelled the process context

vars == <<main, failed, pool, client, loop, cancelled, tick, handlers, signalled>>

Main == {"open", "startIndexer", "startPurge", "serve", "drain",
         "stopIndexer", "waitIndexer", "stopPurge", "waitPurge", "close", "exited"}

\* "none": Start was not called, for the indexer also because it is disabled.
Loop == {"none", "select", "run", "done"}

Resource == {"unopened", "open", "closed"}

ProcessInit ==
    /\ main = "open" /\ failed = FALSE
    /\ pool = "unopened" /\ client = "unopened"
    /\ loop = [w \in Worker |-> "none"]
    /\ cancelled = [w \in Worker |-> FALSE]
    /\ tick = [w \in Worker |-> FALSE]
    /\ handlers = {}
    /\ signalled = FALSE

loopVars == <<loop, cancelled, tick>>

ReturnWithoutClosing == main' = "exited" /\ failed' = TRUE

\* The deferred close of the pool follows every return of run.
Return == main' = "close" /\ failed' = TRUE

-----------------------------------------------------------------------------
(* Startup. *)

\* The pool, its ping and the listener. Without any of them run returns.
OpenPool ==
    /\ main = "open"
    /\ pool' = "open"
    /\ \/ main' = "startIndexer" /\ UNCHANGED failed
       \/ Return
    /\ UNCHANGED <<client, loopVars, handlers, signalled>>

\* Worker.Start.
StartLoop(w) ==
    /\ loop[w] = "none"
    /\ loop' = [loop EXCEPT ![w] = "select"]
    /\ UNCHANGED <<cancelled, tick>>

\* startIndexer: without EVM_RPC_URL there is no indexer, with an unusable endpoint
\* no client, and a failed reset of the checkpoints closes it.
StartIndexer ==
    /\ main = "startIndexer"
    /\ \/ main' = "startPurge" /\ UNCHANGED <<failed, client, loopVars>>
       \/ main' = "startPurge" /\ client' = "open" /\ StartLoop("indexer") /\ UNCHANGED failed
       \/ Return /\ client' \in {"unopened", "closed"} /\ UNCHANGED loopVars
    /\ UNCHANGED <<pool, handlers, signalled>>

StartPurge ==
    /\ main = "startPurge"
    /\ main' = "serve"
    /\ StartLoop("purge")
    /\ UNCHANGED <<failed, pool, client, handlers, signalled>>

-----------------------------------------------------------------------------
(* Serving and draining. *)

Accept(r) ==
    /\ main = "serve"
    /\ r \notin handlers
    /\ handlers' = handlers \cup {r}
    /\ UNCHANGED <<main, failed, pool, client, loopVars, signalled>>

\* A handler returns; forced to by no one, not even by srv.Close.
Finish(r) ==
    /\ r \in handlers /\ main # "exited"
    /\ handlers' = handlers \ {r}
    /\ UNCHANGED <<main, failed, pool, client, loopVars, signalled>>

Signal ==
    /\ ~signalled /\ main # "exited"
    /\ signalled' = TRUE
    /\ UNCHANGED <<main, failed, pool, client, loopVars, handlers>>

\* srv.Serve returned on its own. Nothing waits for the handlers then.
ServeFails ==
    /\ main = "serve"
    /\ main' = "stopIndexer" /\ failed' = TRUE
    /\ UNCHANGED <<pool, client, loopVars, handlers, signalled>>

BeginDrain ==
    /\ main = "serve" /\ signalled
    /\ main' = "drain"
    /\ UNCHANGED <<failed, pool, client, loopVars, handlers, signalled>>

UndrainedDone ==
    /\ main = "drain"
    /\ main' = "stopIndexer"
    /\ UNCHANGED <<failed, pool, client, loopVars, handlers, signalled>>

Drained ==
    /\ main = "drain" /\ handlers = {}
    /\ main' = "stopIndexer"
    /\ UNCHANGED <<failed, pool, client, loopVars, handlers, signalled>>

\* The grace period ended: srv.Close, and the handlers are left behind.
GraceExpires ==
    /\ main = "drain" /\ handlers # {}
    /\ main' = "stopIndexer" /\ failed' = TRUE
    /\ UNCHANGED <<pool, client, loopVars, handlers, signalled>>

-----------------------------------------------------------------------------
(* Stopping the workers, in the order indexer, purge, pool. *)

StopPC(w) == IF w = "indexer" THEN "stopIndexer" ELSE "stopPurge"
WaitPC(w) == IF w = "indexer" THEN "waitIndexer" ELSE "waitPurge"
AfterPC(w) == IF w = "indexer" THEN "stopPurge" ELSE "close"

\* indexerWorker.Stop closes the client after the worker's handshake; the purge
\* job has no client.
Released(w) == client' = IF w = "indexer" /\ client = "open" THEN "closed" ELSE client

StopWithoutWaiting(w) ==
    /\ main = StopPC(w)
    /\ main' = AfterPC(w)
    /\ cancelled' = [cancelled EXCEPT ![w] = loop[w] # "none"]
    /\ Released(w)
    /\ UNCHANGED <<failed, pool, loop, tick, handlers, signalled>>

\* Worker.Stop up to its wait. Before Start it is a no-op.
Stop(w) ==
    /\ main = StopPC(w)
    /\ main' = IF loop[w] = "none" THEN AfterPC(w) ELSE WaitPC(w)
    /\ cancelled' = [cancelled EXCEPT ![w] = loop[w] # "none"]
    /\ UNCHANGED <<failed, pool, client, loop, tick, handlers, signalled>>

Stopped(w) ==
    /\ main = WaitPC(w) /\ loop[w] = "done"
    /\ main' = AfterPC(w)
    /\ Released(w)
    /\ UNCHANGED <<failed, pool, loopVars, handlers, signalled>>

NoStopTimeout(w) == FALSE /\ UNCHANGED vars

\* ErrStopTimeout: the run in flight is left behind.
StopTimesOut(w) ==
    /\ main = WaitPC(w) /\ loop[w] # "done"
    /\ main' = AfterPC(w) /\ failed' = TRUE
    /\ Released(w)
    /\ UNCHANGED <<pool, loopVars, handlers, signalled>>

\* The deferred close, and the end of every goroutine with the process.
ClosePool ==
    /\ main = "close" /\ pool = "open"
    /\ pool' = "closed"
    /\ UNCHANGED <<main, failed, client, loopVars, handlers, signalled>>

Exit ==
    /\ main = "close" /\ pool = "closed"
    /\ main' = "exited"
    /\ UNCHANGED <<failed, pool, client, loopVars, handlers, signalled>>

-----------------------------------------------------------------------------
(* The loop of a worker. *)

OthersUnchanged == UNCHANGED <<main, failed, pool, client, handlers, signalled>>

Ticks(w) ==
    /\ loop[w] \in {"select", "run"} /\ main # "exited"
    /\ ~tick[w]
    /\ tick' = [tick EXCEPT ![w] = TRUE]
    /\ UNCHANGED <<loop, cancelled>> /\ OthersUnchanged

\* select takes either channel that is ready, so a run may begin after the cancel.
BeginRun(w) ==
    /\ loop[w] = "select" /\ tick[w] /\ main # "exited"
    /\ loop' = [loop EXCEPT ![w] = "run"]
    /\ tick' = [tick EXCEPT ![w] = FALSE]
    /\ UNCHANGED cancelled /\ OthersUnchanged

\* A result, an error, the end of the run timeout, or a panic that is recovered.
EndRun(w) ==
    /\ loop[w] = "run" /\ main # "exited"
    /\ loop' = [loop EXCEPT ![w] = "select"]
    /\ UNCHANGED <<cancelled, tick>> /\ OthersUnchanged

LeaveLoop(w) ==
    /\ loop[w] = "select" /\ cancelled[w] /\ main # "exited"
    /\ loop' = [loop EXCEPT ![w] = "done"]
    /\ UNCHANGED <<cancelled, tick>> /\ OthersUnchanged

-----------------------------------------------------------------------------
WaitingStep ==
    \/ Drained \/ GraceExpires
    \/ \E w \in Worker : Stop(w) \/ Stopped(w) \/ StopTimesOut(w)

MainStep ==
    \/ OpenPool \/ StartIndexer \/ StartPurge
    \/ ServeFails \/ BeginDrain
    \/ WaitingStep
    \/ ClosePool \/ Exit

LoopStep(w) == Ticks(w) \/ BeginRun(w) \/ EndRun(w) \/ LeaveLoop(w)

Next ==
    \/ MainStep \/ Signal
    \/ \E r \in Request : Accept(r) \/ Finish(r)
    \/ \E w \in Worker : LoopStep(w)

Spec == ProcessInit /\ [][Next]_vars

\* The main goroutine is scheduled, and every timer it waits for fires. Nothing is
\* assumed of jobs, handlers and signals.
ShutdownSpec ==
    /\ Spec
    /\ WF_vars(OpenPool) /\ WF_vars(StartIndexer) /\ WF_vars(StartPurge)
    /\ WF_vars(BeginDrain) /\ WF_vars(WaitingStep) /\ WF_vars(ClosePool \/ Exit)

-----------------------------------------------------------------------------
(* Properties. *)

\* Types, and the lifecycle of what a process owns: the pool is open from start to
\* exit and closed by every exit, a loop is cancelled only once it was started, and
\* nothing runs before the pool is open.
ProcessTypeOK ==
    /\ main \in Main /\ failed \in BOOLEAN /\ signalled \in BOOLEAN
    /\ pool \in Resource /\ client \in Resource
    /\ loop \in [Worker -> Loop]
    /\ cancelled \in [Worker -> BOOLEAN]
    /\ tick \in [Worker -> BOOLEAN]
    /\ handlers \subseteq Request
    /\ pool = "unopened" <=> main = "open"
    /\ main = "exited" => pool = "closed"
    /\ \A w \in Worker : cancelled[w] => loop[w] # "none"

InUse(w) == loop[w] \in {"select", "run"}

\* docs/architecture.md, Lifecycle: the pool and the client close after their users.
\* Whoever is left behind with a closed pool or client makes the exit code 1: a
\* clean exit means that nothing was cut off, also when a run began after the cancel.
ReleasedAfterUse ==
    ~failed =>
        /\ pool = "closed" => handlers = {} /\ \A w \in Worker : ~InUse(w)
        /\ client = "closed" => ~InUse("indexer")

\* While requests are handled on the way to a clean exit both workers of a process
\* that has them run on: they stop after the drain.
WorkersOutliveTraffic ==
    handlers # {} /\ ~failed => loop["purge"] # "none" /\ \A w \in Worker : ~cancelled[w]

\* A signal ends the process, whatever jobs and handlers do.
ShutdownEnds == signalled ~> main = "exited"
=============================================================================
