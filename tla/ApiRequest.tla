------------------------------ MODULE ApiRequest ------------------------------
(***************************************************************************)
(* One call of the API client: what its answer is turned into (request.ts, *)
(* client.ts, writeOutcome.ts) and the loop in which a read waits out a    *)
(* sleeping API.                                                           *)
(*                                                                         *)
(* An answer is a status and what its body holds, as far as the calls tell *)
(* bodies apart: an error code of the API, a wallet row or the row of      *)
(* another wallet, a page or the description of another page, nothing, or  *)
(* something that is none of these. An answer with status 0 never came.    *)
(***************************************************************************)
EXTENDS Naturals, Sequences

CONSTANTS Timeout,   \* DEFAULT_TIMEOUT_MS, in the unit of the other three
          Delays,    \* WAKE_RETRY_DELAYS_MS
          Budget,    \* WAKE_RETRY_BUDGET_MS
          MaxLate    \* how late a browser fires a timer (bound of the model)

ASSUME RequestAssumption ==
    /\ Timeout \in Nat /\ Budget \in Nat /\ MaxLate \in Nat
    /\ Delays \in Seq(Nat)

Failed(code, status) == [code |-> code, status |-> status, data |-> "none"]
Returned(data, status) == [code |-> "", status |-> status, data |-> data]
Unexpected(status) == Failed("UNEXPECTED_RESPONSE", status)

ServerErrorCodes ==
    {"INVALID_JSON", "VALIDATION_ERROR", "RESOURCE_CONFLICT", "RESOURCE_NOT_FOUND",
     "INTERNAL_SERVER_ERROR", "SERVICE_UNAVAILABLE", "INVALID_CREDENTIALS",
     "UNAUTHENTICATED", "USER_CONFLICT", "RATE_LIMITED"}

NoVerdict == {"TIMEOUT", "ABORTED", "NETWORK_ERROR"}

ToApiError(answer) ==
    IF answer.body \in ServerErrorCodes THEN Failed(answer.body, answer.status)
                                        ELSE Unexpected(answer.status)

\* The end of attemptOnce; guard is the set of bodies the call accepts.
AttemptOnce(answer, guard) ==
    CASE answer.status = 0 -> Failed(answer.body, 0)
      [] answer.status > 0 /\ answer.status \notin 200..299 -> ToApiError(answer)
      [] answer.status = 204 \/ (answer.status \in 200..299 /\ answer.body = "none") ->
            Returned("none", answer.status)
      [] OTHER -> IF answer.body \in guard THEN Returned(answer.body, answer.status)
                                           ELSE Unexpected(answer.status)

RequireData(result) ==
    IF result.code = "" /\ result.data = "none" THEN Unexpected(0) ELSE result

RequirePagination(result) ==
    IF result.code = "" /\ result.data # "page" THEN Unexpected(0) ELSE result

AboutTarget(result) ==
    IF result.code = "" /\ result.data = "other row" THEN Unexpected(200) ELSE result

ListWallets(answer) ==
    RequirePagination(RequireData(AttemptOnce(answer, {"page", "other page"})))
CreateWallet(answer) == RequireData(AttemptOnce(answer, {"row", "other row"}))
UpdateWalletLabel(answer) ==
    AboutTarget(RequireData(AttemptOnce(answer, {"row", "other row"})))
GetWallet(answer) ==
    AboutTarget(RequireData(AttemptOnce(answer, {"row", "other row"})))

DeleteWalletOnAny2xx(answer) == AttemptOnce(answer, {"row", "other row"})
DeleteWallet(answer) ==
    LET result == AttemptOnce(answer, {"row", "other row"})
    IN  IF result.code = "" /\ ~(result.status = 204 /\ result.data = "none")
        THEN Unexpected(result.status) ELSE result

IsUnconfirmedWrite(error) ==
    \/ error.code \in NoVerdict
    \/ /\ error.code = "UNEXPECTED_RESPONSE"
       /\ error.status \in {0, 502, 504} \union 200..299

IsUnconfirmedRemoval(error) ==
    IsUnconfirmedWrite(error) \/ (error.status = 404 /\ error.code # "RESOURCE_NOT_FOUND")

IsWakeFailure(error) ==
    error.code \in {"TIMEOUT", "NETWORK_ERROR"} \/ error.status \in {502, 503, 504}

-----------------------------------------------------------------------------
(* The loop of createRequest. A call waits for an attempt, sleeps between   *)
(* two attempts, or is done; `retries` counts the sleeps and `sent` the     *)
(* attempts.                                                                *)

VARIABLE call

Method == {"GET", "POST", "PATCH", "DELETE"}

CallInit ==
    \E method \in Method, policy \in BOOLEAN :
        call = [method |-> method, policy |-> policy, phase |-> "trying", retries |-> 0,
                elapsed |-> 0, sent |-> 1, aborted |-> FALSE, code |-> ""]

RetriesAnyMethod(error, now) ==
    /\ call.policy
    /\ IsWakeFailure(error)
    /\ call.retries < Len(Delays)
    /\ now + Delays[call.retries + 1] <= Budget

RetriesBeyondBudget(error, now) ==
    /\ call.policy /\ call.method = "GET"
    /\ IsWakeFailure(error)
    /\ call.retries < Len(Delays)

Retries(error, now) ==
    /\ call.policy /\ call.method = "GET"
    /\ IsWakeFailure(error)
    /\ call.retries < Len(Delays)
    /\ now + Delays[call.retries + 1] <= Budget

\* The attempt is answered, fails or runs into its timer after `took`.
AttemptEnds(error, took) ==
    /\ call.phase = "trying"
    /\ took <= Timeout + MaxLate
    /\ error.code = "TIMEOUT" => took >= Timeout
    /\ error.code = "ABORTED" => call.aborted
    /\ LET now == call.elapsed + took
       IN  call' = IF Retries(error, now)
                   THEN [call EXCEPT !.phase = "sleeping", !.elapsed = now]
                   ELSE [call EXCEPT !.phase = "done", !.elapsed = now, !.code = error.code]

\* The timer of defaultSleep fires, unless the caller has gone before.
SleepEnds(late) ==
    /\ call.phase = "sleeping"
    /\ ~call.aborted
    /\ call' = [call EXCEPT !.phase = "trying", !.retries = @ + 1, !.sent = @ + 1,
                            !.elapsed = @ + Delays[call.retries + 1] + late]

SleepIsCancelled ==
    /\ call.phase = "sleeping"
    /\ call.aborted
    /\ call' = [call EXCEPT !.phase = "done", !.code = "ABORTED"]

\* The screen that asked is gone, or its identity is.
Abort ==
    /\ call.phase # "done"
    /\ ~call.aborted
    /\ call' = [call EXCEPT !.aborted = TRUE]

\* The results an attempt can have, as far as the loop tells them apart.
AttemptResult ==
    {Returned("row", 200), Failed("SERVICE_UNAVAILABLE", 503), Failed("UNAUTHENTICATED", 401),
     Unexpected(502)}
    \union {Failed(code, 0) : code \in NoVerdict}

CallNext ==
    \/ \E result \in AttemptResult, took \in 0..Timeout + MaxLate : AttemptEnds(result, took)
    \/ \E late \in 0..MaxLate : SleepEnds(late)
    \/ SleepIsCancelled
    \/ Abort

CallSpec == CallInit /\ [][CallNext]_call

(* A write is sent at most once, and so is a read of a client that was not  *)
(* given the wake policy: request.ts, "Only reads retry".                   *)
WritesAreSentOnce == (call.method # "GET" \/ ~call.policy) => call.sent = 1

(* A read ends within the budget, but for the attempt that was started last *)
(* and the lateness of two timers, the one of the sleep before it and its   *)
(* own: request.ts, WAKE_RETRY_BUDGET_MS.                                   *)
WaitIsBounded == call.elapsed <= Budget + MaxLate + Timeout + MaxLate

(* What repeating may cost: nothing for a write, a bounded wait for a read.  *)
RetriesAreBounded == WritesAreSentOnce /\ WaitIsBounded
=============================================================================
