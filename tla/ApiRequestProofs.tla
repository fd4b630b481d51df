--------------------------- MODULE ApiRequestProofs ---------------------------
(***************************************************************************)
(* What the wake retry of request.ts may cost, for every table of delays,  *)
(* every budget, every timeout and every lateness of the browser's timers. *)
(* Neither claim is inductive: that a repeated call is a read is known     *)
(* only while it sleeps, and an attempt adds to `elapsed` what the sleep   *)
(* before it has left of the budget.                                       *)
(***************************************************************************)
EXTENDS ApiRequest, TLAPS

ResultCode == {"", "ABORTED"} \cup {result.code : result \in AttemptResult}

Call == [method : Method, policy : BOOLEAN, phase : {"trying", "sleeping", "done"},
         retries : Nat, elapsed : Nat, sent : Nat, aborted : BOOLEAN, code : ResultCode]

\* A call that has been repeated, or is about to be, is a read with the policy.
OnlyReadsRepeat ==
    call.retries > 0 \/ call.phase = "sleeping" => call.policy /\ call.method = "GET"

\* One attempt more than sleeps, and no more sleeps than delays.
AttemptsCounted ==
    /\ call.sent = call.retries + 1
    /\ call.retries <= Len(Delays)
    /\ call.phase = "sleeping" => call.retries < Len(Delays)

\* A sleep fits the budget; what follows it adds one late timer, then an attempt.
TimeCounted ==
    /\ call.phase = "sleeping" => call.elapsed + Delays[call.retries + 1] <= Budget
    /\ call.phase = "trying" => call.elapsed <= Budget + MaxLate

CallInv ==
    /\ call \in Call
    /\ OnlyReadsRepeat
    /\ AttemptsCounted
    /\ TimeCounted
    /\ WaitIsBounded

LEMMA DelayIsNat == ASSUME NEW n \in Nat, n < Len(Delays) PROVE Delays[n + 1] \in Nat
BY RequestAssumption

LEMMA InitCallInv == CallInit => CallInv
<1> SUFFICES ASSUME CallInit PROVE CallInv
  OBVIOUS
<1>1. PICK method \in Method, policy \in BOOLEAN :
        call = [method |-> method, policy |-> policy, phase |-> "trying", retries |-> 0,
                elapsed |-> 0, sent |-> 1, aborted |-> FALSE, code |-> ""]
  BY DEF CallInit
<1>2. call \in Call
  BY <1>1 DEF Call, ResultCode
<1>3. call.phase = "trying" /\ call.retries = 0 /\ call.elapsed = 0 /\ call.sent = 1
  BY <1>1
<1>4. Len(Delays) \in Nat /\ Budget \in Nat /\ MaxLate \in Nat /\ Timeout \in Nat
  BY RequestAssumption
<1> QED
  BY <1>2, <1>3, <1>4
     DEF CallInv, OnlyReadsRepeat, AttemptsCounted, TimeCounted, WaitIsBounded

\* An attempt that ends begins a sleep that fits the budget, or ends the call.
LEMMA AttemptKeepsInv ==
  ASSUME CallInv, NEW result \in AttemptResult, NEW took \in 0..Timeout + MaxLate,
         AttemptEnds(result, took)
  PROVE  CallInv'
<1> DEFINE now == call.elapsed + took
<1>1. /\ call \in Call
      /\ call.phase = "trying"
      /\ took \in Nat
      /\ now \in Nat
      /\ now <= Budget + MaxLate + Timeout + MaxLate
  BY RequestAssumption DEF CallInv, Call, TimeCounted, AttemptEnds
<1>2. result.code \in ResultCode
  BY DEF ResultCode
<1>3. Len(Delays) \in Nat
  BY RequestAssumption
<1>4. CASE Retries(result, now)
  <2>1. call' = [call EXCEPT !.phase = "sleeping", !.elapsed = now]
    BY <1>4 DEF AttemptEnds
  <2>2. /\ call.policy /\ call.method = "GET"
        /\ call.retries < Len(Delays)
        /\ now + Delays[call.retries + 1] <= Budget
    BY <1>4 DEF Retries
  <2> QED
    BY <1>1, <1>3, <2>1, <2>2
       DEF CallInv, Call, OnlyReadsRepeat, AttemptsCounted, TimeCounted, WaitIsBounded
<1>5. CASE ~Retries(result, now)
  <2>1. call' = [call EXCEPT !.phase = "done", !.elapsed = now, !.code = result.code]
    BY <1>5 DEF AttemptEnds
  <2> QED
    BY <1>1, <1>2, <1>3, <2>1
       DEF CallInv, Call, OnlyReadsRepeat, AttemptsCounted, TimeCounted, WaitIsBounded
<1> QED
  BY <1>4, <1>5

\* A sleep that ends starts one attempt, late by at most one timer.
LEMMA WakingKeepsInv ==
  ASSUME CallInv, NEW late \in 0..MaxLate, SleepEnds(late)
  PROVE  CallInv'
<1> DEFINE next == call.elapsed + Delays[call.retries + 1] + late
<1>1. /\ call \in Call
      /\ call.phase = "sleeping"
      /\ call' = [call EXCEPT !.phase = "trying", !.retries = @ + 1, !.sent = @ + 1,
                              !.elapsed = next]
  BY DEF CallInv, SleepEnds
<1>2. call.retries \in Nat /\ call.retries < Len(Delays) /\ Len(Delays) \in Nat
  BY <1>1, RequestAssumption DEF CallInv, Call, AttemptsCounted
<1>3. Delays[call.retries + 1] \in Nat
  BY <1>2, DelayIsNat
<1>4. next \in Nat /\ next <= Budget + MaxLate
  <2>1. call.elapsed \in Nat
    BY <1>1 DEF Call
  <2>2. call.elapsed + Delays[call.retries + 1] <= Budget
    BY <1>1 DEF CallInv, TimeCounted
  <2>3. Budget \in Nat /\ MaxLate \in Nat /\ late \in Nat /\ late <= MaxLate
    BY RequestAssumption
  <2> QED
    BY <1>3, <2>1, <2>2, <2>3
<1> HIDE DEF next
<1>5. /\ call'.phase = "trying" /\ call'.method = call.method /\ call'.policy = call.policy
      /\ call'.retries = call.retries + 1 /\ call'.sent = call.sent + 1
      /\ call'.elapsed = next
  BY <1>1 DEF Call
<1>6. call' \in Call
  <2>1. call.sent + 1 \in Nat /\ call.retries + 1 \in Nat
    BY <1>1 DEF Call
  <2> QED
    BY <1>1, <1>4, <2>1 DEF Call
<1>7. OnlyReadsRepeat' /\ AttemptsCounted'
  BY <1>1, <1>2, <1>5 DEF CallInv, Call, OnlyReadsRepeat, AttemptsCounted
<1>8. TimeCounted' /\ WaitIsBounded'
  BY <1>4, <1>5, RequestAssumption DEF TimeCounted, WaitIsBounded
<1> QED
  BY <1>6, <1>7, <1>8 DEF CallInv

LEMMA StepKeepsInv == CallInv /\ [CallNext]_call => CallInv'
<1> SUFFICES ASSUME CallInv, [CallNext]_call PROVE CallInv'
  OBVIOUS
<1>1. ASSUME NEW result \in AttemptResult, NEW took \in 0..Timeout + MaxLate,
             AttemptEnds(result, took)
      PROVE  CallInv'
  BY <1>1, AttemptKeepsInv
<1>2. ASSUME NEW late \in 0..MaxLate, SleepEnds(late) PROVE CallInv'
  BY <1>2, WakingKeepsInv
<1>3. CASE SleepIsCancelled
  BY <1>3 DEF SleepIsCancelled, CallInv, Call, ResultCode, OnlyReadsRepeat,
              AttemptsCounted, TimeCounted, WaitIsBounded
<1>4. CASE Abort
  BY <1>4 DEF Abort, CallInv, Call, OnlyReadsRepeat, AttemptsCounted, TimeCounted, WaitIsBounded
<1>5. CASE UNCHANGED call
  BY <1>5 DEF CallInv, Call, OnlyReadsRepeat, AttemptsCounted, TimeCounted, WaitIsBounded
<1> QED
  BY <1>1, <1>2, <1>3, <1>4, <1>5 DEF CallNext

\* A write, and a read of a client without the policy, is sent once; a read is
\* sent once more than there are delays at most, and ends within the budget but
\* for the last attempt and two late timers: the loop of createRequest.
THEOREM RetrySafety == CallSpec => [](RetriesAreBounded /\ call.sent <= Len(Delays) + 1)
<1>1. CallInv => RetriesAreBounded /\ call.sent <= Len(Delays) + 1
  <2> SUFFICES ASSUME CallInv PROVE RetriesAreBounded /\ call.sent <= Len(Delays) + 1
    OBVIOUS
  <2>1. call.retries \in Nat /\ Len(Delays) \in Nat /\ call.sent = call.retries + 1
    BY RequestAssumption DEF CallInv, Call, AttemptsCounted
  <2>2. WritesAreSentOnce
    BY <2>1 DEF CallInv, OnlyReadsRepeat, WritesAreSentOnce
  <2> QED
    BY <2>1, <2>2 DEF CallInv, AttemptsCounted, RetriesAreBounded
<1> QED
  BY InitCallInv, StepKeepsInv, <1>1, PTL DEF CallSpec
=============================================================================
