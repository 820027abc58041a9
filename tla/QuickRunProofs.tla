--------------------------- MODULE QuickRunProofs --------------------------
(***************************************************************************)
(* Proofs about one call of quick_run_docker, for every retry budget,     *)
(* every set of answers and every wait: the result record it returns is   *)
(* that of a completed job, and every state is well typed.                *)
(***************************************************************************)
EXTENDS QuickRun, TLAPS

-----------------------------------------------------------------------------
(* The result record is fetched only for a job that completed.             *)

\* A probe of wait_for_job runs only inside the wait.
ProbeInWait == wpc = "probe" => qpc = "wait"

\* A probe that decoded a final status decoded the server's status.
ProbedFinal ==
    wpc = "probe" /\ tpc = "done" /\ result = "ok" /\ body \in W!FinalStatuses
        => body = jobStatus

\* From the result fetch on, the job has completed on the server.
CompletedFromResult ==
    qpc \in {"result", "returned_result"} => jobStatus = "completed"

\* What get_job_result decoded is the result record.
ResultDecoded ==
    /\ qpc = "result" /\ tpc = "done" /\ result = "ok" => body = "result"
    /\ qpc = "returned_result" => body = "result"

RInv == W!ReturnedMatchesServer /\ ProbeInWait /\ ProbedFinal
        /\ CompletedFromResult /\ ResultDecoded

LEMMA InitRInv == Init => RInv
BY DEF Init, RInv, W!ReturnedMatchesServer, ProbeInWait, ProbedFinal,
       CompletedFromResult, ResultDecoded

\* An attempt that decodes b sets body to b exactly when it succeeds, and
\* leaves wpc, qpc and the server's job alone.
LEMMA AttemptDecodes ==
    ASSUME NEW b, T!AttemptStep(b)
    PROVE  /\ tpc' = "done" /\ result' = "ok" => body' = b
           /\ tpc' = "attempt" \/ result' # "ok" \/ body' = b
<1>1. PICK o \in T!Outcomes :
          \E d \in T!AttemptTime(o) :
              \/ T!RetryAttempt(o, d)
              \/ T!ExhaustAttempt(o, d)
              \/ T!FinalAttempt(o, d, b)
  BY DEF T!AttemptStep
<1>. PICK d \in T!AttemptTime(o) :
          \/ T!RetryAttempt(o, d)
          \/ T!ExhaustAttempt(o, d)
          \/ T!FinalAttempt(o, d, b)
  BY <1>1
<1>. QED
  BY DEF T!RetryAttempt, T!ExhaustAttempt, T!FinalAttempt, T!Attempted

\* W's transport decodes like this module's: the two differ in Bodies only.
LEMMA ProbeDecodes ==
    ASSUME W!ProbeAttempt
    PROVE  tpc' = "attempt" \/ result' # "ok" \/ body' = jobStatus
<1>1. PICK o \in W!T!Outcomes :
          \E d \in W!T!AttemptTime(o) :
              \/ W!T!RetryAttempt(o, d)
              \/ W!T!ExhaustAttempt(o, d)
              \/ W!T!FinalAttempt(o, d, jobStatus)
  BY DEF W!ProbeAttempt, W!T!AttemptStep
<1>. PICK d \in W!T!AttemptTime(o) :
          \/ W!T!RetryAttempt(o, d)
          \/ W!T!ExhaustAttempt(o, d)
          \/ W!T!FinalAttempt(o, d, jobStatus)
  BY <1>1
<1>. QED
  BY DEF W!T!RetryAttempt, W!T!ExhaustAttempt, W!T!FinalAttempt,
         W!T!Attempted

LEMMA WaitingRInv == RInv /\ Waiting => RInv'
<1> SUFFICES ASSUME RInv, Waiting PROVE RInv'
    OBVIOUS
<1>. USE DEF RInv, W!ReturnedMatchesServer, ProbeInWait, ProbedFinal,
             CompletedFromResult, ResultDecoded, qvars
<1>1. qpc = "wait" /\ UNCHANGED qvars /\ W!Waiter
  BY DEF Waiting, qvars
<1>2. CASE W!LoopProbe
  BY <1>1, <1>2 DEF W!LoopProbe, W!T!Request
<1>3. CASE W!LoopTimeout \/ W!ProbeFailed
  BY <1>1, <1>3 DEF W!LoopTimeout, W!ProbeFailed
<1>4. CASE W!ProbeAttempt
  BY <1>1, <1>4, ProbeDecodes DEF W!ProbeAttempt, W!wvars
<1>5. CASE W!Observe
  <2>1. wpc' = "returned" => body \in W!FinalStatuses
    BY <1>5 DEF W!Observe, W!TerminalStatuses, W!FinalStatuses
  <2>. QED
    BY <1>1, <1>5, <2>1 DEF W!Observe
<1>. QED  BY <1>1, <1>2, <1>3, <1>4, <1>5 DEF W!Waiter

LEMMA NextRInv == RInv /\ [Next]_vars => RInv'
<1> SUFFICES ASSUME RInv, [Next]_vars PROVE RInv'
    OBVIOUS
<1>. USE DEF RInv, W!ReturnedMatchesServer, ProbeInWait, ProbedFinal,
             CompletedFromResult, ResultDecoded, qvars
<1>1. CASE Construct
  BY <1>1 DEF Construct, T!Request
<1>2. CASE SubmitAttempt
  BY <1>2 DEF SubmitAttempt
<1>3. CASE Submitted
  BY <1>3 DEF Submitted
<1>4. CASE Waiting
  BY <1>4, WaitingRInv
\* The result is fetched only after a returned wait for a completed job.
<1>5. CASE Waited
  <2>1. UNCHANGED <<wpc, job, jobStatus>> /\ wpc \in W!Ended
    BY <1>5 DEF Waited
  <2>2. CASE qpc' = "result"
    <3>1. wpc = "returned" /\ job = "completed" /\ T!Request("GET")
      BY <1>5, <2>2 DEF Waited
    <3>2. tpc' = "attempt" /\ jobStatus' = "completed"
      BY <2>1, <3>1 DEF T!Request
    <3>. QED  BY <2>1, <2>2, <3>2 DEF W!Ended
  <2>3. CASE qpc' # "result"
    <3>1. qpc' = "raised"
      BY <1>5, <2>3 DEF Waited
    <3>. QED  BY <2>1, <3>1 DEF W!Ended
  <2>. QED  BY <2>2, <2>3
<1>6. CASE ResultAttempt
  BY <1>6, AttemptDecodes DEF ResultAttempt, qvars
<1>7. CASE ResultReturned
  BY <1>7 DEF ResultReturned
<1>8. CASE Tick
  BY <1>8 DEF Tick, W!Tick, W!wvars, qvars
\* The server moves only a job that is not final.
<1>9. CASE ServerStep
  BY <1>9 DEF ServerStep, W!ServerStep, W!wvars, qvars, W!FinalStatuses
<1>10. CASE UNCHANGED vars
  BY <1>10 DEF vars
<1>. QED
  BY <1>1, <1>2, <1>3, <1>4, <1>5, <1>6, <1>7, <1>8, <1>9, <1>10
  DEF Next, Runner

\* Spec §4.4, for every budget, timeout and set of answers: quick_run_docker
\* returns a result record only for a job that completed and is completed on
\* the server (the status test at client.py:480 after wait_for_job, and the
\* final statuses the server never leaves).
THEOREM ResultOfCompletedJob == Spec => []ResultOnlyOfCompleted
<1>1. RInv => ResultOnlyOfCompleted
  BY DEF RInv, CompletedFromResult, ResultDecoded, ResultOnlyOfCompleted
<1>. QED
  BY InitRInv, NextRInv, <1>1, PTL DEF Spec


-----------------------------------------------------------------------------
(* Type correctness.  As for wait_for_job alone, TypeOK needs the attempt  *)
(* number of the call in flight to stay inside the retry budget, so that   *)
(* the backoff slept before the next attempt is whole seconds.  Three      *)
(* calls share the transport one after the other: the submit POST, the     *)
(* probes of wait_for_job and get_job_result.                              *)

CallBudget == tpc = "attempt" => total + attempts = MaxRetries

\* What a successful probe decoded is a job record, which Observe keeps.
ProbeBody ==
    wpc = "probe" /\ tpc = "done" /\ result = "ok" => body \in W!JobStatuses

TInv == TypeOK /\ CallBudget /\ ProbeInWait /\ ProbeBody

\* A probe of wait_for_job is an attempt of this module's transport: the
\* two instances of Transport differ only in the bodies they may decode.
LEMMA ProbeIsAttempt ==
    ASSUME W!ProbeAttempt
    PROVE  T!AttemptStep(jobStatus)
BY DEF W!ProbeAttempt, W!T!AttemptStep, T!AttemptStep, W!T!Outcomes,
       T!Outcomes, W!T!Responses, T!Responses, W!T!Failures, T!Failures,
       W!T!AttemptTime, T!AttemptTime, W!T!RetryAttempt, T!RetryAttempt,
       W!T!ExhaustAttempt, T!ExhaustAttempt, W!T!FinalAttempt,
       T!FinalAttempt, W!T!Attempted, T!Attempted, W!T!Retryable,
       T!Retryable, W!T!IsRetry, T!IsRetry, W!T!SleepTime, T!SleepTime,
       W!T!BackoffTime, T!BackoffTime, W!T!Classify, T!Classify,
       W!T!StatusForcelist, T!StatusForcelist, W!T!RetryAfterStatusCodes,
       T!RetryAfterStatusCodes, W!T!AllowedMethods, T!AllowedMethods,
       W!T!BackoffMax, T!BackoffMax, W!T!BackoffFactor, T!BackoffFactor,
       W!T!MinOf, T!MinOf

\* The sleep before the next attempt is whole seconds within the budget.
LEMMA SleepTimeNat ==
    ASSUME NEW o \in T!Outcomes, NEW n \in 1..MaxRetries + 1
    PROVE  T!SleepTime(o, n) \in Nat
<1>1. CASE o.retryAfter \in Nat \ {0}
  BY <1>1 DEF T!SleepTime
<1>2. CASE o.retryAfter \notin Nat \ {0}
  BY <1>2, TransportAssumption DEF T!SleepTime
<1>. QED
  BY <1>1, <1>2

\* One attempt of any of the three calls keeps the transport well typed and
\* within its budget.
LEMMA AttemptTInv ==
    ASSUME T!TypeOK, CallBudget, NEW b \in CallBodies \cup W!JobStatuses,
           T!AttemptStep(b)
    PROVE  T!TypeOK' /\ CallBudget'
<1>1. PICK o \in T!Outcomes :
          \E d \in T!AttemptTime(o) :
              \/ T!RetryAttempt(o, d)
              \/ T!ExhaustAttempt(o, d)
              \/ T!FinalAttempt(o, d, b)
  BY DEF T!AttemptStep
<1>. PICK d \in T!AttemptTime(o) :
          \/ T!RetryAttempt(o, d)
          \/ T!ExhaustAttempt(o, d)
          \/ T!FinalAttempt(o, d, b)
  BY <1>1
<1>2. d \in Nat
  BY TransportAssumption DEF T!AttemptTime
<1>3. CASE T!RetryAttempt(o, d)
  <2>1. tpc = "attempt" /\ total >= 1 /\ attempts + 1 \in 1..MaxRetries + 1
    BY <1>3, TransportAssumption
       DEF T!RetryAttempt, T!Attempted, T!TypeOK, CallBudget
  <2>2. T!SleepTime(o, attempts + 1) \in Nat
    BY <2>1, SleepTimeNat
  <2>. QED
    BY <1>2, <1>3, <2>1, <2>2, TransportAssumption
       DEF T!RetryAttempt, T!Attempted, T!TypeOK, CallBudget
<1>4. CASE T!ExhaustAttempt(o, d)
  BY <1>2, <1>4
     DEF T!ExhaustAttempt, T!Attempted, T!TypeOK, CallBudget, T!Results
<1>5. CASE T!FinalAttempt(o, d, b)
  <2>1. T!Classify(o) \in T!Results
    BY DEF T!Classify, T!Results
  <2>. QED
    BY <1>2, <1>5, <2>1 DEF T!FinalAttempt, T!Attempted, T!TypeOK, CallBudget
<1>. QED
  BY <1>3, <1>4, <1>5

\* A call starts well typed, with its whole budget ahead.
LEMMA RequestTInv ==
    ASSUME T!TypeOK, NEW m \in T!Methods, T!Request(m)
    PROVE  T!TypeOK' /\ CallBudget'
BY TransportAssumption
   DEF T!Request, T!TypeOK, CallBudget, T!Results, T!Outcomes

LEMMA InitTInv == Init => TInv
<1> SUFFICES ASSUME Init PROVE TInv
    OBVIOUS
<1>. QED
  BY TransportAssumption
     DEF Init, T!TInit, TInv, TypeOK, T!TypeOK, CallBudget, ProbeInWait,
         ProbeBody, T!Methods, T!Results, T!Outcomes, Ended, W!Ended,
         W!JobStatuses

\* The steps of the embedded wait keep it.
LEMMA WaitingTInv == TInv /\ Waiting => TInv'
<1> SUFFICES ASSUME TInv, Waiting PROVE TInv'
    OBVIOUS
<1>. USE PollIntervalAssumption DEF TInv, TypeOK, ProbeInWait, ProbeBody, qvars
<1>1. qpc = "wait" /\ UNCHANGED qvars /\ W!Waiter
  BY DEF Waiting, qvars
<1>2. CASE W!LoopProbe
  <2>0. T!Request("GET")
    BY <1>2 DEF W!LoopProbe, W!T!Request, T!Request, W!T!NoOutcome,
                T!NoOutcome
  <2>1. T!TypeOK' /\ CallBudget'
    BY <2>0, RequestTInv DEF T!Methods
  <2>. QED
    BY <1>1, <1>2, <2>1 DEF W!LoopProbe, W!T!Request
<1>3. CASE W!LoopTimeout \/ W!ProbeFailed
  BY <1>1, <1>3 DEF W!LoopTimeout, W!ProbeFailed, T!TypeOK, CallBudget,
                    W!Ended
<1>4. CASE W!ProbeAttempt
  <2>1. T!TypeOK' /\ CallBudget'
    <3>1. T!AttemptStep(jobStatus) /\ jobStatus \in CallBodies \cup W!JobStatuses
      BY <1>4, ProbeIsAttempt
    <3>. QED  BY <3>1, AttemptTInv
  <2>2. tpc' = "attempt" \/ result' # "ok" \/ body' = jobStatus
    BY <1>4, ProbeDecodes
  <2>. QED
    BY <1>1, <1>4, <2>1, <2>2 DEF W!ProbeAttempt, W!wvars
<1>5. CASE W!Observe
  BY <1>1, <1>5 DEF W!Observe, T!TypeOK, CallBudget, W!Ended
<1>. QED  BY <1>2, <1>3, <1>4, <1>5, <1>1 DEF W!Waiter

LEMMA NextTInv == TInv /\ [Next]_vars => TInv'
<1> SUFFICES ASSUME TInv, [Next]_vars PROVE TInv'
    OBVIOUS
<1>. USE DEF TInv, TypeOK, ProbeInWait, ProbeBody
<1>1. CASE Construct
  <2>1. CASE qpc' = "raised"
    BY <1>1, <2>1 DEF Construct, Ended, T!TypeOK, CallBudget
  <2>2. CASE qpc' = "submit"
    <3>1. T!TypeOK' /\ CallBudget'
      BY <1>1, <2>2, RequestTInv DEF Construct, T!Methods
    <3>. QED  BY <1>1, <2>2, <3>1 DEF Construct
  <2>. QED  BY <1>1, <2>1, <2>2 DEF Construct
<1>2. CASE SubmitAttempt
  <2>1. T!TypeOK' /\ CallBudget'
    BY <1>2, AttemptTInv DEF SubmitAttempt, SubmitBodies, CallBodies
  <2>2. jobs' \in Nat
    BY <1>2 DEF SubmitAttempt
  <2>. QED  BY <1>2, <2>1, <2>2 DEF SubmitAttempt
<1>3. CASE Submitted
  BY <1>3 DEF Submitted, Ended, T!TypeOK, CallBudget
<1>4. CASE Waiting
  BY <1>4, WaitingTInv
<1>5. CASE Waited
  <2>1. CASE qpc' = "result"
    <3>1. T!TypeOK' /\ CallBudget'
      BY <1>5, <2>1, RequestTInv DEF Waited, T!Methods
    <3>. QED  BY <1>5, <2>1, <3>1 DEF Waited, W!Ended
  <2>2. CASE qpc' # "result"
    BY <1>5, <2>2 DEF Waited, Ended, W!Ended, T!TypeOK, CallBudget
  <2>. QED  BY <2>1, <2>2
<1>6. CASE ResultAttempt
  <2>1. T!TypeOK' /\ CallBudget'
    BY <1>6, AttemptTInv DEF ResultAttempt, CallBodies
  <2>. QED  BY <1>6, <2>1 DEF ResultAttempt, qvars
<1>7. CASE ResultReturned
  BY <1>7 DEF ResultReturned, Ended, T!TypeOK, CallBudget
<1>8. CASE Tick
  BY <1>8, PollIntervalAssumption DEF Tick, W!Tick, W!wvars, qvars, T!TypeOK,
                                     CallBudget
<1>9. CASE ServerStep
  BY <1>9 DEF ServerStep, W!ServerStep, W!wvars, qvars, T!TypeOK, CallBudget
<1>10. CASE UNCHANGED vars
  BY <1>10 DEF vars, T!TypeOK, CallBudget
<1>. QED
  BY <1>1, <1>2, <1>3, <1>4, <1>5, <1>6, <1>7, <1>8, <1>9, <1>10
  DEF Next, Runner

\* For every budget, timeout, poll interval and set of answers, every state
\* of quick_run_docker is well typed: the three calls it makes through the
\* transport (submit, the probes of the wait, the result fetch) each stay
\* within max_retries, and the clock moves in whole seconds.
THEOREM TypeCorrect == Spec => []TypeOK
BY InitTInv, NextTInv, PTL DEF Spec, TInv

=============================================================================
