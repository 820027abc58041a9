------------------------- MODULE WaitForJobProofs -------------------------
(***************************************************************************)
(* Proofs that wait_for_job returns only a final status that the server    *)
(* still holds, that its callback saw what it returns, and that it         *)
(* implements JobWait, for every retry budget, timeout, poll interval and  *)
(* set of server answers.                                                  *)
(*                                                                         *)
(* ReturnedMatchesServer is not inductive: the returned record is the body *)
(* of the last probe, so the invariant must say what that body is before   *)
(* Observe reads it.  A successful probe that decoded a final status       *)
(* decoded the server's status, and the server cannot move it after that.  *)
(***************************************************************************)
EXTENDS WaitForJob, TLAPS

\* A probe that succeeded with a final status carries the server's status.
ProbedFinal ==
    wpc = "probe" /\ tpc = "done" /\ result = "ok" /\ body \in FinalStatuses
        => body = jobStatus

RInv == ReturnedMatchesServer /\ ProbedFinal /\ CallbackSeesReturned

-----------------------------------------------------------------------------
\* The status test of the loop is the server's set of final statuses.
LEMMA TerminalIsFinal == TerminalStatuses = FinalStatuses
BY DEF TerminalStatuses, FinalStatuses

LEMMA InitRInv == Init => RInv
BY DEF Init, RInv, ReturnedMatchesServer, ProbedFinal, CallbackSeesReturned,
       T!TInit

\* An attempt of the probe decodes the job as the server has it now.
LEMMA ProbeAttemptRInv == RInv /\ ProbeAttempt => RInv'
<1> SUFFICES ASSUME RInv, ProbeAttempt PROVE RInv'
    OBVIOUS
<1>1. wpc = "probe" /\ UNCHANGED <<wpc, start, job, seen, jobStatus>>
  BY DEF ProbeAttempt, wvars
<1>2. PICK o \in T!Outcomes :
          \E d \in T!AttemptTime(o) :
              \/ T!RetryAttempt(o, d)
              \/ T!ExhaustAttempt(o, d)
              \/ T!FinalAttempt(o, d, jobStatus)
  BY DEF ProbeAttempt, T!AttemptStep
<1>. PICK d \in T!AttemptTime(o) :
          \/ T!RetryAttempt(o, d)
          \/ T!ExhaustAttempt(o, d)
          \/ T!FinalAttempt(o, d, jobStatus)
  BY <1>2
<1>3. ProbedFinal'
  <2>1. CASE T!RetryAttempt(o, d)
    BY <2>1 DEF T!RetryAttempt, T!Attempted, ProbedFinal
  <2>2. CASE T!ExhaustAttempt(o, d)
    BY <2>2 DEF T!ExhaustAttempt, ProbedFinal
  <2>3. CASE T!FinalAttempt(o, d, jobStatus)
    BY <1>1, <2>3 DEF T!FinalAttempt, ProbedFinal
  <2>. QED  BY <2>1, <2>2, <2>3
<1>. QED
  BY <1>1, <1>3 DEF RInv, ReturnedMatchesServer, CallbackSeesReturned

\* get_job returned: a final status is returned as the server holds it.
LEMMA ObserveRInv == RInv /\ Observe => RInv'
<1> SUFFICES ASSUME RInv, Observe PROVE RInv'
    OBVIOUS
<1>1. job' = body /\ UNCHANGED <<tpc, result, body, jobStatus>>
      /\ wpc' \in {"raised", "returned", "check"}
  BY DEF Observe
<1>2. wpc' = "returned" => body \in FinalStatuses
  BY TerminalIsFinal DEF Observe
<1>3. ReturnedMatchesServer'
  BY <1>1, <1>2 DEF Observe, RInv, ProbedFinal, ReturnedMatchesServer
<1>4. CallbackSeesReturned'
  BY <1>1 DEF Observe, CallbackSeesReturned
<1>. QED
  BY <1>1, <1>3, <1>4 DEF RInv, ProbedFinal

LEMMA NextRInv == RInv /\ [Next]_vars => RInv'
<1> SUFFICES ASSUME RInv, [Next]_vars PROVE RInv'
    OBVIOUS
<1>1. CASE LoopProbe
  BY <1>1 DEF LoopProbe, T!Request, RInv, ReturnedMatchesServer,
              ProbedFinal, CallbackSeesReturned
<1>2. CASE LoopTimeout \/ ProbeFailed
  BY <1>2 DEF LoopTimeout, ProbeFailed, RInv, ReturnedMatchesServer,
              ProbedFinal, CallbackSeesReturned
<1>3. CASE ProbeAttempt
  BY <1>3, ProbeAttemptRInv
<1>4. CASE Observe
  BY <1>4, ObserveRInv
<1>5. CASE Tick
  BY <1>5 DEF Tick, wvars, RInv, ReturnedMatchesServer, ProbedFinal,
              CallbackSeesReturned
\* The server moves only a job that no returned record or final probe holds.
<1>6. CASE ServerStep
  BY <1>6 DEF ServerStep, wvars, RInv, ReturnedMatchesServer, ProbedFinal,
              CallbackSeesReturned
<1>7. CASE UNCHANGED vars
  BY <1>7 DEF vars, RInv, ReturnedMatchesServer, ProbedFinal,
              CallbackSeesReturned
<1>. QED
  BY <1>1, <1>2, <1>3, <1>4, <1>5, <1>6, <1>7 DEF Next, Waiter

-----------------------------------------------------------------------------
\* For every budget, timeout and set of answers, the record wait_for_job
\* returns has a status the job can no longer leave and that the server
\* still holds (the terminal list at client.py:289, the probe at 283).
THEOREM ReturnedIsServerStatus == Spec => []ReturnedMatchesServer
BY InitRInv, NextRInv, PTL DEF Spec, RInv

\* With a callback, the record returned is the one the callback was last
\* called with (the callback precedes the status test, client.py 285-290).
THEOREM CallbackSawReturned == Spec => []CallbackSeesReturned
BY InitRInv, NextRInv, PTL DEF Spec, RInv

\* Every step of wait_for_job is a step of JobWait or leaves its state
\* alone: the loop implements the safety part of the promise.
LEMMA StepRefines == RInv /\ [Next]_vars => [JW!ANext]_JW!avars
<1> SUFFICES ASSUME RInv, [Next]_vars PROVE [JW!ANext]_JW!avars
    OBVIOUS
<1>1. CASE Observe
  <2>1. CASE wpc' = "returned"
    <3>1. body \in FinalStatuses /\ body = jobStatus
      BY <1>1, <2>1, TerminalIsFinal DEF Observe, RInv, ProbedFinal
    <3>. QED
      BY <1>1, <2>1, <3>1 DEF Observe, JW!ANext, JW!Return, WaitOutcome,
                              ReturnedJob, JW!FinalStatuses, FinalStatuses
  <2>2. CASE wpc' = "raised"
    BY <1>1, <2>2 DEF Observe, JW!ANext, JW!Fail, WaitOutcome, ReturnedJob
  <2>3. CASE wpc' = "check"
    BY <1>1, <2>3 DEF Observe, JW!avars, WaitOutcome, ReturnedJob
  <2>. QED  BY <1>1, <2>1, <2>2, <2>3 DEF Observe
<1>2. CASE LoopTimeout \/ ProbeFailed
  BY <1>2 DEF LoopTimeout, ProbeFailed, JW!ANext, JW!Fail, WaitOutcome,
              ReturnedJob
<1>3. CASE LoopProbe \/ ProbeAttempt \/ Tick
  BY <1>3 DEF LoopProbe, ProbeAttempt, Tick, wvars, JW!avars, WaitOutcome,
              ReturnedJob
<1>4. CASE ServerStep
  <2>1. wpc # "returned"
    BY <1>4 DEF ServerStep, RInv, ReturnedMatchesServer
  <2>. QED
    BY <1>4, <2>1 DEF ServerStep, wvars, JW!ANext, JW!Move, WaitOutcome,
                      ReturnedJob, JW!FinalStatuses, FinalStatuses,
                      JW!JobStatuses, JobStatuses
<1>5. CASE UNCHANGED vars
  BY <1>5 DEF vars, JW!avars, WaitOutcome, ReturnedJob
<1>. QED
  BY <1>1, <1>2, <1>3, <1>4, <1>5 DEF Next, Waiter

\* For every budget, timeout and set of answers, wait_for_job implements
\* the safety part of JobWait under the mapping WaitOutcome, ReturnedJob:
\* it ends at most once, and returns only the server's final status.
THEOREM RefinesJobWait == Spec => JW!ASafety
<1>1. Init => JW!AInit
  BY DEF Init, JW!AInit, WaitOutcome, ReturnedJob, JW!JobStatuses,
         JobStatuses
<1>. QED
  BY <1>1, InitRInv, NextRInv, StepRefines, PTL DEF Spec, JW!ASafety


-----------------------------------------------------------------------------
(* Type correctness.  TypeOK is not inductive: that the clock stays a      *)
(* natural number needs the backoff of the next attempt, which is known    *)
(* only while the attempt number is inside the retry budget.  ProbeBudget  *)
(* says that it is: while get_job's call is in flight, Retry.total and the *)
(* attempts made add up to max_retries.                                    *)

ProbeBudget == tpc = "attempt" => total + attempts = MaxRetries

TInv == TypeOK /\ ProbeBudget

\* The sleep urllib3 takes before the next attempt of a probe is whole
\* seconds, for every attempt number the budget allows.
LEMMA SleepTimeNat ==
    ASSUME NEW o \in T!Outcomes, NEW n \in 1..MaxRetries + 1
    PROVE  T!SleepTime(o, n) \in Nat
<1>1. CASE o.retryAfter \in Nat \ {0}
  BY <1>1 DEF T!SleepTime
<1>2. CASE o.retryAfter \notin Nat \ {0}
  BY <1>2, TransportAssumption DEF T!SleepTime
<1>. QED
  BY <1>1, <1>2

\* An attempt of a probe takes whole seconds.
LEMMA AttemptTimeNat ==
    ASSUME NEW o \in T!Outcomes, NEW d \in T!AttemptTime(o)
    PROVE  d \in Nat
BY TransportAssumption DEF T!AttemptTime

\* get_job ends with one of the results of _make_request.
LEMMA ClassifyType ==
    ASSUME NEW o \in T!Outcomes
    PROVE  T!Classify(o) \in T!Results
BY DEF T!Classify, T!Results

LEMMA InitTInv == Init => TInv
<1> SUFFICES ASSUME Init PROVE TInv
    OBVIOUS
<1>. QED
  BY TransportAssumption
     DEF Init, T!TInit, TInv, TypeOK, T!TypeOK, ProbeBudget, T!Methods,
         T!Results, T!Outcomes, Ended

\* One attempt of get_job, whatever it meets, keeps the probe well typed.
LEMMA ProbeAttemptTInv == TInv /\ ProbeAttempt => TInv'
<1> SUFFICES ASSUME TInv, ProbeAttempt PROVE TInv'
    OBVIOUS
<1>1. UNCHANGED <<wpc, start, job, seen, jobStatus>> /\ jobStatus \in JobStatuses
  BY DEF ProbeAttempt, wvars, TInv, TypeOK
<1>2. PICK o \in T!Outcomes :
          \E d \in T!AttemptTime(o) :
              \/ T!RetryAttempt(o, d)
              \/ T!ExhaustAttempt(o, d)
              \/ T!FinalAttempt(o, d, jobStatus)
  BY DEF ProbeAttempt, T!AttemptStep
<1>. PICK d \in T!AttemptTime(o) :
          \/ T!RetryAttempt(o, d)
          \/ T!ExhaustAttempt(o, d)
          \/ T!FinalAttempt(o, d, jobStatus)
  BY <1>2
<1>3. d \in Nat
  BY AttemptTimeNat
<1>4. CASE T!RetryAttempt(o, d)
  <2>1. tpc = "attempt" /\ total >= 1 /\ attempts + 1 \in 1..MaxRetries + 1
    BY <1>4, TransportAssumption
       DEF T!RetryAttempt, T!Attempted, TInv, TypeOK, T!TypeOK, ProbeBudget
  <2>2. T!SleepTime(o, attempts + 1) \in Nat
    BY <2>1, SleepTimeNat
  <2>. QED
    BY <1>1, <1>3, <1>4, <2>1, <2>2, TransportAssumption
       DEF T!RetryAttempt, T!Attempted, TInv, TypeOK, T!TypeOK, ProbeBudget
<1>5. CASE T!ExhaustAttempt(o, d)
  BY <1>1, <1>3, <1>5
     DEF T!ExhaustAttempt, T!Attempted, TInv, TypeOK, T!TypeOK, ProbeBudget,
         T!Results
<1>6. CASE T!FinalAttempt(o, d, jobStatus)
  <2>1. T!Classify(o) \in T!Results
    BY ClassifyType
  <2>. QED
    BY <1>1, <1>3, <1>6, <2>1
       DEF T!FinalAttempt, T!Attempted, TInv, TypeOK, T!TypeOK, ProbeBudget
<1>. QED
  BY <1>4, <1>5, <1>6

LEMMA NextTInv == TInv /\ [Next]_vars => TInv'
<1> SUFFICES ASSUME TInv, [Next]_vars PROVE TInv'
    OBVIOUS
<1>. USE TransportAssumption, PollIntervalAssumption
<1>1. CASE LoopProbe
  BY <1>1 DEF LoopProbe, T!Request, TInv, TypeOK, T!TypeOK, ProbeBudget,
              T!Methods, T!Results, T!Outcomes
<1>2. CASE LoopTimeout \/ ProbeFailed
  BY <1>2 DEF LoopTimeout, ProbeFailed, TInv, TypeOK, T!TypeOK, ProbeBudget,
              Ended
<1>3. CASE ProbeAttempt
  BY <1>3, ProbeAttemptTInv
<1>4. CASE Observe
  BY <1>4 DEF Observe, TInv, TypeOK, T!TypeOK, ProbeBudget, Ended
<1>5. CASE Tick
  BY <1>5 DEF Tick, wvars, TInv, TypeOK, T!TypeOK, ProbeBudget
<1>6. CASE ServerStep
  BY <1>6 DEF ServerStep, wvars, TInv, TypeOK, T!TypeOK, ProbeBudget
<1>7. CASE UNCHANGED vars
  BY <1>7 DEF vars, TInv, TypeOK, T!TypeOK, ProbeBudget
<1>. QED
  BY <1>1, <1>2, <1>3, <1>4, <1>5, <1>6, <1>7 DEF Next, Waiter

\* For every budget, timeout, poll interval and set of answers, every state
\* of wait_for_job is well typed: Retry.total of each probe stays within
\* max_retries and the clock moves in whole seconds through its backoffs,
\* Retry-After sleeps and poll_interval sleeps (client.py 282-292).
THEOREM TypeCorrect == Spec => []TypeOK
BY InitTInv, NextTInv, PTL DEF Spec, TInv

=============================================================================
