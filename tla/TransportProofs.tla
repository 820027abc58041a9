-------------------------- MODULE TransportProofs --------------------------
(***************************************************************************)
(* Proofs about one call of _make_request (module Transport), for every    *)
(* retry budget, timeout, set of statuses and Retry-After values.          *)
(*                                                                         *)
(* Neither TypeOK nor AttemptBudget is inductive by itself: that the      *)
(* clock stays a natural number needs the attempt number to stay inside   *)
(* the retry budget (the backoff is known only there).  IInv adds exactly  *)
(* this fact.                                                              *)
(***************************************************************************)
EXTENDS Transport, TLAPS

\* While urllib3 works on a call, Retry.total and the attempts made add up
\* to the budget; once the call is over, the attempts are within it.
BudgetInv ==
    /\ tpc = "attempt" => total + attempts = MaxRetries
    /\ tpc # "attempt" => attempts <= MaxRetries + 1

IInv == TypeOK /\ BudgetInv

-----------------------------------------------------------------------------
(* Lemmas about the operators the actions are built from.                 *)

\* The sleep urllib3 takes before the next attempt is whole seconds.
LEMMA SleepTimeNat ==
    ASSUME NEW o \in Outcomes, NEW n \in 1..MaxRetries + 1
    PROVE  SleepTime(o, n) \in Nat
<1>1. CASE o.retryAfter \in Nat \ {0}
  BY <1>1 DEF SleepTime
<1>2. CASE o.retryAfter \notin Nat \ {0}
  BY <1>2, BackoffAssumption DEF SleepTime
<1>3. QED
  BY <1>1, <1>2

\* An attempt takes whole seconds.
LEMMA AttemptTimeNat ==
    ASSUME NEW o \in Outcomes, NEW d \in AttemptTime(o)
    PROVE  d \in Nat
BY RequestTimeoutAssumption, LatenciesAssumption DEF AttemptTime

\* _make_request ends with one of its results.
LEMMA ClassifyType ==
    ASSUME NEW o \in Outcomes
    PROVE  Classify(o) \in Results
BY DEF Classify, Results

\* A POST is never retried once the server answered it: urllib3 retries
\* it only after an error.
LEMMA PostRetriedOnlyOnError ==
    ASSUME NEW o \in Outcomes, method = "POST", Retryable(o)
    PROVE  o.kind # "response"
BY DEF Retryable, IsRetry, AllowedMethods

-----------------------------------------------------------------------------
LEMMA InitIInv == TInit => IInv
BY MaxRetriesAssumption
   DEF TInit, IInv, TypeOK, BudgetInv, Methods, Results, Outcomes

LEMMA NextIInv == IInv /\ [TNext]_tvars => IInv'
<1> SUFFICES ASSUME IInv, [TNext]_tvars PROVE IInv'
  OBVIOUS
<1> USE MaxRetriesAssumption
<1>1. ASSUME NEW m \in Methods, Request(m) PROVE IInv'
  BY <1>1 DEF Request, IInv, TypeOK, BudgetInv, Results, Outcomes
<1>2. ASSUME NEW b \in Bodies, NEW o \in Outcomes, NEW d \in AttemptTime(o),
             RetryAttempt(o, d)
      PROVE  IInv'
  <2>1. tpc = "attempt" /\ total >= 1 /\ attempts + 1 \in 1..MaxRetries + 1
    BY <1>2 DEF RetryAttempt, Attempted, IInv, TypeOK, BudgetInv
  <2>2. SleepTime(o, attempts + 1) \in Nat
    BY <2>1, SleepTimeNat
  <2>3. d \in Nat
    BY AttemptTimeNat
  <2>4. TypeOK'
    BY <1>2, <2>1, <2>2, <2>3 DEF RetryAttempt, Attempted, IInv, TypeOK
  <2>5. BudgetInv'
    BY <1>2, <2>1 DEF RetryAttempt, Attempted, IInv, TypeOK, BudgetInv
  <2>6. QED
    BY <2>4, <2>5 DEF IInv
<1>3. ASSUME NEW o \in Outcomes, NEW d \in AttemptTime(o), ExhaustAttempt(o, d)
      PROVE  IInv'
  <2>1. d \in Nat
    BY AttemptTimeNat
  <2>2. QED
    BY <1>3, <2>1 DEF ExhaustAttempt, Attempted, IInv, TypeOK, BudgetInv,
                      Results
<1>4. ASSUME NEW b \in Bodies, NEW o \in Outcomes, NEW d \in AttemptTime(o),
             FinalAttempt(o, d, b)
      PROVE  IInv'
  <2>1. d \in Nat
    BY AttemptTimeNat
  <2>2. Classify(o) \in Results
    BY ClassifyType
  <2>3. QED
    BY <1>4, <2>1, <2>2 DEF FinalAttempt, Attempted, IInv, TypeOK, BudgetInv
<1>5. CASE UNCHANGED tvars
  BY <1>5 DEF tvars, IInv, TypeOK, BudgetInv
<1>6. QED
  BY <1>1, <1>2, <1>3, <1>4, <1>5 DEF TNext, AttemptStep

-----------------------------------------------------------------------------
\* The strengthened invariant holds in every state of every call sequence.
THEOREM IInvHolds == TSpec => []IInv
BY InitIInv, NextIInv, PTL DEF TSpec

\* Every state of the transport is well typed: in particular Retry.total
\* never drops below zero and the clock only moves forward in whole seconds.
THEOREM TypeCorrect == TSpec => []TypeOK
BY IInvHolds, PTL DEF IInv

\* Spec §8.4: no call of _make_request makes more than max_retries + 1
\* attempts, for every budget (Retry.increment and is_exhausted).
THEOREM AttemptsWithinBudget == TSpec => []AttemptBudget
<1>1. IInv => AttemptBudget
  BY MaxRetriesAssumption DEF IInv, TypeOK, BudgetInv, AttemptBudget
<1>2. QED
  BY <1>1, IInvHolds, PTL

-----------------------------------------------------------------------------
(* Transport implements HttpCall.  The refinement needs two facts IInv    *)
(* does not have: every delivery was an attempt, so a call reaches the     *)
(* server no more often than the budget lets it try; and a POST still     *)
(* being attempted was not answered, so HttpCall lets it be sent again.    *)

SentWithinAttempts == sent <= attempts

\* urllib3 hands a POST's response to _make_request rather than retrying.
PostAnswerEnds == tpc = "attempt" /\ method = "POST" => last.kind # "response"

RInv == IInv /\ SentWithinAttempts /\ PostAnswerEnds

\* A result other than a network error is an answer of the server.
LEMMA AnswerWasResponse ==
    ASSUME NEW o \in Outcomes, Classify(o) # "network"
    PROVE  o.kind = "response"
BY DEF Classify

\* Every result _make_request ends with is one of HttpCall's.
LEMMA ClassifyOutcome ==
    ASSUME NEW o \in Outcomes
    PROVE  Classify(o) \in HC!Outcomes
BY DEF Classify, HC!Outcomes

LEMMA InitRInv == TInit => RInv
BY InitIInv DEF TInit, RInv, SentWithinAttempts, PostAnswerEnds

LEMMA NextRInv == RInv /\ [TNext]_tvars => RInv'
<1> SUFFICES ASSUME RInv, [TNext]_tvars PROVE RInv'
    OBVIOUS
<1>1. IInv'
  BY NextIInv DEF RInv
<1>2. ASSUME NEW m \in Methods, Request(m)
      PROVE  SentWithinAttempts' /\ PostAnswerEnds'
  BY <1>2 DEF Request, SentWithinAttempts, PostAnswerEnds, NoOutcome
<1>3. ASSUME NEW b \in Bodies, NEW o \in Outcomes, NEW d \in AttemptTime(o),
             \/ RetryAttempt(o, d)
             \/ ExhaustAttempt(o, d)
             \/ FinalAttempt(o, d, b)
      PROVE  SentWithinAttempts' /\ PostAnswerEnds'
  <2>1. SentWithinAttempts'
    <3>1. Attempted(o)
      BY <1>3 DEF RetryAttempt, ExhaustAttempt, FinalAttempt
    <3>. QED
      BY <3>1 DEF Attempted, RInv, IInv, TypeOK, SentWithinAttempts
  <2>2. PostAnswerEnds'
    <3>1. CASE RetryAttempt(o, d)
      <4>1. method = "POST" => o.kind # "response"
        BY <3>1, PostRetriedOnlyOnError DEF RetryAttempt
      <4>. QED
        BY <3>1, <4>1 DEF RetryAttempt, Attempted, PostAnswerEnds
    <3>2. CASE ExhaustAttempt(o, d) \/ FinalAttempt(o, d, b)
      BY <3>2 DEF ExhaustAttempt, FinalAttempt, PostAnswerEnds
    <3>. QED
      BY <1>3, <3>1, <3>2
  <2>. QED
    BY <2>1, <2>2
<1>4. ASSUME UNCHANGED tvars PROVE SentWithinAttempts' /\ PostAnswerEnds'
  BY <1>4 DEF tvars, RInv, SentWithinAttempts, PostAnswerEnds
<1>. QED
  BY <1>1, <1>2, <1>3, <1>4 DEF TNext, AttemptStep, RInv

\* Where a call is: the budget left for one more delivery, and whether
\* HttpCall lets it try again.
LEMMA InFlight ==
    ASSUME RInv, tpc = "attempt"
    PROVE  /\ sent + 1 <= HC!DeliveryBound
           /\ HC!MayResend
           /\ method \in HC!Verbs
BY MaxRetriesAssumption
   DEF RInv, IInv, TypeOK, BudgetInv, SentWithinAttempts, PostAnswerEnds,
       Methods, HC!Verbs, HC!DeliveryBound, HC!MayResend, Answered

\* Every step of _make_request is a step of HttpCall or hides an attempt.
LEMMA StepRefines == RInv /\ [TNext]_tvars => [HC!CNext]_HC!cvars
<1> SUFFICES ASSUME RInv, [TNext]_tvars PROVE [HC!CNext]_HC!cvars
    OBVIOUS
<1>. USE MaxRetriesAssumption
<1>1. ASSUME NEW m \in Methods, Request(m) PROVE HC!Call(m)
  BY <1>1 DEF Request, HC!Call, CallState, Answered, NoOutcome, RInv, IInv,
              TypeOK
\* A retried attempt: its request reached the server or never left.
<1>2. ASSUME NEW o \in Outcomes, NEW d \in AttemptTime(o), RetryAttempt(o, d)
      PROVE  HC!Reach \/ HC!Miss
  <2>1. tpc = "attempt" /\ tpc' = "attempt" /\ last' = o
        /\ UNCHANGED <<method, result>>
        /\ sent' = sent + (IF o.kind = "connect_error" THEN 0 ELSE 1)
    BY <1>2 DEF RetryAttempt, Attempted
  <2>2. sent + 1 <= HC!DeliveryBound /\ HC!MayResend
    BY <2>1, InFlight
  <2>3. CASE o.kind = "connect_error"
    BY <2>1, <2>2, <2>3 DEF HC!Miss, CallState, Answered,
        RInv, IInv, TypeOK
  <2>4. CASE o.kind # "connect_error"
    BY <2>1, <2>2, <2>4 DEF HC!Reach, CallState, Answered
  <2>. QED  BY <2>3, <2>4
\* The last attempt of a call: exhausted or not retried.
<1>3. ASSUME NEW o \in Outcomes, NEW d \in AttemptTime(o),
             \/ ExhaustAttempt(o, d)
             \/ \E b \in Bodies : FinalAttempt(o, d, b)
      PROVE  HC!Finish
  <2>1. tpc = "attempt" /\ tpc' = "done" /\ UNCHANGED method /\ last' = o
        /\ sent' = sent + (IF o.kind = "connect_error" THEN 0 ELSE 1)
    BY <1>3 DEF ExhaustAttempt, FinalAttempt, Attempted
  <2>2. sent + 1 <= HC!DeliveryBound /\ HC!MayResend
    BY <2>1, InFlight
  <2>3. /\ result' \in HC!Outcomes
        /\ result' # "network" => o.kind = "response"
    <3>1. CASE ExhaustAttempt(o, d)
      BY <3>1 DEF ExhaustAttempt, HC!Outcomes
    <3>2. CASE \E b \in Bodies : FinalAttempt(o, d, b)
      <4>1. result' = Classify(o)
        BY <3>2 DEF FinalAttempt
      <4>. QED  BY <4>1, ClassifyOutcome, AnswerWasResponse
    <3>. QED  BY <1>3, <3>1, <3>2
  <2>4. CASE o.kind = "connect_error"
    BY <2>1, <2>2, <2>3, <2>4 DEF HC!Finish, CallState, Answered,
        RInv, IInv, TypeOK
  <2>5. CASE o.kind # "connect_error"
    BY <2>1, <2>2, <2>3, <2>5 DEF HC!Finish, CallState, Answered
  <2>. QED  BY <2>4, <2>5
<1>4. CASE UNCHANGED tvars
  BY <1>4 DEF tvars, HC!cvars, CallState, Answered
<1>. QED
  BY <1>1, <1>2, <1>3, <1>4 DEF TNext, AttemptStep, HC!CNext, Methods,
                                HC!Verbs

\* For every budget and every mix of answers and errors, _make_request
\* implements HttpCall under the mapping CallState, method, sent, Answered,
\* result: a call reaches the server at most max_retries + 1 times, a POST
\* the server answered is never sent again, and an answer other than a
\* network error ended the call with a request that reached the server
\* (client.py 134-138, 163-180).
THEOREM RefinesHttpCall == TSpec => ImplementsHttpCall
<1>1. TInit => HC!CInit
  BY DEF TInit, HC!CInit, CallState, Answered, NoOutcome
<1>. QED
  BY <1>1, InitRInv, NextRInv, StepRefines, PTL
  DEF TSpec, ImplementsHttpCall, HC!CSpec

=============================================================================
