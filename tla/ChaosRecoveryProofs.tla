------------------------ MODULE ChaosRecoveryProofs ------------------------
(***************************************************************************)
(* Proofs that the recovery measurement of the chaos harness is well typed *)
(* and bounded by its limit plus one health round, for every limit, every  *)
(* timeout and every set of request durations the assumptions of          *)
(* ChaosRecovery allow (durations bounded by the deployment's MaxLatency,  *)
(* not by the requests' timeout).                                          *)
(***************************************************************************)
EXTENDS ChaosRecovery, TLAPS

\* Outside a health round the endpoint index is back at the first endpoint.
IdleRound == rpc \notin {"pre", "recover"} => idx = 1

\* Within a round of the recovery loop, each endpoint asked so far took at
\* most MaxLatency, and the round began no later than the limit.
RoundElapsed ==
    rpc = "recover" =>
        now - recoveryStart <= RecoveryLimit + (idx - 1) * MaxLatency

\* Between a failed round and the give-up test.
SleepElapsed == rpc = "sleep" => now - recoveryStart <= MeasureBound

\* A positive recovery time was measured at the end of a successful round.
ReportedBound == recoveryTime > 0 => recoveryTime <= MeasureBound

IInv == TypeOK /\ IdleRound /\ RoundElapsed /\ SleepElapsed /\ ReportedBound

-----------------------------------------------------------------------------
\* The health round asks four endpoints.
LEMMA RoundLength == Len(HealthEndpoints) = 4
BY DEF HealthEndpoints

\* What the assumptions on the constants say, in one place.
LEMMA ConstantFacts ==
    /\ RecoveryLimit \in Nat
    /\ MaxLatency \in Nat \ {0}
    /\ HealthTimeout \in 1..MaxLatency
    /\ Latencies \subseteq 1..MaxLatency
    /\ DetectDelay \in Nat
    /\ PauseDuration \in Nat
    /\ MeasureBound = RecoveryLimit + 4 * MaxLatency
BY RoundLength, RecoveryLimitAssumption, HealthTimeoutAssumption,
   LatenciesAssumption, DetectDelayAssumption, PauseDurationAssumption
   DEF MeasureBound

\* Two bounds add up.
LEMMA AddBound ==
    ASSUME NEW x \in Int, NEW y \in Int, NEW z \in Int, NEW w \in Int,
           x <= y, z <= w
    PROVE  x + z <= y + w
OBVIOUS

-----------------------------------------------------------------------------
\* The initial states satisfy the inductive invariant.
THEOREM InitIInv == Init => IInv
BY RoundLength, ConstantFacts
   DEF Init, IInv, TypeOK, IdleRound, RoundElapsed, SleepElapsed,
       ReportedBound, Components, Services, Running

\* Every step of the harness or of the deployment preserves it.
THEOREM NextIInv == IInv /\ [Next]_vars => IInv'
<1> SUFFICES ASSUME IInv, [Next]_vars PROVE IInv'
    OBVIOUS
<1>. USE ConstantFacts, RoundLength
<1>1. ASSUME NEW lat \in Latencies, CheckUp(lat) PROVE IInv'
  <2>1. idx \in 1..4 /\ rpc \in {"pre", "recover"}
    BY <1>1 DEF IInv, TypeOK, CheckUp
  <2>2. CASE idx < 4
    <3>1. idx # Len(HealthEndpoints)
      BY <2>2, RoundLength
    <3>2. /\ idx' = idx + 1 /\ now' = now + lat
          /\ UNCHANGED <<rpc, down, chaos, victim, chaosStart, recoveryStart,
                         healedAt, recoveryTime, verdict>>
      BY <1>1, <3>1, Zenon DEF CheckUp
    <3>3. lat \in 1..MaxLatency /\ now \in Nat /\ recoveryStart \in Nat
      BY <1>1 DEF IInv, TypeOK
    <3>4. rpc = "recover" =>
              now - recoveryStart <= RecoveryLimit + (idx - 1) * MaxLatency
      BY DEF IInv, RoundElapsed
    <3>5. (idx' - 1) * MaxLatency = (idx - 1) * MaxLatency + MaxLatency
      BY <2>1, <3>2
    <3>6. RoundElapsed'
      <4>1. SUFFICES ASSUME rpc = "recover"
                     PROVE  now' - recoveryStart' <=
                                RecoveryLimit + (idx' - 1) * MaxLatency
        BY <3>2 DEF RoundElapsed
      <4>2. now' - recoveryStart' = (now - recoveryStart) + lat
        BY <3>2, <3>3
      <4>. QED
        BY <4>1, <4>2, <3>3, <3>4, <3>5, <2>1, AddBound
    <3>7. TypeOK'
      BY <2>1, <2>2, <3>2, <3>3, RoundLength DEF IInv, TypeOK
    <3>. QED
      BY <2>1, <3>2, <3>6, <3>7 DEF IInv, IdleRound, SleepElapsed, ReportedBound
  <2>3. CASE idx = 4
    BY <1>1, <2>1, <2>3 DEF CheckUp, RoundReturns, IInv, TypeOK, IdleRound,
                          RoundElapsed, SleepElapsed, ReportedBound, Running
  <2>. QED  BY <2>1, <2>2, <2>3
<1>2. ASSUME NEW lat \in Latencies \cup {HealthTimeout}, CheckDown(lat)
      PROVE IInv'
  <2>1. idx \in 1..4 /\ lat \in 1..MaxLatency
    BY <1>2 DEF IInv, TypeOK, CheckDown
  <2>. QED
    BY <1>2, <2>1 DEF CheckDown, RoundReturns, IInv, TypeOK, IdleRound,
                     RoundElapsed, SleepElapsed, ReportedBound, Running
<1>3. CASE Baseline
  BY <1>3 DEF Baseline, IInv, TypeOK, IdleRound, RoundElapsed, SleepElapsed,
              ReportedBound, Running
<1>4. CASE KillOrRestart
  BY <1>4 DEF KillOrRestart, Healing, IInv, TypeOK, IdleRound, RoundElapsed,
              SleepElapsed, ReportedBound, Running, Components
<1>5. CASE Pause
  BY <1>5 DEF Pause, Healing, IInv, TypeOK, IdleRound, RoundElapsed,
              SleepElapsed, ReportedBound, Running, Components
<1>6. CASE Unpause
  BY <1>6 DEF Unpause, Healing, IInv, TypeOK, IdleRound, RoundElapsed,
              SleepElapsed, ReportedBound, Running
<1>7. CASE ChaosRaised
  BY <1>7 DEF ChaosRaised, IInv, TypeOK, IdleRound, RoundElapsed,
              SleepElapsed, ReportedBound
<1>8. CASE Detect
  BY <1>8 DEF Detect, IInv, TypeOK, IdleRound, RoundElapsed, SleepElapsed,
              ReportedBound, Running
<1>9. CASE AfterSleep
  BY <1>9 DEF AfterSleep, IInv, TypeOK, IdleRound, RoundElapsed,
              SleepElapsed, ReportedBound, Running
<1>10. CASE Post
  BY <1>10 DEF Post, IInv, TypeOK, IdleRound, RoundElapsed, SleepElapsed,
               ReportedBound
<1>11. ASSUME NEW c \in Components, Heal(c) PROVE IInv'
  BY <1>11 DEF Heal, Healing, IInv, TypeOK, IdleRound, RoundElapsed,
               SleepElapsed, ReportedBound
<1>12. CASE UNCHANGED vars
  BY <1>12 DEF vars, IInv, TypeOK, IdleRound, RoundElapsed, SleepElapsed,
               ReportedBound
<1>. QED
  BY <1>1, <1>2, <1>3, <1>4, <1>5, <1>6, <1>7, <1>8, <1>9, <1>10, <1>11, <1>12
  DEF Next, Runner

\* The inductive invariant gives the bound on the measurement.
THEOREM IInvMeasure == IInv => MeasureWithinLimit
<1> SUFFICES ASSUME IInv PROVE MeasureWithinLimit
    OBVIOUS
<1>1. idx \in 1..4
  BY RoundLength DEF IInv, TypeOK
<1>2. (idx - 1) * MaxLatency <= 4 * MaxLatency
  BY <1>1, ConstantFacts
<1>. QED
  BY <1>2, ConstantFacts DEF IInv, TypeOK, RoundElapsed, SleepElapsed,
     ReportedBound, MeasureWithinLimit

-----------------------------------------------------------------------------
\* Every reachable state of a chaos scenario is well typed: the endpoint
\* index stays within the list verify_system_health walks, and times stay
\* natural numbers.
THEOREM TypeCorrect == Spec => []TypeOK
BY InitIInv, NextIInv, PTL DEF Spec, IInv

\* For every limit, timeout and bound on the deployment's request
\* durations, measure_recovery_time's loop never runs, and never reports a
\* recovery time, more than one health round of four requests past its
\* give-up limit (chaos_tests.py 250-255).
THEOREM MeasureBounded == Spec => []MeasureWithinLimit
BY InitIInv, NextIInv, IInvMeasure, PTL DEF Spec

=============================================================================
