--------------------------- MODULE ChaosRecovery ---------------------------
(***************************************************************************)
(* One chaos scenario of the chaos harness (chaos_tests.py):               *)
(* ChaosTestRunner.run_chaos_scenario checks the deployment's health,      *)
(* measures a baseline, and calls measure_recovery_time, which runs the    *)
(* chaos function, sleeps five seconds, and polls verify_system_health     *)
(* once a second until it succeeds or five minutes have passed.  The       *)
(* verdict is that the measured recovery time lies in (0, 60) seconds.     *)
(*                                                                         *)
(* The chaos functions modelled are those of ServiceChaos: kill, pause or  *)
(* restart one target container, if the random draw hits.  The deployment  *)
(* is the environment: a component that is down may come back at any      *)
(* moment (its orchestrator restarts it) or never.  Times are whole        *)
(* seconds on the harness's wall clock.                                    *)
(***************************************************************************)
EXTENDS Integers, Sequences

CONSTANTS
    RecoveryLimit,  \* the 300 s give-up limit of measure_recovery_time
    PassLimit,      \* the 60 s bound of the verdict
    DetectDelay,    \* the 5 s sleep after the chaos function returns
    HealthTimeout,  \* the timeout of every health request (5 s)
    Latencies,      \* how long a health request may take
    MaxLatency,     \* the longest any health request takes
    PauseDuration,  \* the duration argument of pause_random_service
    ChaosKinds,     \* which chaos functions a scenario may run
    NoVictim        \* marks that no container was chosen

ASSUME RecoveryLimitAssumption == RecoveryLimit \in Nat
ASSUME PassLimitAssumption == PassLimit \in Nat
ASSUME DetectDelayAssumption == DetectDelay \in Nat
ASSUME HealthTimeoutAssumption == HealthTimeout \in Nat \ {0}
\* requests.get(timeout=5) (chaos_tests.py 218, 230) bounds the connect
\* and each socket read, not the whole request: a slow answer may take
\* longer than the timeout, and nothing in the harness bounds it.  The
\* bound MaxLatency is one of the deployment, assumed here; a connect
\* timeout takes HealthTimeout.  Every request takes some time, so a
\* measured recovery is never 0 s.
ASSUME LatenciesAssumption ==
    /\ MaxLatency \in Nat
    /\ Latencies \subseteq 1..MaxLatency
    /\ HealthTimeout <= MaxLatency
ASSUME PauseDurationAssumption == PauseDuration \in Nat
ASSUME ChaosKindsAssumption == ChaosKinds \subseteq {"kill", "pause", "restart"}

VARIABLES
    rpc,           \* where the runner is
    idx,           \* the next endpoint of the current health round
    now,           \* wall-clock time
    down,          \* the components whose health endpoint fails
    chaos,         \* the chaos function of this scenario
    victim,        \* the container the chaos function chose
    chaosStart,    \* start_time (chaos_tests.py:240)
    recoveryStart, \* recovery_start (chaos_tests.py:249)
    healedAt,      \* when the deployment was last fully healthy again
    recoveryTime,  \* what measure_recovery_time returned
    verdict        \* what run_chaos_scenario returned

vars == <<rpc, idx, now, down, chaos, victim, chaosStart, recoveryStart,
          healedAt, recoveryTime, verdict>>

-----------------------------------------------------------------------------
\* target_services of the ServiceChaos that ChaosTestRunner builds.
Services == {"auth", "scheduler", "marketplace"}

\* verify_system_health asks /health and then the critical endpoints, in
\* this order; each is named by the component whose failure it reports.
HealthEndpoints == <<"gateway", "auth", "scheduler", "marketplace">>

Components == {"gateway"} \cup Services

Running == {"pre", "baseline", "inject", "paused", "detect", "recover",
            "sleep", "post"}

\* When the deployment becomes healthy again, remember when.
Healing(d, t) == healedAt' = IF d = {} /\ down # {} THEN t ELSE healedAt

-----------------------------------------------------------------------------
Init ==
    /\ rpc = "pre"
    /\ idx = 1
    /\ now = 0
    /\ down \in SUBSET Components
    /\ chaos \in ChaosKinds
    /\ victim = NoVictim
    /\ chaosStart = 0
    /\ recoveryStart = 0
    /\ healedAt = 0
    /\ recoveryTime = 0
    /\ verdict = "none"

\* verify_system_health has returned ok: before the chaos, run_chaos_scenario
\* goes on to the baseline or gives up (chaos_tests.py 266-268); in the
\* recovery loop, success computes the recovery time (255) and failure
\* sleeps (250-251).
RoundReturns(ok) ==
    /\ idx' = 1
    /\ \/ rpc = "pre" /\ ok /\ rpc' = "baseline"
          /\ UNCHANGED <<recoveryTime, verdict>>
       \/ rpc = "pre" /\ ~ok /\ rpc' = "done" /\ verdict' = "fail"
          /\ UNCHANGED recoveryTime
       \/ rpc = "recover" /\ ok /\ rpc' = "post"
          /\ recoveryTime' = now' - recoveryStart
          /\ UNCHANGED verdict
       \/ rpc = "recover" /\ ~ok /\ rpc' = "sleep"
          /\ UNCHANGED <<recoveryTime, verdict>>

\* Mutant: the round runs one endpoint past the end of the list.
CheckUpOffByOne(lat) ==
    /\ rpc \in {"pre", "recover"}
    /\ HealthEndpoints[idx] \notin down
    /\ now' = now + lat
    /\ \/ idx <= Len(HealthEndpoints) /\ idx' = idx + 1
          /\ UNCHANGED <<rpc, recoveryTime, verdict>>
       \/ idx = Len(HealthEndpoints) /\ RoundReturns(TRUE)
    /\ UNCHANGED <<down, chaos, victim, chaosStart, recoveryStart, healedAt>>

\* One request of verify_system_health answered 200 (chaos_tests.py
\* 218-234): the round goes on, or returns True after the last endpoint.
CheckUp(lat) ==
    /\ rpc \in {"pre", "recover"}
    /\ HealthEndpoints[idx] \notin down
    /\ now' = now + lat
    /\ \/ idx < Len(HealthEndpoints) /\ idx' = idx + 1
          /\ UNCHANGED <<rpc, recoveryTime, verdict>>
       \/ idx = Len(HealthEndpoints) /\ RoundReturns(TRUE)
    /\ UNCHANGED <<down, chaos, victim, chaosStart, recoveryStart, healedAt>>

\* A request of verify_system_health answered otherwise or timed out:
\* the round returns False at once (chaos_tests.py 219-236).
CheckDown(lat) ==
    /\ rpc \in {"pre", "recover"}
    /\ HealthEndpoints[idx] \in down
    /\ now' = now + lat
    /\ RoundReturns(FALSE)
    /\ UNCHANGED <<down, chaos, victim, chaosStart, recoveryStart, healedAt>>

\* measure_api_response_time before the chaos; it catches every error.
Baseline ==
    /\ rpc = "baseline"
    /\ rpc' = "inject"
    /\ UNCHANGED <<idx, now, down, chaos, victim, chaosStart, recoveryStart,
                   healedAt, recoveryTime, verdict>>

\* kill_random_service or restart_random_service: if a target container
\* runs and the draw hits, one of them goes down.
KillOrRestart ==
    /\ rpc = "inject"
    /\ chaos \in {"kill", "restart"}
    /\ chaosStart' = now
    /\ \/ down' = down /\ victim' = NoVictim
       \/ \E s \in Services \ down : down' = down \cup {s} /\ victim' = s
    /\ rpc' = "detect"
    /\ Healing(down', now)
    /\ UNCHANGED <<idx, now, chaos, recoveryStart, recoveryTime, verdict>>

\* pause_random_service: if the draw hits, a target container is paused.
Pause ==
    /\ rpc = "inject"
    /\ chaos = "pause"
    /\ chaosStart' = now
    /\ \/ down' = down /\ victim' = NoVictim /\ rpc' = "detect"
       \/ \E s \in Services \ down :
             down' = down \cup {s} /\ victim' = s /\ rpc' = "paused"
    /\ Healing(down', now)
    /\ UNCHANGED <<idx, now, chaos, recoveryStart, recoveryTime, verdict>>

\* ... sleeps its duration and unpauses the container before returning.
Unpause ==
    /\ rpc = "paused"
    /\ now' = now + PauseDuration
    /\ down' = down \ {victim}
    /\ rpc' = "detect"
    /\ Healing(down', now')
    /\ UNCHANGED <<idx, chaos, victim, chaosStart, recoveryStart,
                   recoveryTime, verdict>>

\* A chaos function raised (the container API or a missing command):
\* measure_recovery_time and the scenario propagate it.
ChaosRaised ==
    /\ rpc = "inject"
    /\ rpc' = "raised"
    /\ UNCHANGED <<idx, now, down, chaos, victim, chaosStart, recoveryStart,
                   healedAt, recoveryTime, verdict>>

\* time.sleep(5), then recovery_start = time.time() (chaos_tests.py 246-249).
Detect ==
    /\ rpc = "detect"
    /\ now' = now + DetectDelay
    /\ recoveryStart' = now'
    /\ rpc' = "recover"
    /\ UNCHANGED <<idx, down, chaos, victim, chaosStart, healedAt,
                   recoveryTime, verdict>>

\* Mutant: the give-up test dropped from the loop.
AfterSleepNoLimit ==
    /\ rpc = "sleep"
    /\ now' = now + 1
    /\ rpc' = "recover"
    /\ UNCHANGED <<idx, down, chaos, victim, chaosStart, recoveryStart,
                   healedAt, recoveryTime, verdict>>

\* Mutant: recovery_start taken again on every pass of the loop.
AfterSleepRestart ==
    /\ rpc = "sleep"
    /\ now' = now + 1
    /\ recoveryStart' = now'
    /\ rpc' = "recover"
    /\ UNCHANGED <<idx, down, chaos, victim, chaosStart, healedAt,
                   recoveryTime, verdict>>

\* time.sleep(1), then give up with -1 once more than the limit has passed
\* since recovery_start (chaos_tests.py 250-253).
AfterSleep ==
    /\ rpc = "sleep"
    /\ now' = now + 1
    /\ \/ now' - recoveryStart > RecoveryLimit
          /\ recoveryTime' = -1 /\ rpc' = "post"
       \/ now' - recoveryStart <= RecoveryLimit
          /\ rpc' = "recover" /\ UNCHANGED recoveryTime
    /\ UNCHANGED <<idx, down, chaos, victim, chaosStart, recoveryStart,
                   healedAt, verdict>>

\* measure_api_response_time after the chaos, then the verdict
\* (chaos_tests.py 277-286).
Post ==
    /\ rpc = "post"
    /\ rpc' = "done"
    /\ verdict' = IF recoveryTime > 0 /\ recoveryTime < PassLimit
                    THEN "pass" ELSE "fail"
    /\ UNCHANGED <<idx, now, down, chaos, victim, chaosStart, recoveryStart,
                   healedAt, recoveryTime>>

\* The deployment brings a component back (its orchestrator restarts it).
Heal(c) ==
    /\ c \in down
    /\ down' = down \ {c}
    /\ Healing(down', now)
    /\ UNCHANGED <<rpc, idx, now, chaos, victim, chaosStart, recoveryStart,
                   recoveryTime, verdict>>

Runner ==
    \/ \E lat \in Latencies : CheckUp(lat)
    \/ \E lat \in Latencies \cup {HealthTimeout} : CheckDown(lat)
    \/ Baseline \/ KillOrRestart \/ Pause \/ Unpause \/ ChaosRaised
    \/ Detect \/ AfterSleep \/ Post

Next == Runner \/ \E c \in Components : Heal(c)

\* The harness is one thread whose every request has a timeout and whose
\* every sleep ends; the deployment owes no recovery.
Spec == Init /\ [][Next]_vars /\ WF_vars(Runner)

-----------------------------------------------------------------------------
TypeOK ==
    /\ rpc \in Running \cup {"done", "raised"}
    /\ idx \in 1..Len(HealthEndpoints)
    /\ now \in Nat
    /\ down \subseteq Components
    /\ chaos \in ChaosKinds
    /\ victim \in Services \cup {NoVictim}
    /\ {chaosStart, recoveryStart, healedAt} \subseteq Nat
    /\ recoveryTime \in Int
    /\ verdict \in {"none", "pass", "fail"}

\* The longest a measurement can take past recovery_start: the limit is
\* tested only after a failed round and a one-second sleep, so a round
\* started just under the limit still runs to its end, each of its four
\* requests taking as long as the deployment makes it.
MeasureBound == RecoveryLimit + Len(HealthEndpoints) * MaxLatency

\* measure_recovery_time's five-minute limit bounds the measurement: the
\* loop never runs, and never reports a recovery, more than one health
\* round of four requests past it, however long the deployment stays down
\* (the give-up test after the sleep at chaos_tests.py 251-253).
MeasureWithinLimit ==
    /\ rpc \in {"recover", "sleep"} => now - recoveryStart <= MeasureBound
    /\ rpc \in {"post", "done"} /\ recoveryTime > 0 =>
           recoveryTime <= MeasureBound

\* Every scenario ends with a verdict or an exception, even when the
\* deployment never recovers.
ScenarioEnds == <>(rpc \in {"done", "raised"})

\* The comment of run_chaos_scenario (chaos_tests.py:286) and the
\* docstring of measure_recovery_time: a scenario passes only if the
\* deployment recovered within a minute of the chaos.
PassMeansRecoveredWithinLimit ==
    verdict = "pass" => healedAt - chaosStart < PassLimit

=============================================================================
