CONSTANTS
    RecoveryLimit = 10
    PassLimit = 8
    DetectDelay = 5
    HealthTimeout = 2
    Latencies <- MC_Latencies
    MaxLatency = 3
    PauseDuration = 2
    ChaosKinds <- MC_ChaosKinds
    NoVictim = NoVictim
SPECIFICATION Spec
VIEW CappedView
\* A scenario ends with a verdict or an exception and the harness stops.
CHECK_DEADLOCK FALSE
INVARIANTS
    TypeOK
    MeasureWithinLimit
PROPERTIES
    ScenarioEnds
