------------------------- MODULE MC_ChaosRecovery --------------------------
(***************************************************************************)
(* A chaos scenario at a scale TLC can explore.  The harness's constants   *)
(* (300 s limit, 60 s verdict, 5 s detection sleep, 5 s request timeout,   *)
(* 30 s pause) are scaled down keeping their order: the detection sleep    *)
(* and the pause are shorter than the verdict bound, which is shorter than *)
(* the give-up limit, and a slow answer takes longer than the timeout.    *)
(***************************************************************************)
EXTENDS ChaosRecovery

\* An answer within the timeout, and a slow one past it.
MC_Latencies == {1, 3}
MC_ChaosKinds == {"kill", "pause", "restart"}

\* No behaviour of the scenario gets past this many seconds.
TimeCap == 50

CapTime(t) == IF t <= TimeCap THEN t ELSE TimeCap

\* States are told apart by their times only up to TimeCap, which no state
\* of the harness reaches; a loop that ran on forever is then a cycle.
CappedView ==
    <<rpc, idx, CapTime(now), down, chaos, victim, CapTime(chaosStart),
      CapTime(recoveryStart), CapTime(healedAt), recoveryTime, verdict>>

=============================================================================
