--------------------------- MODULE MC_QuickRun ----------------------------
(* quick_run_docker on a small instance: one retry per call, a transient *)
(* status, an auth failure and success, read timeouts that may or may not *)
(* have created the job, and a wait of three seconds polled every second. *)
EXTENDS QuickRun

MC_Statuses == {200, 401, 503}
MC_RetryAfterValues == {1}
MC_Latencies == {0, 1}

\* Every guard reads time through now - start (the submit's attempts before
\* start is set do not read the clock), so states are told apart by it.
ElapsedView ==
    <<tpc, method, total, attempts, sent, last, result, body, now - start,
      wpc, job, seen, jobStatus, qpc, waitArg, jobs>>
=============================================================================
