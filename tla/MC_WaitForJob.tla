-------------------------- MODULE MC_WaitForJob --------------------------
(* wait_for_job on a small instance: a deadline of four seconds polled    *)
(* every second, probes with two retries whose backoffs (0, 2) and a      *)
(* Retry-After of 2 can carry a probe past the deadline, and a job that   *)
(* the server may move through any status.                                *)
EXTENDS WaitForJob

MC_Statuses == {200, 401, 503}
MC_RetryAfterValues == {2}
MC_Latencies == {0, 1}

\* What the waiter decides depends on now - start only (start is set once,
\* every guard and update of the clock is relative), so states are told
\* apart by the elapsed time rather than by the clock.
ElapsedView ==
    <<tpc, method, total, attempts, sent, last, result, body, now - start,
      wpc, job, seen, jobStatus>>
=============================================================================
