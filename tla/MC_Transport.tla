--------------------------- MODULE MC_Transport ---------------------------
(* Transport on a small instance: three retries (four attempts, backoffs   *)
(* 0, 2, 4), one status of each class _make_request tells apart, and a     *)
(* Retry-After header that is either falsy ("0") or a positive delay.      *)
EXTENDS Transport

MC_Statuses == {200, 400, 401, 413, 503}
MC_RetryAfterValues == {0, 5}
MC_Latencies == {0, 1}
MC_Bodies == {"job"}

\* 204 No Content, the answer cancel_job typically gets, in place of 200.
MC_StatusesNoContent == (MC_Statuses \ {200}) \cup {204}

\* Calls follow each other without end; the clock is cut off here.
MaxTime == 12
TimeBound == now <= MaxTime
=============================================================================
