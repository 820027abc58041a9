------------------------------ MODULE JobWait ------------------------------
(***************************************************************************)
(* What wait_for_job (client.py 261-294) promises its caller, without      *)
(* probes, retries, sleeps or clocks: while the job moves on the server,   *)
(* the wait ends exactly once, either returning the job with a status it   *)
(* can no longer leave, the status the server holds at that moment, or     *)
(* failing (JobError on the deadline, or an error of get_job or of the     *)
(* callback).  Module WaitForJob implements it.                            *)
(***************************************************************************)
CONSTANTS NoBody

VARIABLES
    outcome,    \* "waiting", "returned" or "failed"
    job,        \* the record returned to the caller, NoBody before
    jobStatus   \* the status of the job on the server

avars == <<outcome, job, jobStatus>>

JobStatuses == {"pending", "scheduled", "running", "completed", "failed", "cancelled"}
FinalStatuses == {"completed", "failed", "cancelled"}

AInit ==
    /\ outcome = "waiting"
    /\ job = NoBody
    /\ jobStatus \in JobStatuses

\* The wait returns the job as the server has it, once it is final
\* (return job, client.py:290).
Return ==
    /\ outcome = "waiting"
    /\ jobStatus \in FinalStatuses
    /\ outcome' = "returned"
    /\ job' = jobStatus
    /\ UNCHANGED jobStatus

\* The wait raises: the deadline passed (client.py:294), get_job raised
\* (client.py:283) or the callback raised (client.py:286).
Fail ==
    /\ outcome = "waiting"
    /\ outcome' = "failed"
    /\ UNCHANGED <<job, jobStatus>>

\* The server moves the job on until it is final.
Move ==
    /\ jobStatus \notin FinalStatuses
    /\ jobStatus' \in JobStatuses \ {jobStatus}
    /\ UNCHANGED <<outcome, job>>

ANext == Return \/ Fail \/ Move

\* What may happen, without the promise that the wait ends.
ASafety == AInit /\ [][ANext]_avars

\* The caller's wait ends; the server owes no progress.
ASpec == AInit /\ [][ANext]_avars /\ WF_avars(Return \/ Fail)

=============================================================================
