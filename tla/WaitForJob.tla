---------------------------- MODULE WaitForJob ----------------------------
(***************************************************************************)
(* ComputeHiveClient.wait_for_job (client.py 261-294) polling a job that   *)
(* lives on the server.  Every probe is get_job (client.py 221-223), a GET *)
(* through Transport, so a probe may take several attempts, sleep between  *)
(* them, and fail.  After a successful probe the optional callback sees    *)
(* the job record; a terminal status ends the wait, otherwise the waiter   *)
(* sleeps poll_interval and checks its deadline again.                     *)
(*                                                                         *)
(* The server's job is the environment: it moves between statuses while   *)
(* the waiter runs and never leaves a terminal status (spec, Glossary).    *)
(* Real time passes while the SDK runs (Tick).  The job record is          *)
(* abstracted to its status, which is all wait_for_job reads of it.        *)
(***************************************************************************)
EXTENDS Integers

CONSTANTS
    MaxRetries, RequestTimeout, Statuses, RetryAfterValues, NoHeader,
    Latencies, NoBody,
    Timeout,       \* the timeout argument of wait_for_job, in seconds
    PollInterval,  \* the poll_interval argument, in seconds
    HasCallback    \* whether a callback was passed

VARIABLES
    tpc, method, total, attempts, sent, last, result, body, now,
    wpc,        \* where wait_for_job is: "check", "probe" or how it ended
    start,      \* start_time = time.time() (client.py:280)
    job,        \* the job record of the latest probe (its status)
    seen,       \* the record the callback was last called with
    jobStatus   \* the status of the job on the server

JobStatuses == {"pending", "scheduled", "running", "completed", "failed", "cancelled"}

\* The statuses a job never leaves on the server (spec, Glossary).
FinalStatuses == {"completed", "failed", "cancelled"}

\* Mutant: a non-terminal status taken for a terminal one.
TerminalStatusesWithRunning == {"completed", "failed", "cancelled", "running"}

\* The statuses that end the wait (client.py:289).
TerminalStatuses == {"completed", "failed", "cancelled"}

ASSUME TimeoutAssumption == Timeout \in Int
ASSUME PollIntervalAssumption == PollInterval \in Nat
ASSUME HasCallbackAssumption == HasCallback \in BOOLEAN

T == INSTANCE Transport WITH Bodies <- JobStatuses

\* What Transport assumes of the constants this module passes it, restated
\* here: tlapm does not make the ASSUMEs of an instanced module facts.
ASSUME TransportAssumption ==
    /\ MaxRetries \in Nat
    /\ RequestTimeout \in Nat
    /\ Latencies \subseteq 0..RequestTimeout
    /\ \A n \in 1..MaxRetries + 1 : T!BackoffTime(n) \in Nat

wvars == <<wpc, start, job, seen>>
vars == <<tpc, method, total, attempts, sent, last, result, body, now,
          wpc, start, job, seen, jobStatus>>

Ended == {"returned", "timed_out", "raised"}

-----------------------------------------------------------------------------
Init ==
    /\ T!TInit
    /\ wpc = "check"
    /\ start = now
    /\ job = NoBody
    /\ seen = NoBody
    /\ jobStatus \in JobStatuses

\* Mutant: start_time taken again on every pass of the loop.
LoopProbeRestart ==
    /\ wpc = "check"
    /\ now - start < Timeout
    /\ wpc' = "probe"
    /\ T!Request("GET")
    /\ start' = now
    /\ UNCHANGED <<job, seen, jobStatus>>

\* while time.time() - start_time < timeout: job = self.get_job(job_id)
LoopProbe ==
    /\ wpc = "check"
    /\ now - start < Timeout
    /\ wpc' = "probe"
    /\ T!Request("GET")
    /\ UNCHANGED <<start, job, seen, jobStatus>>

\* The deadline has passed: raise JobError (client.py:294).
LoopTimeout ==
    /\ wpc = "check"
    /\ now - start >= Timeout
    /\ wpc' = "timed_out"
    /\ UNCHANGED <<tpc, method, total, attempts, sent, last, result, body, now,
                   start, job, seen, jobStatus>>

\* One attempt of get_job; a 2xx carries the job as the server has it now.
ProbeAttempt ==
    /\ wpc = "probe"
    /\ T!AttemptStep(jobStatus)
    /\ UNCHANGED <<wvars, jobStatus>>

\* get_job raised: wait_for_job does not catch it.
ProbeFailed ==
    /\ wpc = "probe"
    /\ tpc = "done"
    /\ result # "ok"
    /\ wpc' = "raised"
    /\ UNCHANGED <<tpc, method, total, attempts, sent, last, result, body, now,
                   start, job, seen, jobStatus>>

\* Mutant: the status tested before the callback is called.
ObserveCallbackLast ==
    /\ wpc = "probe"
    /\ tpc = "done"
    /\ result = "ok"
    /\ job' = body
    /\ seen' = IF HasCallback /\ body \notin TerminalStatuses
                 THEN body ELSE seen
    /\ \/ body \in TerminalStatuses /\ wpc' = "returned" /\ UNCHANGED now
       \/ body \notin TerminalStatuses /\ HasCallback
          /\ wpc' = "raised" /\ UNCHANGED now
       \/ body \notin TerminalStatuses /\ wpc' = "check"
          /\ now' = now + PollInterval
    /\ UNCHANGED <<tpc, method, total, attempts, sent, last, result, body,
                   start, jobStatus>>

\* get_job returned (client.py 283-292): the callback is called with the
\* job and may raise; then a terminal status returns the job, any other
\* status sleeps poll_interval before the deadline is checked again.
Observe ==
    /\ wpc = "probe"
    /\ tpc = "done"
    /\ result = "ok"
    /\ job' = body
    /\ seen' = IF HasCallback THEN body ELSE seen
    /\ \/ HasCallback /\ wpc' = "raised" /\ UNCHANGED now
       \/ body \in TerminalStatuses /\ wpc' = "returned" /\ UNCHANGED now
       \/ body \notin TerminalStatuses /\ wpc' = "check"
          /\ now' = now + PollInterval
    /\ UNCHANGED <<tpc, method, total, attempts, sent, last, result, body,
                   start, jobStatus>>

\* Wall-clock time passes while the waiter runs.  Only the time up to the
\* deadline is represented: later time changes nothing the waiter decides.
Tick ==
    /\ wpc \notin Ended
    /\ now - start < Timeout
    /\ now' = now + 1
    /\ UNCHANGED <<tpc, method, total, attempts, sent, last, result, body,
                   wvars, jobStatus>>

\* The server moves the job on; a terminal status is final.
ServerStep ==
    /\ jobStatus \notin FinalStatuses
    /\ jobStatus' \in JobStatuses \ {jobStatus}
    /\ UNCHANGED <<tpc, method, total, attempts, sent, last, result, body, now,
                   wvars>>

Waiter == LoopProbe \/ LoopTimeout \/ ProbeAttempt \/ ProbeFailed \/ Observe

Next == Waiter \/ Tick \/ ServerStep

\* The waiter is the caller's thread and keeps running (every attempt ends
\* within the per-attempt timeout or a finite sleep); real time advances.
\* The server owes the job no progress.
Spec == Init /\ [][Next]_vars /\ WF_vars(Waiter) /\ WF_vars(Tick)

-----------------------------------------------------------------------------
TypeOK ==
    /\ T!TypeOK
    /\ wpc \in {"check", "probe"} \cup Ended
    /\ start \in Nat
    /\ job \in JobStatuses \cup {NoBody}
    /\ seen \in JobStatuses \cup {NoBody}
    /\ jobStatus \in JobStatuses

\* The record wait_for_job returns is terminal and is what the server
\* still holds: the waiter never reports a status the job can still leave
\* (the terminal list at client.py:289 against the server's lifecycle).
ReturnedMatchesServer ==
    wpc = "returned" => job \in FinalStatuses /\ job = jobStatus

\* Spec §4.3: the callback is invoked even when the first observation is
\* terminal, so with a callback the returned record is the one the
\* callback last saw (callback before the status test, client.py 285-290).
CallbackSeesReturned ==
    HasCallback /\ wpc = "returned" => seen = job

\* The refinement mapping to JobWait: the wait is over once wpc says how it
\* ended, and the caller holds a record only once it was returned.
WaitOutcome ==
    IF wpc = "returned" THEN "returned"
    ELSE IF wpc \in {"timed_out", "raised"} THEN "failed" ELSE "waiting"
ReturnedJob == IF wpc = "returned" THEN job ELSE NoBody

JW == INSTANCE JobWait WITH outcome <- WaitOutcome, job <- ReturnedJob

\* wait_for_job keeps the promise of JobWait: its loop of probes, retries,
\* callbacks and sleeps ends once, and when it returns the job, the job's
\* status is final and is the one the server holds as the loop returns
\* (client.py 282-294 against the server's lifecycle).
ImplementsJobWait == JW!ASpec

\* wait_for_job always ends: it returns, raises, or times out, even if the
\* job never finishes (the deadline test at client.py:282).
WaitEnds == <>(wpc \in Ended)

\* Spec §8.7: a wait that never sees a terminal status fails with a job
\* timeout within timeout + poll_interval of wall time.
TimeoutWithinBound ==
    wpc = "timed_out" => now - start <= Timeout + PollInterval

=============================================================================
