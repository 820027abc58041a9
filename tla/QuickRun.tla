----------------------------- MODULE QuickRun ------------------------------
(***************************************************************************)
(* quick_run_docker (client.py 454-485) composed from the other modules:   *)
(* create_client checks the API key (client.py 127-130, 448-451); the job  *)
(* is submitted by a POST through Transport (submit_docker_job ->          *)
(* submit_job); with wait it is awaited by wait_for_job (module            *)
(* WaitForJob, no callback) and, if it completed, its result is fetched by *)
(* a GET (get_job_result).                                                 *)
(*                                                                         *)
(* The server creates the job when the POST reaches it and is answered     *)
(* 2xx; when the answer is lost (a read error, or an other error such as  *)
(* an SSLError while the answer was read) it may have created it or not.   *)
(* Once created, the job moves through its statuses on its own.            *)
(***************************************************************************)
EXTENDS Integers

CONSTANTS
    MaxRetries, RequestTimeout, Statuses, RetryAfterValues, NoHeader,
    Latencies, NoBody, Timeout, PollInterval

VARIABLES
    tpc, method, total, attempts, sent, last, result, body, now,
    wpc, start, job, seen, jobStatus,
    qpc,      \* where quick_run_docker is
    waitArg,  \* the wait argument
    jobs      \* how many jobs the server created for this call

\* The bodies the three calls may decode: the job record of submit_job, with
\* or without its "id", and the result record of get_job_result.
SubmitBodies == {"job", "job_without_id"}
CallBodies == SubmitBodies \cup {"result"}

W == INSTANCE WaitForJob WITH HasCallback <- FALSE
T == INSTANCE Transport WITH Bodies <- CallBodies \cup W!JobStatuses

\* What Transport and WaitForJob assume of the constants this module passes
\* them, restated here: tlapm does not make the ASSUMEs of an instanced
\* module facts.
ASSUME TransportAssumption ==
    /\ MaxRetries \in Nat
    /\ RequestTimeout \in Nat
    /\ Latencies \subseteq 0..RequestTimeout
    /\ \A n \in 1..MaxRetries + 1 : T!BackoffTime(n) \in Nat
ASSUME PollIntervalAssumption == PollInterval \in Nat

vars == <<tpc, method, total, attempts, sent, last, result, body, now,
          wpc, start, job, seen, jobStatus, qpc, waitArg, jobs>>
qvars == <<qpc, waitArg, jobs>>

Ended == {"returned_job", "returned_result", "raised"}

-----------------------------------------------------------------------------
\* A 2xx answer to the POST: the server created the job.
Answered2xx(o) == o.kind = "response" /\ o.status \in 200..299

\* Whether the server may have created the job on this attempt: it did when
\* it answered 2xx; when the request reached it and the answer was lost it
\* may have.
Creates(o) == Answered2xx(o) \/ o.kind \in {"read_error", "other_error"}

Init ==
    /\ T!TInit
    /\ wpc = "check"
    /\ start = 0
    /\ job = NoBody
    /\ seen = NoBody
    /\ jobStatus = "pending"
    /\ qpc = "construct"
    /\ waitArg \in BOOLEAN
    /\ jobs = 0

\* create_client(api_key): the key comes from the argument or
\* COMPUTEHIVE_API_KEY; without one the constructor raises.  With one,
\* submit_docker_job builds the envelope and submit_job POSTs it.
Construct ==
    /\ qpc = "construct"
    /\ \/ qpc' = "raised" /\ UNCHANGED <<tpc, method, total, attempts, sent,
                                        last, result, body, now>>
       \/ qpc' = "submit" /\ T!Request("POST")
    /\ UNCHANGED <<wpc, start, job, seen, jobStatus, waitArg, jobs>>

\* One attempt of the submit POST.  The server creates the job if the
\* attempt's outcome says it did, or may have when the answer was lost.
SubmitAttempt ==
    /\ qpc = "submit"
    /\ \E b \in SubmitBodies : T!AttemptStep(b)
    /\ \/ Creates(last') /\ jobs' = jobs + 1
       \/ ~Answered2xx(last') /\ UNCHANGED jobs
    /\ UNCHANGED <<wpc, start, job, seen, jobStatus, qpc, waitArg>>

\* submit_docker_job returned or raised (client.py 475-478, 485): without wait
\* the job record is returned as it is; with wait, job['id'] starts
\* wait_for_job, or raises KeyError when the record has no id.
Submitted ==
    /\ qpc = "submit"
    /\ tpc = "done"
    /\ \/ result # "ok" /\ qpc' = "raised" /\ UNCHANGED <<wpc, start>>
       \/ result = "ok" /\ ~waitArg /\ qpc' = "returned_job"
          /\ UNCHANGED <<wpc, start>>
       \/ result = "ok" /\ waitArg /\ body = "job_without_id"
          /\ qpc' = "raised" /\ UNCHANGED <<wpc, start>>
       \/ result = "ok" /\ waitArg /\ body = "job"
          /\ qpc' = "wait" /\ wpc' = "check" /\ start' = now
    /\ UNCHANGED <<tpc, method, total, attempts, sent, last, result, body, now,
                   job, seen, jobStatus, waitArg, jobs>>

\* wait_for_job(job['id']) runs.
Waiting ==
    /\ qpc = "wait"
    /\ W!Waiter
    /\ UNCHANGED qvars

\* Mutant: any terminal status taken for success.
WaitedAnyTerminal ==
    /\ qpc = "wait"
    /\ wpc \in W!Ended
    /\ \/ wpc = "returned" /\ qpc' = "result" /\ T!Request("GET")
       \/ wpc # "returned" /\ qpc' = "raised"
          /\ UNCHANGED <<tpc, method, total, attempts, sent, last, result,
                         body, now>>
    /\ UNCHANGED <<wpc, start, job, seen, jobStatus, waitArg, jobs>>

\* wait_for_job ended (client.py 479-484): a completed job's result is
\* fetched; failed or cancelled raises JobError; a timeout or a probe
\* error propagates.
Waited ==
    /\ qpc = "wait"
    /\ wpc \in W!Ended
    /\ \/ wpc = "returned" /\ job = "completed"
          /\ qpc' = "result" /\ T!Request("GET")
       \/ (wpc # "returned" \/ job # "completed") /\ qpc' = "raised"
          /\ UNCHANGED <<tpc, method, total, attempts, sent, last, result,
                         body, now>>
    /\ UNCHANGED <<wpc, start, job, seen, jobStatus, waitArg, jobs>>

\* One attempt of get_job_result.
ResultAttempt ==
    /\ qpc = "result"
    /\ T!AttemptStep("result")
    /\ UNCHANGED <<wpc, start, job, seen, jobStatus, qvars>>

\* get_job_result returned (the result record) or raised.
ResultReturned ==
    /\ qpc = "result"
    /\ tpc = "done"
    /\ qpc' = IF result = "ok" THEN "returned_result" ELSE "raised"
    /\ UNCHANGED <<tpc, method, total, attempts, sent, last, result, body, now,
                   wpc, start, job, seen, jobStatus, waitArg, jobs>>

\* Time passes while the caller waits.
Tick ==
    /\ qpc = "wait"
    /\ W!Tick
    /\ UNCHANGED qvars

\* The server runs the job once it exists.
ServerStep ==
    /\ jobs > 0
    /\ W!ServerStep
    /\ UNCHANGED qvars

Runner ==
    \/ Construct \/ SubmitAttempt \/ Submitted \/ Waiting \/ Waited
    \/ ResultAttempt \/ ResultReturned

Next == Runner \/ Tick \/ ServerStep

\* The caller's thread runs on and time passes; the server owes nothing.
Spec == Init /\ [][Next]_vars /\ WF_vars(Runner) /\ WF_vars(Tick)

-----------------------------------------------------------------------------
TypeOK ==
    /\ T!TypeOK
    /\ wpc \in {"check", "probe"} \cup W!Ended
    /\ start \in Nat
    /\ job \in W!JobStatuses \cup {NoBody}
    /\ jobStatus \in W!JobStatuses
    /\ qpc \in {"construct", "submit", "wait", "result"} \cup Ended
    /\ waitArg \in BOOLEAN
    /\ jobs \in Nat

\* Spec §4.4: with wait, quick_run_docker returns the result record only
\* for a job that completed, and the job is still completed on the server
\* (the status test at client.py:480 after wait_for_job).
ResultOnlyOfCompleted ==
    qpc = "returned_result" => body = "result" /\ jobStatus = "completed"

\* quick_run_docker always ends: it returns or raises, even if the job
\* never finishes or the server stops answering.
QuickRunEnds == <>(qpc \in Ended)

=============================================================================
