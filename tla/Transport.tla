----------------------------- MODULE Transport -----------------------------
(***************************************************************************)
(* One call of ComputeHiveClient._make_request (client.py 152-180) over    *)
(* the requests Session that the constructor builds (client.py 132-148):   *)
(* an HTTPAdapter whose urllib3 Retry has total = max_retries,             *)
(* backoff_factor = 1 and status_forcelist = [429, 500, 502, 503, 504].    *)
(*                                                                         *)
(* A call is a sequence of attempts.  Each attempt ends with an outcome:   *)
(* an HTTP response (status, Retry-After header, JSON or not), a connect   *)
(* error (the request never left), a read error (the request left, the     *)
(* answer did not arrive in time or the connection was dropped), or an     *)
(* other error (an SSLError or ProxyError raised while the answer was      *)
(* read, after the request left).  urllib3 decides after each outcome      *)
(* whether to retry, sleeps, and finally either hands a response to        *)
(* _make_request or raises; _make_request classifies what it gets.         *)
(*                                                                         *)
(* The Retry semantics are those of the urllib3 that requests uses         *)
(* (Retry.is_retry, increment, is_exhausted, sleep, get_backoff_time).     *)
(***************************************************************************)
EXTENDS Integers

CONSTANTS
    MaxRetries,        \* max_retries of the client: Retry(total=...)
    RequestTimeout,    \* timeout of the client: how long one attempt may wait
    Statuses,          \* the HTTP statuses a server may answer with
    RetryAfterValues,  \* the Retry-After header values a server may send
    NoHeader,          \* marks a response without a Retry-After header
    Latencies,         \* how long an attempt that is answered may take
    Bodies,            \* the decoded JSON bodies a 2xx answer may carry
    NoBody             \* marks that no body has been returned yet

ASSUME MaxRetriesAssumption == MaxRetries \in Nat
ASSUME RequestTimeoutAssumption == RequestTimeout \in Nat
\* requests follows redirects itself and never retries them here, so the
\* statuses that reach _make_request are 2xx, 4xx or 5xx.
ASSUME StatusesAssumption == Statuses \subseteq (200..299) \cup (400..599)
ASSUME RetryAfterAssumption ==
    RetryAfterValues \subseteq Nat /\ NoHeader \notin Nat
ASSUME LatenciesAssumption == Latencies \subseteq 0..RequestTimeout
ASSUME NoBodyAssumption == NoBody \notin Bodies

VARIABLES
    tpc,       \* "idle" before any call, "attempt" while urllib3 works, "done"
    method,    \* the HTTP method of the call
    total,     \* Retry.total of the current Retry object
    attempts,  \* attempts made in this call (len(Retry.history) + 1 on exit)
    sent,      \* attempts whose request reached the server
    last,      \* outcome of the latest attempt
    result,    \* what _make_request returned or raised
    body,      \* the decoded body of the last successful call
    now        \* wall-clock time in seconds

tvars == <<tpc, method, total, attempts, sent, last, result, body, now>>

-----------------------------------------------------------------------------
(* Constants of the SDK and of urllib3's Retry.                            *)

Methods == {"GET", "POST"}                       \* all the SDK ever sends
StatusForcelist == {429, 500, 502, 503, 504}     \* client.py:137
BackoffFactor == 1                               \* client.py:136
RetryAfterStatusCodes == {413, 429, 503}         \* Retry.RETRY_AFTER_STATUS_CODES
AllowedMethods == {"HEAD", "GET", "PUT", "DELETE", "OPTIONS", "TRACE"}
BackoffMax == 120                                \* Retry.DEFAULT_BACKOFF_MAX

\* What _make_request can end with: a decoded body, or one of the errors
\* it raises (client.py 172-180).
Results == {"none", "ok", "auth", "bad_request", "api", "network"}

\* An outcome is uniform so that sets of outcomes are records of one shape;
\* status 0 stands for "no response".  JSON is only looked at on a 2xx.
Responses ==
    {o \in [kind : {"response"}, status : Statuses,
            retryAfter : RetryAfterValues \cup {NoHeader}, json : BOOLEAN] :
        /\ o.json => o.status \in 200..299
        /\ o.status = 204 => ~o.json}      \* 204 No Content has no body
\* An SSLError raised before the request left (a failed handshake) takes
\* the other-error branch too, but is retried and not delivered exactly
\* like a connect error, so connect_error stands for it.
Failures ==
    [kind : {"connect_error", "read_error", "other_error"}, status : {0},
     retryAfter : {NoHeader}, json : {FALSE}]
Outcomes == Responses \cup Failures
NoOutcome == [kind |-> "none", status |-> 0, retryAfter |-> NoHeader, json |-> FALSE]

\* The time an attempt takes: a read error is the per-attempt timeout
\* expiring, anything else ends within it.
AttemptTime(o) == IF o.kind = "read_error" THEN {RequestTimeout} ELSE Latencies

MinOf(a, b) == IF a <= b THEN a ELSE b

\* Retry.get_backoff_time with n entries in the history (no redirects).
BackoffTime(n) ==
    IF n <= 1 THEN 0 ELSE MinOf(BackoffMax, BackoffFactor * 2^(n - 1))

\* The backoff values are whole seconds for every history the budget allows.
ASSUME BackoffAssumption == \A n \in 1..MaxRetries + 1 : BackoffTime(n) \in Nat

\* Retry.sleep(response): a positive Retry-After is slept as it is,
\* otherwise the exponential backoff.  Errors carry no header.
SleepTime(o, n) ==
    IF o.retryAfter \in Nat \ {0} THEN o.retryAfter ELSE BackoffTime(n)

\* Mutant: the allowed_methods test dropped, as if POST were idempotent.
IsRetryAnyMethod(m, o, t) ==
    \/ o.status \in StatusForcelist
    \/ t # 0 /\ o.retryAfter # NoHeader /\ o.status \in RetryAfterStatusCodes

\* Retry.is_retry(method, status, has_retry_after), with t = Retry.total.
IsRetry(m, o, t) ==
    /\ m \in AllowedMethods
    /\ \/ o.status \in StatusForcelist
       \/ t # 0 /\ o.retryAfter # NoHeader /\ o.status \in RetryAfterStatusCodes

\* Whether urllib3 calls Retry.increment on this outcome, rather than
\* returning the response or re-raising the error (connectionpool.urlopen),
\* and increment does not re-raise it: a connect error and an other error
\* are retried for every method, a read error only for allowed_methods.
Retryable(o) ==
    \/ o.kind = "response" /\ IsRetry(method, o, total)
    \/ o.kind \in {"connect_error", "other_error"}
    \/ o.kind = "read_error" /\ method \in AllowedMethods

\* What _make_request makes of an outcome urllib3 hands back: raise_for_status,
\* then response.json(); a JSON decoding error is a RequestException, and a
\* connect or read error surfaces as a RequestException too.
Classify(o) ==
    IF o.kind # "response" THEN "network"
    ELSE IF o.status \in 200..299 THEN (IF o.json THEN "ok" ELSE "network")
    ELSE IF o.status = 401 THEN "auth"
    ELSE IF o.status = 400 THEN "bad_request"
    ELSE "api"

-----------------------------------------------------------------------------
(* Actions.                                                                *)

TInit ==
    /\ tpc = "idle"
    /\ method = "GET"
    /\ total = MaxRetries
    /\ attempts = 0
    /\ sent = 0
    /\ last = NoOutcome
    /\ result = "none"
    /\ body = NoBody
    /\ now = 0

\* Mutant: a call that goes on counting the attempts of the previous one.
RequestKeepsHistory(m) ==
    /\ tpc \in {"idle", "done"}
    /\ tpc' = "attempt"
    /\ method' = m
    /\ total' = MaxRetries
    /\ result' = "none"
    /\ last' = NoOutcome
    /\ sent' = 0
    /\ UNCHANGED <<attempts, body, now>>

\* A caller enters _make_request(method, ...): session.request starts with
\* the adapter's Retry object, whose total is max_retries.
Request(m) ==
    /\ tpc \in {"idle", "done"}
    /\ tpc' = "attempt"
    /\ method' = m
    /\ total' = MaxRetries
    /\ attempts' = 0
    /\ sent' = 0
    /\ last' = NoOutcome
    /\ result' = "none"
    /\ UNCHANGED <<body, now>>

\* The part common to every attempt: it is counted, its outcome recorded,
\* and the request reached the server unless the connection failed.
Attempted(o) ==
    /\ tpc = "attempt"
    /\ attempts' = attempts + 1
    /\ sent' = sent + (IF o.kind = "connect_error" THEN 0 ELSE 1)
    /\ last' = o

\* Mutant: exhaustion tested one retry late.
RetryAttemptOffByOne(o, d) ==
    /\ Attempted(o)
    /\ Retryable(o)
    /\ total - 1 >= -1
    /\ total' = total - 1
    /\ now' = now + d + SleepTime(o, attempts + 1)
    /\ UNCHANGED <<tpc, method, result, body>>

\* The outcome is retryable and Retry.increment leaves total >= 0: urllib3
\* sleeps (Retry-After or backoff over the new history) and tries again.
RetryAttempt(o, d) ==
    /\ Attempted(o)
    /\ Retryable(o)
    /\ total - 1 >= 0
    /\ total' = total - 1
    /\ now' = now + d + SleepTime(o, attempts + 1)
    /\ UNCHANGED <<tpc, method, result, body>>

\* The outcome is retryable but the budget is spent: increment raises
\* MaxRetryError, which requests turns into ConnectionError or RetryError,
\* both RequestExceptions: "Network error" (client.py 179-180).
ExhaustAttempt(o, d) ==
    /\ Attempted(o)
    /\ Retryable(o)
    /\ total - 1 < 0
    /\ tpc' = "done"
    /\ result' = "network"
    /\ now' = now + d
    /\ UNCHANGED <<method, total, body>>

\* The outcome is not retried: a response goes through raise_for_status
\* and response.json() (client.py 170-178), an error is re-raised.
FinalAttempt(o, d, b) ==
    /\ Attempted(o)
    /\ ~Retryable(o)
    /\ tpc' = "done"
    /\ result' = Classify(o)
    /\ body' = IF Classify(o) = "ok" THEN b ELSE body
    /\ now' = now + d
    /\ UNCHANGED <<method, total>>

\* One attempt of the current call, whatever it ends with.
AttemptStep(b) ==
    \E o \in Outcomes :
        \E d \in AttemptTime(o) :
            \/ RetryAttempt(o, d)
            \/ ExhaustAttempt(o, d)
            \/ FinalAttempt(o, d, b)

\* A caller that issues calls one after the other, as the API methods do.
TNext ==
    \/ \E m \in Methods : Request(m)
    \/ \E b \in Bodies : AttemptStep(b)

TSpec == TInit /\ [][TNext]_tvars

-----------------------------------------------------------------------------
(* Properties.                                                             *)

TypeOK ==
    /\ tpc \in {"idle", "attempt", "done"}
    /\ method \in Methods
    /\ total \in 0..MaxRetries
    /\ attempts \in Nat
    /\ sent \in Nat
    /\ last \in Outcomes \cup {NoOutcome}
    /\ result \in Results
    /\ body \in Bodies \cup {NoBody}
    /\ now \in Nat

\* Spec §8.4: no retry loop beyond the budget.  A call makes at most
\* max_retries + 1 attempts, whatever mix of statuses, connect errors and
\* read errors it meets (Retry.increment / is_exhausted, client.py:135).
AttemptBudget == attempts <= MaxRetries + 1

\* Spec §4.1 and §5: the transport carries one logical API call, and its
\* retries are invisible to the caller.  submit_job and cancel_job are
\* POSTs (client.py 219, 250), so the server must never receive one of
\* them twice from one call, or a job would be submitted twice.
PostSentAtMostOnce == method = "POST" => sent <= 1

\* The refinement mapping to HttpCall: urllib3's attempts are hidden, the
\* attempts whose request reached the server are its deliveries, and the
\* latest attempt was answered when its outcome is a response.
CallState == IF tpc = "attempt" THEN "busy" ELSE tpc
Answered == last.kind = "response"

HC == INSTANCE HttpCall WITH state <- CallState, verb <- method,
                             delivered <- sent, answered <- Answered,
                             outcome <- result

\* _make_request keeps the promise of HttpCall: over all its retries and
\* errors a call reaches the server at most max_retries + 1 times, a POST
\* the server answered is never sent again, and an answer other than a
\* network error came from the server on the call's last attempt (Retry of
\* client.py 134-138, 163-180).
ImplementsHttpCall == HC!CSpec

\* Spec §4.1 / §8.4: a transient status (429, 500, 502, 503, 504) is
\* retried while the budget lasts, so a call gives up on one only after
\* max_retries + 1 attempts.
TransientRetried ==
    tpc = "done" /\ last.status \in StatusForcelist => attempts = MaxRetries + 1

\* Spec §4.1: a non-2xx status that is still there when the retries are
\* exhausted is an "api failure" (ComputeHiveError "API request failed").
ExhaustedStatusIsApiFailure ==
    tpc = "done" /\ last.status \in StatusForcelist => result = "api"

\* Spec §8 S4: cancel_job, a POST, "accepts any 2xx": a 2xx answer to a
\* POST is a success (the model does not tell cancel_job from submit_job).
Any2xxAccepted ==
    tpc = "done" /\ method = "POST" /\ last.status \in 200..299 =>
        result = "ok"

=============================================================================
