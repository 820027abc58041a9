# TLA+ verification of the ComputeHive Python SDK

This directory holds TLA+ models of the ComputeHive client SDK
(`src/sdk/python/computehive/client.py`) and of the recovery measurement of
the chaos harness (`src/tests/chaos/chaos_tests.py`). It also holds TLC
configurations that model-check them on small instances. TLAPS proofs cover
the main transport, polling, composition, request and chaos properties for
every value of the constants.
`PROJECT.json` lists the components, the runs, the mutants that show each
property can fail, the source lines each definition models, the findings and
the hazards.

## The system

The SDK is single-threaded per call (spec §5). It has four layers.

- **Transport**: `ComputeHiveClient.__init__` builds a `requests.Session`
  with an `HTTPAdapter`, and the adapter holds a urllib3 `Retry` configured
  as follows:
  - `total = max_retries`;
  - `backoff_factor = 1`;
  - `status_forcelist = [429, 500, 502, 503, 504]`.

  `_make_request` sends one logical call. urllib3 makes up to
  `max_retries + 1` attempts and sleeps between them, using the Retry-After
  header or an exponential backoff. `_make_request` then classifies the
  outcome:
  - 401: `AuthenticationError`;
  - 400: bad request;
  - any other `HTTPError`: "API request failed";
  - any `RequestException`: "Network error".
- **API surface**: every operation is one `_make_request` call. `submit_job`
  and `cancel_job` are POSTs; the others are GETs.
- **Polling engine**: `wait_for_job` records `start_time`. It then loops
  while `time.time() - start_time < timeout`:
  1. calls `get_job`;
  2. calls the callback, if one was given;
  3. returns if the status is in `["completed", "failed", "cancelled"]`;
  4. otherwise sleeps `poll_interval`.

  When the loop ends it raises `JobError`.
- **Convenience layer**:
  - `submit_docker_job` and `submit_script_job` build a request and call
    `submit_job`.
  - `quick_run_docker` submits a job, waits for it, and fetches the result.

The job lives on the server, which is outside the repository. The server can
change the job's status at any moment, including between two probes and
during one probe's retries. Real time passes independently of the SDK.

## Modules

| Module | Models | Source |
|---|---|---|
| `Transport` | one `_make_request` call after another: every attempt, urllib3's retry decision, sleeps, exhaustion, classification | client.py 132-180, 219-254 |
| `HttpCall` | what one `_make_request` call promises, without attempts or clocks: deliveries within the budget, no resend of an answered POST, then one result | client.py 132-180 |
| `MC_Transport` | TLC instance of `Transport` | |
| `TransportProofs` | TLAPS proofs about `Transport` | |
| `WaitForJob` | `wait_for_job` over `Transport` (through `INSTANCE`), a server job that changes status, and a clock | client.py 221-223, 261-294 |
| `JobWait` | what `wait_for_job` promises, without probes or clocks: it ends once, returning the server's final status or failing | client.py 261-294 |
| `MC_WaitForJob` | TLC instance of `WaitForJob` | |
| `WaitForJobProofs` | TLAPS proofs about `WaitForJob`, and that it implements `JobWait` | |
| `ApiRequests` | the request every operation builds: value objects and `to_dict`, the job envelope, the convenience constructors, the query maps, `get_job_logs`'s default | client.py 18-89, 182-259, 296-445 |
| `MC_ApiRequests` | TLC instance of `ApiRequests` | |
| `ApiRequestsProofs` | TLAPS proofs about `ApiRequests` | |
| `QuickRun` | `quick_run_docker`: the API-key check, the submit POST over `Transport`, `wait_for_job` (an `INSTANCE` of `WaitForJob`) and `get_job_result` | client.py 126-130, 448-485 |
| `MC_QuickRun` | TLC instance of `QuickRun` | |
| `QuickRunProofs` | TLAPS proofs about `QuickRun` | |
| `ChaosRecovery` | one chaos scenario: `run_chaos_scenario`, `measure_recovery_time`, `verify_system_health` and the service monkeys | chaos_tests.py 17-34, 74-119, 199-298 |
| `MC_ChaosRecovery` | TLC instance of `ChaosRecovery` | |
| `ChaosRecoveryProofs` | TLAPS proofs about `ChaosRecovery` | |

### Transport

**Variables.** The state is the following:

- `tpc`: idle, attempting or done;
- `method`;
- `total`: `Retry.total`;
- `attempts`;
- `sent`: the attempts whose request reached the server;
- `last`: the last outcome;
- `result`: what `_make_request` returned or raised;
- `body`: the last decoded body;
- `now`: the clock.

**Outcomes.** Each attempt ends with one outcome, which is one of:
- a response, with a status, an optional Retry-After value and whether the
  body is JSON;
- a connect error, where the request never left the client;
- a read error, where the request left and the per-attempt timeout expired
  or the connection was dropped (urllib3's `ReadTimeoutError` and
  `ProtocolError`);
- an other error, where the request left and an `SSLError` or `ProxyError`
  was raised while the answer was read.

An `SSLError` raised before the request left (a failed handshake) also
takes urllib3's other-error branch. It is retried for every method and
reaches nobody, just like a connect error, so `connect_error` stands for
it.

**Actions.**
- `Request(m)`: the call starts with a fresh `Retry`.
- `RetryAttempt`: the outcome is retried. `Retry.increment` leaves
  `total >= 0` and urllib3 sleeps `SleepTime`.
- `ExhaustAttempt`: the outcome is retryable, but `increment` raises
  `MaxRetryError`, which becomes a "Network error".
- `FinalAttempt`: the outcome is not retried and `Classify` maps it to a
  result.

**Retry decision.** `IsRetry` and `Retryable` model the urllib3 behaviour
behind the code's `Retry(...)`:
- The default `allowed_methods` exclude POST.
- A read error is retried only for an allowed method.
- A connect error is always retried.
- An other error is always retried, POST included. The code's `Retry` keeps
  the default `other=None`, and `Retry.increment` does not look at the
  method in that branch.
- Retry-After counts only for 413, 429 and 503, and only while `total` is
  nonzero.

`BackoffTime` is `Retry.get_backoff_time`: 0 for the first retry, then
`2^(n-1)` seconds capped at 120. The sleeps are therefore 0, 2, 4, ...
seconds, not the 0, 1, 2, ... of spec §4.1.

**Abstract specification.** `HttpCall` is what one call promises its caller,
without attempts' outcomes or clocks. Its state is `state` (idle, busy or
done), `verb`, `delivered` (how often the request reached the server),
`answered` (whether the server answered the latest attempt) and `outcome`.
The guard `MayResend` says that nothing follows the server's answer to a
POST. It has four actions:
- `Call(m)`: a call starts;
- `Reach`: the request reaches the server once more, answered or not,
  never beyond `DeliveryBound` (`max_retries + 1`) and only if `MayResend`;
- `Miss`: an attempt whose request never left;
- `Finish`: the call ends with a result. A result other than a network
  error is the answer to one more delivery.

A POST may be delivered more than once: an other error loses the answer
after the request left, and urllib3 sends the POST again. What the code
does keep is that a POST the server answered is never sent again.

`Transport` maps onto it with `HC == INSTANCE HttpCall WITH state <-
CallState, verb <- method, delivered <- sent, answered <- Answered, outcome
<- result`. `CallState` renames `attempt` to `busy`, and `Answered` says
that the last outcome is a response. A retried attempt whose request left
is `Reach`, a retried connect error is `Miss`, and the last attempt is
`Finish`.

### WaitForJob

`WaitForJob` adds the following state to `Transport`'s:

- `wpc`: at the deadline check, in a probe, or ended (returned, timed out
  or raised);
- `start`;
- `job`: the last status the waiter saw;
- `seen`: the last status passed to the callback;
- `jobStatus`: the status on the server.

A probe is a whole `Transport` call with `method = GET`. Each attempt is a
separate step (`ProbeAttempt`), so the server and the clock can move between
attempts. The actions are:
- `LoopProbe` and `LoopTimeout`: the `while` test;
- `ProbeFailed`: `get_job` raised, and `wait_for_job` does not catch it;
- `Observe`: the callback, which may raise, then the terminal test, then the
  poll sleep;
- `Tick`: the clock moves;
- `ServerStep`: the server moves the job to another status, unless the
  status is final.

`JobWait` is the abstract specification of the loop. Its state is
`outcome` (waiting, returned or failed), the returned `job`, and
`jobStatus`. It has three actions:
- `Return`: return the server's status, once that status is final;
- `Fail`: fail at any time;
- `Move`: the server moves a job that is not final.

`WaitForJob` maps onto it with `JW == INSTANCE JobWait WITH outcome <-
WaitOutcome, job <- ReturnedJob`:
- `WaitOutcome` is `returned` or `failed` once `wpc` says how the wait
  ended, and `waiting` before that;
- `ReturnedJob` is the record once it has been returned, and `NoBody`
  before that.

Under this mapping, `Observe` returning is `Return`, and `LoopTimeout`,
`ProbeFailed` and a raising callback are `Fail`. `ServerStep` is `Move`.
Every other step is a stutter. Checking `ImplementsJobWait == JW!ASpec`
means that every interleaving of attempts, sleeps and server moves is
allowed by the abstract promise. That includes its fairness: the wait ends.

### ApiRequests

Each action is one call of an operation, with arguments drawn from small
sets. The state is:

- `req`: the request handed to `_make_request` (method, route, query map,
  body);
- `given`: the query arguments the caller passed, that is, not `None`;
- `envArg`: the `env` argument of the last `submit_docker_job`;
- `logs`: what `get_job_logs` returned.

A dataclass instance or a dict is a function from field names to values, and
`None` is a model value. `ToDict` is `to_dict`: `asdict` followed by the
`None` filter. `Truthy(v, zero)` is Python's `if v:` for a value whose falsy
value is `zero`. `OffersQuery` and the usage query keep only truthy
arguments, as the code's `if` chains do. The env list is kept as the
`(k, v)` pairs that `f"{k}={v}"` joins. Route strings are abstracted to
names.

### QuickRun

`QuickRun` shares the variables of `WaitForJob` and adds three:

- `qpc`: where `quick_run_docker` is;
- `waitArg`: the `wait` argument;
- `jobs`: the number of jobs the server has created for this call.

The actions are:
- `Construct`: the constructor's API-key check, which may raise, then the
  submit `Request("POST")`.
- `SubmitAttempt`: one transport attempt of the POST. The server creates the
  job on a 2xx answer. When the answer was lost after the request left (a
  read error or an other error), it may or may not have created it.
- `Submitted`: without `wait`, the job record is returned. With `wait`,
  `job['id']` either starts the wait or raises `KeyError`.
- `Waiting` and `Waited`: `WaitForJob`'s waiter, then the status test.
- `ResultAttempt` and `ResultReturned`: `get_job_result`.

The server moves the job only once it exists.

### ChaosRecovery

One scenario of `ChaosTestRunner`. The runner's position is `rpc`:

1. the pre-chaos health check (`pre`);
2. the baseline;
3. the chaos function (`inject`, or `paused` for a pause);
4. the detection sleep;
5. the recovery loop (`recover` and `sleep`);
6. the post-chaos measurement and the verdict.

The state also holds the following:

- `idx`: the next endpoint of the current health round;
- `down`: the components whose health endpoint fails;
- `chaosStart` and `recoveryStart`: `start_time` and `recovery_start`;
- `healedAt`: when the deployment was last healthy again;
- `recoveryTime` and `verdict`.

A health round is one step per endpoint:
- `CheckUp` for an answer of 200, taking a latency;
- `CheckDown` for any other answer, or for a timeout, which returns False.

A request takes a duration from `Latencies`, and a connect timeout takes
`HealthTimeout`. `requests.get(url, timeout=5)` (chaos_tests.py 218, 230)
bounds the connect and each socket read, not the whole request. So a slow
answer may take longer than the timeout, and nothing in the harness bounds
a request. `MaxLatency` is therefore an assumption about the deployment:
no health request takes longer. The instance has a 3 s answer beside a 2 s
timeout.

`KillOrRestart` and `Pause` draw: if no target container runs or the
probability draw misses, nothing happens. Otherwise a victim goes down.
`Heal(c)` is the deployment bringing a component back, at any moment or
never. The baseline and post-chaos measurements take no model time, because
nothing the verdict reads depends on their duration.

## Runs

| Run | Expect | Checks |
|---|---|---|
| `transport` | pass | `TypeOK`, `AttemptBudget`, `ImplementsHttpCall` |
| `transport_transient_retried` | violation | `TransientRetried` (spec §4.1) |
| `transport_exhausted_status` | violation | `ExhaustedStatusIsApiFailure` (§4.1, §8.4) |
| `transport_any_2xx` | violation | `Any2xxAccepted` (S4) |
| `transport_post_resent` | violation | `PostSentAtMostOnce` (§4.1, §5) |
| `wait_for_job` | pass | `TypeOK`, `ReturnedMatchesServer`, `CallbackSeesReturned`, `WaitEnds`, `ImplementsJobWait` |
| `wait_for_job_timeout_bound` | violation | `TimeoutWithinBound` (§8.7) |
| `api_requests` | pass | `TypeOK`, `NoNoneOnWire` |
| `api_serialization_rule` | violation | `SerializationRule` (§4.2) |
| `quick_run` | pass | `TypeOK`, `ResultOnlyOfCompleted`, `QuickRunEnds` |
| `chaos_recovery` | pass | `TypeOK`, `MeasureWithinLimit`, `ScenarioEnds` |
| `chaos_pass_verdict` | violation | `PassMeansRecoveredWithinLimit` (comment at chaos_tests.py:286) |

**Transport properties.**
- `AttemptBudget`: no call makes more than `max_retries + 1` attempts.
- `ImplementsHttpCall`: every call implements `HttpCall`. So a call's
  deliveries stay within the budget whatever errors it meets, a POST the
  server answered is never resent, and a non-network result is the answer
  to the last delivery.

**WaitForJob properties.**
- `ReturnedMatchesServer`: a returned job is final and still equals the
  server's status.
- `CallbackSeesReturned`: with a callback, the returned record is the one the
  callback last saw.
- `WaitEnds`: the wait always ends, even if the job never finishes.
- `ImplementsJobWait`: the loop implements `JobWait`, the abstract promise
  above.

**ApiRequests properties.**
- `NoNoneOnWire` (§8.2): no value object in a body and no query entry
  carries `None`.

**QuickRun properties.**
- `ResultOnlyOfCompleted` (§4.4): a returned result record belongs to a job
  that completed.
- `QuickRunEnds`: the call always returns or raises.

**ChaosRecovery properties.**
- `MeasureWithinLimit`: the recovery loop never runs, and never reports,
  longer than its limit plus one health round of four requests, each as
  long as the deployment makes it (`MaxLatency`).
- `ScenarioEnds`: every scenario ends, whether or not the deployment
  recovers.

**Mutants.** For each property of a passing run, `PROJECT.json` names a
mutant. A mutant is a plausible bug in a mapped definition, and TLC finds the
property violated once the mutant replaces that definition:
- POST made retryable on a status (this breaks `ImplementsHttpCall`: an
  answered POST is resent);
- a call that keeps the previous call's attempt count;
- exhaustion tested one retry late;
- `running` taken for terminal (this breaks both `ReturnedMatchesServer` and
  `ImplementsJobWait`);
- the callback called after the terminal test;
- `start_time` re-read on every loop iteration;
- `to_dict` without its `None` filter;
- `get_job_logs` without its default;
- any terminal status taken for success by `quick_run_docker`;
- a health round that reads one endpoint too many;
- the recovery loop without its limit, or restarting itself.

### Findings (violation runs)

Each violation run checks a claim of `spec.md` against what the code does.

1. **POST is never retried on a transient status.** `Retry` keeps urllib3's
   default `allowed_methods`, so a `submit_job` answered 503 fails after one
   attempt.
2. **An exhausted transient status reports "Network error".** urllib3
   raises `MaxRetryError`, which requests turns into `RetryError`, a
   `RequestException`. The spec says this is an api failure. In the
   counterexample, a GET is answered 413 with `Retry-After: 0` three times.
   Those answers are retried because the header is present (`bool("0")` is
   true), and the budget then runs out on a 503.
3. **A 2xx without JSON raises.** A POST answered 204 No Content, as
   `cancel_job` may be, has no body, so `response.json()` fails and the call
   reports "Network error". S4 says `cancel_job` accepts any 2xx.
4. **The job timeout can come long after `timeout + poll_interval`.** The
   deadline is tested only before a probe, and the probe's retries and
   Retry-After sleeps are not bounded by it. In the counterexample
   (timeout 4, poll interval 1), a 503 with Retry-After 2 is retried, and
   the timeout is raised at 6 s.
5. **The §4.2 serialization rule is broken both ways.** `SerializationRule`
   is the rule's two halves, `ExplicitQueryValuesSent /\ UnsetEnvOmitted`.
   - An unset env is sent as `[]`: `(env or {})` makes `env_list` an empty
     list, which `to_dict` keeps (client.py:321). This is the trace TLC
     prints.
   - An explicit falsy filter is dropped: `get_marketplace_offers(min_cpu=0)`
     sends no `min_cpu`, because the code tests truthiness (client.py:409).
6. **A POST can reach the server twice.** An `SSLError` raised while the
   answer to `submit_job` is read is retried by urllib3's other-error
   branch, for every method. So a second job is submitted
   (client.py 134-138). §4.1 has the transport carry one logical call, and
   §5 says retries are invisible to the caller.
7. **A scenario can pass although the outage lasted longer than the pass
   limit.** Recovery is timed from `recovery_start`, after the 5 s detection
   sleep; `start_time` is never used. In the counterexample, a kill at t=4
   takes `marketplace` down until t=12 (8 s, at the pass limit of 8), but the
   measured recovery is 4 s, and the verdict is pass.

A further disagreement is listed as a hazard rather than a run. With
`timeout <= 0`, `wait_for_job` never runs its loop body, so the callback is
never called, against §4.3.

## Bounds and why they suffice

**`MC_Transport`:**
- `max_retries = 3`, `timeout = 1`;
- statuses `{200, 400, 401, 413, 503}`, which cover success, each error
  class, a Retry-After-only status and a forced-retry status;
- Retry-After values `{0, 5}`, where 0 is present but falsy in
  `Retry.sleep`;
- latencies `{0, 1}`;
- clock at most 12 s (a state constraint).

With 3 retries, both exhaustion and the backoff cap are exercised: the
history grows to 4 attempts.

**`MC_WaitForJob`:**
- `max_retries = 2`;
- statuses `{200, 401, 503}` with Retry-After 2;
- wait timeout 4 s, poll interval 1 s.

These bounds are enough for a probe to retry across the deadline and for the
server to change the job during a probe. Time after the deadline changes
nothing the waiter decides, so `Tick` is disabled there. The `VIEW`
`ElapsedView` identifies states by `now - start`. That is sound because every
guard of the waiter reads time only through `now - start`. It keeps the state
space finite without a state constraint, which would hide liveness
violations.

**`MC_ApiRequests`:**
- integers `{0, 2}` and strings `{"", "eu"}`, each with a falsy and a
  truthy value;
- env maps: none, and one of two entries.

Every truthiness test therefore meets both outcomes, and every optional
argument is tried as `None`, falsy and truthy.

**`MC_QuickRun`:**
- `max_retries = 1`;
- statuses `{200, 401, 503}`;
- a wait of 3 s polled every second.

These are enough for a POST to meet a read timeout (the job may exist), a
transient status, and a wait that returns completed, failed or timed out.
The `ElapsedView` of `MC_WaitForJob` is reused.

**`MC_ChaosRecovery`:** the harness's constants are scaled, keeping their
order:
- give-up limit 10 s;
- pass limit 8 s;
- detection sleep 5 s;
- request timeout 2 s;
- answer latency 1 s;
- pause 2 s.

A health round of four endpoints then takes 4 s when healthy and up to 8 s
when every request times out. The loop can therefore both succeed within
the pass limit and give up. The `VIEW` `CappedView` caps every time at 40 s.
No reachable state gets there (the longest scenario ends before), so the view
identifies no two states the harness tells apart. It makes a loop that never
ends a cycle TLC can find, which the `AfterSleepRestart` mutant shows.

## Fairness

`WaitForJob.Spec` has weak fairness on `Waiter` and on `Tick`, and on nothing
else.

- `Waiter` is the caller's thread. Each of its steps ends: an attempt ends
  within the per-request timeout, and a sleep is finite.
- `Tick` is the passage of real time.
- The server gets no fairness. The model does not assume that the job ever
  finishes, so `WaitEnds` holds because of the deadline alone.

`QuickRun.Spec` has the same two fairness conditions, `Runner` and `Tick`,
for the same reasons. `ChaosRecovery.Spec` has weak fairness on the runner
only. Each of its steps is a request with a timeout or a finite sleep. The
deployment gets none, because nothing obliges a killed container to come
back.

## What is proved (TLAPS)

`TransportProofs` proves the following for every value of the constants
allowed by the named assumptions of `Transport`:

- `TypeCorrect: TSpec => []TypeOK`;
- `AttemptsWithinBudget: TSpec => []AttemptBudget`.

Neither invariant is inductive alone, so the proofs use
`IInv == TypeOK /\ BudgetInv`:

- `BudgetInv`: while a call is being attempted, `total + attempts =
  max_retries`. This is why `RetryAttempt` keeps `total >= 0`, and why the
  backoff index `attempts + 1` stays in `1..max_retries+1`, where the
  backoff is known to be a natural number.

The proof of `IInv /\ [TNext]_tvars => IInv'` has one step per action.
TLAPS cannot evaluate `2^n` for a symbolic `n`, so the assumption
`BackoffAssumption` states that the backoff values within the budget are
naturals. TLC checks that assumption on every run.

`ChaosRecoveryProofs` proves the following for every value of the
constants allowed by the assumptions of `ChaosRecovery`. These are natural
limits and delays, a positive request timeout, and
`LatenciesAssumption`: every request duration, answer or connect timeout,
is at most `MaxLatency`. That assumption is about the deployment, not the
code (see `ChaosRecovery` above).

- `TypeCorrect: Spec => []TypeOK`;
- `MeasureBounded: Spec => []MeasureWithinLimit`.

`MeasureWithinLimit` is not inductive alone. Inside a health round, the
elapsed time depends on how many endpoints have already been asked. The
proof therefore uses
`IInv == TypeOK /\ IdleRound /\ RoundElapsed /\ SleepElapsed /\ ReportedBound`:

- `IdleRound`: the endpoint index is 1 outside a round.
- `RoundElapsed`: within a round of the loop,
  `now - recovery_start <= limit + (idx - 1) * MaxLatency`. A round starts at
  most at the limit, because the give-up test has just passed, or at 0,
  right after `Detect`. Each endpoint adds at most `MaxLatency`.
- `SleepElapsed`: after a failed round, elapsed time is at most
  `limit + 4 * MaxLatency`.
- `ReportedBound`: a positive reported time was taken at the end of a
  successful round, so it obeys the same bound.

The step from one endpoint to the next multiplies by a variable. The proof
isolates that in one equation and adds the two bounds with the lemma
`AddBound`, so the SMT solver only sees linear facts. TLC checked `IInv` on
the instance before it was proved.

`ApiRequestsProofs` proves `NoNoneSent: Spec => []NoNoneOnWire` for every
set of integer and string arguments (`Ints \subseteq Nat`,
`Strs \subseteq STRING`) and every set of env maps. The proof assumes only
that `None` is neither a number, a string nor a Boolean.

Every call builds a fresh request, so the invariant needs no strengthening.
The proof rests on one lemma per filter:
- `to_dict` keeps no `None`;
- the explicit-argument map keeps no `None`;
- the truthiness filter keeps no `None`.

A fourth lemma states that every value object of a job envelope, with or
without an SLA, went through `to_dict`.

`WaitForJobProofs` proves three theorems for every budget, timeout, poll
interval and set of answers:
- `ReturnedIsServerStatus: Spec => []ReturnedMatchesServer`;
- `CallbackSawReturned: Spec => []CallbackSeesReturned`;
- `RefinesJobWait: Spec => JW!ASafety`, the safety part of `JobWait`.

`ReturnedMatchesServer` is not inductive alone. The returned record is the
body of the last probe, so the invariant must also say what that body holds
before `Observe` reads it. `ProbedFinal` adds this: a finished, successful
probe that decoded a final status decoded the server's status. The server
cannot move that status afterwards, because it is final.

The refinement proof follows the usual pattern. `Init` maps to `AInit`.
Under the invariant `RInv`, the lemma `StepRefines` shows that every step
maps to a `JobWait` step or a stutter. Its `Return` case is exactly
`ProbedFinal`. The `ServerStep` case needs `ReturnedMatchesServer`: the
server never moves a job whose record was returned. The fairness part of
`JW!ASpec` is checked by TLC only.

`QuickRunProofs` proves
`ResultOfCompletedJob: Spec => []ResultOnlyOfCompleted`. It adds the
following to the same facts about the embedded wait:
- a probe runs only inside the wait;
- from the result fetch on, the job is completed on the server;
- a successful `get_job_result` decoded the result record.

The lemma `AttemptDecodes` states what one transport attempt leaves in
`body`.

`ApiRequestsProofs` also proves `TypeCorrect: Spec => []TypeOK`. Its key
lemma is `EnvelopeKeys`: an envelope has the keys of `submit_job`, and no
others.

`TransportProofs` also proves `RefinesHttpCall: TSpec =>
ImplementsHttpCall`. `IInv` is not enough for the delivery bound. The proof
adds two facts:
- `SentWithinAttempts` (`sent <= attempts`): a call reaches the server no
  more often than the budget lets it try;
- `PostAnswerEnds`: while a POST is still being attempted, its last outcome
  is not a response. The lemma `PostRetriedOnlyOnError` gives it: urllib3
  retries a POST only on an error, never on a status. This is `MayResend`.

Under `RInv == IInv /\ SentWithinAttempts /\ PostAnswerEnds`, the lemma
`StepRefines` has one step per action:
- A retried attempt whose request left is `Reach`, and
  `attempts + 1 <= max_retries` bounds it.
- A retried connect error is `Miss`.
- The last attempt is `Finish`. The lemma `AnswerWasResponse` shows that a
  result other than a network error came from a response, which is a
  delivery.

The type invariants of `WaitForJob` and `QuickRun` are proved too:
- `WaitForJobProofs` proves `TypeCorrect: Spec => []TypeOK`.
- `QuickRunProofs` proves `TypeCorrect: Spec => []TypeOK`.

Both take the strengthening from `Transport`: while a call is in flight,
`total + attempts = max_retries`. This is `ProbeBudget` in `WaitForJob`
and `CallBudget` in `QuickRun`. `QuickRun` also needs two further facts:
- `ProbeInWait`: a probe runs only inside the wait;
- `ProbeBody`: a successful probe decoded a job record. This is what
  `Observe` copies into `job`.

tlapm does not use the ASSUMEs or theorems of an `INSTANCE`d module.
`WaitForJob` and `QuickRun` therefore restate `Transport`'s assumptions for
the constants they pass it (`TransportAssumption`), and their proofs repeat
the few lemmas about the transport's operators. TLC evaluates the restated
assumptions on every run. The lemma `ProbeIsAttempt` shows that a probe of
`QuickRun`'s embedded wait is an attempt of `QuickRun`'s own transport. The
two instances differ only in the bodies they may decode.

TLC checked every strengthened invariant (`IInv`, `RInv`) on its
run's instance before it was proved.

`Classify` is written as an IF/ELSE chain rather than a `CASE ... OTHER`
because the SMT backend rejects `OTHER`. The arms and their order are those
of the `except` clauses.

## What is only model-checked

- Liveness, and anything with `ENABLED`, is out of TLAPS's reach. This
  covers `WaitEnds`, `QuickRunEnds`, `ScenarioEnds`, and the fairness
  conjunct of `ImplementsJobWait`.
- The violation runs. They show what the code does against a statement of
  the spec, on one instance.

## What is not modelled

- Headers, URL building, JSON encoding and logging. They are wire formatting
  that no property distinguishes.
- Redirects, which requests follows itself.
- Wall-clock jumps of `time.time()`. The model's clock is monotone.
- The security harness. Its verdicts depend on a server that is out of
  scope (spec §6). Its one concurrent test is listed as a hazard: ten
  threads submit jobs, and a thread that raises appends nothing, so the
  final `all(...)` can hold vacuously.
- The host state that scenarios leave behind. `tc` qdiscs and `iptables`
  rules are never removed, and a second `tc qdisc add` fails silently, so
  later scenarios run on a host that earlier ones changed. Both are listed
  as hazards. `ChaosRecovery` models one scenario from a clean host.
- `setup.py`: package metadata only.
- The shell and container commands of the chaos monkeys. The network,
  resource and application monkeys (`tc`, `iptables`, `stress`) and the
  `main` driver that runs the scenarios one after another are not modelled.
  The effect of their commands on health is covered only as a component
  going down.
- The performance-degradation report, which is only printed.
