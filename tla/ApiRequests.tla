---------------------------- MODULE ApiRequests ----------------------------
(***************************************************************************)
(* The requests the SDK's API surface builds (client.py): the value model  *)
(* (ResourceRequirements, SLARequirements, JobPayload and their to_dict),  *)
(* the job envelope of submit_job, the convenience constructors            *)
(* submit_docker_job and submit_script_job, and the query maps of the      *)
(* operations that take one.  Each action is one call of an operation by   *)
(* the caller with arguments from small sets; the state is the request     *)
(* handed to _make_request (module Transport carries it), with what the    *)
(* caller passed kept beside it.                                           *)
(*                                                                         *)
(* Python values: None is a model value, a dataclass instance or a dict is *)
(* a function from field names to values, a list is a sequence.  An env    *)
(* entry f"{k}={v}" is kept as the pair it joins.                          *)
(***************************************************************************)
EXTENDS Integers, Sequences, Functions

CONSTANTS
    None,    \* Python's None
    Ints,    \* integer arguments a caller may pass
    Strs,    \* string arguments a caller may pass
    EnvMaps  \* env dicts a caller may pass, as sequences of pairs in insertion order

ASSUME IntsAssumption == Ints \subseteq Nat
ASSUME StrsAssumption == Strs \subseteq STRING
ASSUME NoneAssumption == None \notin Nat \cup STRING \cup BOOLEAN

VARIABLES
    req,     \* the request built: method, route, query map, body
    given,   \* the query arguments the caller passed explicitly (not None)
    envArg,  \* the env argument of the last submit_docker_job
    logs     \* what the last get_job_logs returned

vars == <<req, given, envArg, logs>>

-----------------------------------------------------------------------------
JobTypes == {"docker", "binary", "script", "wasm"}          \* JobType
JobStatuses == {"pending", "running", "completed"}           \* some JobStatus
Opt(S) == S \cup {None}

\* Python truthiness of an argument whose type has the falsy value zero
\* (0 for numbers, "" for strings): "if x:" fails for None and for zero.
Truthy(v, zero) == v # None /\ v # zero

\* The arguments of args that pass "if x:", zeros giving each one's falsy value.
TruthyArgs(args, zeros) ==
    RestrictDomain(args, LAMBDA k : Truthy(args[k], zeros[k]))

\* Mutant: asdict without the filter.
ToDictKeepsNone(inst) == inst

\* to_dict: asdict, then drop the fields whose value is None.
ToDict(inst) == RestrictValues(inst, LAMBDA v : v # None)

\* A ResourceRequirements with the dataclass defaults for what is not given.
Requirements(cpu, mem, gpu, gpuType) ==
    [cpu_cores |-> cpu, memory_mb |-> mem, gpu_count |-> gpu,
     gpu_type |-> gpuType, storage_mb |-> 1024, network_mbps |-> 100,
     trusted_exec |-> FALSE, capabilities |-> None]

\* A JobPayload; every field defaults to None.
PayloadFields == {"image", "command", "env", "binary_url", "args", "script",
                  "language", "input_data", "output_path"}
Payload(set) == [f \in PayloadFields |-> IF f \in DOMAIN set THEN set[f] ELSE None]

\* An SLARequirements with only max_latency_ms possibly set.
Sla(latency) ==
    [max_latency_ms |-> latency, min_availability |-> None,
     max_cost_per_hour |-> None, preferred_regions |-> None]

\* The body of submit_job: sla_requirements only when an SLA is passed
\* (a dataclass instance is always truthy).
Envelope(type, reqs, payload, priority, timeout, maxRetries, sla) ==
    LET base == [type |-> type, requirements |-> ToDict(reqs),
                 payload |-> ToDict(payload), priority |-> priority,
                 timeout |-> timeout, max_retries |-> maxRetries]
    IN  IF sla = None THEN base
        ELSE [k \in DOMAIN base \cup {"sla_requirements"} |->
                IF k = "sla_requirements" THEN ToDict(sla) ELSE base[k]]

\* env_list = [f"{k}={v}" for k, v in (env or {}).items()]
EnvList(env) ==
    IF env = None THEN <<>>
    ELSE [i \in 1..Len(env) |-> [name |-> env[i][1], value |-> env[i][2]]]

OffersZeros == [min_cpu |-> 0, min_memory |-> 0, max_price |-> 0, region |-> ""]

\* get_marketplace_offers: only the truthy filters are sent.
OffersQuery(minCpu, minMemory, maxPrice, region) ==
    TruthyArgs([min_cpu |-> minCpu, min_memory |-> minMemory,
                max_price |-> maxPrice, region |-> region], OffersZeros)

NoQuery == <<>>
NoBody == <<>>
Request(m, route, q, b) == [method |-> m, route |-> route, query |-> q, body |-> b]
NoRequest == Request("none", "none", NoQuery, NoBody)

\* What the caller passed explicitly, of the given keyword arguments.
Explicit(args) == RestrictValues(args, LAMBDA v : v # None)

-----------------------------------------------------------------------------
Init ==
    /\ req = NoRequest
    /\ given = NoQuery
    /\ envArg = None
    /\ logs = ""

\* Every operation that sends neither query nor body (get_job, cancel_job,
\* get_job_result, get_agent, get_billing_info).
CallPlain ==
    \E r \in {<<"GET", "job">>, <<"POST", "cancel">>, <<"GET", "result">>,
              <<"GET", "agent">>, <<"GET", "billing">>} :
        /\ req' = Request(r[1], r[2], NoQuery, NoBody)
        /\ given' = NoQuery
        /\ UNCHANGED <<envArg, logs>>

\* submit_job with the caller's own value objects.
CallSubmitJob ==
    \E type \in JobTypes, cpu \in Ints, gpuType \in Opt(Strs),
       image \in Opt(Strs), latency \in Opt(Ints), withSla \in BOOLEAN :
        /\ req' = Request("POST", "jobs",  NoQuery,
                    Envelope(type, Requirements(cpu, 1024, 0, gpuType),
                             Payload([image |-> image]), 5, 3600, 3,
                             IF withSla THEN Sla(latency) ELSE None))
        /\ given' = NoQuery
        /\ UNCHANGED <<envArg, logs>>

\* submit_docker_job(image, command, cpu_cores, memory_mb, gpu_count, env).
CallSubmitDockerJob ==
    \E image \in Strs, cpu \in Ints, gpu \in Ints, env \in Opt(EnvMaps) :
        /\ req' = Request("POST", "jobs", NoQuery,
                    Envelope("docker", Requirements(cpu, 1024, gpu, None),
                             Payload([image |-> image, command |-> <<"run">>,
                                      env |-> EnvList(env)]),
                             5, 3600, 3, None))
        /\ given' = NoQuery
        /\ envArg' = env
        /\ UNCHANGED logs

\* submit_script_job(script, language, cpu_cores, memory_mb).
CallSubmitScriptJob ==
    \E script \in Strs, cpu \in Ints :
        /\ req' = Request("POST", "jobs", NoQuery,
                    Envelope("script", Requirements(cpu, 1024, 0, None),
                             Payload([script |-> script, language |-> "python"]),
                             5, 3600, 3, None))
        /\ given' = NoQuery
        /\ UNCHANGED <<envArg, logs>>

\* list_jobs(status, limit, offset): status only when one is given.
CallListJobs ==
    \E status \in Opt(JobStatuses), limit \in Ints :
        LET args == [limit |-> limit, offset |-> 0, status |-> status]
        IN  /\ req' = Request("GET", "jobs", Explicit(args), NoBody)
            /\ given' = Explicit(args)
            /\ UNCHANGED <<envArg, logs>>

\* Mutant: response.get("logs") without its default.
CallGetJobLogsNoDefault ==
    \E tail \in Ints, answer \in {[logs |-> "line"], [other |-> "x"]} :
        /\ req' = Request("GET", "logs", [tail |-> tail], NoBody)
        /\ given' = [tail |-> tail]
        /\ logs' = IF "logs" \in DOMAIN answer THEN answer.logs ELSE None
        /\ UNCHANGED envArg

\* get_job_logs(job_id, tail): the logs field of the answer, or "".
CallGetJobLogs ==
    \E tail \in Ints, answer \in {[logs |-> "line"], [other |-> "x"]} :
        /\ req' = Request("GET", "logs", [tail |-> tail], NoBody)
        /\ given' = [tail |-> tail]
        /\ logs' = IF "logs" \in DOMAIN answer THEN answer.logs ELSE ""
        /\ UNCHANGED envArg

\* get_agents(active_only): the flag is always sent.
CallGetAgents ==
    \E active \in BOOLEAN :
        /\ req' = Request("GET", "agents", [active |-> active], NoBody)
        /\ given' = [active |-> active]
        /\ UNCHANGED <<envArg, logs>>

\* get_marketplace_offers(min_cpu, min_memory, max_price, region).
CallGetMarketplaceOffers ==
    \E minCpu, minMemory, maxPrice \in Opt(Ints), region \in Opt(Strs) :
        /\ req' = Request("GET", "offers",
                          OffersQuery(minCpu, minMemory, maxPrice, region), NoBody)
        /\ given' = Explicit([min_cpu |-> minCpu, min_memory |-> minMemory,
                              max_price |-> maxPrice, region |-> region])
        /\ UNCHANGED <<envArg, logs>>

\* get_usage_stats(start_date, end_date): only the truthy dates are sent.
CallGetUsageStats ==
    \E start, end \in Opt(Strs) :
        LET args == [start_date |-> start, end_date |-> end]
            zeros == [start_date |-> "", end_date |-> ""]
        IN  /\ req' = Request("GET", "usage", TruthyArgs(args, zeros), NoBody)
            /\ given' = Explicit(args)
            /\ UNCHANGED <<envArg, logs>>

Next ==
    \/ CallPlain \/ CallSubmitJob \/ CallSubmitDockerJob \/ CallSubmitScriptJob
    \/ CallListJobs \/ CallGetJobLogs \/ CallGetAgents
    \/ CallGetMarketplaceOffers \/ CallGetUsageStats

Spec == Init /\ [][Next]_vars

-----------------------------------------------------------------------------
Routes == {"none", "job", "cancel", "result", "agent", "billing", "jobs",
           "logs", "agents", "offers", "usage"}

TypeOK ==
    /\ req.method \in {"none", "GET", "POST"}
    /\ req.route \in Routes
    /\ DOMAIN req.query \subseteq {"limit", "offset", "status", "tail", "active",
                                   "min_cpu", "min_memory", "max_price", "region",
                                   "start_date", "end_date"}
    /\ DOMAIN req.body \subseteq {"type", "requirements", "payload", "priority",
                                  "timeout", "max_retries", "sla_requirements"}
    /\ envArg \in Opt(EnvMaps)
    /\ logs \in {"line", ""}   \* the logs of an answer, or the default

\* The value objects a request body carries.
BodyDicts ==
    {req.body[k] : k \in DOMAIN req.body \cap
                         {"requirements", "payload", "sla_requirements"}}

\* Spec §8.2: no None reaches the wire: the nested objects of a job
\* envelope and the query maps carry no field whose value is None
\* (to_dict at client.py 48-89, the query filters of every operation).
NoNoneOnWire ==
    /\ \A d \in BodyDicts : \A f \in DOMAIN d : d[f] # None
    /\ \A k \in DOMAIN req.query : req.query[k] # None

\* Spec §4.2: falsy-but-meaningful values such as 0 are sent when the
\* caller passes them explicitly.
ExplicitQueryValuesSent ==
    \A k \in DOMAIN given : k \in DOMAIN req.query /\ req.query[k] = given[k]

\* Spec §4.2: a request body omits every field the caller left unset; a
\* docker job submitted without env carries no env.
UnsetEnvOmitted ==
    req.route = "jobs" /\ req.body.type = "docker" /\ envArg = None =>
        "env" \notin DOMAIN req.body.payload

\* Spec §4.2, the serialization rule: request bodies and query maps omit
\* every field whose value is unset, and falsy-but-meaningful values (0,
\* an empty list) are sent when explicitly provided (the truthiness
\* filters of client.py 242-246, 258, 382, 408-418, 439-445 and the env
\* default of 321).
SerializationRule == ExplicitQueryValuesSent /\ UnsetEnvOmitted

=============================================================================
