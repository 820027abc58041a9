------------------------- MODULE ApiRequestsProofs -------------------------
(***************************************************************************)
(* Proof that no request the API surface builds carries None, for every    *)
(* set of integers, strings and env maps a caller may pass.                *)
(***************************************************************************)
EXTENDS ApiRequests, TLAPS

\* A map with no None value.
NoneFree(m) == \A k \in DOMAIN m : m[k] # None

-----------------------------------------------------------------------------
\* to_dict drops exactly the None fields.
LEMMA ToDictNoneFree ==
    ASSUME NEW inst
    PROVE  NoneFree(ToDict(inst))
BY DEF NoneFree, ToDict, RestrictValues, Restrict

\* What the caller passed explicitly carries no None.
LEMMA ExplicitNoneFree ==
    ASSUME NEW args
    PROVE  NoneFree(Explicit(args))
BY DEF NoneFree, Explicit, RestrictValues, Restrict

\* A truthiness filter keeps no None.
LEMMA TruthyArgsNoneFree ==
    ASSUME NEW args, NEW zeros
    PROVE  NoneFree(TruthyArgs(args, zeros))
BY DEF NoneFree, TruthyArgs, RestrictDomain, Restrict, Truthy

\* The value objects of a job envelope are all passed through to_dict,
\* with or without an SLA.
LEMMA EnvelopeDictsNoneFree ==
    ASSUME NEW type, NEW reqs, NEW payload, NEW priority, NEW timeout,
           NEW maxRetries, NEW sla
    PROVE  LET e == Envelope(type, reqs, payload, priority, timeout,
                             maxRetries, sla)
           IN  \A k \in DOMAIN e \cap {"requirements", "payload",
                                       "sla_requirements"} :
                   NoneFree(e[k])
<1> DEFINE base == [type |-> type, requirements |-> ToDict(reqs),
                    payload |-> ToDict(payload), priority |-> priority,
                    timeout |-> timeout, max_retries |-> maxRetries]
           e == Envelope(type, reqs, payload, priority, timeout,
                         maxRetries, sla)
<1>1. NoneFree(ToDict(reqs)) /\ NoneFree(ToDict(payload))
      /\ NoneFree(ToDict(sla))
  BY ToDictNoneFree
<1>2. CASE sla = None
  <2>1. e = base
    BY <1>2 DEF Envelope
  <2>. QED
    BY <1>1, <2>1
<1>3. CASE sla # None
  <2>1. /\ DOMAIN e = DOMAIN base \cup {"sla_requirements"}
        /\ e["requirements"] = ToDict(reqs) /\ e["payload"] = ToDict(payload)
        /\ e["sla_requirements"] = ToDict(sla)
    BY <1>3 DEF Envelope
  <2>. QED
    BY <1>1, <2>1
<1>. QED  BY <1>2, <1>3

\* No request is ever built with None in it.
LEMMA NextNoNone == NoNoneOnWire /\ [Next]_vars => NoNoneOnWire'
<1> SUFFICES ASSUME NoNoneOnWire, [Next]_vars PROVE NoNoneOnWire'
    OBVIOUS
<1>. USE NoneAssumption, IntsAssumption, StrsAssumption
\* A request whose body dicts and query are None-free is fine.
<1>1. ASSUME NEW m, NEW route, NEW q, NEW b,
             req' = Request(m, route, q, b),
             NoneFree(q),
             \A k \in DOMAIN b \cap {"requirements", "payload",
                                     "sla_requirements"} : NoneFree(b[k])
      PROVE  NoNoneOnWire'
  BY <1>1 DEF NoNoneOnWire, BodyDicts, Request, NoneFree
<1>2. NoneFree(NoQuery) /\ DOMAIN NoBody = {}
  BY DEF NoneFree, NoQuery, NoBody
<1>3. CASE CallPlain
  BY <1>1, <1>2, <1>3 DEF CallPlain
<1>4. CASE CallSubmitJob
  BY <1>1, <1>2, <1>4, EnvelopeDictsNoneFree DEF CallSubmitJob
<1>5. CASE CallSubmitDockerJob
  BY <1>1, <1>2, <1>5, EnvelopeDictsNoneFree DEF CallSubmitDockerJob
<1>6. CASE CallSubmitScriptJob
  BY <1>1, <1>2, <1>6, EnvelopeDictsNoneFree DEF CallSubmitScriptJob
<1>7. CASE CallListJobs
  BY <1>1, <1>2, <1>7, ExplicitNoneFree DEF CallListJobs
<1>8. CASE CallGetJobLogs
  <2>1. PICK tail \in Ints : req' = Request("GET", "logs", [tail |-> tail], NoBody)
    BY <1>8 DEF CallGetJobLogs
  <2>2. NoneFree([tail |-> tail])
    BY DEF NoneFree
  <2>. QED  BY <1>1, <1>2, <2>1, <2>2
<1>9. CASE CallGetAgents
  <2>1. PICK active \in BOOLEAN :
            req' = Request("GET", "agents", [active |-> active], NoBody)
    BY <1>9 DEF CallGetAgents
  <2>2. NoneFree([active |-> active])
    BY DEF NoneFree
  <2>. QED  BY <1>1, <1>2, <2>1, <2>2
<1>10. CASE CallGetMarketplaceOffers
  BY <1>1, <1>2, <1>10, TruthyArgsNoneFree
  DEF CallGetMarketplaceOffers, OffersQuery
<1>11. CASE CallGetUsageStats
  BY <1>1, <1>2, <1>11, TruthyArgsNoneFree DEF CallGetUsageStats
<1>12. CASE UNCHANGED vars
  BY <1>12 DEF vars, NoNoneOnWire, BodyDicts
<1>. QED
  BY <1>3, <1>4, <1>5, <1>6, <1>7, <1>8, <1>9, <1>10, <1>11, <1>12 DEF Next

-----------------------------------------------------------------------------
\* Spec §8.2, for every argument the caller may pass: no request of any
\* operation carries None, in a query or in a value object of a job body
\* (the to_dict filters at client.py 48-89 and the query building of every
\* operation).
THEOREM NoNoneSent == Spec => []NoNoneOnWire
<1>1. Init => NoNoneOnWire
  <2> SUFFICES ASSUME Init PROVE NoNoneOnWire
    OBVIOUS
  <2>1. DOMAIN NoQuery = {} /\ DOMAIN NoBody = {}
    BY DEF NoQuery, NoBody
  <2>2. req.query = NoQuery /\ req.body = NoBody
    BY DEF Init, NoRequest, Request
  <2>. QED
    BY <2>1, <2>2 DEF NoNoneOnWire, BodyDicts
<1>. QED
  BY <1>1, NextNoNone, PTL DEF Spec

-----------------------------------------------------------------------------
(* Every request is well formed.                                           *)

\* Filtering a map keeps a subset of its keys.
LEMMA FilteredKeys ==
    ASSUME NEW args, NEW zeros
    PROVE  /\ DOMAIN Explicit(args) \subseteq DOMAIN args
           /\ DOMAIN TruthyArgs(args, zeros) \subseteq DOMAIN args
BY DEF Explicit, TruthyArgs, RestrictDomain, RestrictValues, Restrict

\* A job envelope has the fields of submit_job and no other.
LEMMA EnvelopeKeys ==
    ASSUME NEW type, NEW reqs, NEW payload, NEW priority, NEW timeout,
           NEW maxRetries, NEW sla
    PROVE  DOMAIN Envelope(type, reqs, payload, priority, timeout,
                           maxRetries, sla)
               \subseteq {"type", "requirements", "payload", "priority",
                          "timeout", "max_retries", "sla_requirements"}
BY DEF Envelope

\* What a call leaves of logs and envArg.
LEMMA NextSideTypes == TypeOK /\ [Next]_vars =>
                           logs' \in {"line", ""} /\ envArg' \in Opt(EnvMaps)
<1> SUFFICES ASSUME TypeOK, [Next]_vars
             PROVE  logs' \in {"line", ""} /\ envArg' \in Opt(EnvMaps)
    OBVIOUS
<1>1. CASE CallGetJobLogs
  <2>1. PICK answer \in {[logs |-> "line"], [other |-> "x"]} :
            /\ logs' = IF "logs" \in DOMAIN answer THEN answer.logs ELSE ""
            /\ envArg' = envArg
    BY <1>1 DEF CallGetJobLogs
  <2>2. CASE answer = [logs |-> "line"]
    BY <2>1, <2>2 DEF TypeOK
  <2>3. CASE answer = [other |-> "x"]
    <3>1. "logs" \notin DOMAIN answer
      BY <2>3
    <3>. QED  BY <2>1, <3>1 DEF TypeOK
  <2>. QED  BY <2>1, <2>2, <2>3
<1>2. CASE CallSubmitDockerJob
  <2>1. logs' = logs /\ envArg' \in Opt(EnvMaps)
    BY <1>2 DEF CallSubmitDockerJob
  <2>. QED  BY <2>1 DEF TypeOK
<1>3. CASE \/ CallPlain \/ CallSubmitJob \/ CallSubmitScriptJob
           \/ CallListJobs \/ CallGetAgents \/ CallGetMarketplaceOffers
           \/ CallGetUsageStats \/ UNCHANGED vars
  <2>1. logs' = logs /\ envArg' = envArg
    <3>1. CASE CallPlain
      BY <3>1 DEF CallPlain
    <3>2. CASE CallSubmitJob
      BY <3>2 DEF CallSubmitJob
    <3>3. CASE CallSubmitScriptJob
      BY <3>3 DEF CallSubmitScriptJob
    <3>4. CASE CallListJobs
      BY <3>4 DEF CallListJobs
    <3>5. CASE CallGetAgents
      BY <3>5 DEF CallGetAgents
    <3>6. CASE CallGetMarketplaceOffers
      BY <3>6 DEF CallGetMarketplaceOffers
    <3>7. CASE CallGetUsageStats
      BY <3>7 DEF CallGetUsageStats
    <3>8. CASE UNCHANGED vars
      BY <3>8 DEF vars
    <3>. QED  BY <1>3, <3>1, <3>2, <3>3, <3>4, <3>5, <3>6, <3>7, <3>8
  <2>. QED  BY <2>1 DEF TypeOK
<1>. QED  BY <1>1, <1>2, <1>3 DEF Next

\* Every call builds a request with the shape TypeOK names.
LEMMA NextReqType == [Next]_vars /\ TypeOK => TypeOK!1' /\ TypeOK!2'
                                              /\ TypeOK!3' /\ TypeOK!4'
<1> SUFFICES ASSUME [Next]_vars, TypeOK
             PROVE  TypeOK!1' /\ TypeOK!2' /\ TypeOK!3' /\ TypeOK!4'
    OBVIOUS
<1>1. DOMAIN NoQuery = {} /\ DOMAIN NoBody = {}
  BY DEF NoQuery, NoBody
<1>2. CASE CallPlain
  <2>. PICK r \in {<<"GET", "job">>, <<"POST", "cancel">>, <<"GET", "result">>,
                   <<"GET", "agent">>, <<"GET", "billing">>} :
           req' = Request(r[1], r[2], NoQuery, NoBody)
    BY <1>2 DEF CallPlain
  <2>. QED  BY <1>1 DEF Request, Routes
<1>3. CASE CallSubmitJob \/ CallSubmitDockerJob \/ CallSubmitScriptJob
  <2>1. \E type, reqs, payload, priority, timeout, maxRetries, sla :
            req' = Request("POST", "jobs", NoQuery,
                           Envelope(type, reqs, payload, priority, timeout,
                                    maxRetries, sla))
    <3>1. CASE CallSubmitJob
      BY <3>1 DEF CallSubmitJob
    <3>2. CASE CallSubmitDockerJob
      BY <3>2 DEF CallSubmitDockerJob
    <3>3. CASE CallSubmitScriptJob
      BY <3>3 DEF CallSubmitScriptJob
    <3>. QED  BY <1>3, <3>1, <3>2, <3>3
  <2>2. PICK type, reqs, payload, priority, timeout, maxRetries, sla :
            req' = Request("POST", "jobs", NoQuery,
                           Envelope(type, reqs, payload, priority, timeout,
                                    maxRetries, sla))
    BY <2>1
  <2>3. DOMAIN Envelope(type, reqs, payload, priority, timeout, maxRetries, sla)
            \subseteq {"type", "requirements", "payload", "priority",
                       "timeout", "max_retries", "sla_requirements"}
    BY EnvelopeKeys
  <2>. QED  BY <1>1, <2>2, <2>3 DEF Request, Routes
<1>4. CASE CallListJobs
  <2>. PICK status \in Opt(JobStatuses), limit \in Ints :
           req' = Request("GET", "jobs",
                          Explicit([limit |-> limit, offset |-> 0,
                                    status |-> status]), NoBody)
    BY <1>4 DEF CallListJobs
  <2>. QED  BY <1>1, FilteredKeys DEF Request, Routes
<1>5. CASE CallGetJobLogs
  <2>. PICK tail \in Ints : req' = Request("GET", "logs", [tail |-> tail], NoBody)
    BY <1>5 DEF CallGetJobLogs
  <2>. QED  BY <1>1 DEF Request, Routes
<1>6. CASE CallGetAgents
  <2>. PICK active \in BOOLEAN :
           req' = Request("GET", "agents", [active |-> active], NoBody)
    BY <1>6 DEF CallGetAgents
  <2>. QED  BY <1>1 DEF Request, Routes
<1>7. CASE CallGetMarketplaceOffers
  <2>. PICK minCpu, minMemory, maxPrice \in Opt(Ints), region \in Opt(Strs) :
           req' = Request("GET", "offers",
                          OffersQuery(minCpu, minMemory, maxPrice, region), NoBody)
    BY <1>7 DEF CallGetMarketplaceOffers
  <2>. QED  BY <1>1, FilteredKeys DEF OffersQuery, Request, Routes
<1>8. CASE CallGetUsageStats
  <2>. PICK start, end \in Opt(Strs) :
           LET args == [start_date |-> start, end_date |-> end]
               zeros == [start_date |-> "", end_date |-> ""]
           IN  req' = Request("GET", "usage", TruthyArgs(args, zeros), NoBody)
    BY <1>8 DEF CallGetUsageStats
  <2> DEFINE args == [start_date |-> start, end_date |-> end]
             zeros == [start_date |-> "", end_date |-> ""]
  <2>1. DOMAIN TruthyArgs(args, zeros) \subseteq DOMAIN args
    BY FilteredKeys
  <2>2. DOMAIN args = {"start_date", "end_date"}
    OBVIOUS
  <2>. QED  BY <1>1, <2>1, <2>2 DEF Request, Routes
<1>9. CASE UNCHANGED vars
  BY <1>9 DEF vars, TypeOK
<1>. QED
  BY <1>2, <1>3, <1>4, <1>5, <1>6, <1>7, <1>8, <1>9 DEF Next

\* Every request the API surface builds is a GET or a POST to one of its
\* routes, with query and body keys among the ones the operations name.
THEOREM TypeCorrect == Spec => []TypeOK
<1>1. Init => TypeOK
  <2> SUFFICES ASSUME Init PROVE TypeOK
    OBVIOUS
  <2>1. DOMAIN NoQuery = {} /\ DOMAIN NoBody = {}
    BY DEF NoQuery, NoBody
  <2>2. req = [method |-> "none", route |-> "none", query |-> NoQuery,
               body |-> NoBody]
    BY DEF Init, NoRequest, Request
  <2>3. envArg \in Opt(EnvMaps) /\ logs \in {"line", ""}
    BY DEF Init, Opt
  <2>. QED  BY <2>1, <2>2, <2>3 DEF TypeOK, Routes
<1>2. TypeOK /\ [Next]_vars => TypeOK'
  BY NextSideTypes, NextReqType DEF TypeOK
<1>. QED
  BY <1>1, <1>2, PTL DEF Spec

=============================================================================
