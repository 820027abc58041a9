------------------------------ MODULE HttpCall ------------------------------
(***************************************************************************)
(* What one call of ComputeHiveClient._make_request (client.py 152-180)    *)
(* promises its caller, without attempts' outcomes, sleeps or clocks: a    *)
(* call reaches the server some number of times, each time answered or     *)
(* not, and then ends with one result.                                     *)
(*   - It reaches the server at most once per attempt the retry budget     *)
(*     allows, whatever the method.                                        *)
(*   - A POST (submit_job, cancel_job: not idempotent) that the server     *)
(*     answered is never sent again: its answer ends the call.  A POST     *)
(*     that reached the server without an answer may be sent again.        *)
(*   - A result other than a network error is the server's answer to the   *)
(*     request that ended the call.                                        *)
(* Module Transport implements it.                                         *)
(***************************************************************************)
EXTENDS Naturals

CONSTANTS MaxRetries   \* max_retries of the client

VARIABLES
    state,      \* "idle" before any call, "busy" during one, "done" after
    verb,       \* the HTTP method of the call
    delivered,  \* how many times the call's request reached the server
    answered,   \* whether the server answered the latest attempt
    outcome     \* what the call returned or raised, "none" during it

cvars == <<state, verb, delivered, answered, outcome>>

Verbs == {"GET", "POST"}

\* The results of a call: a decoded body or one of the errors it raises.
Outcomes == {"ok", "auth", "bad_request", "api", "network"}

\* How often one call may reach the server.
DeliveryBound == MaxRetries + 1

\* Whether the call may try once more: not after the server answered a POST.
MayResend == ~(verb = "POST" /\ answered)

CInit ==
    /\ state = "idle"
    /\ verb = "GET"
    /\ delivered = 0
    /\ answered = FALSE
    /\ outcome = "none"

\* A caller enters _make_request.
Call(m) ==
    /\ state \in {"idle", "done"}
    /\ state' = "busy"
    /\ verb' = m
    /\ delivered' = 0
    /\ answered' = FALSE
    /\ outcome' = "none"

\* The request reaches the server once more, answered or not, and the
\* call goes on.
Reach ==
    /\ state = "busy"
    /\ MayResend
    /\ delivered + 1 <= DeliveryBound
    /\ delivered' = delivered + 1
    /\ answered' \in BOOLEAN
    /\ UNCHANGED <<state, verb, outcome>>

\* An attempt whose request never left, and the call goes on.
Miss ==
    /\ state = "busy"
    /\ MayResend
    /\ answered' = FALSE
    /\ UNCHANGED <<state, verb, delivered, outcome>>

\* The call ends with a result: after a last delivery, which a result other
\* than a network error is the answer to, or after a request that never
\* left, with a network error.
Finish ==
    /\ state = "busy"
    /\ MayResend
    /\ state' = "done"
    /\ outcome' \in Outcomes
    /\ \/ /\ delivered + 1 <= DeliveryBound
          /\ delivered' = delivered + 1
          /\ answered' \in BOOLEAN
          /\ outcome' # "network" => answered'
       \/ /\ delivered' = delivered
          /\ answered' = FALSE
          /\ outcome' = "network"
    /\ UNCHANGED verb

CNext == (\E m \in Verbs : Call(m)) \/ Reach \/ Miss \/ Finish

CSpec == CInit /\ [][CNext]_cvars

=============================================================================
