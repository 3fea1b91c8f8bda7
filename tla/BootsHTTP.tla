----------------------------- MODULE BootsHTTP -----------------------------
(***************************************************************************)
(* The HTTP front of boots (src/cmd/boots/http.go).  Every request is      *)
(* handled by its own goroutine; the only shared state is the external     *)
(* inventory backend (tink server / packet API), which other actors change *)
(* at any time.  A handler is split into atomic steps at each blocking     *)
(* call to the backend, because the inventory may change between two of    *)
(* them.  Each request slot of Reqs carries one request from arrival to    *)
(* its response.                                                           *)
(***************************************************************************)
EXTENDS Naturals, FiniteSets

CONSTANTS
    IPs,              \* client source addresses
    HwIDs,            \* hardware records of the inventory
    Instances,        \* instance ids (a provisioned OS on a hardware)
    NoHw,             \* sentinel: no hardware record for an address
    NoInstance,       \* sentinel: hardware without an instance
    Capable,          \* hardware whose platform supports workflows (CanWorkflow)
    Reqs,             \* request slots, each carrying one request
    FinderConfigured  \* s.workflowFinder != nil

ASSUME HTTPAssumption ==
    /\ IPs # {}
    /\ NoHw \notin HwIDs
    /\ NoInstance \notin Instances
    /\ Capable \subseteq HwIDs
    /\ FinderConfigured \in BOOLEAN

VARIABLES
    \* the inventory backend (external, changed by other actors)
    owner,     \* owner[ip]: hardware record ByIP(ip) returns, or NoHw
    allowPXE,  \* allowPXE[h]: network.interfaces[].netboot.allow_pxe of h
    instance,  \* instance[h]: the instance provisioned on h, or NoInstance
    active,    \* hardware with an active workflow
    up,        \* the backend answers (FALSE: every call returns an error)
    \* the handlers
    req,       \* req[r]: state of the request carried by slot r
    \* observation: instance events delivered to the backend by /events
    posted

vars == <<owner, allowPXE, instance, active, up, req, posted>>
invVars == <<owner, allowPXE, instance, active, up>>

Endpoints == {"file", "hardware", "phonehome", "problem", "events"}

\* req.RemoteAddr as net.SplitHostPort / net.ParseIP see it
AddrForms == {"hostport", "nohostport", "badip"}

\* the request body as readClose / json.Unmarshal see it
Bodies == {"json", "empty", "badjson", "readerr"}

\* response codes; NoResponse: the handler panicked before writing one
NoResponse == 0
Codes == {NoResponse, 200, 400, 404}

\* what the handler served after its checks passed
Served == {"none", "file", "hardware", "problem", "phonehome", "event"}

\* result of s.workflowFinder.HasActiveWorkflow, "unchecked" if not called
WfResults == {"unchecked", "active", "inactive", "error"}

\* A Job is the request-scoped snapshot of the hardware record
Job == [hw: HwIDs \cup {NoHw}, allowPXE: BOOLEAN, canWorkflow: BOOLEAN,
        inst: Instances \cup {NoInstance}]
NoJob == [hw |-> NoHw, allowPXE |-> FALSE, canWorkflow |-> FALSE,
          inst |-> NoInstance]

Pcs == {"idle", "new", "wfcheck", "phonehome", "post", "done"}

Request == [ep: Endpoints, ip: IPs, addr: AddrForms, body: Bodies,
            pc: Pcs, code: Codes, served: Served, job: Job,
            wf: WfResults, dev: Instances \cup {NoInstance},
            unavail: BOOLEAN, logged: BOOLEAN]

Event == [req: Reqs, inst: Instances]

TypeOK ==
    /\ owner \in [IPs -> HwIDs \cup {NoHw}]
    /\ allowPXE \in [HwIDs -> BOOLEAN]
    /\ instance \in [HwIDs -> Instances \cup {NoInstance}]
    /\ active \subseteq HwIDs
    /\ up \in BOOLEAN
    /\ req \in [Reqs -> Request]
    /\ posted \subseteq Event

-----------------------------------------------------------------------------
(* Job resolution: jobManager.CreateFromRemoteAddr (package job).          *)

\* CreateFromRemoteAddr fails: unparsable address, backend down, no record
ResolveFails(r) ==
    \/ req[r].addr # "hostport"
    \/ ~up
    \/ owner[req[r].ip] = NoHw

\* the failure is the backend being unreachable (Unavailable, not NotFound)
ResolveUnavail(r) == req[r].addr = "hostport" /\ ~up

\* the job built from the hardware record the backend returned
JobOf(ip) ==
    [hw |-> owner[ip], allowPXE |-> allowPXE[owner[ip]],
     canWorkflow |-> owner[ip] \in Capable, inst |-> instance[owner[ip]]]

\* The handler writes its response: the request is done.
Respond(r, code, served, logged) ==
    req' = [req EXCEPT ![r].pc = "done", ![r].code = code,
                       ![r].served = served, ![r].logged = logged]

-----------------------------------------------------------------------------
(* The inventory backend: other actors change it at any time.              *)

TogglePXE(h) ==
    /\ allowPXE' = [allowPXE EXCEPT ![h] = ~@]
    /\ UNCHANGED <<owner, instance, active, up, req, posted>>

StartWorkflow(h) ==
    /\ h \notin active
    /\ active' = active \cup {h}
    /\ UNCHANGED <<owner, allowPXE, instance, up, req, posted>>

FinishWorkflow(h) ==
    /\ h \in active
    /\ active' = active \ {h}
    /\ UNCHANGED <<owner, allowPXE, instance, up, req, posted>>

\* an instance is provisioned on h, or h is deprovisioned
Provision(h, i) ==
    /\ instance[h] = NoInstance
    /\ \A g \in HwIDs : instance[g] # i
    /\ instance' = [instance EXCEPT ![h] = i]
    /\ UNCHANGED <<owner, allowPXE, active, up, req, posted>>

Deprovision(h) ==
    /\ instance[h] # NoInstance
    /\ instance' = [instance EXCEPT ![h] = NoInstance]
    /\ UNCHANGED <<owner, allowPXE, active, up, req, posted>>

\* an address is (re)assigned to a hardware record, or released
Rebind(ip, h) ==
    /\ owner[ip] # h
    /\ owner' = [owner EXCEPT ![ip] = h]
    /\ UNCHANGED <<allowPXE, instance, active, up, req, posted>>

\* the backend becomes unreachable, or reachable again
BackendFlip ==
    /\ up' = ~up
    /\ UNCHANGED <<owner, allowPXE, instance, active, req, posted>>

Inventory ==
    \/ \E h \in HwIDs : TogglePXE(h) \/ StartWorkflow(h) \/ FinishWorkflow(h)
                        \/ Deprovision(h)
    \/ \E h \in HwIDs, i \in Instances : Provision(h, i)
    \/ \E ip \in IPs, h \in HwIDs \cup {NoHw} : Rebind(ip, h)
    \/ BackendFlip

-----------------------------------------------------------------------------
(* Requests                                                                *)

\* a client sends a request to one of the endpoints
Arrive(r, ep, ip, addr, body) ==
    /\ req[r].pc = "idle"
    /\ req' = [req EXCEPT ![r].ep = ep, ![r].ip = ip, ![r].addr = addr,
                          ![r].body = body, ![r].pc = "new"]
    /\ UNCHANGED <<invVars, posted>>

\* GET /: jobHandler.serveJobFile.  No job: 404; allow_pxe false: 404;
\* otherwise the job serves its file.  All failures are logged.
ServeJobFile(r) ==
    /\ req[r].pc = "new" /\ req[r].ep = "file"
    /\ IF ResolveFails(r)
       THEN /\ req' = [req EXCEPT ![r].pc = "done", ![r].code = 404,
                                  ![r].unavail = ResolveUnavail(r), ![r].logged = TRUE]
       ELSE LET j == JobOf(req[r].ip) IN
            /\ req' = [req EXCEPT ![r].job = j, ![r].pc = "done",
                         ![r].code = IF j.allowPXE THEN 200 ELSE 404,
                         ![r].served = IF j.allowPXE THEN "file" ELSE "none",
                         ![r].logged = ~j.allowPXE]
    /\ UNCHANGED <<invVars, posted>>

\* The workflow gate applies to job j on endpoint ep: serveHardware checks
\* CanWorkflow only; serveProblem also skips the check when no workflow
\* finder is configured.
Gated(ep, j) ==
    /\ j.canWorkflow
    /\ ep = "problem" => FinderConfigured

\* GET /hardware-components and /problem, first step: resolve the job.
GatedResolve(r) ==
    /\ req[r].pc = "new" /\ req[r].ep \in {"hardware", "problem"}
    /\ IF ResolveFails(r)
       THEN req' = [req EXCEPT ![r].pc = "done", ![r].code = 404,
                               ![r].unavail = ResolveUnavail(r), ![r].logged = TRUE]
       ELSE LET j == JobOf(req[r].ip)
                gated == Gated(req[r].ep, j)
            IN req' = [req EXCEPT ![r].job = j,
                         ![r].pc = IF gated THEN "wfcheck" ELSE "done",
                         ![r].code = IF gated THEN NoResponse ELSE 200,
                         ![r].served = IF gated THEN "none" ELSE req[r].ep]
    /\ UNCHANGED <<invVars, posted>>

\* Second step: s.workflowFinder.HasActiveWorkflow(ctx, j.HardwareID()),
\* answered from the inventory as it is now, not as it was at resolution.
WfAnswer(r) ==
    IF ~up THEN "error"
    ELSE IF req[r].job.hw \in active THEN "active" ELSE "inactive"

\* The handler writes the response the workflow answer calls for.
WfRespond(r, res, code) ==
    req' = [req EXCEPT ![r].wf = res, ![r].pc = "done", ![r].code = code,
                       ![r].served = IF code = 200 THEN req[r].ep ELSE "none",
                       ![r].unavail = (res = "error"),
                       ![r].logged = (code # 200)]

\* (mutant) a HasActiveWorkflow error is answered 500
WorkflowCheckErr500(r) ==
    /\ req[r].pc = "wfcheck"
    /\ LET res == WfAnswer(r) IN
       WfRespond(r, res, CASE res = "active" -> 200 [] res = "error" -> 500
                            [] OTHER -> 404)
    /\ UNCHANGED <<invVars, posted>>

\* (mutant) the !activeWorkflows early return is dropped
WorkflowCheckNoActiveTest(r) ==
    /\ req[r].pc = "wfcheck"
    /\ LET res == WfAnswer(r) IN WfRespond(r, res, IF res = "error" THEN 404 ELSE 200)
    /\ UNCHANGED <<invVars, posted>>

\* (mutant) the handler retries HasActiveWorkflow until the backend answers
WorkflowCheckAwaitBackend(r) ==
    /\ req[r].pc = "wfcheck"
    /\ up
    /\ LET res == WfAnswer(r) IN WfRespond(r, res, IF res = "active" THEN 200 ELSE 404)
    /\ UNCHANGED <<invVars, posted>>

\* An error or no active workflow: 404; with a nil finder, serveHardware
\* dereferences it and panics (net/http recovers, no response is written).
WorkflowCheck(r) ==
    /\ req[r].pc = "wfcheck"
    /\ IF ~FinderConfigured
       THEN Respond(r, NoResponse, "none", TRUE)
       ELSE LET res == WfAnswer(r) IN
            WfRespond(r, res, IF res = "active" THEN 200 ELSE 404)
    /\ UNCHANGED <<invVars, posted>>

\* POST /phone-home: servePhoneHome.  No job: 200 (logged).
PhoneHomeResolve(r) ==
    /\ req[r].pc = "new" /\ req[r].ep = "phonehome"
    /\ IF ResolveFails(r)
       THEN req' = [req EXCEPT ![r].pc = "done", ![r].code = 200,
                               ![r].unavail = ResolveUnavail(r), ![r].logged = TRUE]
       ELSE req' = [req EXCEPT ![r].job = JobOf(req[r].ip), ![r].pc = "phonehome"]
    /\ UNCHANGED <<invVars, posted>>

\* j.ServePhoneHomeEndpoint: a malformed body is 400, anything else 200.
PhoneHomeServe(r) ==
    /\ req[r].pc = "phonehome"
    /\ IF req[r].body = "json"
       THEN Respond(r, 200, "phonehome", FALSE)
       ELSE Respond(r, 400, "none", TRUE)
    /\ UNCHANGED <<invVars, posted>>

\* the device GetInstanceIDFromIP finds: ByIP's record and its instance
Device(ip) == IF owner[ip] = NoHw THEN NoInstance ELSE instance[owner[ip]]

\* POST /events, first step: SplitHostPort, ParseIP, GetInstanceIDFromIP.
\* The wrapper in ServeHTTP logs the error only when the code is not 200.
EventsLookupBody(r) ==
    \/ /\ req[r].addr = "nohostport"
       /\ Respond(r, 400, "none", TRUE)
    \/ /\ req[r].addr = "badip"
       /\ Respond(r, 200, "none", FALSE)
    \/ /\ req[r].addr = "hostport"
       /\ ~up \/ Device(req[r].ip) = NoInstance
       /\ req' = [req EXCEPT ![r].pc = "done", ![r].code = 200,
                             ![r].unavail = ~up, ![r].logged = FALSE]
    \/ /\ req[r].addr = "hostport"
       /\ up /\ Device(req[r].ip) # NoInstance
       /\ req' = [req EXCEPT ![r].dev = Device(req[r].ip), ![r].pc = "post"]

\* (mutant) the lookup is retried until the backend answers
EventsLookupAwaitBackend(r) ==
    /\ req[r].pc = "new" /\ req[r].ep = "events"
    /\ up
    /\ EventsLookupBody(r)
    /\ UNCHANGED <<invVars, posted>>

EventsLookup(r) ==
    /\ req[r].pc = "new" /\ req[r].ep = "events"
    /\ EventsLookupBody(r)
    /\ UNCHANGED <<invVars, posted>>

\* the post reached the backend: the event is recorded and the answer is 200
Delivered(r) ==
    /\ Respond(r, 200, "event", FALSE)
    /\ posted' = posted \cup {[req |-> r, inst |-> req[r].dev]}

\* (mutant) a failed post is answered 500 (the TODO in serveEvents)
EventsPostErr500(r) ==
    /\ req[r].pc = "post"
    /\ \/ req[r].body # "json" /\ Respond(r, 400, "none", TRUE) /\ UNCHANGED posted
       \/ req[r].body = "json" /\ ~up /\ Respond(r, 500, "none", TRUE) /\ UNCHANGED posted
       \/ req[r].body = "json" /\ up /\ Delivered(r)
    /\ UNCHANGED invVars

\* (mutant) the error of PostInstanceEvent is ignored
EventsPostIgnoreErr(r) ==
    /\ req[r].pc = "post"
    /\ \/ req[r].body # "json" /\ Respond(r, 400, "none", TRUE) /\ UNCHANGED posted
       \/ req[r].body = "json" /\ ~up /\ Respond(r, 200, "event", FALSE) /\ UNCHANGED posted
       \/ req[r].body = "json" /\ up /\ Delivered(r)
    /\ UNCHANGED invVars

\* Second step: readClose, the empty check, json.Unmarshal, then
\* PostInstanceEvent to the device found by the lookup.  A failed post is 400.
EventsPost(r) ==
    /\ req[r].pc = "post"
    /\ \/ /\ req[r].body # "json"
          /\ Respond(r, 400, "none", TRUE)
          /\ UNCHANGED posted
       \/ /\ req[r].body = "json" /\ ~up
          /\ req' = [req EXCEPT ![r].pc = "done", ![r].code = 400,
                                ![r].unavail = TRUE, ![r].logged = TRUE]
          /\ UNCHANGED posted
       \/ /\ req[r].body = "json" /\ up
          /\ Delivered(r)
    /\ UNCHANGED invVars

\* every step a request's handler can take
Handle(r) ==
    \/ ServeJobFile(r) \/ GatedResolve(r) \/ WorkflowCheck(r)
    \/ PhoneHomeResolve(r) \/ PhoneHomeServe(r)
    \/ EventsLookup(r) \/ EventsPost(r)

-----------------------------------------------------------------------------
Init ==
    /\ owner \in [IPs -> HwIDs \cup {NoHw}]
    /\ allowPXE \in [HwIDs -> BOOLEAN]
    /\ instance = [h \in HwIDs |-> NoInstance]
    /\ active = {}
    /\ up \in BOOLEAN
    /\ req = [r \in Reqs |->
                [ep |-> CHOOSE ep \in Endpoints : TRUE,
                 ip |-> CHOOSE ip \in IPs : TRUE,
                 addr |-> CHOOSE a \in AddrForms : TRUE,
                 body |-> CHOOSE b \in Bodies : TRUE, pc |-> "idle",
                 code |-> NoResponse, served |-> "none", job |-> NoJob,
                 wf |-> "unchecked", dev |-> NoInstance,
                 unavail |-> FALSE, logged |-> FALSE]]
    /\ posted = {}

Next ==
    \/ Inventory
    \/ \E r \in Reqs, ep \in Endpoints, ip \in IPs, addr \in AddrForms,
          body \in Bodies : Arrive(r, ep, ip, addr, body)
    \/ \E r \in Reqs : Handle(r)

\* Each handler goroutine runs to completion: every backend call returns
\* (with an answer or an error).  Clients and the inventory are not fair.
Fairness == \A r \in Reqs : WF_vars(Handle(r))

Spec == Init /\ [][Next]_vars /\ Fairness

-----------------------------------------------------------------------------
(* Properties                                                              *)

\* Serving is gated on the job the request resolved: GET / serves a file
\* only for a record whose allow_pxe is true (serveJobFile), and the
\* hardware dump and problem report of a workflow-capable machine are
\* served only after HasActiveWorkflow answered true (serveHardware,
\* serveProblem), however the inventory changes meanwhile.
GatedServing ==
    \A r \in Reqs :
        /\ req[r].served = "file" => req[r].job.allowPXE
        /\ req[r].served \in {"hardware", "problem"} /\ req[r].job.canWorkflow
              => req[r].wf = "active"

\* POST /events forwards exactly one event per request, to the device its
\* lookup found, and only for the requests it answers 200 after finding a
\* device: a failed post, a bad body or a missing device forward nothing
\* (serveEvents, GetInstanceIDFromIP, PostInstanceEvent).
ForwardedExactlyOnce ==
    \A r \in Reqs :
        {e \in posted : e.req = r} =
            IF /\ req[r].ep = "events" /\ req[r].pc = "done"
               /\ req[r].code = 200 /\ req[r].dev # NoInstance
            THEN {[req |-> r, inst |-> req[r].dev]}
            ELSE {}

\* Every request gets its response: no handler waits forever, whatever the
\* backend and the inventory do (all handlers of http.go).
EveryRequestAnswered ==
    \A r \in Reqs : req[r].pc = "new" ~> req[r].pc = "done"

\* The spec (section 7) reserves 400 for a malformed request: a 400 is
\* written only for an unparsable address or a bad body (serveEvents,
\* ServePhoneHomeEndpoint).
BadRequestOnlyWhenMalformed ==
    \A r \in Reqs :
        req[r].code = 400 => req[r].addr = "nohostport" \/ req[r].body # "json"

\* The spec (sections 4.1, 7) says an unreachable backend is logged and not
\* treated as "no such machine": every request that met an Unavailable
\* backend logs it.
UnavailableLogged ==
    \A r \in Reqs : req[r].pc = "done" /\ req[r].unavail => req[r].logged

\* The spec (section 7) says a single request never panics the service:
\* every handler that finished wrote a response.
HandlerNeverPanics ==
    \A r \in Reqs : req[r].pc = "done" => req[r].code # NoResponse

-----------------------------------------------------------------------------
(* Refinement: the handlers implement the contract of RequestContract.  A  *)
(* request is pending from its arrival until its handler writes the       *)
(* response; the intermediate steps at the backend calls are stutters.     *)

Lifecycle(pc) == CASE pc = "idle" -> "idle" [] pc = "done" -> "done" [] OTHER -> "pending"

Contract == INSTANCE RequestContract
    WITH areq <- [r \in Reqs |-> [st |-> Lifecycle(req[r].pc), ep |-> req[r].ep,
                                  code |-> req[r].code]]

\* The handlers of http.go answer every request exactly once, with a status
\* its endpoint documents, and /events forwards an event only when it
\* answers 200, at most once per request (all handlers; serveEvents).
ImplementsContract == Contract!Spec

=============================================================================
