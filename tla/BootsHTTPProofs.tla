-------------------------- MODULE BootsHTTPProofs --------------------------
(***************************************************************************)
(* Proofs about the HTTP front: type correctness, and that /events         *)
(* forwards exactly one event per request answered 200 with a device, for  *)
(* every set of addresses, hardware, instances and requests.               *)
(***************************************************************************)
EXTENDS BootsHTTP, TLAPS

\* the initial request record has the type of a request
LEMMA InitRequestType ==
    ASSUME HTTPAssumption
    PROVE  [ep |-> CHOOSE ep \in Endpoints : TRUE,
            ip |-> CHOOSE ip \in IPs : TRUE,
            addr |-> CHOOSE a \in AddrForms : TRUE,
            body |-> CHOOSE b \in Bodies : TRUE, pc |-> "idle",
            code |-> NoResponse, served |-> "none", job |-> NoJob,
            wf |-> "unchecked", dev |-> NoInstance,
            unavail |-> FALSE, logged |-> FALSE] \in Request
  BY DEF HTTPAssumption, Request, Endpoints, AddrForms, Bodies, Pcs, Codes,
         NoResponse, Served, WfResults, Job, NoJob

\* Init establishes the type invariant.
LEMMA InitTypeOK == Init => TypeOK
  BY InitRequestType, HTTPAssumption DEF Init, TypeOK

(***************************************************************************)
(* A request's device is set only by a successful lookup, and a request    *)
(* waits to post only on /events with a device.  Needed because the event *)
(* EventsPost records carries that device.                                 *)
(***************************************************************************)
DevInv ==
    \A r \in Reqs :
        /\ req[r].pc \in {"idle", "new", "wfcheck", "phonehome"}
              => req[r].dev = NoInstance
        /\ req[r].pc = "post" => req[r].ep = "events" /\ req[r].dev \in Instances

\* Every step of Next preserves the type invariant.
LEMMA NextTypeOK == TypeOK /\ DevInv /\ [Next]_vars => TypeOK'
  <1> SUFFICES ASSUME TypeOK, DevInv, [Next]_vars PROVE TypeOK'
    OBVIOUS
  <1>1. ASSUME NEW h \in HwIDs, TogglePXE(h) \/ StartWorkflow(h)
                 \/ FinishWorkflow(h) \/ Deprovision(h)
        PROVE  TypeOK'
    BY <1>1
    DEF TypeOK, TogglePXE, StartWorkflow, FinishWorkflow, Deprovision
  <1>2. ASSUME NEW h \in HwIDs, NEW i \in Instances, Provision(h, i)
        PROVE  TypeOK'
    BY <1>2 DEF TypeOK, Provision
  <1>3. ASSUME NEW ip \in IPs, NEW h \in HwIDs \cup {NoHw}, Rebind(ip, h)
        PROVE  TypeOK'
    BY <1>3 DEF TypeOK, Rebind
  <1>4. CASE BackendFlip
    BY <1>4 DEF TypeOK, BackendFlip
  <1>5. ASSUME NEW r \in Reqs, NEW ep \in Endpoints, NEW ip \in IPs,
               NEW addr \in AddrForms, NEW body \in Bodies,
               Arrive(r, ep, ip, addr, body)
        PROVE  TypeOK'
    BY <1>5 DEF TypeOK, Arrive, Request, Pcs
  <1>6. ASSUME NEW r \in Reqs, Handle(r) PROVE TypeOK'
    <2> USE DEF TypeOK, Request, invVars, Codes, Served, Pcs
    <2>2. ~ResolveFails(r) => JobOf(req[r].ip) \in Job
      BY HTTPAssumption DEF ResolveFails, JobOf, Job
    <2>3. CASE ServeJobFile(r)
      BY <2>2, <2>3 DEF ServeJobFile, ResolveUnavail, Codes, Served
    <2>4. CASE GatedResolve(r)
      BY <2>2, <2>4 DEF GatedResolve, Gated, ResolveUnavail, Codes,
                        Served, Pcs, Endpoints, NoResponse
    <2>5. CASE WorkflowCheck(r)
      BY <2>5 DEF WorkflowCheck, WfAnswer, WfRespond, Respond, Codes,
                  Served, WfResults, NoResponse
    <2>6. CASE PhoneHomeResolve(r)
      BY <2>2, <2>6 DEF PhoneHomeResolve, ResolveUnavail, Codes, Pcs
    <2>7. CASE PhoneHomeServe(r)
      BY <2>7 DEF PhoneHomeServe, Respond, Codes, Served
    <2>8. CASE EventsLookup(r)
      <3>1. Device(req[r].ip) \in Instances \cup {NoInstance}
        BY DEF Device
      <3>2. QED
        BY <2>8, <3>1 DEF EventsLookup, EventsLookupBody, Respond
    <2>9. CASE EventsPost(r)
      <3>1. req[r].pc = "post"
        BY <2>9 DEF EventsPost
      <3>2. req[r].dev \in Instances
        BY <3>1 DEF DevInv
      <3>3. QED
        BY <2>9, <3>2 DEF EventsPost, Delivered, Respond, Event
    <2>10. QED
      BY <1>6, <2>3, <2>4, <2>5, <2>6, <2>7, <2>8, <2>9 DEF Handle
  <1>7. CASE UNCHANGED vars
    BY <1>7 DEF TypeOK, vars
  <1>8. QED
    BY <1>1, <1>2, <1>3, <1>4, <1>5, <1>6, <1>7 DEF Next, Inventory

\* Init establishes DevInv.
LEMMA InitDevInv == Init => DevInv
  BY DEF Init, DevInv

\* Every step of Next preserves DevInv.
LEMMA NextDevInv == TypeOK /\ DevInv /\ [Next]_vars => DevInv'
  <1> SUFFICES ASSUME TypeOK, DevInv, [Next]_vars PROVE DevInv'
    OBVIOUS
  <1> USE DEF TypeOK, Request, invVars
  <1>1. CASE Inventory
    BY <1>1 DEF Inventory, TogglePXE, StartWorkflow, FinishWorkflow,
                Deprovision, Provision, Rebind, BackendFlip, DevInv
  <1>2. ASSUME NEW r \in Reqs, NEW ep \in Endpoints, NEW ip \in IPs,
               NEW addr \in AddrForms, NEW body \in Bodies,
               Arrive(r, ep, ip, addr, body)
        PROVE  DevInv'
    BY <1>2 DEF Arrive, DevInv
  <1>3. ASSUME NEW r \in Reqs, Handle(r) PROVE DevInv'
    <2>1. CASE ServeJobFile(r)
      BY <2>1 DEF ServeJobFile, DevInv
    <2>2. CASE GatedResolve(r)
      BY <2>2 DEF GatedResolve, DevInv
    <2>3. CASE WorkflowCheck(r)
      BY <2>3 DEF WorkflowCheck, WfRespond, Respond, DevInv
    <2>4. CASE PhoneHomeResolve(r)
      BY <2>4 DEF PhoneHomeResolve, DevInv
    <2>5. CASE PhoneHomeServe(r)
      BY <2>5 DEF PhoneHomeServe, Respond, DevInv
    <2>6. CASE EventsLookup(r)
      <3>1. up /\ Device(req[r].ip) # NoInstance
              => Device(req[r].ip) \in Instances
        BY DEF Device
      <3>2. QED
        BY <2>6, <3>1 DEF EventsLookup, EventsLookupBody, Respond, DevInv
    <2>7. CASE EventsPost(r)
      BY <2>7 DEF EventsPost, Delivered, Respond, DevInv
    <2>8. QED
      BY <1>3, <2>1, <2>2, <2>3, <2>4, <2>5, <2>6, <2>7 DEF Handle
  <1>4. CASE UNCHANGED vars
    BY <1>4 DEF vars, DevInv
  <1>5. QED
    BY <1>1, <1>2, <1>3, <1>4 DEF Next

\* The state always has the type TypeOK describes (all handlers, all
\* inventory changes).
THEOREM TypeCorrect == Spec => []TypeOK
  <1>1. Init => TypeOK /\ DevInv
    BY InitTypeOK, InitDevInv
  <1>2. TypeOK /\ DevInv /\ [Next]_vars => TypeOK' /\ DevInv'
    BY NextTypeOK, NextDevInv
  <1>3. QED
    BY <1>1, <1>2, PTL DEF Spec
-----------------------------------------------------------------------------
(* Exactly-once forwarding of /events                                      *)

\* the event a request forwards when it is answered 200 with a device
Forwarded(s) ==
    IF /\ req[s].ep = "events" /\ req[s].pc = "done"
       /\ req[s].code = 200 /\ req[s].dev # NoInstance
    THEN {[req |-> s, inst |-> req[s].dev]}
    ELSE {}

\* A step that only finishes request r, and neither posts nor lets r
\* forward, preserves ForwardedExactlyOnce.
LEMMA FinishWithoutPost ==
    ASSUME TypeOK, ForwardedExactlyOnce, NEW r \in Reqs,
           req[r].pc # "done",
           req' = [req EXCEPT ![r] = req'[r]],
           posted' = posted,
           Forwarded(r)' = {}
    PROVE  ForwardedExactlyOnce'
  <1> SUFFICES ASSUME NEW s \in Reqs
               PROVE  {e \in posted' : e.req = s} = Forwarded(s)'
    BY DEF ForwardedExactlyOnce, Forwarded
  <1>1. CASE s = r
    <2>1. Forwarded(r) = {}
      BY DEF Forwarded
    <2>2. {e \in posted : e.req = r} = {}
      BY <2>1 DEF ForwardedExactlyOnce, Forwarded
    <2>3. QED
      BY <1>1, <2>2
  <1>2. CASE s # r
    <2>1. req'[s] = req[s]
      BY <1>2 DEF TypeOK
    <2>2. Forwarded(s)' = Forwarded(s)
      BY <2>1 DEF Forwarded
    <2>3. QED
      BY <2>2 DEF ForwardedExactlyOnce, Forwarded
  <1>3. QED
    BY <1>1, <1>2

\* Every step of Next preserves ForwardedExactlyOnce.
LEMMA NextForwarded ==
    TypeOK /\ DevInv /\ ForwardedExactlyOnce /\ [Next]_vars => ForwardedExactlyOnce'
  <1> SUFFICES ASSUME TypeOK, DevInv, ForwardedExactlyOnce, [Next]_vars
               PROVE  ForwardedExactlyOnce'
    OBVIOUS
  <1> USE DEF invVars
  <1>1. CASE Inventory
    BY <1>1 DEF Inventory, TogglePXE, StartWorkflow, FinishWorkflow,
                Deprovision, Provision, Rebind, BackendFlip, ForwardedExactlyOnce
  <1>2. ASSUME NEW r \in Reqs, NEW ep \in Endpoints, NEW ip \in IPs,
               NEW addr \in AddrForms, NEW body \in Bodies,
               Arrive(r, ep, ip, addr, body)
        PROVE  ForwardedExactlyOnce'
    <2>1. req[r].pc # "done" /\ req' = [req EXCEPT ![r] = req'[r]] /\ posted' = posted
      BY <1>2 DEF Arrive, TypeOK
    <2>2. Forwarded(r)' = {}
      BY <1>2 DEF Arrive, Forwarded, TypeOK
    <2>3. QED
      BY <2>1, <2>2, FinishWithoutPost
  <1>3. ASSUME NEW r \in Reqs, Handle(r) PROVE ForwardedExactlyOnce'
    <2> USE DEF TypeOK, Request
    <2>1. CASE ServeJobFile(r)
      BY <2>1, FinishWithoutPost DEF ServeJobFile, Forwarded
    <2>2. CASE GatedResolve(r)
      BY <2>2, FinishWithoutPost DEF GatedResolve, Forwarded
    <2>3. CASE WorkflowCheck(r)
      BY <2>3, FinishWithoutPost DEF WorkflowCheck, WfRespond, Respond, Forwarded, DevInv
    <2>4. CASE PhoneHomeResolve(r)
      BY <2>4, FinishWithoutPost DEF PhoneHomeResolve, Forwarded
    <2>5. CASE PhoneHomeServe(r)
      BY <2>5, FinishWithoutPost DEF PhoneHomeServe, Respond, Forwarded, DevInv
    <2>6. CASE EventsLookup(r)
      BY <2>6, FinishWithoutPost DEF EventsLookup, EventsLookupBody, Respond,
                                     Forwarded, DevInv
    <2>7. CASE EventsPost(r)
      <3>1. req[r].pc = "post" /\ req[r].ep = "events" /\ req[r].dev \in Instances
        BY <2>7 DEF EventsPost, DevInv
      <3>2. CASE ~Delivered(r)
        BY <2>7, <3>1, <3>2, FinishWithoutPost DEF EventsPost, Respond, Forwarded
      <3>3. CASE Delivered(r)
        <4> SUFFICES ASSUME NEW s \in Reqs
                     PROVE  {e \in posted' : e.req = s} = Forwarded(s)'
          BY DEF ForwardedExactlyOnce, Forwarded
        <4>1. {e \in posted : e.req = r} = {}
          BY <3>1 DEF ForwardedExactlyOnce
        <4>2. CASE s = r
          <5> DEFINE ev == [req |-> r, inst |-> req[r].dev]
          <5>1. posted' = posted \cup {ev}
            BY <3>3 DEF Delivered
          <5>2. {e \in posted' : e.req = r} = {ev}
            BY <5>1, <4>1
          <5>3. /\ req'[r].ep = req[r].ep /\ req'[r].pc = "done"
                /\ req'[r].code = 200 /\ req'[r].dev = req[r].dev
            BY <3>3 DEF Delivered, Respond
          <5>4. Forwarded(r)' = {ev}
            BY <3>1, <5>3, HTTPAssumption DEF Forwarded
          <5>5. QED
            BY <4>2, <5>2, <5>4
        <4>3. CASE s # r
          <5>1. Forwarded(s)' = Forwarded(s)
            BY <3>3, <4>3 DEF Delivered, Respond, Forwarded
          <5>2. {e \in posted' : e.req = s} = {e \in posted : e.req = s}
            BY <3>3, <4>3 DEF Delivered
          <5>3. QED
            BY <5>1, <5>2 DEF ForwardedExactlyOnce, Forwarded
        <4>4. QED
          BY <4>2, <4>3
      <3>4. QED
        BY <3>2, <3>3
    <2>8. QED
      BY <1>3, <2>1, <2>2, <2>3, <2>4, <2>5, <2>6, <2>7 DEF Handle
  <1>4. CASE UNCHANGED vars
    BY <1>4 DEF vars, ForwardedExactlyOnce
  <1>5. QED
    BY <1>1, <1>2, <1>3, <1>4 DEF Next

\* /events forwards exactly one event per request it answers 200 after
\* finding a device, to that device, and none for any other request
\* (serveEvents), whatever the inventory and the backend do meanwhile.
THEOREM EventsForwardedExactlyOnce == Spec => []ForwardedExactlyOnce
  <1>1. Init => TypeOK /\ DevInv /\ ForwardedExactlyOnce
    BY InitTypeOK, InitDevInv DEF Init, ForwardedExactlyOnce
  <1>2. TypeOK /\ DevInv /\ ForwardedExactlyOnce /\ [Next]_vars
          => (TypeOK /\ DevInv /\ ForwardedExactlyOnce)'
    BY NextTypeOK, NextDevInv, NextForwarded
  <1>3. QED
    BY <1>1, <1>2, PTL DEF Spec
-----------------------------------------------------------------------------
(***************************************************************************)
(* A request writes no status before its handler finishes, and a request   *)
(* waiting at a backend call is on the endpoint whose handler makes it.    *)
(* Needed for the gate (WorkflowCheck serves the request's endpoint) and   *)
(* for the refinement (the contract's Answer starts from no status).       *)
(***************************************************************************)
PendInv ==
    \A r \in Reqs :
        /\ req[r].pc # "done" => req[r].code = NoResponse
        /\ req[r].pc = "wfcheck" => req[r].ep \in {"hardware", "problem"}
        /\ req[r].pc = "phonehome" => req[r].ep = "phonehome"

\* Init establishes PendInv.
LEMMA InitPendInv == Init => PendInv
  BY DEF Init, PendInv

\* A step that finishes request r and changes no other request preserves
\* PendInv.
LEMMA FinishPendInv ==
    ASSUME TypeOK, PendInv, NEW r \in Reqs,
           req' = [req EXCEPT ![r] = req'[r]], req'[r].pc = "done"
    PROVE  PendInv'
  <1> SUFFICES ASSUME NEW s \in Reqs
               PROVE  /\ req'[s].pc # "done" => req'[s].code = NoResponse
                      /\ req'[s].pc = "wfcheck" => req'[s].ep \in {"hardware", "problem"}
                      /\ req'[s].pc = "phonehome" => req'[s].ep = "phonehome"
    BY DEF PendInv
  <1>1. CASE s = r
    BY <1>1
  <1>2. CASE s # r
    <2>1. req'[s] = req[s]
      BY <1>2 DEF TypeOK
    <2>2. QED
      BY <2>1 DEF PendInv
  <1>3. QED
    BY <1>1, <1>2

\* Every step of Next preserves PendInv.
LEMMA NextPendInv == TypeOK /\ PendInv /\ [Next]_vars => PendInv'
  <1> SUFFICES ASSUME TypeOK, PendInv, [Next]_vars PROVE PendInv'
    OBVIOUS
  <1> USE DEF TypeOK, Request, invVars
  <1>1. CASE Inventory
    BY <1>1 DEF Inventory, TogglePXE, StartWorkflow, FinishWorkflow,
                Deprovision, Provision, Rebind, BackendFlip, PendInv
  <1>2. ASSUME NEW r \in Reqs, NEW ep \in Endpoints, NEW ip \in IPs,
               NEW addr \in AddrForms, NEW body \in Bodies,
               Arrive(r, ep, ip, addr, body)
        PROVE  PendInv'
    BY <1>2 DEF Arrive, PendInv
  <1>3. ASSUME NEW r \in Reqs, Handle(r) PROVE PendInv'
    <2>1. CASE ServeJobFile(r)
      BY <2>1 DEF ServeJobFile, PendInv
    <2>2. CASE GatedResolve(r)
      BY <2>2 DEF GatedResolve, PendInv
    <2>3. CASE WorkflowCheck(r)
      BY <2>3, FinishPendInv DEF WorkflowCheck, WfRespond, Respond
    <2>4. CASE PhoneHomeResolve(r)
      <3>1. CASE ResolveFails(r)
        BY <2>4, <3>1, FinishPendInv DEF PhoneHomeResolve
      <3>2. CASE ~ResolveFails(r)
        <4>1. req' = [req EXCEPT ![r].job = JobOf(req[r].ip), ![r].pc = "phonehome"]
          BY <2>4, <3>2 DEF PhoneHomeResolve
        <4>2. req[r].pc = "new" /\ req[r].ep = "phonehome"
          BY <2>4 DEF PhoneHomeResolve
        <4>3. QED
          BY <4>1, <4>2 DEF PendInv
      <3>3. QED
        BY <3>1, <3>2
    <2>5. CASE PhoneHomeServe(r)
      BY <2>5, FinishPendInv DEF PhoneHomeServe, Respond
    <2>6. CASE EventsLookup(r)
      BY <2>6 DEF EventsLookup, EventsLookupBody, Respond, PendInv
    <2>7. CASE EventsPost(r)
      BY <2>7, FinishPendInv DEF EventsPost, Delivered, Respond
    <2>8. QED
      BY <1>3, <2>1, <2>2, <2>3, <2>4, <2>5, <2>6, <2>7 DEF Handle
  <1>4. CASE UNCHANGED vars
    BY <1>4 DEF vars, PendInv
  <1>5. QED
    BY <1>1, <1>2, <1>3, <1>4 DEF Next
-----------------------------------------------------------------------------
(* Serving is gated                                                        *)

\* what request r has served is consistent with its snapshot and workflow
\* answer, and nothing is served before the handler finishes
ServedOK(r) ==
    /\ req[r].pc # "done" => req[r].served = "none"
    /\ req[r].served = "file" => req[r].job.allowPXE
    /\ req[r].served \in {"hardware", "problem"} /\ req[r].job.canWorkflow
          => req[r].wf = "active"

GatedInv == \A r \in Reqs : ServedOK(r)

\* A step that changes only request r, and leaves r consistent, preserves
\* GatedInv.
LEMMA OnlyRGated ==
    ASSUME GatedInv, NEW r \in Reqs,
           \A s \in Reqs \ {r} : req'[s] = req[s], ServedOK(r)'
    PROVE  GatedInv'
  <1> SUFFICES ASSUME NEW s \in Reqs PROVE ServedOK(s)'
    BY DEF GatedInv
  <1>1. CASE s # r
    <2>1. req'[s] = req[s]
      BY <1>1
    <2>2. QED
      BY <2>1 DEF GatedInv, ServedOK
  <1>2. QED
    BY <1>1

\* Every step preserves GatedInv when a workflow finder is configured.
LEMMA NextGated ==
    FinderConfigured /\ TypeOK /\ PendInv /\ GatedInv /\ [Next]_vars => GatedInv'
  <1> SUFFICES ASSUME FinderConfigured, TypeOK, PendInv, GatedInv, [Next]_vars
               PROVE  GatedInv'
    OBVIOUS
  <1> USE DEF TypeOK, Request, invVars
  <1>1. CASE Inventory
    BY <1>1 DEF Inventory, TogglePXE, StartWorkflow, FinishWorkflow,
                Deprovision, Provision, Rebind, BackendFlip, GatedInv, ServedOK
  <1>2. ASSUME NEW r \in Reqs, NEW ep \in Endpoints, NEW ip \in IPs,
               NEW addr \in AddrForms, NEW body \in Bodies,
               Arrive(r, ep, ip, addr, body)
        PROVE  GatedInv'
    BY <1>2, OnlyRGated DEF Arrive, GatedInv, ServedOK
  <1>3. ASSUME NEW r \in Reqs, Handle(r) PROVE GatedInv'
    <2>1. req[r].served = "none" \/ req[r].pc = "done"
      BY DEF GatedInv, ServedOK
    <2>2. CASE ServeJobFile(r)
      BY <2>1, <2>2, OnlyRGated DEF ServeJobFile, ServedOK, JobOf
    <2>3. CASE GatedResolve(r)
      <3>1. CASE ResolveFails(r)
        BY <2>1, <2>3, <3>1, OnlyRGated DEF GatedResolve, ServedOK
      <3>2. CASE ~ResolveFails(r)
        <4>1. JobOf(req[r].ip).canWorkflow => Gated(req[r].ep, JobOf(req[r].ip))
          BY DEF Gated
        <4>2. QED
          BY <2>1, <2>3, <3>2, <4>1, OnlyRGated DEF GatedResolve, ServedOK
      <3>3. QED
        BY <3>1, <3>2
    <2>4. CASE WorkflowCheck(r)
      <3>1. req[r].pc = "wfcheck" /\ req[r].ep \in {"hardware", "problem"}
        BY <2>4 DEF WorkflowCheck, PendInv
      <3>2. QED
        BY <2>4, <3>1, OnlyRGated DEF WorkflowCheck, WfRespond, ServedOK
    <2>5. CASE PhoneHomeResolve(r)
      BY <2>1, <2>5, OnlyRGated DEF PhoneHomeResolve, ServedOK
    <2>6. CASE PhoneHomeServe(r)
      BY <2>6, OnlyRGated DEF PhoneHomeServe, Respond, ServedOK
    <2>7. CASE EventsLookup(r)
      BY <2>1, <2>7, OnlyRGated DEF EventsLookup, EventsLookupBody, Respond, ServedOK
    <2>8. CASE EventsPost(r)
      <3>1. CASE Delivered(r)
        BY <3>1, OnlyRGated DEF Delivered, Respond, ServedOK
      <3>2. CASE ~Delivered(r)
        <4>1. /\ req'[r].served = "none"
              /\ \A s \in Reqs \ {r} : req'[s] = req[s]
          BY <2>1, <2>8, <3>2 DEF EventsPost, Respond, ServedOK
        <4>2. QED
          BY <4>1, OnlyRGated DEF ServedOK
      <3>3. QED
        BY <3>1, <3>2
    <2>9. QED
      BY <1>3, <2>2, <2>3, <2>4, <2>5, <2>6, <2>7, <2>8 DEF Handle
  <1>4. CASE UNCHANGED vars
    BY <1>4 DEF vars, GatedInv, ServedOK
  <1>5. QED
    BY <1>1, <1>2, <1>3, <1>4 DEF Next

\* With a workflow finder configured, GET / serves a file only for a
\* record whose allow_pxe was true, and the hardware dump and problem
\* report of a workflow-capable machine only after HasActiveWorkflow
\* answered true (serveJobFile, serveHardware, serveProblem), whatever the
\* inventory does between the two backend calls.
THEOREM GatedServingHolds ==
    ASSUME FinderConfigured
    PROVE  Spec => []GatedServing
  <1>1. Init => TypeOK /\ PendInv /\ GatedInv
    BY InitTypeOK, InitPendInv DEF Init, GatedInv, ServedOK
  <1>2. TypeOK /\ DevInv /\ PendInv /\ GatedInv /\ [Next]_vars
          => (TypeOK /\ DevInv /\ PendInv /\ GatedInv)'
    BY NextTypeOK, NextDevInv, NextPendInv, NextGated
  <1>3. GatedInv => GatedServing
    BY DEF GatedInv, ServedOK, GatedServing
  <1>4. QED
    BY <1>1, <1>2, <1>3, InitDevInv, PTL DEF Spec
=============================================================================
