------------------------ MODULE BootsHTTPRefinement ------------------------
(***************************************************************************)
(* Proof that the handlers of http.go implement the contract of            *)
(* RequestContract (its safety part), when a workflow finder is            *)
(* configured.  The refinement mapping is the one of BootsHTTP: a request  *)
(* is pending from Arrive until its handler writes the response.           *)
(***************************************************************************)
EXTENDS BootsHTTPProofs

\* the contract's view of the requests (the WITH of BootsHTTP!Contract)
amap == [r \in Reqs |-> [st |-> Lifecycle(req[r].pc), ep |-> req[r].ep,
                         code |-> req[r].code]]

-----------------------------------------------------------------------------
(* The steps of the contract a handler step maps to.                       *)

\* A handler step that leaves request r pending, with its endpoint and
\* status, and posts nothing, is a stutter of the contract.
LEMMA PendingStutter ==
    ASSUME TypeOK, NEW r \in Reqs,
           req' = [req EXCEPT ![r] = req'[r]],
           Lifecycle(req'[r].pc) = Lifecycle(req[r].pc),
           req'[r].ep = req[r].ep, req'[r].code = req[r].code,
           posted' = posted
    PROVE  UNCHANGED Contract!cvars
  <1>1. amap' = amap
    BY DEF amap, TypeOK
  <1>2. QED
    BY <1>1 DEF Contract!cvars, amap

\* When a handler finishes pending request r, the contract sees r go from
\* pending and unanswered to done with the status written, and nothing else.
LEMMA AmapFinish ==
    ASSUME TypeOK, PendInv, NEW r \in Reqs,
           req[r].pc \notin {"idle", "done"},
           req' = [req EXCEPT ![r] = req'[r]],
           req'[r].pc = "done", req'[r].ep = req[r].ep
    PROVE  /\ amap[r] = [st |-> "pending", ep |-> req[r].ep, code |-> NoResponse]
           /\ amap' = [amap EXCEPT ![r] = [st |-> "done", ep |-> req[r].ep,
                                           code |-> req'[r].code]]
  <1>1. amap[r] = [st |-> "pending", ep |-> req[r].ep, code |-> NoResponse]
    BY DEF amap, Lifecycle, PendInv
  <1>2. ASSUME NEW s \in Reqs, s # r PROVE amap'[s] = amap[s]
    <2>1. req'[s] = req[s]
      BY <1>2 DEF TypeOK
    <2>2. QED
      BY <2>1 DEF amap
  <1>3. amap'[r] = [st |-> "done", ep |-> req[r].ep, code |-> req'[r].code]
    BY DEF amap, Lifecycle, TypeOK
  <1>4. amap' = [s \in Reqs |-> amap'[s]] /\ amap = [s \in Reqs |-> amap[s]]
    BY DEF amap
  <1>5. QED
    BY <1>1, <1>2, <1>3, <1>4

\* A handler step that answers pending request r with a status c of its
\* endpoint, and posts nothing, is the contract's Answer(r, c).
LEMMA AnswerStep ==
    ASSUME TypeOK, PendInv, NEW r \in Reqs,
           req[r].pc \notin {"idle", "done"},
           req' = [req EXCEPT ![r] = req'[r]],
           req'[r].pc = "done", req'[r].ep = req[r].ep,
           NEW c \in Contract!Answers(req[r].ep), req'[r].code = c,
           posted' = posted
    PROVE  Contract!Answer(r, c)
  <1>1. /\ amap[r] = [st |-> "pending", ep |-> req[r].ep, code |-> NoResponse]
        /\ amap' = [amap EXCEPT ![r] = [st |-> "done", ep |-> req[r].ep,
                                        code |-> req'[r].code]]
    BY AmapFinish
  <1>2. amap' = [amap EXCEPT ![r].st = "done", ![r].code = c]
    BY <1>1 DEF amap
  <1>3. QED
    BY <1>1, <1>2 DEF Contract!Answer, amap

\* Answer for a status written by one of the handlers' branches.
LEMMA AnswerCodes ==
    /\ Contract!Answers("file") = {200, 404}
    /\ Contract!Answers("hardware") = {200, 404}
    /\ Contract!Answers("problem") = {200, 404}
    /\ Contract!Answers("phonehome") = {200, 400}
    /\ Contract!Answers("events") = {200, 400, 500}
  BY DEF Contract!Answers

\* A handler step that answers pending request r with a status of its
\* endpoint, and posts nothing, is a step of the contract.
LEMMA AnswerNext ==
    ASSUME TypeOK, PendInv, NEW r \in Reqs,
           req[r].pc \notin {"idle", "done"},
           req' = [req EXCEPT ![r] = req'[r]],
           req'[r].pc = "done", req'[r].ep = req[r].ep,
           NEW c \in Contract!Answers(req[r].ep), req'[r].code = c,
           posted' = posted
    PROVE  Contract!Next
  <1>1. Contract!Answer(r, c)
    BY AnswerStep
  <1>2. amap[r].ep = req[r].ep
    BY DEF amap
  <1>3. \E d \in Contract!Answers(amap[r].ep) : Contract!Answer(r, d)
    BY <1>1, <1>2
  <1>4. Contract!Respond(r)
    BY <1>3 DEF Contract!Respond, amap
  <1>5. QED
    BY <1>4 DEF Contract!Next

\* A handler step that delivers the event of pending /events request r to
\* instance i and answers it 200 is the contract's Forward(r, i).
LEMMA ForwardNext ==
    ASSUME TypeOK, PendInv, NEW r \in Reqs, NEW i \in Instances,
           req[r].pc \notin {"idle", "done"}, req[r].ep = "events",
           req' = [req EXCEPT ![r] = req'[r]],
           req'[r].pc = "done", req'[r].code = 200, req'[r].ep = req[r].ep,
           posted' = posted \cup {[req |-> r, inst |-> i]}
    PROVE  Contract!Next
  <1>1. /\ amap[r] = [st |-> "pending", ep |-> req[r].ep, code |-> NoResponse]
        /\ amap' = [amap EXCEPT ![r] = [st |-> "done", ep |-> req[r].ep,
                                        code |-> 200]]
    BY AmapFinish
  <1>2. amap' = [amap EXCEPT ![r].st = "done", ![r].code = 200]
    BY <1>1 DEF amap
  <1>3. Contract!Forward(r, i)
    BY <1>1, <1>2 DEF Contract!Forward, amap
  <1>4. Contract!Respond(r)
    BY <1>3 DEF Contract!Respond
  <1>5. QED
    BY <1>4 DEF Contract!Next

\* Every step of the handlers, with a workflow finder configured, is a step
\* of the contract or leaves the contract's view unchanged.
LEMMA NextRefines ==
    ASSUME FinderConfigured, TypeOK, DevInv, PendInv, [Next]_vars
    PROVE  [Contract!Next]_Contract!cvars
  <1> USE DEF invVars, TypeOK, Request
  <1>1. CASE Inventory
    <2>1. req' = req /\ posted' = posted
      BY <1>1 DEF Inventory, TogglePXE, StartWorkflow, FinishWorkflow,
                  Deprovision, Provision, Rebind, BackendFlip
    <2>2. QED
      BY <2>1 DEF Contract!cvars, amap
  <1>2. ASSUME NEW r \in Reqs, NEW ep \in Endpoints, NEW ip \in IPs,
               NEW addr \in AddrForms, NEW body \in Bodies,
               Arrive(r, ep, ip, addr, body)
        PROVE  [Contract!Next]_Contract!cvars
    <2>1. amap[r] = [st |-> "idle", ep |-> req[r].ep, code |-> NoResponse]
      BY <1>2 DEF Arrive, amap, Lifecycle, PendInv
    <2>2. amap' = [amap EXCEPT ![r] = [st |-> "pending", ep |-> ep,
                                       code |-> NoResponse]]
      <3>1. ASSUME NEW s \in Reqs, s # r PROVE amap'[s] = amap[s]
        BY <1>2, <3>1 DEF Arrive, amap, TypeOK
      <3>2. amap'[r] = [st |-> "pending", ep |-> ep, code |-> NoResponse]
        BY <1>2 DEF Arrive, amap, Lifecycle, PendInv, TypeOK
      <3>3. QED
        BY <3>1, <3>2 DEF amap
    <2>3. Contract!Receive(r, ep)
      BY <1>2, <2>1, <2>2 DEF Contract!Receive, Contract!Unanswered, amap,
                              Arrive, NoResponse
    <2>4. ep \in Contract!EndpointNames
      BY DEF Endpoints, Contract!EndpointNames
    <2>5. QED
      BY <2>3, <2>4 DEF Contract!Next
  <1>3. ASSUME NEW r \in Reqs, Handle(r) PROVE [Contract!Next]_Contract!cvars
    <2> USE AnswerCodes
    <2>1. CASE ServeJobFile(r)
      <3>1. req[r].pc = "new" /\ req[r].ep = "file" /\ posted' = posted
        BY <2>1 DEF ServeJobFile
      <3>2. req' = [req EXCEPT ![r] = req'[r]]
        BY <2>1 DEF ServeJobFile, TypeOK
      <3>3. req'[r].pc = "done" /\ req'[r].ep = req[r].ep /\ req'[r].code \in {200, 404}
        <4>1. CASE ResolveFails(r)
          BY <2>1, <4>1 DEF ServeJobFile, TypeOK
        <4>2. CASE ~ResolveFails(r)
          BY <2>1, <4>2 DEF ServeJobFile, TypeOK
        <4>3. QED
          BY <4>1, <4>2
      <3>4. QED
        BY <3>1, <3>2, <3>3, AnswerNext
    <2>2. CASE GatedResolve(r)
      <3>1. CASE ResolveFails(r) \/ ~Gated(req[r].ep, JobOf(req[r].ip))
        <4>1. /\ req[r].pc = "new" /\ req[r].ep \in {"hardware", "problem"}
              /\ req' = [req EXCEPT ![r] = req'[r]]
              /\ req'[r].pc = "done" /\ req'[r].ep = req[r].ep
              /\ req'[r].code \in {200, 404}
              /\ posted' = posted
          BY <2>2, <3>1 DEF GatedResolve, TypeOK
        <4>2. QED
          BY <4>1, AnswerNext
      <3>2. CASE ~ResolveFails(r) /\ Gated(req[r].ep, JobOf(req[r].ip))
        <4>1. /\ req' = [req EXCEPT ![r] = req'[r]]
              /\ req'[r].pc = "wfcheck" /\ req[r].pc = "new"
              /\ req'[r].ep = req[r].ep /\ req'[r].code = req[r].code
              /\ posted' = posted
          BY <2>2, <3>2 DEF GatedResolve, PendInv, TypeOK
        <4>2. Lifecycle(req'[r].pc) = Lifecycle(req[r].pc)
          BY <4>1 DEF Lifecycle
        <4>3. QED
          BY <4>1, <4>2, PendingStutter
      <3>3. QED
        BY <3>1, <3>2
    <2>3. CASE WorkflowCheck(r)
      <3>1. /\ req[r].pc = "wfcheck" /\ req[r].ep \in {"hardware", "problem"}
            /\ req' = [req EXCEPT ![r] = req'[r]]
            /\ req'[r].pc = "done" /\ req'[r].ep = req[r].ep
            /\ req'[r].code \in {200, 404}
            /\ posted' = posted
        BY <2>3 DEF WorkflowCheck, WfRespond, PendInv, TypeOK
      <3>2. QED
        BY <3>1, AnswerNext
    <2>4. CASE PhoneHomeResolve(r)
      <3>1. CASE ResolveFails(r)
        <4>1. /\ req[r].pc = "new" /\ req[r].ep = "phonehome"
              /\ req' = [req EXCEPT ![r] = req'[r]]
              /\ req'[r].pc = "done" /\ req'[r].ep = req[r].ep
              /\ req'[r].code = 200
              /\ posted' = posted
          BY <2>4, <3>1 DEF PhoneHomeResolve, TypeOK
        <4>2. QED
          BY <4>1, AnswerNext
      <3>2. CASE ~ResolveFails(r)
        <4>1. /\ req' = [req EXCEPT ![r] = req'[r]]
              /\ req'[r].pc = "phonehome" /\ req[r].pc = "new"
              /\ req'[r].ep = req[r].ep /\ req'[r].code = req[r].code
              /\ posted' = posted
          BY <2>4, <3>2 DEF PhoneHomeResolve, TypeOK
        <4>2. Lifecycle(req'[r].pc) = Lifecycle(req[r].pc)
          BY <4>1 DEF Lifecycle
        <4>3. QED
          BY <4>1, <4>2, PendingStutter
      <3>3. QED
        BY <3>1, <3>2
    <2>5. CASE PhoneHomeServe(r)
      <3>1. /\ req[r].pc = "phonehome" /\ req[r].ep = "phonehome"
            /\ req' = [req EXCEPT ![r] = req'[r]]
            /\ req'[r].pc = "done" /\ req'[r].ep = req[r].ep
            /\ req'[r].code \in {200, 400}
            /\ posted' = posted
        BY <2>5 DEF PhoneHomeServe, Respond, PendInv, TypeOK
      <3>2. QED
        BY <3>1, AnswerNext
    <2>6. CASE EventsLookup(r)
      <3>1. CASE req[r].addr = "hostport" /\ up /\ Device(req[r].ip) # NoInstance
        <4>1. /\ req' = [req EXCEPT ![r] = req'[r]]
              /\ req'[r].pc = "post" /\ req[r].pc = "new"
              /\ req'[r].ep = req[r].ep /\ req'[r].code = req[r].code
              /\ posted' = posted
          BY <2>6, <3>1 DEF EventsLookup, EventsLookupBody, Respond, TypeOK
        <4>2. Lifecycle(req'[r].pc) = Lifecycle(req[r].pc)
          BY <4>1 DEF Lifecycle
        <4>3. QED
          BY <4>1, <4>2, PendingStutter
      <3>2. CASE ~(req[r].addr = "hostport" /\ up /\ Device(req[r].ip) # NoInstance)
        <4>1. /\ req[r].pc = "new" /\ req[r].ep = "events"
              /\ req' = [req EXCEPT ![r] = req'[r]]
              /\ req'[r].pc = "done" /\ req'[r].ep = req[r].ep
              /\ req'[r].code \in {200, 400}
              /\ posted' = posted
          BY <2>6, <3>2 DEF EventsLookup, EventsLookupBody, Respond, TypeOK
        <4>2. QED
          BY <4>1, AnswerNext
      <3>3. QED
        BY <3>1, <3>2
    <2>7. CASE EventsPost(r)
      <3>1. req[r].pc = "post" /\ req[r].ep = "events" /\ req[r].dev \in Instances
        BY <2>7 DEF EventsPost, DevInv
      <3>2. CASE Delivered(r)
        <4>1. /\ req' = [req EXCEPT ![r] = req'[r]]
              /\ req'[r].pc = "done" /\ req'[r].ep = req[r].ep
              /\ req'[r].code = 200
          <5>1. req' = [req EXCEPT ![r].pc = "done", ![r].code = 200,
                                   ![r].served = "event", ![r].logged = FALSE]
            BY <3>2 DEF Delivered, Respond
          <5>2. req' = [req EXCEPT ![r] = req'[r]]
            <6>1. req' \in [Reqs -> Request]
              BY NextTypeOK
            <6>2. \A s \in Reqs : s # r => req'[s] = req[s]
              BY <5>1
            <6>3. QED
              BY <6>1, <6>2
          <5>3. req'[r].pc = "done" /\ req'[r].ep = req[r].ep /\ req'[r].code = 200
            BY <5>1
          <5>4. QED
            BY <5>2, <5>3
        <4>2. posted' = posted \cup {[req |-> r, inst |-> req[r].dev]}
          BY <3>2 DEF Delivered
        <4>3. QED
          BY <3>1, <4>1, <4>2, ForwardNext
      <3>3. CASE ~Delivered(r)
        <4>1. /\ req' = [req EXCEPT ![r] = req'[r]]
              /\ req'[r].pc = "done" /\ req'[r].ep = req[r].ep
              /\ req'[r].code = 400
              /\ posted' = posted
          BY <2>7, <3>3 DEF EventsPost, Respond, TypeOK
        <4>2. QED
          BY <3>1, <4>1, AnswerNext
      <3>4. QED
        BY <3>2, <3>3
    <2>8. QED
      BY <1>3, <2>1, <2>2, <2>3, <2>4, <2>5, <2>6, <2>7 DEF Handle
  <1>4. CASE UNCHANGED vars
    BY <1>4 DEF vars, Contract!cvars, amap
  <1>5. QED
    BY <1>1, <1>2, <1>3, <1>4 DEF Next

\* Init maps to an initial state of the contract.
LEMMA InitRefines == Init => Contract!Init
  <1> SUFFICES ASSUME Init PROVE Contract!Init
    OBVIOUS
  <1>1. (CHOOSE ep \in Endpoints : TRUE) \in Contract!EndpointNames
    BY DEF Endpoints, Contract!EndpointNames
  <1>2. QED
    BY <1>1 DEF Init, Contract!Init, Contract!Unanswered, Lifecycle, NoResponse

\* With a workflow finder configured, the handlers of http.go implement
\* the safety part of the contract: every request is answered at most once,
\* with a status its endpoint documents (serveJobFile, serveHardware,
\* serveProblem, servePhoneHome, serveEvents), and /events forwards an event
\* only in the step that answers it 200.
THEOREM ContractRefinement ==
    ASSUME FinderConfigured
    PROVE  Spec => Contract!SafeSpec
  <1>1. Init => TypeOK /\ DevInv /\ PendInv
    BY InitTypeOK, InitDevInv, InitPendInv
  <1>2. TypeOK /\ DevInv /\ PendInv /\ [Next]_vars => (TypeOK /\ DevInv /\ PendInv)'
    BY NextTypeOK, NextDevInv, NextPendInv
  <1>3. TypeOK /\ DevInv /\ PendInv /\ [Next]_vars => [Contract!Next]_Contract!cvars
    BY NextRefines
  <1>4. Init => Contract!Init
    BY InitRefines
  <1>5. QED
    BY <1>1, <1>2, <1>3, <1>4, PTL DEF Spec, Contract!SafeSpec
=============================================================================
