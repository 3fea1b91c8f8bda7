-------------------------- MODULE RequestContract --------------------------
(***************************************************************************)
(* What the HTTP front of boots promises its clients, with the backend     *)
(* calls and the inventory left out (spec sections 4.1, 5 and 7).  A       *)
(* request is received on one endpoint, stays pending for a while and is   *)
(* answered exactly once, with a status its endpoint documents.  An        *)
(* instance event is forwarded only by an /events request, at the moment   *)
(* it is answered 200, and at most once per request.  Every pending        *)
(* request is eventually answered.                                         *)
(***************************************************************************)
CONSTANTS
    Reqs,       \* request slots
    Instances   \* instance ids an event can be addressed to

VARIABLES
    areq,    \* areq[r]: [st: lifecycle, ep: endpoint, code: status written]
    posted   \* the instance events forwarded to the backend

cvars == <<areq, posted>>

EndpointNames == {"file", "hardware", "phonehome", "problem", "events"}

\* no status written yet
Unanswered == 0

\* the statuses each endpoint answers with (spec section 7: 404 for an
\* unknown or not allowed machine, 400 for a malformed request; an
\* /events request whose event cannot be encoded or posted is a failure
\* of the server, 500, as the TODOs in serveEvents say)
Answers(ep) ==
    CASE ep \in {"file", "hardware", "problem"} -> {200, 404}
      [] ep = "phonehome"                       -> {200, 400}
      [] ep = "events"                          -> {200, 400, 500}

Init ==
    /\ areq \in [Reqs -> [st: {"idle"}, ep: EndpointNames, code: {Unanswered}]]
    /\ posted = {}

\* a client sends a request to endpoint ep
Receive(r, ep) ==
    /\ areq[r].st = "idle"
    /\ areq' = [areq EXCEPT ![r] = [st |-> "pending", ep |-> ep, code |-> Unanswered]]
    /\ UNCHANGED posted

\* the request is answered with status c and forwards nothing
Answer(r, c) ==
    /\ areq[r].st = "pending"
    /\ c \in Answers(areq[r].ep)
    /\ areq' = [areq EXCEPT ![r].st = "done", ![r].code = c]
    /\ UNCHANGED posted

\* an /events request forwards one event to instance i and is answered 200
Forward(r, i) ==
    /\ areq[r].st = "pending"
    /\ areq[r].ep = "events"
    /\ areq' = [areq EXCEPT ![r].st = "done", ![r].code = 200]
    /\ posted' = posted \cup {[req |-> r, inst |-> i]}

Respond(r) == (\E c \in Answers(areq[r].ep) : Answer(r, c)) \/ (\E i \in Instances : Forward(r, i))

Next ==
    \E r \in Reqs :
        \/ \E ep \in EndpointNames : Receive(r, ep)
        \/ Respond(r)

SafeSpec == Init /\ [][Next]_cvars

\* the server answers every request it received
Spec == SafeSpec /\ \A r \in Reqs : WF_cvars(Respond(r))
=============================================================================
