---------------------------- MODULE BootsServer ----------------------------
(***************************************************************************)
(* The HTTP server of boots as BootsHTTPServer.ServeHTTP starts it         *)
(* (src/cmd/boots/http.go): the routes are registered on a ServeMux, the   *)
(* mux is wrapped in the request logger and, when trusted proxies are      *)
(* configured, in the X-Forwarded-For middleware, and ListenAndServe       *)
(* runs until it fails, at startup or after serving, which exits the       *)
(* process through mainlog.Fatal.                                          *)
(* Once listening, the server answers health checks (serveHealthchecker)   *)
(* concurrently, one goroutine per request.                                *)
(*                                                                         *)
(* The other handlers are the subject of BootsHTTP.  A response is the     *)
(* net/http ResponseWriter state of the request: whether its header is     *)
(* committed and with which status.                                        *)
(***************************************************************************)
EXTENDS Naturals

CONSTANTS
    Reqs,     \* health-check request slots
    NoIpxe    \* no custom iPXE handler is passed to ServeHTTP

VARIABLES
    cfg,      \* the arguments and configuration ServeHTTP runs with
    phase,    \* "setup", "wrapping", "listening" or "exited"
    mux,      \* the patterns registered on the ServeMux
    handler,  \* the handler ListenAndServe is given
    hc,       \* hc[r]: a health-check request and its ResponseWriter
    served    \* some request has been answered by the running server

vars == <<cfg, phase, mux, handler, hc, served>>

\* the patterns ServeHTTP registers whatever its arguments (lines 72-108)
Builtin ==
    {"/", "/metrics", "/_packet/healthcheck", "/_packet/pprof/",
     "/_packet/pprof/cmdline", "/_packet/pprof/profile", "/_packet/pprof/symbol",
     "/_packet/pprof/trace", "/healthcheck", "/phone-home", "/phone-home/key",
     "/problem", "/hardware-components", "/events",
     "flatcar.IgnitionPathFlatcar", "vmware.KickstartPath"}

\* ipxePattern values: a fresh path, one that collides with a built-in
\* route, and the empty pattern
IpxePatterns == {"/auto.ipxe", "/metrics", ""}

\* conf.TrustedProxies: none, valid subnets, or a list xff.New rejects
Proxies == {"none", "valid", "invalid"}

Config == [ipxe: IpxePatterns \cup {NoIpxe}, proxies: Proxies, bindOK: BOOLEAN]

Pcs == {"idle", "serving", "done"}

NoStatus == 0

\* the ResponseWriter of a request nobody has written to
Fresh == [committed |-> FALSE, status |-> NoStatus]

-----------------------------------------------------------------------------
(* net/http's ResponseWriter: the first WriteHeader or Write commits the   *)
(* status, a later WriteHeader is superfluous and changes nothing.         *)

WriteHeader(w, code) ==
    IF w.committed THEN w ELSE [committed |-> TRUE, status |-> code]

Write(w) == WriteHeader(w, 200)

-----------------------------------------------------------------------------
Init ==
    /\ cfg \in Config
    /\ phase = "setup"
    /\ mux = {}
    /\ handler = "none"
    /\ hc = [r \in Reqs |-> [pc |-> "idle", w |-> Fresh, encodeErr |-> FALSE,
                            logged |-> FALSE]]
    /\ served = FALSE

\* ServeHTTP lines 70-109: mux.Handle panics on an empty pattern and on a
\* pattern registered twice; the custom iPXE route is registered right
\* after "/" and before the others
RegisterRoutes ==
    /\ phase = "setup"
    /\ IF cfg.ipxe = NoIpxe
         THEN /\ mux' = Builtin
              /\ phase' = "wrapping"
         ELSE IF cfg.ipxe = "" \/ cfg.ipxe \in Builtin
         THEN /\ phase' = "exited"
              /\ UNCHANGED mux
         ELSE /\ mux' = Builtin \cup {cfg.ipxe}
              /\ phase' = "wrapping"
    /\ UNCHANGED <<cfg, handler, hc, served>>

\* (mutant) the error of xff.New is dropped and the middleware used anyway
WrapHandlerIgnoreXffErr ==
    /\ phase = "wrapping"
    /\ handler' = IF cfg.proxies = "none" THEN "httplog" ELSE "xff"
    /\ phase' = "listening"
    /\ UNCHANGED <<cfg, mux, hc, served>>

\* ServeHTTP lines 111-131: xff.New failing is fatal
WrapHandler ==
    /\ phase = "wrapping"
    /\ CASE cfg.proxies = "none"    -> handler' = "httplog" /\ phase' = "listening"
         [] cfg.proxies = "valid"   -> handler' = "xff" /\ phase' = "listening"
         [] cfg.proxies = "invalid" -> phase' = "exited" /\ UNCHANGED handler
    /\ UNCHANGED <<cfg, mux, hc, served>>

\* ServeHTTP lines 133-136: ListenAndServe returns an error when net.Listen
\* cannot bind the address, or, once bound, whenever Serve's Accept fails
\* with a non-temporary error, after any number of requests; either error
\* is fatal, and the requests still in flight die with the process
ListenAndServe ==
    /\ phase = "listening"
    /\ \/ ~cfg.bindOK
       \/ cfg.bindOK
    /\ phase' = "exited"
    /\ UNCHANGED <<cfg, mux, handler, hc, served>>

\* a client sends a health check (/healthcheck or /_packet/healthcheck,
\* both in Builtin) to the listening server
HealthArrive(r) ==
    /\ phase = "listening"
    /\ cfg.bindOK
    /\ hc[r].pc = "idle"
    /\ hc' = [hc EXCEPT ![r].pc = "serving"]
    /\ UNCHANGED <<cfg, phase, mux, handler, served>>

\* serveHealthchecker lines 37-51: Encode writes the JSON body, which
\* commits status 200, and fails when the write fails; the handler then
\* calls WriteHeader(500) and logs the error
ServeHealthchecker(r, encodeErr) ==
    /\ phase = "listening"
    /\ hc[r].pc = "serving"
    /\ LET w1 == Write(hc[r].w)
       IN hc' = [hc EXCEPT ![r] = [pc |-> "done", encodeErr |-> encodeErr, logged |-> encodeErr,
                                   w |-> IF encodeErr THEN WriteHeader(w1, 500) ELSE w1]]
    /\ served' = TRUE
    /\ UNCHANGED <<cfg, phase, mux, handler>>

Next ==
    \/ RegisterRoutes
    \/ WrapHandler
    \/ ListenAndServe
    \/ \E r \in Reqs :
          \/ HealthArrive(r)
          \/ \E e \in BOOLEAN : ServeHealthchecker(r, e)

\* the goroutine serving a request runs until it returns: Encode of a
\* small body to the connection does not block
Fairness == \A r \in Reqs : WF_vars(\E e \in BOOLEAN : ServeHealthchecker(r, e))

Spec == Init /\ [][Next]_vars /\ Fairness

-----------------------------------------------------------------------------
\* a health-check request slot: its progress, its ResponseWriter, and
\* whether Encode failed and the failure was logged
HealthReq ==
    [pc: Pcs, w: [committed: BOOLEAN, status: {NoStatus, 200, 500}],
     encodeErr: BOOLEAN, logged: BOOLEAN]

TypeOK ==
    /\ cfg \in Config
    /\ phase \in {"setup", "wrapping", "listening", "exited"}
    /\ mux \subseteq Builtin \cup IpxePatterns
    /\ handler \in {"none", "httplog", "xff"}
    /\ hc \in [Reqs -> HealthReq]
    /\ served \in BOOLEAN

\* the route table ServeHTTP registers (lines 72-109) and the handler
\* chain it wraps the mux in (lines 111-131), for its configuration
Routes == IF cfg.ipxe = NoIpxe THEN Builtin ELSE Builtin \cup {cfg.ipxe}

Chain == IF cfg.proxies = "valid" THEN "xff" ELSE "httplog"

\* the server runs with the routes and the wrappers its configuration asks
\* for: a nil iPXE handler or a fresh pattern, and usable trusted proxies
RoutesConfigured ==
    /\ cfg.ipxe # NoIpxe => cfg.ipxe \notin Builtin \cup {""}
    /\ mux = Routes

ChainConfigured ==
    /\ cfg.proxies # "invalid"
    /\ handler = Chain

Configured == RoutesConfigured /\ ChainConfigured

\* Every health check answered, before or after the process exits, was
\* answered by a server whose route table holds each built-in route and
\* the custom iPXE route once, and whose handler chain is the one
\* conf.TrustedProxies asks for: a misconfiguration (mux.Handle's panic,
\* xff.New's error) never leaves a server running that answers requests
\* (ServeHTTP, serveHealthchecker).
AnsweredOnlyWhenConfigured ==
    \A r \in Reqs : hc[r].pc = "done" => Configured

\* Spec section 7: the process exits only on a startup or configuration
\* failure, never once it has answered a request; ServeHTTP calls
\* mainlog.Fatal when ListenAndServe returns, which it also does after
\* serving (lines 133-136).
FatalOnlyAtStartup == phase = "exited" => ~served

\* What serveHealthchecker really answers: every health check, whether its
\* Encode failed or not, is answered with status 200, because the write
\* that fails has already committed the header (lines 48-49).
HealthAnswered200 ==
    \A r \in Reqs : hc[r].pc = "done" => hc[r].w = [committed |-> TRUE, status |-> 200]

\* Spec section 7: an encoding failure is fatal to the request and answered
\* 500 (serveHealthchecker line 49).
HealthFailureAnswered500 ==
    \A r \in Reqs : hc[r].pc = "done" /\ hc[r].encodeErr => hc[r].w.status = 500

\* The inductive invariant of the proofs (BootsServerProofs): no request is
\* taken before the server listens; from the registration on, the route
\* table is the configured one, and from the wrapping on, the handler
\* chain; an unanswered request's ResponseWriter is untouched, and an
\* answered one carries status 200.
ServerInv ==
    /\ TypeOK
    /\ phase \in {"setup", "wrapping"} => \A r \in Reqs : hc[r].pc = "idle"
    /\ phase = "wrapping" => RoutesConfigured
    /\ phase = "listening" => Configured
    /\ \A r \in Reqs : hc[r].pc # "idle" => Configured
    /\ \A r \in Reqs : hc[r].pc # "done" => hc[r].w = Fresh
    /\ HealthAnswered200
=============================================================================
