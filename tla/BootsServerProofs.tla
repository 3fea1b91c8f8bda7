------------------------- MODULE BootsServerProofs -------------------------
(***************************************************************************)
(* Proofs about BootsServer, for every set of request slots: every health  *)
(* check answered was answered by a server running the route table and    *)
(* the handler chain its configuration asks for, and with status 200,      *)
(* whether its Encode failed or not.  Both follow from the inductive       *)
(* invariant ServerInv: the configuration is established by the           *)
(* registration and the wrapping before any request is taken, and no later *)
(* step changes cfg, mux or handler.                                       *)
(***************************************************************************)
EXTENDS BootsServer, TLAPS

\* net/http ignores a WriteHeader on a committed ResponseWriter.
LEMMA WriteHeaderCommitted ==
    ASSUME NEW w, w.committed = TRUE, NEW code
    PROVE  WriteHeader(w, code) = w
  BY DEF WriteHeader

\* The first write to a fresh ResponseWriter commits status 200, and a
\* WriteHeader after it changes nothing.
LEMMA WriteFresh ==
    ASSUME NEW code
    PROVE  /\ Write(Fresh) = [committed |-> TRUE, status |-> 200]
           /\ WriteHeader(Write(Fresh), code) = [committed |-> TRUE, status |-> 200]
  BY DEF Write, WriteHeader, Fresh

LEMMA InitServerInv == Init => ServerInv
  <1> SUFFICES ASSUME Init PROVE ServerInv
    OBVIOUS
  <1>1. hc \in [Reqs -> HealthReq]
    <2>1. Fresh \in [committed: BOOLEAN, status: {NoStatus, 200, 500}]
      BY DEF Fresh
    <2>2. QED
      BY <2>1 DEF Init, HealthReq, Pcs
  <1>2. \A r \in Reqs : hc[r].pc = "idle" /\ hc[r].w = Fresh
    BY DEF Init
  <1>3. QED
    BY <1>1, <1>2 DEF Init, ServerInv, TypeOK, HealthAnswered200

\* A step that leaves cfg, mux and handler as they were keeps the
\* configuration established.
LEMMA ConfiguredFrame ==
    ASSUME UNCHANGED <<cfg, mux, handler>>
    PROVE  /\ Configured' = Configured
           /\ RoutesConfigured' = RoutesConfigured
  BY DEF Configured, RoutesConfigured, ChainConfigured, Routes, Chain

\* mux.Handle accepts the custom iPXE route: the registration gives the
\* configured route table, or the process exits on the panic.
LEMMA RegisterStep ==
    ASSUME TypeOK, RegisterRoutes
    PROVE  \/ phase' = "exited" /\ mux' = mux
           \/ phase' = "wrapping" /\ RoutesConfigured' /\ mux' \subseteq Builtin \cup IpxePatterns
  <1>1. CASE cfg.ipxe = NoIpxe
    BY <1>1 DEF RegisterRoutes, RoutesConfigured, Routes
  <1>2. CASE cfg.ipxe # NoIpxe /\ (cfg.ipxe = "" \/ cfg.ipxe \in Builtin)
    BY <1>2 DEF RegisterRoutes
  <1>3. CASE cfg.ipxe # NoIpxe /\ ~(cfg.ipxe = "" \/ cfg.ipxe \in Builtin)
    <2>1. cfg.ipxe \in IpxePatterns
      BY <1>3 DEF TypeOK, Config
    <2>2. QED
      BY <1>3, <2>1 DEF RegisterRoutes, RoutesConfigured, Routes
  <1>4. QED
    BY <1>1, <1>2, <1>3

\* The wrapping gives the configured handler chain, or the process exits
\* on the error of xff.New.
LEMMA WrapStep ==
    ASSUME TypeOK, WrapHandler
    PROVE  \/ phase' = "exited" /\ handler' = handler
           \/ phase' = "listening" /\ ChainConfigured' /\ handler' \in {"httplog", "xff"}
  BY DEF WrapHandler, ChainConfigured, Chain, TypeOK, Config, Proxies

\* ServerInv is preserved by every step, one step per action.
LEMMA NextServerInv == ServerInv /\ [Next]_vars => ServerInv'
  <1> SUFFICES ASSUME ServerInv, [Next]_vars PROVE ServerInv'
    OBVIOUS
  <1> USE DEF ServerInv, TypeOK, HealthAnswered200
  <1>1. CASE RegisterRoutes
    <2>1. UNCHANGED <<cfg, handler, hc, served>> /\ phase = "setup"
      BY <1>1 DEF RegisterRoutes
    <2>2. \A r \in Reqs : hc[r].pc = "idle"
      BY <2>1
    <2>3. QED
      BY <1>1, <2>1, <2>2, RegisterStep
  <1>2. CASE WrapHandler
    <2>1. UNCHANGED <<cfg, mux, hc, served>> /\ phase = "wrapping"
      BY <1>2 DEF WrapHandler
    <2>2. RoutesConfigured' /\ \A r \in Reqs : hc[r].pc = "idle"
      BY <2>1 DEF RoutesConfigured, Routes
    <2>3. QED
      BY <1>2, <2>1, <2>2, WrapStep DEF Configured
  <1>3. CASE ListenAndServe
    <2>1. UNCHANGED <<cfg, mux, handler, hc, served>> /\ phase' = "exited"
      BY <1>3 DEF ListenAndServe
    <2>2. QED
      BY <2>1, ConfiguredFrame
  <1>4. ASSUME NEW r \in Reqs, HealthArrive(r) PROVE ServerInv'
    <2>1. UNCHANGED <<cfg, phase, mux, handler, served>> /\ phase = "listening"
      BY <1>4 DEF HealthArrive
    <2>2. Configured' 
      BY <2>1, ConfiguredFrame
    <2>3. hc' \in [Reqs -> HealthReq]
      BY <1>4 DEF HealthArrive, HealthReq, Pcs
    <2>4. \A s \in Reqs : hc'[s].w = hc[s].w
      BY <1>4 DEF HealthArrive
    <2>5. \A s \in Reqs : hc'[s].pc # "done" <=> hc[s].pc # "done"
      BY <1>4 DEF HealthArrive
    <2>6. QED
      BY <2>1, <2>2, <2>3, <2>4, <2>5
  <1>5. ASSUME NEW r \in Reqs, NEW e \in BOOLEAN, ServeHealthchecker(r, e)
        PROVE  ServerInv'
    <2>1. hc[r].w = Fresh /\ phase = "listening"
      BY <1>5 DEF ServeHealthchecker
    <2>2. /\ Write(hc[r].w) = [committed |-> TRUE, status |-> 200]
          /\ WriteHeader(Write(hc[r].w), 500) = [committed |-> TRUE, status |-> 200]
      BY <2>1, WriteFresh
    <2>3. hc' = [hc EXCEPT ![r] = [pc |-> "done", encodeErr |-> e, logged |-> e,
                                   w |-> [committed |-> TRUE, status |-> 200]]]
      BY <1>5, <2>2 DEF ServeHealthchecker
    <2>4. hc' \in [Reqs -> HealthReq]
      BY <2>3 DEF HealthReq, Pcs
    <2>5. UNCHANGED <<cfg, phase, mux, handler>> /\ served'
      BY <1>5 DEF ServeHealthchecker
    <2>6. Configured'
      BY <2>1, <2>5, ConfiguredFrame
    <2>7. QED
      BY <2>1, <2>3, <2>4, <2>5, <2>6
  <1>6. CASE UNCHANGED vars
    BY <1>6, ConfiguredFrame DEF vars
  <1>7. QED
    BY <1>1, <1>2, <1>3, <1>4, <1>5, <1>6 DEF Next

\* The inductive invariant holds in every reachable state.
LEMMA ServerInvHolds == Spec => []ServerInv
  BY InitServerInv, NextServerInv, PTL DEF Spec

\* A health check is answered only by a server whose route table and
\* handler chain are the ones its configuration asks for (ServeHTTP's
\* registration and wrapping, serveHealthchecker), for every set of
\* request slots.
THEOREM AnsweredOnlyWhenConfiguredHolds == Spec => []AnsweredOnlyWhenConfigured
  <1>1. ServerInv => AnsweredOnlyWhenConfigured
    BY DEF ServerInv, AnsweredOnlyWhenConfigured
  <1>2. QED
    BY <1>1, ServerInvHolds, PTL

\* serveHealthchecker answers every health check with status 200: its
\* WriteHeader(500) after a failed Encode is never seen by the client.
THEOREM HealthAnswered200Holds == Spec => []HealthAnswered200
  <1>1. ServerInv => HealthAnswered200
    BY DEF ServerInv
  <1>2. QED
    BY <1>1, ServerInvHolds, PTL
=============================================================================
