---------------------------- MODULE MCBootsHTTP ----------------------------
(* Model-checking instance of BootsHTTP: one or two addresses, two         *)
(* hardware records of which one supports workflows, two instances, two    *)
(* concurrent requests.  The request inputs are narrowed per run to one    *)
(* representative of each class the handlers tell apart.                   *)
EXTENDS BootsHTTP

CONSTANTS ip1, ip2, h1, h2, i1, i2, r1, r2

MCOneIP == {ip1}
MCTwoIPs == {ip1, ip2}
MCHwIDs == {h1, h2}
MCInstances == {i1, i2}
MCCapable == {h1}
MCOneReq == {r1}
MCTwoReqs == {r1, r2}

\* the job-resolving endpoints; /events has a run of its own
MCJobEndpoints == {"file", "hardware", "problem", "phonehome"}
MCEventsEndpoint == {"events"}

\* CreateFromRemoteAddr fails alike on both malformed forms
MCJobAddrs == {"hostport", "badip"}
\* readClose errors, empty and undecodable bodies all end in the same 400
MCBodies == {"json", "badjson"}
=============================================================================
