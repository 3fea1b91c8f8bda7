\* /events meets an unreachable backend: the error is not logged.
CONSTANTS
    ip1 = ip1
    ip2 = ip2
    h1 = h1
    h2 = h2
    i1 = i1
    i2 = i2
    r1 = r1
    r2 = r2
    NoHw = NoHw
    NoInstance = NoInstance
    IPs <- MCOneIP
    HwIDs <- MCHwIDs
    Instances <- MCInstances
    Capable <- MCCapable
    Reqs <- MCTwoReqs
    Endpoints <- MCEventsEndpoint
    Bodies <- MCBodies
    FinderConfigured = TRUE
SPECIFICATION Spec
INVARIANT UnavailableLogged
