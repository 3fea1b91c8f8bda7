\* No workflow finder: serveProblem skips the workflow gate.
CONSTANTS
    ip1 = ip1
    ip2 = ip2
    h1 = h1
    h2 = h2
    i1 = i1
    i2 = i2
    r1 = r1
    r2 = r2
    NoHw = NoHw
    NoInstance = NoInstance
    IPs <- MCOneIP
    HwIDs <- MCHwIDs
    Instances <- MCInstances
    Capable <- MCCapable
    Reqs <- MCOneReq
    Endpoints <- MCJobEndpoints
    AddrForms <- MCJobAddrs
    Bodies <- MCBodies
    FinderConfigured = FALSE
SPECIFICATION Spec
INVARIANT GatedServing
