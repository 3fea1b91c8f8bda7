\* Spec section 7 reserves process-level fatal errors for startup and
\* configuration failures; ListenAndServe may return after serving.
CONSTANTS
    Reqs = {h1}
    NoIpxe = NoIpxe
SPECIFICATION Spec
INVARIANT FatalOnlyAtStartup
CHECK_DEADLOCK FALSE
