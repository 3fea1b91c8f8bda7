\* Spec section 7 says an encoding failure is answered 500; the status
\* was committed by the failed write.
CONSTANTS
    Reqs = {h1, h2}
    NoIpxe = NoIpxe
SPECIFICATION Spec
INVARIANT HealthFailureAnswered500
CHECK_DEADLOCK FALSE
