SPECIFICATION Spec
CONSTANTS
    Threads = {t1}
    t1 = t1
    Nobody = Nobody
    CycleThreads = {}
    Tiers = {"local"}
    Gated = FALSE
    MaxPrompts = 2
    MaxAsks = 0
INVARIANT AdmissionReturned
\* With every prompt run and the server closed nothing is left to do.
CHECK_DEADLOCK FALSE
