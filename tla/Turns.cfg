SPECIFICATION Spec
CONSTANTS
    Threads = {t1, t2}
    t1 = t1
    t2 = t2
    Nobody = Nobody
    CycleThreads = {}
    Tiers = {"local", "hosted"}
    Gated = TRUE
    MaxPrompts = 1
    MaxAsks = 1
INVARIANT AdmissionSound
INVARIANT PromptsAnswered
INVARIANT NoTurnAfterClose
\* With every prompt run and the server closed nothing is left to do.
CHECK_DEADLOCK FALSE
