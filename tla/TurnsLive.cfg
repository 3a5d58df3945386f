SPECIFICATION FairSpec
CONSTANTS
    Threads = {t1, t2}
    t1 = t1
    t2 = t2
    Nobody = Nobody
    CycleThreads = {t2}
    Tiers = {"local"}
    Gated = TRUE
    MaxPrompts = 1
    MaxAsks = 1
PROPERTY GateServed
PROPERTY CanceledEnds
\* With every prompt run and the server closed nothing is left to do.
CHECK_DEADLOCK FALSE
