SPECIFICATION Spec
CONSTANTS
    Threads = {t1, t2, t3}
    t1 = t1
    t2 = t2
    t3 = t3
    Nobody = Nobody
    Keys <- TreeKeys
    Claims <- MixedClaims
    TTL = 0
SYMMETRY Symmetry
INVARIANT TypeOK
INVARIANT Exclusion
INVARIANT NoOrphanLease
INVARIANT WaitAccounting
INVARIANT NoLostWakeup
INVARIANT NoCircularWait
