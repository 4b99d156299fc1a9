SPECIFICATION FairSpec
CONSTANTS
    k1 = k1
    k2 = k2
    a = a
    b = b
    c = c
    Thread = {t1, t2, t3}
    Sid = {k1, k2}
    Session = {a, b, c}
    SidOf <- MCSidOf
    NoSession = NoSession
    Free = Free
INVARIANTS
    TypeOK
    LookupIsFresh
PROPERTIES
    ImplementsAtomicMap
    MutexReleased
