SPECIFICATION FairSpec
CONSTANTS
    c1 = c1
    w1 = w1
    w2 = w2
    u1 = u1
    t1 = t1
    t2 = t2
    k5 = k5
    Base = 2
    NUL = NUL
    Child = {c1}
    Worker = {w1, w2}
    ChildOf <- MCChildOf
    Browser = {u1}
    Code = {k1, k2, k3, k4, k5}
    Sid = {s1, s2, s3, s4, s5}
    Ttl = 1
    MaxTime = 1
    None = None
    Tab = {t1, t2}
    BrowserOf <- MCBrowserOf
    CodesOf <- MCCodesOf
    Page <- MCPage
    PageOf <- MCPageOf
    Root <- MCRoot
    Provider <- MCProvider
    ProviderOf <- MCProviderOf
    MaxFaults = 1
INVARIANTS
    TypeOK
    PageReached
    CodeGoesHome
    ReleasedOnce
    NothingElseKept
PROPERTIES
    GetsPage
