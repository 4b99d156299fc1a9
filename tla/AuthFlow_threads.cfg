SPECIFICATION Spec
CONSTANTS
    c1 = c1
    w1 = w1
    w2 = w2
    Child = {c1}
    Worker = {w1, w2}
    ChildOf <- MCOneChild
    Browser = {u1, u2}
    Code = {k1, k2, k3}
    Sid = {s1, s2}
    Ttl = 1
    MaxTime = 1
    None = None
SYMMETRY MCSymmetry
INVARIANTS
    IInv
    GrantedToOpener
    NoExpiredGrant
    WelcomeBacked
    OldSessionGone
PROPERTIES
    LiveSessionKept
    EndedStaysEnded
