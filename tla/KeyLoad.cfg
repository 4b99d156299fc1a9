SPECIFICATION Spec
CONSTANTS
    BufSize = 4
    MaxFile = 14
INVARIANTS
    TypeOK
    WithinBuffer
    ReadsOn
    OwnBuffersWiped
    SmallKeyLoaded
