SPECIFICATION Spec
CONSTANTS
    BufSize = 4
    MaxFile = 14
INVARIANT KeyLoaded
