SPECIFICATION FairSpec
CONSTANTS
    f1 = f1
    f2 = f2
    Child = {c1}
    Config = {f1, f2}
    ConfigOf <- MCConfigOf
    Servers <- MCServers
    NoConfig = NoConfig
INVARIANTS
    TypeOK
    OwnedIsComplete
    OwnedCanCall
    AssertionsHoldUntilFailure
PROPERTIES
    BuiltOnce
    StartsUp
