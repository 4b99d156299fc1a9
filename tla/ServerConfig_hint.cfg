SPECIFICATION Spec
CONSTANTS
    a = a
    b = b
    VHost = {v}
    Main = main
    Field = {"entity_id"}
    Size = 3
    Default = 1
    ListField = {"grant_types", "trust_anchors"}
    Max <- MCMax
    DefaultList <- MCDefaultList
    Item = {a, b}
    MaxText = 4
    MaxDirectives = 3
    NoConfig = NoConfig
CHECK_DEADLOCK FALSE
INVARIANT HintEffective
