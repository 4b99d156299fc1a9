SPECIFICATION Spec
CONSTANTS
    Base = 2
    NUL = NUL
    EntityId <- MCEntityId
    DisplayName <- MCDisplayName
    UiNames <- MCUiNames
    TrustAnchors = 2
    MaxEntities = 2
    None = None
INVARIANTS
    TypeOK
    EveryOpOffered
    RepeatedOnlyAcrossAnchors
    NothingDangles
    ShownInOrder
    SuggestedAsListed
    NumberedByRow
