\* Every sequence of calls on a page of three nodes with room for two more.
SPECIFICATION Spec
CONSTANTS
    MaxNodes = 5
    MaxHeld = 1
    MaxItems = 2
    Kinds <- MCKinds
INVARIANTS TreeIsForest RecordsFollowTree PlacedAsAsked
PROPERTIES IdentityKept
CHECK_DEADLOCK FALSE
