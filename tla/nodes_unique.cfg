\* The same instance; what the comments say of every call.
SPECIFICATION Spec
CONSTANTS
    MaxNodes = 5
    MaxHeld = 1
    MaxItems = 2
    Kinds <- MCKinds
PROPERTIES WrapperIsUnique
CHECK_DEADLOCK FALSE
