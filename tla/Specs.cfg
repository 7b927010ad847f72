SPECIFICATION Spec
CONSTANTS
    Bases <- MCBases
    Choices <- MCChoices
    MaxEdits = 3
INVARIANTS
    LoadedIsSendable
    StrictProfile
    SchemaAgrees
CHECK_DEADLOCK FALSE
