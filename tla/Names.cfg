SPECIFICATION Spec
CONSTANTS
    Character = {"a", ",", "\\", " ", "="}
    MaxLength = 3
    MaxAttributes = 2
INVARIANTS
    Recognized
CHECK_DEADLOCK FALSE
