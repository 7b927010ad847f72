CONSTANTS
    Issuers <- AllIssuers
    MaxKey = 4
    MaxRequests = 3
    MaxEdits = 2
    Foreign <- Claims
SPECIFICATION Spec
CONSTRAINT ThreeRequestsOrTwoEdits
INVARIANTS
    TypeOK
    OneProofPerTransaction
    FallbackJustified
    NoDeadEnd
    CredentialsChanged
    KeysBelongToCertificate
CHECK_DEADLOCK FALSE
