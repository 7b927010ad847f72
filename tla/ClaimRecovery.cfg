CONSTANTS
    MaxUid = 1
    MaxTxn = 1
    MaxCert = 1
    MaxRotation = 0
    MaximumPolls = 1
    MaxLate = 0
    MaxVersion = 2
    Issuer <- EditedIssuer
    Worker = {w1}
SPECIFICATION Spec
PROPERTY IssuerEditKeepsRecovery
CHECK_DEADLOCK FALSE
