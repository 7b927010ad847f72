CONSTANTS
    MaxUid = 2
    MaxTxn = 2
    MaxCert = 1
    MaxRotation = 1
    MaximumPolls = 1
    MaxLate = 0
    MaxVersion = 4
    Issuer <- ReconfiguredIssuer
    Worker = {w1}
SPECIFICATION Spec
CONSTRAINT OneSuccession
INVARIANT LiveTransactionNotDropped
INVARIANT OneOriginPerTransaction
PROPERTY ImplementsIssuance
CHECK_DEADLOCK FALSE
