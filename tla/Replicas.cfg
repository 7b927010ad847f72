CONSTANTS
    MaxUid = 1
    MaxTxn = 2
    MaxCert = 1
    MaxRotation = 0
    MaximumPolls = 1
    MaxLate = 0
    MaxVersion = 1
    Issuer <- OneIssuer
    Worker = {w1, w2}
SYMMETRY Interchangeable
SPECIFICATION Spec
CONSTRAINT TwoOrConfirmed
INVARIANT OneOpenTransaction
INVARIANT DurableBeforeCertConf
INVARIANT ClosedForGood
PROPERTY RecordAdvances
PROPERTY ImplementsEnrollment
CHECK_DEADLOCK FALSE
