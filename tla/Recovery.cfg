CONSTANTS
    MaxUid = 1
    MaxTxn = 1
    MaxCert = 2
    MaxRotation = 0
    MaximumPolls = 2
    MaxLate = 1
    MaxVersion = 1
    Issuer <- OneIssuer
    Worker = {w1}
SPECIFICATION FairSpec
INVARIANT TypeOK
INVARIANT IssuedIsConfirmed
INVARIANT PollsOnlyASentCertConf
INVARIANT FreshCertConfWithinBudget
PROPERTY Settles
PROPERTY ImplementsEnrollment
CHECK_DEADLOCK FALSE
