CONSTANTS
    Scenarios <- StatusScenario
    MaxMessages = 2
    MaxCert = 1
SPECIFICATION Spec
INVARIANT ReturnsCertificate
CHECK_DEADLOCK FALSE
