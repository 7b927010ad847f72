CONSTANTS
    Scenarios <- AllScenarios
    MaxMessages = 5
    MaxCert = 2
SPECIFICATION Spec
INVARIANTS
    TypeOK
    FailsOnlyForCause
    ConfirmedAtServer
    PollsDelayedConfirmation
    ConfirmsLastIssued
    AcceptedFromAuthority
    RefusedNeverConfirmed
PROPERTY ImplementsEnrollment
CHECK_DEADLOCK FALSE
