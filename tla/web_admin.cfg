SPECIFICATION Spec
CONSTANTS
    Browsers = {b1}
    IdleLimit = 1
    BaseDelay = 1
    MaxDelay = 1
    FreeFails = 1
    MaxRequests = 3
    MaxUploads = 2
    MaxEvents = 2
INVARIANTS
    ServicesConsistent
    RollbackSafe
    AcceptedUpdateRuns
    ThrottleHolds
    SessionJudgedByUse
PROPERTIES
    UnhealthyIsGivenUp
    StreamsComeBack
