SPECIFICATION Spec
CONSTANTS
    sigterm = sigterm
    exception = exception
    Heartbeat = 6
    PongWait = 2
    AuthWait = 1
    CloseWait = 6
    AuthRequired = TRUE
    Signals = {sigterm, exception}
    ShutdownTimeout = 2
    MaxAttempts = 3
    MaxRequests = 1
INVARIANTS
    SilenceBounded
    UnauthenticatedBounded
    CompleteExit
    ExitExplained
PROPERTIES
    ResponsiveSurvives
    ShutdownEnds
CHECK_DEADLOCK FALSE
