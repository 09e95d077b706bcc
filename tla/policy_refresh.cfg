\* Two threads, no pin, a cache file, fail-open; every load ends within the TTL.
SPECIFICATION RollingSpec
CONSTANTS
    NoText = NoText
    Unavailable = Unavailable
    Threads = {t1, t2}
    MaxVersion = 3
    Pin = 0
    HasCache = TRUE
    FallbackForm = "none"
    RefreshSeconds = 2
    RetryBase = 1
    RetryMax = 2
    RetryJitter = 1
    FloatLimit = 1024
    FailureCap = 2
    FailClosed = FALSE
    LoadLimit = 1
    StartClock = 3
    MaxClock = 3
INVARIANTS TypeOK ActivePolicyValid SingleFlight FreshWhenQuiet
PROPERTIES NoRegression ImplementsRegister Recovery
CHECK_DEADLOCK FALSE
