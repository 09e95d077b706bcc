\* Pinned digest, fallback file, fail-closed; loads outlast the TTL and overlap.
SPECIFICATION Spec
CONSTANTS
    NoText = NoText
    Unavailable = Unavailable
    Threads = {t1, t2}
    MaxVersion = 2
    Pin = 1
    HasCache = TRUE
    FallbackForm = "policy"
    RefreshSeconds = 1
    RetryBase = 1
    RetryMax = 2
    RetryJitter = 1
    FloatLimit = 1024
    FailureCap = 2
    FailClosed = TRUE
    LoadLimit = 2
    StartClock = 1
    MaxClock = 4
INVARIANTS ActivePolicyValid CachePinned
PROPERTIES AttemptsAdvance
CHECK_DEADLOCK FALSE
