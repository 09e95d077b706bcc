\* No overlap of loads, a cache file, no fallback file.
SPECIFICATION Spec
CONSTANTS
    NoText = NoText
    Unavailable = Unavailable
    Threads = {t1, t2}
    MaxVersion = 2
    Pin = 0
    HasCache = TRUE
    FallbackForm = "none"
    RefreshSeconds = 2
    RetryBase = 1
    RetryMax = 2
    RetryJitter = 0
    FloatLimit = 1024
    FailureCap = 2
    FailClosed = TRUE
    LoadLimit = 1
    StartClock = 2
    MaxClock = 6
INVARIANTS CacheIsKnownGood
CHECK_DEADLOCK FALSE
