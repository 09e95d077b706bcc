\* refresh_seconds = 0, as in tests/test_policy_source.py: loads overlap.
SPECIFICATION Spec
CONSTANTS
    NoText = NoText
    Unavailable = Unavailable
    Threads = {t1, t2}
    MaxVersion = 2
    Pin = 0
    HasCache = FALSE
    FallbackForm = "none"
    RefreshSeconds = 0
    RetryBase = 1
    RetryMax = 2
    RetryJitter = 0
    FloatLimit = 1024
    FailureCap = 2
    FailClosed = FALSE
    LoadLimit = 1
    StartClock = 1
    MaxClock = 3
PROPERTIES NoRegression
CHECK_DEADLOCK FALSE
