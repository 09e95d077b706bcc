\* Two worker processes over the SQLite store.
SPECIFICATION Spec
CONSTANTS
    None = None
    Workers = {w1, w2}
    Actions = {read, write}
    Backends = {"sqlite"}
    MaxTools = 2
    MaxSame = 2
    MaxFindings = 1
    MaxOutput = 1
    MaxCount = 0
    MaxCalls = 4
INVARIANTS ThresholdEnforced
CHECK_DEADLOCK FALSE
