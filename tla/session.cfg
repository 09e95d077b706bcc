\* Two threads over the in-memory store, or two worker processes over the SQLite
\* store, either of which may die in a call.
SPECIFICATION Spec
CONSTANTS
    None = None
    Workers = {w1, w2}
    Actions = {read, write}
    Backends = {"memory", "sqlite"}
    MaxTools = 1
    MaxSame = 1
    MaxFindings = 1
    MaxOutput = 1
    MaxCount = 1
    MaxCalls = 5
SYMMETRY Symmetry
INVARIANTS TypeOK NeverOvercounts SequentialThreshold MemoryOvershootBounded
CHECK_DEADLOCK FALSE
