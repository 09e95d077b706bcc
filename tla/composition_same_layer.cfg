\* A layer that denies and allows loses its own allow.
SPECIFICATION Spec
CONSTANTS
    None = None
    Attributes = {"data", "role"}
    Actions = {"redact"}
    Stacks <- Pairs
    Requests <- AllRequests
INVARIANT OnlyLowerAllowsAreBlocked
CHECK_DEADLOCK FALSE
