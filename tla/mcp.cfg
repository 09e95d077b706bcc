\* Three messages, one unasked line of the server, pipes of one frame.
SPECIFICATION FairSpec
CONSTANTS
    Tools = {"read", "push", "exec"}
    Messages <- Traffic
    Registry <- Entries
    Default = "deny"
    DenyOnSecrets = TRUE
    PipeSize = 1
    MaxMessages = 3
    MaxAsks = 1
INVARIANTS TypeOK OnlyGovernedCalls AnsweredOnce
PROPERTIES EndsWithClient RequestsAreAnswered
CHECK_DEADLOCK FALSE
