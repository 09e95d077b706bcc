\* The server asks the client something and the client answers.
SPECIFICATION Spec
CONSTANTS
    Tools = {"read", "push", "exec"}
    Messages <- Traffic
    Registry <- Entries
    Default = "deny"
    DenyOnSecrets = TRUE
    PipeSize = 1
    MaxMessages = 2
    MaxAsks = 1
INVARIANTS OtherMessagesPass
CHECK_DEADLOCK FALSE
