\* Every component that shares no state with the others, each on its own.
SPECIFICATION ComponentsSpec
CONSTANTS
    \* PolicyComposition: every manifest of two layers, of up to two and one rules.
    None = None
    Attributes = {"data", "role"}
    Actions = {"redact"}
    Stacks <- Pairs
    Requests <- AllRequests
    \* AuditTrail
    Threads = {t1, t2}
    MaxRequests = 3
    MaxFaults = 2
    \* AuditChain
    Appenders = {a1, a2}
    Payloads = {p1, p2}
    Secrets = {k1}
    MaxRecords = 3
    Missing = Missing
    \* CircuitBreaker
    Callers = {t1, t2}
    Tools = {"x"}
    NoTool = NoTool
    Usages <- SomeUsages
    Window = 1
    MaxRate = 1
    MaxCost = 1
    MaxTokens = 2
    MaxCalls = 3
    MaxTime = 5
    \* Callbacks
    Runs = {r1, r2}
    MaxStreamed = 2
    Nobody = Nobody
    \* Assessment
    Benches <- SomeBenches
    MaxSteps = 3
    \* Serving
    Catalog <- SomeCatalog
    Regions = {"us", "eu"}
    NoLimit = NoLimit
    \* Scanner
    Texts <- SomeTexts
    Folders <- SomeFolders
    Configs <- SomeConfigs
    Invocations <- SomeInvocations
    DefaultCap = 3
    AllCategories = AllCategories
    MaxScans = 2
    MaxEdits = 1
    \* CommandLine
    MaxMeddling = 1
INVARIANTS
    TypeOK NoLayerIsOverruled PublishedLosesNothing ExceptionsAreAudited NeverBlockedFromBelow
    ComponentsTypeOK AnsweredIsOnRecord MetricsWithinTrail AcceptsExactlyPrefixes ReviewedItsOwnRun
    AllowedIsBacked AnsweredFromTheRightPlace GateSound ExitTellsVerdict RefusedLeavesOutputs
PROPERTIES LimitsHold MoreRiskNeverLoosens
CHECK_DEADLOCK FALSE
