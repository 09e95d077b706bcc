----------------------------- MODULE MCComponents -----------------------------
(***************************************************************************)
(* TLC instances of the components that share no state with the gateway's  *)
(* pipeline or with each other: one run explores them all, each on its     *)
(* own.  The component is chosen first and the variables of the others     *)
(* stay in one initial state, so the states of the run are the sum, not    *)
(* the product, of those of the components.                                *)
(***************************************************************************)
EXTENDS MCPolicyComposition, AuditTrail, AuditChain, CircuitBreaker, Callbacks,
        Assessment, Surfaces, Serving, Scanner, CommandLine

VARIABLE component

-----------------------------------------------------------------------------
(* Values of the constants.                                                *)
SomeUsage(tool, tokens, cost) == [tool |-> tool, tokens |-> tokens, cost |-> cost]
SomeUsages == {SomeUsage("x", 1, 0), SomeUsage(NoTool, 1, 1)}

SomeBenches ==
    {DefaultJurors,
     [a |-> {"high"}, b |-> {"sensitive", "critical", "high"}],
     [a |-> {"high"}, b |-> {"terms", "high"}, c |-> {"critical", "high"}, d |-> {}]}

SomeModel(provider, region, cost, quality, capabilities) ==
    [provider |-> provider, region |-> region, cost |-> cost, quality |-> quality, capabilities |-> capabilities]
SomeCatalog ==
    <<SomeModel("local", "us", 0, 1, {"text"}), SomeModel("vertex-ai", "eu", 1, 2, {"text", "tools"}),
      SomeModel("bedrock", "us", 1, 2, {"text"})>>

SomeLine(evidence, marks) == [evidence |-> evidence, marks |-> marks]
SecretText == <<SomeLine("a", {"secret", "phi"})>>
SomeTexts ==
    {<<>>, SecretText,
     <<SomeLine("a", {"gateway", "comment"}), SomeLine("b", {"model call", "provider", "pii"})>>,
     <<SomeLine("a", {"ignore-next", "comment"}), SomeLine("b", {"model call", "tool word", "ignore-line"}),
       SomeLine("c", {"phi", "tool word", "url"})>>,
     <<SomeLine("a", {"url", "ignore-next"}), SomeLine("b", {"pipeline", "agent tool"}),
       SomeLine("c", {"secret", "pii column", "secret context"})>>,
     <<SomeLine("a", {"schema error", "no default deny"}), SomeLine("b", {"prompt risk", "secret"})>>}

PlainFile ==
    [suffix |-> ".py", listed |-> TRUE, excluded |-> FALSE, ignored |-> FALSE, changed |-> FALSE,
     large |-> FALSE, readable |-> TRUE]
SomePlaces ==
    {PlainFile, [PlainFile EXCEPT !.suffix = ".yaml"], [PlainFile EXCEPT !.changed = TRUE],
     [PlainFile EXCEPT !.ignored = TRUE], [PlainFile EXCEPT !.readable = FALSE]}
SomeFolders ==
    {<<[place |-> place, text |-> text], [place |-> PlainFile, text |-> SecretText]>> :
        place \in SomePlaces, text \in SomeTexts}

PlainConfig == [enabled |-> AllCategories, disabled |-> {}, overrides |-> <<>>, cap |-> 0]
SomeConfigs ==
    {PlainConfig, [PlainConfig EXCEPT !.cap = 5, !.disabled = {"Secrets"}],
     [PlainConfig EXCEPT !.enabled = {"Secrets", "PII", "PHI"}, !.overrides = [c \in {"Secrets"} |-> "low"]]}

PlainScan == [root |-> 0, diff |-> "off", config |-> PlainConfig, baseline |-> FALSE, write |-> FALSE]
SomeInvocations ==
    {PlainScan, [PlainScan EXCEPT !.root = 1]}
        \cup {[PlainScan EXCEPT !.write = TRUE, !.baseline = b] : b \in BOOLEAN}
        \cup {[PlainScan EXCEPT !.diff = d] : d \in {"top", "below", "fails"}}
        \cup {[PlainScan EXCEPT !.config = c, !.baseline = TRUE] : c \in SomeConfigs}

-----------------------------------------------------------------------------
Components ==
    {"composition", "trail", "chain", "breaker", "callbacks", "assessment", "surfaces", "serving",
     "scanner", "command"}

(* All the initial states of the component that is explored, one of any    *)
(* other.                                                                  *)
Of(name, values, one) == IF component = name THEN values ELSE {one}

OneStack   == CHOOSE s \in Stacks : TRUE
OneBench   == CHOOSE b \in Benches : TRUE
OneFolder  == CHOOSE f \in Folders : TRUE
Calm ==
    [policy |-> "allow", candidate |-> "none", redact |-> FALSE, sessionBlocks |-> FALSE,
     inputBlocked |-> FALSE, outputBlocked |-> FALSE, outputSensitive |-> FALSE]
OneCommand ==
    [handler |-> ClassifyRisk, force |-> FALSE, json |-> FALSE, failOn |-> "none",
     target |-> "absent", parent |-> TRUE, verdict |-> "none"]

ComponentsInit ==
    /\ Init
    /\ component \in Components
    /\ component # "composition" => layers = OneStack /\ ~strict
    /\ store \in Of("trail", {"jsonl", "sqlite"}, "jsonl")
    /\ secret \in Of("chain", Secrets \cup {Missing}, Missing)
    /\ framework \in Of("callbacks", Frameworks, "langchain")
    /\ subject \in Of("assessment", {"request", "plan"}, "plan")
    /\ bench \in Of("assessment", Benches, OneBench)
    /\ asked \in Of("assessment", 0 .. Cardinality(DOMAIN bench), 0)
    /\ veto \in Of("assessment", BOOLEAN, TRUE)
    /\ situation \in Of("surfaces", Situation, Calm)
    /\ revoked \in Of("surfaces", BOOLEAN, FALSE)
    /\ registered \in Of("serving", SUBSET Registrable, {})
    /\ configured \in Of("serving", BOOLEAN, TRUE)
    /\ folder \in Of("scanner", Folders, OneFolder)
    /\ source \in Of("command", Inputs, "good")
    /\ target \in Of("command", {"absent", "old"}, "absent")
    /\ parent \in Of("command", IF target = "old" THEN {TRUE} ELSE BOOLEAN, TRUE)
    /\ invoked \in Of("command", Invoked, OneCommand)
    /\ TrailInit /\ ChainInit /\ BreakerInit /\ CallbackInit /\ AssessmentInit
    /\ SurfacesInit /\ ServingInit /\ ScannerInit /\ CommandInit

ComponentsNext ==
    /\ UNCHANGED component
    /\ \/ /\ component = "composition" /\ Next
          /\ UNCHANGED <<trailVars, chainVars, breakerVars, callbackVars, assessmentVars, surfaceVars, servingVars, scanVars, commandVars>>
       \/ /\ component = "trail" /\ TrailNext
          /\ UNCHANGED <<vars, chainVars, breakerVars, callbackVars, assessmentVars, surfaceVars, servingVars, scanVars, commandVars>>
       \/ /\ component = "chain" /\ ChainNext
          /\ UNCHANGED <<vars, trailVars, breakerVars, callbackVars, assessmentVars, surfaceVars, servingVars, scanVars, commandVars>>
       \/ /\ component = "breaker" /\ BreakerNext
          /\ UNCHANGED <<vars, trailVars, chainVars, callbackVars, assessmentVars, surfaceVars, servingVars, scanVars, commandVars>>
       \/ /\ component = "callbacks" /\ CallbackNext
          /\ UNCHANGED <<vars, trailVars, chainVars, breakerVars, assessmentVars, surfaceVars, servingVars, scanVars, commandVars>>
       \/ /\ component = "assessment" /\ AssessmentNext
          /\ UNCHANGED <<vars, trailVars, chainVars, breakerVars, callbackVars, surfaceVars, servingVars, scanVars, commandVars>>
       \/ /\ component = "surfaces" /\ SurfacesNext
          /\ UNCHANGED <<vars, trailVars, chainVars, breakerVars, callbackVars, assessmentVars, servingVars, scanVars, commandVars>>
       \/ /\ component = "serving" /\ ServingNext
          /\ UNCHANGED <<vars, trailVars, chainVars, breakerVars, callbackVars, assessmentVars, surfaceVars, scanVars, commandVars>>
       \/ /\ component = "scanner" /\ ScannerNext
          /\ UNCHANGED <<vars, trailVars, chainVars, breakerVars, callbackVars, assessmentVars, surfaceVars, servingVars, commandVars>>
       \/ /\ component = "command" /\ CommandNext
          /\ UNCHANGED <<vars, trailVars, chainVars, breakerVars, callbackVars, assessmentVars, surfaceVars, servingVars, scanVars>>

ComponentsSpec == ComponentsInit /\ [][ComponentsNext]_<<component, vars, trailVars, chainVars, breakerVars,
    callbackVars, assessmentVars, surfaceVars, servingVars, scanVars, commandVars>>

(* Every variable keeps its type.                                          *)
ComponentsTypeOK ==
    /\ component \in Components
    /\ TrailTypeOK /\ ChainTypeOK /\ BreakerTypeOK /\ CallbackTypeOK /\ AssessmentTypeOK
    /\ SurfacesTypeOK /\ ServingTypeOK /\ ScannerTypeOK /\ CommandTypeOK
=============================================================================
