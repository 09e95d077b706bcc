------------------------------- MODULE Serving -------------------------------
(***************************************************************************)
(* From a permitted request to the text of a model: ModelRouter.route      *)
(* (routing.py), ProviderRegistry.for_model and the adapters of            *)
(* providers.py, up to what the sidecar answers when one of them raises.   *)
(* The remote end may answer, fail, or answer with something else.         *)
(***************************************************************************)
EXTENDS Naturals, Sequences, FiniteSets

CONSTANTS
    Catalog, \* ModelRouter.models, in their order
    Regions,
    NoLimit  \* a constraint that the request does not state

IsModel(m) ==
    /\ m.provider \in STRING /\ m.region \in Regions
    /\ m.cost \in Nat /\ m.quality \in Nat /\ m.capabilities \subseteq {"text", "tools"}

ASSUME CatalogAssumption ==
    /\ Len(Catalog) \in Nat /\ DOMAIN Catalog = 1 .. Len(Catalog)
    /\ \A i \in DOMAIN Catalog : IsModel(Catalog[i])

VARIABLES
    up,         \* the models that are marked available, by their place in the catalog
    registered, \* names in the provider registry
    configured, \* the adapters have the endpoint and the key they need
    task        \* the request under way, or the last one

servingVars == <<up, registered, configured, task>>

Places == DOMAIN Catalog

\* What default_provider_registry knows, so far as a model names it.  A
\* model may name any other provider, too.
Registrable ==
    {"local"} \cup ({Catalog[i].provider : i \in Places} \cap
        {"openai-compatible", "azure-openai", "anthropic", "bedrock", "vertex-ai", "ollama", "vllm"})

NoTask == [at |-> "idle"]
Needs  == [region : Regions \cup {NoLimit}, cost : {0, NoLimit}, capability : {"text", "tools"},
           risky : BOOLEAN, roles : {{"user"}, {"user", "system"}}]

ServingTypeOK ==
    /\ up \subseteq Places
    /\ registered \subseteq Registrable
    /\ configured \in BOOLEAN
    /\ task.at \in {"idle", "routed", "answered", "raised"}
    /\ task.at # "idle" => task.need \in Needs
    /\ task.at = "answered" => task.text \in {"text", "empty", "simulated"}

ServingInit ==
    /\ up = Places
    /\ registered \in SUBSET Registrable
    /\ configured \in BOOLEAN
    /\ task = NoTask

(* Generating reads nothing that this changes.                             *)
SwitchModel ==
    /\ task = NoTask
    /\ \E i \in Places : up' = IF i \in up THEN up \ {i} ELSE up \cup {i}
    /\ UNCHANGED <<registered, configured, task>>

-----------------------------------------------------------------------------
Fits(i, need) ==
    /\ need.capability \in Catalog[i].capabilities
    /\ need.region = NoLimit \/ Catalog[i].region = need.region
    /\ need.cost = NoLimit \/ Catalog[i].cost =< need.cost

Candidates(need) == {i \in up : Fits(i, need)}

First(places) == CHOOSE i \in places : \A j \in places : i =< j

(* sorted(...)[0]: of equals the first one.  risky is a tier of high or    *)
(* critical, or a score of 0.6 and more.                                   *)
Best(places)     == {i \in places : \A j \in places : Catalog[i].quality >= Catalog[j].quality}
Cheapest(places) == {i \in places : \A j \in places : Catalog[i].cost =< Catalog[j].cost}

(* Mutant of Select: risky requests go the cheap way, too.                 *)
SelectCheapest(need) == First(Best(Cheapest(Candidates(need))))

Select(need) ==
    IF need.risky THEN First(Best(Candidates(need))) ELSE First(Best(Cheapest(Candidates(need))))

Raised(need, error) == [at |-> "raised", need |-> need, error |-> error]

(* ModelRouter.route: without a candidate the first available model, of    *)
(* whatever region and cost; without an available one next() raises.       *)
Route ==
    /\ task = NoTask
    /\ \E need \in Needs :
        task' = IF up = {} THEN Raised(need, "StopIteration")
                ELSE [at |-> "routed", need |-> need,
                      model |-> IF Candidates(need) = {} THEN First(up) ELSE Select(need)]
    /\ UNCHANGED <<up, registered, configured>>

-----------------------------------------------------------------------------
(* An adapter: whether it raises without an endpoint, a project, a key or  *)
(* a token; whether it passes the system messages on (Anthropic and Vertex *)
(* pass them apart, Bedrock not at all); whether it makes RuntimeErrors of *)
(* HTTPError and URLError; whether a reply without any part of the shape   *)
(* it expects is an empty text to it.                                      *)
Adapter(configuration, system, wraps, lenient) ==
    [configuration |-> configuration, system |-> system, wraps |-> wraps, lenient |-> lenient]

OpenAICompatibleProvider == Adapter(TRUE, TRUE, TRUE, FALSE)
AzureOpenAIProvider      == Adapter(TRUE, TRUE, TRUE, FALSE)
AnthropicProvider        == Adapter(TRUE, TRUE, TRUE, FALSE)
BedrockProvider          == Adapter(FALSE, FALSE, FALSE, FALSE)
VertexAIProvider         == Adapter(TRUE, TRUE, TRUE, TRUE)
OllamaProvider           == Adapter(FALSE, TRUE, TRUE, FALSE)
VLLMProvider             == Adapter(FALSE, TRUE, TRUE, FALSE)

AdapterOf(provider) ==
    CASE provider = "openai-compatible" -> OpenAICompatibleProvider
      [] provider = "azure-openai" -> AzureOpenAIProvider
      [] provider = "anthropic" -> AnthropicProvider
      [] provider = "bedrock" -> BedrockProvider
      [] provider = "vertex-ai" -> VertexAIProvider
      [] provider = "ollama" -> OllamaProvider
      [] provider = "vllm" -> VLLMProvider

(* What the remote end and the network do.                                 *)
Replies == {"text", "empty", "http_error", "no_connection", "read_timeout", "not_json", "other_shape"}

(* A timeout while reading and a body that is no JSON are raised as they   *)
(* are; Bedrock's client has errors of its own.                            *)
Fails(adapter, reply) ==
    IF reply = "other_shape" THEN IF adapter.lenient THEN "none" ELSE "RuntimeError"
    ELSE IF reply \in {"text", "empty"} THEN "none"
    ELSE IF ~adapter.wraps THEN "ClientError"
    ELSE IF reply = "read_timeout" THEN "TimeoutError"
    ELSE IF reply = "not_json" THEN "JSONDecodeError"
    ELSE "RuntimeError"

(* The simulated model reads the prompt, system messages included.         *)
SimulatedProvider(roles) == [error |-> "none", text |-> "simulated", passed |-> roles]

\* Mutant of Generated: a reply of another shape is handed on as it is.
GeneratedRaw(provider, roles, reply) ==
    IF provider = "local" THEN SimulatedProvider(roles)
    ELSE [error |-> IF AdapterOf(provider).configuration /\ ~configured THEN "RuntimeError"
                    ELSE Fails(AdapterOf(provider), reply),
          text |-> reply, passed |-> roles]

Generated(provider, roles, reply) ==
    IF provider = "local" THEN SimulatedProvider(roles)
    ELSE [error  |-> IF AdapterOf(provider).configuration /\ ~configured THEN "RuntimeError"
                     ELSE Fails(AdapterOf(provider), reply),
          text   |-> IF reply = "text" THEN "text" ELSE "empty",
          passed |-> IF AdapterOf(provider).system THEN roles ELSE roles \ {"system"}]

(* for_model: providers.get(name, providers["local"]), which looks up      *)
(* "local" first, whether it is needed or not.                             *)
ProviderOf(i) == IF Catalog[i].provider \in registered THEN Catalog[i].provider ELSE "local"

Generate ==
    /\ task.at = "routed"
    /\ \E reply \in Replies :
        LET provider == ProviderOf(task.model)
            outcome  == Generated(provider, task.need.roles, reply)
        IN  task' = IF "local" \notin registered THEN Raised(task.need, "KeyError")
                    ELSE IF outcome.error # "none" THEN Raised(task.need, outcome.error)
                    ELSE [at |-> "answered", need |-> task.need, model |-> task.model, provider |-> provider,
                          text |-> outcome.text, passed |-> outcome.passed, reply |-> reply]
    /\ UNCHANGED <<up, registered, configured>>

Return ==
    /\ task.at \in {"answered", "raised"}
    /\ task' = NoTask
    /\ UNCHANGED <<up, registered, configured>>

ServingNext == SwitchModel \/ Route \/ Generate \/ Return

ServingSpec == ServingInit /\ [][ServingNext]_servingVars

-----------------------------------------------------------------------------
(* How the sidecar ends a check whose gateway raised: ValueError, KeyError *)
(* and their kind are the client's fault, others close the connection.     *)
AnswerTo(error) == IF error \in {"KeyError", "JSONDecodeError"} THEN "bad_request" ELSE "closed"

(* An answer is from where the request had to go.  Its model was available *)
(* and within the constraints whenever any model was, and then none of     *)
(* those would have been better: in quality for a risky request, else in   *)
(* cost.  Its text is the reply of that model's provider, or simulated     *)
(* where the registry lacks this provider; and the provider was given all  *)
(* of the conversation, Bedrock the system messages excepted.  A request   *)
(* that the sidecar calls bad met a reply that is no JSON, or a registry   *)
(* without a local provider.  (ModelRouter.route, ProviderRegistry.        *)
(* for_model, generate of the adapters)                                    *)
AnsweredFromTheRightPlace ==
    /\ task.at = "answered" =>
        LET fitting == {i \in up : Fits(i, task.need)}
            m == Catalog[task.model]
        IN  /\ task.model \in up
            /\ fitting # {} => task.model \in fitting
            /\ \A i \in fitting :
                IF task.need.risky THEN Catalog[i].quality =< m.quality
                ELSE Catalog[i].cost >= m.cost /\ (Catalog[i].cost = m.cost => Catalog[i].quality =< m.quality)
            /\ task.text = "simulated" <=> m.provider = "local" \/ m.provider \notin registered
            /\ task.text = "text" => task.reply = "text"
            /\ task.text = "empty" => task.reply = "empty" \/ m.provider = "vertex-ai"
            /\ m.provider # "bedrock" => task.passed = task.need.roles
    /\ task.at = "raised" /\ AnswerTo(task.error) = "bad_request" =>
        "local" \notin registered \/ task.error = "JSONDecodeError"
=============================================================================
