# PolicyAware: TLA+ models, checks and proofs

PolicyAware is a governance layer for LLM applications: a `Gateway` that a
request passes through before and after the model call, a policy that is
distributed to it while it runs, and a set of engines and tools around it. This
directory holds TLA+ models of it, TLC configurations that check them on small
instances, and TLAPS proofs of their main theorems for every value of the
constants. Paths below are relative to `src/policyaware/` unless they begin with
`docs/`.

`PROJECT.json` is the index: components, runs, for each definition the source
lines it models, the hazards, the findings and the theorems.

## 1. The system

### Parts and how they interact

    policy store --(load)--> DynamicPolicyEngine --+ decide
                                                   v
    client --> sidecar / framework hook --> Gateway.chat --> provider
                     |                         | | | |
                     |            session monitor| | +--> audit sink, telemetry
                     |              guards ------+ +--> approval sink
                     +--> tool policy engine, circuit breaker, MCP proxy

| component | state it keeps | operations | interaction |
| --- | --- | --- | --- |
| Policy distribution, `policy_source.py`, `policy_schema.py` | active engine and snapshot, time of the last attempt, time before which none is made, failure count, a lock; the cache file | `refresh`, `decide`, `load` of each source | called by every request; reads the store, the cache and the fallback file |
| Gateway, `gateway.py`, with `rollout.py`, `emergency.py`, `approvals.py` | configured guards, rollout; per request the decision and the executable request | `chat`, `inspect_and_mutate` | calls every other component, in the caller's thread |
| Session monitor, `session_state.py` | counters of each session, in a dict or a SQLite row | `observe_request`, `observe_output`, `observe_tool_call` | called by the gateway (twice per chat) and by the sidecar's tool check |
| Policy engine, `policy.py`, composition, `policy_composition.py` | none after construction | `decide`, `compose` | engine of the gateway; composed policies are what the store distributes |
| Tools and MCP, `tools.py`, `mcp_proxy.py`, `mcp_stdio.py` | a child process, two pump threads, three pipes | `evaluate`, `run` | between an MCP client and an MCP server |
| Audit, `audit.py`, `crypto_audit.py` | a JSONL file, a SQLite table, a hash chain | `record`, `read_traces`, `append`, `verify` | called at the end of every request |
| Circuit breaker, `circuit_breakers.py` | a deque of events per session | `record`, `snapshot` | called by hosts and the CLI |
| Sidecar, `sidecar.py`, `rejections.py` | one gateway and its engines, the revoke list read at start | HTTP handlers | one thread per connection |
| Routing and providers, `routing.py`, `providers.py` | which models are available, a registry | `route`, `generate` | called by the gateway; calls the models |
| Judges, `risk.py`, `consensus.py`, `plan.py` | none | `classify`, `decide`, `check` | pure: a tier, a verdict, a severity |
| Guardrails, data protection, ML signals | none, or a lazily made client | one call | pure from the caller's point of view |
| Telemetry and dashboards, `observability.py` | counters and a list of events under a lock | `record_trace`, `record_tool_decision` | after each request, behind the audit sink |
| Integrations, `integrations/` | the callback handler keeps the text of its run | framework hooks | call the gateway or an engine |
| Scanner, `scanner.py` | a baseline file | `scan` | offline; a pool of threads, files that others edit |
| Command line, `cli.py` | none, files in and out | one handler per command | offline; pipelines go by its exit code |
| Evaluation, simulation, drift, contracts, authoring | none | reports | offline, through the command line |

### What is hard in it

* **Concurrency.** The sidecar serves every connection in a thread of its own
  over one `Gateway`, one engine and one session store. The only locks are those
  of `DynamicPolicyEngine` (held for the gate and the install, not for the load)
  and of the telemetry list. Worker processes share the SQLite session store.
* **Time.** The refresh gate compares a clock value that was read before the
  lock with times that other threads wrote; the backoff grows with a counter
  that all threads share.
* **Failure.** The store may be unreachable or serve something broken, the cache
  file may be torn by a crash or by a second writer, anything a request calls may
  raise, and the process may die between any two steps.
* **Staleness.** The policy is replaced while requests are under way; the
  guards section is read once.

The hazards this leads to are listed in `PROJECT.json`, each at its line with the
properties that would catch it.

### What makes each component correct

* *Policy distribution*: only a policy that passed every check is ever decided
  by; it is replaced as a whole; one load at a time; never replaced by an
  earlier version; after an outage every process comes back to the current one.
* *Gateway*: a prompt leaves only if the policy that decided the request lets
  it, redacted if that is the condition, and never for a revoked caller; every
  answer has one truthful trace; the guards that the policy declares have run.
* *Session monitor*: activity is never counted that did not happen; the limits
  hold.
* *Policy engine and composition*: a deny that matches wins over everything;
  no layer can widen what a higher layer denies.
* *Tools and MCP*: no call reaches the server that the policy does not allow;
  every request of the client is answered once.
* *Audit*: what was recorded can be read; the chain verifies iff nothing was
  changed.
* *Circuit breaker*: what it lets pass is within the limits.
* *Sidecar and integrations*: the surfaces do not contradict each other or the
  decision behind them; a run is reviewed as what it was.
* *Routing*: an answer comes from the best model within the constraints, or
  visibly from another place.
* *Judges*: more risk never loosens a verdict.
* *Scanner and command line*: an exit code of 0 means what a pipeline takes it
  for; a refusal costs no file.

## 2. Modules

| module | models | role |
| --- | --- | --- |
| `PolicySource` | documents, `_snapshot`, the cache, the fallback and the schema verdict | operators used by `DynamicPolicy` |
| `PolicyRegister` | what the policy engine promises its callers | abstract specification |
| `DynamicPolicy` | `DynamicPolicyEngine` in a multi-threaded process with store, disk and crashes | component |
| `MCDynamicPolicy` | rolling time for liveness, and the liveness property | model checking |
| `DynamicPolicyProofs` | eight theorems | proofs |
| `SessionState` | `SessionStateMonitor` over both stores | component |
| `MCSessionState` | the symmetry of the instance | model checking |
| `SessionStateProofs` | four theorems | proofs |
| `Gateway` | `chat` and `inspect_and_mutate` in many threads; uses `PolicyRegister` for the engine | component, composition |
| `MCGateway` | the policies of the instances | model checking |
| `GatewayProofs` | four theorems | proofs |
| `McpProxy` | `MCPStdioPolicyProxy` with its client, its server and the pipes between them | component |
| `MCMcpProxy` | a registry and the traffic of the instances | model checking |
| `McpProxyProofs` | three theorems | proofs |
| `PolicyDecision` | `PolicyEngine.decide` and the schema's verdict on rules | operators used by `PolicyComposition` |
| `PolicyComposition` | `PolicyComposer.compose` and the command that publishes its result | component |
| `MCPolicyComposition` | the pool of rules and the manifests of the instance | model checking |
| `PolicyCompositionProofs` | five theorems | proofs |
| `AuditTrail` | both audit loggers, the telemetry and the answer, in the threads of the sidecar | component |
| `AuditChain` | `TamperEvidentAuditChain` over `IntegritySigner` | component |
| `CircuitBreaker` | `BudgetCircuitBreaker.record` in several threads | component |
| `AuditProofs` | seven theorems on these three | proofs |
| `Callbacks` | the callback handler of LangChain and LlamaIndex with interleaved runs | component |
| `Assessment` | risk tiers, the jury, the preflight of a plan | pure, over a subject that gets riskier |
| `Surfaces` | what each place at which a deployment is asked makes of one situation | pure, with the revoke file |
| `Serving` | router, registry and adapters, up to the sidecar's error answers | component |
| `Scanner` | `policyaware scan`: pool, rules, suppressions, baseline, gate | component |
| `CommandLine` | the handlers of `cli.py` as sequences of steps over an input and an output | component |
| `OfflineProofs` | four theorems on `Scanner` and `CommandLine` | proofs |
| `MCComponents` | the instances of the nine modules from `AuditTrail` on, next to the composition | model checking |
| `ComponentsProofs` | eight theorems: on `Callbacks`, `Assessment`, `Surfaces`, `Serving`, and on all nine side by side | proofs |

### DynamicPolicy

A step of a thread is one stretch of `refresh` or `decide` between two points
where another thread can be seen: reading the clock (`Arrive`), the locked gate
(`SkipRefresh`, `BeginRefresh`), the download (`Fetch`, `FetchRaises`), the two
system calls of `write_text` (`OpenCache` truncates, `WriteCache` writes), the
read of the cache or the fallback after a failure (`Recall`, `RecallRaises`),
construction of the engine with schema validation (`Build`), the locked install
(`Install`), the locked failure handling (`RefreshFails`, `BootFails`) and the
locked read of the engine (`Decide`). `pc`, `now` and `loaded` are a thread's
locals, `snapshot`, `engine`, `lastAttempt`, `nextAttempt` and `failures` the
object's attributes, `phase` whether the process is down, in the constructor or
serving. The environment publishes documents (`Publish`: valid, schema-invalid
or unreadable), makes the store unreachable (`ToggleStore`) or the disk fail
(`ToggleDisk`), lets time pass (`Tick`) and kills the process (`Crash`).

A document is a version number and a form, so that comparing digests is
comparing versions. Text that nobody published has version 0: the empty file an
interrupted write leaves (which YAML loads as an empty policy, that is one that
denies everything), the mixture that two writers leave, the fallback file.
`asked` is a history variable.

### SessionState

One session, any number of workers; `backend` says which of the two stores a
deployment has and never changes. `GetState` hands out the object itself
(memory) or a copy of the row (SQLite); `MakeState` and `PutBlank` are the two
halves of `state()` when there is none; `CountTool` and `CountAction` split
`observe_tool_call` at the dictionary access where a thread switch shows;
`AddFindings`, `PutState` and `Signal` are the rest. `CrashMemory` loses the
store and its threads, `CrashWorker` is a worker process that dies or an
sqlite3 exception. `heap[w]` is the object worker `w` made, `ref[w]` the object its
call works on: with the memory store several calls can work on one. `observed`
and `admitted` are history variables: what calls counted, and what allowed calls
counted.

### Gateway

One action per stretch between two calls that leave the gateway, in the order of
the code: `Revoke`, `ObserveRequest`, `Decide`, `Enforce` (rollout, early
returns, redaction), `Submit`, `InspectInput`, `Generate`, `InspectOutput`,
`ObserveOutput`, `Record`, `Reply`. `Raise` ends a request at any of them, `Crash` ends
the process, `Refresh` replaces the policy between any two steps. The preflight
(`inspect_and_mutate`) enters at `Decide` and goes from `Enforce` to `Record`.
`Configured` is what `_configure_policy_guards` leaves behind: since one guard object
serves every specification of its name, the last specification's phase and `when`
overwrite the earlier ones'. Findings, risk and ML signals only choose which
verdict a policy gives; a policy is here the verdict it gives each caller, and
its guards section.

### McpProxy

Three processes and a thread share bounded pipes. The main loop of `run` is
`Read` (reads a message and evaluates it), `Forward`, `Deny`, `WriteRaises` (the
pipe is broken), `EndOfInput` (then `finally` closes the server's stdin,
`StdinClosed`, and the loop waits for the server) and `Exit`, which takes the
daemon thread with it. `_pump_server_to_client` is `PumpRead`, `PumpWrite`,
`PumpEnds` and `PumpRaises`; a line that is no frame, or a client that no longer
listens, ends it with an exception that nobody sees. The client
(`CloseInput`, `StopListening`) and the server (`Take`, `Answer`, `Ask`,
`ServerEnds`, `ServerDies`) are the environment.

Pipes carry frames instead of bytes. A message is its method, whether it has an
id, and for a call the tool and what its arguments are to the engine: clean,
with personal data or a secret in a value, with personal data in a key
(redaction never looks there), or no mapping at all. A tool is a connector and an
action; its entry is an effect, or none, and the arguments for which its `when`
holds. `Outgoing` keeps that `model_dump` writes `"id": null` into a notification
that had no id, so a server may take it for a request and answer it. The stderr
pump copies bytes to stderr and is left out. Messages are numbered in the order
they were read: `sent`, `received` and `got` are history variables.

### PolicyDecision and PolicyComposition

`compose` is a loop over layers and rules, and so is the model: `TakeLayer` (the next
by precedence, with the check of an exception's ticket and expiry), `DropRule` or
`KeepRule` for each rule, `LeaveLayer`, and `Finish` (validation of the result, then the
command writes the file or fails). A rule is named by its position in the
manifest; `composed`, `dropped` and `protected` are sets of positions, since the final
sort decides only in which order a decision lists names and actions. `unaudited` and
`dropped` are the findings that count as errors in strict mode. A `when` is a function
from keys (an attribute and an operator) to the set of listed values, or `None` for
`when: null`; the overlap test compares keys and values as the code does, so a
`not_in` overlaps only with a `not_in`. Values are numbers and `None`.

### AuditTrail and AuditChain

A thread's request goes from `Accept` to `Record` (the line or the row), `Count`
(the collector's critical section) and the answer. `RecordFails` is a write that
raises, with nothing, a part, or all of the line on disk: `file` is the sequence of
pieces written, a piece is whole or not and ends with a newline or not, and
`Readable` says that every line is one JSON value, which `read_traces` needs.
`BridgeFails` is an exporter that raises behind the counters, `Restart` a new
process with an empty collector and the old file. Tool checks are counted but
leave no trace; everything else the sidecar serves does neither (`Traced`).
`counted` and `answered` are kept as sets of trace ids, of which the code's
counters are the sizes.

`append` is `Link` (last hash), `Seal` (signature over the length), `Number` (the length
again) and `Push`. A digest is the value it is of, a signature the key and the
value; `Rearranged`, `Edited` and `Rewritten` are what storage can make of a chain
by accident, or an editor without the key on purpose.

### CircuitBreaker

`Report` (clock and event), `AppendEvent`, the loop of `_compact` (`SeeStale`, `PopLeft`,
`SeeFresh`) and `Judge`. `entries` is a history of all events, `popped` how many of them
the deque has lost. `crowded` is set when two threads are about to pop at once:
they may have seen the same old event, and then the second drops one that still
counts (with three threads, `PopLeft` can meet an empty deque).

### Callbacks

A run of a pipeline is `StartRun`, `AddToken`, `BeginFinish` (up to the request),
`EndFinish` (the review, which reads the handler again) or `FailRun`; it may also
never end. The handler's fields are `prompt`, `chunks`, `tags` (metadata keys) and
`output`; a text is the sequence of the runs its pieces come from. `mixed` is the
set of runs that another one interrupted.

### Assessment, Surfaces and Serving

`Assessment` adds facts to a request or steps to a plan, one at a time, and compares
`Tier`, `JuryVerdict` and `PlanAllowed` before and after. Scores are in hundredths;
`JustBelowCritical` are the three sums that floating point puts below 0.85.

`Surfaces` has one `situation` (policy, candidate, session, guards, redaction) and
what `Ask` at a surface returns: whether it says allowed, its HTTP status and
rejection, and on what text a model or a node ran. `EditRevokeFile` and `StartAgain` are
there because the list is read at start only.

`Serving` is one request: `Route` (candidates, fallback, `StopIteration`), `Generate` (registry,
adapter, reply) and the result; an adapter is whether it needs configuration,
passes system messages on, wraps the errors of the network and takes a reply of
another shape for an empty text.

### Scanner and CommandLine

A text is a sequence of lines, a line the marks that the patterns of `scanner.py`
would find on it. `StartScan` discovers the files, `ReadFile` is a thread of the pool
that reads one (`ScanFile`: the lines until the cap is met, the rules on the text, the
rules on the policy, suppression, cut). A YAML file is opened twice, as a text (`scanner.py:549`) and,
by `_scan_yaml_policy`, once more as a policy (949): the second is the step `ReadPolicy`, until
which the file is in `begun`, and an edit may come in between. `EndScan` filters by category and baseline, orders, writes the reports and the
baseline, and makes the exit code; `Edit` changes a file at any time. The rules are
a table (`LineRules`, `CallRules`, `DataRules`, `PolicyFileRules`) of marks that are needed,
marks that excuse, and kinds of files.

In `CommandLine` a handler is a sequence of steps, and an action says what a step
does: `Load`, `LoadMapping`, `LoadOrExample`, `Look`, `There`, `LoadTraces` and `OpenStore` read the
input, and differ in what a missing or a broken one does (a missing audit trail is an
empty one, a missing database is made); `Known`, `KnownOrExample`, `FindTrace`, `CheckOption`, `Try` and `Vacant`
check; `MakeParent`, `Clear`, `Copy`, `Write` and `WriteSource` write (not at once, so that a kill or a
full disk leaves a part), `ReadBack` reads what was written; `ReturnJson`, `FailIfBad`, `Gate`,
`PlanGate` and `FailIfRelaxed` make the exit code, `VerifyOwnChain` is the check of a chain that was
just built, which cannot fail; `Serve` runs until it is stopped. `Kill` and `Meddle` (another program creates or removes
a file) come at any time. What a command judges is `bad`, `good`, or `minor`: wrong, but
below the level it is given. Handlers with the same sequence differ in what they
print, and those that only print (lists, status, about) are the empty one; the sequences are those of the code,
with its early returns, of the command with its optional outputs; without them it
ends before `mkdir`. What `policy pull` gets from its source or its cache is its input; its
pin and its cache are `DynamicPolicy`'s, and so is `up --policy-url`. `policy suggest` also leaves a report of its scan under
`.policyaware/`, which no property speaks of.

### How they compose

`DynamicPolicy` implements `PolicyRegister` (`ImplementsRegister`), with the
active document as the register. `Gateway` instantiates the same register for
its engine, with an order of versions in which nothing precedes anything
(`Unordered`): its properties hold whichever policy is installed when, so they do
not depend on the condition (loads end within the TTL) under which
`DynamicPolicy` keeps versions in order. `Gateway` does not use `SessionState`: it
takes either verdict of the monitor at both places, which covers whatever the
monitor does.

The nine modules from `AuditTrail` on share no variable with each other or with
`PolicyComposition`: each takes from the others only a value (a decision, a text, a
verdict) for which it lets any value occur. `MCComponents` therefore explores one of
them at a time: `component` is chosen first, the variables of the others stay in one
initial state, and the run has the sum, not the product, of their states.

## 3. Runs

| run | instance | shows |
| --- | --- | --- |
| `policy_refresh` | 2 threads, 3 versions, cache, TTL 2, load limit 1, fail-open, time without end | everything that depends on loads ending within the TTL, and recovery |
| `policy_overlap` | 2 threads, TTL 1, load limit 2, pin, cache, fallback, fail-closed | what still holds when loads overlap |
| `stale_install` | `refresh_seconds = 0` | violation: an older policy is installed over a newer one |
| `known_good` | cache, no overlap | violation: the cache ends up with a document that cannot be used |
| `session` | 2 threads over the in-memory store or 2 worker processes over SQLite, 2 actions, limits of 1, 5 calls, restarts and dying workers | counting and limits over one shared object or row |
| `session_lost_update` | 2 worker processes, limit 2 | violation: the limit is passed |
| `gateway` | 2 threads, 3 callers (one revoked), 2 guards, 2 policies, no, shadow and enforcing rollout | authorisation, traces and guards |
| `gateway_guards` | 1 thread, an update that adds a guard | violation: the new guard never runs |
| `mcp` | 3 messages of 9 kinds, pipes of 1 frame, 1 unasked line of the server | no ungoverned call, one answer for each message, requests are answered, the proxy ends with its client |
| `mcp_passthrough` | the same | violation: an answer of the client ends the proxy |
| `composition` | all manifests of 2 layers with up to 2 and 1 rules from a pool of 9, 9 requests | layers are not overruled, strict results are whole, exceptions are audited |
| the same, `component = "trail"` | 2 threads, 3 requests, 2 faults, both stores | answers are on record, metrics stay within the trail |
| ... `"chain"` | 2 threads, 2 payloads, with and without a secret, up to 3 records (and those under way) | the verifier accepts exactly beginnings of the chain |
| ... `"breaker"` | 2 threads, 3 calls, a window of 1, clock up to 5, a tool and no tool | limits hold over what was reported |
| ... `"callbacks"` | 2 runs of up to 2 tokens, both frameworks | a run is reviewed as what it was |
| ... `"assessment"` | all requests, plans of 3 steps, 3 juries with every quorum, with and without veto | more risk never loosens |
| ... `"surfaces"` | all situations, revoke file edited and read at will | surfaces agree with the decision and each other |
| ... `"serving"` | 3 models of 3 providers, every registry, all constraints, all replies | answers come from the right place |
| ... `"scanner"` | folders of 2 files of 6 texts and 5 places, 10 command lines, 2 scans, 1 edit | a gate that passes vouches for what was read, of a policy twice |
| ... `"command"` | all handlers, inputs, outputs and options, 1 intervention | exit codes tell the verdict, refusals leave outputs alone |
| `composition_same_layer` | the same | violation: an allow is dropped for a deny of its own layer |

**Bounds, and why they are enough.** Two threads: every property is about one
thread meeting another at one step, and the proofs lift it to any number. Three
versions: a load under way, one that overtakes it, and one to recover to. Backoff
1 and 2 with a jitter of 1 exercise growth and the cap; `FailureCap` is where the
model's failure counter stops counting (the delay is at its maximum by then).
`FloatLimit` is the exponent at which the code's float product overflows; at its
real value the model does not reach it, the proofs cover it for any value.
`MaxClock` bounds time in the runs without liveness; `RollingSpec` has no bound:
because the code only compares differences of times, it lowers every timestamp
instead of raising the clock. `MaxCalls` of the session run is five: with limits of 1
that is two calls of each worker, which pass a limit together, and one more call
to show what the store kept of them. Workers and actions are interchangeable, so
the run uses their symmetry (it checks no liveness). The gateway's requests repeat without bound.
Pipes of one frame make every writer block as soon as its reader does not read,
and three messages fill the server's input, its hands and its output while the
loop holds the next; `MaxAsks = 1` gives the server one request or stray line of
its own. A deny, an allow it blocks and a third rule in another layer are what the
composition properties relate; the pool has a rule of every effect, with no
conditions, with conditions that overlap, cover or miss each other, with
`when: null` and with an effect that the schema refuses.

For the other components: two threads interleave at every step; three requests
and two faults are a failed write, one that is joined to its stump, and a
restart between. The chain's three records are a first, a middle and a last one,
which verification treats differently. A window of 1 makes the retention 4, and
a clock of 5 passes it once; three calls are one old event and two callers that
both see it. `MaxStreamed` is two, so that order and number of tokens show. The
juries are the default one, an even one, and one with a juror who looks at
nothing; their quorums run from none to all. The catalog has a local model, two
that tie in cost and quality, and two regions. `DefaultCap` is 3, which some of
the texts exceed; two scans are one that writes the baseline and one that
reads it. One intervention of another program can fall between any two steps of
a command.

**Deadlock** is not checked in the runs whose clock or call count is bounded (the
instance stops at its bound), nor in `policy_refresh`, whose environment may be
exhausted, nor in `composition`, whose commands and plans come to an end. It is checked in both gateway runs. In the two proxy runs everything
really ends: the proxy exits and the server with it; so does a composition.

**Fairness.** `Recovery` is checked under `RollingSpec`: weak fairness of time, of
some thread starting the process when it is down, and of each thread's arrival
and steps. That is: the supervisor restarts the process, requests keep coming,
and threads are scheduled. No fairness is assumed of the environment, which may
publish, fail and crash as it likes until it settles. The code justifies the
last part: `refresh` has no wait but the lock, which is held over assignments
only, and every download has a timeout.

`EndsWithClient` and `RequestsAreAnswered` are checked under `FairSpec` of `McpProxy`: weak
fairness of the loop, of the pump and of the server's work on its input (it takes
what is there, answers what it works on, ends at the end of its input). Nothing
is assumed of the client. `EndsWithClient` needs the premise that the pump lives: a
server that fills its output behind a dead pump blocks, and the proxy waits for
it without end. `RequestsAreAnswered` is a promise as long as everybody lives,
which its premise `Healthy` says.

### What the violations say

* `stale_install` (`policy_source.py:349`): loading happens outside the lock and
  the install compares nothing. Of two loads that overlap, the one that began
  first may end last and undo a policy that already took effect.
* `known_good` (`policy_source.py:112`): the cache is written before the schema is
  checked, so a document that the engine then refuses replaces the last
  known-good one.
* `session_lost_update` (`session_state.py:180`): get, update and put are not one
  transaction; two workers that overlap lose a count, and a session makes more
  tool calls than its limit.
* `gateway_guards` (`gateway.py:64`): guards are configured from the policy that is
  active at construction only.
* `mcp_passthrough` (`mcp_proxy.py:70`): every message is validated as a request; the
  client's answer to a request of the server has no method, and the exception
  ends the proxy.
* `composition_same_layer` (`policy_composition.py:171`): a deny protects from its own
  layer on, so that a layer with a deny before an allow that overlaps it loses the
  allow, with a finding about "a higher-precedence deny"; with the two rules
  swapped the layer composes.

Other divergences that the models show, without a run of their own: in
fail-closed mode the one request that met a failed refresh is denied although a
valid policy is active, while the requests behind it are served by that policy
(docs/dynamic-policy-distribution.md:200-203); a load that fell back to the
cache counts as a success, so no backoff follows and every TTL the store is tried
again; a failing cache write discards the good download; an empty or torn cache
file loads as an empty policy; from 1024 consecutive failures on the backoff is
not re-armed (OverflowError); `when: null` passes the schema and makes `decide`
raise; `inspect_and_mutate` consults neither emergency revoke nor session monitor
(docs/enterprise-hardening.md:36); an enforcing candidate replaces also the
fail-closed denial; a shadow candidate that raises fails the enforced request; a
model call whose request raises later leaves no trace; the proxy adds
`"id": null` to notifications; one unparsable line of the server stops the pump for
good while the loop goes on; when the client closes its input the proxy waits
for the server but not for the pump, so the last answers may be lost; personal
data in the keys of arguments is not redacted.

In composition (`policy_composition.py`) a deny also blocks an unconditional allow
(229-230), although the comment at 231-234 says that "a broad app allow can coexist
with a global deny" and docs/policy-composition.md:70 only that such an allow cannot
bypass the deny; an exception's rule is kept, but the deny it was made for still wins at
runtime; its `expires_at` is never compared with a date; unknown fields of a rule
are stripped before the schema sees them, so that an allow with a misspelled
`when` becomes unconditional, and a rule that is no mapping is skipped; guards of
several layers are concatenated, which gives the sections with one name twice
that `GuardInv` (section 4) has to exclude.

In the gateway, a caller that retries a held request whose audit write raised submits
a second approval; all input guards see the same text and the last rewrite wins.

In the other components, of what the code does and the properties except:

* *Audit and telemetry*: one torn line makes every trace unreadable; threads that
  share a chain break it; without a key, the last record of a chain can be
  rewritten, and a lost end is not noticed.
* *Circuit breaker*: limits named per session cover four windows; blocked events
  count, so that a caller who keeps asking stays blocked; two threads that
  compact at once drop an event too many.
* *Callbacks*: overlapping and nested runs are reviewed with each other's text
  (nested LlamaIndex events take the outer run's prompt); an end of LangChain with
  an empty list of generations is reviewed as no text, whatever was streamed.
* *Judges*: 0.8499999999999999 misses the tier critical (`risk.py:87`); without a veto
  and with a quorum of at most half the bench, a vote that turns from
  `require_approval` to `deny` can turn the verdict into `allow`; unanimous denial without a veto is
  `require_approval`.
* *Surfaces*: revoke list, session, guards and rollout are consulted by the gateway's
  pipeline, of which Haystack, the callbacks, `/v1/route`, FastAPI and Flask see nothing;
  the LangGraph node gets the text that was not redacted; the revoke file is
  read at start only.
* *Routing*: the fallback ignores region, cost and capability; no available model
  is a `StopIteration`; a registry without "local" raises whatever is asked of it
  (`providers.py:431`), and the sidecar answers that, and a reply that is no JSON,
  with 400; Bedrock drops system messages; Vertex takes a blocked reply for an
  empty text.
* *Scanner*: the cap on findings of a file hides the later ones, also more severe
  ones, and baselined findings fill it; suppressing the first line that matches
  hides a finding about the whole file; `--diff` below the top of a repository
  compares names that never fit, finds nothing and passes, and without git
  scans everything; a redacted evidence keeps its fingerprint when the secret
  behind it is replaced; a policy that is edited between its two reads is reported
  with the lines and suppressions of the old text and the schema findings of the new one; `--write-baseline` with `--baseline` forgets what was accepted
  before; an invalid `--fail-on` is refused after the reports were written; an unreadable
  file counts as scanned.
* *Commands*: `plan check --fail-on` raises a KeyError, exit 1, when the plan has no findings
  (`cli.py:2569`), while findings below the level exit with 0; drift, fairness and airgap exit with 0 under `--json`; `verify-chain`
  verifies a chain that it has just built from the traces, and of a missing file it reports Verified and
  exits with 0 (`audit.py:77`); `contract export` of a missing folder writes an empty contract; `test-harness` and
  `dashboard` take the policy of the examples when the one of the default name is missing; `examples copy --force` may end with
  the old folder gone, or a part of it; `up` creates the session store before it refuses; between
  the look for an output and its writing there is no lock.
* *Airgap* (not modelled): `str(Path("s3://..."))` drops a slash, so that the check for
  remote audit storage in `airgap.py` cannot find one.

## 4. Proofs

All theorems hold for every value of the constants that satisfies the modules'
assumptions (`SourceAssumption`, `EngineAssumption`, `PowerAssumption`,
`SessionAssumption`, `NoneAssumption`, `GatewayAssumption`,
`ConfiguredAssumption`, `ProxyAssumption`, `DecisionAssumption`,
`CompositionAssumption`, `TrailAssumption`, `ChainAssumption`, `BreakerAssumption`,
`CallbackAssumption`, `BenchAssumption`, `CatalogAssumption`, `ScannerAssumption`,
`MeddlingAssumption`: types of the constants, sets of threads and benches that are
finite where they are counted, model values outside the sets they are added to,
and that powers of two are numbers; TLC evaluates them). So they hold for
any number of threads, requests, versions, rules, models, lines and jurors, and for
any bound of the instances.

**DynamicPolicy.** `TypeCorrect`, `ActivePolicyIsValid` and `CacheStaysPinned` hold without a condition. The
invariant of the latter, `ValidInv`, says of every thread what it has checked so
far: from `store` on its snapshot is trusted (readable with its pin, or the
fallback), at `install` also schema-valid; `CacheStaysPinned` uses it for the thread that
writes the cache. The other four assume
`LoadLimit < RefreshSeconds`: a refresh leaves before the TTL that started with
its own clock value ends. `FlightInv`: a thread that loads has its own clock value
in `lastAttempt`, and that value is still young; so whoever comes to the gate,
with an older or newer clock value, is turned away, and loads do not overlap
(`OneLoadAtATime`). `OrderInv`: since there is one load, what it holds is not
behind the engine or the cache, and nothing is ahead of the store
(`VersionsNeverGoBack`, `ActivePolicyIsFresh`). `EngineIsARegister` joins both: every step is a
step of `PolicyRegister` or a stutter. `stale_install` shows the condition is needed.
`AttemptsNeverGoBack` is an action property: it is read off the guard of the gate (only
a thread whose clock value is not behind the last attempt passes), from the type
invariant alone; what resets the attempt ends the process.

**SessionState.** `CountInv`: no object and no row holds more than was observed, and a
thread between `CountTool` and `CountAction` holds a tally that is below it; lost
updates only lower counts (`CountersNeverExceedActivity`). `SequentialInv`: as long
as no two calls overlapped, what was admitted is within the limits and held by
the store, and the call under way is at a step where its object holds it too
(`SequentialCallsAreHeld`). `SessionTypeCorrect` is the type invariant.

`OvershootIsBounded` bounds what any number of threads over the in-memory store get past a limit
together, whatever the number of workers. It sums counts over threads and objects,
which no induction here can do; so the proof keeps a ledger instead of a sum
(`Ledger`). Each unit by which a call raises a total of an object is numbered with the
object and the total it reached. A call that has counted holds its units as
reserved; when it is allowed they become granted, and a granted unit's number is
at most the limit, since the verdict compares the object's total, which is no less.
So the granted units are a subset of `Workers \X (1 .. Limit(c))`: no worker's object
admits more than the limit, which is the bound. Each worker
can put an object of its own over one that already counts, but only before it has counted
on it, which is why there is one such object for each worker and no more; before any
object is stored nothing is counted (`NothingCounted`). `OvershootInv` says that some ledger balances at every state, and
each action says how the books change (`EmptyLedger`, `LedgerStays` and the lemmas behind them).

**Gateway.** A thread's step leaves every other thread's variables alone
(`StepsAreLocal`), and what the properties say of a thread reads no shared
variable that changes (the policy that *decided*, not the active one), so each
invariant is proved for the thread that moves. `AuthInv`: what each step knows
of the decision and of the text (`OnlyAuthorisedCalls`). `TraceInv`: nothing is
recorded before `reply`, exactly one trace at it, with what was sent
(`AnswersHaveTraces`). `GuardInv`, under `OneSection` (updates leave the guards section
alone, no name twice in a phase): the configured attributes of a name are those
of its last specification, and the phase where they are not its own runs the
guard for everyone, hence for whom it was declared (`DeclaredGuardsHaveRun`).

**McpProxy.** `GovernedInv`: whatever is in the server's input or has been received is
the sanitized form of a message that `evaluate` let through, and the message the
loop is about to forward or refuse was evaluated so (`OnlyGovernedCallsReachTheServer`). For
`MessagesAreAnsweredOnce` that is not enough, since two threads write to the client: `OrderInv`
says that the numbers under way grow strictly from the pump's frame over the
server's output, the message it works on and its input up to the message in the
loop, so that no number is at two places; `AnswerInv` that a message in any of
these places has no answer yet and that only a denied one gets an error. Steps
only take numbers out of `Outstanding`, and the two steps that answer take out the
one they answer (`OutstandingShrinks`, `AnsweringSettles`). `ProxyTypeCorrect` is the type
invariant.

**PolicyComposition.** `ProgressInv`: what was seen of the manifest is the disjoint union of
what was kept and what was dropped, `protected` are the kept denies, only allows are
dropped. `OrderInv`: layers are visited by precedence, so that whatever was seen comes
before the rule under way (`SeenComesBefore`). `FilterInv`: every dropped allow has its
deny before it; an allow that overlaps a deny of a higher layer is an exception.
`OutcomeInv`: what is published has no errors. When the loop has ended everything was
seen (`FinishedHasSeenAll`), and two lemmas on `decide` (`DecideLadder`, `PermittingLadder`)
turn this into statements on decisions: `LayersAreNotOverruled`, `PublishedPoliciesAreWhole`;
`RulesAreBlockedFromAbove` and `ExceptionsHaveTickets` follow from `FilterInv` alone.

**Audit.** `TrailInv`: a thread that comes to count a check has its trace on disk, and
so has all that was counted or answered; without a fault, and on the table
always, no piece is cut short; the union of the tallies is what the events tell.
Pieces are only ever put behind the others (`PutExtends`), and the critical section
adds to both records alike (`CountingAddsBoth`): `TrailIsOnRecord`, `MetricsStayWithinTrail`. For the chain,
`ChainInv` says that while no appends overlapped every record is numbered, linked and
signed at its place (`Sound`), and what an append under way has computed still
fits the end of the list. `ChainTellsTampering` then compares a sound chain with each kind of
damage; since a digest is its value, a record that verifies at a place is the
record of that place. `ChainTypeCorrect` has no condition: also when appends overlap, a record
is numbered no higher than its place, since the list only grows between `Number` and
`Push`, and the appends under way were let in by a list that was not full.

**CircuitBreaker.** `BreakerInv`: as long as no two threads were about to pop at once, the one
that is has seen a stale event at the head, and whatever was popped is stale for every clock
value from then on (`StaleStays`). So the deque still holds every event of the windows, and what
`Judge` tests over the deque bounds what all events of the windows come to (`BreakerKeepsLimits`). The sums of cost and tokens are sizes of sets of
pairs (event, unit), which makes them comparable by inclusion. `BreakerTypeCorrect` is the type invariant.

**Callbacks.** `OwnedInv`: while a run is open and no other one interrupted it, prompt,
chunks, output and the metadata keys that its start writes are its own, and
what an end has put into the request is, too. At the end the other keys are
written (`ReviewIsOfOneRun`).

**Assessment.** There is no invariant but the type: `RiskIsMonotone` is about one step. A fact
only adds to the score (`AddFlag`), a raised grade replaces a lower weight (`Raise`);
the exceptional sums of `JustBelowCritical` are below critical whichever fact came
last. Votes only move from allow over approval to denial, so with a veto the
denials stay, and without one a majority of allows excludes a majority of
approvals; cardinalities of voters are compared as subsets of a finite bench.

**Surfaces.** `AllowedIsBacked` speaks of one answer, so it is a case for each surface (`Ask`), with
what the pipelines share (`ModelRan`, `ChatDecision`) unfolded once. `SurfacesAgree` joins it with the
type: any situation, and any sequence of edits of the revoke file and restarts.

**Serving.** `ServingInv`: a task that has a model has the right one (`RightPlace`: available, within
the constraints if any candidate is, and then the best for a risky request, else the
cheapest), from `Route` until the reply. That `CHOOSE` in `Best`, `Cheapest` and `First` finds something needs that
finite sets of numbers have extremes; `SmallestElement` gets this from the
well-foundedness of inclusion, `StepByStep` is induction told of a *set* of numbers, and
`LargestOfMany` follows from it. `WhatIsGenerated` is the case analysis over adapters and replies.

**CommandLine.** All handlers read, check, write and exit in an order that can be stated once
(`Orderly`: nothing comes behind the write but a look at what was written or made, nothing but the copy
behind the removal of a folder, nothing is read once it was judged, early returns under `--json` are those of
three commands that write nothing); `HandlersAreOrderly` establishes it for each of the
sequences. `CommandInv` says what the steps behind a running command have
established (`OnItsWay`), in terms of which kinds of step it has passed; with one lemma an
action, `ExitCodesTellVerdicts` and `RefusalsLeaveOutputs` follow for every input, option and interference.
Of `verify-chain`, which checks only what it has made itself (`verified`), no verdict is claimed.

**Scanner.** `ScannerInv` holds while threads of the pool read and others edit: a file waits, is read once, or
is done with; every one that is done with is told of in the list of findings as `ScanFile` makes it of what
was read of it (`IsTold`: all of its findings,
and as many for that file), and every finding is of a file that is done with. Both ends of the work on a file,
with and without a second read, are one lemma (`DoneHolds`). What
`ScanFile` returns is in `FileIsScanned`: findings of the text and the policy it was given only, and either as many as the
cap or all their problems that are not suppressed. Lists are made of sets by a total order on keys
(`LessIsTotal`), and `SortedLists` says that such a list has each member once. `GateIsSound` then reads the exit code of `EndScan` off the filtered list.

**Side by side.** In `MCComponents` each component is by itself: every step is one of it or leaves
it alone (`TrailStandsAlone` and eight more), so that the theorems of the modules
carry over to the specification of the run: `ComponentsAreTyped` for the types,
`ComponentsKeepTheirPromises` for everything else that the run checks of them.

**Model-checked only**: `Recovery`, `EndsWithClient` and `RequestsAreAnswered`, which are liveness under
fairness and out of the prover's reach, and the six violations. Every invariant
and every action property that a run checks is also a theorem.

## 5. Not modelled

* Regular expressions, scoring and text (`data_protection.py`, `ml/`, the patterns of
  `scanner.py`): their outcome is a nondeterministic verdict, or a mark, where a
  model needs it. The weights of `risk.py` are modelled, its patterns are not.
* HTTP, SQL and cloud SDK calls: they succeed or raise.
* `evals.py`, `simulator.py`, `drift.py`, `fairness.py`, `performance.py`, `retrieval.py`: reports computed in one pass over
  recorded or synthetic requests; they change nothing. Only the commands that run
  them are modelled.
* `policy_suggest.py`, `policy_translation.py`, `policy_pack_registry.py`, `test_harness.py`, `integrations/recommender.py`: generators
  of text from templates, without state; again only their commands.
* `contracts.py`, `trajectory.py`, `airgap.py`: they compare fields of documents and list what
  differs; a model would repeat the comparison.
* `dashboard.py`, `dashboard_server.py`, the exports of `observability.py`: HTML and metrics formats.
* `scripts/`: a generator of the user guide.
* Policies of several tenants: the code keeps one policy per process. Category
  counters of a session: no limit reads them.

## 6. What is left

1. `Gateway` over composed policies: documents as manifests, decisions by
   `PolicyDecision`, guards sections concatenated.
2. `AuditTrail` behind `Gateway`: one trace for each answer down to the file.
