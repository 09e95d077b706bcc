------------------------------- MODULE Gateway -------------------------------
(***************************************************************************)
(* The request pipeline of Gateway (gateway.py): chat and the preflight    *)
(* inspect_and_mutate, run by many threads over one gateway whose policy   *)
(* is replaced while they run.  The policy engine appears as the register  *)
(* that DynamicPolicy implements; the session monitor as a verdict, which  *)
(* SessionState computes; guards, provider, approval sink and audit sink   *)
(* are called and may raise.  A step is what happens between two calls     *)
(* that leave the gateway.                                                 *)
(***************************************************************************)
EXTENDS Naturals, Sequences

CONSTANTS
    Threads,     \* request threads of the process
    Callers,     \* what rules match on: tenant, app, user, context
    Revoked,     \* callers that an emergency revoke rule matches
    GuardNames,  \* names a guard specification may use
    Known,       \* names that _guard_from_spec resolves
    Documents,   \* policies the engine may come to hold
    Rollouts,    \* deployments of policy_rollout; None for no rollout
    None,        \* nothing
    Denial       \* the engine's denial when no policy can be used

Verdicts  == {"deny", "approve", "allow", "redact"}
Permitted == {"allow", "redact"}
Phases    == {"input", "output"}
Texts     == {"raw", "redacted", "rewritten"}

(* An entry of the guards section: the guard's name and whom `when`        *)
(* matches, everyone if it is empty.                                       *)
GuardSpec == [name : GuardNames, when : SUBSET Callers]
Document  == [verdict : [Callers -> Verdicts], input : Seq(GuardSpec), output : Seq(GuardSpec)]
Rollout   == [verdict : [Callers -> Verdicts], mode : {"shadow", "enforce"}]
Request   == [entry : {"chat", "preflight"}, caller : Callers]

ASSUME GatewayAssumption ==
    /\ Revoked \subseteq Callers
    /\ Known \subseteq GuardNames
    /\ Documents \subseteq Document
    /\ Rollouts \subseteq Rollout \cup {None}
    /\ None \notin Document \cup Rollout \cup Request \cup Verdicts \cup Texts
    /\ Denial \notin Document \cup {None}

VARIABLES
    active,     \* the policy in force; None while the process is down
    answer,     \* answer[t]: the policy t's request was decided by
    guards,     \* the configured guards: who runs in a phase, and for whom
    rollout,    \* the deployment's policy_rollout
    pc,         \* where t stands
    req,        \* t's request
    decision,   \* the decision that t enforces
    text,       \* the prompt of t's executable_request
    inspected,  \* history: the guards that inspected t's request, per phase
    sent,       \* history: the prompt that left the gateway for a model
    approvals,  \* history: approval requests t has submitted
    traces,     \* history: audit traces t has recorded
    outcome     \* history: how t's request ended

request == <<req, decision, text, inspected, sent, approvals, traces, outcome>>
vars == <<active, answer, guards, rollout, pc, request>>

Trace == [decision : Verdicts, routed : BOOLEAN, prompt : Texts]

(* Any policy may follow any other: the order of versions, which needs     *)
(* loads that end within the TTL, is not relied on.                        *)
Unordered(p, q) == FALSE

Engine == INSTANCE PolicyRegister WITH
    Clients <- Threads, Checked <- Documents, Precedes <- Unordered, policy <- active

Named(specs) == {specs[i].name : i \in DOMAIN specs}

(* One object serves every specification of a name, so the last one's      *)
(* phase and `when` stay on it.                                            *)
LastOf(specs, n) ==
    CHOOSE i \in DOMAIN specs :
        /\ specs[i].name = n
        /\ \A j \in DOMAIN specs : specs[j].name = n => j =< i

(* What _configure_policy_guards leaves behind.                            *)
Configured(p) ==
    LET specs == p.input \o p.output
    IN  [list |-> [input |-> Named(p.input), output |-> Named(p.output)],
         attr |-> [n \in Named(specs) |->
                     [phase |-> IF LastOf(specs, n) =< Len(p.input) THEN "input" ELSE "output",
                      when  |-> specs[LastOf(specs, n)].when]]]

ASSUME ConfiguredAssumption == \A p \in Documents : Configured(p) # None

TypeOK ==
    /\ active \in Documents \cup {None}
    /\ answer \in [Threads -> Documents \cup {None, Denial}]
    /\ guards \in {Configured(p) : p \in Documents} \cup {None}
    /\ rollout \in Rollouts
    /\ pc \in [Threads -> {"idle", "revoke", "session", "decide", "enforce", "submit",
                           "input", "generate", "output", "observe", "record", "reply"}]
    /\ req \in [Threads -> Request \cup {None}]
    /\ decision \in [Threads -> Verdicts \cup {None}]
    /\ text \in [Threads -> Texts]
    /\ inspected \in [Threads -> [Phases -> SUBSET GuardNames]]
    /\ sent \in [Threads -> Texts \cup {None}]
    /\ approvals \in [Threads -> Nat]
    /\ traces \in [Threads -> Seq(Trace)]
    /\ outcome \in [Threads -> {"none", "refused", "held", "released", "raised"}]
    /\ active # None => guards # None
    /\ \A t \in Threads : pc[t] # "idle" => active # None /\ req[t] # None
    /\ \A t \in Threads : pc[t] = "enforce" => answer[t] # None
    /\ \A t \in Threads :
          pc[t] \in {"submit", "input", "generate", "output", "observe", "record", "reply"}
              => decision[t] # None

Init ==
    /\ Engine!Init
    /\ guards = None
    /\ rollout \in Rollouts
    /\ pc = [t \in Threads |-> "idle"]
    /\ req = [t \in Threads |-> None]
    /\ decision = [t \in Threads |-> None]
    /\ text = [t \in Threads |-> "raw"]
    /\ inspected = [t \in Threads |-> [f \in Phases |-> {}]]
    /\ sent = [t \in Threads |-> None]
    /\ approvals = [t \in Threads |-> 0]
    /\ traces = [t \in Threads |-> <<>>]
    /\ outcome = [t \in Threads |-> "none"]

-----------------------------------------------------------------------------
Goto(t, step) == pc' = [pc EXCEPT ![t] = step]

Set(f, t, v) == [f EXCEPT ![t] = v]

(* Mutant of Boot: the guards section is not configured.                   *)
BootUnguarded(p) ==
    /\ active = None
    /\ Engine!Replace(p)
    /\ UNCHANGED <<guards, rollout, pc, request>>

(* The process starts: the first policy is loaded and its guards section   *)
(* configured; an unknown guard name makes the constructor raise.          *)
Boot(p) ==
    /\ active = None
    /\ Named(p.input \o p.output) \subseteq Known
    /\ Engine!Replace(p)
    /\ guards' = Configured(p)
    /\ UNCHANGED <<rollout, pc, request>>

(* DynamicPolicyEngine installs another policy; the gateway is not told.   *)
Refresh(p) ==
    /\ active # None
    /\ Engine!Replace(p)
    /\ UNCHANGED <<guards, rollout, pc, request>>

Receive(t, r) ==
    /\ pc[t] = "idle"
    /\ Engine!Ask(t)
    /\ req' = Set(req, t, r)
    /\ decision' = Set(decision, t, None)
    /\ text' = Set(text, t, "raw")
    /\ inspected' = Set(inspected, t, [f \in Phases |-> {}])
    /\ sent' = Set(sent, t, None)
    /\ approvals' = Set(approvals, t, 0)
    /\ traces' = Set(traces, t, <<>>)
    /\ outcome' = Set(outcome, t, "none")
    /\ Goto(t, IF r.entry = "chat" THEN "revoke" ELSE "decide")
    /\ UNCHANGED <<guards, rollout>>

(* The gateway answers with a denial of its own, or goes on.               *)
DenyUnless(t, ok, next) ==
    /\ decision' = IF ok THEN decision ELSE Set(decision, t, "deny")
    /\ Goto(t, IF ok THEN next ELSE "record")

Revoke(t) ==
    /\ pc[t] = "revoke"
    /\ DenyUnless(t, req[t].caller \notin Revoked, "session")
    /\ UNCHANGED <<active, answer, guards, rollout, req, text, inspected, sent, approvals, traces, outcome>>

ObserveRequest(t) ==
    /\ pc[t] = "session"
    /\ \E ok \in BOOLEAN : DenyUnless(t, ok, "decide")
    /\ UNCHANGED <<active, answer, guards, rollout, req, text, inspected, sent, approvals, traces, outcome>>

Decide(t) ==
    /\ pc[t] = "decide"
    /\ Engine!Reply(t) \/ Engine!Deny(t)
    /\ Goto(t, "enforce")
    /\ UNCHANGED <<guards, rollout, request>>

Primary(t) == IF answer[t] = Denial THEN "deny" ELSE answer[t].verdict[req[t].caller]

(* The candidate decision of a rollout in enforce mode, for the share of   *)
(* requests that selected() picks by a hash.                               *)
Candidates(t) ==
    IF rollout # None /\ req[t].entry = "chat" /\ rollout.mode = "enforce"
    THEN {rollout.verdict[req[t].caller]} ELSE {}

(* Mutant of Enforce: a shadow policy's decision is enforced.              *)
EnforceShadow(t) ==
    /\ pc[t] = "enforce"
    /\ LET d == IF rollout = None THEN Primary(t) ELSE rollout.verdict[req[t].caller]
       IN  /\ decision' = Set(decision, t, d)
           /\ text' = Set(text, t, IF d = "redact" THEN "redacted" ELSE "raw")
           /\ Goto(t, IF req[t].entry = "chat" /\ d \in Permitted THEN "input" ELSE "record")
    /\ UNCHANGED <<active, answer, guards, rollout, req, inspected, sent, approvals, traces, outcome>>

(* Primary or candidate decision, the early returns, and the redaction     *)
(* of the executable request.  The preflight only reports.                 *)
Enforce(t) ==
    /\ pc[t] = "enforce"
    /\ \E d \in {Primary(t)} \cup Candidates(t) :
        /\ decision' = Set(decision, t, d)
        /\ text' = Set(text, t, IF d = "redact" THEN "redacted" ELSE "raw")
        /\ Goto(t, IF req[t].entry = "preflight" \/ d = "deny" THEN "record"
                   ELSE IF d = "approve" THEN "submit" ELSE "input")
    /\ UNCHANGED <<active, answer, guards, rollout, req, inspected, sent, approvals, traces, outcome>>

Submit(t) ==
    /\ pc[t] = "submit"
    /\ approvals' = Set(approvals, t, approvals[t] + 1)
    /\ Goto(t, "record")
    /\ UNCHANGED <<active, answer, guards, rollout, req, decision, text, inspected, sent, traces, outcome>>

(* Mutant of Running: an object that serves both phases is skipped in the  *)
(* phase that was configured first.                                        *)
RunningInLastPhase(t, phase) ==
    {n \in guards.list[phase] :
        guards.attr[n].phase = phase /\ req[t].caller \in guards.attr[n].when}

(* _guard_matches_request over the guards of a phase: one whose attributes *)
(* are those of the other phase runs for everyone.                         *)
Running(t, phase) ==
    {n \in guards.list[phase] :
        guards.attr[n].phase = phase => req[t].caller \in guards.attr[n].when}

(* The guards of a phase inspect the request or the output, all of them    *)
(* and all the same text; the last transform replaces it.                  *)
Inspect(t, phase, verdict) ==
    /\ inspected' = [inspected EXCEPT ![t][phase] = Running(t, phase)]
    /\ verdict # "pass" => Running(t, phase) # {}

InspectInput(t) ==
    /\ pc[t] = "input"
    /\ \E verdict \in {"pass", "block", "rewrite"} :
        /\ Inspect(t, "input", verdict)
        /\ DenyUnless(t, verdict # "block", "generate")
        /\ text' = IF verdict = "rewrite" THEN Set(text, t, "rewritten") ELSE text
    /\ UNCHANGED <<active, answer, guards, rollout, req, sent, approvals, traces, outcome>>

(* Route and call the provider.                                            *)
Generate(t) ==
    /\ pc[t] = "generate"
    /\ sent' = Set(sent, t, text[t])
    /\ Goto(t, "output")
    /\ UNCHANGED <<active, answer, guards, rollout, req, decision, text, inspected, approvals, traces, outcome>>

(* Mutant of InspectOutput: a blocked output is answered at once.          *)
InspectOutputUntraced(t) ==
    /\ pc[t] = "output"
    /\ \E verdict \in {"pass", "block"} :
        /\ Inspect(t, "output", verdict)
        /\ decision' = IF verdict = "pass" THEN decision ELSE Set(decision, t, "deny")
        /\ Goto(t, IF verdict = "pass" THEN "observe" ELSE "reply")
    /\ UNCHANGED <<active, answer, guards, rollout, req, text, sent, approvals, traces, outcome>>

InspectOutput(t) ==
    /\ pc[t] = "output"
    /\ \E verdict \in {"pass", "block"} :
        /\ Inspect(t, "output", verdict)
        /\ DenyUnless(t, verdict = "pass", "observe")
    /\ UNCHANGED <<active, answer, guards, rollout, req, text, sent, approvals, traces, outcome>>

(* The session monitor counts the output, then the evaluator scores it.    *)
ObserveOutput(t) ==
    /\ pc[t] = "observe"
    /\ \E ok \in BOOLEAN : DenyUnless(t, ok, "record")
    /\ UNCHANGED <<active, answer, guards, rollout, req, text, inspected, sent, approvals, traces, outcome>>

Routed(t) == sent[t] # None /\ req[t].entry = "chat"

(* _record_audit_and_telemetry.  The preflight records the request as it   *)
(* came in.                                                                *)
Record(t) ==
    /\ pc[t] = "record"
    /\ traces' = Set(traces, t, Append(traces[t],
                    [decision |-> decision[t],
                     routed   |-> Routed(t),
                     prompt   |-> IF req[t].entry = "chat" THEN text[t] ELSE "raw"]))
    /\ Goto(t, "reply")
    /\ UNCHANGED <<active, answer, guards, rollout, req, decision, text, inspected, sent, approvals, outcome>>

(* The response, or the PermissionError of the preflight; an allowed       *)
(* preflight hands the prompt to the caller, who calls a model with it.    *)
Reply(t) ==
    /\ pc[t] = "reply"
    /\ outcome' = Set(outcome, t, IF decision[t] = "deny" THEN "refused"
                                   ELSE IF decision[t] = "approve" THEN "held" ELSE "released")
    /\ sent' = IF req[t].entry = "preflight" /\ decision[t] \in Permitted
               THEN Set(sent, t, text[t]) ELSE sent
    /\ Goto(t, "idle")
    /\ UNCHANGED <<active, answer, guards, rollout, req, decision, text, inspected, approvals, traces>>

(* Whatever a step calls may raise, at "reply" the telemetry after the     *)
(* trace was written; nothing is caught.                                   *)
Raise(t) ==
    /\ pc[t] # "idle"
    /\ outcome' = Set(outcome, t, "raised")
    /\ Goto(t, "idle")
    /\ UNCHANGED <<active, answer, guards, rollout, req, decision, text, inspected, sent, approvals, traces>>

(* The process dies; what is forgotten is forgotten by the history, too.   *)
Crash ==
    /\ active # None
    /\ Engine!Lose
    /\ guards' = None
    /\ pc' = [t \in Threads |-> "idle"]
    /\ sent' = [t \in Threads |-> None]
    /\ outcome' = [t \in Threads |-> "raised"]
    /\ UNCHANGED <<rollout, req, decision, text, inspected, approvals, traces>>

Step(t) ==
    \/ Revoke(t) \/ ObserveRequest(t) \/ Decide(t) \/ Enforce(t) \/ Submit(t)
    \/ InspectInput(t) \/ Generate(t) \/ InspectOutput(t) \/ ObserveOutput(t)
    \/ Record(t) \/ Reply(t) \/ Raise(t)

Next ==
    \/ \E p \in Documents : Boot(p) \/ Refresh(p)
    \/ \E t \in Threads : Step(t) \/ \E r \in Request : Receive(t, r)
    \/ Crash

Spec == Init /\ [][Next]_vars

-----------------------------------------------------------------------------
(* Properties.                                                             *)

(* The policy that t's request was decided by, or the candidate of an      *)
(* enforcing rollout, lets the prompt x leave.                             *)
Authorised(t, x) ==
    \E d \in {Primary(t)} \cup Candidates(t) : d \in Permitted /\ (d = "redact" => x # "raw")

(* No prompt leaves for a model unless it is authorised, under a redacting *)
(* decision never the raw one, and chat sends none for a revoked caller,   *)
(* although the policy, the candidate's share and the guards' answers      *)
(* change while the request is under way (chat, 197-297).                  *)
CallsAreAuthorised ==
    \A t \in Threads : sent[t] # None =>
        /\ req[t].entry = "chat" => req[t].caller \notin Revoked
        /\ Authorised(t, sent[t])

(* One trace, with the decision that was given, whether a model was called *)
(* and with which prompt; what is held was submitted and not executed.     *)
Accounted(t) ==
    /\ Len(traces[t]) = 1
    /\ traces[t][1].decision = decision[t]
    /\ traces[t][1].routed = Routed(t)
    /\ Routed(t) => traces[t][1].prompt = sent[t]
    /\ outcome[t] = "released" => sent[t] # None
    /\ outcome[t] = "held" =>
          sent[t] = None /\ approvals[t] = IF req[t].entry = "chat" THEN 1 ELSE 0

(* Every answer the caller gets has exactly one trace behind it, with the  *)
(* decision it was given, whether a model was called for it and, if so,    *)
(* the prompt that was sent; a request that is held was submitted once and *)
(* no model has seen it (chat and inspect_and_mutate, 174-366).            *)
AnswersAreTraced ==
    \A t \in Threads : outcome[t] \in {"refused", "held", "released"} => Accounted(t)

(* The guards that a policy declares for a caller, in a phase.             *)
Declared(p, phase, c) ==
    LET specs == IF phase = "input" THEN p.input ELSE p.output
    IN  {specs[i].name : i \in {j \in DOMAIN specs : c \in specs[j].when}}

(* The guards that the deciding policy declares for a phase have run.      *)
Satisfied(t, phase) ==
    answer[t] # Denial => Declared(answer[t], phase, req[t].caller) \subseteq inspected[t][phase]

(* What t's request owes to the policy it was decided by.                  *)
Inspected(t) ==
    Routed(t) =>
        /\ Satisfied(t, "input")
        /\ outcome[t] = "released" => Satisfied(t, "output")

Distinct(specs) ==
    \A i, j \in DOMAIN specs : specs[i].name = specs[j].name => i = j

(* No name twice in a phase, and every policy has the same guards section. *)
OneSection ==
    /\ \A p, q \in Documents : p.input = q.input /\ p.output = q.output
    /\ \A p \in Documents : Distinct(p.input) /\ Distinct(p.output)

(* If no policy names a guard twice in a phase and updates leave the       *)
(* guards section alone, every guard declared for the caller has inspected *)
(* what the model was sent and what was released, although one object      *)
(* serves both phases with one `when` (431-450).                           *)
DeclaredGuardsInspect == OneSection => \A t \in Threads : Inspected(t)

(* What the documentation promises of an update: the guards of the policy  *)
(* that a request is decided by have inspected it.                         *)
UpdatedGuardsInspect == \A t \in Threads : Inspected(t)
=============================================================================
