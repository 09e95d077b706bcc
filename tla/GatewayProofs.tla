---------------------------- MODULE GatewayProofs ----------------------------
(***************************************************************************)
(* Theorems about Gateway, for every set of threads, callers and guards,   *)
(* every set of policies and every rollout.                                *)
(***************************************************************************)
EXTENDS Gateway, TLAPS

USE GatewayAssumption DEF Verdicts

(* The guard names of a section are guard names.                           *)
LEMMA NamesAreGuards ==
    ASSUME NEW specs \in Seq(GuardSpec)
    PROVE  Named(specs) \subseteq GuardNames
<1>1. ASSUME NEW i \in DOMAIN specs
      PROVE  specs[i].name \in GuardNames
    <2>1. specs[i] \in GuardSpec
        OBVIOUS
    <2> QED
        BY <2>1 DEF GuardSpec
<1> QED
    BY <1>1 DEF Named

(* The guards that run in a phase are configured guards.                   *)
LEMMA RunningAreGuards ==
    ASSUME TypeOK, guards # None, NEW t, NEW phase \in Phases
    PROVE  Running(t, phase) \subseteq GuardNames
<1>1. PICK p \in Documents : guards = Configured(p)
    BY DEF TypeOK
<1>2. p.input \in Seq(GuardSpec) /\ p.output \in Seq(GuardSpec)
    BY DEF Document
<1>3. guards.list = [input |-> Named(p.input), output |-> Named(p.output)]
    BY <1>1 DEF Configured
<1>4. guards.list[phase] \subseteq GuardNames
    BY <1>2, <1>3, NamesAreGuards DEF Phases
<1> QED
    BY <1>4 DEF Running

(* A decision is a verdict, whoever took it.                               *)
LEMMA DecisionsAreVerdicts ==
    ASSUME TypeOK, NEW t \in Threads, pc[t] = "enforce",
           NEW d \in {Primary(t)} \cup Candidates(t)
    PROVE  d \in Verdicts
<1>1. req[t] \in Request /\ answer[t] \in Documents \cup {Denial}
    BY DEF TypeOK
<1>2. Primary(t) \in Verdicts
    BY <1>1 DEF Primary, Request, Document
<1>3. Candidates(t) \subseteq Verdicts
    BY <1>1 DEF TypeOK, Candidates, Request, Rollout
<1> QED
    BY <1>2, <1>3

(* Type correctness (all of gateway.py).                                   *)
THEOREM GatewayTypeCorrect == Spec => []TypeOK
<1>1. Init => TypeOK
    BY DEF Init, Engine!Init, TypeOK, Texts, Phases
<1>2. TypeOK /\ [Next]_vars => TypeOK'
    <2> SUFFICES ASSUME TypeOK, [Next]_vars
                 PROVE  TypeOK'
        OBVIOUS
    <2> USE DEF TypeOK
    <2>1. ASSUME NEW p \in Documents, Boot(p)
          PROVE  TypeOK'
        BY <2>1, ConfiguredAssumption DEF Boot, Engine!Replace, request
    <2>2. ASSUME NEW p \in Documents, Refresh(p)
          PROVE  TypeOK'
        BY <2>2 DEF Refresh, Engine!Replace, request
    <2>3. CASE Crash
        BY <2>3 DEF Crash, Engine!Lose
    <2>4. ASSUME NEW t \in Threads, NEW r \in Request, Receive(t, r)
          PROVE  TypeOK'
        BY <2>4 DEF Receive, Engine!Ask, Goto, Set, Texts, Phases
    <2>5. ASSUME NEW t \in Threads, Step(t)
          PROVE  TypeOK'
        <3> USE DEF Goto, Set, DenyUnless
        <3>1. CASE Revoke(t)
            BY <3>1 DEF Revoke
        <3>2. CASE ObserveRequest(t)
            BY <3>2 DEF ObserveRequest
        <3>3. CASE Decide(t)
            <4>1. PICK x \in Documents \cup {Denial} : answer' = [answer EXCEPT ![t] = x]
                BY <3>3 DEF Decide, Engine!Reply, Engine!Deny
            <4>2. x # None
                OBVIOUS
            <4>3. active' = active
                BY <3>3 DEF Decide, Engine!Reply, Engine!Deny
            <4> QED
                BY <3>3, <4>1, <4>2, <4>3 DEF Decide, request
        <3>4. CASE Enforce(t)
            <4>1. PICK d \in {Primary(t)} \cup Candidates(t) :
                     /\ decision' = Set(decision, t, d)
                     /\ text' = Set(text, t, IF d = "redact" THEN "redacted" ELSE "raw")
                     /\ Goto(t, IF req[t].entry = "preflight" \/ d = "deny" THEN "record"
                                ELSE IF d = "approve" THEN "submit" ELSE "input")
                BY <3>4 DEF Enforce
            <4>2. d \in Verdicts
                BY <3>4, DecisionsAreVerdicts DEF Enforce
            <4> QED
                BY <3>4, <4>1, <4>2 DEF Enforce, Texts
        <3>5. CASE Submit(t)
            BY <3>5 DEF Submit
        <3>6. CASE InspectInput(t)
            <4>1. Running(t, "input") \subseteq GuardNames
                BY <3>6, RunningAreGuards DEF InspectInput, Phases
            <4> QED
                BY <3>6, <4>1 DEF InspectInput, Inspect, Texts, Phases
        <3>7. CASE Generate(t)
            BY <3>7 DEF Generate
        <3>8. CASE InspectOutput(t)
            <4>1. Running(t, "output") \subseteq GuardNames
                BY <3>8, RunningAreGuards DEF InspectOutput, Phases
            <4> QED
                BY <3>8, <4>1 DEF InspectOutput, Inspect, Phases
        <3>9. CASE ObserveOutput(t)
            BY <3>9 DEF ObserveOutput
        <3>10. CASE Record(t)
            BY <3>10 DEF Record, Routed, Trace, Texts
        <3>11. CASE Reply(t)
            BY <3>11 DEF Reply
        <3>12. CASE Raise(t)
            BY <3>12 DEF Raise
        <3> QED
            BY <2>5, <3>1, <3>2, <3>3, <3>4, <3>5, <3>6, <3>7, <3>8, <3>9, <3>10, <3>11, <3>12 DEF Step
    <2>6. CASE UNCHANGED vars
        BY <2>6 DEF vars, request
    <2> QED
        BY <2>1, <2>2, <2>3, <2>4, <2>5, <2>6 DEF Next
<1> QED
    BY <1>1, <1>2, PTL DEF Spec

-----------------------------------------------------------------------------
(* Threads share the policy, the guards and the rollout, and nothing else. *)
Untouched(u) ==
    /\ answer'[u] = answer[u]
    /\ pc'[u] = pc[u]
    /\ req'[u] = req[u]
    /\ decision'[u] = decision[u]
    /\ text'[u] = text[u]
    /\ inspected'[u] = inspected[u]
    /\ sent'[u] = sent[u]
    /\ approvals'[u] = approvals[u]
    /\ traces'[u] = traces[u]
    /\ outcome'[u] = outcome[u]

Shared == <<active, guards, rollout>>

(* A thread's step leaves what is shared and every other thread alone.     *)
LEMMA StepsAreLocal ==
    ASSUME TypeOK, NEW t \in Threads, NEW u \in Threads, u # t,
           Step(t) \/ \E r \in Request : Receive(t, r)
    PROVE  Untouched(u) /\ UNCHANGED Shared
<1> USE DEF Untouched, Shared, Goto, Set, DenyUnless
<1>1. CASE \E r \in Request : Receive(t, r)
    BY <1>1 DEF TypeOK, Receive, Engine!Ask
<1>2. CASE Revoke(t) \/ ObserveRequest(t) \/ ObserveOutput(t) \/ Raise(t)
    BY <1>2 DEF TypeOK, Revoke, ObserveRequest, ObserveOutput, Raise
<1>3. CASE Decide(t)
    BY <1>3 DEF TypeOK, Decide, Engine!Reply, Engine!Deny, request
<1>4. CASE Enforce(t)
    BY <1>4 DEF TypeOK, Enforce
<1>5. CASE Submit(t) \/ Generate(t) \/ Reply(t)
    BY <1>5 DEF TypeOK, Submit, Generate, Reply
<1>6. CASE InspectInput(t) \/ InspectOutput(t)
    BY <1>6 DEF TypeOK, InspectInput, InspectOutput, Inspect
<1>7. CASE Record(t)
    BY <1>7 DEF TypeOK, Record
<1> QED
    BY <1>1, <1>2, <1>3, <1>4, <1>5, <1>6, <1>7 DEF Step

(* The steps that are no thread's leave every thread alone, unless the     *)
(* process dies.                                                           *)
LEMMA PolicyStepsAreLocal ==
    ASSUME NEW p, Boot(p) \/ Refresh(p), NEW u
    PROVE  Untouched(u) /\ rollout' = rollout
BY DEF Untouched, Boot, Refresh, Engine!Replace, request

-----------------------------------------------------------------------------
(* Authorisation.  What a thread has established at each step: the revoke  *)
(* check lies behind every later step of chat, a decision that permits the *)
(* text behind the guards and the call.                                    *)
Screened(t) == req[t].entry = "chat" => req[t].caller \notin Revoked

AuthAt(t) ==
    /\ pc[t] \in {"revoke", "session", "submit", "input", "generate", "output", "observe"}
           => req[t].entry = "chat"
    /\ pc[t] \in {"session", "decide", "enforce", "submit", "input", "generate"} => Screened(t)
    /\ pc[t] \in {"revoke", "session", "decide", "enforce", "submit", "input", "generate"}
           => sent[t] = None
    /\ pc[t] \in {"input", "generate"} => Authorised(t, text[t])
    /\ pc[t] \in {"record", "reply"} /\ req[t].entry = "preflight" =>
           /\ sent[t] = None
           /\ decision[t] \in Permitted => Authorised(t, text[t])
    /\ sent[t] # None => Screened(t) /\ Authorised(t, sent[t])

AuthInv == \A t \in Threads : AuthAt(t)

(* Who is authorised depends on the request and on the policy that decided *)
(* it, not on the policy in force since.                                   *)
LEMMA AuthIsStable ==
    ASSUME NEW u, AuthAt(u), Untouched(u), rollout' = rollout
    PROVE  AuthAt(u)'
BY DEF AuthAt, Untouched, Screened, Authorised, Primary, Candidates

LEMMA AuthInductive ==
    TypeOK /\ AuthInv /\ [Next]_vars => AuthInv'
<1> SUFFICES ASSUME TypeOK, AuthInv, [Next]_vars, NEW u \in Threads
             PROVE  AuthAt(u)'
    BY DEF AuthInv
<1>a. AuthAt(u)
    BY DEF AuthInv
<1>1. ASSUME NEW p \in Documents, Boot(p) \/ Refresh(p)
      PROVE  AuthAt(u)'
    BY <1>1, <1>a, PolicyStepsAreLocal, AuthIsStable
<1>2. CASE Crash
    BY <1>2 DEF Crash, AuthAt
<1>3. ASSUME NEW t \in Threads, t # u, Step(t) \/ \E r \in Request : Receive(t, r)
      PROVE  AuthAt(u)'
    BY <1>3, <1>a, StepsAreLocal, AuthIsStable DEF Shared
<1>4. ASSUME NEW r \in Request, Receive(u, r)
      PROVE  AuthAt(u)'
    BY <1>4 DEF TypeOK, Receive, Goto, Set, AuthAt, Screened, Request
<1>5. CASE Step(u)
    <2> USE <1>a DEF TypeOK, AuthAt, Screened, Goto, Set, DenyUnless
    <2>1. CASE Revoke(u)
        BY <2>1 DEF Revoke
    <2>2. CASE ObserveRequest(u)
        BY <2>2 DEF ObserveRequest
    <2>3. CASE Decide(u)
        BY <2>3 DEF Decide, Engine!Reply, Engine!Deny, request
    <2>4. CASE Enforce(u)
        <3>1. PICK d \in {Primary(u)} \cup Candidates(u) :
                 /\ decision' = Set(decision, u, d)
                 /\ text' = Set(text, u, IF d = "redact" THEN "redacted" ELSE "raw")
                 /\ Goto(u, IF req[u].entry = "preflight" \/ d = "deny" THEN "record"
                            ELSE IF d = "approve" THEN "submit" ELSE "input")
            BY <2>4 DEF Enforce
        <3>2. d \in Verdicts
            BY <2>4, DecisionsAreVerdicts DEF Enforce
        <3>3. d \in Permitted => Authorised(u, text'[u])
            BY <3>1 DEF Authorised
        <3>4. d \in Permitted => Authorised(u, text[u])'
            BY <2>4, <3>3 DEF Enforce, Authorised, Primary, Candidates
        <3>5. req[u].entry \in {"chat", "preflight"}
            BY <2>4 DEF Enforce, Request
        <3> QED
            BY <2>4, <3>1, <3>2, <3>4, <3>5 DEF Enforce, Permitted
    <2>5. CASE Submit(u)
        BY <2>5 DEF Submit
    <2>6. CASE InspectInput(u)
        <3>1. Authorised(u, text[u]) /\ pc'[u] = "generate" => Authorised(u, text[u])'
            BY <2>6 DEF InspectInput, Authorised, Primary, Candidates
        <3> QED
            BY <2>6, <3>1 DEF InspectInput
    <2>7. CASE Generate(u)
        <3>1. Authorised(u, sent[u])'
            BY <2>7 DEF Generate, Authorised, Primary, Candidates
        <3> QED
            BY <2>7, <3>1 DEF Generate
    <2>8. CASE InspectOutput(u) \/ ObserveOutput(u) \/ Record(u) \/ Raise(u)
        <3>1. sent[u] # None => Authorised(u, sent[u])'
            BY <2>8 DEF InspectOutput, ObserveOutput, Record, Raise, Authorised, Primary, Candidates
        <3>2. Authorised(u, text[u]) => Authorised(u, text[u])'
            BY <2>8 DEF InspectOutput, ObserveOutput, Record, Raise, Authorised, Primary, Candidates
        <3> QED
            BY <2>8, <3>1, <3>2 DEF InspectOutput, ObserveOutput, Record, Raise
    <2>9. CASE Reply(u)
        <3>1. sent'[u] # None => Authorised(u, sent[u])'
            BY <2>9 DEF Reply, Authorised, Primary, Candidates
        <3> QED
            BY <2>9, <3>1 DEF Reply
    <2> QED
        BY <1>5, <2>1, <2>2, <2>3, <2>4, <2>5, <2>6, <2>7, <2>8, <2>9 DEF Step
<1>6. CASE UNCHANGED vars
    BY <1>6, <1>a, AuthIsStable DEF vars, request, Untouched
<1> QED
    BY <1>1, <1>2, <1>3, <1>4, <1>5, <1>6 DEF Next

(* No prompt leaves unauthorised or for a revoked caller (chat,            *)
(* inspect_and_mutate), whatever policies replace one another meanwhile.   *)
THEOREM OnlyAuthorisedCalls == Spec => []CallsAreAuthorised
<1>1. Init => AuthInv
    BY DEF Init, AuthInv, AuthAt
<1>2. AuthInv => CallsAreAuthorised
    BY DEF AuthInv, AuthAt, Screened, CallsAreAuthorised
<1> QED
    BY <1>1, <1>2, AuthInductive, GatewayTypeCorrect, PTL DEF Spec

-----------------------------------------------------------------------------
(* The audit trail.  No trace before the last step, then exactly the one   *)
(* that the answer corresponds to; what was sent is the text that will be  *)
(* recorded; an approval is only submitted on the way to a held answer.    *)
TraceAt(t) ==
    /\ pc[t] # "idle" => outcome[t] = "none"
    /\ pc[t] \notin {"idle", "reply"} => traces[t] = <<>>
    /\ pc[t] \in {"revoke", "session", "decide", "enforce", "submit"} => approvals[t] = 0
    /\ pc[t] \in {"revoke", "session", "decide", "enforce", "submit", "input", "generate"}
           => sent[t] = None
    /\ pc[t] = "submit" => decision[t] = "approve"
    /\ pc[t] \in {"input", "generate", "output", "observe"} => decision[t] \in Permitted
    /\ pc[t] \in {"submit", "input", "generate", "output", "observe"} => req[t].entry = "chat"
    /\ pc[t] \in {"output", "observe"} => sent[t] = text[t]
    /\ pc[t] \in {"record", "reply"} =>
           /\ sent[t] # None => req[t].entry = "chat" /\ sent[t] = text[t]
           /\ req[t].entry = "chat" /\ decision[t] \in Permitted => sent[t] # None
           /\ decision[t] = "approve" =>
                 sent[t] = None /\ approvals[t] = IF req[t].entry = "chat" THEN 1 ELSE 0
    /\ pc[t] = "reply" =>
           traces[t] = <<[decision |-> decision[t],
                          routed   |-> Routed(t),
                          prompt   |-> IF req[t].entry = "chat" THEN text[t] ELSE "raw"]>>
    /\ outcome[t] \in {"refused", "held", "released"} => Accounted(t)

TraceInv == \A t \in Threads : TraceAt(t)

LEMMA TraceIsStable ==
    ASSUME NEW u, TraceAt(u), Untouched(u)
    PROVE  TraceAt(u)'
BY DEF TraceAt, Untouched, Accounted, Routed

LEMMA TraceInductive ==
    TypeOK /\ TraceInv /\ [Next]_vars => TraceInv'
<1> SUFFICES ASSUME TypeOK, TraceInv, [Next]_vars, NEW u \in Threads
             PROVE  TraceAt(u)'
    BY DEF TraceInv
<1>a. TraceAt(u)
    BY DEF TraceInv
<1>1. ASSUME NEW p \in Documents, Boot(p) \/ Refresh(p)
      PROVE  TraceAt(u)'
    BY <1>1, <1>a, PolicyStepsAreLocal, TraceIsStable
<1>2. CASE Crash
    BY <1>2 DEF Crash, TraceAt
<1>3. ASSUME NEW t \in Threads, t # u, Step(t) \/ \E r \in Request : Receive(t, r)
      PROVE  TraceAt(u)'
    BY <1>3, <1>a, StepsAreLocal, TraceIsStable DEF Shared
<1>4. ASSUME NEW r \in Request, Receive(u, r)
      PROVE  TraceAt(u)'
    BY <1>4 DEF TypeOK, Receive, Goto, Set, TraceAt, Request
<1>5. CASE Step(u)
    <2> USE <1>a DEF TypeOK, TraceAt, Goto, Set, DenyUnless
    <2>1. CASE Revoke(u) \/ ObserveRequest(u)
        BY <2>1 DEF Revoke, ObserveRequest, Permitted
    <2>2. CASE Decide(u)
        BY <2>2 DEF Decide, Engine!Reply, Engine!Deny, request
    <2>3. CASE Enforce(u)
        <3>1. PICK d \in {Primary(u)} \cup Candidates(u) :
                 /\ decision' = Set(decision, u, d)
                 /\ Goto(u, IF req[u].entry = "preflight" \/ d = "deny" THEN "record"
                            ELSE IF d = "approve" THEN "submit" ELSE "input")
            BY <2>3 DEF Enforce
        <3>2. d \in Verdicts
            BY <2>3, DecisionsAreVerdicts DEF Enforce
        <3>3. req[u].entry \in {"chat", "preflight"}
            BY <2>3 DEF Enforce, Request
        <3> QED
            BY <2>3, <3>1, <3>2, <3>3 DEF Enforce, Permitted
    <2>4. CASE Submit(u)
        BY <2>4 DEF Submit, Permitted
    <2>5. CASE InspectInput(u)
        BY <2>5 DEF InspectInput, Permitted
    <2>6. CASE Generate(u)
        BY <2>6 DEF Generate
    <2>7. CASE InspectOutput(u) \/ ObserveOutput(u)
        <3>1. PICK ok \in BOOLEAN, next \in {"observe", "record"} : DenyUnless(u, ok, next)
            BY <2>7 DEF InspectOutput, ObserveOutput
        <3>2. /\ pc[u] \in {"output", "observe"}
              /\ UNCHANGED <<req, text, sent, approvals, traces, outcome>>
            BY <2>7 DEF InspectOutput, ObserveOutput
        <3> QED
            BY <3>1, <3>2 DEF Permitted
    <2>8. CASE Record(u)
        BY <2>8 DEF Record, Routed
    <2>9. CASE Reply(u)
        <3> USE <2>9 DEF Reply
        <3>1. traces'[u] = <<[decision |-> decision[u],
                              routed   |-> Routed(u),
                              prompt   |-> IF req[u].entry = "chat" THEN text[u] ELSE "raw"]>>
            OBVIOUS
        <3>2. req[u].entry \in {"chat", "preflight"} /\ decision[u] \in Verdicts
            BY DEF Request
        <3>3. Routed(u)' = Routed(u) /\ (Routed(u) => sent'[u] = text[u])
            BY <3>2 DEF Routed
        <3>4. outcome'[u] = "released" => sent'[u] # None
            BY <3>2 DEF Permitted, Texts
        <3>5. outcome'[u] = "held" => sent'[u] = None /\ decision[u] = "approve"
            BY <3>2 DEF Permitted
        <3>6. Accounted(u)'
            BY <3>1, <3>2, <3>3, <3>4, <3>5 DEF Accounted, Routed
        <3> QED
            BY <3>6
    <2>10. CASE Raise(u)
        BY <2>10 DEF Raise
    <2> QED
        BY <1>5, <2>1, <2>2, <2>3, <2>4, <2>5, <2>6, <2>7, <2>8, <2>9, <2>10 DEF Step
<1>6. CASE UNCHANGED vars
    BY <1>6, <1>a, TraceIsStable DEF vars, request, Untouched
<1> QED
    BY <1>1, <1>2, <1>3, <1>4, <1>5, <1>6 DEF Next

(* Whoever gets an answer finds one truthful trace behind it (chat,        *)
(* inspect_and_mutate, _record_audit_and_telemetry).                       *)
THEOREM AnswersHaveTraces == Spec => []AnswersAreTraced
<1>1. Init => TraceInv
    BY DEF Init, TraceInv, TraceAt
<1>2. TraceInv => AnswersAreTraced
    BY DEF TraceInv, TraceAt, AnswersAreTraced
<1> QED
    BY <1>1, <1>2, TraceInductive, GatewayTypeCorrect, PTL DEF Spec

-----------------------------------------------------------------------------
(* Guards.  One object serves both phases with the attributes of its last  *)
(* specification; if no phase names a guard twice, nobody is skipped that  *)
(* the section declares.                                                   *)
(* A name's last specification is the one of the output phase, if there is *)
(* one, and otherwise the one of the input phase.                          *)
LEMMA LastIsTheOutputOne ==
    ASSUME NEW a \in Seq(GuardSpec), NEW b \in Seq(GuardSpec), Distinct(b),
           NEW i \in DOMAIN b
    PROVE  LastOf(a \o b, b[i].name) = Len(a) + i
<1> DEFINE specs == a \o b
           n == b[i].name
           k == Len(a) + i
<1>1. k \in DOMAIN specs /\ specs[k] = b[i]
    OBVIOUS
<1>2. ASSUME NEW j \in DOMAIN specs, specs[j].name = n
      PROVE  j =< k
    <2>1. CASE j =< Len(a)
        BY <2>1
    <2>2. CASE j > Len(a)
        <3>1. j - Len(a) \in DOMAIN b /\ specs[j] = b[j - Len(a)]
            BY <2>2
        <3>2. j - Len(a) = i
            BY <1>2, <3>1 DEF Distinct
        <3> QED
            BY <3>2
    <2> QED
        BY <2>1, <2>2
<1>3. ASSUME NEW l \in DOMAIN specs, specs[l].name = n,
             \A j \in DOMAIN specs : specs[j].name = n => j =< l
      PROVE  l = k
    BY <1>1, <1>2, <1>3
<1> HIDE DEF specs, n, k
<1>4. LastOf(specs, n) = k
    BY <1>1, <1>2, <1>3 DEF LastOf, n
<1> QED
    BY <1>4 DEF specs, n, k

LEMMA LastIsTheInputOne ==
    ASSUME NEW a \in Seq(GuardSpec), NEW b \in Seq(GuardSpec), Distinct(a),
           NEW i \in DOMAIN a, a[i].name \notin Named(b)
    PROVE  LastOf(a \o b, a[i].name) = i
<1> DEFINE specs == a \o b
           n == a[i].name
<1>1. i \in DOMAIN specs /\ specs[i] = a[i]
    OBVIOUS
<1>2. ASSUME NEW j \in DOMAIN specs, specs[j].name = n
      PROVE  j = i
    <2>1. CASE j =< Len(a)
        BY <1>2, <2>1 DEF Distinct
    <2>2. CASE j > Len(a)
        <3>1. j - Len(a) \in DOMAIN b /\ specs[j] = b[j - Len(a)]
            BY <2>2
        <3> QED
            BY <1>2, <3>1 DEF Named
    <2> QED
        BY <2>1, <2>2
<1> HIDE DEF specs, n
<1>3. i =< i
    OBVIOUS
<1>4. LastOf(specs, n) = i
    BY <1>1, <1>2, <1>3 DEF LastOf, n
<1> QED
    BY <1>4 DEF specs, n

LEMMA DeclaredGuardsRun ==
    ASSUME TypeOK, OneSection, guards # None, NEW t \in Threads,
           answer[t] \in Documents, NEW phase \in Phases
    PROVE  Declared(answer[t], phase, req[t].caller) \subseteq Running(t, phase)
<1> DEFINE c == req[t].caller
<1>1. PICK p \in Documents : guards = Configured(p)
    BY DEF TypeOK
<1> DEFINE a == p.input
           b == p.output
<1>2. a \in Seq(GuardSpec) /\ b \in Seq(GuardSpec) /\ Distinct(a) /\ Distinct(b)
    BY DEF Document, OneSection
<1>3. answer[t].input = a /\ answer[t].output = b
    BY DEF OneSection
<1>4. /\ guards.list = [input |-> Named(a), output |-> Named(b)]
      /\ \A n \in Named(a \o b) :
            /\ guards.attr[n].phase = IF LastOf(a \o b, n) =< Len(a) THEN "input" ELSE "output"
            /\ guards.attr[n].when = (a \o b)[LastOf(a \o b, n)].when
    BY <1>1 DEF Configured
<1> HIDE DEF c, a, b
<1>5. ASSUME NEW i \in DOMAIN b, c \in b[i].when
      PROVE  /\ b[i].name \in guards.list["output"]
             /\ guards.attr[b[i].name].phase = "output"
             /\ c \in guards.attr[b[i].name].when
    <2>1. LastOf(a \o b, b[i].name) = Len(a) + i
        BY <1>2, LastIsTheOutputOne
    <2>2. /\ Len(a) + i \in DOMAIN (a \o b)
          /\ (a \o b)[Len(a) + i] = b[i]
          /\ ~(Len(a) + i =< Len(a))
        BY <1>2
    <2>3. b[i].name \in Named(a \o b) /\ b[i].name \in Named(b)
        BY <2>2 DEF Named
    <2> QED
        BY <1>4, <1>5, <2>1, <2>2, <2>3
<1>6. ASSUME NEW i \in DOMAIN a, c \in a[i].when
      PROVE  /\ a[i].name \in guards.list["input"]
             /\ guards.attr[a[i].name].phase = "input" => c \in guards.attr[a[i].name].when
    <2>1. i \in DOMAIN (a \o b) /\ (a \o b)[i] = a[i] /\ i =< Len(a)
        BY <1>2
    <2>2. a[i].name \in Named(a \o b) /\ a[i].name \in Named(a)
        BY <2>1 DEF Named
    <2>3. CASE a[i].name \in Named(b)
        <3>1. PICK j \in DOMAIN b : b[j].name = a[i].name
            BY <2>3 DEF Named
        <3>2. LastOf(a \o b, a[i].name) = Len(a) + j
            BY <1>2, <3>1, LastIsTheOutputOne
        <3>3. ~(Len(a) + j =< Len(a))
            BY <1>2
        <3> QED
            BY <1>4, <2>2, <3>2, <3>3
    <2>4. CASE a[i].name \notin Named(b)
        <3>1. LastOf(a \o b, a[i].name) = i
            BY <1>2, <2>4, LastIsTheInputOne
        <3> QED
            BY <1>4, <1>6, <2>1, <2>2, <3>1
    <2> QED
        BY <2>3, <2>4
<1>7. CASE phase = "output"
    BY <1>3, <1>5, <1>7 DEF Declared, Running, c
<1>8. CASE phase = "input"
    BY <1>3, <1>6, <1>8 DEF Declared, Running, c
<1> QED
    BY <1>7, <1>8 DEF Phases

GuardAt(t) ==
    /\ pc[t] = "generate" => Satisfied(t, "input")
    /\ pc[t] = "observe" => Satisfied(t, "output")
    /\ pc[t] \in {"output", "observe"} => Routed(t)
    /\ pc[t] \in {"input", "generate", "output", "observe"} => answer[t] # None
    /\ Routed(t) => Satisfied(t, "input")
    /\ pc[t] \in {"record", "reply"} /\ Routed(t) /\ decision[t] \in Permitted
           => Satisfied(t, "output")
    /\ outcome[t] = "released" /\ Routed(t) => Satisfied(t, "output")

GuardInv == OneSection => \A t \in Threads : GuardAt(t)

LEMMA GuardIsStable ==
    ASSUME NEW u, GuardAt(u), Untouched(u)
    PROVE  GuardAt(u)'
BY DEF GuardAt, Untouched, Satisfied, Routed, Declared

LEMMA GuardInductive ==
    TypeOK /\ AuthInv /\ TraceInv /\ GuardInv /\ [Next]_vars => GuardInv'
<1> SUFFICES ASSUME TypeOK, AuthInv, TraceInv, GuardInv, OneSection, [Next]_vars,
                    NEW u \in Threads
             PROVE  GuardAt(u)'
    BY DEF GuardInv, OneSection
<1>a. GuardAt(u) /\ AuthAt(u) /\ TraceAt(u)
    BY DEF GuardInv, AuthInv, TraceInv
<1>1. ASSUME NEW p \in Documents, Boot(p) \/ Refresh(p)
      PROVE  GuardAt(u)'
    BY <1>1, <1>a, PolicyStepsAreLocal, GuardIsStable
<1>2. CASE Crash
    BY <1>2 DEF Crash, GuardAt, Routed
<1>3. ASSUME NEW t \in Threads, t # u, Step(t) \/ \E r \in Request : Receive(t, r)
      PROVE  GuardAt(u)'
    BY <1>3, <1>a, StepsAreLocal, GuardIsStable DEF Shared
<1>4. ASSUME NEW r \in Request, Receive(u, r)
      PROVE  GuardAt(u)'
    BY <1>4 DEF TypeOK, Receive, Goto, Set, GuardAt, Routed
<1>5. CASE Step(u)
    <2> USE <1>a DEF TypeOK, GuardAt, Goto, Set, DenyUnless
    <2>1. CASE Revoke(u) \/ ObserveRequest(u)
        BY <2>1 DEF Revoke, ObserveRequest, Routed, AuthAt, TraceAt
    <2>2. CASE Decide(u)
        BY <2>2 DEF Decide, Engine!Reply, Engine!Deny, request, Routed, AuthAt, TraceAt
    <2>3. CASE Enforce(u)
        BY <2>3 DEF Enforce, Routed, AuthAt, TraceAt
    <2>4. CASE Submit(u)
        BY <2>4 DEF Submit, Routed, AuthAt, TraceAt
    <2>5. CASE InspectInput(u)
        <3>1. Satisfied(u, "input")'
            BY <2>5, DeclaredGuardsRun DEF InspectInput, Inspect, Satisfied, Phases, Declared
        <3> QED
            BY <2>5, <3>1 DEF InspectInput, Routed, AuthAt, TraceAt
    <2>6. CASE Generate(u)
        BY <2>6 DEF Generate, Routed, AuthAt, TraceAt, Satisfied, Texts
    <2>7. CASE InspectOutput(u)
        <3>1. Satisfied(u, "output")'
            BY <2>7, DeclaredGuardsRun DEF InspectOutput, Inspect, Satisfied, Phases, Declared
        <3>2. Satisfied(u, "input")'
            BY <2>7 DEF InspectOutput, Inspect, Satisfied, Phases, Declared
        <3> QED
            BY <2>7, <3>1, <3>2 DEF InspectOutput, Routed, AuthAt, TraceAt
    <2>8. CASE ObserveOutput(u) \/ Record(u) \/ Raise(u)
        BY <2>8 DEF ObserveOutput, Record, Raise, Routed, AuthAt, TraceAt, Satisfied, Declared
    <2>9. CASE Reply(u)
        BY <2>9 DEF Reply, Routed, AuthAt, TraceAt, Satisfied, Declared, Permitted
    <2> QED
        BY <1>5, <2>1, <2>2, <2>3, <2>4, <2>5, <2>6, <2>7, <2>8, <2>9 DEF Step
<1>6. CASE UNCHANGED vars
    BY <1>6, <1>a, GuardIsStable DEF vars, request, Untouched
<1> QED
    BY <1>1, <1>2, <1>3, <1>4, <1>5, <1>6 DEF Next

(* Every guard the deciding policy declares for the caller has inspected   *)
(* what was sent and what was released (_configure_policy_guards,          *)
(* _guard_matches_request), as long as updates leave the section alone.    *)
THEOREM DeclaredGuardsHaveRun == Spec => []DeclaredGuardsInspect
<1>1. Init => AuthInv /\ TraceInv /\ GuardInv
    BY DEF Init, AuthInv, AuthAt, TraceInv, TraceAt, GuardInv, GuardAt, Routed
<1>2. GuardInv => DeclaredGuardsInspect
    BY DEF GuardInv, GuardAt, DeclaredGuardsInspect, Inspected
<1> QED
    BY <1>1, <1>2, AuthInductive, TraceInductive, GuardInductive, GatewayTypeCorrect, PTL DEF Spec
=============================================================================
