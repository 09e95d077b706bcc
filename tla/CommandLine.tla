----------------------------- MODULE CommandLine -----------------------------
(***************************************************************************)
(* The commands of cli.py: each handler is the sequence of its steps, and  *)
(* the actions say what a step does, whatever the command.  One command    *)
(* runs; other programs may create or remove its files meanwhile, and it   *)
(* may be killed.  `scan` is module Scanner; the servers (up, dashboard,   *)
(* mcp proxy) are followed up to where they serve.                         *)
(*                                                                         *)
(* What a command reads is one input, what it writes one output: a file,   *)
(* or the folder of `examples copy`.                                       *)
(***************************************************************************)
EXTENDS Naturals, Sequences, FiniteSets

CONSTANTS MaxMeddling \* bound: times another program touches the files

ASSUME MeddlingAssumption == MaxMeddling \in Nat

VARIABLES
    invoked,  \* the command, its options, and the files as they were then
    left,     \* steps to take
    source,   \* the input
    target,   \* the output
    parent,   \* its directory exists
    exitCode, \* 3: still running; 4: killed
    meddled

commandVars == <<invoked, left, source, target, parent, exitCode, meddled>>

(* broken: reading it raises (it does not parse, or fails a schema that    *)
(* the command insists on); bad: what the command looks for is wrong, at   *)
(* or above the level it is given; minor: only below; good: nothing found. *)
Inputs  == {"missing", "broken", "bad", "minor", "good"}
Outputs == {"absent", "old", "partial", "new", "theirs"}
Running == 3
Killed  == 4

-----------------------------------------------------------------------------
(* The handlers.  What comes before the output:                            *)
(* "known": the input must exist; "known_or_example": or that of the       *)
(* examples is taken; "load": it is read, and what is wrong raised;        *)
(* "load_or_example": both; "mapping": it must hold a mapping; "look":     *)
(* what is missing or wrong in it makes the verdict; "there": only where   *)
(* it is does; "traces", "store": an audit trail, which may be missing;    *)
(* "trace": one of it; "option": something else that is refused when it is *)
(* not fit; "try": something else that may raise.                          *)
(* The output: "vacant": there is none, or --force; "clear", "copy": a     *)
(* folder; "mkdir", "write": a file; "write_source": the input written     *)
(* back; "read_back": the output is read; "verified": a check of what the  *)
(* handler made itself.                                                    *)
(* The end: "json": with --json the handler returns; "judge": exit 1 for a *)
(* bad verdict; "gate", "plan_gate", "relaxed": the same, under --fail-on  *)
(* and --fail-on-relaxed; "serve": runs until it is stopped.               *)
(* A command whose output is an option is its handler up to "mkdir" when   *)
(* it is not given.                                                        *)
Doctor            == <<"look">> \* it reports, and ends with 0
InitPolicy        == <<"vacant_or_1", "mkdir", "option", "write">>
Up                == <<"option", "known", "option", "mkdir", "option", "try", "load", "serve">> \* mkdir: the store of --session-state
ListGuards        == <<"known", "load">>
Recommend         == <<"known", "look", "mkdir", "write">> \* --html
RunExample        == <<"option", "known", "look", "judge">>
CopyExample       == <<"option", "known", "vacant", "clear", "copy">>
ContractCheck     == <<"load", "gate">>
ContractExport    == <<"look", "mkdir", "write">>
PullPolicy        == <<"vacant", "load", "mkdir", "write">>
SuggestPolicy     == <<"known", "vacant", "option", "look", "try", "mkdir", "write">> \* try: the report of its scan
ValidatePolicy    == <<"load", "judge">>
SummarizePolicy   == <<"known", "mapping">>
LintPolicy        == <<"known", "mapping", "gate">>
NormalizePolicy   == <<"option", "known", "mapping", "vacant", "write">> \* --out
NormalizeInPlace  == <<"option", "known", "mapping", "write_source">>
ChecklistPolicy   == <<"known", "mapping", "gate">>
DoctorPolicy      == <<"known", "mapping", "gate">>
MigratePolicy     == <<"known", "vacant", "mapping", "write">>
DiffPolicy        == <<"known", "mapping", "option", "try", "relaxed">> \* option, try: the other policy
\* Mutant of ComposePolicy: the policy is written before its findings are looked at.
ComposeFirst      == <<"known", "vacant", "mapping", "mkdir", "write", "judge">>
ComposePolicy     == <<"known", "vacant", "mapping", "judge", "mkdir", "write">>
ComposeCheck      == <<"known", "mapping", "judge">>
ShowPack          == <<"option">>
CopyPack          == <<"vacant", "mkdir", "option", "write">>
TestPolicy        == <<"load">>
ExplainPolicy     == <<"load">>
RunEval           == <<"try", "load">>
ClassifyRisk      == <<>> \* and all that only print: lists, status, about
CheckPlan         == <<"known", "load", "plan_gate">>
InspectText       == <<>> \* and redact, synthesize
ConsensusCheck    == <<"option">>
RetrievalSanitize == <<"known", "load", "mkdir", "write">> \* --out
BudgetCheck       == <<>>
AirgapCheck       == <<"there", "json", "judge">>
TranslatePolicy   == <<"known", "load", "try", "mkdir", "write">> \* --out; try: the frameworks
DriftCanary       == <<"known", "load", "json", "judge">>
FairnessCheck     == <<"known", "load", "json", "judge">>
CheckTool         == <<"load">>
CheckMcpRequest   == <<"known", "option", "try", "load">> \* the input: the policy
ProxyMcpServer    == <<"known", "load", "serve">>
AuditBundle       == <<"traces", "trace", "mkdir", "write">>
AuditView         == <<"traces", "mkdir", "write">> \* and dashboard
AuditViewSqlite   == <<"store", "mkdir", "write">> \* and dashboard-sqlite
VerifyChain       == <<"traces", "mkdir", "write", "verified">> \* --out
ReplayTrace       == <<"traces", "trace", "try">>
ExportPrometheus  == <<"traces", "mkdir", "write">>
ExportOtelJson    == <<"traces", "mkdir", "write">>
DashboardRoot     == <<"known_or_example", "serve">>
DashboardSimulate == <<"known", "load", "mkdir", "write">>
TestHarness       == <<"load_or_example", "judge">>
Chat              == <<"load">>
DemoDoctor        == <<"vacant_or_1", "mkdir", "write", "read_back">>
Simulate          == <<"load">>

Handlers ==
    {Doctor, InitPolicy, Up, ListGuards, Recommend, RunExample, CopyExample, ContractCheck, ContractExport, PullPolicy,
     SuggestPolicy, ValidatePolicy, SummarizePolicy, LintPolicy, NormalizePolicy, NormalizeInPlace, ChecklistPolicy,
     DoctorPolicy, MigratePolicy, DiffPolicy, ComposePolicy, ComposeCheck, ShowPack, CopyPack, TestPolicy,
     ExplainPolicy, RunEval, ClassifyRisk, CheckPlan, InspectText, ConsensusCheck, RetrievalSanitize, BudgetCheck,
     AirgapCheck, TranslatePolicy, DriftCanary, FairnessCheck, CheckTool, CheckMcpRequest, ProxyMcpServer,
     AuditBundle, AuditView, AuditViewSqlite, VerifyChain, ReplayTrace, ExportPrometheus, ExportOtelJson,
     DashboardRoot, DashboardSimulate, TestHarness, Chat, DemoDoctor, Simulate}

Readings == Inputs \cup {"none"} \* of what was read; "none": nothing was

CommandTypeOK ==
    /\ invoked \in [handler : Handlers, force : BOOLEAN, json : BOOLEAN, failOn : {"none", "set", "misspelt"},
                    target : {"absent", "old"}, parent : BOOLEAN, verdict : Readings]
    /\ source \in Inputs \cup {"partial"}
    /\ target \in Outputs
    /\ parent \in BOOLEAN
    /\ exitCode \in 0 .. 4
    /\ Len(left) =< Len(invoked.handler)
    /\ left = SubSeq(invoked.handler, Len(invoked.handler) - Len(left) + 1, Len(invoked.handler))
    /\ meddled \in 0 .. MaxMeddling

Invoked ==
    [handler : Handlers, force : BOOLEAN, json : BOOLEAN, failOn : {"none", "set", "misspelt"},
     target : {target}, parent : {parent}, verdict : {"none"}]

CommandInit ==
    /\ source \in Inputs
    /\ target \in {"absent", "old"}
    /\ parent \in IF target = "old" THEN {TRUE} ELSE BOOLEAN
    /\ invoked \in Invoked
    /\ left = invoked.handler
    /\ exitCode = Running
    /\ meddled = 0

At(step) == exitCode = Running /\ left # <<>> /\ Head(left) = step

Go == left' = Tail(left) /\ UNCHANGED exitCode
End(code) == exitCode' = code /\ UNCHANGED left

\* The step either lets the command go on or ends it.
GoIf(condition, code) == IF condition THEN Go ELSE End(code)

\* It ends it with one of these, or goes on when there are none.
EndAmong(codes) == IF codes = {} THEN Go ELSE \E code \in codes : End(code)

-----------------------------------------------------------------------------
(* A missing input is refused.                                             *)
Known ==
    /\ At("known")
    /\ GoIf(source # "missing", 2)
    /\ UNCHANGED <<invoked, source, target, parent, meddled>>

(* Without the policy, that of the examples is served, if it is there.     *)
KnownOrExample ==
    /\ At("known_or_example")
    /\ Go \/ (source = "missing" /\ End(2))
    /\ UNCHANGED <<invoked, source, target, parent, meddled>>

(* The input is read: what is missing, or broken, ends the command with    *)
(* one of these codes, if there are any.  What is read is what will be     *)
(* judged.                                                                 *)
Read(step, missing, broken) ==
    /\ At(step)
    /\ \/ source \in Inputs \ {"missing", "broken"} /\ Go
       \/ source = "missing" /\ EndAmong(missing)
       \/ source = "broken" /\ EndAmong(broken)
    /\ invoked' = [invoked EXCEPT !.verdict = source]
    /\ UNCHANGED <<source, target, parent, meddled>>

Load        == Read("load", {1}, {1})
LoadMapping == Read("mapping", {1}, {1, 2}) \* no mapping, or layers that cannot be composed, are refused
Look        == Read("look", {}, {})

(* test-harness takes the policy of the examples for one of the default    *)
(* name that is missing.                                                   *)
LoadOrExample ==
    /\ At("load_or_example")
    /\ \E read \in Inputs :
        /\ read = source \/ source = "missing"
        /\ invoked' = [invoked EXCEPT !.verdict = read]
        /\ IF read = "missing" THEN \E code \in {1, 2} : End(code) ELSE GoIf(read # "broken", 1)
    /\ UNCHANGED <<source, target, parent, meddled>>

(* AirGapReadinessChecker asks whether a policy is there and local, not    *)
(* what it holds.                                                          *)
There ==
    /\ At("there")
    /\ invoked' = [invoked EXCEPT !.verdict = IF source = "broken" THEN "good" ELSE source]
    /\ Go
    /\ UNCHANGED <<source, target, parent, meddled>>

(* read_traces: a missing trail is an empty one, unless it goes between    *)
(* the look and the read.                                                  *)
LoadTraces ==
    /\ At("traces")
    /\ \/ source # "broken" /\ Go
       \/ source = "broken" /\ End(1)
       \/ source = "missing" /\ meddled > 0 /\ End(1)
    /\ invoked' = [invoked EXCEPT !.verdict = source]
    /\ UNCHANGED <<source, target, parent, meddled>>

(* A database that is missing is made.                                     *)
OpenStore ==
    /\ At("store")
    /\ source' = IF source = "missing" THEN "good" ELSE source
    /\ invoked' = [invoked EXCEPT !.verdict = source']
    /\ GoIf(source # "broken", 1)
    /\ UNCHANGED <<target, parent, meddled>>

FindTrace ==
    /\ At("trace")
    /\ (invoked.verdict # "missing" /\ Go) \/ End(2)
    /\ UNCHANGED <<invoked, source, target, parent, meddled>>

CheckOption ==
    /\ At("option")
    /\ Go \/ End(2)
    /\ UNCHANGED <<invoked, source, target, parent, meddled>>

Try ==
    /\ At("try")
    /\ Go \/ End(1)
    /\ UNCHANGED <<invoked, source, target, parent, meddled>>

Vacant ==
    /\ \/ At("vacant") /\ GoIf(target = "absent" \/ invoked.force, 2)
       \/ At("vacant_or_1") /\ GoIf(target = "absent" \/ invoked.force, 1)
    /\ UNCHANGED <<invoked, source, target, parent, meddled>>

MakeParent ==
    /\ At("mkdir")
    /\ parent' = TRUE
    /\ Go
    /\ UNCHANGED <<invoked, source, target, meddled>>

(* rmtree of what is there: it takes its time, and it fails for a file.    *)
Clear ==
    /\ At("clear")
    /\ \/ target' = "absent" /\ Go
       \/ /\ target # "absent"
          /\ target' \in {target, "partial"}
          /\ \E code \in {1, Killed} : End(code)
    /\ UNCHANGED <<invoked, source, parent, meddled>>

(* copytree makes the directory and all above it, and fails when it is     *)
(* there already, or the example no longer.                                *)
Copy ==
    /\ At("copy")
    /\ IF source = "missing" \/ target # "absent" THEN End(1) /\ UNCHANGED <<target, parent>>
       ELSE /\ parent' = TRUE
            /\ \/ target' = "new" /\ Go
               \/ target' = "partial" /\ \E code \in {1, Killed} : End(code)
    /\ UNCHANGED <<invoked, source, meddled>>

(* write_text truncates, then writes: what is killed or runs out of space  *)
(* leaves a part.  Without its directory there is no file to write.        *)
Write ==
    /\ At("write")
    /\ IF parent THEN \/ (target' = "new" /\ Go)
                      \/ (target' = "partial" /\ \E code \in {1, Killed} : End(code))
       ELSE End(1) /\ UNCHANGED target
    /\ UNCHANGED <<invoked, source, parent, meddled>>

WriteSource ==
    /\ At("write_source")
    /\ \/ source' = invoked.verdict /\ Go
       \/ source' = "partial" /\ \E code \in {1, Killed} : End(code)
    /\ UNCHANGED <<invoked, target, parent, meddled>>

(* The template that was written is a good policy; what another program    *)
(* made of it need not be.                                                 *)
ReadBack ==
    /\ At("read_back")
    /\ Go \/ (target # "new" /\ \E code \in {1, 2} : End(code))
    /\ UNCHANGED <<invoked, source, target, parent, meddled>>

(* A chain that was just built of whatever was read verifies.              *)
VerifyOwnChain ==
    /\ At("verified")
    /\ Go
    /\ UNCHANGED <<invoked, source, target, parent, meddled>>

\* Mutant of ReturnJson: every command that prints JSON returns behind it.
ReturnAnyJson ==
    /\ At("json") \/ (At("judge") /\ invoked.json)
    /\ IF invoked.json THEN End(0) ELSE Go
    /\ UNCHANGED <<invoked, source, target, parent, meddled>>

ReturnJson ==
    /\ At("json")
    /\ IF invoked.json THEN End(0) ELSE Go
    /\ UNCHANGED <<invoked, source, target, parent, meddled>>

Passes == invoked.verdict \in {"good", "minor"}

FailIfBad ==
    /\ At("judge")
    /\ GoIf(Passes, 1)
    /\ UNCHANGED <<invoked, source, target, parent, meddled>>

(* _should_fail_scan and _contract_should_fail: a level that is not one is *)
(* refused here, behind everything else.                                   *)
Gate ==
    /\ At("gate")
    /\ IF invoked.failOn = "misspelt" THEN End(2)
       ELSE GoIf(invoked.failOn = "none" \/ Passes, 1)
    /\ UNCHANGED <<invoked, source, target, parent, meddled>>

(* check_plan gives _should_fail_scan the highest severity: without        *)
(* findings that is "none", which is no key of the levels, KeyError.       *)
PlanGate ==
    /\ At("plan_gate")
    /\ IF invoked.failOn = "misspelt" THEN End(2)
       ELSE GoIf(invoked.failOn = "none" \/ invoked.verdict = "minor", 1)
    /\ UNCHANGED <<invoked, source, target, parent, meddled>>

\* A flag, which is there ("none": it is not) and cannot be misspelt.
FailIfRelaxed ==
    /\ At("relaxed")
    /\ GoIf(invoked.failOn = "none" \/ Passes, 1)
    /\ UNCHANGED <<invoked, source, target, parent, meddled>>

Serve ==
    /\ At("serve")
    /\ Go \/ \E code \in {1, Killed} : End(code)
    /\ UNCHANGED <<invoked, source, target, parent, meddled>>

Done ==
    /\ exitCode = Running
    /\ left = <<>>
    /\ exitCode' = 0
    /\ UNCHANGED <<invoked, left, source, target, parent, meddled>>

Kill ==
    /\ exitCode = Running
    /\ exitCode' = Killed
    /\ UNCHANGED <<invoked, left, source, target, parent, meddled>>

(* Another program creates or removes the output, or the input.            *)
Meddle ==
    /\ exitCode = Running
    /\ meddled < MaxMeddling
    /\ meddled' = meddled + 1
    /\ \/ target = "absent" /\ parent /\ target' = "theirs" /\ UNCHANGED source
       \/ target' = "absent" /\ target \in {"old", "new", "theirs"} /\ UNCHANGED source
       \/ source' = "missing" /\ source # "missing" /\ UNCHANGED target
    /\ UNCHANGED <<invoked, left, parent, exitCode>>

CommandNext ==
    \/ Known \/ KnownOrExample \/ Load \/ LoadMapping \/ LoadOrExample \/ Look \/ There
    \/ LoadTraces \/ OpenStore \/ FindTrace \/ CheckOption \/ Try \/ Vacant
    \/ MakeParent \/ Clear \/ Copy \/ Write \/ WriteSource \/ ReadBack \/ VerifyOwnChain
    \/ ReturnJson \/ FailIfBad \/ Gate \/ PlanGate \/ FailIfRelaxed \/ Serve \/ Done \/ Kill \/ Meddle

CommandSpec == CommandInit /\ [][CommandNext]_commandVars

-----------------------------------------------------------------------------
Has(handler, steps)     == \E i \in DOMAIN handler : handler[i] \in steps
LooksForOutput(handler) == Has(handler, {"vacant", "vacant_or_1"})

(* A pipeline may go by the exit code: a command that judges ends with 0   *)
(* only when what it read is good, or wrong below the level it was given,  *)
(* or it was told not to fail; and whatever was to be written is there in  *)
(* full.  What it read need not be what it was given: test-harness may     *)
(* have taken the example's policy.  The commands drift, fairness and      *)
(* airgap say nothing of the kind under --json, and audit verify-chain     *)
(* never does: it verifies the chain it has just built itself, of a        *)
(* missing trail too.  (the ends of the handlers against their early       *)
(* returns)                                                                *)
ExitTellsVerdict ==
    exitCode = 0 =>
        /\ Has(invoked.handler, {"judge", "gate", "plan_gate", "relaxed"}) =>
            \/ Passes
            \/ invoked.failOn = "none" /\ Has(invoked.handler, {"gate", "plan_gate", "relaxed"})
            \/ invoked.json /\ invoked.handler \in {DriftCanary, FairnessCheck, AirgapCheck}
        /\ Has(invoked.handler, {"write", "copy"}) => target = "new" \/ meddled > 0

(* A command that refuses, or ends by its verdict, leaves the output as it *)
(* was; without --force a command that looks for an output overwrites none *)
(* (one that appears behind the look is lost, there is no lock); and only  *)
(* `examples copy --force` may end with the old output gone and no new one *)
(* begun.  (the order of the checks and the writes)                        *)
RefusedLeavesOutputs ==
    exitCode # Running /\ meddled = 0 =>
        /\ exitCode = 2 => target = invoked.target
        /\ exitCode = 1 /\ Head(left) \in {"judge", "gate", "plan_gate", "relaxed"} => target = invoked.target
        /\ LooksForOutput(invoked.handler) /\ ~invoked.force /\ invoked.target = "old" => target = "old"
        /\ invoked.target = "old" /\ target = "absent" => invoked.handler = CopyExample
=============================================================================
