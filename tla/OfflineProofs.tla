--------------------------- MODULE OfflineProofs ----------------------------
(***************************************************************************)
(* Theorems about what pipelines run.                                      *)
(*   CommandLine: for every command, with or without --json, while somebody*)
(* else may change the files any number of times.                          *)
(*   Scanner: for every set of texts, folders, configurations and command  *)
(* lines, every cap, and any number of scans and edits.                    *)
(***************************************************************************)
EXTENDS CommandLine, Scanner, FiniteSetTheorems, SequenceTheorems, TLAPS

(* The steps that judge what was read, those that read, those that write   *)
(* the output and those that come behind.                                  *)
Gates   == {"gate", "plan_gate", "relaxed"}
Judging == {"judge"} \cup Gates
Reading == {"load", "mapping", "load_or_example", "look", "there", "traces", "store"}
Writing == {"write", "copy"}
After   == {"read_back", "verified"}
Steps   ==
    Judging \cup Reading \cup Writing \cup After
        \cup {"known", "known_or_example", "trace", "option", "try", "vacant", "vacant_or_1", "clear", "mkdir",
              "write_source", "json", "serve"}

(* The order of the steps that the handlers share: nothing comes behind    *)
(* the write but a look at what was written or made, nothing but the copy  *)
(* behind the folder's removal, nothing is read again once it was judged,  *)
(* and only three commands, which write nothing, return early with --json. *)
Orderly(handler) ==
    /\ handler \in Seq(Steps)
    /\ \A i, j \in DOMAIN handler : i < j =>
        /\ handler[i] \in Writing \cup After => handler[j] \in After
        /\ handler[i] = "clear" => handler[j] = "copy"
        /\ handler[i] \in Judging => handler[j] \notin Reading
    /\ \A i \in DOMAIN handler :
        /\ handler[i] = "clear" => handler = CopyExample
        /\ handler[i] = "json" => ~Has(handler, Writing) /\ handler \in {DriftCanary, FairnessCheck, AirgapCheck}
        /\ handler[i] = "write_source" => \E j \in 1 .. i - 1 : handler[j] \in Reading
        /\ handler[i] \in After => \E j \in 1 .. i - 1 : handler[j] \in Writing

(* Every handler has that order: checked handler by handler.               *)
LEMMA HandlersAreOrderly == \A handler \in Handlers : Orderly(handler)
<1> USE DEF Has, Gates, Judging, Reading, Writing, After, Steps, CopyExample, DriftCanary, FairnessCheck, AirgapCheck
<1>1. Orderly(Doctor) /\ Orderly(InitPolicy) /\ Orderly(Up) /\ Orderly(ListGuards) /\ Orderly(Recommend) /\ Orderly(RunExample)
      /\ Orderly(CopyExample) /\ Orderly(ContractCheck) /\ Orderly(ContractExport) /\ Orderly(PullPolicy)
    BY DEF Orderly, Doctor, InitPolicy, Up, ListGuards, Recommend, RunExample, CopyExample,
       ContractCheck, ContractExport, PullPolicy
<1>2. Orderly(SuggestPolicy) /\ Orderly(ValidatePolicy) /\ Orderly(SummarizePolicy) /\ Orderly(LintPolicy)
      /\ Orderly(NormalizePolicy) /\ Orderly(NormalizeInPlace) /\ Orderly(ChecklistPolicy)
      /\ Orderly(DoctorPolicy) /\ Orderly(MigratePolicy)
    BY DEF Orderly, SuggestPolicy, ValidatePolicy, SummarizePolicy, LintPolicy,
       NormalizePolicy, NormalizeInPlace, ChecklistPolicy, DoctorPolicy, MigratePolicy
<1>3. Orderly(DiffPolicy) /\ Orderly(ComposePolicy) /\ Orderly(ComposeCheck) /\ Orderly(ShowPack)
      /\ Orderly(CopyPack) /\ Orderly(TestPolicy) /\ Orderly(ExplainPolicy) /\ Orderly(RunEval)
      /\ Orderly(ClassifyRisk)
    BY DEF Orderly, DiffPolicy, ComposePolicy, ComposeCheck, ShowPack, CopyPack, TestPolicy,
       ExplainPolicy, RunEval, ClassifyRisk
<1>4. Orderly(CheckPlan) /\ Orderly(InspectText) /\ Orderly(ConsensusCheck) /\ Orderly(RetrievalSanitize)
      /\ Orderly(BudgetCheck) /\ Orderly(AirgapCheck) /\ Orderly(TranslatePolicy) /\ Orderly(DriftCanary)
      /\ Orderly(FairnessCheck)
    BY DEF Orderly, CheckPlan, InspectText, ConsensusCheck, RetrievalSanitize, BudgetCheck,
       AirgapCheck, TranslatePolicy, DriftCanary, FairnessCheck
<1>5. Orderly(CheckTool) /\ Orderly(CheckMcpRequest) /\ Orderly(ProxyMcpServer) /\ Orderly(AuditBundle)
      /\ Orderly(AuditView) /\ Orderly(AuditViewSqlite) /\ Orderly(VerifyChain) /\ Orderly(ReplayTrace) /\ Orderly(ExportPrometheus)
      /\ Orderly(ExportOtelJson)
    BY DEF Orderly, CheckTool, CheckMcpRequest, ProxyMcpServer, AuditBundle, AuditView, AuditViewSqlite,
       VerifyChain, ReplayTrace, ExportPrometheus, ExportOtelJson
<1>6. Orderly(DashboardRoot) /\ Orderly(DashboardSimulate) /\ Orderly(TestHarness) /\ Orderly(Chat)
      /\ Orderly(DemoDoctor) /\ Orderly(Simulate)
    BY DEF Orderly, DashboardRoot, DashboardSimulate, TestHarness, Chat, DemoDoctor, Simulate
<1> QED BY <1>1, <1>2, <1>3, <1>4, <1>5, <1>6 DEF Handlers

-----------------------------------------------------------------------------
(* The steps that a running command has taken.                             *)
Taken         == Len(invoked.handler) - Len(left)
Passed(kinds) == \E i \in 1 .. Taken : invoked.handler[i] \in kinds

(* While a command runs: no input is in part, what was read is known, a    *)
(* verdict that was passed was no bad one or its gate was open, the output *)
(* is the old one up to the write and the new one behind it, and the look  *)
(* for an output found none or was told to overwrite.                      *)
OnItsWay ==
    /\ source \in Inputs
    /\ Passed(Reading) => invoked.verdict # "none"
    /\ Passed({"judge"}) => Passes
    /\ Passed(Gates) => Passes \/ invoked.failOn = "none"
    /\ meddled = 0 =>
        /\ ~Passed(Writing \cup {"clear"}) => target = invoked.target
        /\ Passed(Writing) => target = "new"
        /\ Passed({"vacant", "vacant_or_1"}) => invoked.force \/ invoked.target = "absent"

(* The inductive invariant.                                                *)
CommandInv ==
    /\ CommandTypeOK
    /\ exitCode = Running => OnItsWay
    /\ ExitTellsVerdict
    /\ RefusedLeavesOutputs

(* So has that of the command that runs, and what is left of it is its end.*)
LEMMA HandlerIsOrderly ==
    ASSUME CommandTypeOK
    PROVE  /\ Orderly(invoked.handler)
           /\ invoked.handler \in Seq(Steps)
           /\ Len(invoked.handler) \in Nat
           /\ DOMAIN invoked.handler = 1 .. Len(invoked.handler)
           /\ Len(left) \in Nat
           /\ Taken \in 0 .. Len(invoked.handler)
<1>1. invoked.handler \in Handlers
    BY DEF CommandTypeOK
<1>2. Orderly(invoked.handler)
    BY <1>1, HandlersAreOrderly
<1>3. invoked.handler \in Seq(Steps)
    BY <1>2 DEF Orderly
<1> DEFINE h == invoked.handler
<1> HIDE DEF h
<1>4. h \in Seq(Steps) /\ left = SubSeq(h, Len(h) - Len(left) + 1, Len(h)) /\ Len(left) =< Len(h)
    BY <1>3 DEF CommandTypeOK, h
<1>5. Len(left) \in Nat
    <2>1. Len(h) \in Nat /\ DOMAIN h = 1 .. Len(h)
        BY <1>4
    <2> QED BY <1>4, <2>1
<1> QED BY <1>2, <1>4, <1>5 DEF h, Taken

(* The step at hand is the one behind those that were taken; having taken  *)
(* it a command has taken one more.                                        *)
LEMMA StepAtHand ==
    ASSUME CommandTypeOK, NEW step, At(step)
    PROVE  /\ Taken + 1 \in 1 .. Len(invoked.handler)
           /\ invoked.handler[Taken + 1] = step
           /\ left # <<>> /\ Head(left) = step
           /\ Len(Tail(left)) = Len(left) - 1
           /\ Tail(left) = SubSeq(invoked.handler, Taken + 2, Len(invoked.handler))
<1> DEFINE h == invoked.handler
           n == Taken
<1>1. h \in Seq(Steps) /\ Len(h) \in Nat /\ Len(left) \in Nat /\ n \in 0 .. Len(h) /\ Len(left) = Len(h) - n
    BY HandlerIsOrderly DEF Taken
<1>2. left = SubSeq(h, n + 1, Len(h)) /\ left # <<>> /\ Head(left) = step
    BY DEF CommandTypeOK, Taken, At
<1> HIDE DEF h, n
<1>3. n + 1 \in 1 .. Len(h)
    <2>1. n # Len(h)
        BY <1>1, <1>2, SubSeqEmpty
    <2> QED BY <1>1, <2>1
<1>4. Head(left) = h[n + 1] /\ Tail(left) = SubSeq(h, n + 2, Len(h))
    <2>1. Head(left) = h[n + 1] /\ Tail(left) = SubSeq(h, (n + 1) + 1, Len(h))
        BY <1>1, <1>2, <1>3, HeadTailOfSubSeq
    <2> QED BY <1>1, <2>1
<1>5. Len(Tail(left)) = Len(left) - 1
    <2>1. left \in Seq(Steps)
        <3>1. \A i \in n + 1 .. Len(h) : h[i] \in Steps
            BY <1>1
        <3> QED BY <1>1, <1>2, <3>1, SubSeqProperties
    <2> QED BY <1>2, <2>1, HeadTailProperties
<1> QED BY <1>2, <1>3, <1>4, <1>5 DEF h, n

(* Going on, a command has passed what it had passed, and the step.        *)
LEMMA GoingOn ==
    ASSUME CommandTypeOK, NEW step, At(step), Go,
           invoked' \in [handler : {invoked.handler}, force : BOOLEAN, json : BOOLEAN,
                         failOn : {"none", "set", "misspelt"}, target : {"absent", "old"}, parent : BOOLEAN,
                         verdict : Readings]
    PROVE  /\ exitCode' = Running
           /\ Len(left') =< Len(invoked'.handler)
           /\ left' = SubSeq(invoked'.handler, Len(invoked'.handler) - Len(left') + 1, Len(invoked'.handler))
           /\ \A kinds : Passed(kinds)' <=> Passed(kinds) \/ step \in kinds
<1>1. invoked'.handler = invoked.handler
    OBVIOUS
<1>2. left' = Tail(left) /\ exitCode' = Running
    BY DEF Go, At
<1> DEFINE h == invoked.handler
           n == Taken
<1>3. /\ n + 1 \in 1 .. Len(h) /\ h[n + 1] = step
      /\ Len(Tail(left)) = Len(left) - 1
      /\ Tail(left) = SubSeq(h, n + 2, Len(h))
    BY StepAtHand
<1>4. Len(h) \in Nat /\ Len(left) \in Nat /\ n = Len(h) - Len(left)
    BY HandlerIsOrderly DEF Taken
<1> DEFINE l == Len(left')
           rest == left'
<1>5. l = Len(left) - 1 /\ rest = SubSeq(h, n + 2, Len(h))
    BY <1>2, <1>3
<1>6. Taken' = n + 1
    <2>1. Taken' = Len(h) - l
        BY <1>1 DEF Taken
    <2> HIDE DEF h, n, l
    <2> QED BY <1>4, <1>5, <2>1
<1> HIDE DEF h, n, l, rest
<1>7. ASSUME NEW kinds
      PROVE  Passed(kinds)' <=> Passed(kinds) \/ step \in kinds
    <2>1. Passed(kinds)' <=> \E i \in 1 .. n + 1 : h[i] \in kinds
        BY <1>1, <1>6 DEF Passed, h
    <2>2. Passed(kinds) <=> \E i \in 1 .. n : h[i] \in kinds
        BY DEF Passed, h, n
    <2> QED BY <1>3, <1>4, <2>1, <2>2
<1>8. l =< Len(h) /\ rest = SubSeq(h, Len(h) - l + 1, Len(h))
    <2>1. n + 2 = Len(h) - l + 1 /\ l =< Len(h)
        BY <1>3, <1>4, <1>5
    <2> QED BY <1>5, <2>1
<1> QED BY <1>1, <1>2, <1>7, <1>8 DEF h, l, rest

(* Where a running command stands: before the write nothing is written,    *)
(* and what was there and must not be overwritten is there.                *)
LEMMA WhereItStands ==
    ASSUME CommandInv, NEW step, At(step)
    PROVE  /\ step \notin Writing \cup After /\ meddled = 0 => target = invoked.target
           /\ step \in Reading => ~Passed(Judging)
           /\ step = "write_source" => invoked.verdict # "none"
           /\ step = "clear" => invoked.handler = CopyExample
           /\ step = "json" => /\ ~Has(invoked.handler, Writing)
                               /\ invoked.handler \in {DriftCanary, FairnessCheck, AirgapCheck}
           /\ step \notin After => ~Passed(Writing)
           /\ step \in After => Passed(Writing)
           /\ step \notin After /\ meddled = 0 => \/ target = invoked.target
                                                  \/ invoked.handler = CopyExample
           /\ step \in Writing \cup {"clear"} /\ LooksForOutput(invoked.handler) => Passed({"vacant", "vacant_or_1"})
<1> DEFINE h == invoked.handler
           n == Taken
<1>1. /\ Orderly(h) /\ Len(h) \in Nat /\ DOMAIN h = 1 .. Len(h)
      /\ n + 1 \in 1 .. Len(h) /\ h[n + 1] = step /\ n \in Nat
    BY StepAtHand, HandlerIsOrderly DEF CommandInv
<1>2. OnItsWay
    BY DEF CommandInv, At
<1>3. \A kinds : Passed(kinds) <=> \E i \in 1 .. n : h[i] \in kinds
    BY DEF Passed
<1> HIDE DEF h, n
<1>4. \A i \in 1 .. n : /\ h[i] \in Writing => step \in After
                        /\ h[i] = "clear" => step = "copy"
                        /\ h[i] \in Judging => step \notin Reading
    BY <1>1 DEF Orderly
<1>5. step \notin After => ~Passed(Writing)
    BY <1>3, <1>4
<1>6. step \notin Writing \cup After => ~Passed(Writing \cup {"clear"})
    BY <1>3, <1>4 DEF Writing
<1>7. step \in Reading => ~Passed(Judging)
    BY <1>3, <1>4
<1>8. /\ step = "write_source" => Passed(Reading)
      /\ step \in After => Passed(Writing)
    BY <1>1, <1>3 DEF Orderly
<1>9. /\ step = "clear" => h = CopyExample
      /\ step = "json" => ~Has(h, Writing) /\ h \in {DriftCanary, FairnessCheck, AirgapCheck}
    BY <1>1 DEF Orderly
<1>10. step \notin After /\ Passed(Writing \cup {"clear"}) => h = CopyExample
    BY <1>1, <1>3, <1>5 DEF Orderly
<1>11. step \in Writing \cup {"clear"} /\ LooksForOutput(h) => Passed({"vacant", "vacant_or_1"})
    <2> SUFFICES ASSUME step \in Writing \cup {"clear"}, LooksForOutput(h)
                 PROVE  Passed({"vacant", "vacant_or_1"})
        OBVIOUS
    <2>1. PICK i \in 1 .. Len(h) : h[i] \in {"vacant", "vacant_or_1"}
        BY <1>1 DEF LooksForOutput, Has
    <2>2. i < n + 1
        <3>1. i # n + 1
            BY <1>1, <2>1 DEF Writing
        <3>2. ~(n + 1 < i)
            BY <1>1, <2>1 DEF Orderly, After
        <3> QED BY <1>1, <2>1, <3>1, <3>2
    <2> QED BY <1>1, <1>3, <2>1, <2>2
<1> QED BY <1>2, <1>5, <1>6, <1>7, <1>8, <1>9, <1>10, <1>11 DEF OnItsWay, h

-----------------------------------------------------------------------------
(* How a step that goes on keeps the invariant: it is enough to know what  *)
(* it does to the verdict, the files and the output.                       *)
LEMMA GoKeeps ==
    ASSUME CommandInv, NEW step, At(step), Go, UNCHANGED meddled,
           source' \in Inputs, target' \in Outputs, parent' \in BOOLEAN,
           \/ UNCHANGED invoked
           \/ step \in Reading /\ \E v \in Inputs : invoked' = [invoked EXCEPT !.verdict = v],
           step \in Reading => invoked'.verdict # "none",
           step = "judge" => Passes,
           step \in Gates => Passes \/ invoked.failOn = "none",
           step \notin Writing \cup {"clear"} => UNCHANGED target,
           step \in Writing => target' = "new",
           step \in {"vacant", "vacant_or_1"} => target = "absent" \/ invoked.force
    PROVE  CommandInv'
<1> DEFINE Kept == [handler : {invoked.handler}, force : {invoked.force}, json : {invoked.json},
                    failOn : {invoked.failOn}, target : {invoked.target},
                    parent : {invoked.parent}, verdict : Readings]
<1>1. invoked' \in Kept
    BY DEF CommandInv, CommandTypeOK, Readings
<1>2. /\ invoked.handler \in Handlers /\ invoked.force \in BOOLEAN /\ invoked.json \in BOOLEAN
      /\ invoked.failOn \in {"none", "set", "misspelt"}
      /\ invoked.target \in {"absent", "old"} /\ invoked.parent \in BOOLEAN
    BY DEF CommandInv, CommandTypeOK
<1>3. /\ exitCode' = Running
      /\ Len(left') =< Len(invoked'.handler)
      /\ left' = SubSeq(invoked'.handler, Len(invoked'.handler) - Len(left') + 1, Len(invoked'.handler))
      /\ \A kinds : Passed(kinds)' <=> Passed(kinds) \/ step \in kinds
    BY <1>1, <1>2, GoingOn DEF CommandInv
<1>4. CommandTypeOK'
    BY <1>1, <1>2, <1>3 DEF CommandInv, CommandTypeOK, Running
<1>5. OnItsWay /\ meddled' = meddled
    BY DEF CommandInv, At
<1>6. /\ step \notin After => ~Passed(Writing)
      /\ step \in Reading => ~Passed(Judging)
      /\ step \notin Writing \cup After /\ meddled = 0 => target = invoked.target
    BY WhereItStands
<1>7. step \in Reading => ~Passed({"judge"}) /\ ~Passed(Gates)
    BY <1>6 DEF Passed, Judging
<1>8. OnItsWay'
    <2>1. Passed(Reading)' => invoked'.verdict # "none"
        BY <1>3, <1>5 DEF OnItsWay
    <2>2. Passed({"judge"})' => Passes'
        BY <1>3, <1>5, <1>7 DEF OnItsWay, Reading, Passes
    <2>3. Passed(Gates)' => Passes' \/ invoked'.failOn = "none"
        <3>1. step \in Reading => step \notin Gates
            BY DEF Reading, Gates
        <3> QED BY <1>1, <1>3, <1>5, <1>7, <3>1 DEF OnItsWay, Passes
    <2>4. ASSUME meddled' = 0
          PROVE  /\ ~Passed(Writing \cup {"clear"})' => target' = invoked'.target
                 /\ Passed(Writing)' => target' = "new"
                 /\ Passed({"vacant", "vacant_or_1"})' => invoked'.force \/ invoked'.target = "absent"
        <3>1. /\ invoked'.target = invoked.target /\ invoked'.force = invoked.force
              /\ "clear" \notin After
              /\ step \in {"vacant", "vacant_or_1"} => step \notin Writing \cup After
            BY <1>1 DEF After, Writing
        <3>2. ~Passed(Writing \cup {"clear"})' => target' = invoked'.target
            BY <1>3, <1>5, <2>4, <3>1 DEF OnItsWay
        <3>3. Passed(Writing)' => target' = "new"
            BY <1>3, <1>5, <1>6, <2>4, <3>1 DEF OnItsWay
        <3>4. Passed({"vacant", "vacant_or_1"})' => invoked'.force \/ invoked'.target = "absent"
            BY <1>3, <1>5, <1>6, <2>4, <3>1 DEF OnItsWay
        <3> QED BY <3>2, <3>3, <3>4
    <2>5. source' \in Inputs
        OBVIOUS
    <2> QED BY <2>1, <2>2, <2>3, <2>4, <2>5 DEF OnItsWay
<1>9. ExitTellsVerdict' /\ RefusedLeavesOutputs'
    BY <1>3 DEF ExitTellsVerdict, RefusedLeavesOutputs, Running
<1> QED BY <1>4, <1>8, <1>9 DEF CommandInv

(* How a step that ends the command keeps it: if the exit code is that of  *)
(* an error, or of a kill, the output is as it was, but for the part of it *)
(* that a failed write leaves.                                             *)
LEMMA EndKeeps ==
    ASSUME CommandInv, NEW step, At(step), NEW code \in {1, 2, Killed}, End(code), UNCHANGED meddled,
           source' \in Inputs \cup {"partial"}, parent' \in BOOLEAN,
           \/ UNCHANGED invoked
           \/ \E v \in Inputs : invoked' = [invoked EXCEPT !.verdict = v],
           \/ UNCHANGED target
           \/ step \in Writing \cup {"clear"} /\ target' = "partial",
           step \in Writing \cup {"clear"} => code # 2,
           step \in After => meddled # 0
    PROVE  CommandInv'
<1>1. invoked' \in [handler : {invoked.handler}, force : {invoked.force}, json : {invoked.json},
                    failOn : {invoked.failOn}, target : {invoked.target},
                    parent : {invoked.parent}, verdict : Readings]
    BY DEF CommandInv, CommandTypeOK, Readings
<1>2. left' = left /\ exitCode' = code /\ left # <<>> /\ Head(left) = step
    BY DEF End, At
<1>3. CommandTypeOK'
    BY <1>1, <1>2 DEF CommandInv, CommandTypeOK, Running, Killed, Outputs
<1>4. /\ step \notin Writing \cup After /\ meddled = 0 => target = invoked.target
      /\ step \notin After /\ meddled = 0 => target = invoked.target \/ invoked.handler = CopyExample
      /\ step \in Writing \cup {"clear"} /\ LooksForOutput(invoked.handler) => Passed({"vacant", "vacant_or_1"})
    BY WhereItStands
<1>5. ExitTellsVerdict'
    BY <1>2 DEF ExitTellsVerdict, Killed
<1>6. RefusedLeavesOutputs'
    <2> SUFFICES ASSUME meddled = 0
                 PROVE  /\ code = 2 => target' = invoked.target
                        /\ code = 1 /\ step \in Judging => target' = invoked.target
                        /\ LooksForOutput(invoked.handler) /\ ~invoked.force /\ invoked.target = "old" => target' = "old"
                        /\ invoked.target = "old" /\ target' = "absent" => invoked.handler = CopyExample
        BY <1>1, <1>2 DEF RefusedLeavesOutputs, Judging, Gates
    <2>1. LooksForOutput(invoked.handler) /\ ~invoked.force /\ invoked.target = "old" => step \notin Writing \cup {"clear"}
        BY <1>4 DEF CommandInv, OnItsWay, At
    <2>2. step \notin After
        OBVIOUS
    <2>3. step \in Judging => step \notin Writing \cup {"clear"}
        BY DEF Judging, Gates, Writing
    <2> QED BY <1>4, <2>1, <2>2, <2>3
<1> QED BY <1>2, <1>3, <1>5, <1>6 DEF CommandInv, Running, Killed

(* A step that changes nothing but whether the command goes on.            *)
LEMMA CheckKeeps ==
    ASSUME CommandInv, NEW step, step \notin Reading \cup Writing \cup After \cup {"clear"}, At(step),
           UNCHANGED <<invoked, source, target, parent, meddled>>,
           \/ /\ Go
              /\ step = "judge" => Passes
              /\ step \in Gates => Passes \/ invoked.failOn = "none"
              /\ step \in {"vacant", "vacant_or_1"} => target = "absent" \/ invoked.force
           \/ End(1)
           \/ End(2)
           \/ End(Killed)
    PROVE  CommandInv'
<1>1. source \in Inputs /\ target \in Outputs /\ parent \in BOOLEAN
    BY DEF CommandInv, CommandTypeOK, OnItsWay, At
<1>2. CASE End(1)
    BY <1>1, <1>2, EndKeeps
<1>3. CASE End(2)
    BY <1>1, <1>3, EndKeeps
<1>4. CASE End(Killed)
    BY <1>1, <1>4, EndKeeps
<1> QED BY <1>1, <1>2, <1>3, <1>4, GoKeeps

(* What is read is what the verdict is about from then on.                 *)
LEMMA ReadKeeps ==
    ASSUME CommandInv, NEW step \in Reading, At(step), NEW v \in Inputs, source' \in Inputs,
           invoked' = [invoked EXCEPT !.verdict = v],
           UNCHANGED <<target, parent, meddled>>,
           Go \/ End(1) \/ End(2)
    PROVE  CommandInv'
<1>1. /\ target \in Outputs /\ parent \in BOOLEAN
      /\ step \notin Writing \cup After \cup {"clear", "judge", "vacant", "vacant_or_1"} \cup Gates
    BY DEF CommandInv, CommandTypeOK, Reading, Writing, After, Gates
<1>2. invoked'.verdict # "none"
    <2>1. invoked'.verdict = v
        BY DEF CommandInv, CommandTypeOK
    <2> QED BY <2>1 DEF Inputs
<1>3. CASE Go
    BY <1>1, <1>2, <1>3, GoKeeps
<1>4. CASE End(1)
    BY <1>1, <1>4, EndKeeps
<1>5. CASE End(2)
    BY <1>1, <1>5, EndKeeps
<1> QED BY <1>3, <1>4, <1>5

(* Whatever a command reads, and whatever it does when it cannot.          *)
LEMMA ReadsKeep ==
    CommandInv /\ (Load \/ LoadMapping \/ Look \/ LoadOrExample \/ There \/ LoadTraces \/ OpenStore) => CommandInv'
<1> SUFFICES ASSUME CommandInv, Load \/ LoadMapping \/ Look \/ LoadOrExample \/ There \/ LoadTraces \/ OpenStore
             PROVE  CommandInv'
    OBVIOUS
<1>1. ASSUME NEW step, At(step)
      PROVE  source \in Inputs
    BY <1>1 DEF CommandInv, OnItsWay, At
<1>2. ASSUME NEW step \in Reading, NEW missing \in SUBSET {1, 2}, NEW broken \in SUBSET {1, 2}, Read(step, missing, broken)
      PROVE  CommandInv'
    <2>1. /\ At(step) /\ source \in Inputs /\ UNCHANGED <<source, target, parent, meddled>>
          /\ invoked' = [invoked EXCEPT !.verdict = source]
        BY <1>1, <1>2 DEF Read
    <2>2. ASSUME NEW codes \in SUBSET {1, 2}, EndAmong(codes)
          PROVE  Go \/ End(1) \/ End(2)
        BY <2>2 DEF EndAmong
    <2>3. Go \/ End(1) \/ End(2)
        BY <1>2, <2>2 DEF Read
    <2> QED BY <2>1, <2>3, ReadKeeps
<1>3. CASE Load \/ LoadMapping \/ Look
    BY <1>2, <1>3 DEF Load, LoadMapping, Look, Reading
<1>4. CASE LoadOrExample
    <2>1. PICK v \in Inputs :
            /\ At("load_or_example") /\ source \in Inputs /\ UNCHANGED <<source, target, parent, meddled>>
            /\ invoked' = [invoked EXCEPT !.verdict = v]
            /\ Go \/ End(1) \/ End(2)
        BY <1>1, <1>4 DEF LoadOrExample, GoIf
    <2> QED BY <2>1, ReadKeeps DEF Reading
<1>5. CASE There
    <2> DEFINE v == IF source = "broken" THEN "good" ELSE source
    <2>1. /\ At("there") /\ v \in Inputs /\ source \in Inputs /\ UNCHANGED <<source, target, parent, meddled>>
          /\ invoked' = [invoked EXCEPT !.verdict = v] /\ Go
        BY <1>1, <1>5 DEF There, Inputs
    <2> HIDE DEF v
    <2> QED BY <2>1, ReadKeeps DEF Reading
<1>6. CASE LoadTraces
    <2>1. /\ At("traces") /\ source \in Inputs /\ UNCHANGED <<source, target, parent, meddled>>
          /\ invoked' = [invoked EXCEPT !.verdict = source] /\ (Go \/ End(1) \/ End(2))
        BY <1>1, <1>6 DEF LoadTraces
    <2> QED BY <2>1, ReadKeeps DEF Reading
<1>7. CASE OpenStore
    <2> DEFINE v == IF source = "missing" THEN "good" ELSE source
    <2>1. /\ At("store") /\ v \in Inputs /\ source' = v /\ UNCHANGED <<target, parent, meddled>>
          /\ invoked' = [invoked EXCEPT !.verdict = v] /\ (Go \/ End(1) \/ End(2))
        BY <1>1, <1>7 DEF OpenStore, GoIf, Inputs
    <2> HIDE DEF v
    <2> QED BY <2>1, ReadKeeps DEF Reading
<1> QED BY <1>3, <1>4, <1>5, <1>6, <1>7

(* Only the write and the copy make the output new, or leave a part of it; *)
(* only the clearing takes it away.                                        *)
LEMMA WritesKeep == CommandInv /\ (Write \/ Copy \/ Clear) => CommandInv'
<1> SUFFICES ASSUME CommandInv, Write \/ Copy \/ Clear
             PROVE  CommandInv'
    OBVIOUS
<1>1. ASSUME NEW step \in {"write", "copy", "clear"}, At(step), UNCHANGED <<invoked, source, meddled>>, parent' \in BOOLEAN,
             \/ target' = (IF step = "clear" THEN "absent" ELSE "new") /\ Go
             \/ UNCHANGED target /\ End(1)
             \/ UNCHANGED target /\ End(Killed)
             \/ target' = "partial" /\ End(1)
             \/ target' = "partial" /\ End(Killed)
      PROVE  CommandInv'
    <2>1. /\ source \in Inputs /\ target \in Outputs /\ parent \in BOOLEAN
          /\ step \in Writing \cup {"clear"} /\ step \notin After \cup Reading \cup Gates
        BY <1>1 DEF CommandInv, CommandTypeOK, OnItsWay, At, Writing, After, Reading, Gates
    <2>2. CASE target' = (IF step = "clear" THEN "absent" ELSE "new") /\ Go
        <3>1. target' \in Outputs /\ (step \in Writing => target' = "new")
            BY <2>2 DEF Outputs, Writing
        <3> QED BY <1>1, <2>1, <2>2, <3>1, GoKeeps
    <2>3. ASSUME NEW code \in {1, Killed}, End(code), UNCHANGED target \/ target' = "partial"
          PROVE  CommandInv'
        <3>1. code # 2 /\ code \in {1, 2, Killed}
            BY DEF Killed
        <3> QED BY <1>1, <2>1, <2>3, <3>1, EndKeeps
    <2> QED BY <1>1, <2>2, <2>3
<1>2. target \in Outputs /\ parent \in BOOLEAN
    BY DEF CommandInv, CommandTypeOK
<1>3. CASE Write
    BY <1>1, <1>2, <1>3 DEF Write
<1>4. CASE Copy
    BY <1>1, <1>2, <1>4 DEF Copy
<1>5. CASE Clear
    BY <1>1, <1>2, <1>5 DEF Clear
<1> QED BY <1>3, <1>4, <1>5

(* Behind the write nothing is written; only another program can have made *)
(* the output what the command cannot read.                                *)
LEMMA AfterKeeps == CommandInv /\ (ReadBack \/ VerifyOwnChain) => CommandInv'
<1> SUFFICES ASSUME CommandInv, NEW step \in After, At(step), UNCHANGED <<invoked, source, target, parent, meddled>>,
                    Go \/ (target # "new" /\ (End(1) \/ End(2)))
             PROVE  CommandInv'
    BY DEF ReadBack, VerifyOwnChain, After
<1>1. /\ source \in Inputs /\ target \in Outputs /\ parent \in BOOLEAN
      /\ step \notin Writing \cup Reading \cup Gates \cup {"clear", "judge", "vacant", "vacant_or_1"}
    BY DEF CommandInv, CommandTypeOK, OnItsWay, At, Writing, Reading, Gates, After
<1>2. target # "new" => meddled # 0
    <2>1. Passed(Writing) /\ OnItsWay
        BY WhereItStands DEF CommandInv, At
    <2> QED BY <2>1 DEF OnItsWay
<1>3. CASE Go
    BY <1>1, <1>3, GoKeeps
<1>4. CASE target # "new" /\ End(1)
    BY <1>1, <1>2, <1>4, EndKeeps
<1>5. CASE target # "new" /\ End(2)
    BY <1>1, <1>2, <1>5, EndKeeps
<1> QED BY <1>3, <1>4, <1>5

(* Written back is what was read.                                          *)
LEMMA WriteSourceKeeps == CommandInv /\ WriteSource => CommandInv'
<1> SUFFICES ASSUME CommandInv, WriteSource
             PROVE  CommandInv'
    OBVIOUS
<1>1. /\ target \in Outputs /\ parent \in BOOLEAN /\ At("write_source")
      /\ UNCHANGED <<invoked, target, parent, meddled>>
    BY DEF CommandInv, CommandTypeOK, WriteSource
<1>2. invoked.verdict \in Inputs
    <2>1. invoked.verdict # "none"
        BY <1>1, WhereItStands
    <2> QED BY <2>1 DEF CommandInv, CommandTypeOK, Readings
<1>3. CASE source' = invoked.verdict /\ Go
    BY <1>1, <1>2, <1>3, GoKeeps DEF Reading, Writing, Gates
<1>4. CASE source' = "partial" /\ \E code \in {1, Killed} : End(code)
    BY <1>1, <1>4, EndKeeps DEF Writing, After
<1> QED BY <1>3, <1>4 DEF WriteSource

(* A command ends well behind its last step, or by an early return that    *)
(* only three have.                                                        *)
LEMMA ReturnJsonKeeps == CommandInv /\ ReturnJson => CommandInv'
<1> SUFFICES ASSUME CommandInv, ReturnJson
             PROVE  CommandInv'
    OBVIOUS
<1>1. /\ source \in Inputs /\ target \in Outputs /\ parent \in BOOLEAN
      /\ At("json") /\ UNCHANGED <<invoked, source, target, parent, meddled>>
    BY DEF CommandInv, CommandTypeOK, OnItsWay, At, ReturnJson
<1>2. CASE Go
    BY <1>1, <1>2, GoKeeps DEF Reading, Writing, Gates
<1>3. CASE invoked.json /\ End(0)
    <2>1. exitCode' = 0 /\ left' = left /\ left # <<>> /\ Head(left) = "json"
        BY <1>1, <1>3 DEF End, At
    <2>2. /\ ~Has(invoked.handler, Writing)
          /\ invoked.handler \in {DriftCanary, FairnessCheck, AirgapCheck}
          /\ meddled = 0 => target = invoked.target
        BY <1>1, WhereItStands DEF Writing, After
    <2>3. CommandTypeOK'
        BY <1>1, <2>1 DEF CommandInv, CommandTypeOK
    <2>4. ExitTellsVerdict'
        BY <1>1, <1>3, <2>2 DEF ExitTellsVerdict, Writing
    <2>5. RefusedLeavesOutputs'
        BY <1>1, <2>1, <2>2 DEF RefusedLeavesOutputs
    <2> QED BY <2>1, <2>3, <2>4, <2>5 DEF CommandInv, Running
<1> QED BY <1>2, <1>3 DEF ReturnJson

LEMMA DoneKeeps == CommandInv /\ Done => CommandInv'
<1> SUFFICES ASSUME CommandInv, Done
             PROVE  CommandInv'
    OBVIOUS
<1>1. /\ exitCode' = 0 /\ left = <<>> /\ OnItsWay
      /\ UNCHANGED <<invoked, left, source, target, parent, meddled>>
    BY DEF Done, CommandInv
<1>2. /\ Taken = Len(invoked.handler) /\ Len(invoked.handler) \in Nat /\ Orderly(invoked.handler)
      /\ DOMAIN invoked.handler = 1 .. Len(invoked.handler)
    BY <1>1, HandlerIsOrderly DEF Taken, CommandInv
<1>3. \A kinds : Has(invoked.handler, kinds) <=> Passed(kinds)
    BY <1>2 DEF Has, Passed
<1>4. CommandTypeOK'
    BY <1>1 DEF CommandInv, CommandTypeOK
<1>5. ExitTellsVerdict'
    <2>1. Passed({"judge", "gate", "plan_gate", "relaxed"}) <=> Passed({"judge"}) \/ Passed(Gates)
        BY DEF Passed, Gates
    <2>2. Has(invoked.handler, {"write", "copy"}) <=> Passed(Writing)
        BY <1>3 DEF Writing
    <2>3. Has(invoked.handler, {"gate", "plan_gate", "relaxed"}) <=> Passed(Gates)
        BY <1>3 DEF Gates
    <2>4. /\ Passed({"judge"}) => Passes
          /\ Passed(Gates) => Passes \/ invoked.failOn = "none"
          /\ meddled = 0 /\ Passed(Writing) => target = "new"
        BY <1>1 DEF OnItsWay
    <2>5. meddled \in Nat
        BY MeddlingAssumption DEF CommandInv, CommandTypeOK
    <2> QED BY <1>1, <1>3, <2>1, <2>2, <2>3, <2>4, <2>5 DEF ExitTellsVerdict, Passes
<1>6. RefusedLeavesOutputs'
    <2> SUFFICES ASSUME meddled = 0
                 PROVE  /\ LooksForOutput(invoked.handler) /\ ~invoked.force /\ invoked.target = "old" => target = "old"
                        /\ invoked.target = "old" /\ target = "absent" => invoked.handler = CopyExample
        BY <1>1 DEF RefusedLeavesOutputs
    <2>1. ~(LooksForOutput(invoked.handler) /\ ~invoked.force /\ invoked.target = "old")
        BY <1>1, <1>3 DEF LooksForOutput, OnItsWay
    <2>2. Passed({"clear"}) => invoked.handler = CopyExample
        BY <1>2 DEF Passed, Orderly
    <2>3. Passed(Writing \cup {"clear"}) => Passed(Writing) \/ Passed({"clear"})
        BY DEF Passed
    <2> QED BY <1>1, <2>1, <2>2, <2>3 DEF OnItsWay
<1> QED BY <1>1, <1>4, <1>5, <1>6 DEF CommandInv, Running

(* Killed, a command leaves what it left a moment before; what another     *)
(* program does to the files is that program's.                            *)
LEMMA KillKeeps == CommandInv /\ Kill => CommandInv'
<1> SUFFICES ASSUME CommandInv, Kill
             PROVE  CommandInv'
    OBVIOUS
<1>1. exitCode' = Killed /\ OnItsWay /\ UNCHANGED <<invoked, left, source, target, parent, meddled>>
    BY DEF Kill, CommandInv
<1>2. /\ Orderly(invoked.handler) /\ Len(invoked.handler) \in Nat
      /\ DOMAIN invoked.handler = 1 .. Len(invoked.handler) /\ Taken \in 0 .. Len(invoked.handler)
    BY HandlerIsOrderly DEF CommandInv
<1>3. CommandTypeOK'
    BY <1>1 DEF CommandInv, CommandTypeOK, Killed
<1>4. ExitTellsVerdict'
    BY <1>1 DEF ExitTellsVerdict, Killed
<1>5. RefusedLeavesOutputs'
    <2> SUFFICES ASSUME meddled = 0
                 PROVE  /\ LooksForOutput(invoked.handler) /\ ~invoked.force /\ invoked.target = "old" => target = "old"
                        /\ invoked.target = "old" /\ target = "absent" => invoked.handler = CopyExample
        BY <1>1 DEF RefusedLeavesOutputs, Killed
    <2>1. Passed(Writing) \/ Passed({"clear"}) <=> Passed(Writing \cup {"clear"})
        BY DEF Passed
    <2>2. Passed({"clear"}) => invoked.handler = CopyExample
        BY <1>2 DEF Passed, Orderly
    <2>3. ASSUME LooksForOutput(invoked.handler), Passed(Writing \cup {"clear"})
          PROVE  Passed({"vacant", "vacant_or_1"})
        <3> DEFINE h == invoked.handler
        <3>1. PICK i \in 1 .. Len(h) : h[i] \in {"vacant", "vacant_or_1"}
            BY <1>2, <2>3 DEF LooksForOutput, Has
        <3>2. PICK j \in 1 .. Taken : h[j] \in Writing \cup {"clear"}
            BY <2>3 DEF Passed
        <3>3. ~(j < i) /\ i # j
            BY <1>2, <3>1, <3>2 DEF Orderly, Writing, After
        <3>4. i \in 1 .. Taken
            BY <1>2, <3>1, <3>2, <3>3
        <3> QED BY <3>1, <3>4 DEF Passed
    <2> QED BY <1>1, <2>1, <2>2, <2>3 DEF OnItsWay
<1> QED BY <1>1, <1>3, <1>4, <1>5 DEF CommandInv, Running, Killed

(* What other programs change is not what the command answers for.         *)
LEMMA MeddleKeeps == CommandInv /\ Meddle => CommandInv'
<1> SUFFICES ASSUME CommandInv, Meddle
             PROVE  CommandInv'
    OBVIOUS
<1>1. /\ exitCode = Running /\ OnItsWay /\ UNCHANGED <<invoked, left, parent, exitCode>>
      /\ meddled \in 0 .. MaxMeddling /\ meddled < MaxMeddling /\ meddled' = meddled + 1
      /\ source' \in Inputs /\ target' \in Outputs
    BY DEF Meddle, CommandInv, CommandTypeOK, OnItsWay, Inputs, Outputs
<1>2. CommandTypeOK'
    BY <1>1, MeddlingAssumption DEF CommandInv, CommandTypeOK
<1>3. meddled' # 0
    BY <1>1
<1>4. OnItsWay'
    BY <1>1, <1>3 DEF OnItsWay, Passed, Taken, Passes
<1> QED BY <1>1, <1>2, <1>4 DEF CommandInv, ExitTellsVerdict, RefusedLeavesOutputs, Running

(* Step by step, everything a command does keeps the invariant.            *)
LEMMA CommandStep == CommandInv /\ [CommandNext]_commandVars => CommandInv'
<1> SUFFICES ASSUME CommandInv, [CommandNext]_commandVars
             PROVE  CommandInv'
    OBVIOUS
<1> DEFINE Check(step) ==
        /\ At(step) /\ UNCHANGED <<invoked, source, target, parent, meddled>>
        /\ \/ /\ Go
              /\ step = "judge" => Passes
              /\ step \in Gates => Passes \/ invoked.failOn = "none"
              /\ step \in {"vacant", "vacant_or_1"} => target = "absent" \/ invoked.force
           \/ End(1)
           \/ End(2)
           \/ End(Killed)
       Checking == {"known", "known_or_example", "trace", "option", "try", "vacant", "vacant_or_1", "judge", "serve"} \cup Gates
<1>1. ASSUME NEW step \in Checking, Check(step)
      PROVE  CommandInv'
    <2>1. step \notin Reading \cup Writing \cup After \cup {"clear"}
        BY DEF Gates, Reading, Writing, After
    <2> HIDE DEF Checking
    <2> QED BY <1>1, <2>1, CheckKeeps
<1>2. CASE Known \/ KnownOrExample \/ FindTrace \/ CheckOption \/ Try
    <2>1. \E step \in {"known", "known_or_example", "trace", "option", "try"} : Check(step)
        BY <1>2 DEF Known, KnownOrExample, FindTrace, CheckOption, Try, GoIf, Gates
    <2> QED BY <1>1, <2>1
<1>3. CASE Vacant
    <2>1. \E step \in {"vacant", "vacant_or_1"} : Check(step)
        BY <1>3 DEF Vacant, GoIf, Gates
    <2> QED BY <1>1, <2>1
<1>4. CASE FailIfBad \/ Serve
    <2>1. \E step \in {"judge", "serve"} : Check(step)
        BY <1>4 DEF FailIfBad, Serve, GoIf, Gates
    <2> QED BY <1>1, <2>1
<1>5. CASE Gate \/ PlanGate \/ FailIfRelaxed
    <2>1. \E step \in Gates : Check(step)
        BY <1>5 DEF Gate, PlanGate, FailIfRelaxed, GoIf, Gates, Passes
    <2> QED BY <1>1, <2>1
<1>6. CASE MakeParent
    BY <1>6, GoKeeps DEF MakeParent, CommandInv, CommandTypeOK, OnItsWay, At, Reading, Writing, Gates
<1>7. CASE UNCHANGED commandVars
    BY <1>7 DEF commandVars, CommandInv, CommandTypeOK, OnItsWay, Passed, Taken, Passes, ExitTellsVerdict, RefusedLeavesOutputs
<1> HIDE DEF Check, Checking
<1> QED
    BY <1>2, <1>3, <1>4, <1>5, <1>6, <1>7, ReadsKeep, WritesKeep, AfterKeeps, WriteSourceKeeps,
       ReturnJsonKeeps, DoneKeeps, KillKeeps, MeddleKeeps DEF CommandNext

(* A command that starts has taken no step.                                *)
LEMMA CommandStarts == CommandInit => CommandInv
<1> SUFFICES ASSUME CommandInit
             PROVE  CommandInv
    OBVIOUS
<1>1. /\ invoked.handler \in Handlers /\ left = invoked.handler /\ exitCode = Running /\ meddled = 0
      /\ invoked.target = target /\ invoked \in Invoked
    BY DEF CommandInit, Invoked
<1>2. invoked.handler \in Seq(Steps)
    BY <1>1, HandlersAreOrderly DEF Orderly
<1>3. left = SubSeq(invoked.handler, 1, Len(invoked.handler)) /\ Len(left) \in Nat
    BY <1>1, <1>2, SubSeqFull
<1>4. Len(invoked.handler) - Len(left) = 0
    BY <1>1, <1>3
<1>5. CommandTypeOK
    <2>1. /\ target \in {"absent", "old"} /\ parent \in BOOLEAN /\ source \in Inputs
        BY DEF CommandInit
    <2>2. left = SubSeq(invoked.handler, Len(invoked.handler) - Len(left) + 1, Len(invoked.handler))
        <3>1. Len(invoked.handler) - Len(left) + 1 = 1
            BY <1>4
        <3> QED BY <1>3, <3>1
    <2>3. Len(left) =< Len(invoked.handler)
        BY <1>1, <1>3
    <2> QED BY <1>1, <2>1, <2>2, <2>3, MeddlingAssumption DEF Invoked, CommandTypeOK, Readings, Outputs, Running
<1>6. \A kinds : ~Passed(kinds)
    BY <1>4 DEF Passed, Taken
<1> QED BY <1>1, <1>5, <1>6 DEF CommandInit, CommandInv, OnItsWay, ExitTellsVerdict, RefusedLeavesOutputs, Running

(* All commands, at all times.                                             *)
LEMMA CommandInvariant == CommandSpec => []CommandInv
<1> QED BY CommandStarts, CommandStep, PTL DEF CommandSpec

(* Every handler, with any options and files, and with any number of       *)
(* changes that other programs make meanwhile: the exit code 0 tells that  *)
(* the verdict was good and that what was to be written is written (the    *)
(* handlers of cli.py).  What makes it so is the order of the steps: it is *)
(* checked handler by handler, and how far a command has come decides the  *)
(* rest.                                                                   *)
THEOREM ExitCodesTellVerdicts == CommandSpec => []ExitTellsVerdict
<1>1. CommandInv => ExitTellsVerdict
    BY DEF CommandInv
<1> QED BY <1>1, CommandInvariant, PTL

(* By the same order, a command that refuses, fails before its write or is *)
(* not told to overwrite leaves the output (the handlers of cli.py).       *)
THEOREM RefusalsLeaveOutputs == CommandSpec => []RefusedLeavesOutputs
<1>1. CommandInv => RefusedLeavesOutputs
    BY DEF CommandInv
<1> QED BY <1>1, CommandInvariant, PTL

-----------------------------------------------------------------------------
(* Less is a strict total order on tuples of numbers of one length.        *)
LEMMA LessIsStrict ==
    ASSUME NEW K \in Nat, NEW x \in [1 .. K -> Nat], NEW y \in [1 .. K -> Nat], NEW z \in [1 .. K -> Nat]
    PROVE  /\ ~Less(x, x)
           /\ Less(x, y) /\ Less(y, z) => Less(x, z)
<1>1. ~Less(x, x)
    BY DEF Less
<1>2. ASSUME Less(x, y), Less(y, z)
      PROVE  Less(x, z)
    <2>1. PICK k \in 1 .. K : x[k] < y[k] /\ \A j \in 1 .. k - 1 : x[j] = y[j]
        BY <1>2 DEF Less
    <2>2. PICK l \in 1 .. K : y[l] < z[l] /\ \A j \in 1 .. l - 1 : y[j] = z[j]
        BY <1>2 DEF Less
    <2>3. CASE k =< l
        <3>1. x[k] < z[k]
            BY <2>1, <2>2, <2>3
        <3>2. \A j \in 1 .. k - 1 : x[j] = z[j]
            BY <2>1, <2>2, <2>3
        <3> QED BY <3>1, <3>2 DEF Less
    <2>4. CASE l < k
        <3>1. x[l] < z[l]
            BY <2>1, <2>2, <2>4
        <3>2. \A j \in 1 .. l - 1 : x[j] = z[j]
            BY <2>1, <2>2, <2>4
        <3> QED BY <3>1, <3>2 DEF Less
    <2> QED BY <2>3, <2>4
<1> QED BY <1>1, <1>2

LEMMA LessIsTotal ==
    ASSUME NEW K \in 1 .. 4, NEW x \in [1 .. K -> Nat], NEW y \in [1 .. K -> Nat]
    PROVE  x = y \/ Less(x, y) \/ Less(y, x)
<1> SUFFICES ASSUME x # y
             PROVE  Less(x, y) \/ Less(y, x)
    OBVIOUS
<1>1. PICK k \in 1 .. K : x[k] # y[k] /\ \A j \in 1 .. k - 1 : x[j] = y[j]
    <2>1. PICK i \in 1 .. K : x[i] # y[i]
        OBVIOUS
    <2>2. CASE x[1] # y[1]
        BY <2>2
    <2>3. CASE x[1] = y[1] /\ 2 \in 1 .. K /\ x[2] # y[2]
        BY <2>3
    <2>4. CASE x[1] = y[1] /\ 3 \in 1 .. K /\ x[2] = y[2] /\ x[3] # y[3]
        BY <2>4
    <2>5. CASE x[1] = y[1] /\ 4 \in 1 .. K /\ x[2] = y[2] /\ x[3] = y[3] /\ x[4] # y[4]
        <3>1. \A j \in 1 .. 4 - 1 : j = 1 \/ j = 2 \/ j = 3
            OBVIOUS
        <3> QED BY <2>5, <3>1
    <2>6. i = 1 \/ i = 2 \/ i = 3 \/ i = 4
        OBVIOUS
    <2>7. /\ i = 2 => 1 \in 1 .. K
          /\ i = 3 => 2 \in 1 .. K
          /\ i = 4 => 2 \in 1 .. K /\ 3 \in 1 .. K
        OBVIOUS
    <2> QED BY <2>1, <2>2, <2>3, <2>4, <2>5, <2>6, <2>7
<1>2. x[k] < y[k] \/ y[k] < x[k]
    BY <1>1
<1> QED BY <1>1, <1>2 DEF Less

(* So what Sorted makes of a finite set lists all of it, each once, in     *)
(* order.                                                                  *)
LEMMA SortedLists ==
    ASSUME NEW K \in 1 .. 4, NEW keys, keys \subseteq [1 .. K -> Nat], IsFiniteSet(keys)
    PROVE  /\ Cardinality(keys) \in Nat
           /\ DOMAIN Sorted(keys) = 1 .. Cardinality(keys)
           /\ \A n \in 1 .. Cardinality(keys) : Sorted(keys)[n] \in keys
           /\ \A x \in keys : \E n \in 1 .. Cardinality(keys) : Sorted(keys)[n] = x
           /\ \A i, j \in 1 .. Cardinality(keys) : i < j => Less(Sorted(keys)[i], Sorted(keys)[j])
<1> DEFINE N == Cardinality(keys)
           Upto(x) == {y \in keys : y = x \/ Less(y, x)}
           place == [x \in keys |-> Cardinality(Upto(x))]
           s == Sorted(keys)
<1> HIDE DEF N, place, s
<1>0. N \in Nat
    BY FS_CardinalityType DEF N
<1>d. K \in Nat
    OBVIOUS
<1>a. \A x \in keys : ~Less(x, x)
    BY <1>d, LessIsStrict
<1>b. \A x, y, z \in keys : Less(x, y) /\ Less(y, z) => Less(x, z)
    BY <1>d, LessIsStrict
<1>c. \A x, y \in keys : x = y \/ Less(x, y) \/ Less(y, x)
    BY LessIsTotal
<1>1. ASSUME NEW x \in keys
      PROVE  IsFiniteSet(Upto(x)) /\ Cardinality(Upto(x)) \in Nat /\ Cardinality(Upto(x)) \in 1 .. N
    <2>1. IsFiniteSet(Upto(x)) /\ Cardinality(Upto(x)) =< N
        BY FS_Subset DEF N
    <2>2. Cardinality(Upto(x)) \in Nat
        BY <2>1, FS_CardinalityType
    <2>3. x \in Upto(x)
        OBVIOUS
    <2>4. Cardinality(Upto(x)) # 0
        BY <2>1, <2>3, FS_EmptySet
    <2> QED BY <1>0, <2>1, <2>2, <2>4
<1>2. ASSUME NEW x \in keys, NEW y \in keys, Less(x, y)
      PROVE  place[x] < place[y]
    <2>1. Upto(x) \subseteq Upto(y)
        BY <1>2, <1>a, <1>b
    <2>2. y \in Upto(y) /\ y \notin Upto(x)
        BY <1>2, <1>a, <1>b
    <2>3. /\ Cardinality(Upto(x)) =< Cardinality(Upto(y))
          /\ Cardinality(Upto(x)) # Cardinality(Upto(y))
        BY <1>1, <2>1, <2>2, FS_Subset
    <2>4. Cardinality(Upto(x)) \in Nat /\ Cardinality(Upto(y)) \in Nat
        BY <1>1
    <2>5. Cardinality(Upto(x)) < Cardinality(Upto(y))
        BY <2>3, <2>4
    <2> QED BY <2>5 DEF place
<1>3. place \in [keys -> 1 .. N]
    BY <1>1 DEF place
<1>4. \A x, y \in keys : place[x] = place[y] => x = y
    BY <1>2, <1>3, <1>c
<1>5. place \in Injection(keys, 1 .. N)
    BY <1>3, <1>4 DEF Injection, IsInjective
<1>6. place \in Surjection(keys, 1 .. N)
    <2>1. 1 \in Int /\ N \in Int
        BY <1>0
    <2>2. IsFiniteSet(1 .. N) /\ Cardinality(1 .. N) = IF 1 > N THEN 0 ELSE N - 1 + 1
        BY <2>1, FS_Interval
    <2>3. Cardinality(1 .. N) = N
        BY <1>0, <2>2
    <2>4. Cardinality(1 .. N) = Cardinality(keys)
        BY <2>3 DEF N
    <2> QED BY <1>5, <2>2, <2>4, FS_Injection
<1>7. \A n \in 1 .. N : s[n] \in keys /\ place[s[n]] = n
    <2> SUFFICES ASSUME NEW n \in 1 .. N
                 PROVE  s[n] \in keys /\ place[s[n]] = n
        OBVIOUS
    <2>1. \E x \in keys : Cardinality(Upto(x)) = n
        BY <1>6 DEF Surjection, place
    <2>2. s[n] = CHOOSE x \in keys : Cardinality(Upto(x)) = n
        BY DEF Sorted, N, s
    <2> QED BY <2>1, <2>2 DEF place
<1>8. \A x \in keys : s[place[x]] = x
    BY <1>3, <1>4, <1>7
<1>9. \A i, j \in 1 .. N : i < j => Less(s[i], s[j])
    <2> SUFFICES ASSUME NEW i \in 1 .. N, NEW j \in 1 .. N, i < j
                 PROVE  Less(s[i], s[j])
        OBVIOUS
    <2>1. s[i] \in keys /\ s[j] \in keys /\ place[s[i]] = i /\ place[s[j]] = j
        BY <1>7
    <2>2. s[i] # s[j]
        BY <2>1
    <2>3. ~Less(s[j], s[i])
        <3>1. ~(place[s[j]] < place[s[i]])
            BY <2>1
        <3> QED BY <1>2, <2>1, <3>1
    <2> QED BY <2>1, <2>2, <2>3, <1>c
<1>10. DOMAIN s = 1 .. N
    BY DEF Sorted, N, s
<1> QED BY <1>0, <1>3, <1>7, <1>8, <1>9, <1>10 DEF N, s

(* A function on the first numbers is a sequence.                          *)
LEMMA CountedIsSequence ==
    ASSUME NEW S, NEW n \in Nat, NEW f \in [1 .. n -> S]
    PROVE  f \in Seq(S) /\ Len(f) = n
BY SeqDef, LenProperties

(* The rules are listed, and each has a level.                             *)
IsGraded(rule) == rule.severity \in Levels
AreRules(s) == \E S : s \in Seq(S) /\ \A rule \in S : IsGraded(rule)

LEMMA RulesAreGraded ==
    \A category, mark, on, unless, files, sites :
        /\ IsGraded(LineRule(category, "critical", mark, unless))
        /\ IsGraded(LineRule(category, "high", mark, unless))
        /\ IsGraded(LineRule(category, "medium", mark, unless))
        /\ IsGraded(TextRule(category, "high", on, unless, files, sites))
        /\ IsGraded(TextRule(category, "medium", on, unless, files, sites))
        /\ IsGraded(TextRule(category, "low", on, unless, files, sites))
BY DEF IsGraded, LineRule, TextRule, Levels

LEMMA FourAreRules ==
    \A a, b, c, d :
        IsGraded(a) /\ IsGraded(b) /\ IsGraded(c) /\ IsGraded(d) => AreRules(<<a, b, c, d>>)
<1> TAKE a, b, c, d
<1> DEFINE S == {a, b, c, d}
<1>1. <<a, b, c, d>> \in Seq(S)
    OBVIOUS
<1>2. IsGraded(a) /\ IsGraded(b) /\ IsGraded(c) /\ IsGraded(d)
          => \A rule \in S : IsGraded(rule)
    OBVIOUS
<1> HIDE DEF S
<1> QED BY <1>1, <1>2 DEF AreRules

LEMMA FiveAreRules ==
    \A a, b, c, d, e :
        IsGraded(a) /\ IsGraded(b) /\ IsGraded(c) /\ IsGraded(d) /\ IsGraded(e)
            => AreRules(<<a, b, c, d, e>>) /\ DOMAIN <<a, b, c, d, e>> = 1 .. 5
<1> TAKE a, b, c, d, e
<1> DEFINE S == {a, b, c, d, e}
<1>1. <<a, b, c, d, e>> \in Seq(S) /\ DOMAIN <<a, b, c, d, e>> = 1 .. 5
    OBVIOUS
<1>2. IsGraded(a) /\ IsGraded(b) /\ IsGraded(c) /\ IsGraded(d) /\ IsGraded(e)
          => \A rule \in S : IsGraded(rule)
    OBVIOUS
<1> HIDE DEF S
<1> QED BY <1>1, <1>2 DEF AreRules

LEMMA SevenAreRules ==
    \A a, b, c, d, e, f, g :
        IsGraded(a) /\ IsGraded(b) /\ IsGraded(c) /\ IsGraded(d) /\ IsGraded(e) /\ IsGraded(f) /\ IsGraded(g)
            => AreRules(<<a, b, c, d, e, f, g>>)
<1> TAKE a, b, c, d, e, f, g
<1> DEFINE S == {a, b, c, d, e, f, g}
<1>1. <<a, b, c, d, e, f, g>> \in Seq(S)
    OBVIOUS
<1>2. IsGraded(a) /\ IsGraded(b) /\ IsGraded(c) /\ IsGraded(d) /\ IsGraded(e) /\ IsGraded(f) /\ IsGraded(g)
          => \A rule \in S : IsGraded(rule)
    OBVIOUS
<1> HIDE DEF S
<1> QED BY <1>1, <1>2 DEF AreRules

LEMMA NineAreRules ==
    \A a, b, c, d, e, f, g, h, i :
        IsGraded(a) /\ IsGraded(b) /\ IsGraded(c) /\ IsGraded(d) /\ IsGraded(e) /\ IsGraded(f) /\ IsGraded(g)
        /\ IsGraded(h) /\ IsGraded(i)
            => AreRules(<<a, b, c, d, e, f, g, h, i>>)
<1> TAKE a, b, c, d, e, f, g, h, i
<1> DEFINE S == {a, b, c, d, e, f, g, h, i}
<1>1. <<a, b, c, d, e, f, g, h, i>> \in Seq(S)
    OBVIOUS
<1>2. IsGraded(a) /\ IsGraded(b) /\ IsGraded(c) /\ IsGraded(d) /\ IsGraded(e) /\ IsGraded(f) /\ IsGraded(g)
      /\ IsGraded(h) /\ IsGraded(i)
          => \A rule \in S : IsGraded(rule)
    OBVIOUS
<1> HIDE DEF S
<1> QED BY <1>1, <1>2 DEF AreRules

LEMMA LineRulesListed == AreRules(LineRules) /\ DOMAIN LineRules = 1 .. 5
BY RulesAreGraded, FiveAreRules, Zenon DEF LineRules

LEMMA TextRulesListed == AreRules(TextRules)
<1>1. AreRules(CallRules)
    BY RulesAreGraded, SevenAreRules, Zenon DEF CallRules
<1>2. AreRules(DataRules)
    BY RulesAreGraded, NineAreRules, Zenon DEF DataRules
<1>3. PICK A, B : /\ CallRules \in Seq(A) /\ DataRules \in Seq(B)
                  /\ \A rule \in A \cup B : IsGraded(rule)
    BY <1>1, <1>2 DEF AreRules
<1> DEFINE U == A \cup B
<1>4. CallRules \in Seq(U) /\ DataRules \in Seq(U)
    BY <1>3, SeqDef
<1>5. TextRules \in Seq(U)
    BY <1>4 DEF TextRules
<1> QED BY <1>3, <1>5 DEF AreRules

LEMMA PolicyFileRulesListed == AreRules(PolicyFileRules)
BY RulesAreGraded, FourAreRules, Zenon DEF PolicyFileRules

-----------------------------------------------------------------------------
(* Only lists what is at the places, and nothing else.                     *)
LEMMA OnlyLists ==
    ASSUME NEW S, NEW s \in Seq(S), NEW places, places \subseteq DOMAIN s
    PROVE  /\ Only(s, places) \in Seq(S)
           /\ IsFiniteSet(places) /\ Len(Only(s, places)) = Cardinality(places)
           /\ \A i \in places : \E n \in DOMAIN Only(s, places) : Only(s, places)[n] = s[i]
           /\ \A n \in DOMAIN Only(s, places) : \E i \in places : Only(s, places)[n] = s[i]
<1> DEFINE keys == {<<i>> : i \in places}
           key == [i \in places |-> <<i>>]
           at == Sorted(keys)
           N == Cardinality(keys)
           r == Only(s, places)
<1>1. Len(s) \in Nat /\ DOMAIN s = 1 .. Len(s) /\ \A i \in DOMAIN s : s[i] \in S
    BY LenProperties, ElementOfSeq
<1>2. IsFiniteSet(places)
    <2>1. IsFiniteSet(1 .. Len(s))
        BY <1>1, FS_Interval
    <2> QED BY <1>1, <2>1, FS_Subset
<1>3. key \in Surjection(places, keys) /\ key \in Injection(places, keys)
    BY DEF Surjection, Injection, IsInjective
<1>4. IsFiniteSet(keys) /\ Cardinality(keys) = Cardinality(places)
    BY <1>2, <1>3, FS_Surjection
<1>5. keys \subseteq [1 .. 1 -> Nat]
    BY <1>1
<1>6. /\ N \in Nat /\ DOMAIN at = 1 .. N
      /\ \A n \in 1 .. N : at[n] \in keys
      /\ \A x \in keys : \E n \in 1 .. N : at[n] = x
    <2>1. 1 \in 1 .. 4
        OBVIOUS
    <2> HIDE DEF keys
    <2> QED BY <1>4, <1>5, <2>1, SortedLists
<1> HIDE DEF at, N
<1>7. r = [n \in 1 .. N |-> s[at[n][1]]]
    BY <1>6 DEF Only, at
<1>8. \A n \in 1 .. N : \E i \in places : at[n] = <<i>> /\ r[n] = s[i]
    BY <1>6, <1>7
<1>9. r \in [1 .. N -> S]
    BY <1>1, <1>7, <1>8
<1>10. r \in Seq(S) /\ Len(r) = N
    BY <1>6, <1>9, CountedIsSequence
<1>11. \A i \in places : \E n \in 1 .. N : r[n] = s[i]
    <2> SUFFICES ASSUME NEW i \in places
                 PROVE  \E n \in 1 .. N : r[n] = s[i]
        OBVIOUS
    <2>1. PICK n \in 1 .. N : at[n] = <<i>>
        BY <1>6
    <2> QED BY <1>7, <2>1
<1>12. DOMAIN r = 1 .. N
    BY <1>7
<1> QED BY <1>2, <1>4, <1>8, <1>10, <1>11, <1>12 DEF N

(* Of some numbers below a bound, one is the smallest.                     *)
LEMMA LeastNumber ==
    ASSUME NEW n \in Nat, NEW T, T \subseteq 0 .. n, T # {}
    PROVE  \E i \in T : \A j \in T : i =< j
<1> DEFINE keys == {<<i>> : i \in T}
           key == [i \in T |-> <<i>>]
<1>1. IsFiniteSet(T)
    <2>1. IsFiniteSet(0 .. n)
        BY FS_Interval
    <2> QED BY <2>1, FS_Subset
<1>2. key \in Surjection(T, keys)
    BY DEF Surjection
<1>3. IsFiniteSet(keys) /\ keys \subseteq [1 .. 1 -> Nat] /\ keys # {}
    <2>1. IsFiniteSet(keys)
        BY <1>1, <1>2, FS_Surjection
    <2>2. T \subseteq Nat
        OBVIOUS
    <2>3. keys \subseteq [1 .. 1 -> Nat]
        BY <2>2
    <2>4. keys # {}
        OBVIOUS
    <2> QED BY <2>1, <2>3, <2>4
<1>4. PICK x \in keys : \A y \in keys : y = x \/ Less(x, y)
    <2>1. 1 \in 1 .. 4
        OBVIOUS
    <2> HIDE DEF keys
    <2> DEFINE N == Cardinality(keys)
               at == Sorted(keys)
    <2>2. /\ N \in Nat
          /\ \A i \in 1 .. N : at[i] \in keys
          /\ \A y \in keys : \E i \in 1 .. N : at[i] = y
          /\ \A i, j \in 1 .. N : i < j => Less(at[i], at[j])
        BY <1>3, <2>1, SortedLists
    <2> HIDE DEF at, N
    <2>3. 1 \in 1 .. N
        BY <1>3, <2>2
    <2>4. \A i \in 1 .. N : i = 1 \/ 1 < i
        BY <2>2
    <2> QED BY <2>2, <2>3, <2>4
<1>5. PICK i \in T : x = <<i>>
    BY <1>4
<1>6. ASSUME NEW j \in T
      PROVE  i =< j
    <2>1. <<j>> = <<i>> \/ Less(<<i>>, <<j>>)
        BY <1>4, <1>5
    <2> QED BY <2>1 DEF Less
<1> QED BY <1>6

-----------------------------------------------------------------------------
(* What a text and a policy may give rise to, told of one file.            *)
OfLines(text, file) == {LineFinding(text, h, file) : h \in (DOMAIN text) \X (DOMAIN LineRules)}
OfRules(rules, text, file) ==
    {Found(rule.category, rule.severity, file, SiteOf(text, rule), UNION rule.on \cup rule.unless)
        : rule \in {rules[i] : i \in DOMAIN rules}}
OfTexts(text, policy, file) == OfRules(TextRules, text, file) \cup OfRules(PolicyFileRules, policy, file)
Made(text, policy, file) == OfLines(text, file) \cup OfTexts(text, policy, file)

LEMMA FirstMatchIsLine ==
    ASSUME NEW text, IsList(text), NEW mark
    PROVE  FirstMatchLine(text, mark) \in 0 .. Len(text) + 1
<1>1. CASE ~Marked(text, mark)
    BY <1>1 DEF FirstMatchLine, IsList
<1>2. CASE Marked(text, mark)
    <2> DEFINE lines == {n \in DOMAIN text : mark \in text[n].marks}
    <2>1. lines \subseteq 0 .. Len(text) /\ lines # {}
        BY <1>2 DEF Marked, IsList
    <2>2. PICK n \in lines : \A m \in lines : n =< m
        BY <2>1, LeastNumber DEF IsList
    <2>3. \A m \in 1 .. n - 1 : mark \notin text[m].marks
        <3> SUFFICES ASSUME NEW m \in 1 .. n - 1
                     PROVE  m \notin lines /\ m \in DOMAIN text
            OBVIOUS
        <3> QED BY <2>1, <2>2 DEF IsList
    <2>4. FirstMatchLine(text, mark) \in DOMAIN text
        BY <1>2, <2>3 DEF FirstMatchLine
    <2> QED BY <2>4 DEF IsList
<1> QED BY <1>1, <1>2

LEMMA SiteIsLine ==
    ASSUME NEW text, IsList(text), NEW rule
    PROVE  SiteOf(text, rule) \in Nat
<1> DEFINE lines == {FirstMatchLine(text, mark) : mark \in rule.sites} \cup (IF rule.sites = {} THEN {1} ELSE {})
<1>0. 1 \in 0 .. Len(text) + 1
    BY DEF IsList
<1>1. lines \subseteq 0 .. Len(text) + 1 /\ lines # {}
    <2>1. lines \subseteq 0 .. Len(text) + 1
        BY <1>0, FirstMatchIsLine
    <2>2. CASE rule.sites = {}
        BY <2>1, <2>2
    <2>3. CASE rule.sites # {}
        <3>1. PICK mark \in rule.sites : TRUE
            BY <2>3
        <3>2. FirstMatchLine(text, mark) \in lines
            BY <3>1
        <3> HIDE DEF lines
        <3> QED BY <2>1, <3>2
    <2> QED BY <2>2, <2>3
<1>2. Len(text) + 1 \in Nat
    BY DEF IsList
<1>3. \E n \in lines : \A m \in lines : n =< m
    <2> HIDE DEF lines
    <2> QED BY <1>1, <1>2, LeastNumber
<1>4. SiteOf(text, rule) \in lines
    <2>1. SiteOf(text, rule) = CHOOSE n \in lines : \A m \in lines : n =< m
        BY DEF SiteOf
    <2> HIDE DEF lines
    <2> QED BY <1>3, <2>1
<1> QED BY <1>1, <1>2, <1>4

LEMMA MadeTellsPlace ==
    ASSUME NEW text, IsList(text), NEW policy, IsList(policy), NEW file, NEW x \in Made(text, policy, file)
    PROVE  x.file = file /\ x.line \in Nat /\ x.severity \in Levels
<1>0. ASSUME NEW rules, AreRules(rules), NEW i \in DOMAIN rules
      PROVE  rules[i].severity \in Levels
    BY <1>0, ElementOfSeq DEF AreRules, IsGraded
<1>1. /\ \A i \in DOMAIN LineRules : LineRules[i].severity \in Levels
      /\ \A i \in DOMAIN TextRules : TextRules[i].severity \in Levels
      /\ \A i \in DOMAIN PolicyFileRules : PolicyFileRules[i].severity \in Levels
    BY <1>0, LineRulesListed, TextRulesListed, PolicyFileRulesListed
<1>2. CASE x \in OfLines(text, file)
    BY <1>1, <1>2 DEF OfLines, LineFinding, Found, IsList
<1>3. CASE x \in OfRules(TextRules, text, file)
    BY <1>1, <1>3, SiteIsLine DEF OfRules, Found
<1>4. CASE x \in OfRules(PolicyFileRules, policy, file)
    BY <1>1, <1>4, SiteIsLine DEF OfRules, Found
<1> QED BY <1>2, <1>3, <1>4 DEF Made, OfTexts

LEMMA HitsArePairs ==
    ASSUME NEW text
    PROVE  LineHits(text) \subseteq (DOMAIN text) \X (DOMAIN LineRules)
BY Zenon DEF LineHits

LEMMA HitsAreFinite ==
    ASSUME NEW text, IsList(text)
    PROVE  IsFiniteSet(LineHits(text)) /\ LineHits(text) \subseteq [1 .. 2 -> Nat]
<1>1. IsFiniteSet(DOMAIN text) /\ IsFiniteSet(DOMAIN LineRules)
    <2>1. 1 \in Int /\ Len(text) \in Int /\ 5 \in Int
        BY DEF IsList
    <2>2. IsFiniteSet(1 .. Len(text)) /\ IsFiniteSet(1 .. 5)
        BY <2>1, FS_Interval
    <2> QED BY <2>2, LineRulesListed DEF IsList
<1>2. IsFiniteSet((DOMAIN text) \X (DOMAIN LineRules))
    BY <1>1, FS_Product
<1>3. IsFiniteSet(LineHits(text))
    BY <1>2, FS_Subset, HitsArePairs
<1>4. LineHits(text) \subseteq [1 .. 2 -> Nat]
    BY HitsArePairs, LineRulesListed DEF IsList
<1> QED BY <1>3, <1>4

LEMMA RuleFindingsAreMade ==
    ASSUME NEW rules, AreRules(rules), NEW text, NEW marks, NEW suffix, NEW file
    PROVE  RuleFindings(rules, text, marks, suffix, file) \in Seq(OfRules(rules, text, file))
<1> DEFINE S == {rules[i] : i \in DOMAIN rules}
<1>1. rules \in Seq(S)
    <2>1. PICK U : rules \in Seq(U)
        BY DEF AreRules
    <2>2. Len(rules) \in Nat /\ rules \in [1 .. Len(rules) -> U]
        BY <2>1, LenProperties
    <2>3. rules \in [1 .. Len(rules) -> S]
        BY <2>2
    <2> HIDE DEF S
    <2> QED BY <2>2, <2>3, SeqDef
<1>2. PICK places \in SUBSET DOMAIN rules :
        RuleFindings(rules, text, marks, suffix, file) =
            LET hits == Only(rules, places)
            IN  [i \in DOMAIN hits |-> Found(hits[i].category, hits[i].severity, file, SiteOf(text, hits[i]), UNION hits[i].on \cup hits[i].unless)]
    BY Zenon DEF RuleFindings
<1> DEFINE hits == Only(rules, places)
<1>3. hits \in Seq(S)
    <2> HIDE DEF S
    <2> QED BY <1>1, OnlyLists
<1> HIDE DEF hits
<1>4. Len(hits) \in Nat /\ DOMAIN hits = 1 .. Len(hits) /\ \A i \in DOMAIN hits : hits[i] \in S
    BY <1>3, LenProperties, ElementOfSeq
<1> DEFINE made == [i \in 1 .. Len(hits) |-> Found(hits[i].category, hits[i].severity, file, SiteOf(text, hits[i]), UNION hits[i].on \cup hits[i].unless)]
<1>5. RuleFindings(rules, text, marks, suffix, file) = made
    BY <1>2, <1>4 DEF hits
<1>6. made \in [1 .. Len(hits) -> OfRules(rules, text, file)]
    BY <1>4 DEF OfRules
<1> QED BY <1>4, <1>5, <1>6, CountedIsSequence

LEMMA TextFindingsAreMade ==
    ASSUME NEW text, NEW policy, NEW suffix, NEW file, NEW callReported
    PROVE  TextFindings(text, policy, suffix, file, callReported) \in Seq(OfTexts(text, policy, file))
<1> DEFINE S == OfTexts(text, policy, file)
<1>1. PICK marks : TextFindings(text, policy, suffix, file, callReported) =
                    RuleFindings(TextRules, text, marks, suffix, file)
                        \o RuleFindings(PolicyFileRules, policy, MarksOf(policy), suffix, file)
    BY Zenon DEF TextFindings
<1>2. RuleFindings(TextRules, text, marks, suffix, file) \in Seq(OfRules(TextRules, text, file))
    BY RuleFindingsAreMade, TextRulesListed
<1>3. RuleFindings(PolicyFileRules, policy, MarksOf(policy), suffix, file)
        \in Seq(OfRules(PolicyFileRules, policy, file))
    BY RuleFindingsAreMade, PolicyFileRulesListed
<1>4. OfRules(TextRules, text, file) \subseteq S /\ OfRules(PolicyFileRules, policy, file) \subseteq S
    BY DEF OfTexts
<1> HIDE DEF S
<1>5. \A a, b : a \in Seq(S) /\ b \in Seq(S) => a \o b \in Seq(S)
    OBVIOUS
<1>6. /\ RuleFindings(TextRules, text, marks, suffix, file) \in Seq(S)
      /\ RuleFindings(PolicyFileRules, policy, MarksOf(policy), suffix, file) \in Seq(S)
    BY <1>2, <1>3, <1>4, SeqDef
<1> QED BY <1>1, <1>5, <1>6 DEF S

(* The loop over the lines finds all that is not suppressed, or as much as *)
(* the cap; nothing of it is suppressed.                                   *)
OpenHits(text) == {h \in LineHits(text) : h[1] \notin SuppressedLines(text)}

LEMMA OnLinesLists ==
    ASSUME NEW text, IsList(text), NEW file, NEW cap \in Nat \ {0}
    PROVE  LET on == OnLines(text, file, cap)
           IN  /\ on \in Seq({LineFinding(text, h, file) : h \in OpenHits(text)})
               /\ \/ Len(on) >= cap
                  \/ \A h \in OpenHits(text) : \E n \in DOMAIN on : on[n] = LineFinding(text, h, file)
<1> DEFINE open == OpenHits(text)
           earlier(h) == {g \in open : g[1] < h[1]}
           met == {h \in open : Cardinality(earlier(h)) < cap}
           at == Sorted(met)
           N == Cardinality(met)
           on == OnLines(text, file, cap)
           S == {LineFinding(text, h, file) : h \in open}
<1>1. IsFiniteSet(open) /\ open \subseteq [1 .. 2 -> Nat] /\ open \subseteq LineHits(text)
    <2>1. open \subseteq LineHits(text)
        BY DEF OpenHits
    <2> QED BY <2>1, HitsAreFinite, FS_Subset
<1> HIDE DEF open
<1>2. IsFiniteSet(met) /\ met \subseteq [1 .. 2 -> Nat]
    BY <1>1, FS_Subset
<1>3. /\ N \in Nat /\ DOMAIN at = 1 .. N
      /\ \A n \in 1 .. N : at[n] \in met
      /\ \A x \in met : \E n \in 1 .. N : at[n] = x
    <2>1. 2 \in 1 .. 4
        OBVIOUS
    <2> HIDE DEF met
    <2> QED BY <1>2, <2>1, SortedLists
<1>4. on = [i \in DOMAIN at |-> LineFinding(text, at[i], file)]
    BY Zenon DEF OnLines, OpenHits, open
<1> HIDE DEF at, N, on
<1>5. on \in [1 .. N -> S]
    BY <1>3, <1>4
<1>6. on \in Seq(S) /\ Len(on) = N /\ DOMAIN on = 1 .. N
    <2> HIDE DEF S
    <2> QED BY <1>3, <1>5, CountedIsSequence
<1>7. ASSUME NEW h \in open, h \notin met
      PROVE  N >= cap
    <2> DEFINE T == {g[1] : g \in open \ met}
    <2>1. Len(text) \in Nat /\ \A g \in open : g[1] \in 0 .. Len(text)
        BY <1>1, HitsArePairs DEF IsList
    <2>2. T \subseteq 0 .. Len(text) /\ T # {}
        BY <1>7, <2>1
    <2>3. PICK n \in T : \A m \in T : n =< m
        <3> HIDE DEF T
        <3> QED BY <2>1, <2>2, LeastNumber
    <2>4. PICK g \in open \ met : n = g[1]
        BY <2>3
    <2>5. earlier(g) \subseteq met
        <3> SUFFICES ASSUME NEW e \in open, e[1] < g[1], e \notin met
                     PROVE  FALSE
            OBVIOUS
        <3>1. e[1] \in T
            OBVIOUS
        <3>2. g[1] =< e[1]
            BY <2>3, <2>4, <3>1
        <3> QED BY <2>1, <3>2
    <2>6. Cardinality(earlier(g)) =< N
        <3> HIDE DEF met
        <3> QED BY <1>2, <2>5, FS_Subset DEF N
    <2>7. IsFiniteSet(earlier(g))
        BY <1>1, FS_Subset
    <2>8. Cardinality(earlier(g)) \in Nat
        <3> HIDE DEF earlier
        <3> QED BY <2>7, FS_CardinalityType
    <2>9. ~(Cardinality(earlier(g)) < cap)
        BY <2>4
    <2> HIDE DEF earlier
    <2> QED BY <1>3, <2>6, <2>8, <2>9
<1>8. ASSUME open \subseteq met, NEW h \in open
      PROVE  \E n \in DOMAIN on : on[n] = LineFinding(text, h, file)
    <2>1. PICK n \in 1 .. N : at[n] = h
        <3> HIDE DEF met
        <3> QED BY <1>3, <1>8
    <2> QED BY <1>3, <1>4, <1>6, <2>1
<1>9. Len(on) >= cap \/ \A h \in open : \E n \in DOMAIN on : on[n] = LineFinding(text, h, file)
    <2>1. CASE \E h \in open : h \notin met
        BY <1>6, <1>7, <2>1
    <2>2. CASE open \subseteq met
        BY <1>8, <2>2
    <2> QED BY <2>1, <2>2
<1> QED BY <1>6, <1>9 DEF open, on

(* What is found in a file is told of that file, and unless it is as much  *)
(* as the cap, every problem of what was read is among it.                 *)
LEMMA FileIsScanned ==
    ASSUME NEW text, IsList(text), NEW policy, IsList(policy), NEW suffix, NEW file, NEW cap \in Nat \ {0}
    PROVE  LET s == ScanFile(text, policy, suffix, file, cap)
           IN  /\ s \in Seq(Made(text, policy, file))
               /\ Len(s) = cap \/ \A x \in Problems(text, policy, suffix, file) : \E i \in DOMAIN s : s[i] = x
<1>1. CASE Marked(text, "ignore-file")
    <2>1. ScanFile(text, policy, suffix, file, cap) = << >> /\ Problems(text, policy, suffix, file) = {}
        BY <1>1, Zenon DEF ScanFile, Problems
    <2> QED BY <2>1, EmptySeq
<1>2. CASE ~Marked(text, "ignore-file")
    <2> DEFINE on == OnLines(text, file, cap)
               Governed(x) == x.category = "LLM Governance"
               tx == TextFindings(text, policy, suffix, file, \E i \in DOMAIN on : Governed(on[i]))
               all == on \o tx
               M == Made(text, policy, file)
               places == {i \in DOMAIN all : all[i].line \notin SuppressedLines(text)}
               un == Only(all, places)
               s == ScanFile(text, policy, suffix, file, cap)
               O == {LineFinding(text, h, file) : h \in OpenHits(text)}
    <2>1. /\ on \in Seq(O)
          /\ Len(on) >= cap \/ \A h \in OpenHits(text) : \E n \in DOMAIN on : on[n] = LineFinding(text, h, file)
        BY OnLinesLists
    <2>2. \A x \in O : x.line \notin SuppressedLines(text)
        BY DEF OpenHits, LineFinding, Found
    <2>3. O \subseteq M
        BY HitsArePairs DEF OpenHits, Made, OfLines
    <2>4. OfTexts(text, policy, file) \subseteq M
        BY DEF Made
    <2>5. AllFindings(text, policy, suffix, file, cap) = all
        BY Zenon DEF AllFindings
    <2>6. s = FirstOf(un, cap)
        BY <1>2, <2>5, Zenon DEF ScanFile, Unsuppressed
    <2>7. tx \in Seq(OfTexts(text, policy, file))
        BY TextFindingsAreMade
    <2> HIDE DEF on, tx, M, O, Governed
    <2>8. on \in Seq(M) /\ tx \in Seq(M)
        BY <2>1, <2>3, <2>4, <2>7, SeqDef
    <2>9. all \in Seq(M)
        BY <2>8
    <2>10. /\ Len(on) \in Nat /\ Len(tx) \in Nat /\ Len(all) = Len(on) + Len(tx)
           /\ DOMAIN on = 1 .. Len(on) /\ DOMAIN tx = 1 .. Len(tx) /\ DOMAIN all = 1 .. Len(all)
           /\ \A i \in 1 .. Len(on) : all[i] = on[i]
           /\ \A i \in 1 .. Len(tx) : all[Len(on) + i] = tx[i]
        BY <2>8
    <2> HIDE DEF all
    <2>11. /\ un \in Seq(M) /\ IsFiniteSet(places) /\ Len(un) = Cardinality(places)
           /\ \A i \in places : \E n \in DOMAIN un : un[n] = all[i]
        <3>1. places \subseteq DOMAIN all
            OBVIOUS
        <3> HIDE DEF places
        <3> QED BY <2>9, <3>1, OnlyLists
    <2>12. 1 .. Len(on) \subseteq places
        BY <2>1, <2>2, <2>10
    <2>13. Len(on) =< Len(un)
        <3>1. 1 \in Int /\ Len(on) \in Int
            BY <2>10
        <3>2. Cardinality(1 .. Len(on)) = Len(on)
            <4>1. Cardinality(1 .. Len(on)) = IF 1 > Len(on) THEN 0 ELSE Len(on) - 1 + 1
                BY <3>1, FS_Interval
            <4> QED BY <2>10, <4>1
        <3> HIDE DEF places, un
        <3> QED BY <2>11, <2>12, <3>2, FS_Subset
    <2> HIDE DEF places, un
    <2>14. CASE Len(un) > cap
        <3>1. s = SubSeq(un, 1, cap)
            BY <2>6, <2>14 DEF FirstOf
        <3>2. s \in Seq(M) /\ Len(s) = cap
            BY <2>11, <2>14, <3>1
        <3> QED BY <3>2 DEF M
    <2>15. CASE ~(Len(un) > cap)
        <3>1. s = un
            BY <2>6, <2>15 DEF FirstOf
        <3>2. CASE Len(on) >= cap
            <4>1. Len(s) = cap
                BY <2>10, <2>11, <2>13, <2>15, <3>1, <3>2, LenProperties
            <4> QED BY <2>11, <3>1, <4>1 DEF M
        <3>3. CASE ~(Len(on) >= cap)
            <4> DEFINE onLines == {LineFinding(text, h, file) : h \in LineHits(text)}
            <4>1. \A x \in O : \E n \in DOMAIN on : on[n] = x
                BY <2>1, <3>3 DEF O
            <4>2. O = {x \in onLines : x.line \notin SuppressedLines(text)}
                BY DEF O, OpenHits, LineFinding, Found
            <4>3. (\E i \in DOMAIN on : Governed(on[i]))
                    <=> \E x \in onLines : Governed(x) /\ x.line \notin SuppressedLines(text)
                BY <2>1, <2>10, <4>1, <4>2
            <4>4. \A x \in Problems(text, policy, suffix, file) :
                    x.line \notin SuppressedLines(text) /\ (x \in onLines \/ \E i \in DOMAIN tx : x = tx[i])
                BY <1>2, <4>3, Zenon DEF Problems, Governed, tx
            <4> HIDE DEF onLines
            <4>5. ASSUME NEW x \in Problems(text, policy, suffix, file)
                  PROVE  \E i \in places : all[i] = x
                <5>1. CASE x \in onLines
                    <6>1. PICK n \in DOMAIN on : on[n] = x
                        BY <4>1, <4>2, <4>4, <5>1
                    <6> QED BY <2>10, <2>12, <6>1
                <5>2. CASE \E i \in DOMAIN tx : x = tx[i]
                    <6>1. PICK i \in 1 .. Len(tx) : x = tx[i]
                        BY <2>10, <5>2
                    <6>2. Len(on) + i \in DOMAIN all /\ all[Len(on) + i] = x
                        BY <2>10, <6>1
                    <6> QED BY <4>4, <6>2 DEF places
                <5> QED BY <4>4, <5>1, <5>2
            <4> QED BY <2>11, <3>1, <4>5 DEF M
        <3> QED BY <3>2, <3>3
    <2> QED BY <2>14, <2>15
<1> QED BY <1>1, <1>2

-----------------------------------------------------------------------------
(* What the scans have found, file by file: all that ScanFile makes of a   *)
(* file that was read, and nothing else of it.                             *)
Legible == Texts \cup {<< >>}
AnyFinding == UNION {Made(text, policy, file) : text \in Legible, policy \in Legible, file \in Nat}
InFile(findings, name) == {i \in DOMAIN findings : findings[i].file = name}

IsTold(r) ==
    LET name == NameOf(r.file, scan.options)
        s    == ScanFile(r.text, r.policy, folder[r.file].place.suffix, name, Cap(scan.options.config))
    IN  /\ Cardinality(InFile(found, name)) = Len(s)
        /\ \A i \in DOMAIN s : \E j \in DOMAIN found : found[j] = s[i]

AScan ==
    [at : {"reading"}, options : Options, pending : SUBSET Numbered, begun : SUBSET [file : Numbered, text : Texts],
     known : SUBSET AnyFinding, read : SUBSET [file : Numbered, text : Legible, policy : Legible]]

\* A file waits, is read once, or is done with.
UnderWay ==
    /\ scan \in AScan
    /\ scan.options.root # 0 =>
        /\ \A f \in scan.pending : f = scan.options.root
        /\ \A r \in scan.begun \cup scan.read : r.file = scan.options.root
    /\ \A r \in scan.begun : r.file \notin scan.pending /\ \A q \in scan.read : q.file # r.file
    /\ \A q, r \in scan.begun : q.file = r.file => q = r
    /\ \A r \in scan.read : r.file \notin scan.pending /\ IsTold(r)
    /\ \A q, r \in scan.read : q.file = r.file => q = r
    /\ \A i \in DOMAIN found : \E r \in scan.read : found[i].file = NameOf(r.file, scan.options)

ScannerInv ==
    /\ folder \in Seq(File)
    /\ accepted \subseteq AnyFinding
    /\ found \in Seq(AnyFinding)
    /\ \A i \in DOMAIN found : found[i].file \in {0} \cup Numbered
    /\ scan.at \in {"idle", "reading", "ended"}
    /\ scan.at = "reading" => UnderWay
    /\ scan.at = "ended" => scan.exit \in {0, 1, 2} /\ scan.failOn \in FailOn
    /\ GateSound
    /\ scans \in 0 .. MaxScans
    /\ edits \in 0 .. MaxEdits

LEMMA LegibleIsList == \A text \in Legible : IsList(text)
BY ScannerAssumption DEF Legible, IsList

LEMMA AnyFindingTells == \A x \in AnyFinding : x.file \in Nat /\ x.line \in Nat /\ x.severity \in Levels
BY LegibleIsList, MadeTellsPlace DEF AnyFinding

LEMMA CapIsPositive == \A o \in Options : Cap(o.config) \in Nat \ {0}
BY ScannerAssumption DEF Options, Cap

LEMMA RankIsNat == \A level : Rank(level) \in Nat
BY DEF Rank, Levels

(* The findings of a file are those of the part that tells of it.          *)
LEMMA InFileOfBoth ==
    ASSUME NEW S, NEW a \in Seq(S), NEW b \in Seq(S), NEW name
    PROVE  /\ (\A i \in DOMAIN b : b[i].file # name) => InFile(a \o b, name) = InFile(a, name)
           /\ (\A i \in DOMAIN a : a[i].file # name) /\ (\A i \in DOMAIN b : b[i].file = name)
                => Cardinality(InFile(a \o b, name)) = Len(b)
<1> DEFINE m == Len(a)
           n == Len(b)
           c == a \o b
<1>1. /\ m \in Nat /\ n \in Nat /\ DOMAIN a = 1 .. m /\ DOMAIN b = 1 .. n /\ DOMAIN c = 1 .. m + n
      /\ \A i \in 1 .. m : c[i] = a[i]
      /\ \A i \in m + 1 .. m + n : c[i] = b[i - m] /\ i - m \in 1 .. n
    OBVIOUS
<1> HIDE DEF m, n, c
<1>2. \A i \in 1 .. m + n : i \in 1 .. m \/ i \in m + 1 .. m + n
    BY <1>1
<1>3. ASSUME \A i \in DOMAIN b : b[i].file # name
      PROVE  InFile(c, name) = InFile(a, name)
    BY <1>1, <1>2, <1>3 DEF InFile
<1>4. ASSUME \A i \in DOMAIN a : a[i].file # name, \A i \in DOMAIN b : b[i].file = name
      PROVE  Cardinality(InFile(c, name)) = n
    <2>1. InFile(c, name) = m + 1 .. m + n
        BY <1>1, <1>2, <1>4 DEF InFile
    <2>2. PICK p, q \in Int : p = m + 1 /\ q = m + n
        BY <1>1
    <2>3. Cardinality(p .. q) = IF p > q THEN 0 ELSE q - p + 1
        BY FS_Interval
    <2>4. Cardinality(p .. q) = n
        BY <1>1, <2>2, <2>3
    <2> QED BY <2>1, <2>2, <2>4
<1> QED BY <1>3, <1>4 DEF c, n

LEMMA StartScanHolds == ScannerInv /\ StartScan => ScannerInv'
<1> SUFFICES ASSUME ScannerInv, StartScan
             PROVE  ScannerInv'
    OBVIOUS
<1>1. PICK o \in Invocations :
        scan' = [at |-> "reading", options |-> o, pending |-> Discovered(o), begun |-> {},
                 known |-> IF o.baseline THEN accepted ELSE {}, read |-> {}]
    BY DEF StartScan
<1>2. o \in Options
    BY ScannerAssumption
<1>3. Discovered(o) \subseteq Numbered /\ (o.root # 0 => Discovered(o) \subseteq {o.root})
    BY Zenon DEF Discovered
<1>4. found' = << >> /\ folder' = folder /\ accepted' = accepted /\ edits' = edits
      /\ scans' \in 0 .. MaxScans
    BY ScannerAssumption DEF StartScan, ScannerInv
<1>5. UnderWay'
    BY <1>1, <1>2, <1>3, <1>4 DEF UnderWay, AScan, ScannerInv, Numbered
<1> QED BY <1>1, <1>4, <1>5 DEF ScannerInv, GateSound, Numbered

LEMMA ExitHolds == ScannerInv /\ Exit => ScannerInv'
BY DEF ScannerInv, Exit, GateSound, Numbered

LEMMA EditHolds == ASSUME ScannerInv, NEW f \in Numbered, Edit(f) PROVE ScannerInv'
<1>1. /\ scan' = scan /\ found' = found /\ accepted' = accepted /\ scans' = scans
      /\ edits' \in 0 .. MaxEdits /\ scan.at # "ended"
    BY ScannerAssumption DEF Edit, ScannerInv
<1>2. PICK text \in Texts : folder' = [folder EXCEPT ![f].text = text]
    BY DEF Edit
<1>3. folder' \in Seq(File) /\ Numbered' = Numbered /\ \A g \in Numbered : folder'[g].place = folder[g].place
    <2>1. folder \in Seq(File) /\ f \in 1 .. Len(folder) /\ folder[f] \in File
        BY DEF ScannerInv, Numbered
    <2>2. folder' = [folder EXCEPT ![f] = [folder[f] EXCEPT !.text = text]]
        BY <1>2
    <2>3. [folder[f] EXCEPT !.text = text] \in File /\ [folder[f] EXCEPT !.text = text].place = folder[f].place
        BY <2>1 DEF File
    <2>4. folder' \in Seq(File)
        BY <2>1, <2>2, <2>3
    <2>5. Numbered' = Numbered
        BY <2>1, <2>2 DEF Numbered
    <2>6. \A g \in Numbered : folder'[g].place = folder[g].place
        BY <2>1, <2>2, <2>3 DEF Numbered
    <2> QED BY <2>4, <2>5, <2>6
<1>4. ASSUME scan.at = "reading"
      PROVE  UnderWay'
    <2>1. UnderWay
        BY <1>4 DEF ScannerInv
    <2>2. \A r \in scan.read : IsTold(r)'
        <3> SUFFICES ASSUME NEW r \in scan.read
                     PROVE  IsTold(r)'
            OBVIOUS
        <3>1. r.file \in Numbered /\ IsTold(r)
            BY <2>1 DEF UnderWay, AScan
        <3>2. folder'[r.file].place = folder[r.file].place
            BY <1>3, <3>1
        <3> QED BY <1>1, <3>1, <3>2 DEF IsTold
    <2> QED BY <1>1, <1>3, <2>1, <2>2 DEF UnderWay, AScan
<1> QED BY <1>1, <1>3, <1>4 DEF ScannerInv, GateSound

(* A thread is done with a file: what it found is told of it.              *)
LEMMA DoneHolds ==
    ASSUME ScannerInv, scan.at = "reading", NEW f \in Numbered, NEW text \in Legible, NEW policy \in Legible,
           NEW P, P \subseteq scan.pending, f \notin P,
           NEW B, B \subseteq scan.begun, \A r \in B : r.file # f,
           \A r \in scan.read : r.file # f, scan.options.root # 0 => f = scan.options.root,
           scan' = [scan EXCEPT !.pending = P, !.begun = B,
                                !.read = @ \cup {[file |-> f, text |-> text, policy |-> policy]}],
           found' = Extended(f, text, policy),
           UNCHANGED <<folder, accepted, scans, edits>>
    PROVE  ScannerInv'
<1> DEFINE o == scan.options
           name == NameOf(f, o)
           s == ScanFile(text, policy, folder[f].place.suffix, name, Cap(o.config))
<1>0. PICK new : new = [file |-> f, text |-> text, policy |-> policy]
    OBVIOUS
<1>1. /\ found' = found \o s
      /\ scan' = [scan EXCEPT !.pending = P, !.begun = B, !.read = @ \cup {new}]
      /\ folder' = folder /\ accepted' = accepted /\ scans' = scans /\ edits' = edits
    BY <1>0 DEF Extended
<1>2. UnderWay
    BY DEF ScannerInv
<1>3. o \in Options /\ Cap(o.config) \in Nat \ {0}
    BY <1>2, CapIsPositive DEF UnderWay, AScan
<1>4. IsList(text) /\ IsList(policy)
    BY LegibleIsList
<1>5. Numbered \subseteq Nat \ {0}
    BY DEF ScannerInv, Numbered
<1>6. name \in Nat /\ name \in {0} \cup Numbered
    BY <1>5 DEF NameOf
<1>7. s \in Seq(Made(text, policy, name))
    BY <1>3, <1>4, FileIsScanned
<1> HIDE DEF s
<1>8. Made(text, policy, name) \subseteq AnyFinding
    BY <1>4, <1>6 DEF AnyFinding
<1>9. s \in Seq(AnyFinding) /\ \A i \in DOMAIN s : s[i].file = name
    <2>1. \A i \in DOMAIN s : s[i] \in Made(text, policy, name)
        BY <1>7, ElementOfSeq
    <2>2. \A x \in Made(text, policy, name) : x.file = name
        BY <1>4, MadeTellsPlace
    <2> HIDE DEF name
    <2>3. s \in Seq(AnyFinding)
        BY <1>7, <1>8, SeqDef
    <2> QED BY <2>1, <2>2, <2>3
<1>10. found \in Seq(AnyFinding)
    BY DEF ScannerInv
<1> DEFINE m == Len(found)
           n == Len(s)
<1>11. /\ m \in Nat /\ n \in Nat /\ DOMAIN found = 1 .. m /\ DOMAIN s = 1 .. n
       /\ found' \in Seq(AnyFinding) /\ DOMAIN found' = 1 .. m + n
       /\ \A i \in DOMAIN found : i \in DOMAIN found' /\ found'[i] = found[i]
       /\ \A i \in DOMAIN s : m + i \in DOMAIN found' /\ found'[m + i] = s[i]
       /\ \A i \in DOMAIN found' : i \in DOMAIN found \/ (i - m \in DOMAIN s /\ found'[i] = s[i - m])
    BY <1>1, <1>9, <1>10
<1> HIDE DEF m, n
<1>12. \A r \in scan.read : NameOf(r.file, o) # name
    <2> SUFFICES ASSUME NEW r \in scan.read
                 PROVE  NameOf(r.file, o) # name
        OBVIOUS
    <2>1. r.file \in Numbered /\ r.file # f /\ (o.root # 0 => r.file = o.root /\ f = o.root)
        BY <1>2 DEF UnderWay, AScan
    <2> QED BY <1>5, <2>1 DEF NameOf
<1>13. /\ scan'.at = "reading" /\ scan'.options = o /\ scan'.pending = P /\ scan'.begun = B
       /\ scan'.known = scan.known /\ scan'.read = scan.read \cup {new}
       /\ scan' \in AScan'
    <2>1. new \in [file : Numbered, text : Legible, policy : Legible]
        BY <1>0
    <2>2. scan \in AScan
        BY <1>2 DEF UnderWay
    <2>3. Numbered' = Numbered
        BY <1>1 DEF Numbered
    <2>4. /\ scan'.at = "reading" /\ scan'.options = o /\ scan'.pending = P /\ scan'.begun = B
          /\ scan'.known = scan.known /\ scan'.read = scan.read \cup {new}
          /\ P \in SUBSET Numbered /\ B \in SUBSET [file : Numbered, text : Texts]
          /\ scan.read \cup {new} \in SUBSET [file : Numbered, text : Legible, policy : Legible]
        BY <1>1, <2>1, <2>2 DEF AScan
    <2>5. scan' \in AScan
        BY <1>1, <2>2, <2>4 DEF AScan
    <2>6. AScan' = AScan
        BY <2>3 DEF AScan
    <2> QED BY <2>4, <2>5, <2>6
<1> HIDE DEF o
<1>14. ASSUME NEW r \in scan.read
       PROVE  IsTold(r)'
    <2> DEFINE its == NameOf(r.file, o)
               its_s == ScanFile(r.text, r.policy, folder[r.file].place.suffix, its, Cap(o.config))
    <2>1. IsTold(r)
        BY <1>2 DEF UnderWay
    <2>2. /\ Cardinality(InFile(found, its)) = Len(its_s)
          /\ \A i \in DOMAIN its_s : \E j \in DOMAIN found : found[j] = its_s[i]
        BY <2>1 DEF IsTold, o
    <2>3. IsTold(r)' <=> /\ Cardinality(InFile(found', its)) = Len(its_s)
                         /\ \A i \in DOMAIN its_s : \E j \in DOMAIN found' : found'[j] = its_s[i]
        BY <1>1, <1>13 DEF IsTold
    <2>4. its # name
        BY <1>12
    <2> HIDE DEF its, name, its_s
    <2>5. InFile(found', its) = InFile(found, its)
        BY <1>1, <1>9, <1>10, <2>4, InFileOfBoth
    <2> QED BY <1>11, <2>2, <2>3, <2>5
<1>15. IsTold(new)'
    <2>1. new.file = f /\ new.text = text /\ new.policy = policy
        BY <1>0
    <2>2. IsTold(new)' <=> /\ Cardinality(InFile(found', name)) = Len(s)
                           /\ \A i \in DOMAIN s : \E j \in DOMAIN found' : found'[j] = s[i]
        <3>1. s = ScanFile(new.text, new.policy, folder'[new.file].place.suffix, NameOf(new.file, scan'.options),
                           Cap(scan'.options.config))
            BY <1>1, <1>13, <2>1 DEF s
        <3>2. name = NameOf(new.file, scan'.options)
            BY <1>13, <2>1
        <3> HIDE DEF name, s
        <3> QED BY <3>1, <3>2 DEF IsTold
    <2>3. \A i \in DOMAIN found : found[i].file # name
        BY <1>2, <1>12 DEF UnderWay, o
    <2> HIDE DEF name
    <2>4. Cardinality(InFile(found', name)) = Len(s)
        BY <1>1, <1>9, <1>10, <2>3, InFileOfBoth
    <2> QED BY <1>11, <2>2, <2>4
<1>16. UnderWay'
    <2>1. o.root # 0 =>
            /\ \A g \in scan'.pending : g = o.root
            /\ \A r \in scan'.begun \cup scan'.read : r.file = o.root
        BY <1>0, <1>2, <1>13 DEF UnderWay, o
    <2>2. \A r \in scan'.read : r.file \notin scan'.pending /\ IsTold(r)'
        <3>1. \A r \in scan.read : r.file \notin P
            BY <1>2 DEF UnderWay
        <3>2. new.file \notin P
            BY <1>0
        <3> QED BY <1>13, <1>14, <1>15, <3>1, <3>2
    <2>6. /\ \A r \in scan'.begun : r.file \notin scan'.pending /\ \A q \in scan'.read : q.file # r.file
          /\ \A q, r \in scan'.begun : q.file = r.file => q = r
        BY <1>0, <1>2, <1>13 DEF UnderWay
    <2>3. \A q, r \in scan'.read : q.file = r.file => q = r
        BY <1>0, <1>2, <1>13 DEF UnderWay
    <2>4. \A i \in DOMAIN found' : \E r \in scan'.read : found'[i].file = NameOf(r.file, o)
        <3> SUFFICES ASSUME NEW i \in DOMAIN found'
                     PROVE  \E r \in scan'.read : found'[i].file = NameOf(r.file, o)
            OBVIOUS
        <3>1. CASE i \in DOMAIN found
            BY <1>2, <1>11, <1>13, <3>1 DEF UnderWay, o
        <3>2. CASE i \notin DOMAIN found
            <4>1. found'[i].file = name
                BY <1>9, <1>11, <3>2
            <4> QED BY <1>0, <1>13, <4>1
        <3> QED BY <3>1, <3>2
    <2>5. Numbered' = Numbered
        BY <1>1 DEF Numbered
    <2> QED BY <1>13, <2>1, <2>2, <2>3, <2>4, <2>5, <2>6 DEF UnderWay
<1>17. \A i \in DOMAIN found' : found'[i].file \in {0} \cup Numbered
    <2> HIDE DEF name
    <2> QED BY <1>6, <1>9, <1>11 DEF ScannerInv
<1> QED BY <1>1, <1>11, <1>13, <1>16, <1>17 DEF ScannerInv, GateSound, Numbered

LEMMA ReadFileHolds == ASSUME ScannerInv, NEW f \in Numbered, ReadFile(f) PROVE ScannerInv'
<1>0. PICK t : t = IF folder[f].place.readable THEN folder[f].text ELSE << >>
    OBVIOUS
<1>1. /\ scan.at = "reading" /\ f \in scan.pending /\ UnderWay
      /\ UNCHANGED <<folder, accepted, scans, edits>>
    BY DEF ReadFile, ScannerInv
<1>2. t \in Legible /\ << >> \in Legible
    <2>1. folder[f] \in File
        BY DEF ScannerInv, Numbered
    <2> QED BY <1>0, <2>1 DEF Legible, File
<1>3. PICK P, B : P = scan.pending \ {f} /\ B = scan.begun
    OBVIOUS
<1>4. /\ P \subseteq scan.pending /\ f \notin P
      /\ \A r \in B : r.file # f
      /\ \A r \in scan.read : r.file # f
      /\ scan.options.root # 0 => f = scan.options.root
    BY <1>1, <1>3 DEF UnderWay
<1>5. CASE ReadTwice(f, t)
    <2>0. PICK new : new = [file |-> f, text |-> t]
        OBVIOUS
    <2>1. found' = found /\ scan' = [scan EXCEPT !.pending = P, !.begun = @ \cup {new}]
        BY <1>0, <1>3, <1>5, <2>0 DEF ReadFile
    <2>2. new \in [file : Numbered, text : Texts] /\ Numbered' = Numbered
        <3>1. folder[f] \in File /\ folder[f].place.readable
            BY <1>5 DEF ScannerInv, Numbered, ReadTwice
        <3> QED BY <1>0, <1>1, <2>0, <3>1 DEF Numbered, File
    <2>3. scan \in AScan
        BY <1>1 DEF UnderWay
    <2>4. /\ scan' \in AScan'
          /\ scan'.pending = P /\ scan'.begun = scan.begun \cup {new} /\ scan'.options = scan.options
          /\ scan'.read = scan.read /\ scan'.at = "reading"
        BY <1>1, <1>3, <2>1, <2>2, <2>3 DEF AScan
    <2>5. \A r : IsTold(r)' <=> IsTold(r)
        BY <1>1, <2>1, <2>4 DEF IsTold
    <2>6. new.file = f
        BY <2>0
    <2>7. /\ scan.options.root # 0 => \A r \in scan'.begun : r.file = scan.options.root
          /\ \A r \in scan'.begun : r.file \notin P /\ \A q \in scan.read : q.file # r.file
          /\ \A q, r \in scan'.begun : q.file = r.file => q = r
        BY <1>1, <1>3, <1>4, <2>4, <2>6 DEF UnderWay
    <2>8. UnderWay'
        BY <1>1, <1>4, <2>1, <2>4, <2>5, <2>7 DEF UnderWay
    <2> QED BY <1>1, <2>1, <2>2, <2>4, <2>8 DEF ScannerInv, GateSound
<1>6. CASE ~ReadTwice(f, t)
    <2>1. /\ found' = Extended(f, t, << >>)
          /\ scan' = [scan EXCEPT !.pending = P, !.read = @ \cup {[file |-> f, text |-> t, policy |-> << >>]}]
        BY <1>0, <1>3, <1>6 DEF ReadFile
    <2>2. scan \in AScan
        BY <1>1 DEF UnderWay
    <2>3. scan' = [scan EXCEPT !.pending = P, !.begun = B, !.read = @ \cup {[file |-> f, text |-> t, policy |-> << >>]}]
        BY <1>3, <2>1, <2>2 DEF AScan
    <2> QED BY <1>1, <1>2, <1>3, <1>4, <2>1, <2>3, DoneHolds
<1> QED BY <1>5, <1>6

LEMMA ReadPolicyHolds == ASSUME ScannerInv, NEW f \in Numbered, ReadPolicy(f) PROVE ScannerInv'
<1>1. PICK r \in scan.begun, policy \in {folder[f].text, << >>} :
        /\ r.file = f
        /\ scan' = [scan EXCEPT !.begun = @ \ {r}, !.read = @ \cup {[file |-> f, text |-> r.text, policy |-> policy]}]
        /\ found' = Extended(f, r.text, policy)
    BY DEF ReadPolicy
<1>2. /\ scan.at = "reading" /\ UnderWay
      /\ UNCHANGED <<folder, accepted, scans, edits>>
    BY DEF ReadPolicy, ScannerInv
<1>3. policy \in Legible
    <2>1. folder[f] \in File
        BY DEF ScannerInv, Numbered
    <2> QED BY <1>1, <2>1 DEF Legible, File
<1>4. scan \in AScan
    BY <1>2 DEF UnderWay
<1>5. PICK text, P, B : text = r.text /\ P = scan.pending /\ B = scan.begun \ {r}
    OBVIOUS
<1>6. text \in Legible
    BY <1>1, <1>4, <1>5 DEF AScan, Legible
<1>7. /\ f \notin P
      /\ \A q \in B : q.file # f
      /\ \A q \in scan.read : q.file # f
      /\ scan.options.root # 0 => f = scan.options.root
    BY <1>1, <1>2, <1>5 DEF UnderWay
<1>8. scan' = [scan EXCEPT !.pending = P, !.begun = B, !.read = @ \cup {[file |-> f, text |-> text, policy |-> policy]}]
    BY <1>1, <1>4, <1>5 DEF AScan
<1>9. /\ P \subseteq scan.pending /\ B \subseteq scan.begun
      /\ found' = Extended(f, text, policy)
    BY <1>1, <1>5
<1> QED BY <1>2, <1>3, <1>6, <1>7, <1>8, <1>9, DoneHolds

(* What comes first by four numbers comes first by the first that differ.  *)
LEMMA FirstOfFour ==
    ASSUME NEW a \in Nat, NEW b \in Nat, NEW c \in Nat, NEW d,
           NEW e \in Nat, NEW f \in Nat, NEW g \in Nat, NEW h, Less(<<a, b, c, d>>, <<e, f, g, h>>)
    PROVE  a =< e /\ (a = e => b =< f) /\ (a = e /\ b = f => c =< g)
<1> DEFINE x == <<a, b, c, d>>
           y == <<e, f, g, h>>
<1>1. PICK k \in 1 .. 4 : x[k] < y[k] /\ \A l \in 1 .. k - 1 : x[l] = y[l]
    BY DEF Less
<1>2. k = 1 \/ k = 2 \/ k = 3 \/ k = 4
    OBVIOUS
<1> QED BY <1>1, <1>2

(* The report lists every finding that is fresh, by level, file and line.  *)
LEMMA EndScanHolds ==
    ASSUME ScannerInv, NEW wrote \in BOOLEAN, NEW failOn \in FailOn, EndScan(wrote, failOn)
    PROVE  ScannerInv'
<1> DEFINE o == scan.options
           fresh == {i \in DOMAIN found : /\ IsCategoryEnabled(o.config, found[i].category)
                                          /\ Fingerprint(found[i]) \notin scan.known}
           level(x) == Overridden(o.config, x)
           key(i) == <<Rank(level(found[i])), found[i].file, found[i].line, i>>
           keys == {key(i) : i \in fresh}
           at == Sorted(keys)
           N == Cardinality(keys)
           report == [n \in DOMAIN at |-> LET x == found[at[n][4]] IN [finding |-> x, severity |-> level(x)]]
           exit == IF ~wrote THEN 1 ELSE IF failOn = "hgih" THEN 2 ELSE IF ShouldFail(failOn, report) THEN 1 ELSE 0
<1>1. /\ scan.at = "reading" /\ scan.pending = {} /\ scan.begun = {}
      /\ accepted' = IF wrote /\ o.write THEN {Fingerprint(found[i]) : i \in fresh} ELSE accepted
      /\ scan' = [at |-> "ended", options |-> o, failOn |-> failOn, read |-> scan.read, known |-> scan.known,
                  report |-> IF wrote THEN report ELSE << >>, exit |-> exit]
      /\ folder' = folder /\ found' = found /\ scans' = scans /\ edits' = edits
    BY Zenon DEF EndScan
<1>2. UnderWay
    BY <1>1 DEF ScannerInv
<1>3. o \in Options /\ scan.read \subseteq [file : Numbered, text : Legible, policy : Legible]
    BY <1>2 DEF UnderWay, AScan
<1>4. \A i \in DOMAIN found : i \in Nat /\ found[i] \in AnyFinding /\ found[i].file \in Nat /\ found[i].line \in Nat
    BY AnyFindingTells, ElementOfSeq DEF ScannerInv
<1>5. accepted' \subseteq AnyFinding
    BY <1>1, <1>4 DEF ScannerInv, Fingerprint
<1>6. keys \subseteq [1 .. 4 -> Nat]
    BY <1>4, RankIsNat
<1>7. IsFiniteSet(keys)
    <2> DEFINE map == [i \in fresh |-> key(i)]
    <2>1. map \in Surjection(fresh, keys)
        BY DEF Surjection
    <2>2. IsFiniteSet(DOMAIN found)
        <3>1. found \in Seq(AnyFinding)
            BY DEF ScannerInv
        <3>2. Len(found) \in Int /\ 1 \in Int /\ DOMAIN found = 1 .. Len(found)
            BY <3>1, LenProperties
        <3> QED BY <3>2, FS_Interval
    <2>3. IsFiniteSet(fresh)
        BY <2>2, FS_Subset
    <2> HIDE DEF map, fresh, keys
    <2> QED BY <2>1, <2>3, FS_Surjection
<1>8. /\ N \in Nat /\ DOMAIN at = 1 .. N
      /\ \A n \in 1 .. N : at[n] \in keys
      /\ \A x \in keys : \E n \in 1 .. N : at[n] = x
      /\ \A i, j \in 1 .. N : i < j => Less(at[i], at[j])
    <2>1. 4 \in 1 .. 4
        OBVIOUS
    <2> HIDE DEF keys
    <2> QED BY <1>6, <1>7, <2>1, SortedLists
<1> HIDE DEF at, N
<1>9. DOMAIN report = 1 .. N
    BY <1>8
<1>10. \A n \in 1 .. N : \E i \in fresh :
            at[n] = key(i) /\ report[n].finding = found[i] /\ report[n].severity = level(found[i])
    BY <1>8
<1>11. \A i \in fresh : \E n \in 1 .. N : report[n].severity = level(found[i])
    <2> SUFFICES ASSUME NEW i \in fresh
                 PROVE  \E n \in 1 .. N : report[n].severity = level(found[i])
        OBVIOUS
    <2>1. PICK n \in 1 .. N : at[n] = key(i)
        BY <1>8
    <2> QED BY <1>8, <2>1
<1>12. ASSUME NEW i \in 1 .. N, NEW j \in 1 .. N, i < j
       PROVE  /\ Rank(report[i].severity) =< Rank(report[j].severity)
              /\ report[i].severity = report[j].severity =>
                    /\ report[i].finding.file =< report[j].finding.file
                    /\ report[i].finding.file = report[j].finding.file
                        => report[i].finding.line =< report[j].finding.line
    <2>1. PICK a \in fresh : at[i] = key(a) /\ report[i].finding = found[a] /\ report[i].severity = level(found[a])
        BY <1>10
    <2>2. PICK b \in fresh : at[j] = key(b) /\ report[j].finding = found[b] /\ report[j].severity = level(found[b])
        BY <1>10
    <2>3. Less(key(a), key(b))
        <3>1. Less(at[i], at[j])
            <4> HIDE DEF fresh, key, keys, level, report
            <4> QED BY <1>8, <1>12
        <3>2. at[i] = key(a) /\ at[j] = key(b)
            BY <2>1, <2>2
        <3> HIDE DEF key
        <3> QED BY <3>1, <3>2
    <2>4. /\ found[a].file \in Nat /\ found[b].file \in Nat
          /\ found[a].line \in Nat /\ found[b].line \in Nat
          /\ Rank(level(found[a])) \in Nat /\ Rank(level(found[b])) \in Nat
        BY <1>4, RankIsNat
    <2> HIDE DEF level, report, fresh
    <2>5. /\ Rank(level(found[a])) =< Rank(level(found[b]))
          /\ Rank(level(found[a])) = Rank(level(found[b])) => found[a].file =< found[b].file
          /\ Rank(level(found[a])) = Rank(level(found[b])) /\ found[a].file = found[b].file
                => found[a].line =< found[b].line
        BY <2>3, <2>4, FirstOfFour
    <2> HIDE DEF key
    <2> QED BY <2>1, <2>2, <2>5
<1> HIDE DEF report
<1>13. ASSUME exit = 0, failOn # "none", NEW r \in scan.read,
              NEW x \in Problems(r.text, r.policy, folder[r.file].place.suffix, NameOf(r.file, o))
       PROVE  \/ ~IsCategoryEnabled(o.config, x.category)
              \/ Rank(level(x)) > Rank(failOn)
              \/ x \in scan.known
              \/ Cardinality(InFile(found, NameOf(r.file, o))) = Cap(o.config)
    <2> DEFINE name == NameOf(r.file, o)
               s == ScanFile(r.text, r.policy, folder[r.file].place.suffix, name, Cap(o.config))
    <2>1. IsTold(r) /\ IsList(r.text) /\ IsList(r.policy) /\ Cap(o.config) \in Nat \ {0}
        BY <1>2, <1>3, LegibleIsList, CapIsPositive DEF UnderWay
    <2>2. /\ Cardinality(InFile(found, name)) = Len(s)
          /\ \A i \in DOMAIN s : \E j \in DOMAIN found : found[j] = s[i]
        BY <2>1 DEF IsTold
    <2>3. Len(s) = Cap(o.config) \/ \E i \in DOMAIN s : s[i] = x
        BY <2>1, FileIsScanned
    <2> HIDE DEF s, name
    <2>4. CASE Len(s) = Cap(o.config)
        BY <2>2, <2>4 DEF name
    <2>5. CASE \E i \in DOMAIN s : s[i] = x
        <3>1. PICK j \in DOMAIN found : found[j] = x
            BY <2>2, <2>5
        <3>2. CASE j \notin fresh
            BY <3>1, <3>2 DEF Fingerprint
        <3>3. CASE j \in fresh
            <4>1. PICK n \in 1 .. N : report[n].severity = level(x)
                BY <1>11, <3>1, <3>3
            <4>2. ~ShouldFail(failOn, report)
                BY <1>13
            <4>3. ~(Rank(level(x)) =< Rank(failOn))
                BY <1>9, <1>13, <4>1, <4>2 DEF ShouldFail
            <4> QED BY <4>3, RankIsNat
        <3> QED BY <3>2, <3>3
    <2> QED BY <2>3, <2>4, <2>5
<1>14. exit \in {0, 1, 2}
    OBVIOUS
<1> HIDE DEF exit, fresh
<1>15. GateSound'
    <2>1. /\ scan'.exit = exit /\ scan'.failOn = failOn /\ scan'.read = scan.read /\ scan'.known = scan.known
          /\ scan'.options = o /\ scan'.report = IF wrote THEN report ELSE << >>
        BY <1>1
    <2>2. \A i, j \in DOMAIN scan'.report : i < j =>
            /\ Rank(scan'.report[i].severity) =< Rank(scan'.report[j].severity)
            /\ scan'.report[i].severity = scan'.report[j].severity =>
                /\ scan'.report[i].finding.file =< scan'.report[j].finding.file
                /\ scan'.report[i].finding.file = scan'.report[j].finding.file
                    => scan'.report[i].finding.line =< scan'.report[j].finding.line
        BY <1>9, <1>12, <2>1
    <2> QED BY <1>1, <1>13, <2>1, <2>2 DEF GateSound, InFile
<1>16. scan'.at = "ended" /\ scan'.exit \in {0, 1, 2} /\ scan'.failOn \in FailOn
    BY <1>1, <1>14
<1> QED BY <1>1, <1>5, <1>15, <1>16 DEF ScannerInv, Numbered

LEMMA ScannerInvariant == ScannerSpec => []ScannerInv
<1>1. ScannerInit => ScannerInv
    BY ScannerAssumption, EmptySeq DEF ScannerInit, ScannerInv, GateSound
<1>2. ScannerInv /\ [ScannerNext]_scanVars => ScannerInv'
    <2> SUFFICES ASSUME ScannerInv, [ScannerNext]_scanVars
                 PROVE  ScannerInv'
        OBVIOUS
    <2>1. CASE UNCHANGED scanVars
        <3>1. ASSUME NEW r
              PROVE  IsTold(r)' <=> IsTold(r)
            BY <2>1 DEF scanVars, IsTold
        <3>2. UnderWay' <=> UnderWay
            BY <2>1, <3>1 DEF scanVars, UnderWay, AScan, Numbered
        <3> QED BY <2>1, <3>2 DEF scanVars, ScannerInv, GateSound, Numbered
    <2> QED BY <2>1, StartScanHolds, ExitHolds, ReadFileHolds, ReadPolicyHolds, EditHolds, EndScanHolds DEF ScannerNext
<1> QED BY <1>1, <1>2, PTL DEF ScannerSpec

(* Type correctness (scan_code and scan, and what they keep).              *)
THEOREM ScannerTypeCorrect == ScannerSpec => []ScannerTypeOK
<1>1. ScannerInv => ScannerTypeOK
    BY AnyFindingTells, ElementOfSeq DEF ScannerInv, ScannerTypeOK, UnderWay, AScan
<1> QED BY <1>1, ScannerInvariant, PTL

THEOREM GateIsSound == ScannerSpec => []GateSound
<1>1. ScannerInv => GateSound
    BY DEF ScannerInv
<1> QED BY <1>1, ScannerInvariant, PTL
=============================================================================
