-------------------------- MODULE ComponentsProofs --------------------------
(***************************************************************************)
(* Theorems about the parts around the gateway, and about all the          *)
(* components side by side.                                                *)
(*   Callbacks: for every set of runs, every number of streamed tokens, and*)
(* both frameworks.                                                        *)
(*   Surfaces: for every situation a policy file can be in, on every surface.*)
(*   Assessment: for every collection of juries, with any number of jurors *)
(* set to look at anything, and for plans of any length.                   *)
(*   Serving: for every catalog of models, any number of providers, and any*)
(* number of requests.                                                     *)
(***************************************************************************)
EXTENDS MCComponents, AuditProofs, OfflineProofs, FiniteSetTheorems, WellFoundedInduction, TLAPS

USE CallbackAssumption

(* The text of a run is a sequence of pieces.                              *)
LEMMA StreamedIsText ==
    ASSUME CallbackTypeOK, NEW r \in Runs
    PROVE  Streamed(r) \in Seq(Runs)
<1> DEFINE n == streamed[r]
<1>1. n \in Nat
    BY DEF CallbackTypeOK
<1> HIDE DEF n
<1>2. [i \in 1 .. n |-> r] \in Seq(Runs)
    BY <1>1
<1> QED BY <1>2 DEF Streamed, n

(* Type correctness (start, add_token, finish and error of the handler).   *)
THEOREM CallbackTypeCorrect == CallbackSpec => []CallbackTypeOK
<1>1. CallbackInit => CallbackTypeOK
    BY DEF CallbackInit, CallbackTypeOK, Frameworks, SomeRun, NoReview
<1>2. CallbackTypeOK /\ [CallbackNext]_callbackVars => CallbackTypeOK'
    <2> SUFFICES ASSUME CallbackTypeOK, [CallbackNext]_callbackVars
                 PROVE  CallbackTypeOK'
        OBVIOUS
    <2> USE DEF CallbackTypeOK, SomeRun, OpenRuns
    <2>1. ASSUME NEW keys, NEW r \in Runs, tags' = Tagged(keys, r)
          PROVE  tags' \in [Keys(framework) -> SomeRun]
        BY <2>1 DEF Tagged
    <2>2. ASSUME NEW r \in Runs, StartRun(r)
          PROVE  CallbackTypeOK'
        BY <2>1, <2>2 DEF StartRun
    <2>3. ASSUME NEW r \in Runs, AddToken(r)
          PROVE  CallbackTypeOK'
        BY <2>3 DEF AddToken
    <2>4. ASSUME NEW r \in Runs, BeginFinish(r)
          PROVE  CallbackTypeOK'
        <3>1. output' \in Seq(Runs)
            <4>1. PICK out \in GivenOutputs(r) : output' = IF out = Nobody THEN chunks ELSE out
                BY <2>4 DEF BeginFinish
            <4>2. Streamed(r) \in Seq(Runs) /\ <<>> \in Seq(Runs)
                BY StreamedIsText
            <4>3. out \in {Nobody, Streamed(r), <<>>}
                BY <4>1 DEF GivenOutputs
            <4> QED BY <4>1, <4>2, <4>3
        <3>2. tags' \in [Keys(framework) -> SomeRun]
            BY <2>1, <2>4 DEF BeginFinish
        <3>3. [prompt |-> prompt, tags |-> tags'] \in [prompt : SomeRun, tags : [Keys(framework) -> SomeRun]]
            BY <3>2
        <3>4. request' = [request EXCEPT ![r] = [prompt |-> prompt, tags |-> tags']]
            BY <2>4 DEF BeginFinish
        <3>5. request' \in [Runs -> [prompt : SomeRun, tags : [Keys(framework) -> SomeRun]] \cup {NoReview}]
            BY <3>3, <3>4
        <3> QED BY <2>4, <3>1, <3>2, <3>5 DEF BeginFinish
    <2>5. ASSUME NEW r \in Runs, EndFinish(r) \/ FailRun(r)
          PROVE  CallbackTypeOK'
        BY <2>5 DEF EndFinish, FailRun
    <2>6. CASE UNCHANGED callbackVars
        BY <2>6 DEF callbackVars
    <2> QED BY <2>2, <2>3, <2>4, <2>5, <2>6 DEF CallbackNext
<1> QED BY <1>1, <1>2, PTL DEF CallbackSpec

-----------------------------------------------------------------------------
(* While a run goes on and no other one interrupts it, the handler's only  *)
(* prompt, token list and metadata are about this run.                     *)
Owned(r) ==
    /\ progress[r] = "streaming" =>
        /\ prompt = r
        /\ chunks = Streamed(r)
        /\ \A k \in Keys(framework) \cap StartKeys : tags[k] = r
    /\ progress[r] = "ending" =>
        /\ prompt = r
        /\ output = IF given[r] = Nobody THEN Streamed(r) ELSE given[r]
        /\ \A k \in Keys(framework) : tags[k] = r
        /\ request[r].prompt = r
        /\ \A k \in Keys(framework) : request[r].tags[k] = r
    /\ progress[r] = "ended" =>
        /\ review[r].prompt = r
        /\ review[r].request.prompt = r
        /\ review[r].output = IF given[r] = Nobody THEN Streamed(r) ELSE given[r]
        /\ \A k \in Keys(framework) : review[r].tags[k] = r /\ review[r].request.tags[k] = r

OwnedInv ==
    /\ \A r \in Runs : progress[r] = "new" => streamed[r] = 0
    /\ DOMAIN given = Runs /\ DOMAIN review = Runs
    /\ \A r \in Runs \ mixed : Owned(r)

(* What a run leaves alone it does not disturb.                            *)
LEMMA OwnedStays ==
    ASSUME NEW r \in Runs, Owned(r),
           UNCHANGED <<framework, progress[r], streamed[r], given[r], prompt, chunks, tags, output, request[r], review[r]>>
    PROVE  Owned(r)'
BY DEF Owned, Streamed

(* A step of one run leaves what others have that are not under way, and   *)
(* all others that are under way are interrupted by it.                    *)
LEMMA OthersEnded ==
    ASSUME NEW r \in Runs, r \notin OpenRuns, Owned(r),
           UNCHANGED <<framework, progress[r], streamed[r], given[r], review[r]>>
    PROVE  Owned(r)'
BY DEF Owned, Streamed, OpenRuns

(* The keys that a handler writes at the start and at the end are all it   *)
(* has.                                                                    *)
LEMMA KeysAreWritten ==
    ASSUME CallbackTypeOK
    PROVE  Keys(framework) \subseteq StartKeys \cup EndKeys
BY DEF Keys, StartKeys, EndKeys, CallbackTypeOK, Frameworks

LEMMA OwnedInductive == CallbackSpec => []OwnedInv
<1>1. CallbackInit => OwnedInv
    BY DEF CallbackInit, OwnedInv, Owned
<1>2. CallbackTypeOK /\ OwnedInv /\ [CallbackNext]_callbackVars => OwnedInv'
    <2> SUFFICES ASSUME CallbackTypeOK, OwnedInv, [CallbackNext]_callbackVars
                 PROVE  OwnedInv'
        OBVIOUS
    <2> USE DEF OwnedInv, CallbackTypeOK
    <2>1. ASSUME NEW r \in Runs, StartRun(r)
          PROVE  OwnedInv'
        <3>1. \A q \in Runs \ mixed' : q # r => Owned(q)'
            <4> SUFFICES ASSUME NEW q \in Runs \ mixed', q # r
                         PROVE  Owned(q)'
                OBVIOUS
            <4>1. q \notin OpenRuns /\ Owned(q)
                BY <2>1 DEF StartRun
            <4>2. UNCHANGED <<framework, progress[q], streamed[q], given[q], review[q]>>
                BY <2>1 DEF StartRun
            <4> QED BY <4>1, <4>2, OthersEnded
        <3>2. Owned(r)'
            <4>1. /\ progress'[r] = "streaming" /\ prompt' = r /\ chunks' = <<>>
                  /\ streamed'[r] = 0 /\ framework' = framework
                BY <2>1 DEF StartRun
            <4>2. Streamed(r)' = <<>>
                BY <4>1 DEF Streamed
            <4>3. \A k \in Keys(framework) \cap StartKeys : tags'[k] = r
                BY <2>1 DEF StartRun, Tagged
            <4> QED BY <4>1, <4>2, <4>3 DEF Owned
        <3> QED BY <2>1, <3>1, <3>2 DEF StartRun
    <2>2. ASSUME NEW r \in Runs, AddToken(r)
          PROVE  OwnedInv'
        <3>1. \A q \in Runs \ mixed' : q # r => Owned(q)'
            <4> SUFFICES ASSUME NEW q \in Runs \ mixed', q # r
                         PROVE  Owned(q)'
                OBVIOUS
            <4>1. q \notin OpenRuns /\ Owned(q)
                BY <2>2 DEF AddToken
            <4>2. UNCHANGED <<framework, progress[q], streamed[q], given[q], review[q]>>
                BY <2>2 DEF AddToken
            <4> QED BY <4>1, <4>2, OthersEnded
        <3>2. r \notin mixed' => Owned(r)'
            <4> SUFFICES ASSUME r \notin mixed'
                         PROVE  Owned(r)'
                OBVIOUS
            <4>1. /\ Owned(r) /\ progress[r] = "streaming" /\ progress'[r] = "streaming"
                  /\ streamed[r] \in Nat /\ streamed'[r] = streamed[r] + 1
                  /\ chunks' = Append(chunks, r)
                  /\ UNCHANGED <<framework, prompt, tags>>
                BY <2>2 DEF AddToken
            <4>2. chunks = Streamed(r)
                BY <4>1 DEF Owned
            <4>3. chunks' = Streamed(r)'
                BY <4>1, <4>2 DEF Streamed
            <4> QED BY <4>1, <4>3 DEF Owned
        <3> QED BY <2>2, <3>1, <3>2 DEF AddToken
    <2>3. ASSUME NEW r \in Runs, BeginFinish(r)
          PROVE  OwnedInv'
        <3>1. \A q \in Runs \ mixed' : q # r => Owned(q)'
            <4> SUFFICES ASSUME NEW q \in Runs \ mixed', q # r
                         PROVE  Owned(q)'
                OBVIOUS
            <4>1. q \notin OpenRuns /\ Owned(q)
                BY <2>3 DEF BeginFinish
            <4>2. UNCHANGED <<framework, progress[q], streamed[q], given[q], review[q]>>
                BY <2>3 DEF BeginFinish
            <4> QED BY <4>1, <4>2, OthersEnded
        <3>2. r \notin mixed' => Owned(r)'
            <4> SUFFICES ASSUME r \notin mixed'
                         PROVE  Owned(r)'
                OBVIOUS
            <4>1. /\ Owned(r) /\ progress[r] = "streaming" /\ progress'[r] = "ending"
                  /\ tags' = Tagged(EndKeys, r)
                  /\ request' = [request EXCEPT ![r] = [prompt |-> prompt, tags |-> tags']]
                  /\ UNCHANGED <<framework, streamed, prompt>>
                BY <2>3 DEF BeginFinish
            <4>2. /\ prompt = r /\ chunks = Streamed(r)
                  /\ \A k \in Keys(framework) \cap StartKeys : tags[k] = r
                BY <4>1 DEF Owned
            <4>3. output' = IF given'[r] = Nobody THEN Streamed(r) ELSE given'[r]
                BY <2>3, <4>2 DEF BeginFinish
            <4>4. Streamed(r)' = Streamed(r)
                BY <4>1 DEF Streamed
            <4>5. \A k \in Keys(framework) : tags'[k] = r
                BY <4>1, <4>2, KeysAreWritten DEF Tagged
            <4>6. request'[r].prompt = r /\ request'[r].tags = tags'
                BY <4>1, <4>2
            <4> QED BY <4>1, <4>2, <4>3, <4>4, <4>5, <4>6 DEF Owned
        <3> QED BY <2>3, <3>1, <3>2 DEF BeginFinish
    <2>4. ASSUME NEW r \in Runs, EndFinish(r)
          PROVE  OwnedInv'
        <3>1. \A q \in Runs \ mixed : q # r => Owned(q)'
            <4> SUFFICES ASSUME NEW q \in Runs \ mixed, q # r
                         PROVE  Owned(q)'
                OBVIOUS
            <4>1. UNCHANGED <<framework, progress[q], streamed[q], given[q], prompt, chunks, tags, output, request[q], review[q]>>
                BY <2>4 DEF EndFinish
            <4> QED BY <4>1, OwnedStays
        <3>2. r \notin mixed => Owned(r)'
            <4> SUFFICES ASSUME r \notin mixed
                         PROVE  Owned(r)'
                OBVIOUS
            <4>1. /\ Owned(r) /\ progress[r] = "ending" /\ progress'[r] = "ended"
                  /\ review'[r] = [prompt |-> prompt, output |-> output, tags |-> tags, request |-> request[r]]
                  /\ UNCHANGED <<framework, streamed, given>>
                BY <2>4 DEF EndFinish
            <4>2. Streamed(r)' = Streamed(r)
                BY <4>1 DEF Streamed
            <4> QED BY <4>1, <4>2 DEF Owned
        <3> QED BY <2>4, <3>1, <3>2 DEF EndFinish
    <2>5. ASSUME NEW r \in Runs, FailRun(r)
          PROVE  OwnedInv'
        <3>1. \A q \in Runs \ mixed : q # r => Owned(q)'
            <4> SUFFICES ASSUME NEW q \in Runs \ mixed, q # r
                         PROVE  Owned(q)'
                OBVIOUS
            <4>1. UNCHANGED <<framework, progress[q], streamed[q], given[q], prompt, chunks, tags, output, request[q], review[q]>>
                BY <2>5 DEF FailRun
            <4> QED BY <4>1, OwnedStays
        <3>2. Owned(r)'
            BY <2>5 DEF FailRun, Owned
        <3> QED BY <2>5, <3>1, <3>2 DEF FailRun
    <2>6. CASE UNCHANGED callbackVars
        <3>1. \A q \in Runs \ mixed : Owned(q)'
            BY <2>6, OwnedStays DEF callbackVars
        <3> QED BY <2>6, <3>1 DEF callbackVars
    <2> QED BY <2>1, <2>2, <2>3, <2>4, <2>5, <2>6 DEF CallbackNext
<1> QED BY <1>1, <1>2, CallbackTypeCorrect, PTL DEF CallbackSpec

(* A run that no other one interrupted is reviewed as what it was,         *)
(* whatever earlier runs left in the handler (start against finish).       *)
THEOREM ReviewIsOfOneRun == CallbackSpec => []ReviewedItsOwnRun
<1>1. OwnedInv => ReviewedItsOwnRun
    BY DEF OwnedInv, Owned, ReviewedItsOwnRun
<1> QED BY <1>1, OwnedInductive, PTL

-----------------------------------------------------------------------------
(* What a surface tells about a situation is one of the kinds of telling   *)
(* there are.                                                              *)
LEMMA StoryType ==
    ASSUME situation \in Situation, loaded \in BOOLEAN, NEW surface \in Pipelines \cup Probes \cup ToolGates
    PROVE  /\ DecisionAt(surface) \in Verdicts
           /\ StoryAt(surface) \in
                [allowed : {"yes", "no", "unsaid"}, status : {0, 200, 202, 403},
                 blocked : {"yes", "no", "unsaid"}, ran : {"nothing", "original", "redacted"}]
<1>1. ChatDecision \in Verdicts /\ EngineDecision \in Verdicts /\ \A s : ToolDecision(s) \in Verdicts
    BY DEF ChatDecision, Chosen, ToolDecision, EngineDecision, Situation, Verdicts
<1>2. DecisionAt(surface) \in Verdicts
    BY <1>1 DEF DecisionAt, Situation
<1>3. \A d \in Verdicts : Rejection(d).status \in {200, 202, 403} /\ Rejection(d).blocked \in {"yes", "no"}
    BY DEF Rejection, RejectionStatus, IsBlocked, Verdicts
<1>5. ModelRan \in {"nothing", "original", "redacted"} /\ TheText \in {"original", "redacted"}
    BY DEF ModelRan, TheText
<1> DEFINE Told == [allowed : {"yes", "no", "unsaid"}, status : {0, 200, 202, 403},
                    blocked : {"yes", "no", "unsaid"}, ran : {"nothing", "original", "redacted"}]
<1>6. Silent \in Told /\ CheckStory \in Told /\ ToolCheckStory \in Told
    BY <1>1, <1>3, <1>5 DEF Tell, CheckStory, ToolCheckStory, Silent, Story, NoRejection, Story, NoRejection
<1>7. NodeStory \in Told /\ WrapperStory \in Told /\ InputStory \in Told
    BY <1>5 DEF Tell, NodeStory, WrapperStory, InputStory, Silent, Story, NoRejection
<1>8. OutputStory \in Told /\ FinishStory \in Told /\ ToolComponentStory \in Told
    BY DEF Tell, OutputStory, FinishStory, ToolComponentStory, Silent, Story, NoRejection
<1> HIDE DEF Told
<1>9. StoryAt(surface) \in Told
    BY <1>6, <1>7, <1>8 DEF StoryAt, Pipelines, Probes, ToolGates
<1> QED BY <1>2, <1>9 DEF Told

(* The evidence for AGT permits what the decision permits.                 *)
LEMMA EvidenceIsOfDecision ==
    ASSUME NEW decision
    PROVE  /\ AgtEvidence(decision).allowed <=> decision \in Permitting
           /\ AgtEvidence(decision).outcome = "permit" <=> decision \in Permitting
BY Zenon DEF AgtEvidence

(* Asked about anything, a surface tells what AllowedIsBacked demands.     *)
LEMMA AskedIsBacked ==
    ASSUME situation \in Situation, loaded \in BOOLEAN, NEW surface \in Pipelines \cup Probes \cup ToolGates,
           Ask(surface)
    PROVE  AllowedIsBacked'
<1> USE EvidenceIsOfDecision DEF Story, NoRejection, Permitting, Pipelines, Probes, ToolGates, Silent, Tell, Rejection, RejectionStatus, IsBlocked
<1>1. situation' = situation /\ story' = [surface |-> surface, decision |-> DecisionAt(surface),
                                          revokedThen |-> loaded, told |-> StoryAt(surface)]
    BY DEF Ask
<1>2. CASE surface = "sidecar_check"
    <2>1. DecisionAt(surface) = ChatDecision /\ StoryAt(surface) = CheckStory
        BY <1>2 DEF DecisionAt, StoryAt
    <2>2. ChatDecision \in Verdicts
        BY DEF ChatDecision, Chosen, Situation, Verdicts
    <2>3. ModelRan # "nothing" \/ ChatDecision \in Permitting =>
            Chosen \in Permitting /\ ~loaded /\ ~situation.sessionBlocks
        BY DEF ChatDecision, ModelRan
    <2> QED BY <1>1, <1>2, <2>1, <2>2, <2>3 DEF AllowedIsBacked, CheckStory, Chosen, Verdicts
<1>3. CASE surface = "sidecar_tool"
    <2>1. DecisionAt(surface) = ToolDecision("sidecar_tool") /\ StoryAt(surface) = ToolCheckStory
        BY <1>3 DEF DecisionAt, StoryAt
    <2>2. ToolDecision("sidecar_tool") \in {"allow", "require_approval", "deny"}
        BY DEF ToolDecision, EngineDecision, Situation, Verdicts
    <2>3. ToolDecision("sidecar_tool") = "allow" =>
            situation.policy \in Permitting /\ ~loaded /\ ~situation.sessionBlocks
        BY DEF ToolDecision, EngineDecision
    <2> QED BY <1>1, <1>3, <2>1, <2>2, <2>3 DEF AllowedIsBacked, ToolCheckStory
<1>4. CASE surface = "langgraph_node"
    BY <1>1, <1>4 DEF AllowedIsBacked, DecisionAt, StoryAt, NodeStory, ChatDecision, Chosen
<1>5. CASE surface \in {"langchain_invoke", "llamaindex_complete"}
    <2>1. DecisionAt(surface) = ChatDecision /\ StoryAt(surface) = WrapperStory
        BY <1>5 DEF DecisionAt, StoryAt
    <2>2. ModelRan # "nothing" => Chosen \in Permitting /\ ~loaded
        BY DEF ModelRan
    <2> QED BY <1>1, <1>5, <2>1, <2>2 DEF AllowedIsBacked, WrapperStory, Chosen
<1>6. CASE surface = "haystack_input"
    BY <1>1, <1>6 DEF AllowedIsBacked, DecisionAt, StoryAt, InputStory, TheText
<1>7. CASE surface = "haystack_output"
    BY <1>1, <1>7 DEF AllowedIsBacked, DecisionAt, StoryAt, OutputStory
<1>8. CASE surface = "callback_finish"
    BY <1>1, <1>8 DEF AllowedIsBacked, DecisionAt, StoryAt, FinishStory
<1>9. CASE surface = "haystack_tool"
    BY <1>1, <1>9 DEF AllowedIsBacked, DecisionAt, StoryAt, ToolComponentStory, ToolDecision, EngineDecision
<1>10. CASE surface \in {"sidecar_route", "fastapi", "flask", "langgraph_tool"}
    BY <1>1, <1>10 DEF AllowedIsBacked, StoryAt
<1> QED BY <1>2, <1>3, <1>4, <1>5, <1>6, <1>7, <1>8, <1>9, <1>10

(* No two surfaces contradict each other, whatever the policies, monitors  *)
(* and guards make of the subject, and however often the revoke file is    *)
(* edited and the process started again.  The situation stays, and every   *)
(* surface tells its story of it anew (_check, _tool_check, guard_node,    *)
(* run, policy_rejection, to_agt_decision).                                *)
THEOREM SurfacesAgree == SurfacesSpec => [](SurfacesTypeOK /\ AllowedIsBacked)
<1> USE DEF surfaceVars
<1>1. SurfacesInit => SurfacesTypeOK /\ AllowedIsBacked
    BY DEF SurfacesInit, SurfacesTypeOK, AllowedIsBacked, Silent, Story, NoRejection, Pipelines, Probes, ToolGates, Verdicts, AgtEvidence,
       Permitting
<1>2. SurfacesTypeOK /\ AllowedIsBacked /\ [SurfacesNext]_surfaceVars => (SurfacesTypeOK /\ AllowedIsBacked)'
    <2> SUFFICES ASSUME SurfacesTypeOK, AllowedIsBacked, [SurfacesNext]_surfaceVars
                 PROVE  (SurfacesTypeOK /\ AllowedIsBacked)'
        OBVIOUS
    <2>1. CASE EditRevokeFile
        BY <2>1 DEF EditRevokeFile, SurfacesTypeOK, AllowedIsBacked
    <2>2. CASE StartAgain
        BY <2>2 DEF StartAgain, SurfacesTypeOK, AllowedIsBacked
    <2>3. ASSUME NEW surface \in Pipelines \cup Probes \cup ToolGates, Ask(surface)
          PROVE  (SurfacesTypeOK /\ AllowedIsBacked)'
        <3>1. situation \in Situation /\ loaded \in BOOLEAN
            BY DEF SurfacesTypeOK
        <3>2. AllowedIsBacked'
            BY <2>3, <3>1, AskedIsBacked
        <3>3. SurfacesTypeOK'
            BY <2>3, <3>1, StoryType DEF Ask, SurfacesTypeOK
        <3> QED BY <3>2, <3>3
    <2>4. CASE UNCHANGED surfaceVars
        BY <2>4 DEF SurfacesTypeOK, AllowedIsBacked
    <2> QED BY <2>1, <2>2, <2>3, <2>4 DEF SurfacesNext
<1> QED BY <1>1, <1>2, PTL DEF SurfacesSpec

-----------------------------------------------------------------------------
USE BenchAssumption

(* The subject changes by one of the three ways it gets riskier, and what  *)
(* judges it stays.                                                        *)
LEMMA TypeOfAssessment == AssessmentTypeOK /\ [AssessmentNext]_assessmentVars => AssessmentTypeOK'
<1> SUFFICES ASSUME AssessmentTypeOK, [AssessmentNext]_assessmentVars
             PROVE  AssessmentTypeOK'
    OBVIOUS
<1>1. CASE AddFlag
    BY <1>1 DEF AddFlag, AssessmentTypeOK, Flags, Grades
<1>2. CASE Raise
    BY <1>2 DEF Raise, AssessmentTypeOK, Flags, Grades
<1>3. CASE AddStep
    BY <1>3 DEF AddStep, AssessmentTypeOK
<1>4. CASE UNCHANGED assessmentVars
    BY <1>4 DEF assessmentVars, AssessmentTypeOK
<1> QED BY <1>1, <1>2, <1>3, <1>4 DEF AssessmentNext

(* Type correctness (RiskClassifier, JuryConsensusEngine and               *)
(* PlanPreflightChecker as they are used).                                 *)
THEOREM AssessmentTypeCorrect == AssessmentSpec => []AssessmentTypeOK
<1>1. AssessmentInit => AssessmentTypeOK
    BY DEF AssessmentInit, AssessmentTypeOK
<1> QED BY <1>1, TypeOfAssessment, PTL DEF AssessmentSpec

-----------------------------------------------------------------------------
(* The score of the classifier.                                            *)
LEMMA WeightIsNat == ASSUME NEW fact, NEW w \in Nat PROVE Weight(fact, w) \in Nat
BY DEF Weight

LEMMA ScoreIsNat == Score \in Nat
BY WeightIsNat DEF Score

(* A blocked term weighs nothing; every other fact that is added, and      *)
(* every grade that is raised, weighs more than nothing.                   *)
LEMMA ScoreGrows ==
    ASSUME AssessmentTypeOK, AddFlag \/ Raise
    PROVE  \/ facts' \ {"blocked_term"} = facts \ {"blocked_term"} /\ Score' = Score
           \/ Score' > Score
<1>1. ASSUME NEW f \in Flags \ facts, facts' = facts \cup {f}
      PROVE  \/ facts' \ {"blocked_term"} = facts \ {"blocked_term"} /\ Score' = Score
             \/ Score' > Score
    BY <1>1 DEF Flags, Score, Weight
<1>2. CASE Raise
    BY <1>2 DEF Raise, Score, Weight
<1> QED BY <1>1, <1>2 DEF AddFlag

(* The facts whose floating point sum falls short weigh 85 exactly.        *)
LEMMA JustBelowIs85 == JustBelowCritical => Score = 85
<1> DEFINE core == facts \ {"blocked_term"}
<1>1. ASSUME core = {"secrets", "autonomy", "impact_high"}
      PROVE  Score = 85
    BY <1>1 DEF Score, Weight
<1>2. ASSUME core = {"secrets", "autonomy", "declared_high"}
      PROVE  Score = 85
    BY <1>2 DEF Score, Weight
<1>3. ASSUME core = {"secrets", "impact_high", "declared_high"}
      PROVE  Score = 85
    BY <1>3 DEF Score, Weight
<1> QED BY <1>1, <1>2, <1>3 DEF JustBelowCritical

(* So the tier never falls (RiskClassifier._tier).                         *)
LEMMA TierNeverFalls ==
    ASSUME AssessmentTypeOK, AddFlag \/ Raise
    PROVE  TierRank(Tier') >= TierRank(Tier)
<1>0. /\ (Score \in Nat)'
      /\ (JustBelowCritical => Score = 85)'
    BY ScoreIsNat, JustBelowIs85, PTL
<1>1. Score \in Nat /\ Score' \in Nat /\ Score' >= Score
    BY <1>0, ScoreIsNat, ScoreGrows
<1>2. Score >= 85 /\ ~JustBelowCritical => Score' >= 85 /\ ~JustBelowCritical'
    <2> SUFFICES ASSUME Score >= 85, ~JustBelowCritical, JustBelowCritical'
                 PROVE  FALSE
        BY <1>1
    <2>1. Score' = 85
        BY <1>0
    <2>2. facts' \ {"blocked_term"} = facts \ {"blocked_term"}
        BY <1>1, <2>1, ScoreGrows
    <2> QED BY <2>2 DEF JustBelowCritical
<1> QED BY <1>1, <1>2 DEF Tier, TierRank

-----------------------------------------------------------------------------
(* No juror takes back a denial, or comes to allow.                        *)
LEMMA VotesNeverLoosen ==
    ASSUME AssessmentTypeOK, AddFlag \/ Raise, NEW j \in DOMAIN bench
    PROVE  /\ Vote(j) = "deny" => Vote(j)' = "deny"
           /\ Vote(j)' = "allow" => Vote(j) = "allow"
           /\ Vote(j) \in {"allow", "require_approval", "deny"}
<1>1. bench' = bench
    BY DEF AddFlag, Raise
<1>2. /\ Tier = "critical" => Tier' = "critical"
      /\ Tier \in {"high", "critical"} => Tier' \in {"high", "critical"}
    BY TierNeverFalls DEF Tier, TierRank
<1>3. /\ Sensitive => Sensitive'
      /\ "blocked_term" \in facts => "blocked_term" \in facts'
    <2>1. \A f \in {"pii", "phi", "secrets", "blocked_term"} : f \in facts => f \in facts'
        BY DEF AddFlag, Raise
    <2> QED BY <2>1 DEF Sensitive
<1>4. Denies(j) => Denies(j)'
    BY <1>1, <1>2, <1>3 DEF Denies
<1> QED BY <1>1, <1>2, <1>4 DEF Vote

(* The voters for two answers are apart, and no more than all jurors.      *)
LEMMA VotersCounted ==
    ASSUME AssessmentTypeOK, NEW S \in SUBSET DOMAIN bench, NEW T \in SUBSET DOMAIN bench
    PROVE  /\ IsFiniteSet(S) /\ Cardinality(S) \in Nat /\ Cardinality(DOMAIN bench) \in Nat
           /\ S \subseteq T => Cardinality(S) =< Cardinality(T)
           /\ S \cap T = {} => Cardinality(S) + Cardinality(T) =< Cardinality(DOMAIN bench)
<1>1. IsFiniteSet(DOMAIN bench)
    BY DEF AssessmentTypeOK
<1>2. IsFiniteSet(S) /\ IsFiniteSet(T) /\ Cardinality(S) =< Cardinality(DOMAIN bench)
    BY <1>1, FS_Subset
<1>3. Cardinality(S) \in Nat /\ Cardinality(T) \in Nat /\ Cardinality(DOMAIN bench) \in Nat
    BY <1>1, <1>2, FS_CardinalityType
<1>4. S \subseteq T => Cardinality(S) =< Cardinality(T)
    BY <1>2, FS_Subset
<1>5. ASSUME S \cap T = {}
      PROVE  Cardinality(S) + Cardinality(T) =< Cardinality(DOMAIN bench)
    <2>1. Cardinality(S \cup T) = Cardinality(S) + Cardinality(T) - Cardinality(S \cap T)
        BY <1>2, FS_Union
    <2>2. Cardinality(S \cap T) = 0
        BY <1>5, FS_EmptySet
    <2>3. Cardinality(S \cup T) =< Cardinality(DOMAIN bench)
        BY <1>1, FS_Subset
    <2> QED BY <1>3, <2>1, <2>2, <2>3
<1> QED BY <1>2, <1>3, <1>4, <1>5

(* So the jury's verdict is never laxer (JuryConsensusEngine._summarize).  *)
LEMMA VerdictNeverLoosens ==
    ASSUME AssessmentTypeOK, AddFlag \/ Raise, veto \/ MajorityNeeded
    PROVE  Strictness(JuryVerdict') >= Strictness(JuryVerdict)
<1> DEFINE Deny     == Voters("deny")
           Approval == Voters("require_approval")
           Allow    == Voters("allow")
<1>1. UNCHANGED <<bench, asked, veto>> /\ Quorum' = Quorum
    BY DEF AddFlag, Raise, Quorum
<1>2. /\ {Deny, Approval, Allow, Deny', Approval', Allow'} \subseteq SUBSET DOMAIN bench
      /\ Deny \subseteq Deny'
      /\ Allow' \subseteq Allow
      /\ Deny' = {} => Approval \subseteq Approval'
      /\ Approval \cap Allow = {}
    <2>1. /\ Deny = {j \in DOMAIN bench : Vote(j) = "deny"}
          /\ Approval = {j \in DOMAIN bench : Vote(j) = "require_approval"}
          /\ Allow = {j \in DOMAIN bench : Vote(j) = "allow"}
        BY DEF Voters
    <2>2. /\ Deny' = {j \in DOMAIN bench : Vote(j)' = "deny"}
          /\ Approval' = {j \in DOMAIN bench : Vote(j)' = "require_approval"}
          /\ Allow' = {j \in DOMAIN bench : Vote(j)' = "allow"}
        BY <1>1 DEF Voters
    <2>3. \A j \in DOMAIN bench : Vote(j)' \in {"allow", "require_approval", "deny"}
        BY DEF Vote
    <2> HIDE DEF Deny, Approval, Allow
    <2> QED BY <2>1, <2>2, <2>3, VotesNeverLoosen
<1>3. /\ Cardinality(Approval) \in Nat /\ Cardinality(Approval') \in Nat
      /\ Cardinality(Allow) \in Nat /\ Cardinality(Allow') \in Nat
      /\ Cardinality(DOMAIN bench) \in Nat /\ Quorum \in Nat
    BY <1>2, VotersCounted DEF Quorum, AssessmentTypeOK
<1>4. Cardinality(Allow') =< Cardinality(Allow)
    BY <1>2, VotersCounted
<1>5. Deny' = {} => Cardinality(Approval) =< Cardinality(Approval')
    BY <1>2, VotersCounted
<1>6. Cardinality(Approval) + Cardinality(Allow) =< Cardinality(DOMAIN bench)
    BY <1>2, VotersCounted
<1> HIDE DEF Deny, Approval, Allow
<1>7. JuryVerdict = IF veto /\ Deny # {} THEN "deny"
                    ELSE IF Cardinality(Approval) >= Quorum THEN "require_approval"
                    ELSE IF Cardinality(Allow) >= Quorum THEN "allow"
                    ELSE "require_approval"
    BY DEF JuryVerdict, Deny, Approval, Allow
<1>8. JuryVerdict' = IF veto /\ Deny' # {} THEN "deny"
                     ELSE IF Cardinality(Approval') >= Quorum THEN "require_approval"
                     ELSE IF Cardinality(Allow') >= Quorum THEN "allow"
                     ELSE "require_approval"
    BY <1>1 DEF JuryVerdict, Deny, Approval, Allow
<1>9. JuryVerdict = "deny" => JuryVerdict' = "deny"
    BY <1>2, <1>7, <1>8
<1>10. JuryVerdict' = "allow" => JuryVerdict = "allow"
    <2> SUFFICES ASSUME JuryVerdict' = "allow"
                 PROVE  JuryVerdict = "allow"
        OBVIOUS
    <2>1. /\ ~(veto /\ Deny' # {})
          /\ Cardinality(Approval') < Quorum
          /\ Cardinality(Allow') >= Quorum
        BY <1>3, <1>8
    <2>2. ~(veto /\ Deny # {}) /\ Cardinality(Allow) >= Quorum
        BY <1>2, <1>3, <1>4, <2>1
    <2>3. Cardinality(Approval) < Quorum
        <3>1. CASE veto
            BY <1>3, <1>5, <2>1, <3>1
        <3>2. CASE MajorityNeeded
            BY <1>3, <1>6, <2>2, <3>2 DEF MajorityNeeded
        <3> QED BY <3>1, <3>2
    <2> QED BY <1>3, <1>7, <2>2, <2>3
<1> QED BY <1>7, <1>8, <1>9, <1>10 DEF Strictness

-----------------------------------------------------------------------------
(* A plan is allowed just when no step is risky (PlanPreflightChecker).    *)
LEMMA AllowedIsWithoutRisk == PlanAllowed <=> Showing("risky") = {}
BY FS_EmptySet DEF PlanAllowed, HighestSeverity

(* A plan that has a risky step keeps it.                                  *)
LEMMA RiskyStepStays ==
    ASSUME AssessmentTypeOK, AddStep, Showing("risky")' = {}
    PROVE  Showing("risky") = {}
<1>1. PICK shown \in SUBSET Signals : steps' = Append(steps, shown)
    BY DEF AddStep
<1>2. \A k \in DOMAIN steps : k \in DOMAIN steps' /\ steps'[k] = steps[k]
    BY <1>1 DEF AssessmentTypeOK
<1> QED BY <1>2 DEF Showing

(* More risk never loosens a tier, a verdict or the answer about a plan    *)
(* (classify, _summarize and check).                                       *)
THEOREM RiskIsMonotone == AssessmentSpec => MoreRiskNeverLoosens
<1> DEFINE Kept == /\ TierRank(Tier') >= TierRank(Tier)
                   /\ veto \/ MajorityNeeded => Strictness(JuryVerdict') >= Strictness(JuryVerdict)
                   /\ PlanAllowed' => PlanAllowed
           Step == facts' # facts \/ steps' # steps => Kept
<1>1. ASSUME AssessmentTypeOK, [AssessmentNext]_assessmentVars
      PROVE  [Step]_assessmentVars
    <2>1. CASE AddFlag \/ Raise
        <3>1. PlanAllowed' = PlanAllowed
            BY <2>1 DEF AddFlag, Raise, PlanAllowed, HighestSeverity, Showing
        <3> QED BY <1>1, <2>1, <3>1, TierNeverFalls, VerdictNeverLoosens
    <2>2. CASE AddStep
        <3>1. UNCHANGED <<bench, asked, veto, facts>>
            BY <2>2 DEF AddStep
        <3>2. Tier' = Tier
            BY <3>1 DEF Tier, Score, Weight, JustBelowCritical
        <3>3. JuryVerdict' = JuryVerdict
            BY <3>1, <3>2 DEF JuryVerdict, Voters, Vote, Denies, Sensitive, Quorum
        <3>4. PlanAllowed' => PlanAllowed
            <4>1. (PlanAllowed <=> Showing("risky") = {})'
                BY AllowedIsWithoutRisk, PTL
            <4> QED BY <1>1, <2>2, <4>1, RiskyStepStays, AllowedIsWithoutRisk
        <3>5. TierRank(Tier) \in Nat /\ Strictness(JuryVerdict) \in Nat
            BY DEF TierRank, Strictness
        <3> QED BY <3>2, <3>3, <3>4, <3>5
    <2>3. CASE UNCHANGED assessmentVars
        BY <2>3
    <2> QED BY <1>1, <2>1, <2>2, <2>3 DEF AssessmentNext
<1> QED BY <1>1, AssessmentTypeCorrect, PTL DEF AssessmentSpec, MoreRiskNeverLoosens

-----------------------------------------------------------------------------
(* Some numbers have a smallest one.                                       *)
LEMMA SmallestElement ==
    ASSUME NEW T, T \subseteq Nat, T # {}
    PROVE  \E n \in T : \A k \in T : n =< k
<1>0. PICK m \in T : TRUE
    OBVIOUS
<1> DEFINE below == {k \in T : k =< m}
           B == {1 .. n : n \in below}
<1>1. B \subseteq FiniteSubsetsOf(1 .. m)
    <2>1. ASSUME NEW n \in below
          PROVE  1 .. n \in SUBSET (1 .. m) /\ IsFiniteSet(1 .. n)
        BY <1>0, FS_Interval
    <2> QED BY <2>1 DEF FiniteSubsetsOf
<1>2. B # {}
    BY <1>0
<1>3. PICK X \in B : \A Y \in B : <<Y, X>> \notin StrictSubsetOrdering(1 .. m)
    BY <1>1, <1>2, FS_StrictSubsetOrderingWellFounded, WFMin
<1>4. PICK n \in below : X = 1 .. n
    BY <1>3
<1>5. ASSUME NEW k \in T, k < n
      PROVE  FALSE
    <2>1. k \in below
        BY <1>5
    <2>2. 1 .. k \in B
        BY <2>1
    <2>3. <<1 .. k, 1 .. n>> \in (SUBSET (1 .. m)) \X (SUBSET (1 .. m))
        BY <1>5
    <2>4. 1 .. k \subseteq 1 .. n /\ 1 .. k # 1 .. n
        BY <1>5
    <2>5. <<1 .. k, 1 .. n>> \in StrictSubsetOrdering(1 .. m)
        BY <2>3, <2>4 DEF StrictSubsetOrdering
    <2> QED BY <1>3, <1>4, <2>2, <2>5
<1>6. \A k \in T : n =< k
    BY <1>5
<1> QED BY <1>6

(* Induction, told of a set of numbers: if it has 0, and with every number *)
(* the next, it has all.                                                   *)
LEMMA StepByStep ==
    ASSUME NEW S, S \subseteq Nat, 0 \in S, \A n \in Nat : n \in S => n + 1 \in S
    PROVE  S = Nat
<1>1. SUFFICES ASSUME Nat \ S # {} PROVE FALSE
    OBVIOUS
<1>2. PICK n \in Nat \ S : \A k \in Nat \ S : n =< k
    BY <1>1, SmallestElement
<1>3. n # 0 /\ n - 1 \in Nat /\ n - 1 \in S
    BY <1>2
<1> QED BY <1>3

(* Of some places, one has a value that no other exceeds.                  *)
LEMMA LargestOfMany ==
    ASSUME NEW n \in Nat, NEW T, T \subseteq 1 .. n, T # {}, NEW value, \A i \in T : value[i] \in Nat
    PROVE  \E i \in T : \A j \in T : value[i] >= value[j]
<1> DEFINE HasLargest(U) == \E i \in U : \A j \in U : value[i] >= value[j]
           S == {k \in Nat : \A U \in SUBSET T : U \subseteq 1 .. k /\ U # {} => HasLargest(U)}
<1>1. 0 \in S
    <2>1. 1 .. 0 = {}
        OBVIOUS
    <2> QED BY <2>1
<1>2. ASSUME NEW k \in Nat, k \in S
      PROVE  k + 1 \in S
    <2> SUFFICES ASSUME NEW U \in SUBSET T, U \subseteq 1 .. k + 1, U # {}
                 PROVE  HasLargest(U)
        OBVIOUS
    <2> DEFINE V == U \ {k + 1}
    <2>1. V \subseteq 1 .. k /\ V \in SUBSET T
        OBVIOUS
    <2>2. CASE k + 1 \notin U
        <3>1. U \subseteq 1 .. k
            BY <2>1, <2>2
        <3> QED BY <1>2, <3>1
    <2>3. CASE U = {k + 1}
        BY <2>3
    <2>4. CASE k + 1 \in U /\ V # {}
        <3>1. HasLargest(V)
            BY <1>2, <2>1, <2>4
        <3>2. PICK i \in V : \A j \in V : value[i] >= value[j]
            BY <3>1
        <3>3. value[i] \in Nat /\ value[k + 1] \in Nat /\ \A j \in V : value[j] \in Nat
            BY <2>4, <3>2
        <3>4. CASE value[i] >= value[k + 1]
            BY <3>2, <3>4
        <3>5. CASE value[k + 1] > value[i]
            <4>1. \A j \in U : value[k + 1] >= value[j]
                BY <3>2, <3>3, <3>5
            <4> QED BY <2>4, <4>1
        <3> QED BY <3>3, <3>4, <3>5
    <2> QED BY <2>2, <2>3, <2>4
<1> HIDE DEF S
<1>3. S = Nat
    <2>1. S \subseteq Nat
        BY DEF S
    <2> QED BY <1>1, <1>2, <2>1, StepByStep
<1> QED BY <1>3 DEF S

-----------------------------------------------------------------------------
USE CatalogAssumption

(* Of models to choose from, one is the best, one the cheapest, and one    *)
(* comes first.                                                            *)
LEMMA FirstOfPlaces ==
    ASSUME NEW places, places \subseteq Places, places # {}
    PROVE  First(places) \in places
<1>1. \E i \in places : \A j \in places : i =< j
    BY SmallestElement DEF Places
<1> QED BY <1>1 DEF First

(* The best of some places, and the cheapest of some, are some of them.    *)
LEMMA BestOfPlaces ==
    ASSUME NEW places, places \subseteq Places, places # {}
    PROVE  Best(places) # {} /\ Best(places) \subseteq places
<1> DEFINE quality == [i \in places |-> Catalog[i].quality]
<1>1. PICK n \in Nat : Places = 1 .. n
    BY DEF Places
<1>2. \A i \in places : quality[i] \in Nat
    BY DEF IsModel, Places
<1>3. PICK i \in places : \A j \in places : quality[i] >= quality[j]
    BY <1>1, <1>2, LargestOfMany
<1> QED BY <1>3 DEF Best

LEMMA CheapestOfPlaces ==
    ASSUME NEW places, places \subseteq Places, places # {}
    PROVE  Cheapest(places) # {} /\ Cheapest(places) \subseteq places
<1> DEFINE costs == {Catalog[i].cost : i \in places}
<1>1. costs \subseteq Nat /\ costs # {}
    BY DEF IsModel, Places
<1>2. PICK c \in costs : \A d \in costs : c =< d
    BY <1>1, SmallestElement
<1>3. PICK i \in places : c = Catalog[i].cost
    BY <1>2
<1> QED BY <1>2, <1>3 DEF Cheapest

(* The model of a request is available and, if any fits, the best one that *)
(* does.                                                                   *)
RightPlace(i, need) ==
    /\ i \in up
    /\ Candidates(need) # {} => i \in Candidates(need)
    /\ \A j \in Candidates(need) :
        IF need.risky THEN Catalog[j].quality =< Catalog[i].quality
        ELSE Catalog[j].cost >= Catalog[i].cost
             /\ (Catalog[j].cost = Catalog[i].cost => Catalog[j].quality =< Catalog[i].quality)

(* What select picks for a task is a right place for it (select of         *)
(* routing.py, for every routing strategy).                                *)
LEMMA SelectIsRight ==
    ASSUME up \subseteq Places, NEW need, Candidates(need) # {}
    PROVE  RightPlace(Select(need), need)
<1> DEFINE C == Candidates(need)
<1>1. C \subseteq up /\ C \subseteq Places /\ C # {}
    BY DEF Candidates
<1> HIDE DEF C
<1>2. \A i \in C : Catalog[i].cost \in Nat /\ Catalog[i].quality \in Nat
    BY <1>1 DEF IsModel, Places
<1>3. CASE need.risky
    <2>1. Best(C) # {} /\ Best(C) \subseteq C
        BY <1>1, BestOfPlaces
    <2>2. First(Best(C)) \in Best(C)
        BY <1>1, <2>1, FirstOfPlaces
    <2> QED BY <1>1, <1>2, <1>3, <2>1, <2>2 DEF RightPlace, Select, Best, C
<1>4. CASE ~need.risky
    <2>1. Cheapest(C) # {} /\ Cheapest(C) \subseteq C
        BY <1>1, CheapestOfPlaces
    <2>2. Best(Cheapest(C)) # {} /\ Best(Cheapest(C)) \subseteq Cheapest(C)
        BY <1>1, <2>1, BestOfPlaces
    <2> DEFINE i == First(Best(Cheapest(C)))
    <2>3. i \in Best(Cheapest(C))
        BY <1>1, <2>1, <2>2, FirstOfPlaces
    <2> HIDE DEF i
    <2>4. i \in C /\ i \in up
        BY <1>1, <2>1, <2>2, <2>3
    <2>5. ASSUME NEW j \in C
          PROVE  /\ Catalog[j].cost >= Catalog[i].cost
                 /\ Catalog[j].cost = Catalog[i].cost => Catalog[j].quality =< Catalog[i].quality
        <3>1. Catalog[i].cost =< Catalog[j].cost
            BY <2>2, <2>3 DEF Cheapest
        <3>2. ASSUME Catalog[j].cost = Catalog[i].cost
              PROVE  Catalog[j].quality =< Catalog[i].quality
            <4>1. j \in Cheapest(C)
                BY <2>2, <2>3, <3>2 DEF Cheapest
            <4>2. Catalog[i].quality >= Catalog[j].quality
                BY <2>3, <4>1 DEF Best
            <4> QED BY <1>2, <2>4, <4>2
        <3> QED BY <1>2, <2>4, <3>1, <3>2
    <2>6. Select(need) = i
        BY <1>4 DEF Select, i, C
    <2> QED BY <1>4, <2>4, <2>5, <2>6 DEF RightPlace, C
<1> QED BY <1>3, <1>4

-----------------------------------------------------------------------------
(* What a reply comes to: never an error the sidecar takes for a bad       *)
(* request unless the body is no JSON, a text only if there was one, and   *)
(* all of the conversation is passed on but by Bedrock.                    *)
LEMMA WhatIsGenerated ==
    ASSUME NEW provider \in Registrable, NEW roles, NEW reply \in Replies
    PROVE  LET result == Generated(provider, roles, reply) IN
           /\ result.error # "KeyError"
           /\ result.text \in {"text", "empty", "simulated"}
           /\ result.text = "simulated" <=> provider = "local"
           /\ result.text = "text" => reply = "text"
           /\ result.text = "empty" /\ result.error = "none" => reply = "empty" \/ provider = "vertex-ai"
           /\ provider # "bedrock" => result.passed = roles
<1>1. CASE provider = "local"
    BY <1>1 DEF Generated, SimulatedProvider
<1>2. CASE provider # "local"
    <2> DEFINE adapter == AdapterOf(provider)
    <2>1. /\ adapter.lenient <=> provider = "vertex-ai"
          /\ adapter.system <=> provider # "bedrock"
        BY <1>2, Zenon DEF AdapterOf, Registrable, Adapter, OpenAICompatibleProvider, AzureOpenAIProvider,
            AnthropicProvider, BedrockProvider, VertexAIProvider, OllamaProvider, VLLMProvider
    <2>2. Fails(adapter, reply) # "KeyError"
        BY DEF Fails
    <2>3. Fails(adapter, reply) = "none" => reply \in {"text", "empty"} \/ provider = "vertex-ai"
        BY <2>1 DEF Fails, Replies
    <2> DEFINE error  == IF adapter.configuration /\ ~configured THEN "RuntimeError" ELSE Fails(adapter, reply)
               text   == IF reply = "text" THEN "text" ELSE "empty"
               passed == IF adapter.system THEN roles ELSE roles \ {"system"}
    <2>4. error = "RuntimeError" \/ error = Fails(adapter, reply)
        OBVIOUS
    <2>5. provider # "bedrock" => passed = roles
        BY <2>1
    <2>6. text = IF reply = "text" THEN "text" ELSE "empty"
        OBVIOUS
    <2>7. Generated(provider, roles, reply) = [error |-> error, text |-> text, passed |-> passed]
        BY <1>2, Zenon DEF Generated
    <2> HIDE DEF adapter, error, text, passed
    <2> QED BY <1>2, <2>2, <2>3, <2>4, <2>5, <2>6, <2>7
<1> QED BY <1>1, <1>2

-----------------------------------------------------------------------------
(* A request that has its model has the right one, while it waits for the  *)
(* reply and when it is answered: the catalog's availability is not        *)
(* touched under way.                                                      *)
ServingInv ==
    /\ ServingTypeOK
    /\ task.at \in {"routed", "answered"} => RightPlace(task.model, task.need)
    /\ AnsweredFromTheRightPlace

(* A task that is routed has a right place, or failed because no model is  *)
(* up.                                                                     *)
LEMMA RouteKeeps ==
    ASSUME ServingInv, Route
    PROVE  ServingInv'
<1>1. PICK need \in Needs :
        task' = IF up = {} THEN Raised(need, "StopIteration")
                ELSE [at |-> "routed", need |-> need,
                      model |-> IF Candidates(need) = {} THEN First(up) ELSE Select(need)]
    BY DEF Route
<1>2. up' = up /\ registered' = registered /\ configured' = configured /\ up \subseteq Places
    BY DEF Route, ServingInv, ServingTypeOK
<1>3. CASE up = {}
    BY <1>1, <1>2, <1>3 DEF Raised, ServingInv, ServingTypeOK, AnsweredFromTheRightPlace, AnswerTo
<1>4. CASE up # {}
    <2> DEFINE model == IF Candidates(need) = {} THEN First(up) ELSE Select(need)
    <2>1. First(up) \in up
        BY <1>2, <1>4, FirstOfPlaces
    <2>2. Candidates(need) = {} => RightPlace(First(up), need)
        BY <2>1 DEF RightPlace
    <2>3. Candidates(need) # {} => RightPlace(Select(need), need)
        BY <1>2, SelectIsRight
    <2>4. RightPlace(model, need)
        <3>1. CASE Candidates(need) = {}
            BY <2>2, <3>1, Zenon
        <3>2. CASE Candidates(need) # {}
            BY <2>3, <3>2, Zenon
        <3> QED BY <3>1, <3>2
    <2> HIDE DEF model
    <2>5. task' = [at |-> "routed", need |-> need, model |-> model]
        BY <1>1, <1>4 DEF model
    <2>6. RightPlace(task.model, task.need)'
        BY <1>2, <2>4, <2>5 DEF RightPlace, Candidates
    <2>7. ServingTypeOK'
        BY <1>1, <1>2, <2>5 DEF ServingInv, ServingTypeOK
    <2>8. AnsweredFromTheRightPlace'
        BY <2>5 DEF AnsweredFromTheRightPlace
    <2> QED BY <2>5, <2>6, <2>7, <2>8 DEF ServingInv
<1> QED BY <1>3, <1>4

(* An answer is of the place that the task was routed to.                  *)
LEMMA GenerateKeeps ==
    ASSUME ServingInv, Generate
    PROVE  ServingInv'
<1> DEFINE provider == ProviderOf(task.model)
           result(reply) == Generated(provider, task.need.roles, reply)
<1>1. PICK reply \in Replies :
        task' = IF "local" \notin registered THEN Raised(task.need, "KeyError")
                ELSE IF result(reply).error # "none" THEN Raised(task.need, result(reply).error)
                ELSE [at |-> "answered", need |-> task.need, model |-> task.model, provider |-> provider,
                      text |-> result(reply).text, passed |-> result(reply).passed, reply |-> reply]
    BY DEF Generate
<1>2. /\ up' = up /\ registered' = registered /\ configured' = configured
      /\ registered \subseteq Registrable /\ task.need \in Needs /\ RightPlace(task.model, task.need)
    BY DEF Generate, ServingInv, ServingTypeOK
<1>3. provider = (IF Catalog[task.model].provider \in registered THEN Catalog[task.model].provider ELSE "local")
      /\ provider \in Registrable
    BY <1>2 DEF ProviderOf, Registrable
<1> HIDE DEF provider
<1> DEFINE gained == result(reply)
<1>4. /\ gained.error # "KeyError"
      /\ gained.text \in {"text", "empty", "simulated"}
      /\ gained.text = "simulated" <=> provider = "local"
      /\ gained.text = "text" => reply = "text"
      /\ gained.text = "empty" /\ gained.error = "none" => reply = "empty" \/ provider = "vertex-ai"
      /\ provider # "bedrock" => gained.passed = task.need.roles
    BY <1>3, WhatIsGenerated
<1> HIDE DEF gained
<1>5. CASE task' = Raised(task.need, "KeyError") /\ "local" \notin registered
    BY <1>2, <1>5 DEF Raised, ServingInv, ServingTypeOK, AnsweredFromTheRightPlace
<1>6. CASE task' = Raised(task.need, gained.error)
    BY <1>2, <1>4, <1>6 DEF Raised, ServingInv, ServingTypeOK, AnsweredFromTheRightPlace, AnswerTo
<1>7. CASE /\ "local" \in registered /\ gained.error = "none"
           /\ task' = [at |-> "answered", need |-> task.need, model |-> task.model, provider |-> provider,
                       text |-> gained.text, passed |-> gained.passed, reply |-> reply]
    <2>1. RightPlace(task.model, task.need)'
        BY <1>2, <1>7 DEF RightPlace, Candidates
    <2>2. AnsweredFromTheRightPlace'
        <3>1. {i \in up' : Fits(i, task'.need)} = Candidates(task.need)
            BY <1>2, <1>7 DEF Candidates
        <3> QED BY <1>2, <1>3, <1>4, <1>7, <3>1 DEF AnsweredFromTheRightPlace, RightPlace
    <2> QED BY <1>2, <1>4, <1>7, <2>1, <2>2 DEF ServingInv, ServingTypeOK
<1> QED BY <1>1, <1>5, <1>6, <1>7 DEF gained

(* Whatever the catalog, the registry and the replies, an answer is from   *)
(* where the request had to go, and a request that is called bad was not   *)
(* refused for a fault of a provider (ModelRouter.route,                   *)
(* ProviderRegistry.for_model, generate of the adapters).  The router's    *)
(* choice is right when it is made, and stays so until the answer.         *)
THEOREM AnswersAreFromTheRightPlace == ServingSpec => [](ServingTypeOK /\ AnsweredFromTheRightPlace)
<1>1. ServingInit => ServingInv
    BY DEF ServingInit, ServingInv, ServingTypeOK, NoTask, AnsweredFromTheRightPlace
<1>2. ServingInv /\ [ServingNext]_servingVars => ServingInv'
    <2> SUFFICES ASSUME ServingInv, [ServingNext]_servingVars
                 PROVE  ServingInv'
        OBVIOUS
    <2>1. CASE SwitchModel
        BY <2>1 DEF SwitchModel, NoTask, ServingInv, ServingTypeOK, AnsweredFromTheRightPlace
    <2>2. CASE Route
        BY <2>2, RouteKeeps
    <2>3. CASE Generate
        BY <2>3, GenerateKeeps
    <2>4. CASE Return
        BY <2>4 DEF Return, NoTask, ServingInv, ServingTypeOK, AnsweredFromTheRightPlace
    <2>5. CASE UNCHANGED servingVars
        BY <2>5 DEF servingVars, ServingInv, ServingTypeOK, AnsweredFromTheRightPlace, RightPlace, Candidates
    <2> QED BY <2>1, <2>2, <2>3, <2>4, <2>5 DEF ServingNext
<1>3. ServingInv => ServingTypeOK /\ AnsweredFromTheRightPlace
    BY DEF ServingInv
<1> QED BY <1>1, <1>2, <1>3, PTL DEF ServingSpec

-----------------------------------------------------------------------------
(* The components side by side (module MCComponents) are each by itself: a *)
(* step of one is a step of it or leaves it alone.                         *)
LEMMA TrailStandsAlone == ComponentsSpec => TrailSpec
<1>1. ComponentsInit => TrailInit
    BY DEF ComponentsInit
<1>2. [ComponentsNext]_<<component, vars, trailVars, chainVars, breakerVars,
    callbackVars, assessmentVars, surfaceVars, servingVars, scanVars, commandVars>> => [TrailNext]_trailVars
    BY Zenon DEF ComponentsNext
<1> QED BY <1>1, <1>2, PTL DEF ComponentsSpec, TrailSpec

LEMMA ChainStandsAlone == ComponentsSpec => ChainSpec
<1>1. ComponentsInit => ChainInit
    BY DEF ComponentsInit
<1>2. [ComponentsNext]_<<component, vars, trailVars, chainVars, breakerVars,
    callbackVars, assessmentVars, surfaceVars, servingVars, scanVars, commandVars>> => [ChainNext]_chainVars
    BY Zenon DEF ComponentsNext
<1> QED BY <1>1, <1>2, PTL DEF ComponentsSpec, ChainSpec

LEMMA BreakerStandsAlone == ComponentsSpec => BreakerSpec
<1>1. ComponentsInit => BreakerInit
    BY DEF ComponentsInit
<1>2. [ComponentsNext]_<<component, vars, trailVars, chainVars, breakerVars,
    callbackVars, assessmentVars, surfaceVars, servingVars, scanVars, commandVars>> => [BreakerNext]_breakerVars
    BY Zenon DEF ComponentsNext
<1> QED BY <1>1, <1>2, PTL DEF ComponentsSpec, BreakerSpec

LEMMA CallbackStandsAlone == ComponentsSpec => CallbackSpec
<1>1. ComponentsInit => CallbackInit
    BY DEF ComponentsInit
<1>2. [ComponentsNext]_<<component, vars, trailVars, chainVars, breakerVars,
    callbackVars, assessmentVars, surfaceVars, servingVars, scanVars, commandVars>> => [CallbackNext]_callbackVars
    BY Zenon DEF ComponentsNext
<1> QED BY <1>1, <1>2, PTL DEF ComponentsSpec, CallbackSpec

LEMMA AssessmentStandsAlone == ComponentsSpec => AssessmentSpec
<1>1. ComponentsInit => AssessmentInit
    BY DEF ComponentsInit
<1>2. [ComponentsNext]_<<component, vars, trailVars, chainVars, breakerVars,
    callbackVars, assessmentVars, surfaceVars, servingVars, scanVars, commandVars>> => [AssessmentNext]_assessmentVars
    BY Zenon DEF ComponentsNext
<1> QED BY <1>1, <1>2, PTL DEF ComponentsSpec, AssessmentSpec

LEMMA SurfacesStandsAlone == ComponentsSpec => SurfacesSpec
<1>1. ComponentsInit => SurfacesInit
    BY DEF ComponentsInit
<1>2. [ComponentsNext]_<<component, vars, trailVars, chainVars, breakerVars,
    callbackVars, assessmentVars, surfaceVars, servingVars, scanVars, commandVars>> => [SurfacesNext]_surfaceVars
    BY Zenon DEF ComponentsNext
<1> QED BY <1>1, <1>2, PTL DEF ComponentsSpec, SurfacesSpec

LEMMA ServingStandsAlone == ComponentsSpec => ServingSpec
<1>1. ComponentsInit => ServingInit
    BY DEF ComponentsInit
<1>2. [ComponentsNext]_<<component, vars, trailVars, chainVars, breakerVars,
    callbackVars, assessmentVars, surfaceVars, servingVars, scanVars, commandVars>> => [ServingNext]_servingVars
    BY Zenon DEF ComponentsNext
<1> QED BY <1>1, <1>2, PTL DEF ComponentsSpec, ServingSpec

LEMMA ScannerStandsAlone == ComponentsSpec => ScannerSpec
<1>1. ComponentsInit => ScannerInit
    BY DEF ComponentsInit
<1>2. [ComponentsNext]_<<component, vars, trailVars, chainVars, breakerVars,
    callbackVars, assessmentVars, surfaceVars, servingVars, scanVars, commandVars>> => [ScannerNext]_scanVars
    BY Zenon DEF ComponentsNext
<1> QED BY <1>1, <1>2, PTL DEF ComponentsSpec, ScannerSpec

LEMMA CommandStandsAlone == ComponentsSpec => CommandSpec
<1>1. ComponentsInit => CommandInit
    BY DEF ComponentsInit
<1>2. [ComponentsNext]_<<component, vars, trailVars, chainVars, breakerVars,
    callbackVars, assessmentVars, surfaceVars, servingVars, scanVars, commandVars>> => [CommandNext]_commandVars
    BY Zenon DEF ComponentsNext
<1> QED BY <1>1, <1>2, PTL DEF ComponentsSpec, CommandSpec

(* Every variable keeps its type while the components run side by side.    *)
THEOREM ComponentsAreTyped == ComponentsSpec => []ComponentsTypeOK
<1>1. ComponentsSpec => [](component \in Components)
    <2>1. ComponentsInit => component \in Components
        BY DEF ComponentsInit
    <2>2. component \in Components /\ [ComponentsNext]_<<component, vars, trailVars, chainVars, breakerVars,
              callbackVars, assessmentVars, surfaceVars, servingVars, scanVars, commandVars>>
            => (component \in Components)'
        BY Zenon DEF ComponentsNext
    <2> QED BY <2>1, <2>2, PTL DEF ComponentsSpec
<1>2. ComponentsSpec => [](TrailTypeOK /\ ChainTypeOK /\ BreakerTypeOK)
    BY TrailStandsAlone, TrailTypeCorrect, ChainStandsAlone, ChainTypeCorrect, BreakerStandsAlone,
       BreakerTypeCorrect, PTL
<1>3. ComponentsSpec => [](CallbackTypeOK /\ AssessmentTypeOK /\ SurfacesTypeOK /\ ServingTypeOK)
    BY CallbackStandsAlone, CallbackTypeCorrect, AssessmentStandsAlone, AssessmentTypeCorrect,
       SurfacesStandsAlone, SurfacesAgree, ServingStandsAlone, AnswersAreFromTheRightPlace, PTL
<1>4. CommandInv => CommandTypeOK
    BY DEF CommandInv
<1>5. ComponentsSpec => [](ScannerTypeOK /\ CommandTypeOK)
    BY <1>4, ScannerStandsAlone, ScannerTypeCorrect, CommandStandsAlone, CommandInvariant, PTL
<1>6. /\ component \in Components
      /\ TrailTypeOK /\ ChainTypeOK /\ BreakerTypeOK
      /\ CallbackTypeOK /\ AssessmentTypeOK /\ SurfacesTypeOK /\ ServingTypeOK
      /\ ScannerTypeOK /\ CommandTypeOK
      => ComponentsTypeOK
    BY DEF ComponentsTypeOK
<1> QED BY <1>1, <1>2, <1>3, <1>5, <1>6, PTL

(* Side by side, every component keeps what its module promises: the       *)
(* checks of AuditTrail to CommandLine hold of all their behaviours.       *)
THEOREM ComponentsKeepTheirPromises ==
    ComponentsSpec =>
        /\ [](AnsweredIsOnRecord /\ MetricsWithinTrail)
        /\ []AcceptsExactlyPrefixes
        /\ LimitsHold
        /\ []ReviewedItsOwnRun
        /\ MoreRiskNeverLoosens
        /\ []AllowedIsBacked
        /\ []AnsweredFromTheRightPlace
        /\ []GateSound
        /\ [](ExitTellsVerdict /\ RefusedLeavesOutputs)
<1>1. ComponentsSpec => [](AnsweredIsOnRecord /\ MetricsWithinTrail) /\ []AcceptsExactlyPrefixes /\ LimitsHold
    BY TrailStandsAlone, TrailIsOnRecord, MetricsStayWithinTrail, ChainStandsAlone, ChainTellsTampering,
       BreakerStandsAlone, BreakerKeepsLimits, PTL
<1>2. ComponentsSpec => []ReviewedItsOwnRun /\ MoreRiskNeverLoosens /\ []AllowedIsBacked /\ []AnsweredFromTheRightPlace
    BY CallbackStandsAlone, ReviewIsOfOneRun, AssessmentStandsAlone, RiskIsMonotone, SurfacesStandsAlone,
       SurfacesAgree, ServingStandsAlone, AnswersAreFromTheRightPlace, PTL
<1>3. ComponentsSpec => []GateSound /\ [](ExitTellsVerdict /\ RefusedLeavesOutputs)
    BY ScannerStandsAlone, GateIsSound, CommandStandsAlone, ExitCodesTellVerdicts, RefusalsLeaveOutputs, PTL
<1> QED BY <1>1, <1>2, <1>3, PTL
=============================================================================
