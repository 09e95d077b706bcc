------------------------------ MODULE Surfaces ------------------------------
(***************************************************************************)
(* The places at which one deployment is asked, and what each of them      *)
(* makes of the same situation: the sidecar's endpoints, the node guard of *)
(* LangGraph, the Haystack components, the LangChain and LlamaIndex        *)
(* wrappers and callbacks, the FastAPI and Flask probes, and the evidence  *)
(* for Microsoft AGT.  The pipeline of Gateway.chat is module Gateway; of  *)
(* it only the order of what may stop a request is repeated here.          *)
(***************************************************************************)
EXTENDS Naturals

VARIABLES
    situation, \* what policies, monitors and guards make of the subject
    revoked,   \* the emergency revoke file names the subject
    loaded,    \* ... and so does the list that the process holds
    story      \* what the last surface that was asked has told and done

surfaceVars == <<situation, revoked, loaded, story>>

Verdicts  == {"allow", "conditional_allow", "require_approval", "deny"}
Permitting == {"allow", "conditional_allow"}
Situation ==
    [policy : Verdicts, candidate : Verdicts \cup {"none"}, redact : BOOLEAN, \* "none": no enforced rollout
     sessionBlocks : BOOLEAN, inputBlocked : BOOLEAN, outputBlocked : BOOLEAN, outputSensitive : BOOLEAN]

Pipelines == {"sidecar_check", "langgraph_node", "langchain_invoke", "llamaindex_complete"}
Probes    == {"sidecar_route", "haystack_input", "haystack_output", "callback_finish", "fastapi", "flask"}
ToolGates == {"sidecar_tool", "langgraph_tool", "haystack_tool"}

\* What a surface can tell of a decision, besides the decision itself.
Story(allowed, rejection, ran) ==
    [allowed |-> allowed, status |-> rejection.status, blocked |-> rejection.blocked, ran |-> ran]

NoRejection == [blocked |-> "unsaid", status |-> 0]
Silent      == Story("unsaid", NoRejection, "nothing")

SurfacesTypeOK ==
    /\ situation \in Situation
    /\ revoked \in BOOLEAN
    /\ loaded \in BOOLEAN
    /\ story.surface \in Pipelines \cup Probes \cup ToolGates \cup {"none"}
    /\ story.decision \in Verdicts
    /\ story.revokedThen \in BOOLEAN
    /\ story.told \in [allowed : {"yes", "no", "unsaid"}, status : {0, 200, 202, 403},
                       blocked : {"yes", "no", "unsaid"}, ran : {"nothing", "original", "redacted"}]

SurfacesInit ==
    /\ situation \in Situation
    /\ revoked \in BOOLEAN
    /\ loaded = revoked
    /\ story = [surface |-> "none", decision |-> "deny", revokedThen |-> FALSE, told |-> Silent]

-----------------------------------------------------------------------------
(* What Gateway.chat ends in: every stage can stop what the ones before    *)
(* let pass.                                                               *)
Chosen == IF situation.candidate = "none" THEN situation.policy ELSE situation.candidate

ChatDecision ==
    IF loaded \/ situation.sessionBlocks THEN "deny"
    ELSE IF Chosen \in Permitting /\ (situation.inputBlocked \/ situation.outputBlocked) THEN "deny"
    ELSE Chosen

(* The engine of tool policies knows no conditional allow, and only the    *)
(* sidecar looks at the revoke list and the session before it.             *)
EngineDecision == IF situation.policy = "conditional_allow" THEN "allow" ELSE situation.policy

ToolDecision(surface) ==
    IF surface = "sidecar_tool" /\ (loaded \/ situation.sessionBlocks) THEN "deny" ELSE EngineDecision

DecisionAt(surface) ==
    IF surface \in Pipelines THEN ChatDecision
    ELSE IF surface \in ToolGates THEN ToolDecision(surface)
    ELSE situation.policy

-----------------------------------------------------------------------------
(* Mutant of IsBlocked: what waits for an approval is not blocked.         *)
IsDenied(decision) == decision = "deny"

(* is_policy_blocked and is_tool_blocked: approval_required comes with     *)
(* require_approval only.                                                  *)
IsBlocked(decision) == decision \in {"deny", "require_approval"}

RejectionStatus(decision) ==
    IF decision = "require_approval" THEN 202 ELSE IF decision = "deny" THEN 403 ELSE 200

(* policy_rejection and tool_rejection: none, with a status of 200.        *)
Rejection(decision) ==
    [blocked |-> IF IsBlocked(decision) THEN "yes" ELSE "no",
     status  |-> IF IsBlocked(decision) THEN RejectionStatus(decision) ELSE 200]

Tell(allows) == IF allows THEN "yes" ELSE "no"

TheText == IF situation.redact THEN "redacted" ELSE "original"

(* PolicyAwareSidecar._check.  The model ran inside the gateway, on the    *)
(* redacted text; an output that was blocked came of a model that ran.     *)
ModelRan ==
    IF ~loaded /\ ~situation.sessionBlocks /\ ~situation.inputBlocked /\ Chosen \in Permitting
    THEN TheText ELSE "nothing"

CheckStory == Story(Tell(ChatDecision \in Permitting), Rejection(ChatDecision), ModelRan)

(* _tool_check, for the engine's decision and for the two denials before   *)
(* it.                                                                     *)
ToolCheckStory ==
    LET decision == ToolDecision("sidecar_tool")
    IN  Story(Tell(decision = "allow"), Rejection(decision), "nothing")

(* guard_node and aguard_node: behind the check the node is called with    *)
(* the state as it was.  (The gateway has called its model, too.)          *)
NodeStory ==
    LET allowed == ChatDecision \in Permitting
    IN  Story(Tell(allowed), NoRejection, IF allowed THEN "original" ELSE "nothing")

(* The wrappers return the content, and no decision.                       *)
WrapperStory == Story("unsaid", NoRejection, ModelRan)

(* PolicyAwareInputComponent.run hands on the text, or nothing.            *)
InputStory ==
    LET allowed == situation.policy \in Permitting
    IN  Story(Tell(allowed), NoRejection, IF allowed THEN TheText ELSE "nothing")

(* PolicyAwareOutputComponent.run.                                         *)
OutputStory ==
    Story(Tell(situation.policy \in Permitting /\ ~situation.outputSensitive), NoRejection, "nothing")

(* PolicyAwareCallbackResult.allowed does not look at the output.          *)
FinishStory == Story(Tell(situation.policy \in Permitting), NoRejection, "nothing")

(* check_tool_call of LangGraph returns the decision only; the Haystack    *)
(* component tells whether it is an allow.                                 *)
ToolComponentStory == Story(Tell(EngineDecision = "allow"), NoRejection, "nothing")

\* route and the probes leave the decision as it is.
StoryAt(surface) ==
    [sidecar_check |-> CheckStory, sidecar_tool |-> ToolCheckStory, sidecar_route |-> Silent,
     langgraph_node |-> NodeStory, langgraph_tool |-> Silent,
     langchain_invoke |-> WrapperStory, llamaindex_complete |-> WrapperStory, callback_finish |-> FinishStory,
     haystack_input |-> InputStory, haystack_output |-> OutputStory, haystack_tool |-> ToolComponentStory,
     fastapi |-> Silent, flask |-> Silent][surface]

(* to_agt_decision and to_agt_audit_evidence.                              *)
AgtEvidence(decision) ==
    [outcome |-> IF decision \in Permitting THEN "permit" ELSE IF decision = "require_approval" THEN "review" ELSE "deny",
     allowed |-> decision \in Permitting, approval_required |-> decision = "require_approval",
     blocked |-> decision = "deny"]

(* A surface is asked.                                                     *)
Ask(surface) ==
    /\ story' = [surface |-> surface, decision |-> DecisionAt(surface), revokedThen |-> loaded,
                 told |-> StoryAt(surface)]
    /\ UNCHANGED <<situation, revoked, loaded>>

(* An operator edits the revoke file.                                      *)
EditRevokeFile ==
    /\ revoked' = ~revoked
    /\ UNCHANGED <<situation, loaded, story>>

(* The list is read when the sidecar starts, and at no other time.         *)
StartAgain ==
    /\ loaded' = revoked
    /\ UNCHANGED <<situation, revoked, story>>

SurfacesNext == EditRevokeFile \/ StartAgain \/ \E surface \in Pipelines \cup Probes \cup ToolGates : Ask(surface)

SurfacesSpec == SurfacesInit /\ [][SurfacesNext]_surfaceVars

-----------------------------------------------------------------------------
(* Surfaces do not contradict each other.  What one of them lets pass has  *)
(* an allowing decision behind it, is no rejection, and is evidence of a   *)
(* permit; without an enforced candidate none is laxer than the policy;    *)
(* and the sidecar lets nothing pass, and no pipeline runs a node or a     *)
(* model for a subject, that the list it has loaded revokes.  (_check,     *)
(* _tool_check, guard_node, run, policy_rejection, to_agt_decision)        *)
AllowedIsBacked ==
    LET told == story.told
        passes == told.allowed = "yes" \/ told.ran # "nothing" IN
    /\ passes /\ situation.candidate = "none" => situation.policy \in Permitting
    /\ told.allowed = "yes" => story.decision \in Permitting /\ told.blocked # "yes"
    /\ told.allowed = "no" /\ told.status # 0 => told.blocked = "yes" /\ told.status # 200
    /\ told.allowed = "yes" => AgtEvidence(story.decision).outcome = "permit"
    /\ told.blocked = "yes" => ~AgtEvidence(story.decision).allowed
    /\ passes /\ story.surface \in Pipelines \cup {"sidecar_tool"} => ~story.revokedThen
    /\ told.allowed = "yes" /\ story.surface \in Pipelines \cup {"sidecar_tool"} => ~situation.sessionBlocks
=============================================================================
