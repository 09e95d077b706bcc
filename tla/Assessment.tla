----------------------------- MODULE Assessment -----------------------------
(***************************************************************************)
(* Judging before anything runs: RiskClassifier.classify (risk.py), the    *)
(* jury (consensus.py) and the preflight of a plan (plan.py).  A request   *)
(* is the set of facts the classifier and the jurors look at, a plan the   *)
(* sequence of the signals its steps show.  Every step makes the subject   *)
(* riskier.  Scores are in hundredths.                                     *)
(***************************************************************************)
EXTENDS Integers, Sequences, FiniteSets

CONSTANTS
    Benches, \* the juries: functions from jurors to what they look at
    MaxSteps \* bound: steps of a plan

Flags   == {"pii", "phi", "secrets", "regulated_domain", "tools", "autonomy", "action", "blocked_term"}
Grades  == {"impact_high", "impact_critical", "declared_high", "declared_critical"}
Signals == {"risky", "exfil", "loop"}

\* What a RuleBasedConsensusJuror is set to look at.
Juror == SUBSET {"sensitive", "terms", "critical", "high"}

ASSUME BenchAssumption ==
    \A bench \in Benches :
        /\ IsFiniteSet(DOMAIN bench) /\ DOMAIN bench # {}
        /\ \A j \in DOMAIN bench : bench[j] \in Juror

DefaultJurors ==
    [data_safety |-> {"sensitive", "critical", "high"},
     tool_safety |-> {"terms", "critical", "high"},
     risk_owner  |-> {"critical", "high"}]

VARIABLES
    subject, \* "request" or "plan"
    bench,   \* the jury
    asked,   \* the quorum it was made with, 0 for none
    veto,    \* deny_veto
    facts,   \* of the request
    steps    \* of the plan

assessmentVars == <<subject, bench, asked, veto, facts, steps>>

AssessmentTypeOK ==
    /\ subject \in {"request", "plan"}
    /\ bench \in Benches
    /\ asked \in 0 .. Cardinality(DOMAIN bench)
    /\ veto \in BOOLEAN
    /\ facts \in SUBSET (Flags \cup Grades)
    /\ ~ {"impact_high", "impact_critical"} \subseteq facts
    /\ ~ {"declared_high", "declared_critical"} \subseteq facts
    /\ steps \in Seq(SUBSET Signals)

AssessmentInit ==
    /\ subject \in {"request", "plan"}
    /\ bench \in Benches
    /\ asked \in 0 .. Cardinality(DOMAIN bench)
    /\ veto \in BOOLEAN
    /\ facts = {}
    /\ steps = <<>>

-----------------------------------------------------------------------------
Weight(fact, weight) == IF fact \in facts THEN weight ELSE 0

Score ==
    10 + Weight("pii", 20) + Weight("phi", 30) + Weight("secrets", 35)
       + Weight("regulated_domain", 15) + Weight("tools", 15) + Weight("autonomy", 20)
       + Weight("impact_high", 20) + Weight("impact_critical", 35) + Weight("action", 25)
       + Weight("declared_high", 20) + Weight("declared_critical", 40)

(* The floating point sum of these is 0.8499999999999999.                  *)
JustBelowCritical ==
    facts \ {"blocked_term"} \in
        {{"secrets", "autonomy", "impact_high"}, {"secrets", "autonomy", "declared_high"},
         {"secrets", "impact_high", "declared_high"}}

Tier ==
    IF Score >= 85 /\ ~JustBelowCritical THEN "critical"
    ELSE IF Score >= 60 THEN "high"
    ELSE IF Score >= 30 THEN "medium"
    ELSE "low"

Sensitive == facts \cap {"pii", "phi", "secrets"} # {}

Denies(j) ==
    \/ "sensitive" \in bench[j] /\ Sensitive
    \/ "terms" \in bench[j] /\ "blocked_term" \in facts
    \/ "critical" \in bench[j] /\ Tier = "critical"

(* Mutant of Vote: approval is for the tier high only.                     *)
VoteHighOnly(j) ==
    IF Denies(j) THEN "deny"
    ELSE IF "high" \in bench[j] /\ Tier = "high" THEN "require_approval"
    ELSE "allow"

Vote(j) ==
    IF Denies(j) THEN "deny"
    ELSE IF "high" \in bench[j] /\ Tier \in {"high", "critical"} THEN "require_approval"
    ELSE "allow"

Quorum == IF asked = 0 THEN Cardinality(DOMAIN bench) \div 2 + 1 ELSE asked

Voters(decision) == {j \in DOMAIN bench : Vote(j) = decision}

(* decide and adecide: the votes do not depend on each other.  Without a   *)
(* veto, denials only keep an allow from its quorum.                       *)
JuryVerdict ==
    IF veto /\ Voters("deny") # {} THEN "deny"
    ELSE IF Cardinality(Voters("require_approval")) >= Quorum THEN "require_approval"
    ELSE IF Cardinality(Voters("allow")) >= Quorum THEN "allow"
    ELSE "require_approval"

(* PlanPreflightChecker.check: a risky step is a finding of severity high  *)
(* (two of them, a critical one); movement of data and loops are medium.   *)
Showing(signal) == {k \in DOMAIN steps : signal \in steps[k]}

HighestSeverity ==
    IF Cardinality(Showing("risky")) >= 2 THEN "critical"
    ELSE IF Showing("risky") # {} THEN "high"
    ELSE IF Showing("exfil") \cup Showing("loop") # {} THEN "medium"
    ELSE "none"

PlanAllowed == HighestSeverity \notin {"critical", "high"}

-----------------------------------------------------------------------------
AddFlag ==
    /\ subject = "request"
    /\ \E f \in Flags \ facts : facts' = facts \cup {f}
    /\ UNCHANGED <<subject, bench, asked, veto, steps>>

Raise ==
    /\ subject = "request"
    /\ \E g \in {"impact", "declared"} :
        LET high     == IF g = "impact" THEN "impact_high" ELSE "declared_high"
            critical == IF g = "impact" THEN "impact_critical" ELSE "declared_critical"
        IN  /\ critical \notin facts
            /\ facts' = IF high \in facts THEN (facts \ {high}) \cup {critical} ELSE facts \cup {high}
    /\ UNCHANGED <<subject, bench, asked, veto, steps>>

AddStep ==
    /\ subject = "plan"
    /\ Len(steps) < MaxSteps
    /\ \E shown \in SUBSET Signals : steps' = Append(steps, shown)
    /\ UNCHANGED <<subject, bench, asked, veto, facts>>

AssessmentNext == AddFlag \/ Raise \/ AddStep

AssessmentSpec == AssessmentInit /\ [][AssessmentNext]_assessmentVars

-----------------------------------------------------------------------------
Strictness(decision) ==
    IF decision = "deny" THEN 2 ELSE IF decision = "require_approval" THEN 1 ELSE 0

TierRank(tier) ==
    IF tier = "critical" THEN 3 ELSE IF tier = "high" THEN 2 ELSE IF tier = "medium" THEN 1 ELSE 0

MajorityNeeded == 2 * Quorum > Cardinality(DOMAIN bench)

(* A subject that gets riskier never gets a lower tier, a laxer verdict of *)
(* the jury - with a veto or a quorum above one half - or a plan that is   *)
(* allowed again.  (RiskClassifier.classify, JuryConsensusEngine._summarize*)
(* and PlanPreflightChecker.check)                                         *)
MoreRiskNeverLoosens ==
    [][facts' # facts \/ steps' # steps =>
       /\ TierRank(Tier') >= TierRank(Tier)
       /\ veto \/ MajorityNeeded => Strictness(JuryVerdict') >= Strictness(JuryVerdict)
       /\ PlanAllowed' => PlanAllowed]_assessmentVars
=============================================================================
