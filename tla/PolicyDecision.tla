--------------------------- MODULE PolicyDecision ---------------------------
(***************************************************************************)
(* PolicyEngine.decide (policy.py): what a list of rules says of a         *)
(* request, and what the schema (policy_schema.py) says of the list.       *)
(* A policy is a function from positions to rules; the order of the        *)
(* positions only orders the names and actions that a decision lists.      *)
(***************************************************************************)
EXTENDS Naturals

CONSTANTS
    Attributes, \* what conditions look up in the context
    Actions,    \* the schema's actions
    None        \* a missing value, a missing action, `when: null`

ASSUME DecisionAssumption == None \notin Nat /\ None \notin Actions

Key     == [attribute : Attributes, operator : {"eq", "in", "not_in", "lte", "gte"}]
Request == [Attributes -> Nat \cup {None}]
Effects == {"deny", "require_approval", "allow", "transform"}

(* The expected value of a condition is the set of what its YAML lists, of *)
(* a scalar the set of it.  Lists are for "in" and "not_in".               *)
IsConditions(when) ==
    /\ DOMAIN when \subseteq Key
    /\ \A key \in DOMAIN when :
        /\ when[key] \subseteq IF key.operator \in {"lte", "gte"} THEN Nat ELSE Nat \cup {None}
        /\ key.operator \notin {"in", "not_in"} => when[key] # {} /\ \A v, w \in when[key] : v = w

Compare(actual, operator, expected) ==
    \/ operator = "eq" /\ expected = {actual}
    \/ operator = "in" /\ actual \in expected
    \/ operator = "not_in" /\ actual \notin expected
    \/ operator = "lte" /\ actual # None /\ \A limit \in expected : actual =< limit
    \/ operator = "gte" /\ actual # None /\ \A limit \in expected : actual >= limit

Matches(when, request) ==
    \A key \in DOMAIN when : Compare(request[key.attribute], key.operator, when[key])

Verdict(decision, actions) == [decision |-> decision, actions |-> actions]
Allowing(actions) == Verdict(IF actions = {} THEN "allow" ELSE "conditional_allow", actions)

(* Mutant of Decide: an allow is looked for before an approval.            *)
DecideApprovalLast(policy, default, request) ==
    IF \E p \in DOMAIN policy : policy[p].when = None THEN Verdict("raises", {})
    ELSE LET matched == {p \in DOMAIN policy : Matches(policy[p].when, request)}
             Some(effect) == \E p \in matched : policy[p].effect = effect
             actions == {policy[p].action : p \in {q \in matched : policy[q].effect = "transform"}} \ {None}
         IN  IF Some("deny") THEN Verdict("deny", {})
             ELSE IF Some("allow") \/ default = "allow" THEN Allowing(actions)
             ELSE IF Some("require_approval") THEN Verdict("require_approval", {})
             ELSE Verdict("deny", {})

(* All rules are matched first, so that one `when: null` makes any         *)
(* decision raise.                                                         *)
Decide(policy, default, request) ==
    IF \E p \in DOMAIN policy : policy[p].when = None THEN Verdict("raises", {})
    ELSE LET matched == {p \in DOMAIN policy : Matches(policy[p].when, request)}
             Some(effect) == \E p \in matched : policy[p].effect = effect
             actions == {policy[p].action : p \in {q \in matched : policy[q].effect = "transform"}} \ {None}
         IN  IF Some("deny") THEN Verdict("deny", {})
             ELSE IF Some("require_approval") THEN Verdict("require_approval", {})
             ELSE IF Some("allow") \/ default = "allow" THEN Allowing(actions)
             ELSE Verdict("deny", {})

(* PolicySchemaValidator, on what composition can leave in a rule.         *)
SchemaValid(policy) ==
    \A p \in DOMAIN policy :
        /\ policy[p].effect \in Effects
        /\ IF policy[p].effect = "transform" THEN policy[p].action \in Actions ELSE policy[p].action = None
        /\ \A q \in DOMAIN policy \ {p} : policy[q].name # policy[p].name
=============================================================================
