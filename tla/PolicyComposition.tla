-------------------------- MODULE PolicyComposition --------------------------
(***************************************************************************)
(* PolicyComposer.compose (policy_composition.py) and the command that     *)
(* publishes what it made (cli.py, compose_policy): layers are taken by    *)
(* precedence, their rules one after the other; an allow that overlaps a   *)
(* deny met before is dropped unless its layer is an exception.  A rule is *)
(* named by its position, the number of its layer in the manifest and its  *)
(* own in the layer.                                                       *)
(***************************************************************************)
EXTENDS PolicyDecision, Sequences

CONSTANTS
    Stacks,  \* manifests: sequences of layers
    Requests \* what the composed policy is asked

Precedence ==
    [emergency |-> 0, global |-> 10, compliance |-> 20, region |-> 30,
     tenant |-> 40, app |-> 50, local_override |-> 60]

IsRule(rule) ==
    /\ DOMAIN rule = {"name", "effect", "action", "when"}
    /\ rule.when = None \/ IsConditions(rule.when)
    /\ rule.action \in Actions \cup {None}

(* A layer that may broaden is audited if it has a ticket and an expiry.   *)
IsLayer(layer) ==
    /\ layer.level \in DOMAIN Precedence
    /\ layer.broadening \in BOOLEAN
    /\ layer.audited \in BOOLEAN
    /\ layer.default \in {"deny", "allow"}
    /\ DOMAIN layer.rules = 1 .. Len(layer.rules) /\ Len(layer.rules) \in Nat
    /\ \A k \in DOMAIN layer.rules : IsRule(layer.rules[k])

IsStack(stack) ==
    /\ DOMAIN stack = 1 .. Len(stack) /\ Len(stack) \in Nat
    /\ \A i \in DOMAIN stack : IsLayer(stack[i])

ASSUME CompositionAssumption ==
    /\ Requests \subseteq Request
    /\ \A stack \in Stacks : IsStack(stack)

VARIABLES
    layers,    \* the manifest
    strict,    \* the composer's mode
    done,      \* the layers that are composed
    current,   \* the layer under way, 0 for none
    next,      \* the number of its next rule
    protected, \* positions of the denies met so far
    composed,  \* positions of the rules kept so far
    dropped,   \* findings: the allows that were dropped
    unaudited, \* findings: the exceptions without ticket or expiry
    outcome    \* "composing", then "published" or "refused"

input  == <<layers, strict>>
report == <<protected, composed, dropped, unaudited>>
vars   == <<input, done, current, next, report, outcome>>

Positions == UNION {{i} \X DOMAIN layers[i].rules : i \in DOMAIN layers}
RuleAt(p) == layers[p[1]].rules[p[2]]

TypeOK ==
    /\ IsStack(layers)
    /\ strict \in BOOLEAN
    /\ done \subseteq DOMAIN layers
    /\ current \in {0} \cup (DOMAIN layers \ done)
    /\ current # 0 => next \in 1 .. Len(layers[current].rules) + 1
    /\ composed \subseteq Positions
    /\ dropped \subseteq Positions \ composed
    /\ protected \subseteq composed
    /\ unaudited \subseteq DOMAIN layers
    /\ outcome \in {"composing", "published", "refused"}
    /\ outcome # "composing" => done = DOMAIN layers

Init ==
    /\ layers \in Stacks
    /\ strict \in BOOLEAN
    /\ done = {}
    /\ current = 0
    /\ next = 1
    /\ protected = {}
    /\ composed = {}
    /\ dropped = {}
    /\ unaudited = {}
    /\ outcome = "composing"

-----------------------------------------------------------------------------
(* Mutant of Before: the manifest's order.                                 *)
ListedBefore(i, j) == i < j

(* The order of sorted(), which is stable.                                 *)
Before(i, j) ==
    \/ Precedence[layers[i].level] < Precedence[layers[j].level]
    \/ Precedence[layers[i].level] = Precedence[layers[j].level] /\ i < j

(* _conditions_overlap: no conditions overlap with everything; else the    *)
(* allow must have every key of the deny, with a common value.             *)
Conditions(p) == IF RuleAt(p).when = None THEN <<>> ELSE RuleAt(p).when

Overlap(deny, allow) ==
    \/ DOMAIN Conditions(deny) = {}
    \/ DOMAIN Conditions(allow) = {}
    \/ \A key \in DOMAIN Conditions(deny) :
        /\ key \in DOMAIN Conditions(allow)
        /\ Conditions(deny)[key] \cap Conditions(allow)[key] # {}

(* Mutant of TakeLayer: exceptions need no ticket and no expiry.           *)
TakeUnaudited(i) ==
    /\ outcome = "composing"
    /\ current = 0
    /\ i \notin done
    /\ \A j \in DOMAIN layers \ (done \cup {i}) : Before(i, j)
    /\ current' = i
    /\ next' = 1
    /\ UNCHANGED <<input, done, report, outcome>>

TakeLayer(i) ==
    /\ outcome = "composing"
    /\ current = 0
    /\ i \notin done
    /\ \A j \in DOMAIN layers \ (done \cup {i}) : Before(i, j)
    /\ current' = i
    /\ next' = 1
    /\ unaudited' = IF layers[i].broadening /\ ~layers[i].audited THEN unaudited \cup {i} ELSE unaudited
    /\ UNCHANGED <<input, done, protected, composed, dropped, outcome>>

Position == <<current, next>>

Blocked ==
    /\ RuleAt(Position).effect = "allow"
    /\ ~layers[current].broadening
    /\ \E deny \in protected : Overlap(deny, Position)

DropRule ==
    /\ current # 0
    /\ next =< Len(layers[current].rules)
    /\ Blocked
    /\ dropped' = dropped \cup {Position}
    /\ next' = next + 1
    /\ UNCHANGED <<input, done, current, protected, composed, unaudited, outcome>>

(* Mutant of KeepRule: the next rule's position.                           *)
KeepNextRule ==
    /\ current # 0
    /\ next =< Len(layers[current].rules)
    /\ ~Blocked
    /\ composed' = composed \cup {<<current, next + 1>>}
    /\ protected' = IF RuleAt(Position).effect = "deny" THEN protected \cup {<<current, next + 1>>} ELSE protected
    /\ next' = next + 1
    /\ UNCHANGED <<input, done, current, dropped, unaudited, outcome>>

KeepRule ==
    /\ current # 0
    /\ next =< Len(layers[current].rules)
    /\ ~Blocked
    /\ composed' = composed \cup {Position}
    /\ protected' = IF RuleAt(Position).effect = "deny" THEN protected \cup {Position} ELSE protected
    /\ next' = next + 1
    /\ UNCHANGED <<input, done, current, dropped, unaudited, outcome>>

LeaveLayer ==
    /\ current # 0
    /\ next > Len(layers[current].rules)
    /\ done' = done \cup {current}
    /\ current' = 0
    /\ UNCHANGED <<input, next, report, outcome>>

(* _namespaced_rule: the name is prefixed with level and layer.            *)
Namespaced(p) ==
    [RuleAt(p) EXCEPT !.name = <<layers[p[1]].level, layers[p[1]].name, @>>]

ComposedPolicy == [p \in composed |-> Namespaced(p)]

(* Mutant of HasErrors: a dropped rule is a warning in strict mode too.    *)
HasErrorsLenient ==
    \/ strict /\ unaudited # {}
    \/ ~SchemaValid(ComposedPolicy)

HasErrors ==
    \/ strict /\ (dropped # {} \/ unaudited # {})
    \/ ~SchemaValid(ComposedPolicy)

(* The composed policy is validated; the command writes it or fails.       *)
Finish ==
    /\ outcome = "composing"
    /\ current = 0
    /\ done = DOMAIN layers
    /\ outcome' = IF HasErrors THEN "refused" ELSE "published"
    /\ UNCHANGED <<input, done, current, next, report>>

Next ==
    \/ \E i \in DOMAIN layers : TakeLayer(i)
    \/ DropRule \/ KeepRule \/ LeaveLayer
    \/ Finish

Spec == Init /\ [][Next]_vars

-----------------------------------------------------------------------------
(* Properties.                                                             *)

Permits(verdict) == verdict.decision \in {"allow", "conditional_allow"}

LayerPolicy(i) == layers[i].rules
Undivided == [p \in Positions |-> RuleAt(p)]

(* Whoever owns a layer is not overruled: what the composed policy permits *)
(* some layer does not deny or hold on its own (it permits, with no more   *)
(* transforms, or has a dropped rule with `when: null`), and no layer      *)
(* has a deny or an approval rule that matches (compose, 126-186, with     *)
(* decide, policy.py 49-132).                                              *)
NoLayerIsOverruled ==
    outcome # "composing" => \A request \in Requests :
        LET verdict == Decide(ComposedPolicy, "deny", request)
        IN  Permits(verdict) =>
                /\ \E i \in DOMAIN layers :
                    LET own == Decide(LayerPolicy(i), layers[i].default, request)
                    IN  own.decision \notin {"deny", "require_approval"} /\ own.actions \subseteq verdict.actions
                /\ \A p \in Positions :
                    RuleAt(p).effect \in {"deny", "require_approval"} => ~Matches(RuleAt(p).when, request)

(* Dropping only narrows, and a policy that strict composition publishes   *)
(* decides every request as all the rules of all layers together do        *)
(* (compose, 126-186, has_errors, 93-95).                                  *)
PublishedLosesNothing ==
    outcome # "composing" => \A request \in Requests :
        LET verdict == Decide(ComposedPolicy, "deny", request)
            whole == Decide(Undivided, "deny", request)
        IN  /\ verdict # whole => whole.decision # "deny" /\ (verdict.decision = "deny" \/ whole.decision = "raises")
            /\ outcome = "published" /\ strict => verdict = whole

(* What strict composition publishes has an allow over a deny of a higher  *)
(* layer only by way of an exception with ticket and expiry (compose,      *)
(* 146-174, _validate_layer, 188-212).                                     *)
ExceptionsAreAudited ==
    outcome = "published" /\ strict => \A allow, deny \in composed :
        RuleAt(allow).effect = "allow" /\ RuleAt(deny).effect = "deny" /\ Overlap(deny, allow)
        /\ Precedence[layers[deny[1]].level] < Precedence[layers[allow[1]].level]
            => layers[allow[1]].broadening /\ layers[allow[1]].audited

(* A lower layer never costs a higher one a rule: whoever loses an allow   *)
(* loses it to a deny of a layer that does not come after its own, or of   *)
(* its own (compose, 129-169).                                             *)
NeverBlockedFromBelow ==
    \A allow \in dropped : \E deny \in Positions :
        /\ RuleAt(deny).effect = "deny" /\ Overlap(deny, allow)
        /\ \/ Precedence[layers[deny[1]].level] < Precedence[layers[allow[1]].level]
           \/ layers[deny[1]].level = layers[allow[1]].level /\ deny[1] < allow[1]
           \/ deny[1] = allow[1] /\ deny[2] < allow[2]

(* What the finding of a dropped rule says of it: a lower-precedence allow *)
(* overlaps a higher-precedence deny (compose, 153-162).                   *)
OnlyLowerAllowsAreBlocked ==
    \A allow \in dropped : \E deny \in Positions :
        /\ RuleAt(deny).effect = "deny" /\ Overlap(deny, allow)
        /\ Precedence[layers[deny[1]].level] < Precedence[layers[allow[1]].level]
=============================================================================
