----------------------- MODULE PolicyCompositionProofs -----------------------
(***************************************************************************)
(* Proofs about PolicyComposition, for all manifests and requests.         *)
(***************************************************************************)
EXTENDS PolicyComposition, TLAPS

-----------------------------------------------------------------------------
(* What decides, apart from the order of the effects.                      *)

Raises(policy) == \E p \in DOMAIN policy : policy[p].when = None

Some(policy, effect, request) ==
    \E p \in DOMAIN policy : policy[p].effect = effect /\ Matches(policy[p].when, request)

Transforms(policy, request) ==
    {policy[p].action :
        p \in {q \in DOMAIN policy : policy[q].effect = "transform" /\ Matches(policy[q].when, request)}}
    \ {None}

LEMMA DecideLadder ==
    ASSUME NEW policy, NEW default, NEW request
    PROVE  Decide(policy, default, request) =
            IF Raises(policy) THEN Verdict("raises", {})
            ELSE IF Some(policy, "deny", request) THEN Verdict("deny", {})
            ELSE IF Some(policy, "require_approval", request) THEN Verdict("require_approval", {})
            ELSE IF Some(policy, "allow", request) \/ default = "allow"
                 THEN Allowing(Transforms(policy, request))
            ELSE Verdict("deny", {})
<1> DEFINE matched == {p \in DOMAIN policy : Matches(policy[p].when, request)}
<1>1. \A effect : (\E p \in matched : policy[p].effect = effect) <=> Some(policy, effect, request)
    BY DEF Some
<1>2. {policy[p].action : p \in {q \in matched : policy[q].effect = "transform"}} \ {None}
        = Transforms(policy, request)
    BY DEF Transforms
<1> QED
    BY <1>1, <1>2 DEF Decide, Raises

LEMMA PrecedenceIsNat == \A level \in DOMAIN Precedence : Precedence[level] \in Nat
BY DEF Precedence

-----------------------------------------------------------------------------
(* What has been seen of the manifest was either kept or dropped.          *)

Seen == {p \in Positions : p[1] \in done \/ (p[1] = current /\ p[2] < next)}

ProgressInv ==
    /\ composed \cup dropped = Seen
    /\ protected = {p \in composed : RuleAt(p).effect = "deny"}
    /\ \A p \in dropped : RuleAt(p).effect = "allow"

LEMMA PositionsArePairs ==
    /\ \A p \in Positions : p[1] \in DOMAIN layers /\ p[2] \in DOMAIN layers[p[1]].rules /\ p = <<p[1], p[2]>>
    /\ \A i \in DOMAIN layers : \A k \in DOMAIN layers[i].rules : <<i, k>> \in Positions
BY DEF Positions

LEMMA StackShape ==
    ASSUME TypeOK
    PROVE  /\ DOMAIN layers \subseteq Nat \ {0}
           /\ \A i \in DOMAIN layers :
                /\ Len(layers[i].rules) \in Nat
                /\ DOMAIN layers[i].rules = 1 .. Len(layers[i].rules)
                /\ Precedence[layers[i].level] \in Nat
BY PrecedenceIsNat DEF TypeOK, IsStack, IsLayer

(* The rule under way has not been seen, and seeing it is all that the two *)
(* actions on a rule do to what was seen.                                  *)
LEMMA RuleStep ==
    ASSUME TypeOK, current # 0, next =< Len(layers[current].rules),
           next' = next + 1, UNCHANGED <<layers, done, current>>
    PROVE  /\ Position \in Positions \ Seen
           /\ Seen' = Seen \cup {Position}
           /\ next' \in 1 .. Len(layers[current].rules) + 1
<1>1. current \in DOMAIN layers \ done /\ next \in DOMAIN layers[current].rules
    BY StackShape DEF TypeOK
<1>2. Position \in Positions /\ Position[1] = current /\ Position[2] = next
    BY <1>1, PositionsArePairs DEF Position
<1>3. Position \notin Seen
    BY <1>1, <1>2, StackShape DEF Seen
<1>4. \A p \in Positions : p[1] = current => p[2] \in Nat /\ (p[2] = next <=> p = Position)
    BY <1>1, PositionsArePairs, StackShape DEF Position
<1>5. \A p \in Positions : p \in Seen' <=> (p \in Seen \/ p = Position)
    BY <1>1, <1>2, <1>4, StackShape DEF Seen, Positions
<1>6. Positions' = Positions
    BY DEF Positions
<1> QED
    BY <1>1, <1>2, <1>3, <1>5, <1>6, StackShape DEF Seen

LEMMA ProgressInductive ==
    TypeOK /\ ProgressInv /\ [Next]_vars => TypeOK' /\ ProgressInv'
<1> SUFFICES ASSUME TypeOK, ProgressInv, [Next]_vars
             PROVE  TypeOK' /\ ProgressInv'
    OBVIOUS
<1> USE DEF input, report
<1>0. layers' = layers /\ strict' = strict /\ IsStack(layers)' /\ Positions' = Positions
      /\ \A p : RuleAt(p)' = RuleAt(p)
    <2>1. layers' = layers /\ strict' = strict
        BY DEF Next, TakeLayer, DropRule, KeepRule, LeaveLayer, Finish, vars
    <2>2. IsStack(layers)'
        BY <2>1 DEF TypeOK
    <2>3. Positions' = Positions /\ \A p : RuleAt(p)' = RuleAt(p)
        BY <2>1 DEF Positions, RuleAt
    <2> QED
        BY <2>1, <2>2, <2>3
<1>1. ASSUME NEW i \in DOMAIN layers, TakeLayer(i)
      PROVE  TypeOK' /\ ProgressInv'
    <2>1. 1 \in 1 .. Len(layers[i].rules) + 1
        BY StackShape
    <2>2. TypeOK'
        BY <1>0, <1>1, <2>1 DEF TypeOK, TakeLayer
    <2>3. Seen' = Seen
        <3>1. \A p \in Positions : p[1] = current => FALSE
            BY <1>1, PositionsArePairs, StackShape DEF TakeLayer
        <3>2. \A p \in Positions : p[1] = i => ~(p[2] < 1)
            BY PositionsArePairs, StackShape
        <3> QED
            BY <1>0, <1>1, <3>1, <3>2 DEF Seen, TakeLayer
    <2> QED
        BY <1>0, <1>1, <2>2, <2>3 DEF ProgressInv, TakeLayer
<1>2. CASE DropRule
    <2>1. Position \in Positions \ Seen /\ Seen' = Seen \cup {Position}
          /\ next' \in 1 .. Len(layers[current].rules) + 1
        BY <1>0, <1>2, RuleStep DEF DropRule
    <2>2. TypeOK'
        BY <1>0, <1>2, <2>1 DEF TypeOK, DropRule, ProgressInv
    <2> QED
        BY <1>0, <1>2, <2>1, <2>2 DEF DropRule, ProgressInv, Blocked
<1>3. CASE KeepRule
    <2>1. Position \in Positions \ Seen /\ Seen' = Seen \cup {Position}
          /\ next' \in 1 .. Len(layers[current].rules) + 1
        BY <1>0, <1>3, RuleStep DEF KeepRule
    <2>2. TypeOK'
        BY <1>0, <1>3, <2>1 DEF TypeOK, KeepRule, ProgressInv
    <2> QED
        BY <1>0, <1>3, <2>1, <2>2 DEF KeepRule, ProgressInv
<1>4. CASE LeaveLayer
    <2>1. TypeOK'
        BY <1>0, <1>4 DEF TypeOK, LeaveLayer
    <2>2. \A p \in Positions : p[1] = current => p[2] < next
        BY <1>4, PositionsArePairs, StackShape DEF LeaveLayer, TypeOK
    <2>3. Seen' = Seen
        <3>1. \A p \in Positions : p[1] # 0
            BY PositionsArePairs, StackShape
        <3> QED
            BY <1>0, <1>4, <2>2, <3>1 DEF Seen, LeaveLayer
    <2> QED
        BY <1>0, <1>4, <2>1, <2>3 DEF ProgressInv, LeaveLayer
<1>5. CASE Finish \/ UNCHANGED vars
    <2>1. TypeOK'
        BY <1>0, <1>5 DEF TypeOK, Finish, vars
    <2> QED
        BY <1>0, <1>5, <2>1 DEF ProgressInv, Seen, Finish, vars
<1> QED
    BY <1>1, <1>2, <1>3, <1>4, <1>5 DEF Next

(* Type correctness (policy_composition.py 126-186, cli.py 2365-2376).     *)
THEOREM CompositionTypeCorrect == Spec => []TypeOK
<1>1. Init => TypeOK /\ ProgressInv
    BY CompositionAssumption, PositionsArePairs DEF Init, TypeOK, ProgressInv, Seen, IsStack
<1> QED
    BY <1>1, ProgressInductive, PTL DEF Spec

-----------------------------------------------------------------------------
(* Layers are taken by precedence, so that what blocks comes from above,   *)
(* and an allow that comes after a deny it overlaps is an exception.       *)

Visited == done \cup ({current} \ {0})

Precedes(p, q) == (p[1] = q[1] /\ p[2] < q[2]) \/ (p[1] # q[1] /\ Before(p[1], q[1]))

OrderInv ==
    /\ \A i \in Visited : \A j \in DOMAIN layers \ Visited : Before(i, j)
    /\ current # 0 => \A i \in done : Before(i, current)

FilterInv ==
    /\ \A allow \in dropped : \E deny \in protected : Overlap(deny, allow) /\ Precedes(deny, allow)
    /\ \A allow \in composed, deny \in protected :
        RuleAt(allow).effect = "allow" /\ Overlap(deny, allow)
        /\ Precedence[layers[deny[1]].level] < Precedence[layers[allow[1]].level]
            => layers[allow[1]].broadening
    /\ \A i \in Visited : layers[i].broadening /\ ~layers[i].audited => i \in unaudited

OutcomeInv == outcome = "published" => ~HasErrors

CompositionInv == ProgressInv /\ OrderInv /\ FilterInv /\ OutcomeInv

LEMMA ManifestIsFixed ==
    ASSUME [Next]_vars
    PROVE  /\ layers' = layers /\ strict' = strict
           /\ Positions' = Positions
           /\ \A p : RuleAt(p)' = RuleAt(p)
           /\ \A i, j : Before(i, j)' = Before(i, j)
           /\ \A p, q : Overlap(p, q)' = Overlap(p, q) /\ Precedes(p, q)' = Precedes(p, q)
<1>1. layers' = layers /\ strict' = strict
    BY DEF Next, TakeLayer, DropRule, KeepRule, LeaveLayer, Finish, vars, input, report
<1> QED
    BY <1>1 DEF Positions, RuleAt, Before, Overlap, Conditions, Precedes

LEMMA OrderInductive ==
    TypeOK /\ OrderInv /\ [Next]_vars => OrderInv'
<1> SUFFICES ASSUME TypeOK, OrderInv, [Next]_vars
             PROVE  OrderInv'
    OBVIOUS
<1>1. ASSUME NEW i \in DOMAIN layers, TakeLayer(i)
      PROVE  OrderInv'
    <2>1. Visited = done /\ done' = done /\ current' = i /\ i # 0 /\ i \notin done /\ Visited' = done \cup {i}
        BY <1>1, StackShape DEF TakeLayer, Visited
    <2>2. \A j \in DOMAIN layers \ (done \cup {i}) : Before(i, j)
        BY <1>1 DEF TakeLayer
    <2> QED
        BY <2>1, <2>2, ManifestIsFixed DEF OrderInv
<1>2. CASE DropRule \/ KeepRule \/ Finish \/ UNCHANGED vars
    <2>1. done' = done /\ current' = current
        BY <1>2 DEF DropRule, KeepRule, Finish, vars
    <2> QED
        BY <2>1, ManifestIsFixed DEF OrderInv, Visited
<1>3. CASE LeaveLayer
    <2>1. Visited' = Visited /\ current' = 0
        BY <1>3 DEF LeaveLayer, Visited
    <2> QED
        BY <2>1, ManifestIsFixed DEF OrderInv
<1> QED
    BY <1>1, <1>2, <1>3 DEF Next

(* Whatever was seen comes before the rule under way.                      *)
LEMMA SeenComesBefore ==
    ASSUME TypeOK, OrderInv, current # 0, next =< Len(layers[current].rules), NEW p \in Seen
    PROVE  /\ Precedes(p, Position)
           /\ ~(Precedence[layers[current].level] < Precedence[layers[p[1]].level])
<1>1. current \in DOMAIN layers \ done /\ p[1] \in DOMAIN layers /\ Position[1] = current /\ Position[2] = next
    BY PositionsArePairs DEF TypeOK, Seen, Position
<1>2. CASE p[1] \in done
    <2>1. Before(p[1], current) /\ p[1] # current
        BY <1>1, <1>2 DEF OrderInv
    <2> QED
        BY <1>1, <2>1, StackShape DEF Before, Precedes
<1>3. CASE p[1] = current /\ p[2] < next
    BY <1>1, <1>3, StackShape DEF Precedes
<1> QED
    BY <1>2, <1>3 DEF Seen

LEMMA FilterInductive ==
    TypeOK /\ ProgressInv /\ OrderInv /\ FilterInv /\ [Next]_vars => FilterInv'
<1> SUFFICES ASSUME TypeOK, ProgressInv, OrderInv, FilterInv, [Next]_vars
             PROVE  FilterInv'
    OBVIOUS
<1> USE ManifestIsFixed
<1>1. ASSUME NEW i \in DOMAIN layers, TakeLayer(i)
      PROVE  FilterInv'
    <2>1. UNCHANGED <<composed, dropped, protected>> /\ Visited' = Visited \cup {i}
        BY <1>1, StackShape DEF TakeLayer, Visited
    <2>2. unaudited \subseteq unaudited' /\ (layers[i].broadening /\ ~layers[i].audited => i \in unaudited')
        BY <1>1 DEF TakeLayer
    <2> QED
        BY <2>1, <2>2 DEF FilterInv
<1>2. CASE DropRule
    <2>1. /\ UNCHANGED <<composed, protected, unaudited, done, current>>
          /\ dropped' = dropped \cup {Position}
          /\ \E deny \in protected : Overlap(deny, Position)
        BY <1>2 DEF DropRule, Blocked
    <2>2. \A deny \in protected : Precedes(deny, Position)
        BY <1>2, SeenComesBefore DEF DropRule, ProgressInv
    <2> QED
        BY <2>1, <2>2 DEF FilterInv, Visited
<1>3. CASE KeepRule
    <2> DEFINE Lower(deny, allow) ==
            Precedence[layers[deny[1]].level] < Precedence[layers[allow[1]].level]
    <2>1. /\ UNCHANGED <<dropped, unaudited, done, current>>
          /\ composed' = composed \cup {Position}
          /\ protected \subseteq protected'
          /\ \A p \in protected' : p \in protected \/ (p = Position /\ RuleAt(Position).effect = "deny")
        BY <1>3 DEF KeepRule
    <2>2. /\ \A allow \in dropped' : \E deny \in protected' : (Overlap(deny, allow) /\ Precedes(deny, allow))'
          /\ \A i \in Visited' : layers[i].broadening /\ ~layers[i].audited => i \in unaudited'
        BY <2>1 DEF FilterInv, Visited
    <2>3. Position[1] = current
        BY DEF Position
    <2>4. ASSUME NEW allow \in composed', NEW deny \in protected',
                 RuleAt(allow).effect = "allow", Overlap(deny, allow), Lower(deny, allow)
          PROVE  layers[allow[1]].broadening
        <3>1. CASE allow \in composed /\ deny \in protected
            BY <2>4, <3>1 DEF FilterInv
        <3>2. CASE allow = Position /\ deny \in protected
            <4>1. layers[current].broadening
                BY <1>3, <2>4, <3>2 DEF KeepRule, Blocked
            <4> QED
                BY <3>2, <2>3, <4>1
        <3>3. CASE allow \in composed /\ deny = Position
            <4>1. allow \in Seen
                BY <3>3 DEF ProgressInv
            <4>2. ~Lower(Position, allow)
                BY <1>3, <2>3, <4>1, SeenComesBefore DEF KeepRule
            <4> QED
                BY <2>4, <3>3, <4>2
        <3>4. ~(allow = Position /\ deny = Position)
            BY <1>3, <2>1, <2>4, RuleStep DEF KeepRule, ProgressInv, input
        <3> QED
            BY <2>1, <3>1, <3>2, <3>3, <3>4
    <2> QED
        BY <2>2, <2>4 DEF FilterInv
<1>4. CASE LeaveLayer \/ Finish \/ UNCHANGED vars
    <2>1. UNCHANGED <<composed, dropped, protected, unaudited>> /\ Visited' = Visited
        BY <1>4 DEF LeaveLayer, Finish, vars, report, Visited
    <2> QED
        BY <2>1 DEF FilterInv
<1> QED
    BY <1>1, <1>2, <1>3, <1>4 DEF Next

LEMMA OutcomeInductive ==
    TypeOK /\ OutcomeInv /\ [Next]_vars => OutcomeInv'
<1> SUFFICES ASSUME TypeOK, OutcomeInv, [Next]_vars, outcome' = "published"
             PROVE  ~HasErrors'
    BY DEF OutcomeInv
<1>1. ASSUME UNCHANGED <<strict, dropped, unaudited, composed>>
      PROVE  HasErrors' = HasErrors
    BY <1>1, ManifestIsFixed DEF HasErrors, ComposedPolicy, Namespaced, RuleAt
<1>2. CASE Finish
    BY <1>1, <1>2 DEF Finish, input, report
<1>3. CASE UNCHANGED vars
    BY <1>1, <1>3 DEF vars, input, report, OutcomeInv
<1>4. ASSUME ~Finish, ~UNCHANGED vars
      PROVE  FALSE
    <2>1. PICK i \in DOMAIN layers : TakeLayer(i) \/ DropRule \/ KeepRule \/ LeaveLayer
        BY <1>4 DEF Next, DropRule, KeepRule, LeaveLayer, TypeOK
    <2>2. current # 0 => done # DOMAIN layers
        BY DEF TypeOK
    <2> QED
        BY <2>1, <2>2 DEF TakeLayer, DropRule, KeepRule, LeaveLayer, TypeOK
<1> QED
    BY <1>2, <1>3, <1>4

LEMMA CompositionAlways == Spec => [](TypeOK /\ CompositionInv)
<1>1. Init => TypeOK /\ CompositionInv
    <2> SUFFICES ASSUME Init
                 PROVE  TypeOK /\ CompositionInv
        OBVIOUS
    <2>1. TypeOK /\ ProgressInv
        BY CompositionAssumption, PositionsArePairs DEF Init, TypeOK, ProgressInv, Seen, IsStack
    <2>2. OrderInv /\ FilterInv /\ OutcomeInv
        BY DEF Init, OrderInv, FilterInv, OutcomeInv, Visited
    <2> QED
        BY <2>1, <2>2 DEF CompositionInv
<1>2. TypeOK /\ CompositionInv /\ [Next]_vars => (TypeOK /\ CompositionInv)'
    BY ProgressInductive, OrderInductive, FilterInductive, OutcomeInductive DEF CompositionInv
<1> QED
    BY <1>1, <1>2, PTL DEF Spec

-----------------------------------------------------------------------------
(* What the invariant says of the finished report.                         *)

LEMMA FinishedHasSeenAll ==
    ASSUME TypeOK, CompositionInv, outcome # "composing"
    PROVE  composed \cup dropped = Positions /\ Visited = DOMAIN layers
<1>1. done = DOMAIN layers
    BY DEF TypeOK
<1>2. Seen = Positions
    BY <1>1, PositionsArePairs DEF Seen
<1> QED
    BY <1>1, <1>2, StackShape DEF CompositionInv, ProgressInv, Visited, TypeOK

LEMMA PrecedenceIsInjective ==
    \A k, l \in DOMAIN Precedence : Precedence[k] = Precedence[l] => k = l
BY DEF Precedence

(* A lower layer never costs a higher one a rule (policy_composition.py    *)
(* 129-169).                                                               *)
THEOREM RulesAreBlockedFromAbove == Spec => []NeverBlockedFromBelow
<1>1. TypeOK /\ CompositionInv => NeverBlockedFromBelow
    <2> SUFFICES ASSUME TypeOK, CompositionInv, NEW allow \in dropped
                 PROVE  \E deny \in Positions :
                            /\ RuleAt(deny).effect = "deny" /\ Overlap(deny, allow)
                            /\ \/ Precedence[layers[deny[1]].level] < Precedence[layers[allow[1]].level]
                               \/ layers[deny[1]].level = layers[allow[1]].level /\ deny[1] < allow[1]
                               \/ deny[1] = allow[1] /\ deny[2] < allow[2]
        BY DEF NeverBlockedFromBelow
    <2>1. PICK deny \in protected : Overlap(deny, allow) /\ Precedes(deny, allow)
        BY DEF CompositionInv, FilterInv
    <2>2. deny \in Positions /\ allow \in Positions /\ RuleAt(deny).effect = "deny"
        BY <2>1 DEF CompositionInv, ProgressInv, TypeOK
    <2>3. layers[deny[1]].level \in DOMAIN Precedence /\ layers[allow[1]].level \in DOMAIN Precedence
        BY <2>2, PositionsArePairs DEF TypeOK, IsStack, IsLayer
    <2> QED
        BY <2>1, <2>2, <2>3, PrecedenceIsInjective DEF Precedes, Before
<1> QED
    BY <1>1, CompositionAlways, PTL

(* In what strict composition publishes, only audited exceptions allow     *)
(* over a deny of a higher layer (policy_composition.py 146-174, 201-212). *)
THEOREM ExceptionsHaveTickets == Spec => []ExceptionsAreAudited
<1>1. TypeOK /\ CompositionInv => ExceptionsAreAudited
    <2> SUFFICES ASSUME TypeOK, CompositionInv, outcome = "published", strict,
                        NEW allow \in composed, NEW deny \in composed,
                        RuleAt(allow).effect = "allow", RuleAt(deny).effect = "deny", Overlap(deny, allow),
                        Precedence[layers[deny[1]].level] < Precedence[layers[allow[1]].level]
                 PROVE  layers[allow[1]].broadening /\ layers[allow[1]].audited
        BY DEF ExceptionsAreAudited
    <2>1. deny \in protected
        BY DEF CompositionInv, ProgressInv
    <2>2. layers[allow[1]].broadening
        BY <2>1 DEF CompositionInv, FilterInv
    <2>3. allow[1] \in Visited
        BY FinishedHasSeenAll, PositionsArePairs DEF TypeOK
    <2>4. unaudited = {}
        BY DEF CompositionInv, OutcomeInv, HasErrors
    <2>5. layers[allow[1]].audited \in BOOLEAN
        BY PositionsArePairs DEF TypeOK, IsStack, IsLayer
    <2> QED
        BY <2>2, <2>3, <2>4, <2>5 DEF CompositionInv, FilterInv
<1> QED
    BY <1>1, CompositionAlways, PTL

-----------------------------------------------------------------------------
(* Deciding by the composed policy.                                        *)

LEMMA ComposedRules ==
    ASSUME TypeOK
    PROVE  /\ DOMAIN ComposedPolicy = composed
           /\ \A p \in composed :
                /\ ComposedPolicy[p].effect = RuleAt(p).effect
                /\ ComposedPolicy[p].when = RuleAt(p).when
                /\ ComposedPolicy[p].action = RuleAt(p).action
<1>1. \A p \in composed : IsRule(RuleAt(p))
    BY PositionsArePairs DEF TypeOK, IsStack, IsLayer, RuleAt
<1> QED
    BY <1>1 DEF ComposedPolicy, Namespaced, IsRule

LEMMA LayerRules ==
    ASSUME TypeOK, NEW i \in DOMAIN layers
    PROVE  /\ DOMAIN LayerPolicy(i) = DOMAIN layers[i].rules
           /\ \A k \in DOMAIN layers[i].rules : <<i, k>> \in Positions /\ LayerPolicy(i)[k] = RuleAt(<<i, k>>)
BY PositionsArePairs DEF LayerPolicy, RuleAt

LEMMA PermittingLadder ==
    ASSUME NEW policy, NEW default, NEW request, Permits(Decide(policy, default, request))
    PROVE  /\ ~Raises(policy)
           /\ ~Some(policy, "deny", request)
           /\ ~Some(policy, "require_approval", request)
           /\ Some(policy, "allow", request) \/ default = "allow"
           /\ Decide(policy, default, request) = Allowing(Transforms(policy, request))
BY DecideLadder DEF Permits, Verdict

(* Nothing that is permitted is against a layer's word                     *)
(* (policy_composition.py 126-186, policy.py 49-132).                      *)
THEOREM LayersAreNotOverruled == Spec => []NoLayerIsOverruled
<1>1. TypeOK /\ CompositionInv => NoLayerIsOverruled
    <2> SUFFICES ASSUME TypeOK, CompositionInv, outcome # "composing", NEW request \in Requests,
                        Permits(Decide(ComposedPolicy, "deny", request))
                 PROVE  /\ \E i \in DOMAIN layers :
                            LET own == Decide(LayerPolicy(i), layers[i].default, request)
                            IN  /\ own.decision \notin {"deny", "require_approval"}
                                /\ own.actions \subseteq Decide(ComposedPolicy, "deny", request).actions
                        /\ \A p \in Positions :
                            RuleAt(p).effect \in {"deny", "require_approval"} => ~Matches(RuleAt(p).when, request)
        BY DEF NoLayerIsOverruled
    <2> DEFINE verdict == Decide(ComposedPolicy, "deny", request)
    <2>1. /\ ~Some(ComposedPolicy, "deny", request)
          /\ ~Some(ComposedPolicy, "require_approval", request)
          /\ Some(ComposedPolicy, "allow", request)
          /\ verdict = Allowing(Transforms(ComposedPolicy, request))
        BY PermittingLadder
    <2>2. \A p \in Positions : RuleAt(p).effect # "allow" => p \in composed
        BY FinishedHasSeenAll DEF CompositionInv, ProgressInv
    <2>3. \A p \in Positions :
            RuleAt(p).effect \in {"deny", "require_approval"} => ~Matches(RuleAt(p).when, request)
        BY <2>1, <2>2, ComposedRules DEF Some
    <2>4. PICK p \in composed : RuleAt(p).effect = "allow" /\ Matches(RuleAt(p).when, request)
        BY <2>1, ComposedRules DEF Some
    <2> DEFINE i == p[1]
               own == Decide(LayerPolicy(i), layers[i].default, request)
    <2>5. i \in DOMAIN layers /\ p[2] \in DOMAIN layers[i].rules /\ p = <<i, p[2]>>
        BY PositionsArePairs DEF TypeOK
    <2>6. Some(LayerPolicy(i), "allow", request)
        BY <2>4, <2>5, LayerRules DEF Some
    <2>7. ~Some(LayerPolicy(i), "deny", request) /\ ~Some(LayerPolicy(i), "require_approval", request)
        <3> SUFFICES ASSUME NEW effect \in {"deny", "require_approval"}
                     PROVE  ~Some(LayerPolicy(i), effect, request)
            OBVIOUS
        <3>1. \A k \in DOMAIN layers[i].rules : LayerPolicy(i)[k].effect = effect =>
                    ~Matches(LayerPolicy(i)[k].when, request)
            BY <2>3, <2>5, LayerRules
        <3> QED
            BY <2>5, <3>1, LayerRules DEF Some
    <2>8. own = Verdict("raises", {}) \/ own = Allowing(Transforms(LayerPolicy(i), request))
        BY <2>6, <2>7, DecideLadder
    <2>9. Transforms(LayerPolicy(i), request) \subseteq Transforms(ComposedPolicy, request)
        <3> SUFFICES ASSUME NEW k \in DOMAIN layers[i].rules,
                            LayerPolicy(i)[k].effect = "transform", Matches(LayerPolicy(i)[k].when, request),
                            LayerPolicy(i)[k].action # None
                     PROVE  LayerPolicy(i)[k].action \in Transforms(ComposedPolicy, request)
            BY <2>5, LayerRules DEF Transforms
        <3>1. <<i, k>> \in composed /\ LayerPolicy(i)[k] = RuleAt(<<i, k>>)
            BY <2>2, <2>5, LayerRules
        <3> QED
            BY <3>1, ComposedRules DEF Transforms
    <2>10. own.decision \notin {"deny", "require_approval"} /\ own.actions \subseteq verdict.actions
        BY <2>1, <2>8, <2>9 DEF Allowing, Verdict
    <2> QED
        BY <2>3, <2>5, <2>10
<1> QED
    BY <1>1, CompositionAlways, PTL

(* Composition narrows, and strict composition publishes only what decides *)
(* like all rules of all layers (policy_composition.py 93-95, 126-186).    *)
THEOREM PublishedPoliciesAreWhole == Spec => []PublishedLosesNothing
<1>1. TypeOK /\ CompositionInv => PublishedLosesNothing
    <2> SUFFICES ASSUME TypeOK, CompositionInv, outcome # "composing", NEW request \in Requests
                 PROVE  LET verdict == Decide(ComposedPolicy, "deny", request)
                            whole == Decide(Undivided, "deny", request)
                        IN  /\ verdict # whole => /\ whole.decision # "deny"
                                                  /\ verdict.decision = "deny" \/ whole.decision = "raises"
                            /\ outcome = "published" /\ strict => verdict = whole
        BY DEF PublishedLosesNothing
    <2>1. DOMAIN Undivided = Positions /\ \A p \in Positions : Undivided[p] = RuleAt(p)
        BY DEF Undivided
    <2>2. /\ composed \subseteq Positions
          /\ \A p \in Positions : RuleAt(p).effect # "allow" => p \in composed
        BY FinishedHasSeenAll DEF CompositionInv, ProgressInv
    <2>3. \A effect : effect # "allow" =>
            (Some(ComposedPolicy, effect, request) <=> Some(Undivided, effect, request))
        BY <2>1, <2>2, ComposedRules DEF Some
    <2>4. /\ Some(ComposedPolicy, "allow", request) => Some(Undivided, "allow", request)
          /\ Raises(ComposedPolicy) => Raises(Undivided)
        BY <2>1, <2>2, ComposedRules DEF Some, Raises
    <2>5. Transforms(ComposedPolicy, request) = Transforms(Undivided, request)
        BY <2>1, <2>2, ComposedRules DEF Transforms
    <2>6. ASSUME outcome = "published", strict
          PROVE  /\ Some(ComposedPolicy, "allow", request) <=> Some(Undivided, "allow", request)
                 /\ Raises(ComposedPolicy) <=> Raises(Undivided)
        <3>1. composed = Positions
            BY <2>6, FinishedHasSeenAll DEF CompositionInv, OutcomeInv, HasErrors
        <3> QED
            BY <2>1, <3>1, ComposedRules DEF Some, Raises
    <2> DEFINE verdict == Decide(ComposedPolicy, "deny", request)
               whole == Decide(Undivided, "deny", request)
    <2>7. outcome = "published" /\ strict => verdict = whole
        BY <2>3, <2>5, <2>6, DecideLadder
    <2>8. verdict # whole => whole.decision # "deny" /\ (verdict.decision = "deny" \/ whole.decision = "raises")
        BY <2>3, <2>4, <2>5, DecideLadder DEF Allowing, Verdict
    <2> QED
        BY <2>7, <2>8
<1> QED
    BY <1>1, CompositionAlways, PTL
=============================================================================
