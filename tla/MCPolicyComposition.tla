------------------------- MODULE MCPolicyComposition -------------------------
(***************************************************************************)
(* TLC instances of PolicyComposition: every stack of two layers from a    *)
(* pool of rules about two attributes.                                     *)
(***************************************************************************)
EXTENDS PolicyComposition, TLC

Key1 == [attribute |-> "data", operator |-> "eq"]
Key2 == [attribute |-> "role", operator |-> "in"]
Key3 == [attribute |-> "role", operator |-> "not_in"]

Everything == <<>>
Data1    == Key1 :> {1}
Role1    == Key2 :> {1}
Data1Role1 == Data1 @@ Key2 :> {0, 1}
NotRole1 == Key3 :> {1}

SomeRule(name, effect, when) == [name |-> name, effect |-> effect, action |-> None, when |-> when]

Pool ==
    {SomeRule("deny", "deny", Data1), SomeRule("deny2", "deny", Role1),
     SomeRule("allow", "allow", Everything), SomeRule("allow", "allow", Data1Role1),
     SomeRule("allow2", "allow", NotRole1), SomeRule("broken", "allow", None),
     SomeRule("ask", "require_approval", Role1),
     [name |-> "redact", effect |-> "transform", action |-> "redact", when |-> Data1],
     SomeRule("typo", "denny", Everything)}

UpTo(n) == UNION {[1 .. k -> Pool] : k \in 0 .. n}

SomeLayer(level, broadening, audited, default, rules) ==
    [level |-> level, name |-> "team", broadening |-> broadening, audited |-> audited,
     default |-> default, rules |-> rules]

(* A manifest lists a layer of two rules and one of one rule, at the same  *)
(* level or at different ones, in either order of precedence.              *)
Pairs ==
    {<<SomeLayer(levels[1], FALSE, FALSE, "deny", first),
       SomeLayer(levels[2], kind[1], kind[2], kind[3], second)>> :
        levels \in {<<"global", "app">>, <<"app", "global">>, <<"app", "app">>},
        first \in UpTo(2), second \in UpTo(1),
        kind \in {<<FALSE, FALSE, "deny">>, <<TRUE, FALSE, "deny">>, <<TRUE, TRUE, "allow">>}}

AllRequests == [{"data", "role"} -> {0, 1, None}]
=============================================================================
