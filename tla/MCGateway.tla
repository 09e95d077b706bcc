------------------------------ MODULE MCGateway ------------------------------
(***************************************************************************)
(* TLC instances of Gateway: the policies a deployment may come to hold.   *)
(***************************************************************************)
EXTENDS Gateway, TLC

CONSTANTS c1, c2, c3, n1, n2   \* c3 is revoked, whatever the policies say

Spec1(n, callers) == [name |-> n, when |-> callers]
Policy(v1, v2, inputs, outputs) ==
    [verdict |-> (c1 :> v1 @@ c2 :> v2 @@ c3 :> "allow"), input |-> inputs, output |-> outputs]

(* One section: n1 serves both phases, with different callers; n2 only     *)
(* inspects requests.                                                      *)
Inputs  == <<Spec1(n1, {c1}), Spec1(n2, {c1, c2})>>
Outputs == <<Spec1(n1, {c2})>>

Steady == {Policy("allow", "redact", Inputs, Outputs),
           Policy("deny", "approve", Inputs, Outputs)}

(* The second policy adds a guard that the first does not have.            *)
Updated == {Policy("allow", "redact", Inputs, Outputs),
            Policy("allow", "redact", Inputs, <<Spec1(n1, {c2}), Spec1(n2, {c1, c2})>>)}

NoRollout == {None}
AnyRollout ==
    {None} \cup {[verdict |-> (c1 :> "redact" @@ c2 :> "allow" @@ c3 :> "allow"), mode |-> m] : m \in {"shadow", "enforce"}}
=============================================================================
