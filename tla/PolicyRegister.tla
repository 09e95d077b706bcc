--------------------------- MODULE PolicyRegister ---------------------------
(***************************************************************************)
(* What DynamicPolicyEngine promises to its callers: one policy that is    *)
(* replaced as a whole, only by a policy that passed every check and never *)
(* by an earlier version; a request is decided by the policy that is       *)
(* active at that moment, or denied.  How the policy is fetched, cached    *)
(* and retried does not appear.                                            *)
(***************************************************************************)
CONSTANTS
    Clients,      \* those who ask for decisions
    Checked,      \* the policies that pass every check
    Precedes(_, _),  \* Precedes(p, q): p is an earlier version than q
    None,         \* no policy, no answer
    Denial        \* the denial given when no policy can be used

VARIABLES policy, answer

Init ==
    /\ policy = None
    /\ answer = [c \in Clients |-> None]

Replace(p) ==
    /\ policy = None \/ ~Precedes(p, policy)
    /\ policy' = p
    /\ UNCHANGED answer

Ask(c) ==
    /\ policy # None
    /\ answer' = [answer EXCEPT ![c] = None]
    /\ UNCHANGED policy

Reply(c) ==
    /\ policy # None
    /\ answer' = [answer EXCEPT ![c] = policy]
    /\ UNCHANGED policy

Deny(c) ==
    /\ answer' = [answer EXCEPT ![c] = Denial]
    /\ UNCHANGED policy

(* The process ends: its clients with it.                                  *)
Lose ==
    /\ policy' = None
    /\ answer' = [c \in Clients |-> None]

Next ==
    \/ \E p \in Checked : Replace(p)
    \/ \E c \in Clients : Ask(c) \/ Reply(c) \/ Deny(c)
    \/ Lose

Spec == Init /\ [][Next]_<<policy, answer>>
=============================================================================
