--------------------------- MODULE MCDynamicPolicy ---------------------------
(***************************************************************************)
(* TLC instances of DynamicPolicy.  Rolling* let time pass without end in  *)
(* a finite state space: the code only compares differences of timestamps, *)
(* so instead of moving the clock they move every timestamp back.          *)
(***************************************************************************)
EXTENDS DynamicPolicy

Sub(a, b) == IF a > b THEN a - b ELSE 0

(* A timestamp that has reached 0 lies further back than any comparison    *)
(* with StartClock = RefreshSeconds + LoadLimit looks.                     *)
Roll ==
    /\ \A t \in Threads : InRefresh(t) => clock - now[t] < LoadLimit
    /\ now' = [t \in Threads |-> Sub(now[t], 1)]
    /\ lastAttempt' = Sub(lastAttempt, 1)
    /\ nextAttempt' = Sub(nextAttempt, 1)
    /\ UNCHANGED <<clock, env, cache, phase, active, failures, asked, pc, loaded, answer>>

RollingNext ==
    \/ Roll
    \/ Environment
    \/ \E t \in Threads : Boot(t) \/ Arrive(t) \/ Step(t)

RollingSpec ==
    /\ Init
    /\ [][RollingNext]_vars
    /\ WF_vars(Roll)
    /\ WF_vars(\E t \in Threads : Boot(t))
    /\ \A t \in Threads : WF_vars(Arrive(t)) /\ WF_vars(Step(t))

Settled == reachable /\ diskOk /\ Readable(remote, Pin) /\ SchemaValid(remote)

(* When the store stays reachable with a valid policy and the cache file   *)
(* stays writable, every process that is up ends on that policy and stays  *)
(* there, whatever failures, backoffs and crashes came before (refresh,    *)
(* 331-361), as long as requests keep coming.                              *)
Recovery == <>[]Settled => <>[](phase = "up" => engine = remote)
=============================================================================
