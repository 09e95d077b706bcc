\* Two threads, policies with one guards section, no rollout, shadow and enforce.
SPECIFICATION Spec
CONSTANTS
    None = None
    Denial = Denial
    c1 = c1
    c2 = c2
    c3 = c3
    n1 = n1
    n2 = n2
    Threads = {t1, t2}
    Callers = {c1, c2, c3}
    Revoked = {c3}
    GuardNames = {n1, n2}
    Known = {n1, n2}
    Documents <- Steady
    Rollouts <- AnyRollout
INVARIANTS TypeOK CallsAreAuthorised AnswersAreTraced DeclaredGuardsInspect
