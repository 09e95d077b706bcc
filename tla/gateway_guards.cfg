\* The central policy gains a guard after the process has started.
SPECIFICATION Spec
CONSTANTS
    None = None
    Denial = Denial
    c1 = c1
    c2 = c2
    c3 = c3
    n1 = n1
    n2 = n2
    Threads = {t1}
    Callers = {c1, c2, c3}
    Revoked = {c3}
    GuardNames = {n1, n2}
    Known = {n1, n2}
    Documents <- Updated
    Rollouts <- NoRollout
INVARIANTS UpdatedGuardsInspect
