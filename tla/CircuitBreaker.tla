--------------------------- MODULE CircuitBreaker ---------------------------
(***************************************************************************)
(* BudgetCircuitBreaker.record (circuit_breakers.py): threads that share a *)
(* breaker report the usage of one session, without a lock.  The deque of  *)
(* the session is what was appended, less the popped beginning.  Sessions  *)
(* do not touch each other.  Costs are whole units.                        *)
(***************************************************************************)
EXTENDS Naturals, Sequences, FiniteSets

CONSTANTS
    Callers,   \* threads
    Tools,
    NoTool,
    Usages,    \* what a call may report
    Window,    \* window_seconds
    MaxRate,   \* max_tool_calls_per_window
    MaxCost,   \* max_cost_usd_per_session
    MaxTokens, \* max_tokens_per_session
    MaxCalls,  \* bound: calls of record
    MaxTime    \* bound: the clock

Usage == [tool : Tools \cup {NoTool}, tokens : Nat, cost : Nat]

ASSUME BreakerAssumption ==
    /\ Usages \subseteq Usage
    /\ NoTool \notin Tools
    /\ Window \in Nat /\ MaxRate \in Nat /\ MaxCost \in Nat /\ MaxTokens \in Nat
    /\ MaxCalls \in Nat /\ MaxTime \in Nat

VARIABLES
    clock,
    call,    \* the call of record a thread is in, or its last one
    entries, \* the events appended, in order
    popped,  \* how many were taken from the left
    crowded  \* two threads were about to pop at the same time

breakerVars == <<clock, call, entries, popped, crowded>>

NoCall == [at |-> "idle"]
Calls  == [at : {"append", "compact", "pop", "judge", "done", "failed"}, now : Nat,
           usage : Usage, code : {"none", "COST", "TOKENS", "RATE"}]
Entries == [at : Nat, usage : Usage]

BreakerTypeOK ==
    /\ clock \in 0 .. MaxTime
    /\ call \in [Callers -> Calls \cup {NoCall}]
    /\ entries \in Seq(Entries)
    /\ popped \in 0 .. Len(entries)
    /\ crowded \in BOOLEAN

BreakerInit ==
    /\ clock = 0
    /\ call = [t \in Callers |-> NoCall]
    /\ entries = <<>>
    /\ popped = 0
    /\ crowded = FALSE

Tick ==
    /\ clock < MaxTime
    /\ clock' = clock + 1
    /\ UNCHANGED <<call, entries, popped, crowded>>

(* now = time.time(), and the event is made.                               *)
Report(t) ==
    /\ call[t].at \in {"idle", "done", "failed"}
    /\ Len(entries) + Cardinality({u \in Callers : call[u].at = "append"}) < MaxCalls
    /\ \E usage \in Usages :
        call' = [call EXCEPT ![t] = [at |-> "append", now |-> clock, usage |-> usage, code |-> "none"]]
    /\ UNCHANGED <<clock, entries, popped, crowded>>

AppendEvent(t) ==
    /\ call[t].at = "append"
    /\ entries' = Append(entries, [at |-> call[t].now, usage |-> call[t].usage])
    /\ call' = [call EXCEPT ![t].at = "compact"]
    /\ UNCHANGED <<clock, popped, crowded>>

Queue == popped + 1 .. Len(entries)

(* Mutant of Stale: the window is the retention.                           *)
StaleInWindow(k, now) == now > entries[k].at + Window

Stale(k, now) == now > entries[k].at + 4 * Window

(* The loop of _compact looks at the head, and then takes what is the head *)
(* by then.                                                                *)
SeeStale(t) ==
    /\ call[t].at = "compact"
    /\ Queue # {}
    /\ Stale(popped + 1, call[t].now)
    /\ call' = [call EXCEPT ![t].at = "pop"]
    /\ crowded' = (crowded \/ \E u \in Callers : call[u].at = "pop")
    /\ UNCHANGED <<clock, entries, popped>>

(* IndexError, if other threads (two of them, at least) took the last      *)
(* events meanwhile.                                                       *)
PopLeft(t) ==
    /\ call[t].at = "pop"
    /\ IF Queue = {}
       THEN call' = [call EXCEPT ![t].at = "failed"] /\ popped' = popped
       ELSE call' = [call EXCEPT ![t].at = "compact"] /\ popped' = popped + 1
    /\ UNCHANGED <<clock, entries, crowded>>

SeeFresh(t) ==
    /\ call[t].at = "compact"
    /\ Queue # {} => ~Stale(popped + 1, call[t].now)
    /\ call' = [call EXCEPT ![t].at = "judge"]
    /\ UNCHANGED <<clock, entries, popped, crowded>>

-----------------------------------------------------------------------------
(* _metrics, of the events in the deque.  A sum is the number of the units *)
(* that the events report, each told apart by its event.                   *)
Spent(events)  == Cardinality(UNION {{k} \X (1 .. entries[k].usage.cost) : k \in events})
Tokens(events) == Cardinality(UNION {{k} \X (1 .. entries[k].usage.tokens) : k \in events})

InWindow(tool, now) == {k \in Queue : entries[k].usage.tool = tool /\ entries[k].at + Window >= now}

Code(tool, now) ==
    IF Spent(Queue) > MaxCost THEN "COST"
    ELSE IF Tokens(Queue) > MaxTokens THEN "TOKENS"
    ELSE IF tool # NoTool /\ Cardinality(InWindow(tool, now)) > MaxRate THEN "RATE"
    ELSE "none"

(* The metrics, from one copy of the deque, and the decision: allowed, or  *)
(* blocked with a code.                                                    *)
Judge(t) ==
    /\ call[t].at = "judge"
    /\ call' = [call EXCEPT ![t].at = "done", ![t].code = Code(call[t].usage.tool, call[t].now)]
    /\ UNCHANGED <<clock, entries, popped, crowded>>

BreakerNext ==
    \/ Tick
    \/ \E t \in Callers :
        Report(t) \/ AppendEvent(t) \/ SeeStale(t) \/ PopLeft(t) \/ SeeFresh(t) \/ Judge(t)

BreakerSpec == BreakerInit /\ [][BreakerNext]_breakerVars

-----------------------------------------------------------------------------
Allows(t) == call[t].at = "judge" /\ call'[t].at = "done" /\ call'[t].code = "none"

Since(age) == {k \in DOMAIN entries : entries[k].at + age >= clock}

(* What the breaker lets pass is within the limits, of all that was ever   *)
(* reported, the dropped and the blocked included: the rate of the tool    *)
(* within the window behind the moment of the decision, and the limits of  *)
(* the session, so called, over the last four windows - that is how long   *)
(* _compact keeps their events, and not less.  However long the thread     *)
(* waited before, so long as no two threads compacted at once.             *)
(* (record, _compact, _metrics, _blocked)                                  *)
LimitsHold ==
    [][\A t \in Callers : Allows(t) /\ ~crowded =>
        /\ call[t].usage.tool # NoTool =>
            Cardinality({k \in Since(Window) : entries[k].usage.tool = call[t].usage.tool}) =< MaxRate
        /\ Spent(Since(4 * Window)) =< MaxCost
        /\ Tokens(Since(4 * Window)) =< MaxTokens]_breakerVars
=============================================================================
