---------------------------- MODULE SessionState ----------------------------
(***************************************************************************)
(* SessionStateMonitor (session_state.py) for one session that several     *)
(* workers serve at once: request threads over the in-memory store, which  *)
(* hands out the session object itself, or worker processes over the       *)
(* SQLite store, which hands out a copy.  Every observe_* call is a get,   *)
(* possibly a put of a blank state, the updates, a put and the comparison  *)
(* with the limits; nothing holds a lock across them.                      *)
(***************************************************************************)
EXTENDS Naturals, FiniteSets

CONSTANTS
    Workers,      \* threads (memory) or worker processes (sqlite)
    Actions,      \* connector.action keys
    Backends,     \* the stores: "memory", "sqlite"
    MaxTools,     \* max_tool_calls_per_session
    MaxSame,      \* max_same_tool_action_per_session
    MaxFindings,  \* max_sensitive_findings_per_session
    MaxOutput,    \* max_output_sensitive_findings_per_session
    MaxCount,     \* bound: findings in one message
    MaxCalls,     \* bound: observe_* calls
    None          \* no state, no object

(* The counters of SessionState that a limit is compared with; tool_actions*)
(* is one counter per action.                                              *)
Totals   == {"tools", "findings", "output"}
Counters == Actions \cup Totals

ASSUME SessionAssumption ==
    /\ IsFiniteSet(Workers)
    /\ Actions \cap Totals = {}
    /\ None \notin Actions
    /\ Backends \subseteq {"memory", "sqlite"}
    /\ MaxTools \in Nat
    /\ MaxSame \in Nat
    /\ MaxFindings \in Nat
    /\ MaxOutput \in Nat
    /\ MaxCount \in Nat
    /\ MaxCalls \in Nat

Limit(c) ==
    CASE c = "tools"    -> MaxTools
      [] c = "findings" -> MaxFindings
      [] c = "output"   -> MaxOutput
      [] OTHER          -> MaxSame

(* SessionState, and the tallies of the history variables.                 *)
State == [Counters -> Nat]
Blank == [c \in Counters |-> 0]

ASSUME NoneAssumption == None \notin State \cup Workers

(* What a call adds, and to which counters.                                *)
ToolCall(a)   == [touches |-> {"tools", a}, count |-> 1, action |-> a]
Message(c, n) == [touches |-> {c}, count |-> n, action |-> None]
Ops == {ToolCall(a) : a \in Actions}
           \cup {Message(c, n) : c \in {"findings", "output"}, n \in 0 .. MaxCount}

VARIABLES
    backend,    \* which store this deployment has
    stored,     \* the store: None, an object (memory) or a state (sqlite)
    heap,       \* heap[w]: the SessionState object worker w made last
    ref,        \* ref[w]: whose object w's call works on
    pc,         \* where w's call stands
    op,         \* w's call
    tally,      \* w's local: tool_actions.get(action_key, 0)
    calls,      \* number of calls made
    observed,   \* history: everything counted by a call
    admitted,   \* history: everything counted by a call that was allowed
    overlapped  \* history: two calls were under way at once

vars == <<backend, stored, heap, ref, pc, op, tally, calls, observed, admitted, overlapped>>

TypeOK ==
    /\ backend \in Backends
    /\ stored \in {None} \cup IF backend = "memory" THEN Workers ELSE State
    /\ heap \in [Workers -> State]
    /\ ref \in [Workers -> Workers]
    /\ pc \in [Workers -> {"idle", "get", "blank", "update", "action", "put", "signal"}]
    /\ op \in [Workers -> Ops \cup {None}]
    /\ \A w \in Workers : pc[w] # "idle" => op[w] \in Ops
    /\ \A w \in Workers : pc[w] = "action" => op[w].action # None
    /\ tally \in [Workers -> Nat]
    /\ calls \in 0 .. MaxCalls
    /\ observed \in State
    /\ admitted \in State
    /\ overlapped \in BOOLEAN

Init ==
    /\ backend \in Backends
    /\ stored = None
    /\ heap = [w \in Workers |-> Blank]
    /\ ref = [w \in Workers |-> w]
    /\ pc = [w \in Workers |-> "idle"]
    /\ op = [w \in Workers |-> None]
    /\ tally = [w \in Workers |-> 0]
    /\ calls = 0
    /\ observed = Blank
    /\ admitted = Blank
    /\ overlapped = FALSE

-----------------------------------------------------------------------------
Goto(w, step) == pc' = [pc EXCEPT ![w] = step]

Counted(s, o) == [c \in Counters |-> IF c \in o.touches THEN s[c] + o.count ELSE s[c]]

Begin(w, o) ==
    /\ pc[w] = "idle"
    /\ calls < MaxCalls
    /\ calls' = calls + 1
    /\ op' = [op EXCEPT ![w] = o]
    /\ overlapped' = (overlapped \/ \E v \in Workers : pc[v] # "idle")
    /\ Goto(w, "get")
    /\ UNCHANGED <<backend, stored, heap, ref, tally, observed, admitted>>

(* state(): store.get, which returns the object or reads a copy of the row.*)
GetState(w) ==
    /\ pc[w] = "get"
    /\ stored # None
    /\ IF backend = "memory"
       THEN ref' = [ref EXCEPT ![w] = stored] /\ UNCHANGED heap
       ELSE ref' = [ref EXCEPT ![w] = w] /\ heap' = [heap EXCEPT ![w] = stored]
    /\ Goto(w, "update")
    /\ UNCHANGED <<backend, stored, op, tally, calls, observed, admitted, overlapped>>

(* Mutant of MakeState: the None that store.get returned is kept.          *)
MakeNoState(w) ==
    /\ pc[w] = "get"
    /\ stored = None
    /\ ref' = [ref EXCEPT ![w] = w]
    /\ heap' = [heap EXCEPT ![w] = None]
    /\ Goto(w, "blank")
    /\ UNCHANGED <<backend, stored, op, tally, calls, observed, admitted, overlapped>>

(* state(): no state yet, so a blank one is made ...                       *)
MakeState(w) ==
    /\ pc[w] = "get"
    /\ stored = None
    /\ ref' = [ref EXCEPT ![w] = w]
    /\ heap' = [heap EXCEPT ![w] = Blank]
    /\ Goto(w, "blank")
    /\ UNCHANGED <<backend, stored, op, tally, calls, observed, admitted, overlapped>>

StorePut(w) == stored' = IF backend = "memory" THEN ref[w] ELSE heap[ref[w]]

(* ... and stored, whatever another call has stored since the get.         *)
PutBlank(w) ==
    /\ pc[w] = "blank"
    /\ StorePut(w)
    /\ Goto(w, "update")
    /\ UNCHANGED <<backend, heap, ref, op, tally, calls, observed, admitted, overlapped>>

(* Mutant of CountTool: the call is counted twice.                         *)
CountToolTwice(w) ==
    /\ pc[w] = "update"
    /\ op[w].action # None
    /\ heap' = [heap EXCEPT ![ref[w]]["tools"] = @ + 2]
    /\ tally' = [tally EXCEPT ![w] = heap[ref[w]][op[w].action]]
    /\ observed' = Counted(observed, op[w])
    /\ Goto(w, "action")
    /\ UNCHANGED <<backend, stored, ref, op, calls, admitted, overlapped>>

(* state.tool_calls += 1, and the read of tool_actions: dict.get is a call,*)
(* after which the interpreter may switch threads.                         *)
CountTool(w) ==
    /\ pc[w] = "update"
    /\ op[w].action # None
    /\ heap' = [heap EXCEPT ![ref[w]]["tools"] = @ + 1]
    /\ tally' = [tally EXCEPT ![w] = heap[ref[w]][op[w].action]]
    /\ observed' = Counted(observed, op[w])
    /\ Goto(w, "action")
    /\ UNCHANGED <<backend, stored, ref, op, calls, admitted, overlapped>>

CountAction(w) ==
    /\ pc[w] = "action"
    /\ heap' = [heap EXCEPT ![ref[w]][op[w].action] = tally[w] + 1]
    /\ tally' = [tally EXCEPT ![w] = 0]
    /\ Goto(w, "put")
    /\ UNCHANGED <<backend, stored, ref, op, calls, observed, admitted, overlapped>>

(* _add_findings.                                                          *)
AddFindings(w) ==
    /\ pc[w] = "update"
    /\ op[w].action = None
    /\ heap' = [heap EXCEPT ![ref[w]] = Counted(@, op[w])]
    /\ observed' = Counted(observed, op[w])
    /\ Goto(w, "put")
    /\ UNCHANGED <<backend, stored, ref, op, tally, calls, admitted, overlapped>>

(* Mutant of PutState: the counters are not stored again.                  *)
PutStateForgotten(w) ==
    /\ pc[w] = "put"
    /\ Goto(w, "signal")
    /\ UNCHANGED <<backend, stored, heap, ref, op, tally, calls, observed, admitted, overlapped>>

PutState(w) ==
    /\ pc[w] = "put"
    /\ StorePut(w)
    /\ Goto(w, "signal")
    /\ UNCHANGED <<backend, heap, ref, op, tally, calls, observed, admitted, overlapped>>

(* Mutant of WithinLimits: off by one.                                     *)
WithinLimitsOffByOne(s, o) == \A c \in o.touches : s[c] =< Limit(c) + 1

(* The comparisons: every limit may be reached, none exceeded.             *)
WithinLimits(s, o) == \A c \in o.touches : s[c] =< Limit(c)

(* The verdict is taken from the object the call worked on.                *)
Signal(w) ==
    /\ pc[w] = "signal"
    /\ admitted' = IF WithinLimits(heap[ref[w]], op[w])
                   THEN Counted(admitted, op[w]) ELSE admitted
    /\ op' = [op EXCEPT ![w] = None]
    /\ Goto(w, "idle")
    /\ UNCHANGED <<backend, stored, heap, ref, tally, calls, observed, overlapped>>

(* The process dies: its sessions and its threads are gone.                *)
CrashMemory ==
    /\ backend = "memory"
    /\ stored # None
    /\ stored' = None
    /\ heap' = [w \in Workers |-> Blank]
    /\ pc' = [w \in Workers |-> "idle"]
    /\ op' = [w \in Workers |-> None]
    /\ tally' = [w \in Workers |-> 0]
    /\ observed' = Blank
    /\ admitted' = Blank
    /\ overlapped' = FALSE
    /\ UNCHANGED <<backend, ref, calls>>

(* A worker process dies, or sqlite3 raises because the database is locked:*)
(* the call ends without a verdict, the row stays as it is.                *)
CrashWorker(w) ==
    /\ backend = "sqlite"
    /\ pc[w] # "idle"
    /\ op' = [op EXCEPT ![w] = None]
    /\ tally' = [tally EXCEPT ![w] = 0]
    /\ Goto(w, "idle")
    /\ UNCHANGED <<backend, stored, heap, ref, calls, observed, admitted, overlapped>>

Next ==
    \/ CrashMemory
    \/ \E w \in Workers :
        \/ \E o \in Ops : Begin(w, o)
        \/ GetState(w) \/ MakeState(w) \/ PutBlank(w)
        \/ CountTool(w) \/ CountAction(w) \/ AddFindings(w)
        \/ PutState(w) \/ Signal(w) \/ CrashWorker(w)

Spec == Init /\ [][Next]_vars

-----------------------------------------------------------------------------
(* Properties.                                                             *)

AtMost(s, t) == \A c \in Counters : s[c] =< t[c]

(* No session is denied for activity it did not have: whatever updates are *)
(* lost to races and crashes, no counter exceeds what was observed         *)
(* (observe_*, 162-204, over both stores).                                 *)
NeverOvercounts ==
    \A w \in Workers : pc[w] \in {"action", "put", "signal"} => AtMost(heap[ref[w]], observed)

(* Calls that do not overlap are held to every limit, across crashes of    *)
(* the worker with the SQLite store (observe_*, 162-204).                  *)
SequentialThreshold ==
    ~overlapped => \A c \in Counters : admitted[c] =< Limit(c)

(* Threads that share the in-memory store can each put a blank state once, *)
(* over a session that was already counting; they cannot get past the      *)
(* limits more often than that (state, 155-160).                           *)
MemoryOvershootBounded ==
    backend = "memory" =>
        \A c \in Totals : admitted[c] =< Limit(c) * Cardinality(Workers)

(* What the documentation promises of any deployment of the monitor:       *)
(* denial once the threshold is crossed.                                   *)
ThresholdEnforced == admitted["tools"] =< MaxTools
=============================================================================
