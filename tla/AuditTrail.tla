----------------------------- MODULE AuditTrail -----------------------------
(***************************************************************************)
(* What is left behind of the requests a sidecar serves: the audit trail   *)
(* (audit.py: AuditLogger on a JSONL file, SQLiteAuditLogger on a table),  *)
(* then the telemetry (observability.py), then the answer.  The threads of *)
(* the HTTP server share one logger and one collector.  The decision comes *)
(* from the gateway (module Gateway); here it is a value.                  *)
(*                                                                         *)
(* An append to the JSONL file is one write of a line to a file opened for *)
(* appending: it lands behind all earlier ones, but a full disk or a lost  *)
(* machine can cut it short, and what comes next is joined to the stump.   *)
(***************************************************************************)
EXTENDS Naturals, Sequences, FiniteSets

CONSTANTS
    Threads,     \* of the ThreadingHTTPServer
    MaxRequests, \* bound: requests that reach the trail or the telemetry
    MaxFaults    \* bound: failed writes, failed exports and restarts

ASSUME TrailAssumption == MaxRequests \in Nat /\ MaxFaults \in Nat

VARIABLES
    store,    \* "jsonl" or "sqlite"
    job,      \* the request a thread works on
    nextId,   \* trace_id, unique
    file,     \* the pieces written, in order; a row of the table is a piece
    counted,  \* the decisions in the counters: check requests, by trace
    events,   \* RuntimeTelemetryCollector._events
    answered, \* the checks that were answered with their decision
    faults

trailVars == <<store, job, nextId, file, counted, events, answered, faults>>

Decisions == {"allow", "conditional_allow", "require_approval", "deny"}
Ids       == 1 .. MaxRequests
Idle      == [at |-> "idle"]
Jobs      == [at : {"record", "count"}, id : Ids, kind : {"check", "tool"}, decision : Decisions]
Pieces    == [id : Ids, whole : BOOLEAN, newline : BOOLEAN]
Events    == [id : Ids, kind : {"check", "tool"}, blocked : BOOLEAN]

TrailTypeOK ==
    /\ store \in {"jsonl", "sqlite"}
    /\ job \in [Threads -> Jobs \cup {Idle}]
    /\ nextId \in 1 .. MaxRequests + 1
    /\ file \in Seq(Pieces)
    /\ counted \in [Decisions -> SUBSET Ids]
    /\ events \in Seq(Events)
    /\ answered \subseteq Ids
    /\ faults \in 0 .. MaxFaults

TrailInit ==
    /\ store \in {"jsonl", "sqlite"}
    /\ job = [t \in Threads |-> Idle]
    /\ nextId = 1
    /\ file = <<>>
    /\ counted = [d \in Decisions |-> {}]
    /\ events = <<>>
    /\ answered = {}
    /\ faults = 0

(* PolicyAwareSidecar.handle: the requests that get past it to a decision. *)
(* GET, a wrong token, an unknown path and an invalid body are answered    *)
(* without a trace; /v1/route and /v1/evaluate decide, but leave none.     *)
Traced(method, authorized, path, valid) ==
    method = "POST" /\ authorized /\ path \in {"/v1/check", "/v1/tool/check"} /\ valid

Accept(t) ==
    /\ job[t] = Idle
    /\ nextId \in Ids
    /\ \E method \in {"GET", "POST"}, authorized, valid \in BOOLEAN,
          path \in {"/metrics", "/v1/check", "/v1/tool/check", "/v1/route"}, d \in Decisions :
        /\ Traced(method, authorized, path, valid)
        /\ job' = [job EXCEPT ![t] =
                    IF path = "/v1/check" THEN [at |-> "record", id |-> nextId, kind |-> "check", decision |-> d]
                    ELSE [at |-> "count", id |-> nextId, kind |-> "tool", decision |-> d]]
    /\ nextId' = nextId + 1
    /\ UNCHANGED <<store, file, counted, events, answered, faults>>

(* The readers: a line that is not one JSON value makes read_traces raise, *)
(* for all traces.                                                         *)
Readable == \A p \in DOMAIN file : file[p].whole /\ (p > 1 => file[p - 1].newline)
OnDisk   == {file[p].id : p \in {q \in DOMAIN file : file[q].whole}}
ReadTraces == IF Readable THEN {file[p].id : p \in DOMAIN file} ELSE {}

Put(id, whole, newline) == Append(file, [id |-> id, whole |-> whole, newline |-> newline])

(* AuditLogger.record and SQLiteAuditLogger.record.                        *)
Record(t) ==
    /\ job[t].at = "record"
    /\ file' = Put(job[t].id, TRUE, TRUE)
    /\ job' = [job EXCEPT ![t].at = "count"]
    /\ UNCHANGED <<store, nextId, counted, events, answered, faults>>

(* Mutant of RecordFails: the error of the sink is swallowed.              *)
RecordFailsQuietly(t) ==
    /\ job[t].at = "record"
    /\ faults < MaxFaults
    /\ job' = [job EXCEPT ![t].at = "count"]
    /\ faults' = faults + 1
    /\ UNCHANGED <<store, nextId, file, counted, events, answered>>

(* The write raises: OSError is not among the errors the handler answers,  *)
(* and the connection is closed.  Nothing, a part, or all but the newline  *)
(* of the line was written; or all of it, by the second try of close().    *)
(* An INSERT is committed or not.                                          *)
RecordFails(t) ==
    /\ job[t].at = "record"
    /\ faults < MaxFaults
    /\ \/ file' = file
       \/ /\ store = "jsonl"
          /\ \E whole, newline \in BOOLEAN :
                (newline => whole) /\ file' = Put(job[t].id, whole, newline)
    /\ job' = [job EXCEPT ![t] = Idle]
    /\ faults' = faults + 1
    /\ UNCHANGED <<store, nextId, counted, events, answered>>

(* Mutant of Counting: approvals are no blocked events.                    *)
CountingDenials(t) ==
    LET j == job[t] IN
    /\ counted' = IF j.kind = "check" THEN [counted EXCEPT ![j.decision] = @ \cup {j.id}] ELSE counted
    /\ events' = Append(events, [id |-> j.id, kind |-> j.kind, blocked |-> j.decision = "deny"])

(* record_trace and record_tool_decision: the counters and the event, in   *)
(* one critical section.  counted stands for the counters of check         *)
(* requests: requests_total is the number of its traces, policy_denied_    *)
(* total that of its denials.                                              *)
Counting(t) ==
    LET j == job[t] IN
    /\ counted' = IF j.kind = "check" THEN [counted EXCEPT ![j.decision] = @ \cup {j.id}] ELSE counted
    /\ events' = Append(events, [id |-> j.id, kind |-> j.kind,
                                 blocked |-> j.decision \in {"deny", "require_approval"}])

(* The thread then answers.  An allow with approval_required does not      *)
(* occur: ToolPolicyEngine sets it with require_approval only.             *)
Count(t) ==
    /\ job[t].at = "count"
    /\ Counting(t)
    /\ answered' = IF job[t].kind = "check" THEN answered \cup {job[t].id} ELSE answered
    /\ job' = [job EXCEPT ![t] = Idle]
    /\ UNCHANGED <<store, nextId, file, faults>>

(* The OpenTelemetry bridge is called behind the counters and raises: the  *)
(* lock is released, the connection is closed.                             *)
BridgeFails(t) ==
    /\ job[t].at = "count"
    /\ faults < MaxFaults
    /\ Counting(t)
    /\ job' = [job EXCEPT ![t] = Idle]
    /\ faults' = faults + 1
    /\ UNCHANGED <<store, nextId, file, answered>>

(* The process is killed and started again: the collector is new.          *)
Restart ==
    /\ faults < MaxFaults
    /\ job' = [t \in Threads |-> Idle]
    /\ counted' = [d \in Decisions |-> {}]
    /\ events' = <<>>
    /\ faults' = faults + 1
    /\ UNCHANGED <<store, nextId, file, answered>>

TrailNext ==
    \/ \E t \in Threads : Accept(t) \/ Record(t) \/ RecordFails(t) \/ Count(t) \/ BridgeFails(t)
    \/ Restart

TrailSpec == TrailInit /\ [][TrailNext]_trailVars

-----------------------------------------------------------------------------
(* Every decision that a caller was given is on record: read_traces, when  *)
(* it does not raise, returns its trace; it raises only behind a failed    *)
(* write, and never on the table.  (audit.py read_traces against record)   *)
AnsweredIsOnRecord ==
    /\ Readable => answered \subseteq ReadTraces
    /\ faults = 0 \/ store = "sqlite" => Readable
    /\ answered \subseteq OnDisk

(* The metrics never show a check that the trail lacks, whatever failed    *)
(* before, and counters and events tell the same: the blocked events are   *)
(* the denials and approvals counted.  (record before record_trace)        *)
MetricsWithinTrail ==
    LET checks == {events[i].id : i \in {k \in DOMAIN events : events[k].kind = "check"}}
        blocked == {events[i].id : i \in {k \in DOMAIN events : events[k].kind = "check" /\ events[k].blocked}}
    IN  /\ UNION {counted[d] : d \in Decisions} = checks
        /\ counted["deny"] \cup counted["require_approval"] = blocked
        /\ checks \subseteq OnDisk
=============================================================================
