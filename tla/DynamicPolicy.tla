---------------------------- MODULE DynamicPolicy ----------------------------
(***************************************************************************)
(* DynamicPolicyEngine (policy_source.py) in a process that serves several *)
(* requests at once, over a remote PolicySource with a cache file and a    *)
(* fallback file.  Every thread runs decide(): read the clock, pass or not *)
(* the refresh gate under the lock, load outside the lock, install under   *)
(* the lock, then decide with the engine it finds.  The central store is   *)
(* republished and becomes unreachable, the disk fills up, and the process *)
(* crashes and is restarted, at any point between two steps.               *)
(***************************************************************************)
EXTENDS PolicySource, Integers

CONSTANTS
    Threads,         \* request threads of the process
    RefreshSeconds,  \* refresh_seconds
    RetryBase,       \* retry_base_seconds
    RetryMax,        \* retry_max_seconds
    RetryJitter,     \* retry_jitter_seconds
    FloatLimit,      \* exponent from which float * 2**exponent overflows
    FailureCap,      \* bound: where the failure counter stops counting
    FailClosed,      \* fail_closed
    LoadLimit,       \* longest time from reading the clock to leaving refresh
    StartClock,      \* time of the first step
    MaxClock,        \* bound: time of the last step
    Unavailable      \* the POLICY.SOURCE_UNAVAILABLE denial

ASSUME EngineAssumption ==
    /\ RefreshSeconds \in Nat
    /\ RetryBase \in Nat
    /\ RetryMax \in Nat
    /\ RetryJitter \in Nat
    /\ FloatLimit \in Nat
    /\ FailureCap \in Nat \ {0}
    /\ FailClosed \in BOOLEAN
    /\ LoadLimit \in Nat
    /\ StartClock \in Nat
    /\ MaxClock \in Nat
    /\ Unavailable \notin Text \cup {NoText}

(* Arithmetic that the proofs cite: no prover here evaluates a power.      *)
ASSUME PowerAssumption == \A n \in 0 .. FailureCap : 2 ^ n \in Nat

VARIABLES
    clock,        \* time.time()
    remote,       \* the document the central store serves
    reachable,    \* the store answers downloads
    diskOk,       \* the cache file can be opened and written
    cache,        \* content of cache_file
    phase,        \* the process: "down", "booting" (__init__), "up"
    snapshot,     \* self.snapshot
    engine,       \* self._engine: the document it was built from
    lastAttempt,  \* self._last_attempt
    nextAttempt,  \* self._next_attempt
    failures,     \* self._consecutive_failures
    pc,           \* where each thread stands
    now,          \* refresh's local now; 0 outside refresh
    loaded,       \* refresh's local snapshot
    answer,       \* what the thread's last decide() was based on
    asked         \* history: version published when lastAttempt was set

env      == <<remote, reachable, diskOk>>
active   == <<snapshot, engine>>
schedule == <<lastAttempt, nextAttempt, failures, asked>>
local    == <<pc, now, loaded, answer>>
vars     == <<clock, env, cache, phase, active, schedule, local>>

Loading == {"fetch", "store", "write", "recall", "build", "install", "failed"}
Steps   == {"idle", "gate", "decide"} \cup Loading

TypeOK ==
    /\ clock \in Nat
    /\ remote \in Text
    /\ reachable \in BOOLEAN
    /\ diskOk \in BOOLEAN
    /\ cache \in Text \cup {NoText}
    /\ phase \in {"down", "booting", "up"}
    /\ snapshot \in Snapshot \cup {NoSnapshot}
    /\ engine \in Text \cup {NoText}
    /\ lastAttempt \in Nat
    /\ nextAttempt \in Nat
    /\ failures \in 0 .. FailureCap
    /\ pc \in [Threads -> Steps]
    /\ now \in [Threads -> Nat]
    /\ loaded \in [Threads -> Snapshot \cup {NoSnapshot}]
    /\ answer \in [Threads -> Text \cup {NoText, Unavailable}]
    /\ asked \in 0 .. MaxVersion

Init ==
    /\ clock = StartClock
    /\ remote = [ver |-> 1, form |-> "policy"]
    /\ reachable = TRUE
    /\ diskOk = TRUE
    /\ cache = NoText
    /\ phase = "down"
    /\ snapshot = NoSnapshot
    /\ engine = NoText
    /\ lastAttempt = 0
    /\ nextAttempt = 0
    /\ failures = 0
    /\ pc = [t \in Threads |-> "idle"]
    /\ now = [t \in Threads |-> 0]
    /\ loaded = [t \in Threads |-> NoSnapshot]
    /\ answer = [t \in Threads |-> NoText]
    /\ asked = 0

InRefresh(t) == pc[t] \in {"gate"} \cup Loading
InFlight(t)  == pc[t] \in Loading

Goto(t, step) == pc' = [pc EXCEPT ![t] = step]

-----------------------------------------------------------------------------
(* The environment.                                                        *)

(* A thread leaves refresh at most LoadLimit after it read the clock.      *)
Tick ==
    /\ clock < MaxClock
    /\ \A t \in Threads : InRefresh(t) => clock - now[t] < LoadLimit
    /\ clock' = clock + 1
    /\ UNCHANGED <<env, cache, phase, active, schedule, local>>

Publish(form) ==
    /\ remote.ver < MaxVersion
    /\ remote' = [ver |-> remote.ver + 1, form |-> form]
    /\ UNCHANGED <<clock, reachable, diskOk, cache, phase, active, schedule, local>>

ToggleStore ==
    /\ reachable' = ~reachable
    /\ UNCHANGED <<clock, remote, diskOk, cache, phase, active, schedule, local>>

ToggleDisk ==
    /\ HasCache
    /\ diskOk' = ~diskOk
    /\ UNCHANGED <<clock, remote, reachable, cache, phase, active, schedule, local>>

-----------------------------------------------------------------------------
(* The process.                                                            *)

(* The engine object and every thread are gone; the files stay.            *)
ProcessGone ==
    /\ phase' = "down"
    /\ snapshot' = NoSnapshot
    /\ engine' = NoText
    /\ lastAttempt' = 0
    /\ nextAttempt' = 0
    /\ failures' = 0
    /\ asked' = 0
    /\ pc' = [t \in Threads |-> "idle"]
    /\ now' = [t \in Threads |-> 0]
    /\ loaded' = [t \in Threads |-> NoSnapshot]
    /\ answer' = [t \in Threads |-> NoText]

Crash ==
    /\ phase # "down"
    /\ ProcessGone
    /\ UNCHANGED <<clock, env, cache>>

(* __init__ up to the load of refresh(force=True): both gates are skipped. *)
Boot(t) ==
    /\ phase = "down"
    /\ phase' = "booting"
    /\ now' = [now EXCEPT ![t] = clock]
    /\ lastAttempt' = clock
    /\ asked' = remote.ver
    /\ Goto(t, "fetch")
    /\ UNCHANGED <<clock, env, cache, active, nextAttempt, failures, loaded, answer>>

(* decide() calls refresh(), which reads the clock before the lock.        *)
Arrive(t) ==
    /\ phase = "up"
    /\ pc[t] = "idle"
    /\ now' = [now EXCEPT ![t] = clock]
    /\ answer' = [answer EXCEPT ![t] = NoText]
    /\ Goto(t, "gate")
    /\ UNCHANGED <<clock, env, cache, phase, active, schedule, loaded>>

(* Mutants of Suppressed: the TTL is forgotten; a failure suppresses every *)
(* refresh after it.                                                       *)
SuppressedByBackoffOnly(t) == now[t] < nextAttempt
SuppressedAfterFailure(t) ==
    \/ failures > 0
    \/ now[t] - lastAttempt < RefreshSeconds

(* The refresh is too early: during a backoff, or within the TTL.          *)
Suppressed(t) ==
    \/ now[t] < nextAttempt
    \/ now[t] - lastAttempt < RefreshSeconds

(* Mutant of BeginRefresh: the attempt is not noted before the lock is left.*)
BeginRefreshUnnoted(t) ==
    /\ pc[t] = "gate"
    /\ ~Suppressed(t)
    /\ asked' = remote.ver
    /\ Goto(t, "fetch")
    /\ UNCHANGED <<clock, env, cache, phase, active, lastAttempt, nextAttempt,
                   failures, now, loaded, answer>>

SkipRefresh(t) ==
    /\ pc[t] = "gate"
    /\ Suppressed(t)
    /\ now' = [now EXCEPT ![t] = 0]
    /\ Goto(t, "decide")
    /\ UNCHANGED <<clock, env, cache, phase, active, schedule, loaded, answer>>

BeginRefresh(t) ==
    /\ pc[t] = "gate"
    /\ ~Suppressed(t)
    /\ lastAttempt' = now[t]
    /\ asked' = remote.ver
    /\ Goto(t, "fetch")
    /\ UNCHANGED <<clock, env, cache, phase, active, nextAttempt, failures, now, loaded, answer>>

(* Mutant of Fetch: the digest is not compared, the text not parsed.       *)
FetchUnchecked(t) ==
    /\ pc[t] = "fetch"
    /\ reachable
    /\ loaded' = [loaded EXCEPT ![t] = [text |-> remote, source |-> "remote"]]
    /\ Goto(t, IF HasCache THEN "store" ELSE "build")
    /\ UNCHANGED <<clock, env, cache, phase, active, schedule, now, answer>>

(* load(): download and _snapshot.                                         *)
Fetch(t) ==
    /\ pc[t] = "fetch"
    /\ reachable /\ Readable(remote, Pin)
    /\ loaded' = [loaded EXCEPT ![t] = [text |-> remote, source |-> "remote"]]
    /\ Goto(t, IF HasCache THEN "store" ELSE "build")
    /\ UNCHANGED <<clock, env, cache, phase, active, schedule, now, answer>>

FetchRaises(t) ==
    /\ pc[t] = "fetch"
    /\ ~(reachable /\ Readable(remote, Pin))
    /\ Goto(t, "recall")
    /\ UNCHANGED <<clock, env, cache, phase, active, schedule, now, loaded, answer>>

(* load(): cache_file.write_text truncates the file when it opens it ...   *)
OpenCache(t) ==
    /\ pc[t] = "store"
    /\ diskOk
    /\ cache' = EmptyText
    /\ Goto(t, "write")
    /\ UNCHANGED <<clock, env, phase, active, schedule, now, loaded, answer>>

(* ... and then writes from its own offset 0: over what another writer put *)
(* there since, the file can end up a mixture of the two.                  *)
Written(x) ==
    {x} \cup IF cache \in {EmptyText, x} THEN {}
             ELSE {[ver |-> 0, form |-> f] : f \in Forms}

WriteCache(t) ==
    /\ pc[t] = "write"
    /\ diskOk
    /\ cache' \in Written(loaded[t].text)
    /\ Goto(t, "build")
    /\ UNCHANGED <<clock, env, phase, active, schedule, now, loaded, answer>>

(* mkdir, open or write raises: the good download is dropped.              *)
CacheRaises(t) ==
    /\ pc[t] \in {"store", "write"}
    /\ ~diskOk
    /\ loaded' = [loaded EXCEPT ![t] = NoSnapshot]
    /\ Goto(t, "recall")
    /\ UNCHANGED <<clock, env, cache, phase, active, schedule, now, answer>>

(* load(): _cached_snapshot_or_raise, then the fallback source.            *)
Recall(t) ==
    /\ pc[t] = "recall"
    /\ \E s \in Recovered(cache) : loaded' = [loaded EXCEPT ![t] = s]
    /\ Goto(t, "build")
    /\ UNCHANGED <<clock, env, cache, phase, active, schedule, now, answer>>

RecallRaises(t) ==
    /\ pc[t] = "recall"
    /\ Recovered(cache) = {}
    /\ Goto(t, "failed")
    /\ UNCHANGED <<clock, env, cache, phase, active, schedule, now, loaded, answer>>

(* Mutant of Build: the schema violations are not raised.                  *)
BuildUnvalidated(t) ==
    /\ pc[t] = "build"
    /\ Goto(t, "install")
    /\ UNCHANGED <<clock, env, cache, phase, active, schedule, now, loaded, answer>>

(* PolicyEngine(snapshot.policy), outside the lock.                        *)
Build(t) ==
    /\ pc[t] = "build"
    /\ Goto(t, IF SchemaValid(loaded[t].text) THEN "install" ELSE "failed")
    /\ UNCHANGED <<clock, env, cache, phase, active, schedule, now, loaded, answer>>

(* Mutants of Swap: the snapshot in the place of its policy; the engine    *)
(* without the snapshot it was built from.                                 *)
SwapSnapshotAsEngine(s) ==
    /\ snapshot' = s
    /\ engine' = s
    /\ failures' = 0
    /\ nextAttempt' = 0
SwapEngineOnly(s) ==
    /\ snapshot' = IF snapshot = NoSnapshot THEN s ELSE snapshot
    /\ engine' = s.text
    /\ failures' = 0
    /\ nextAttempt' = 0

(* The locked block that ends a successful refresh.                        *)
Swap(s) ==
    /\ snapshot' = s
    /\ engine' = s.text
    /\ failures' = 0
    /\ nextAttempt' = 0

LeaveRefresh(t) ==
    /\ now' = [now EXCEPT ![t] = 0]
    /\ loaded' = [loaded EXCEPT ![t] = NoSnapshot]

Install(t) ==
    /\ pc[t] = "install"
    /\ Swap(loaded[t])
    /\ LeaveRefresh(t)
    /\ phase' = "up"
    /\ Goto(t, IF phase = "booting" THEN "idle" ELSE "decide")
    /\ UNCHANGED <<clock, env, cache, lastAttempt, asked, answer>>

Backoff(n) ==
    LET delay == RetryBase * 2 ^ (n - 1)
    IN  IF delay < RetryMax THEN delay ELSE RetryMax

(* Mutant of RecordFailure: the failure is forgotten.                      *)
RecordFailureUncounted ==
    /\ UNCHANGED failures
    /\ \E jitter \in 0 .. RetryJitter : nextAttempt' = clock + Backoff(1) + jitter

(* _record_refresh_failure_locked.  From FloatLimit on, the float product  *)
(* raises OverflowError after the counter moved and before the backoff is  *)
(* scheduled; refresh's callers treat it like the failure being handled.   *)
RecordFailure ==
    /\ failures' = IF failures < FailureCap THEN failures + 1 ELSE failures
    /\ IF failures' - 1 < FloatLimit
       THEN \E jitter \in 0 .. RetryJitter :
                nextAttempt' = clock + Backoff(failures') + jitter
       ELSE UNCHANGED nextAttempt

(* refresh re-raises and decide denies, or refresh returns False (or       *)
(* decide ignores the exception) and decide goes on to the engine.         *)
RefreshFails(t) ==
    /\ pc[t] = "failed"
    /\ phase = "up"
    /\ RecordFailure
    /\ LeaveRefresh(t)
    /\ IF FailClosed
       THEN /\ answer' = [answer EXCEPT ![t] = Unavailable]
            /\ Goto(t, "idle")
       ELSE /\ Goto(t, "decide")
            /\ UNCHANGED answer
    /\ UNCHANGED <<clock, env, cache, phase, active, lastAttempt, asked>>

(* Without an engine refresh always re-raises, and __init__ with it.       *)
BootFails(t) ==
    /\ pc[t] = "failed"
    /\ phase = "booting"
    /\ ProcessGone
    /\ UNCHANGED <<clock, env, cache>>

(* decide(): take the engine under the lock and decide with it.            *)
Decide(t) ==
    /\ pc[t] = "decide"
    /\ answer' = [answer EXCEPT ![t] =
                    IF engine = NoText THEN Unavailable ELSE engine]
    /\ Goto(t, "idle")
    /\ UNCHANGED <<clock, env, cache, phase, active, schedule, now, loaded>>

-----------------------------------------------------------------------------
Step(t) ==
    \/ SkipRefresh(t) \/ BeginRefresh(t)
    \/ Fetch(t) \/ FetchRaises(t)
    \/ OpenCache(t) \/ WriteCache(t) \/ CacheRaises(t)
    \/ Recall(t) \/ RecallRaises(t)
    \/ Build(t) \/ Install(t) \/ RefreshFails(t) \/ BootFails(t)
    \/ Decide(t)

Environment ==
    \/ \E form \in Forms : Publish(form)
    \/ ToggleStore
    \/ ToggleDisk
    \/ Crash

Next ==
    \/ Tick
    \/ Environment
    \/ \E t \in Threads : Boot(t) \/ Arrive(t) \/ Step(t)

Spec == Init /\ [][Next]_vars

-----------------------------------------------------------------------------
(* Properties.                                                             *)

(* A policy that a reader accepts: the schema, and the pin unless it is    *)
(* the fallback file (version 0).                                          *)
Acceptable(x) == SchemaValid(x) /\ (x.ver \in {0, Pin} \/ Pin = 0)

Earlier(p, q) == Published(p) /\ Published(q) /\ p.ver < q.ver

Register == INSTANCE PolicyRegister WITH
    Clients <- Threads,
    Checked <- {x \in Text : Acceptable(x)},
    Precedes <- Earlier,
    None <- NoText,
    Denial <- Unavailable,
    policy <- engine

(* The engine behaves as one register: validated policies swapped in as a  *)
(* whole, in the order of their versions, each request decided by the one  *)
(* active when it took the lock.  Holds when a refresh ends within its TTL.*)
ImplementsRegister == Register!Spec

(* No request is ever decided by a policy that failed a check: once the    *)
(* constructor has returned there is an engine, its document passed the    *)
(* schema and (unless it is the fallback file) the pin, and the snapshot   *)
(* shown beside it is the one it was built from (refresh, 340-354).        *)
ActivePolicyValid ==
    phase = "up" =>
        /\ engine # NoText
        /\ SchemaValid(engine)
        /\ snapshot.source = "fallback" \/ Readable(engine, Pin)
        /\ snapshot.text = engine

(* A document with another digest than the pinned one never reaches the    *)
(* cache file (load, 106-124): a restart cannot pick it up from there.     *)
CachePinned ==
    Pin # 0 => ~Published(cache) \/ cache.ver = Pin

(* The gate lets one load through at a time, although it is evaluated with *)
(* a clock value read before the lock and the load runs outside it         *)
(* (refresh, 332-341).  Holds when a refresh ends within its TTL.          *)
SingleFlight ==
    \A t, u \in Threads : InFlight(t) /\ InFlight(u) => t = u

(* The active policy never goes back to an earlier published version: a    *)
(* revocation that took effect stays in effect (refresh, 349-354).  Holds  *)
(* when a refresh ends within its TTL.                                     *)
NoRegression ==
    [][Published(engine) /\ Published(engine') => engine'.ver >= engine.ver]_engine

(* When no load is under way, no failure is recorded and the policy came   *)
(* from the store, it is at least the version the store had when the last  *)
(* refresh began: no install of an older load has undone a later one.      *)
FreshWhenQuiet ==
    /\ phase = "up"
    /\ failures = 0
    /\ snapshot.source = "remote"
    /\ \A t \in Threads : ~InFlight(t)
    => engine.ver >= asked

(* The gate cannot be moved back in time: a thread that read the clock     *)
(* before another one refreshed is turned away (refresh, 332-338).         *)
AttemptsAdvance ==
    [][phase = "up" /\ phase' = "up" => lastAttempt' >= lastAttempt]_lastAttempt

(* While a policy that came from the store is active and no load is under  *)
(* way, the cache file holds a policy that a restart could load.           *)
CacheIsKnownGood ==
    /\ HasCache
    /\ phase = "up"
    /\ snapshot.source = "remote"
    /\ \A t \in Threads : ~InFlight(t)
    => cache # NoText /\ Readable(cache, Pin) /\ SchemaValid(cache)
=============================================================================
