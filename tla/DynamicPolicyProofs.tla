------------------------- MODULE DynamicPolicyProofs -------------------------
(***************************************************************************)
(* Theorems about DynamicPolicy, for every set of threads, every number of *)
(* versions, every configuration of the source and every timing parameter. *)
(***************************************************************************)
EXTENDS DynamicPolicy, TLAPS

USE SourceAssumption, EngineAssumption

(* Every snapshot the recovery path returns (_cached_snapshot_or_raise,    *)
(* then the fallback file) is a readable document of that source.          *)
LEMMA RecoveredSnapshots ==
    ASSUME NEW file \in Text \cup {NoText}, NEW s \in Recovered(file)
    PROVE  /\ s \in Snapshot
           /\ \/ s.source = "cache" /\ s.text = file /\ Readable(s.text, Pin)
              \/ s.source = "fallback" /\ s.text.ver = 0
BY DEF Recovered, CachedSnapshots, FallbackSnapshots, FallbackText,
       Snapshot, Text, Forms, Readable

(* The backoff is a number of seconds for every count of failures.         *)
LEMMA BackoffIsNat ==
    ASSUME NEW n \in 1 .. FailureCap
    PROVE  Backoff(n) \in Nat
<1>1. 2 ^ (n - 1) \in Nat
    BY PowerAssumption
<1>2. RetryBase * 2 ^ (n - 1) \in Nat
    BY <1>1
<1> QED
    BY <1>2 DEF Backoff

(* Type correctness (all of policy_source.py 299-361).                     *)
THEOREM TypeCorrect == Spec => []TypeOK
<1>1. Init => TypeOK
    BY DEF Init, TypeOK, Text, Forms, Snapshot, NoSnapshot, Steps
<1>2. TypeOK /\ [Next]_vars => TypeOK'
    <2> SUFFICES ASSUME TypeOK, [Next]_vars
                 PROVE  TypeOK'
        OBVIOUS
    <2> USE DEF TypeOK
    <2>1. CASE Tick
        BY <2>1 DEF Tick, env, active, schedule, local
    <2>2. ASSUME NEW form \in Forms, Publish(form)
          PROVE  TypeOK'
        BY <2>2 DEF Publish, Text, active, schedule, local
    <2>3. CASE ToggleStore
        BY <2>3 DEF ToggleStore, active, schedule, local
    <2>4. CASE ToggleDisk
        BY <2>4 DEF ToggleDisk, active, schedule, local
    <2>5. CASE Crash
        BY <2>5 DEF Crash, ProcessGone, env, Steps
    <2>6. ASSUME NEW t \in Threads, Boot(t) \/ Arrive(t) \/ Step(t)
          PROVE  TypeOK'
        <3> USE DEF env, active, schedule, local, Goto, Steps, Loading
        <3>1. CASE Boot(t)
            BY <3>1 DEF Boot, Text
        <3>2. CASE Arrive(t)
            BY <3>2 DEF Arrive
        <3>3. CASE SkipRefresh(t)
            BY <3>3 DEF SkipRefresh
        <3>4. CASE BeginRefresh(t)
            BY <3>4 DEF BeginRefresh, Text
        <3>5. CASE Fetch(t)
            BY <3>5 DEF Fetch, Snapshot
        <3>6. CASE FetchRaises(t)
            BY <3>6 DEF FetchRaises
        <3>7. CASE OpenCache(t)
            BY <3>7 DEF OpenCache, EmptyText, Text, Forms
        <3>8. CASE WriteCache(t)
            <4>1. cache' \in Text \cup {NoText}
                BY <3>8 DEF WriteCache, Written, Text, Forms, Snapshot, NoSnapshot
            <4> QED
                BY <3>8, <4>1 DEF WriteCache
        <3>9. CASE CacheRaises(t)
            BY <3>9 DEF CacheRaises
        <3>10. CASE Recall(t)
            BY <3>10, RecoveredSnapshots DEF Recall
        <3>11. CASE RecallRaises(t)
            BY <3>11 DEF RecallRaises
        <3>12. CASE Build(t)
            BY <3>12 DEF Build
        <3>13. CASE Install(t)
            <4>1. engine' \in Text \cup {NoText} /\ snapshot' \in Snapshot \cup {NoSnapshot}
                BY <3>13 DEF Install, Swap, Snapshot, NoSnapshot
            <4> QED
                BY <3>13, <4>1 DEF Install, Swap, LeaveRefresh
        <3>14. CASE RefreshFails(t)
            <4>1. failures' \in 1 .. FailureCap
                BY <3>14 DEF RefreshFails, RecordFailure
            <4>2. nextAttempt' \in Nat
                BY <3>14, <4>1, BackoffIsNat DEF RefreshFails, RecordFailure
            <4> QED
                BY <3>14, <4>1, <4>2 DEF RefreshFails, LeaveRefresh
        <3>15. CASE BootFails(t)
            BY <3>15 DEF BootFails, ProcessGone
        <3>16. CASE Decide(t)
            BY <3>16 DEF Decide
        <3> QED
            BY <2>6, <3>1, <3>2, <3>3, <3>4, <3>5, <3>6, <3>7, <3>8, <3>9, <3>10,
               <3>11, <3>12, <3>13, <3>14, <3>15, <3>16 DEF Step
    <2>7. CASE UNCHANGED vars
        BY <2>7 DEF vars, env, active, schedule, local
    <2> QED
        BY <2>1, <2>2, <2>3, <2>4, <2>5, <2>6, <2>7 DEF Next, Environment
<1> QED
    BY <1>1, <1>2, PTL DEF Spec

-----------------------------------------------------------------------------
(* Only checked documents.  The checks are steps of load() and __init__    *)
(* that precede the install; what a thread holds between them has passed   *)
(* the ones behind it.                                                     *)

Trusted(s) == (s.source = "fallback" /\ s.text.ver = 0) \/ Readable(s.text, Pin)

ChecksPassed ==
    \A t \in Threads :
        /\ pc[t] \in {"store", "write", "build", "install"} =>
               loaded[t] \in Snapshot /\ Trusted(loaded[t])
        /\ pc[t] = "install" => SchemaValid(loaded[t].text)

EngineChecked ==
    engine # NoText =>
        /\ SchemaValid(engine)
        /\ snapshot \in Snapshot
        /\ Trusted(snapshot)
        /\ snapshot.text = engine

ValidInv ==
    /\ ChecksPassed
    /\ EngineChecked
    /\ phase = "up" => engine # NoText

LEMMA ValidInductive == Spec => []ValidInv
<1>1. Init => ValidInv
    BY DEF Init, ValidInv, ChecksPassed, EngineChecked
<1>2. TypeOK /\ ValidInv /\ [Next]_vars => ValidInv'
    <2> SUFFICES ASSUME TypeOK, ValidInv, [Next]_vars
                 PROVE  ValidInv'
        OBVIOUS
    <2> USE DEF TypeOK, ValidInv, ChecksPassed, EngineChecked
    <2>1. CASE Tick
        BY <2>1 DEF Tick, env, active, schedule, local
    <2>2. CASE Environment /\ ~Crash
        BY <2>2 DEF Environment, Publish, ToggleStore, ToggleDisk, active, schedule, local
    <2>3. CASE Crash
        BY <2>3 DEF Crash, ProcessGone, env
    <2>4. ASSUME NEW t \in Threads, Boot(t) \/ Arrive(t) \/ Step(t)
          PROVE  ValidInv'
        <3> USE DEF env, active, schedule, local, Goto
        <3>1. CASE Boot(t) \/ Arrive(t)
            BY <3>1 DEF Boot, Arrive
        <3>2. CASE SkipRefresh(t) \/ BeginRefresh(t) \/ FetchRaises(t)
            BY <3>2 DEF SkipRefresh, BeginRefresh, FetchRaises
        <3>3. CASE Fetch(t)
            BY <3>3 DEF Fetch, Snapshot, Trusted
        <3>4. CASE OpenCache(t) \/ WriteCache(t)
            BY <3>4 DEF OpenCache, WriteCache
        <3>5. CASE CacheRaises(t) \/ RecallRaises(t)
            BY <3>5 DEF CacheRaises, RecallRaises
        <3>6. CASE Recall(t)
            BY <3>6, RecoveredSnapshots DEF Recall, Trusted
        <3>7. CASE Build(t)
            BY <3>7 DEF Build
        <3>8. CASE Install(t)
            BY <3>8 DEF Install, Swap, LeaveRefresh, Snapshot
        <3>9. CASE RefreshFails(t)
            BY <3>9 DEF RefreshFails, LeaveRefresh
        <3>10. CASE BootFails(t)
            BY <3>10 DEF BootFails, ProcessGone
        <3>11. CASE Decide(t)
            BY <3>11 DEF Decide
        <3> QED
            BY <2>4, <3>1, <3>2, <3>3, <3>4, <3>5, <3>6, <3>7, <3>8, <3>9, <3>10, <3>11
               DEF Step
    <2>5. CASE UNCHANGED vars
        BY <2>5 DEF vars, env, active, schedule, local
    <2> QED
        BY <2>1, <2>2, <2>3, <2>4, <2>5 DEF Next, Environment
<1> QED
    BY <1>1, <1>2, TypeCorrect, PTL DEF Spec

(* A process that is up decides with a policy that passed the schema and   *)
(* the pin, and shows the snapshot it was built from: whatever the store   *)
(* served, the disk did and the threads interleaved (refresh, 339-354).    *)
THEOREM ActivePolicyIsValid == Spec => []ActivePolicyValid
<1>1. ValidInv => ActivePolicyValid
    BY DEF ValidInv, EngineChecked, ActivePolicyValid, Trusted
<1> QED
    BY <1>1, ValidInductive, PTL

(* No document with another digest than the pinned one gets into the cache *)
(* file, where a restart would pick it up (load, 106-124).                 *)
THEOREM CacheStaysPinned == Spec => []CachePinned
<1>1. Init => CachePinned
    BY DEF Init, CachePinned, Published
<1>2. TypeOK /\ ValidInv /\ CachePinned /\ [Next]_vars => CachePinned'
    <2> SUFFICES ASSUME TypeOK, ValidInv, CachePinned, [Next]_vars
                 PROVE  CachePinned'
        OBVIOUS
    <2>1. \/ cache' \in {cache, EmptyText}
          \/ \E t \in Threads : WriteCache(t)
        BY DEF Next, Environment, Tick, Publish, ToggleStore, ToggleDisk, Crash, ProcessGone,
               Boot, Arrive, Step, SkipRefresh, BeginRefresh, Fetch, FetchRaises, OpenCache,
               CacheRaises, Recall, RecallRaises, Build, Install,
               RefreshFails, BootFails, Decide, vars
    <2>2. CASE cache' \in {cache, EmptyText}
        BY <2>2 DEF CachePinned, Published, EmptyText
    <2>3. ASSUME NEW t \in Threads, WriteCache(t)
          PROVE  CachePinned'
        <3>1. loaded[t] \in Snapshot /\ Trusted(loaded[t])
            BY <2>3 DEF WriteCache, ValidInv, ChecksPassed
        <3>2. cache' = loaded[t].text \/ cache'.ver = 0
            BY <2>3 DEF WriteCache, Written
        <3> QED
            BY <3>1, <3>2 DEF CachePinned, Published, Trusted, Readable
    <2> QED
        BY <2>1, <2>2, <2>3
<1> QED
    BY <1>1, <1>2, TypeCorrect, ValidInductive, PTL DEF Spec

(* The gate cannot be moved back in time, whatever a load takes and        *)
(* however the threads interleave: only a thread whose reading of the      *)
(* clock is not behind the last attempt passes it, and what resets the     *)
(* attempt takes the process down (refresh, 332-341).                      *)
THEOREM AttemptsNeverGoBack == Spec => AttemptsAdvance
<1>1. TypeOK /\ [Next]_vars =>
        [phase = "up" /\ phase' = "up" => lastAttempt' >= lastAttempt]_lastAttempt
    <2> SUFFICES ASSUME TypeOK, [Next]_vars, phase = "up", phase' = "up"
                 PROVE  lastAttempt' >= lastAttempt \/ UNCHANGED lastAttempt
        OBVIOUS
    <2>1. ASSUME NEW t \in Threads, BeginRefresh(t)
          PROVE  lastAttempt' >= lastAttempt
        <3>1. now[t] \in Nat /\ lastAttempt \in Nat /\ RefreshSeconds \in Nat
            BY EngineAssumption DEF TypeOK
        <3>2. lastAttempt' = now[t] /\ ~(now[t] - lastAttempt < RefreshSeconds)
            BY <2>1 DEF BeginRefresh, Suppressed
        <3> QED BY <3>1, <3>2
    <2>2. ASSUME NEW t \in Threads, Step(t), ~BeginRefresh(t)
          PROVE  UNCHANGED lastAttempt
        BY <2>2 DEF Step, schedule, SkipRefresh, Fetch, FetchRaises, OpenCache, WriteCache, CacheRaises, Recall,
            RecallRaises, Build, Install, RefreshFails, BootFails, Decide, ProcessGone
    <2>3. ASSUME NEW t \in Threads, Boot(t) \/ Arrive(t)
          PROVE  UNCHANGED lastAttempt
        BY <2>3 DEF Boot, Arrive, schedule
    <2>4. CASE Tick \/ Environment
        BY <2>4 DEF Tick, Environment, Publish, ToggleStore, ToggleDisk, Crash, ProcessGone, schedule
    <2>5. CASE UNCHANGED vars
        BY <2>5 DEF vars, schedule
    <2> QED BY <2>1, <2>2, <2>3, <2>4, <2>5 DEF Next
<1> QED BY <1>1, TypeCorrect, PTL DEF Spec, AttemptsAdvance

-----------------------------------------------------------------------------
(* One load at a time.  A thread that passed the gate stamped lastAttempt  *)
(* with its own clock value, and that value is still younger than the TTL  *)
(* while it loads: it turns every other thread away.                       *)

Timed ==
    \A t \in Threads :
        /\ InRefresh(t) => now[t] =< clock /\ clock - now[t] =< LoadLimit
        /\ InFlight(t) => now[t] = lastAttempt

FlightInv ==
    /\ Timed
    /\ SingleFlight
    /\ phase = "down" => \A t \in Threads : pc[t] = "idle"

LEMMA FlightInductive ==
    ASSUME LoadLimit < RefreshSeconds
    PROVE  Spec => []FlightInv
<1>1. Init => FlightInv
    BY DEF Init, FlightInv, Timed, SingleFlight, InFlight, InRefresh, Loading
<1>2. TypeOK /\ FlightInv /\ [Next]_vars => FlightInv'
    <2> SUFFICES ASSUME TypeOK, FlightInv, [Next]_vars
                 PROVE  FlightInv'
        OBVIOUS
    <2> USE DEF TypeOK, FlightInv, Timed, SingleFlight, InFlight, InRefresh, Loading
    <2>1. CASE Tick
        BY <2>1 DEF Tick, env, active, schedule, local
    <2>2. CASE Environment /\ ~Crash
        BY <2>2 DEF Environment, Publish, ToggleStore, ToggleDisk, active, schedule, local
    <2>3. CASE Crash
        BY <2>3 DEF Crash, ProcessGone, env
    <2>4. ASSUME NEW t \in Threads, Boot(t) \/ Arrive(t) \/ Step(t)
          PROVE  FlightInv'
        <3> USE DEF env, active, schedule, local, Goto
        <3>1. CASE Boot(t)
            BY <3>1 DEF Boot
        <3>2. CASE Arrive(t)
            BY <3>2 DEF Arrive
        <3>3. CASE SkipRefresh(t)
            BY <3>3 DEF SkipRefresh
        <3>4. CASE BeginRefresh(t)
            <4>1. \A u \in Threads : ~InFlight(u)
                BY <3>4 DEF BeginRefresh, Suppressed
            <4> QED
                BY <3>4, <4>1 DEF BeginRefresh
        <3>5. CASE Fetch(t) \/ FetchRaises(t)
            BY <3>5 DEF Fetch, FetchRaises
        <3>6. CASE OpenCache(t) \/ WriteCache(t) \/ CacheRaises(t)
            BY <3>6 DEF OpenCache, WriteCache, CacheRaises
        <3>7. CASE Recall(t) \/ RecallRaises(t)
            BY <3>7 DEF Recall, RecallRaises
        <3>8. CASE Build(t)
            BY <3>8 DEF Build
        <3>9. CASE Install(t)
            BY <3>9 DEF Install, LeaveRefresh
        <3>10. CASE RefreshFails(t)
            BY <3>10 DEF RefreshFails, LeaveRefresh
        <3>11. CASE BootFails(t)
            BY <3>11 DEF BootFails, ProcessGone
        <3>12. CASE Decide(t)
            BY <3>12 DEF Decide
        <3> QED
            BY <2>4, <3>1, <3>2, <3>3, <3>4, <3>5, <3>6, <3>7, <3>8, <3>9, <3>10, <3>11,
               <3>12 DEF Step
    <2>5. CASE UNCHANGED vars
        BY <2>5 DEF vars, env, active, schedule, local
    <2> QED
        BY <2>1, <2>2, <2>3, <2>4, <2>5 DEF Next, Environment
<1> QED
    BY <1>1, <1>2, TypeCorrect, PTL DEF Spec

(* When a refresh always ends before its TTL, the lock-free load is never  *)
(* run by two threads at once, however many threads there are (refresh,    *)
(* 332-341).                                                               *)
THEOREM OneLoadAtATime ==
    ASSUME LoadLimit < RefreshSeconds
    PROVE  Spec => []SingleFlight
<1>1. FlightInv => SingleFlight
    BY DEF FlightInv
<1> QED
    BY <1>1, FlightInductive, PTL

-----------------------------------------------------------------------------
(* Versions only go up.  The load under way is the only one, so nothing    *)
(* newer can be installed, or written to the cache, before it ends.        *)

Holding(t) == pc[t] \in {"store", "write", "build", "install"}

Behind(x, y) == Published(x) /\ Published(y) => x.ver =< y.ver

OrderInv ==
    /\ Published(engine) => engine.ver =< remote.ver
    /\ Published(cache) => cache.ver =< remote.ver
    /\ asked =< remote.ver
    /\ Behind(engine, cache)
    /\ ~HasCache => cache = NoText /\ \A t \in Threads : pc[t] \notin {"store", "write"}
    /\ \A t \in Threads : Holding(t) =>
        /\ loaded[t] \in Snapshot
        /\ loaded[t].text.ver =< remote.ver
        /\ Behind(engine, loaded[t].text)
        /\ loaded[t].source = "remote" => asked =< loaded[t].text.ver
    /\ \A t \in Threads : pc[t] \in {"build", "install"} => Behind(loaded[t].text, cache)

LEMMA OrderInductive ==
    ASSUME LoadLimit < RefreshSeconds
    PROVE  Spec => [](OrderInv /\ FreshWhenQuiet)
<1> DEFINE IInv == OrderInv /\ FreshWhenQuiet
<1>1. Init => IInv
    BY DEF Init, OrderInv, FreshWhenQuiet, Published, Behind, Holding
<1>2. TypeOK /\ FlightInv /\ FlightInv' /\ IInv /\ [Next]_vars => IInv'
    <2> SUFFICES ASSUME TypeOK, FlightInv, FlightInv', OrderInv, FreshWhenQuiet, [Next]_vars
                 PROVE  OrderInv' /\ FreshWhenQuiet'
        OBVIOUS
    <2> USE DEF TypeOK, OrderInv, FreshWhenQuiet, Behind, Published, Holding, InFlight, Loading
    <2>1. CASE Tick
        BY <2>1 DEF Tick, env, active, schedule, local
    <2>2. ASSUME NEW form \in Forms, Publish(form)
          PROVE  OrderInv' /\ FreshWhenQuiet'
        BY <2>2 DEF Publish, active, schedule, local, Text, Snapshot
    <2>3. CASE ToggleStore \/ ToggleDisk
        BY <2>3 DEF ToggleStore, ToggleDisk, active, schedule, local
    <2>4. CASE Crash
        BY <2>4 DEF Crash, ProcessGone, env, Text
    <2>5. ASSUME NEW t \in Threads, Boot(t) \/ Arrive(t) \/ Step(t)
          PROVE  OrderInv' /\ FreshWhenQuiet'
        <3> USE DEF env, active, schedule, local, Goto
        <3> DEFINE Alone == \A u \in Threads : u # t => ~InFlight(u)
        <3>1. CASE Boot(t)
            BY <3>1 DEF Boot, FlightInv, Text
        <3>2. CASE Arrive(t)
            BY <3>2 DEF Arrive
        <3>3. CASE SkipRefresh(t)
            BY <3>3 DEF SkipRefresh
        <3>4. CASE BeginRefresh(t)
            <4>1. \A u \in Threads : ~InFlight(u)
                BY <3>4 DEF BeginRefresh, Suppressed, FlightInv, SingleFlight, Timed, InRefresh
            <4> QED
                BY <3>4, <4>1 DEF BeginRefresh, Text
        <3>5. CASE Fetch(t)
            BY <3>5 DEF Fetch, Snapshot, Text
        <3>6. CASE FetchRaises(t)
            BY <3>6 DEF FetchRaises
        <3>7. CASE OpenCache(t)
            <4>1. Alone
                BY <3>7 DEF OpenCache, FlightInv, SingleFlight
            <4> QED
                BY <3>7, <4>1 DEF OpenCache, EmptyText, Text, Forms
        <3>8. CASE WriteCache(t)
            <4>1. Alone
                BY <3>8 DEF WriteCache, FlightInv, SingleFlight
            <4>2. cache' = loaded[t].text \/ ~Published(cache')
                BY <3>8 DEF WriteCache, Written
            <4>3. cache' \in Text
                BY <3>8 DEF WriteCache, Written, Text, Forms, Snapshot
            <4> QED
                BY <3>8, <4>1, <4>2, <4>3 DEF WriteCache, Text, Snapshot
        <3>9. CASE CacheRaises(t)
            BY <3>9 DEF CacheRaises
        <3>10. CASE Recall(t)
            <4>1. PICK s \in Recovered(cache) : loaded' = [loaded EXCEPT ![t] = s]
                BY <3>10 DEF Recall
            <4>2. /\ s \in Snapshot /\ s.source # "remote"
                  /\ (s.text = cache \/ ~Published(s.text))
                BY <4>1, RecoveredSnapshots
            <4> QED
                BY <3>10, <4>1, <4>2 DEF Recall, Snapshot, Text
        <3>11. CASE RecallRaises(t)
            BY <3>11 DEF RecallRaises
        <3>12. CASE Build(t)
            BY <3>12 DEF Build
        <3>13. CASE Install(t)
            <4>1. Alone
                BY <3>13 DEF Install, FlightInv, SingleFlight
            <4>2. engine' = loaded[t].text /\ snapshot' = loaded[t]
                BY <3>13 DEF Install, Swap
            <4>3. OrderInv'
                BY <3>13, <4>1, <4>2 DEF Install, LeaveRefresh, Snapshot, Text
            <4>4. FreshWhenQuiet'
                BY <3>13, <4>2 DEF Install, Snapshot
            <4> QED
                BY <4>3, <4>4
        <3>14. CASE RefreshFails(t)
            <4>1. failures' # 0
                BY <3>14 DEF RefreshFails, RecordFailure
            <4> QED
                BY <3>14, <4>1 DEF RefreshFails, LeaveRefresh
        <3>15. CASE BootFails(t)
            BY <3>15 DEF BootFails, ProcessGone, Text
        <3>16. CASE Decide(t)
            BY <3>16 DEF Decide
        <3> QED
            BY <2>5, <3>1, <3>2, <3>3, <3>4, <3>5, <3>6, <3>7, <3>8, <3>9, <3>10, <3>11,
               <3>12, <3>13, <3>14, <3>15, <3>16 DEF Step
    <2>6. CASE UNCHANGED vars
        BY <2>6 DEF vars, env, active, schedule, local
    <2> QED
        BY <2>1, <2>2, <2>3, <2>4, <2>5, <2>6 DEF Next, Environment
<1> QED
    BY <1>1, <1>2, TypeCorrect, FlightInductive, PTL DEF Spec

(* A policy version that took effect is not replaced by an earlier one,    *)
(* although every refresh loads and stores without the lock (refresh,      *)
(* 339-354).  refresh_seconds must exceed the time a refresh can take.     *)
THEOREM VersionsNeverGoBack ==
    ASSUME LoadLimit < RefreshSeconds
    PROVE  Spec => NoRegression
<1> DEFINE Forward == Published(engine) /\ Published(engine') => engine'.ver >= engine.ver
<1>1. TypeOK /\ OrderInv /\ [Next]_vars => [Forward]_engine
    <2> SUFFICES ASSUME TypeOK, OrderInv, Next, engine' # engine
                 PROVE  Forward
        BY DEF vars, active
    <2>1. \/ engine' = NoText
          \/ \E t \in Threads : pc[t] = "install" /\ engine' = loaded[t].text
        BY DEF Next, Environment, Tick, Publish, ToggleStore, ToggleDisk, Crash, ProcessGone,
               Boot, Arrive, Step, SkipRefresh, BeginRefresh, Fetch, FetchRaises, OpenCache,
               WriteCache, CacheRaises, Recall, RecallRaises, Build, Install, Swap,
               RefreshFails, BootFails, Decide, active
    <2>2. CASE engine' = NoText
        BY <2>2 DEF Published
    <2>3. ASSUME NEW t \in Threads, pc[t] = "install", engine' = loaded[t].text
          PROVE  Forward
        BY <2>3 DEF OrderInv, Holding, Behind, Published, Snapshot, Text, TypeOK
    <2> QED
        BY <2>1, <2>2, <2>3
<1> QED
    BY <1>1, TypeCorrect, OrderInductive, PTL DEF Spec, NoRegression

(* Between loads, a policy that came from the store is no older than the   *)
(* store was when the last refresh began (refresh, 332-354).               *)
THEOREM ActivePolicyIsFresh ==
    ASSUME LoadLimit < RefreshSeconds
    PROVE  Spec => []FreshWhenQuiet
BY OrderInductive, PTL

-----------------------------------------------------------------------------
(* The detailed engine implements the register.                            *)

(* What one step does to the register's two variables.                     *)
LEMMA StepsOfTheRegister ==
    ASSUME TypeOK, ValidInv, OrderInv, Next
    PROVE  Register!Next \/ UNCHANGED <<engine, answer>>
<1> USE DEF TypeOK
<1>1. CASE Tick
    BY <1>1 DEF Tick, active, local
<1>2. CASE Environment /\ ~Crash
    BY <1>2 DEF Environment, Publish, ToggleStore, ToggleDisk, active, local
<1>3. CASE Crash
    BY <1>3 DEF Crash, ProcessGone, Register!Next, Register!Lose
<1>4. ASSUME NEW t \in Threads, Boot(t) \/ Arrive(t) \/ Step(t)
      PROVE  Register!Next \/ UNCHANGED <<engine, answer>>
    <2>1. CASE Arrive(t)
        BY <2>1 DEF Arrive, ValidInv, active, Register!Next, Register!Ask
    <2>2. CASE Install(t)
        <3>1. engine' = loaded[t].text /\ answer' = answer
            BY <2>2 DEF Install, Swap
        <3>2. engine' \in Text /\ Acceptable(engine')
            BY <2>2, <3>1 DEF Install, ValidInv, ChecksPassed, Trusted, Readable,
                              Acceptable, Snapshot
        <3>3. ~Earlier(engine', engine)
            BY <2>2, <3>1 DEF Install, OrderInv, Holding, Behind, Published, Earlier,
                              Snapshot, Text
        <3> QED
            BY <3>1, <3>2, <3>3 DEF Register!Next, Register!Replace
    <2>3. CASE RefreshFails(t)
        BY <2>3 DEF RefreshFails, active, Register!Next, Register!Deny
    <2>4. CASE BootFails(t)
        BY <2>4 DEF BootFails, ProcessGone, Register!Next, Register!Lose
    <2>5. CASE Decide(t)
        BY <2>5 DEF Decide, active, Register!Next, Register!Reply, Register!Deny
    <2>6. CASE UNCHANGED <<engine, answer>>
        BY <2>6
    <2> QED
        BY <1>4, <2>1, <2>2, <2>3, <2>4, <2>5, <2>6
           DEF Step, Boot, SkipRefresh, BeginRefresh, Fetch, FetchRaises, OpenCache,
               WriteCache, CacheRaises, Recall, RecallRaises, Build, active, local
<1> QED
    BY <1>1, <1>2, <1>3, <1>4 DEF Next, Environment

(* DynamicPolicyEngine implements the register of PolicyRegister: checked  *)
(* policies swapped in whole and in version order, each decision taken by  *)
(* the one that is active (policy_source.py 299-388).                      *)
THEOREM EngineIsARegister ==
    ASSUME LoadLimit < RefreshSeconds
    PROVE  Spec => ImplementsRegister
<1>1. Init => Register!Init
    BY DEF Init, Register!Init
<1>2. TypeOK /\ ValidInv /\ OrderInv /\ [Next]_vars => [Register!Next]_<<engine, answer>>
    BY StepsOfTheRegister DEF vars, active, local
<1> QED
    BY <1>1, <1>2, TypeCorrect, ValidInductive, OrderInductive, PTL
       DEF Spec, ImplementsRegister, Register!Spec
=============================================================================
