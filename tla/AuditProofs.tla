----------------------------- MODULE AuditProofs -----------------------------
(***************************************************************************)
(* Theorems about what is left behind of the requests.                     *)
(*   AuditTrail: for every set of threads, every number of requests and of *)
(* faults, and both stores.                                                *)
(*   AuditChain: for every set of threads, payloads and secrets, with or   *)
(* without a secret, and a chain of any length.                            *)
(*   CircuitBreaker: for every set of threads and of usages, every limit and*)
(* window, and any number of reports.                                      *)
(***************************************************************************)
EXTENDS AuditTrail, AuditChain, CircuitBreaker, FiniteSetTheorems, TLAPS

USE TrailAssumption

(* The ids of the check requests among the events, and of the blocked ones *)
Checked(seq) == {seq[i].id : i \in {k \in DOMAIN seq : seq[k].kind = "check"}}
CheckedBlocked(seq) == {seq[i].id : i \in {k \in DOMAIN seq : seq[k].kind = "check" /\ seq[k].blocked}}

(* What the counters of check requests tell, and what counting a job adds  *)
Tallied(tallies) == UNION {tallies[d] : d \in Decisions}
Added(j)         == IF j.kind = "check" THEN {j.id} ELSE {}
AddedBlocked(j)  == IF j.kind = "check" /\ j.decision \in {"deny", "require_approval"} THEN {j.id} ELSE {}

-----------------------------------------------------------------------------
(* A piece put behind the file keeps what is on disk, and is on it itself  *)
(* when it is whole.                                                       *)
LEMMA PutExtends ==
    ASSUME file \in Seq(Pieces), NEW id \in Ids, NEW whole \in BOOLEAN, NEW newline \in BOOLEAN,
           file' = Put(id, whole, newline)
    PROVE  /\ file' \in Seq(Pieces)
           /\ OnDisk \subseteq OnDisk'
           /\ whole => id \in OnDisk'
           /\ \A p \in DOMAIN file' : \/ p \in DOMAIN file /\ file'[p] = file[p]
                                      \/ file'[p].whole = whole /\ file'[p].newline = newline
<1> DEFINE piece == [id |-> id, whole |-> whole, newline |-> newline]
<1>1. piece \in Pieces
    BY DEF Pieces
<1>2. file' = Append(file, piece)
    BY DEF Put
<1>3. /\ file' \in Seq(Pieces)
      /\ DOMAIN file' = DOMAIN file \cup {Len(file) + 1}
      /\ \A p \in DOMAIN file : file'[p] = file[p]
      /\ file'[Len(file) + 1] = piece
      /\ piece.id = id /\ piece.whole = whole /\ piece.newline = newline
    BY <1>1, <1>2
<1> HIDE DEF piece
<1>4. OnDisk \subseteq OnDisk'
    BY <1>3 DEF OnDisk
<1>5. whole => id \in OnDisk'
    BY <1>3 DEF OnDisk
<1> QED BY <1>3, <1>4, <1>5

(* An event behind the others adds its id to what the events tell.         *)
LEMMA EventExtends ==
    ASSUME NEW seq \in Seq(Events), NEW e \in Events
    PROVE  /\ Append(seq, e) \in Seq(Events)
           /\ Checked(Append(seq, e)) = Checked(seq) \cup (IF e.kind = "check" THEN {e.id} ELSE {})
           /\ CheckedBlocked(Append(seq, e)) = CheckedBlocked(seq) \cup (IF e.kind = "check" /\ e.blocked THEN {e.id} ELSE {})
<1>1. /\ Append(seq, e) \in Seq(Events)
      /\ DOMAIN Append(seq, e) = DOMAIN seq \cup {Len(seq) + 1}
      /\ \A i \in DOMAIN seq : Append(seq, e)[i] = seq[i]
      /\ Append(seq, e)[Len(seq) + 1] = e
    OBVIOUS
<1>2. Checked(Append(seq, e)) = Checked(seq) \cup (IF e.kind = "check" THEN {e.id} ELSE {})
    BY <1>1 DEF Checked
<1>3. CheckedBlocked(Append(seq, e)) = CheckedBlocked(seq) \cup (IF e.kind = "check" /\ e.blocked THEN {e.id} ELSE {})
    BY <1>1 DEF CheckedBlocked
<1> QED BY <1>1, <1>2, <1>3

(* Counting a trace adds it to the union of the tallies.                   *)
LEMMA TalliesExtend ==
    ASSUME NEW old \in [Decisions -> SUBSET Ids], NEW d \in Decisions, NEW id \in Ids
    PROVE  Tallied([old EXCEPT ![d] = @ \cup {id}]) = Tallied(old) \cup {id}
<1> DEFINE new == [old EXCEPT ![d] = @ \cup {id}]
<1> HIDE DEF new
<1>0. /\ new[d] = old[d] \cup {id}
      /\ \A other \in Decisions : other # d => new[other] = old[other]
    BY DEF new
<1>1. ASSUME NEW x \in Tallied(new)
      PROVE  x \in Tallied(old) \cup {id}
    <2>1. PICK e \in Decisions : x \in new[e]
        BY <1>1 DEF Tallied
    <2> QED BY <1>0, <2>1 DEF Tallied
<1>2. ASSUME NEW x \in Tallied(old) \cup {id}
      PROVE  x \in Tallied(new)
    <2>1. CASE x = id
        BY <1>0, <2>1 DEF Tallied
    <2>2. CASE x \in Tallied(old)
        <3>1. PICK e \in Decisions : x \in old[e]
            BY <2>2 DEF Tallied
        <3>2. x \in new[e]
            BY <1>0, <3>1
        <3> QED BY <3>2 DEF Tallied
    <2> QED BY <1>2, <2>1, <2>2
<1> QED BY <1>1, <1>2 DEF new

(* What the critical section of the collector does to both records of it.  *)
LEMMA CountingAddsBoth ==
    ASSUME TrailTypeOK, NEW t \in Threads, job[t] \in Jobs, Counting(t)
    PROVE  /\ counted' \in [Decisions -> SUBSET Ids]
           /\ events' \in Seq(Events)
           /\ Tallied(counted') = Tallied(counted) \cup Added(job[t])
           /\ counted'["deny"] \cup counted'["require_approval"]
                = counted["deny"] \cup counted["require_approval"] \cup AddedBlocked(job[t])
           /\ Checked(events') = Checked(events) \cup Added(job[t])
           /\ CheckedBlocked(events') = CheckedBlocked(events) \cup AddedBlocked(job[t])
<1> DEFINE j == job[t]
           event == [id |-> j.id, kind |-> j.kind, blocked |-> j.decision \in {"deny", "require_approval"}]
<1>1. j.id \in Ids /\ j.kind \in {"check", "tool"} /\ j.decision \in Decisions
    BY DEF Jobs
<1>2. /\ event \in Events /\ event.id = j.id /\ event.kind = j.kind
      /\ event.blocked = (j.decision \in {"deny", "require_approval"})
    BY <1>1 DEF Events
<1>3. events' = Append(events, event)
    BY DEF Counting
<1>4. counted \in [Decisions -> SUBSET Ids] /\ events \in Seq(Events)
    BY DEF TrailTypeOK
<1>5. counted' = IF j.kind = "check" THEN [counted EXCEPT ![j.decision] = @ \cup {j.id}] ELSE counted
    BY DEF Counting
<1> HIDE DEF event
<1>6. /\ events' \in Seq(Events)
      /\ Checked(events') = Checked(events) \cup (IF event.kind = "check" THEN {event.id} ELSE {})
      /\ CheckedBlocked(events') = CheckedBlocked(events) \cup (IF event.kind = "check" /\ event.blocked THEN {event.id} ELSE {})
    BY <1>2, <1>3, <1>4, EventExtends, Zenon
<1>7. /\ Checked(events') = Checked(events) \cup Added(j)
      /\ CheckedBlocked(events') = CheckedBlocked(events) \cup AddedBlocked(j)
    BY <1>2, <1>6 DEF Added, AddedBlocked
<1>8. CASE j.kind = "check"
    <2>1. /\ counted' \in [Decisions -> SUBSET Ids]
          /\ counted'[j.decision] = counted[j.decision] \cup {j.id}
          /\ \A d \in Decisions : d # j.decision => counted'[d] = counted[d]
        BY <1>1, <1>4, <1>5, <1>8
    <2>2. Tallied(counted') = Tallied(counted) \cup {j.id}
        BY <1>1, <1>4, <1>5, <1>8, TalliesExtend
    <2>3. counted'["deny"] \cup counted'["require_approval"]
            = counted["deny"] \cup counted["require_approval"] \cup AddedBlocked(j)
        BY <1>1, <1>8, <2>1 DEF Decisions, AddedBlocked
    <2> QED BY <1>6, <1>7, <1>8, <2>1, <2>2, <2>3 DEF Added
<1>9. CASE j.kind # "check"
    BY <1>4, <1>5, <1>6, <1>7, <1>9 DEF Added, AddedBlocked
<1> QED BY <1>8, <1>9

-----------------------------------------------------------------------------
(* Type correctness (record and the collector's critical sections).        *)
LEMMA TypeOfTrail == TrailTypeOK /\ [TrailNext]_trailVars => TrailTypeOK'
<1> SUFFICES ASSUME TrailTypeOK, [TrailNext]_trailVars
             PROVE  TrailTypeOK'
    OBVIOUS
<1>1. \A t \in Threads : job[t] \in Jobs \cup {Idle}
    BY DEF TrailTypeOK
<1>2. Idle \notin Jobs /\ Idle.at = "idle"
    BY DEF Idle, Jobs
<1>3. ASSUME NEW t \in Threads, Accept(t)
      PROVE  TrailTypeOK'
    BY <1>3 DEF Accept, TrailTypeOK, Jobs, Ids
<1>4. ASSUME NEW t \in Threads, Record(t)
      PROVE  TrailTypeOK'
    <2>1. job[t] \in Jobs /\ job[t].id \in Ids
        BY <1>1, <1>2, <1>4 DEF Record, Jobs
    <2>2. file' \in Seq(Pieces)
        BY <1>4, <2>1, PutExtends DEF Record, TrailTypeOK
    <2>3. [job[t] EXCEPT !.at = "count"] \in Jobs
        BY <2>1 DEF Jobs
    <2> QED BY <1>4, <2>2, <2>3 DEF Record, TrailTypeOK
<1>5. ASSUME NEW t \in Threads, RecordFails(t)
      PROVE  TrailTypeOK'
    <2>1. job[t] \in Jobs /\ job[t].id \in Ids
        BY <1>1, <1>2, <1>5 DEF RecordFails, Jobs
    <2>2. file' \in Seq(Pieces)
        BY <1>5, <2>1, PutExtends DEF RecordFails, TrailTypeOK
    <2>3. faults' \in 0 .. MaxFaults
        BY <1>5 DEF RecordFails, TrailTypeOK
    <2> QED BY <1>5, <2>2, <2>3 DEF RecordFails, TrailTypeOK
<1>6. ASSUME NEW t \in Threads, Count(t) \/ BridgeFails(t)
      PROVE  TrailTypeOK'
    <2>1. job[t] \in Jobs /\ job[t].id \in Ids
        BY <1>1, <1>2, <1>6 DEF Count, BridgeFails, Jobs
    <2>2. counted' \in [Decisions -> SUBSET Ids] /\ events' \in Seq(Events)
        BY <1>6, <2>1, CountingAddsBoth DEF Count, BridgeFails
    <2>3. faults' \in 0 .. MaxFaults /\ answered' \subseteq Ids
        BY <1>6, <2>1 DEF Count, BridgeFails, TrailTypeOK
    <2> QED BY <1>6, <2>2, <2>3 DEF Count, BridgeFails, TrailTypeOK
<1>7. CASE Restart
    <2>1. faults' \in 0 .. MaxFaults
        BY <1>7 DEF Restart, TrailTypeOK
    <2> QED BY <1>7, <2>1 DEF Restart, TrailTypeOK
<1>8. CASE UNCHANGED trailVars
    BY <1>8 DEF trailVars, TrailTypeOK
<1> QED BY <1>3, <1>4, <1>5, <1>6, <1>7, <1>8 DEF TrailNext

THEOREM TrailTypeCorrect == TrailSpec => []TrailTypeOK
<1>1. TrailInit => TrailTypeOK
    BY DEF TrailInit, TrailTypeOK, Ids
<1> QED BY <1>1, TypeOfTrail, PTL DEF TrailSpec
-----------------------------------------------------------------------------
(* The thread that comes to count a check has put its trace on disk, and   *)
(* what was answered or counted has been there.  Without a fault, and on   *)
(* the table always, no piece is cut short.                                *)
TrailInv ==
    /\ TrailTypeOK
    /\ \A t \in Threads : job[t].at = "count" /\ job[t].kind = "check" => job[t].id \in OnDisk
    /\ answered \subseteq OnDisk
    /\ faults = 0 \/ store = "sqlite" => \A p \in DOMAIN file : file[p].whole /\ file[p].newline
    /\ Checked(events) \subseteq OnDisk
    /\ Tallied(counted) = Checked(events)
    /\ counted["deny"] \cup counted["require_approval"] = CheckedBlocked(events)

LEMMA TrailInvInit == TrailInit => TrailInv
<1> SUFFICES ASSUME TrailInit
             PROVE  TrailInv
    OBVIOUS
<1>1. TrailTypeOK
    BY DEF TrailInit, TrailTypeOK, Ids
<1>2. Checked(events) = {} /\ CheckedBlocked(events) = {}
    BY DEF TrailInit, Checked, CheckedBlocked
<1>3. Tallied(counted) = {}
    BY DEF TrailInit, Tallied
<1>4. counted["deny"] = {} /\ counted["require_approval"] = {}
    BY DEF TrailInit, Decisions
<1>5. /\ \A t \in Threads : job[t].at # "count"
      /\ file = <<>> /\ answered = {}
    BY DEF TrailInit, Idle
<1> QED BY <1>1, <1>2, <1>3, <1>4, <1>5 DEF TrailInv

(* A step that only puts a piece behind the file, or leaves it, keeps what *)
(* is said of the disk.                                                    *)
LEMMA TrailInvStep == TrailInv /\ [TrailNext]_trailVars => TrailInv'
<1> SUFFICES ASSUME TrailInv, [TrailNext]_trailVars
             PROVE  TrailInv'
    OBVIOUS
<1> USE DEF TrailInv
<1>1. TrailTypeOK'
    BY TypeOfTrail
<1>2. /\ \A t \in Threads : job[t] \in Jobs \cup {Idle}
      /\ Idle \notin Jobs /\ Idle.at = "idle"
      /\ job \in [Threads -> Jobs \cup {Idle}]
      /\ file \in Seq(Pieces)
      /\ faults \in Nat
    BY DEF TrailTypeOK, Idle, Jobs
<1>3. ASSUME UNCHANGED <<file, counted, events>>
      PROVE  /\ OnDisk' = OnDisk
             /\ Checked(events') = Checked(events) /\ CheckedBlocked(events') = CheckedBlocked(events)
             /\ Tallied(counted') = Tallied(counted)
    BY <1>3 DEF OnDisk
<1>4. ASSUME NEW t \in Threads, Accept(t)
      PROVE  TrailInv'
    <2>1. PICK id \in Ids, kind \in {"check", "tool"}, d \in Decisions :
              job' = [job EXCEPT ![t] = [at |-> IF kind = "check" THEN "record" ELSE "count", id |-> id, kind |-> kind, decision |-> d]]
        BY <1>4 DEF Accept
    <2>2. \A s \in Threads : job'[s].at = "count" /\ job'[s].kind = "check" => job[s] = job'[s]
        BY <1>2, <2>1
    <2> QED BY <1>1, <1>3, <1>4, <2>2 DEF Accept
<1>5. ASSUME NEW t \in Threads, Record(t)
      PROVE  TrailInv'
    <2>1. job[t] \in Jobs /\ job[t].id \in Ids
        BY <1>2, <1>5 DEF Record, Jobs
    <2>2. /\ OnDisk \subseteq OnDisk'
          /\ job[t].id \in OnDisk'
          /\ \A p \in DOMAIN file' : \/ p \in DOMAIN file /\ file'[p] = file[p]
                                     \/ file'[p].whole /\ file'[p].newline
        BY <1>2, <1>5, <2>1, PutExtends DEF Record
    <2>3. \A s \in Threads : s # t => job'[s] = job[s]
        BY <1>2, <1>5 DEF Record
    <2>4. job'[t].id = job[t].id
        BY <1>2, <1>5, <2>1 DEF Record, Jobs
    <2>5. Checked(events') = Checked(events) /\ CheckedBlocked(events') = CheckedBlocked(events) /\ Tallied(counted') = Tallied(counted)
        BY <1>5 DEF Record
    <2> QED BY <1>1, <1>5, <2>2, <2>3, <2>4, <2>5 DEF Record
<1>6. ASSUME NEW t \in Threads, RecordFails(t)
      PROVE  TrailInv'
    <2>1. job[t] \in Jobs /\ job[t].id \in Ids
        BY <1>2, <1>6 DEF RecordFails, Jobs
    <2>2. OnDisk \subseteq OnDisk'
        BY <1>2, <1>6, <2>1, PutExtends DEF RecordFails, OnDisk
    <2>3. store' = store /\ faults' # 0 /\ (store = "sqlite" => file' = file)
        BY <1>2, <1>6 DEF RecordFails
    <2>4. \A s \in Threads : job'[s] = job[s] \/ job'[s] = Idle
        BY <1>2, <1>6 DEF RecordFails
    <2>5. /\ Checked(events') = Checked(events) /\ CheckedBlocked(events') = CheckedBlocked(events) /\ Tallied(counted') = Tallied(counted)
          /\ UNCHANGED <<counted, events, answered>>
        BY <1>6 DEF RecordFails
    <2>6. faults' = 0 \/ store' = "sqlite" => \A p \in DOMAIN file' : file'[p].whole /\ file'[p].newline
        BY <2>3
    <2> QED BY <1>1, <1>2, <2>2, <2>4, <2>5, <2>6
<1>7. ASSUME NEW t \in Threads, Count(t) \/ BridgeFails(t)
      PROVE  TrailInv'
    <2>1. job[t] \in Jobs /\ job[t].at = "count" /\ Counting(t)
        BY <1>2, <1>7 DEF Count, BridgeFails
    <2>2. /\ Tallied(counted') = Tallied(counted) \cup Added(job[t])
          /\ counted'["deny"] \cup counted'["require_approval"]
               = counted["deny"] \cup counted["require_approval"] \cup AddedBlocked(job[t])
          /\ Checked(events') = Checked(events) \cup Added(job[t])
          /\ CheckedBlocked(events') = CheckedBlocked(events) \cup AddedBlocked(job[t])
        BY <2>1, CountingAddsBoth
    <2>3. Added(job[t]) \subseteq OnDisk
        BY <2>1 DEF Added
    <2>4. /\ OnDisk' = OnDisk /\ file' = file /\ store' = store
          /\ faults' = 0 => faults = 0
          /\ answered' \subseteq answered \cup Added(job[t])
        BY <1>2, <1>7 DEF Count, BridgeFails, OnDisk, Added
    <2>5. \A s \in Threads : job'[s] = job[s] \/ job'[s] = Idle
        BY <1>2, <1>7 DEF Count, BridgeFails
    <2> QED BY <1>1, <1>2, <2>2, <2>3, <2>4, <2>5
<1>8. CASE Restart
    <2>1. /\ Checked(events') = {} /\ CheckedBlocked(events') = {} /\ Tallied(counted') = {}
          /\ counted'["deny"] = {} /\ counted'["require_approval"] = {}
        BY <1>8 DEF Restart, Checked, CheckedBlocked, Tallied, Decisions
    <2>2. /\ OnDisk' = OnDisk /\ UNCHANGED <<file, store, answered>> /\ faults' # 0
          /\ \A t \in Threads : job'[t] = Idle
        BY <1>2, <1>8 DEF Restart, OnDisk
    <2> QED BY <1>1, <1>2, <2>1, <2>2
<1>9. CASE UNCHANGED trailVars
    BY <1>1, <1>3, <1>9 DEF trailVars
<1> QED BY <1>4, <1>5, <1>6, <1>7, <1>8, <1>9 DEF TrailNext

LEMMA TrailInductive == TrailSpec => []TrailInv
BY TrailInvInit, TrailInvStep, PTL DEF TrailSpec

(* Every decision that a caller was given is on record, and the readers    *)
(* raise only behind a failed write, never on the table (record against    *)
(* read_traces).                                                           *)
THEOREM TrailIsOnRecord == TrailSpec => []AnsweredIsOnRecord
<1>1. TrailInv => AnsweredIsOnRecord
    <2> SUFFICES ASSUME TrailInv
                 PROVE  AnsweredIsOnRecord
        OBVIOUS
    <2>1. file \in Seq(Pieces)
        BY DEF TrailInv, TrailTypeOK
    <2>2. Readable => OnDisk \subseteq ReadTraces
        BY DEF Readable, OnDisk, ReadTraces
    <2>3. faults = 0 \/ store = "sqlite" => Readable
        BY <2>1 DEF TrailInv, Readable
    <2> QED BY <2>2, <2>3 DEF TrailInv, AnsweredIsOnRecord
<1> QED BY <1>1, TrailInductive, PTL

(* The metrics show no check that the trail lacks, and counters and events *)
(* agree (record before record_trace, one lock for both).                  *)
THEOREM MetricsStayWithinTrail == TrailSpec => []MetricsWithinTrail
<1>1. TrailInv => MetricsWithinTrail
    BY DEF TrailInv, MetricsWithinTrail, Tallied, Checked, CheckedBlocked
<1> QED BY <1>1, TrailInductive, PTL

-----------------------------------------------------------------------------
(* The chain (module AuditChain).                                          *)

Members(chain) == {chain[i] : i \in DOMAIN chain}
IsChain(chain) == chain \in Seq(Members(chain))

(* What append() is to push behind this chain for this payload.            *)
HashBefore(chain, i) == IF i = 1 THEN Missing ELSE chain[i - 1].record_hash

Signed(key, i, payload, previous) ==
    [sequence |-> i, payload |-> payload, payload_digest |-> Digest(payload), previous_hash |-> previous,
     record_hash |-> Sign(key, Envelope(i, payload, previous)).digest,
     signature |-> Sign(key, Envelope(i, payload, previous)).signature]

(* Every record is numbered, linked and signed at its place.               *)
Sound(key, chain) ==
    /\ IsChain(chain)
    /\ \A i \in DOMAIN chain : chain[i] = Signed(key, i, chain[i].payload, HashBefore(chain, i))

-----------------------------------------------------------------------------
(* Sequences whose elements are in no set that can be named beforehand.    *)
LEMMA ChainFacts ==
    ASSUME NEW chain, IsChain(chain)
    PROVE  /\ Len(chain) \in Nat
           /\ DOMAIN chain = 1 .. Len(chain)
BY DEF IsChain

LEMMA AppendFacts ==
    ASSUME NEW chain, IsChain(chain), NEW r
    PROVE  /\ IsChain(Append(chain, r))
           /\ DOMAIN Append(chain, r) = 1 .. Len(chain) + 1
           /\ Len(Append(chain, r)) = Len(chain) + 1
           /\ \A i \in 1 .. Len(chain) : Append(chain, r)[i] = chain[i]
           /\ Append(chain, r)[Len(chain) + 1] = r
<1> DEFINE S == Members(chain) \cup {r}
<1>1. chain \in Seq(S)
    <2>1. chain \in Seq(Members(chain)) /\ Members(chain) \subseteq S
        BY DEF IsChain
    <2> QED BY <2>1
<1> HIDE DEF S
<1>2. r \in S
    BY DEF S
<1>3. /\ Append(chain, r) \in Seq(S)
      /\ DOMAIN Append(chain, r) = 1 .. Len(chain) + 1
      /\ Len(Append(chain, r)) = Len(chain) + 1
      /\ \A i \in 1 .. Len(chain) : Append(chain, r)[i] = chain[i]
      /\ Append(chain, r)[Len(chain) + 1] = r
    BY <1>1, <1>2
<1>4. IsChain(Append(chain, r))
    BY <1>3 DEF IsChain, Members
<1> QED BY <1>3, <1>4

(* A record signed for its place keeps a chain sound.                      *)
LEMMA SoundExtends ==
    ASSUME NEW key, NEW chain, Sound(key, chain), NEW payload
    PROVE  Sound(key, Append(chain, Signed(key, Len(chain) + 1, payload, HashBefore(chain, Len(chain) + 1))))
<1> DEFINE n == Len(chain) + 1
           r == Signed(key, n, payload, HashBefore(chain, n))
           longer == Append(chain, r)
<1>1. IsChain(chain) /\ Len(chain) \in Nat /\ DOMAIN chain = 1 .. Len(chain)
    BY ChainFacts DEF Sound
<1> HIDE DEF r
<1>2. /\ IsChain(longer) /\ DOMAIN longer = 1 .. n
      /\ \A i \in 1 .. Len(chain) : longer[i] = chain[i]
      /\ longer[n] = r
    BY <1>1, AppendFacts
<1> HIDE DEF longer
<1>3. \A i \in 1 .. n : HashBefore(longer, i) = HashBefore(chain, i)
    BY <1>1, <1>2 DEF HashBefore
<1>4. ASSUME NEW i \in DOMAIN longer
      PROVE  longer[i] = Signed(key, i, longer[i].payload, HashBefore(longer, i))
    <2>1. CASE i = n
        <3>1. r.payload = payload
            BY DEF r, Signed
        <3> QED BY <1>2, <1>3, <2>1, <3>1 DEF r
    <2>2. CASE i # n
        <3>1. i \in 1 .. Len(chain)
            BY <1>1, <1>2, <2>2
        <3> QED BY <1>1, <1>2, <1>3, <3>1 DEF Sound
    <2> QED BY <2>1, <2>2
<1> QED BY <1>2, <1>4 DEF Sound, longer, r

-----------------------------------------------------------------------------
(* What the verifier makes of the records of a sound chain.                *)
LEMMA BeginningVerifies ==
    ASSUME NEW key, NEW chain, Sound(key, chain), NEW given,
           DOMAIN given \subseteq DOMAIN chain,
           \A i \in DOMAIN given : i > 1 => i - 1 \in DOMAIN given,
           \A i \in DOMAIN given : given[i] = chain[i]
    PROVE  Verifies(key, given)
<1> SUFFICES ASSUME NEW i \in DOMAIN given
             PROVE  LET r == given[i]
                        expected == Sign(key, [sequence |-> r.sequence, payload_digest |-> r.payload_digest,
                                               previous_hash |-> r.previous_hash])
                    IN  /\ r.sequence = i
                        /\ r.previous_hash = IF i = 1 THEN Missing ELSE given[i - 1].record_hash
                        /\ r.payload_digest = Digest(r.payload)
                        /\ r.record_hash = expected.digest
                        /\ r.signature # Missing => r.signature = expected.signature
    BY DEF Verifies
<1> DEFINE r == given[i]
           p == r.payload
           h == HashBefore(chain, i)
<1>1. r = Signed(key, i, p, h)
    BY DEF Sound
<1>2. i \in Nat \ {0}
    BY ChainFacts DEF Sound
<1>3. h = IF i = 1 THEN Missing ELSE given[i - 1].record_hash
    BY <1>2 DEF HashBefore
<1> HIDE DEF h, p
<1>4. /\ r.sequence = i /\ r.previous_hash = h /\ r.payload_digest = Digest(p) /\ p = r.payload
      /\ r.record_hash = Sign(key, Envelope(i, p, h)).digest
      /\ r.signature = Sign(key, Envelope(i, p, h)).signature
    BY <1>1 DEF Signed, p
<1>5. Envelope(i, p, h) = [sequence |-> r.sequence, payload_digest |-> r.payload_digest, previous_hash |-> r.previous_hash]
    BY <1>4 DEF Envelope
<1> QED BY <1>3, <1>4, <1>5

(* A digest and an envelope stand for what they were made of.              *)
LEMMA DigestsDiffer ==
    ASSUME NEW v, NEW w, Digest(v) = Digest(w)
    PROVE  v = w
BY DEF Digest

LEMMA EnvelopesDiffer ==
    ASSUME NEW key, NEW i, NEW p, NEW h, NEW j, NEW q, NEW g,
           Sign(key, Envelope(i, p, h)).digest = Digest(Envelope(j, q, g))
    PROVE  p = q
<1>1. Sign(key, Envelope(i, p, h)).digest = Digest(Envelope(i, p, h))
    BY DEF Sign
<1>2. Envelope(i, p, h) = Envelope(j, q, g)
    BY <1>1, DigestsDiffer
<1>3. Digest(p) = Digest(q)
    BY <1>2 DEF Envelope
<1> QED BY <1>3, DigestsDiffer

(* Records lost, repeated or out of order: their numbers tell.             *)
LEMMA RearrangedIsFound ==
    ASSUME NEW key, NEW chain, Sound(key, chain),
           NEW n \in 1 .. Len(chain), NEW given \in [1 .. n -> Members(chain)]
    PROVE  Verifies(key, given) <=> IsPrefixOf(given, chain)
<1>1. Len(chain) \in Nat /\ DOMAIN chain = 1 .. Len(chain)
    BY ChainFacts DEF Sound
<1>2. DOMAIN given = 1 .. n /\ Len(given) = n
    BY <1>1
<1>3. ASSUME Verifies(key, given), NEW i \in 1 .. n
      PROVE  given[i] = chain[i]
    <2>1. PICK k \in DOMAIN chain : given[i] = chain[k]
        BY <1>2 DEF Members
    <2>2. given[i].sequence = i
        BY <1>2, <1>3 DEF Verifies
    <2>3. chain[k].sequence = k
        <3>1. chain[k] = Signed(key, k, chain[k].payload, HashBefore(chain, k))
            BY DEF Sound
        <3> DEFINE p == chain[k].payload
                   h == HashBefore(chain, k)
        <3> HIDE DEF p, h
        <3>2. Signed(key, k, p, h).sequence = k
            BY DEF Signed
        <3> QED BY <3>1, <3>2 DEF p, h
    <2> QED BY <2>1, <2>2, <2>3
<1>4. ASSUME IsPrefixOf(given, chain)
      PROVE  Verifies(key, given)
    <2>1. \A i \in DOMAIN given : given[i] = chain[i]
        BY <1>4 DEF IsPrefixOf
    <2>2. DOMAIN given \subseteq DOMAIN chain /\ \A i \in DOMAIN given : i > 1 => i - 1 \in DOMAIN given
        BY <1>1, <1>2
    <2> QED BY <2>1, <2>2, BeginningVerifies
<1> QED BY <1>1, <1>2, <1>3, <1>4 DEF IsPrefixOf

(* A chain verifies.                                                       *)
LEMMA ChainVerifies ==
    ASSUME NEW key, NEW chain, Sound(key, chain)
    PROVE  Verifies(key, chain)
<1>1. \A i \in DOMAIN chain : i > 1 => i - 1 \in DOMAIN chain
    BY ChainFacts DEF Sound
<1> QED BY <1>1, BeginningVerifies

(* One record with another payload or another number.                      *)
LEMMA EditIsFound ==
    ASSUME NEW key, NEW chain, Sound(key, chain), NEW i \in DOMAIN chain,
           NEW r, r.payload_digest = chain[i].payload_digest,
           r.payload # chain[i].payload \/ r.sequence # i
    PROVE  ~Verifies(key, [chain EXCEPT ![i] = r])
<1> DEFINE p == chain[i].payload
           h == HashBefore(chain, i)
           edited == [chain EXCEPT ![i] = r]
<1>1. chain[i] = Signed(key, i, p, h)
    BY DEF Sound
<1>2. IsChain(chain)
    BY DEF Sound
<1>3. i \in DOMAIN edited /\ edited[i] = r
    BY <1>2 DEF IsChain
<1>4. Verifies(key, edited) => r.sequence = i /\ r.payload_digest = Digest(r.payload)
    <2> HIDE DEF edited
    <2> QED BY <1>3 DEF Verifies
<1>5. chain[i].payload_digest = Digest(p)
    <2> HIDE DEF p, h
    <2> QED BY <1>1 DEF Signed
<1> HIDE DEF edited, p
<1>6. r.payload_digest = Digest(r.payload) => r.payload = p
    BY <1>5, DigestsDiffer
<1> QED BY <1>4, <1>6 DEF edited, p

(* A record written anew with another payload: the link of the next record *)
(* is to the one that was there.                                           *)
LEMMA RewriteIsFound ==
    ASSUME NEW key, NEW chain, Sound(key, chain), NEW i \in DOMAIN chain, NEW p,
           NEW r, r = [sequence |-> i, payload |-> p, payload_digest |-> Digest(p),
                       previous_hash |-> chain[i].previous_hash,
                       record_hash |-> Digest(Envelope(i, p, chain[i].previous_hash)), signature |-> Missing]
    PROVE  Verifies(key, [chain EXCEPT ![i] = r]) <=> i = Len(chain) \/ p = chain[i].payload
<1> DEFINE given == [chain EXCEPT ![i] = r]
<1>1. /\ Len(chain) \in Nat /\ DOMAIN chain = 1 .. Len(chain)
      /\ DOMAIN given = DOMAIN chain /\ given[i] = r
      /\ \A k \in DOMAIN chain : k # i => given[k] = chain[k]
    BY ChainFacts DEF Sound, IsChain
<1> HIDE DEF given
<1>2. /\ chain[i].previous_hash = HashBefore(chain, i)
      /\ chain[i].record_hash = Digest(Envelope(i, chain[i].payload, HashBefore(chain, i)))
    <2> DEFINE q == chain[i].payload
               h == HashBefore(chain, i)
    <2>1. chain[i] = Signed(key, i, q, h)
        BY DEF Sound
    <2> HIDE DEF q, h
    <2> QED BY <2>1 DEF Signed, Sign, q, h
<1>3. ASSUME i # Len(chain), p # chain[i].payload
      PROVE  ~Verifies(key, given)
    <2>1. i + 1 \in DOMAIN chain /\ i + 1 # i /\ i + 1 # 1 /\ (i + 1) - 1 = i
        BY <1>1, <1>3
    <2>2. chain[i + 1].previous_hash = chain[i].record_hash
        <3> DEFINE q == chain[i + 1].payload
                   h == HashBefore(chain, i + 1)
        <3>1. chain[i + 1] = Signed(key, i + 1, q, h)
            BY <2>1 DEF Sound
        <3>2. h = chain[i].record_hash
            BY <2>1 DEF HashBefore
        <3> HIDE DEF q, h
        <3>3. Signed(key, i + 1, q, h).previous_hash = h
            BY DEF Signed
        <3> QED BY <3>1, <3>2, <3>3
    <2>3. Verifies(key, given) => given[i + 1].previous_hash = given[i].record_hash
        BY <1>1, <2>1 DEF Verifies
    <2>4. given[i].record_hash = Digest(Envelope(i, p, chain[i].previous_hash))
        BY <1>1
    <2>5. chain[i].record_hash # Digest(Envelope(i, p, chain[i].previous_hash))
        <3> DEFINE g == chain[i].previous_hash
        <3> HIDE DEF g
        <3>1. Sign(key, Envelope(i, chain[i].payload, HashBefore(chain, i))).digest
                = Digest(Envelope(i, chain[i].payload, HashBefore(chain, i)))
            BY DEF Sign
        <3>2. Digest(Envelope(i, chain[i].payload, HashBefore(chain, i))) # Digest(Envelope(i, p, g))
            BY <1>3, <3>1, EnvelopesDiffer
        <3> QED BY <1>2, <3>2 DEF g
    <2> QED BY <1>1, <2>1, <2>2, <2>3, <2>4, <2>5
<1>4. ASSUME i = Len(chain) \/ p = chain[i].payload
      PROVE  Verifies(key, given)
    <2>1. given[i].record_hash = Sign(key, Envelope(i, p, chain[i].previous_hash)).digest
        BY <1>1 DEF Sign
    <2>2. p = chain[i].payload => given[i].record_hash = chain[i].record_hash
        BY <1>1, <1>2
    <2>3. \A k \in DOMAIN chain : k > 1 => given[k - 1].record_hash = chain[k - 1].record_hash
        <3> SUFFICES ASSUME NEW k \in DOMAIN chain, k > 1
                     PROVE  given[k - 1].record_hash = chain[k - 1].record_hash
            OBVIOUS
        <3>1. k - 1 \in DOMAIN chain /\ (i = Len(chain) => k - 1 # i)
            BY <1>1
        <3> QED BY <1>1, <1>4, <2>2, <3>1
    <2>4. Verifies(key, chain)
        BY ChainVerifies
    <2> SUFFICES ASSUME NEW k \in DOMAIN given
                 PROVE  LET s == given[k]
                            expected == Sign(key, [sequence |-> s.sequence, payload_digest |-> s.payload_digest,
                                                   previous_hash |-> s.previous_hash])
                        IN  /\ s.sequence = k
                            /\ s.previous_hash = IF k = 1 THEN Missing ELSE given[k - 1].record_hash
                            /\ s.payload_digest = Digest(s.payload)
                            /\ s.record_hash = expected.digest
                            /\ s.signature # Missing => s.signature = expected.signature
        BY DEF Verifies
    <2>5. k \in 1 .. Len(chain) /\ (k = 1 \/ k > 1)
        BY <1>1
    <2>6. chain[k].previous_hash = IF k = 1 THEN Missing ELSE given[k - 1].record_hash
        BY <1>1, <2>3, <2>4, <2>5 DEF Verifies
    <2>7. CASE k # i
        <3>1. given[k] = chain[k] /\ k \in DOMAIN chain
            BY <1>1, <2>7
        <3>2. LET s == chain[k]
                  expected == Sign(key, [sequence |-> s.sequence, payload_digest |-> s.payload_digest,
                                         previous_hash |-> s.previous_hash])
              IN  /\ s.sequence = k
                  /\ s.payload_digest = Digest(s.payload)
                  /\ s.record_hash = expected.digest
                  /\ s.signature # Missing => s.signature = expected.signature
            BY <2>4, <3>1 DEF Verifies
        <3> QED BY <2>6, <3>1, <3>2
    <2>8. CASE k = i
        <3>1. /\ given[k].sequence = k /\ given[k].payload = p /\ given[k].payload_digest = Digest(p)
              /\ given[k].previous_hash = chain[k].previous_hash /\ given[k].signature = Missing
            BY <1>1, <2>8
        <3>2. [sequence |-> given[k].sequence, payload_digest |-> given[k].payload_digest,
               previous_hash |-> given[k].previous_hash] = Envelope(i, p, chain[i].previous_hash)
            BY <2>8, <3>1 DEF Envelope
        <3> QED BY <2>1, <2>6, <2>8, <3>1, <3>2
    <2> QED BY <2>7, <2>8
<1> QED BY <1>3, <1>4 DEF given

-----------------------------------------------------------------------------
(* Whether or not appends overlap, a record is numbered no higher than its *)
(* place, since the list only grows between the numbering and the push;    *)
(* and the appends under way were let in by a list that was not full.      *)
DraftTypeOK(d) ==
    \/ d = NoDraft
    \/ d.at \in {"linked", "sealed"} /\ d.payload \in Payloads
    \/ d.at = "numbered" /\ d.record.payload \in Payloads /\ d.record.sequence \in 1 .. Len(records) + 1

ChainTypeInv ==
    /\ ChainTypeOK
    /\ IsChain(records)
    /\ draft = [a \in Appenders |-> draft[a]]
    /\ \A a \in Appenders : DraftTypeOK(draft[a])
    /\ Len(records) + Cardinality(Appending) =< MaxRecords + Cardinality(Appenders)

LEMMA AppendingCounted ==
    /\ IsFiniteSet(Appending) /\ Cardinality(Appending) \in Nat
    /\ Cardinality(Appenders) \in Nat /\ Cardinality(Appending) =< Cardinality(Appenders)
BY ChainAssumption, FS_Subset, FS_CardinalityType DEF Appending

(* An append under way that goes on keeps the list and the number of them. *)
LEMMA AppendGoesOn ==
    ASSUME ChainTypeInv, NEW a \in Appenders, draft[a] # NoDraft, NEW d, d # NoDraft, DraftTypeOK(d),
           d.at \in {"linked", "sealed", "numbered"},
           draft' = [draft EXCEPT ![a] = d], UNCHANGED <<secret, records, overlapped>>
    PROVE  ChainTypeInv'
<1>1. /\ draft'[a] = d
      /\ \A b \in Appenders : b # a => draft'[b] = draft[b]
      /\ draft' = [b \in Appenders |-> draft'[b]]
    BY DEF ChainTypeInv
<1>2. Appending' = Appending
    BY <1>1 DEF Appending
<1>3. \A b \in Appenders : DraftTypeOK(draft[b])' /\ draft'[b].at \in {"none", "linked", "sealed", "numbered"}
    BY <1>1 DEF ChainTypeInv, ChainTypeOK, DraftTypeOK
<1> QED BY <1>1, <1>2, <1>3 DEF ChainTypeInv, ChainTypeOK

LEMMA ChainTypeStep == ChainTypeInv /\ [ChainNext]_chainVars => ChainTypeInv'
<1> SUFFICES ASSUME ChainTypeInv, [ChainNext]_chainVars
             PROVE  ChainTypeInv'
    OBVIOUS
<1>0. /\ Len(records) \in Nat /\ DOMAIN records = 1 .. Len(records)
      /\ draft = [a \in Appenders |-> draft[a]]
    BY ChainFacts DEF ChainTypeInv
<1>1. ASSUME NEW a \in Appenders, Link(a)
      PROVE  ChainTypeInv'
    <2>1. PICK p, previous : /\ p \in Payloads
                             /\ draft' = [draft EXCEPT ![a] = [at |-> "linked", payload |-> p, previous |-> previous]]
        BY <1>1 DEF Link
    <2>2. /\ draft[a] = NoDraft /\ Len(records) < MaxRecords /\ UNCHANGED <<secret, records>> /\ overlapped' \in BOOLEAN
        BY <1>1 DEF Link, ChainTypeInv, ChainTypeOK
    <2> DEFINE d == [at |-> "linked", payload |-> p, previous |-> previous]
    <2>3. /\ draft'[a] = d /\ d # NoDraft /\ d.at = "linked" /\ d.payload \in Payloads
          /\ \A b \in Appenders : b # a => draft'[b] = draft[b]
          /\ draft' = [b \in Appenders |-> draft'[b]]
        <3>1. d.at = "linked" /\ d.payload \in Payloads /\ draft' = [draft EXCEPT ![a] = d]
            BY <2>1
        <3> HIDE DEF d
        <3> QED BY <1>0, <3>1 DEF NoDraft
    <2> HIDE DEF d
    <2>4. Appending' = Appending \cup {a} /\ a \notin Appending
        BY <2>2, <2>3 DEF Appending
    <2>5. Cardinality(Appending') = Cardinality(Appending) + 1
        BY <2>4, AppendingCounted, FS_AddElement
    <2>6. (Cardinality(Appending) =< Cardinality(Appenders))'
        BY AppendingCounted, PTL
    <2>7. Len(records) + Cardinality(Appending') =< MaxRecords + Cardinality(Appenders)
        BY <1>0, <2>2, <2>5, <2>6, AppendingCounted, ChainAssumption
    <2>8. \A b \in Appenders : DraftTypeOK(draft[b])' /\ draft'[b].at \in {"none", "linked", "sealed", "numbered"}
        BY <2>2, <2>3 DEF ChainTypeInv, ChainTypeOK, DraftTypeOK
    <2> QED BY <2>2, <2>3, <2>7, <2>8 DEF ChainTypeInv, ChainTypeOK
<1>2. ASSUME NEW a \in Appenders, Seal(a)
      PROVE  ChainTypeInv'
    <2>1. draft[a] # NoDraft /\ draft[a].payload \in Payloads
        BY <1>2 DEF Seal, ChainTypeInv, DraftTypeOK, NoDraft
    <2>2. PICK p, previous, signed :
            /\ p = draft[a].payload
            /\ draft' = [draft EXCEPT ![a] =
                [at |-> "sealed", payload |-> p, previous |-> previous, signed |-> signed]]
            /\ UNCHANGED <<secret, records, overlapped>>
        BY <1>2 DEF Seal
    <2> DEFINE d == [at |-> "sealed", payload |-> p, previous |-> previous, signed |-> signed]
    <2>3. d.at = "sealed" /\ d.payload = p /\ draft' = [draft EXCEPT ![a] = d]
        BY <2>2
    <2> HIDE DEF d
    <2>4. d # NoDraft /\ DraftTypeOK(d)
        BY <2>1, <2>2, <2>3 DEF NoDraft, DraftTypeOK
    <2> QED BY <2>1, <2>2, <2>3, <2>4, AppendGoesOn
<1>3. ASSUME NEW a \in Appenders, Number(a)
      PROVE  ChainTypeInv'
    <2>1. draft[a] # NoDraft /\ draft[a].payload \in Payloads
        BY <1>3 DEF Number, ChainTypeInv, DraftTypeOK, NoDraft
    <2>2. PICK n, p, digest, previous, hash, signature :
            /\ n = Len(records) + 1 /\ p = draft[a].payload
            /\ draft' = [draft EXCEPT ![a] =
                [at |-> "numbered",
                 record |-> [sequence |-> n, payload |-> p, payload_digest |-> digest,
                             previous_hash |-> previous, record_hash |-> hash, signature |-> signature]]]
            /\ UNCHANGED <<secret, records, overlapped>>
        BY <1>3 DEF Number
    <2> DEFINE d == [at |-> "numbered",
                     record |-> [sequence |-> n, payload |-> p, payload_digest |-> digest,
                                 previous_hash |-> previous, record_hash |-> hash, signature |-> signature]]
    <2>3. d.at = "numbered" /\ d.record.sequence = n /\ d.record.payload = p /\ draft' = [draft EXCEPT ![a] = d]
        BY <2>2
    <2> HIDE DEF d
    <2>4. d # NoDraft /\ DraftTypeOK(d)
        BY <1>0, <2>1, <2>2, <2>3 DEF NoDraft, DraftTypeOK
    <2> QED BY <2>1, <2>2, <2>3, <2>4, AppendGoesOn
<1>4. ASSUME NEW a \in Appenders, Push(a)
      PROVE  ChainTypeInv'
    <2> DEFINE r == draft[a].record
    <2>1. draft[a] # NoDraft /\ r.payload \in Payloads /\ r.sequence \in 1 .. Len(records) + 1
        BY <1>4 DEF Push, ChainTypeInv, DraftTypeOK, NoDraft
    <2>2. records' = Append(records, r) /\ draft' = [draft EXCEPT ![a] = NoDraft] /\ UNCHANGED <<secret, overlapped>>
        BY <1>4 DEF Push
    <2>3. /\ draft'[a] = NoDraft
          /\ \A b \in Appenders : b # a => draft'[b] = draft[b]
          /\ draft' = [b \in Appenders |-> draft'[b]]
        BY <1>0, <2>2
    <2> HIDE DEF r
    <2>4. /\ IsChain(records') /\ Len(records') = Len(records) + 1 /\ DOMAIN records' = 1 .. Len(records) + 1
          /\ \A i \in 1 .. Len(records) : records'[i] = records[i]
          /\ records'[Len(records) + 1] = r
        BY <2>2, AppendFacts DEF ChainTypeInv
    <2>5. Appending' = Appending \ {a} /\ a \in Appending
        BY <2>1, <2>3 DEF Appending
    <2>6. Cardinality(Appending') = Cardinality(Appending) - 1
        BY <2>5, AppendingCounted, FS_RemoveElement
    <2>7. Len(records') + Cardinality(Appending') =< MaxRecords + Cardinality(Appenders)
        BY <1>0, <2>4, <2>6, AppendingCounted, ChainAssumption DEF ChainTypeInv
    <2>8. \A b \in Appenders : DraftTypeOK(draft[b])' /\ draft'[b].at \in {"none", "linked", "sealed", "numbered"}
        BY <1>0, <2>3, <2>4 DEF ChainTypeInv, ChainTypeOK, DraftTypeOK, NoDraft
    <2>9. \A i \in DOMAIN records' : records'[i].sequence \in 1 .. i /\ records'[i].payload \in Payloads
        <3> SUFFICES ASSUME NEW i \in 1 .. Len(records) + 1
                     PROVE  records'[i].sequence \in 1 .. i /\ records'[i].payload \in Payloads
            BY <2>4
        <3>1. CASE i = Len(records) + 1
            BY <2>1, <2>4, <3>1
        <3>2. CASE i \in 1 .. Len(records)
            BY <1>0, <2>4, <3>2 DEF ChainTypeInv, ChainTypeOK
        <3> QED BY <1>0, <3>1, <3>2
    <2>10. (Cardinality(Appending) \in Nat)'
        BY AppendingCounted, PTL
    <2>11. Len(records') =< MaxRecords + Cardinality(Appenders)
        BY <1>0, <2>4, <2>7, <2>10, AppendingCounted, ChainAssumption
    <2> QED BY <2>2, <2>3, <2>4, <2>7, <2>8, <2>9, <2>11 DEF ChainTypeInv, ChainTypeOK
<1>5. CASE UNCHANGED chainVars
    BY <1>5 DEF chainVars, ChainTypeInv, ChainTypeOK, DraftTypeOK, Appending
<1> QED BY <1>1, <1>2, <1>3, <1>4, <1>5 DEF ChainNext

(* Type correctness (TamperEvidentAuditChain.append by several threads).   *)
THEOREM ChainTypeCorrect == ChainSpec => []ChainTypeOK
<1>1. ChainInit => ChainTypeInv
    <2> SUFFICES ASSUME ChainInit
                 PROVE  ChainTypeInv
        OBVIOUS
    <2>1. Appending = {}
        BY DEF ChainInit, Appending
    <2>2. Cardinality(Appending) = 0 /\ Cardinality(Appenders) \in Nat
        BY <2>1, AppendingCounted, FS_EmptySet
    <2>3. Len(records) + Cardinality(Appending) =< MaxRecords + Cardinality(Appenders)
          /\ Len(records) =< MaxRecords + Cardinality(Appenders)
        BY <2>2, ChainAssumption DEF ChainInit
    <2>4. IsChain(records)
        BY DEF ChainInit, IsChain
    <2>5. \A i \in DOMAIN records : records[i].sequence \in 1 .. i /\ records[i].payload \in Payloads
        BY DEF ChainInit
    <2>6. \A a \in Appenders : DraftTypeOK(draft[a]) /\ draft[a].at \in {"none", "linked", "sealed", "numbered"}
        BY DEF ChainInit, DraftTypeOK, NoDraft
    <2>7. draft = [a \in Appenders |-> draft[a]]
        BY DEF ChainInit
    <2>8. secret \in Secrets \cup {Missing} /\ overlapped \in BOOLEAN
        BY DEF ChainInit
    <2> QED BY <2>3, <2>4, <2>5, <2>6, <2>7, <2>8 DEF ChainTypeInv, ChainTypeOK
<1>2. ChainTypeInv => ChainTypeOK
    BY DEF ChainTypeInv
<1> QED BY <1>1, <1>2, ChainTypeStep, PTL DEF ChainSpec

-----------------------------------------------------------------------------
(* While no two appends overlapped, the records are sound, at most one     *)
(* append is under way, and what it has computed is for the next place.    *)
NextNumber == Len(records) + 1
LastHash == HashBefore(records, NextNumber)

DraftOK(d) ==
    \/ d = NoDraft
    \/ /\ d.at = "linked"
       /\ d.previous = LastHash
    \/ /\ d.at = "sealed"
       /\ d.previous = LastHash
       /\ d.signed = Sign(secret, Envelope(NextNumber, d.payload, LastHash))
    \/ /\ d.at = "numbered"
       /\ d.record = Signed(secret, NextNumber, d.record.payload, LastHash)

ChainInv ==
    /\ draft = [a \in Appenders |-> draft[a]]
    /\ ~overlapped =>
        /\ Sound(secret, records)
        /\ \A a, b \in Appenders : draft[a] # NoDraft /\ draft[b] # NoDraft => a = b
        /\ \A a \in Appenders : DraftOK(draft[a])

LEMMA ChainInvInit == ChainInit => ChainInv
<1> SUFFICES ASSUME ChainInit
             PROVE  ChainInv
    OBVIOUS
<1>1. Sound(secret, records)
    BY DEF ChainInit, Sound, IsChain, Members
<1> QED BY <1>1 DEF ChainInit, ChainInv, DraftOK

LEMMA ChainInvStep == ChainInv /\ [ChainNext]_chainVars => ChainInv'
<1> SUFFICES ASSUME ChainInv, [ChainNext]_chainVars
             PROVE  ChainInv'
    OBVIOUS
<1> USE DEF ChainInv
<1>1. NoDraft.at = "none"
    BY DEF NoDraft
<1>2. ASSUME UNCHANGED <<secret, records>>
      PROVE  /\ NextNumber' = NextNumber /\ LastHash' = LastHash
             /\ Sound(secret, records)' <=> Sound(secret, records)
    BY <1>2 DEF NextNumber, LastHash
<1>3. ASSUME NEW a \in Appenders, Link(a)
      PROVE  ChainInv'
    <2>1. /\ \A b \in Appenders : b # a => draft'[b] = draft[b]
          /\ draft' = [b \in Appenders |-> draft'[b]]
          /\ draft[a] = NoDraft /\ draft'[a].at = "linked"
          /\ draft'[a].previous = IF records = <<>> THEN Missing ELSE records[Len(records)].record_hash
        BY <1>3 DEF Link
    <2>2. ASSUME ~overlapped'
          PROVE  /\ Sound(secret, records)
                 /\ \A b \in Appenders : draft[b] = NoDraft
                 /\ draft'[a].previous = LastHash
        <3>1. ~overlapped /\ Appending = {}
            BY <1>3, <2>2 DEF Link
        <3>2. Sound(secret, records) /\ \A b \in Appenders : draft[b] = NoDraft
            BY <3>1 DEF Appending
        <3>3. (records = <<>> <=> Len(records) = 0) /\ Len(records) \in Nat
            BY <3>2 DEF Sound, IsChain
        <3> QED BY <2>1, <3>2, <3>3 DEF LastHash, NextNumber, HashBefore
    <2>3. UNCHANGED <<secret, records>>
        BY <1>3 DEF Link
    <2> QED BY <1>2, <2>1, <2>2, <2>3 DEF DraftOK
<1>4. ASSUME NEW a \in Appenders, Seal(a)
      PROVE  ChainInv'
    <2>1. /\ \A b \in Appenders : b # a => draft'[b] = draft[b]
          /\ draft' = [b \in Appenders |-> draft'[b]]
          /\ draft[a].at = "linked" /\ draft'[a].at = "sealed"
          /\ draft'[a].previous = draft[a].previous
          /\ draft'[a].signed = Sign(secret, Envelope(NextNumber, draft'[a].payload, draft[a].previous))
        BY <1>4 DEF Seal, NextNumber
    <2>2. UNCHANGED <<secret, records, overlapped>>
        BY <1>4 DEF Seal
    <2>3. draft[a] # NoDraft
        BY <1>1, <2>1
    <2>4. ~overlapped => DraftOK(draft[a]) /\ draft[a].previous = LastHash
        BY <1>1, <2>1, <2>3 DEF DraftOK
    <2>5. ~overlapped => DraftOK(draft[a])'
        BY <1>2, <2>1, <2>2, <2>4 DEF DraftOK
    <2>6. ~overlapped => \A b \in Appenders : b # a => draft'[b] = NoDraft
        BY <2>1, <2>3
    <2> QED BY <1>2, <2>1, <2>2, <2>5, <2>6 DEF DraftOK
<1>5. ASSUME NEW a \in Appenders, Number(a)
      PROVE  ChainInv'
    <2>1. /\ \A b \in Appenders : b # a => draft'[b] = draft[b]
          /\ draft' = [b \in Appenders |-> draft'[b]]
          /\ draft[a].at = "sealed" /\ draft'[a].at = "numbered"
          /\ draft'[a].record = [sequence |-> NextNumber, payload |-> draft[a].payload,
                payload_digest |-> Digest(draft[a].payload), previous_hash |-> draft[a].previous,
                record_hash |-> draft[a].signed.digest, signature |-> draft[a].signed.signature]
        BY <1>5 DEF Number, NextNumber
    <2>2. UNCHANGED <<secret, records, overlapped>>
        BY <1>5 DEF Number
    <2>3. draft[a] # NoDraft
        BY <1>1, <2>1
    <2>4. ~overlapped => /\ draft[a].previous = LastHash
                         /\ draft[a].signed = Sign(secret, Envelope(NextNumber, draft[a].payload, LastHash))
        BY <1>1, <2>1, <2>3 DEF DraftOK
    <2>5. ~overlapped => draft'[a].record = Signed(secret, NextNumber, draft'[a].record.payload, LastHash)
        BY <2>1, <2>4 DEF Signed
    <2>6. ~overlapped => \A b \in Appenders : b # a => draft'[b] = NoDraft
        BY <2>1, <2>3
    <2> QED BY <1>2, <2>1, <2>2, <2>5, <2>6 DEF DraftOK
<1>6. ASSUME NEW a \in Appenders, Push(a)
      PROVE  ChainInv'
    <2>1. /\ \A b \in Appenders : b # a => draft'[b] = draft[b]
          /\ draft' = [b \in Appenders |-> draft'[b]]
          /\ draft[a].at = "numbered" /\ draft'[a] = NoDraft
          /\ records' = Append(records, draft[a].record)
          /\ UNCHANGED <<secret, overlapped>>
        BY <1>6 DEF Push
    <2>2. draft[a] # NoDraft
        BY <1>1, <2>1
    <2>3. ASSUME ~overlapped
          PROVE  Sound(secret, records)'
        <3>1. draft[a].record = Signed(secret, NextNumber, draft[a].record.payload, LastHash)
            BY <1>1, <2>1, <2>2, <2>3 DEF DraftOK
        <3>2. Sound(secret, records)
            BY <2>3
        <3> DEFINE p == draft[a].record.payload
        <3> HIDE DEF p
        <3>3. records' = Append(records, Signed(secret, Len(records) + 1, p, HashBefore(records, Len(records) + 1)))
            BY <2>1, <3>1 DEF p, NextNumber, LastHash
        <3> QED BY <2>1, <3>2, <3>3, SoundExtends
    <2>4. ~overlapped => \A b \in Appenders : draft'[b] = NoDraft
        BY <2>1, <2>2
    <2> QED BY <2>1, <2>3, <2>4 DEF DraftOK
<1>7. CASE UNCHANGED chainVars
    BY <1>2, <1>7 DEF chainVars, DraftOK
<1> QED BY <1>3, <1>4, <1>5, <1>6, <1>7 DEF ChainNext

(* The verifier tells edits, gaps and swaps, and accepts a beginning of    *)
(* the chain (append against verify).                                      *)
THEOREM ChainTellsTampering == ChainSpec => []AcceptsExactlyPrefixes
<1>1. ChainInv => AcceptsExactlyPrefixes
    <2> SUFFICES ASSUME ChainInv, ~overlapped
                 PROVE  /\ \A given \in Rearranged : Verify(secret, given) <=> IsPrefixOf(given, records)
                        /\ \A given \in Edited : Verify(secret, given) <=> IsPrefixOf(given, records)
                        /\ \A i \in DOMAIN records, p \in Payloads :
                            Verify(secret, Rewritten(i, p)) <=> i = Len(records) \/ p = records[i].payload
        BY DEF AcceptsExactlyPrefixes
    <2>1. Sound(secret, records)
        BY DEF ChainInv
    <2>2. Len(records) \in Nat /\ DOMAIN records = 1 .. Len(records)
        BY <2>1, ChainFacts DEF Sound
    <2>3. ASSUME NEW given \in Rearranged
          PROVE  Verify(secret, given) <=> IsPrefixOf(given, records)
        <3>1. PICK n \in 1 .. Len(records) : given \in [1 .. n -> Members(records)]
            BY DEF Rearranged, Members
        <3>2. given # <<>>
            BY <2>2, <3>1
        <3> QED BY <2>1, <3>1, <3>2, RearrangedIsFound DEF Verify
    <2>4. ASSUME NEW i \in DOMAIN records, NEW r, r.payload_digest = records[i].payload_digest,
                 r = records[i] \/ r.payload # records[i].payload \/ r.sequence # i
          PROVE  LET given == [records EXCEPT ![i] = r]
                 IN  Verify(secret, given) <=> IsPrefixOf(given, records)
        <3> DEFINE given == [records EXCEPT ![i] = r]
        <3>1. /\ IsChain(records)
              /\ DOMAIN given = DOMAIN records /\ given[i] = r /\ given # <<>>
            BY <2>1, <2>2 DEF Sound, IsChain
        <3>2. ASSUME r = records[i]
              PROVE  Verify(secret, given) <=> IsPrefixOf(given, records)
            <4>1. given = records
                BY <3>1, <3>2 DEF IsChain
            <4> HIDE DEF given
            <4> QED BY <2>1, <2>2, <3>1, <4>1, ChainVerifies DEF Verify, IsPrefixOf
        <3>3. ASSUME r.payload # records[i].payload \/ r.sequence # i
              PROVE  Verify(secret, given) <=> IsPrefixOf(given, records)
            <4>1. ~Verifies(secret, given)
                BY <2>1, <2>4, <3>3, EditIsFound
            <4>2. r # records[i]
                <5> DEFINE p == records[i].payload
                           h == HashBefore(records, i)
                <5>1. records[i] = Signed(secret, i, p, h)
                    BY <2>1 DEF Sound
                <5> HIDE DEF p, h
                <5>2. records[i].sequence = i
                    BY <5>1 DEF Signed
                <5> QED BY <3>3, <5>2
            <4> HIDE DEF given
            <4> QED BY <3>1, <4>1, <4>2 DEF Verify, IsPrefixOf
        <3> QED BY <2>4, <3>2, <3>3
    <2>5. ASSUME NEW given \in Edited
          PROVE  Verify(secret, given) <=> IsPrefixOf(given, records)
        <3>1. CASE \E i \in DOMAIN records, p \in Payloads : given = [records EXCEPT ![i].payload = p]
            <4>1. PICK i \in DOMAIN records, p \in Payloads : given = [records EXCEPT ![i].payload = p]
                BY <3>1
            <4> DEFINE r == [records[i] EXCEPT !.payload = p]
            <4>2. r.payload_digest = records[i].payload_digest /\ (r = records[i] \/ r.payload # records[i].payload)
                <5> DEFINE q == records[i].payload
                           h == HashBefore(records, i)
                <5>1. records[i] = Signed(secret, i, q, h)
                    BY <2>1 DEF Sound
                <5> HIDE DEF q, h
                <5> QED BY <5>1 DEF Signed
            <4>3. given = [records EXCEPT ![i] = r]
                BY <4>1
            <4> HIDE DEF r
            <4> QED BY <2>4, <4>2, <4>3
        <3>2. CASE \E i \in DOMAIN records, n \in 1 .. MaxRecords : given = [records EXCEPT ![i].sequence = n]
            <4>1. PICK i \in DOMAIN records, n \in 1 .. MaxRecords : given = [records EXCEPT ![i].sequence = n]
                BY <3>2
            <4> DEFINE r == [records[i] EXCEPT !.sequence = n]
            <4>2. r.payload_digest = records[i].payload_digest /\ (r = records[i] \/ r.sequence # i)
                <5> DEFINE q == records[i].payload
                           h == HashBefore(records, i)
                <5>1. records[i] = Signed(secret, i, q, h)
                    BY <2>1 DEF Sound
                <5> HIDE DEF q, h
                <5> QED BY <5>1 DEF Signed
            <4>3. given = [records EXCEPT ![i] = r]
                BY <4>1
            <4> HIDE DEF r
            <4> QED BY <2>4, <4>2, <4>3
        <3> QED BY <3>1, <3>2 DEF Edited
    <2>6. ASSUME NEW i \in DOMAIN records, NEW p \in Payloads
          PROVE  Verify(secret, Rewritten(i, p)) <=> i = Len(records) \/ p = records[i].payload
        <3> DEFINE h == records[i].previous_hash
                   r == [sequence |-> i, payload |-> p, payload_digest |-> Digest(p), previous_hash |-> h,
                         record_hash |-> Digest(Envelope(i, p, h)), signature |-> Missing]
        <3>1. Rewritten(i, p) = [records EXCEPT ![i] = r]
            BY DEF Rewritten
        <3>2. [records EXCEPT ![i] = r] # <<>>
            BY <2>1, <2>2 DEF Sound, IsChain
        <3>3. Verify(secret, Rewritten(i, p)) <=> Verifies(secret, [records EXCEPT ![i] = r])
            <4> HIDE DEF r
            <4> QED BY <3>1, <3>2 DEF Verify
        <3>4. r = [sequence |-> i, payload |-> p, payload_digest |-> Digest(p),
                   previous_hash |-> records[i].previous_hash,
                   record_hash |-> Digest(Envelope(i, p, records[i].previous_hash)), signature |-> Missing]
            OBVIOUS
        <3> HIDE DEF r
        <3>5. Verifies(secret, [records EXCEPT ![i] = r]) <=> i = Len(records) \/ p = records[i].payload
            BY <2>1, <3>4, RewriteIsFound
        <3> QED BY <3>3, <3>5
    <2> QED BY <2>3, <2>5, <2>6
<1> QED BY <1>1, ChainInvInit, ChainInvStep, PTL DEF ChainSpec

-----------------------------------------------------------------------------
USE BreakerAssumption

(* A thread that is not idle is in a call, whatever it does next in it.    *)
LEMMA CallsAreCalls ==
    ASSUME BreakerTypeOK, NEW t \in Callers, call[t].at # "idle"
    PROVE  /\ call[t] \in Calls
           /\ \A at \in {"append", "compact", "pop", "judge", "done", "failed"} :
                [call[t] EXCEPT !.at = at] \in Calls
<1>1. call[t] \in Calls
    BY DEF BreakerTypeOK, NoCall
<1> QED BY <1>1 DEF Calls

(* A report, and its steps, put only events and calls where they belong.   *)
LEMMA TypeOfBreaker == BreakerTypeOK /\ [BreakerNext]_breakerVars => BreakerTypeOK'
<1> SUFFICES ASSUME BreakerTypeOK, [BreakerNext]_breakerVars
             PROVE  BreakerTypeOK'
    OBVIOUS
<1> USE DEF BreakerTypeOK
<1>1. CASE Tick
    BY <1>1 DEF Tick
<1>2. ASSUME NEW t \in Callers, Report(t)
      PROVE  BreakerTypeOK'
    <2>1. PICK usage \in Usages :
            call' = [call EXCEPT ![t] = [at |-> "append", now |-> clock, usage |-> usage, code |-> "none"]]
        BY <1>2 DEF Report
    <2>2. [at |-> "append", now |-> clock, usage |-> usage, code |-> "none"] \in Calls
        BY DEF Calls
    <2> QED BY <1>2, <2>1, <2>2 DEF Report
<1>3. ASSUME NEW t \in Callers, AppendEvent(t)
      PROVE  BreakerTypeOK'
    <2>1. call[t] \in Calls /\ [call[t] EXCEPT !.at = "compact"] \in Calls
        BY <1>3, CallsAreCalls DEF AppendEvent
    <2>2. [at |-> call[t].now, usage |-> call[t].usage] \in Entries
        BY <2>1 DEF Calls, Entries
    <2> QED BY <1>3, <2>1, <2>2 DEF AppendEvent
<1>4. ASSUME NEW t \in Callers, SeeStale(t)
      PROVE  BreakerTypeOK'
    <2>1. call[t] \in Calls /\ [call[t] EXCEPT !.at = "pop"] \in Calls
        BY <1>4, CallsAreCalls DEF SeeStale
    <2> QED BY <1>4, <2>1 DEF SeeStale
<1>5. ASSUME NEW t \in Callers, PopLeft(t)
      PROVE  BreakerTypeOK'
    <2>1. /\ call[t] \in Calls
          /\ [call[t] EXCEPT !.at = "compact"] \in Calls
          /\ [call[t] EXCEPT !.at = "failed"] \in Calls
        BY <1>5, CallsAreCalls DEF PopLeft
    <2>2. popped' \in 0 .. Len(entries)
        BY <1>5 DEF PopLeft, Queue
    <2> QED BY <1>5, <2>1, <2>2 DEF PopLeft
<1>6. ASSUME NEW t \in Callers, SeeFresh(t)
      PROVE  BreakerTypeOK'
    <2>1. call[t] \in Calls /\ [call[t] EXCEPT !.at = "judge"] \in Calls
        BY <1>6, CallsAreCalls DEF SeeFresh
    <2> QED BY <1>6, <2>1 DEF SeeFresh
<1>7. ASSUME NEW t \in Callers, Judge(t)
      PROVE  BreakerTypeOK'
    <2> DEFINE code == Code(call[t].usage.tool, call[t].now)
    <2>1. code \in {"none", "COST", "TOKENS", "RATE"}
        BY DEF Code
    <2> HIDE DEF code
    <2>2. [call[t] EXCEPT !.at = "done", !.code = code] \in Calls
        <3>1. call[t] \in Calls
            BY <1>7, CallsAreCalls DEF Judge
        <3> QED BY <2>1, <3>1 DEF Calls
    <2>3. call' = [call EXCEPT ![t] = [call[t] EXCEPT !.at = "done", !.code = code]]
        BY <1>7 DEF Judge, code
    <2> QED BY <1>7, <2>2, <2>3 DEF Judge
<1>8. CASE UNCHANGED breakerVars
    BY <1>8 DEF breakerVars
<1> QED BY <1>1, <1>2, <1>3, <1>4, <1>5, <1>6, <1>7, <1>8 DEF BreakerNext

(* There are none at first.                                                *)
LEMMA TypeAtFirst == BreakerInit => BreakerTypeOK
<1> SUFFICES ASSUME BreakerInit
             PROVE  BreakerTypeOK
    OBVIOUS
<1>1. entries \in Seq(Entries) /\ popped \in 0 .. Len(entries)
    BY DEF BreakerInit
<1>2. call \in [Callers -> Calls \cup {NoCall}]
    BY DEF BreakerInit
<1>3. clock \in 0 .. MaxTime
    BY BreakerAssumption DEF BreakerInit
<1>4. crowded \in BOOLEAN
    BY DEF BreakerInit
<1> QED BY <1>1, <1>2, <1>3, <1>4 DEF BreakerTypeOK

(* Type correctness (record, in any number of threads).                    *)
THEOREM BreakerTypeCorrect == BreakerSpec => []BreakerTypeOK
<1> QED BY TypeAtFirst, TypeOfBreaker, PTL DEF BreakerSpec

-----------------------------------------------------------------------------
(* So long as no two threads were about to pop at once, the one that is    *)
(* still has before it the stale event that it saw, and whatever was       *)
(* popped is older than the retention.  No thread is ahead of the clock.   *)
BreakerInv ==
    /\ BreakerTypeOK
    /\ \A t \in Callers : call[t].at # "idle" => call[t].now =< clock
    /\ ~crowded =>
        /\ \A t, u \in Callers : call[t].at = "pop" /\ call[u].at = "pop" => t = u
        /\ \A t \in Callers : call[t].at = "pop" => Queue # {} /\ Stale(popped + 1, call[t].now)
        /\ \A k \in 1 .. popped : Stale(k, clock)

(* What was stale once is stale later.                                     *)
LEMMA StaleStays ==
    ASSUME BreakerTypeOK, NEW k \in 1 .. Len(entries), NEW now \in Nat, NEW later \in Nat, now =< later, Stale(k, now)
    PROVE  Stale(k, later)
<1>1. entries[k] \in Entries
    BY DEF BreakerTypeOK
<1>2. entries[k].at \in Nat
    BY <1>1 DEF Entries
<1> QED BY <1>2 DEF Stale

(* Threads that pop one after another pop only what is stale.              *)
LEMMA BreakerStep == BreakerInv /\ [BreakerNext]_breakerVars => BreakerInv'
<1> SUFFICES ASSUME BreakerInv, [BreakerNext]_breakerVars
             PROVE  BreakerInv'
    OBVIOUS
<1>1. BreakerTypeOK /\ BreakerTypeOK'
    BY TypeOfBreaker DEF BreakerInv
<1>2. /\ clock \in Nat /\ popped \in 0 .. Len(entries) /\ Len(entries) \in Nat
      /\ call \in [Callers -> Calls \cup {NoCall}]
      /\ \A t \in Callers : call[t].at # "idle" => call[t] \in Calls /\ call[t].now \in Nat
    <2>1. \A c \in Calls : c.now \in Nat
        BY DEF Calls
    <2>2. \A t \in Callers : call[t].at # "idle" => call[t] \in Calls
        BY <1>1, CallsAreCalls
    <2>3. /\ clock \in Nat /\ popped \in 0 .. Len(entries) /\ Len(entries) \in Nat
          /\ call \in [Callers -> Calls \cup {NoCall}]
        BY <1>1 DEF BreakerTypeOK
    <2> QED BY <2>1, <2>2, <2>3
<1>3. CASE Tick
    <2>1. \A k \in 1 .. popped : Stale(k, clock) => Stale(k, clock + 1)
        BY <1>1, <1>2, StaleStays
    <2>2. clock' = clock + 1 /\ UNCHANGED <<call, entries, popped, crowded>>
        BY <1>3 DEF Tick
    <2> QED BY <1>1, <1>2, <2>1, <2>2 DEF BreakerInv, Stale, Queue
<1>4. ASSUME NEW t \in Callers, Report(t)
      PROVE  BreakerInv'
    <2>1. PICK usage \in Usages :
            call' = [call EXCEPT ![t] = [at |-> "append", now |-> clock, usage |-> usage, code |-> "none"]]
        BY <1>4 DEF Report
    <2>2. UNCHANGED <<clock, entries, popped, crowded>>
        BY <1>4 DEF Report
    <2> QED BY <1>1, <1>2, <2>1, <2>2 DEF BreakerInv, Stale, Queue
<1>5. ASSUME NEW t \in Callers, AppendEvent(t)
      PROVE  BreakerInv'
    <2>1. /\ call' = [call EXCEPT ![t].at = "compact"] /\ call[t].at = "append" /\ call[t] \in Calls
          /\ UNCHANGED <<clock, popped, crowded>>
        BY <1>2, <1>5 DEF AppendEvent
    <2>2. /\ Len(entries') = Len(entries) + 1
          /\ \A k \in 1 .. Len(entries) : entries'[k] = entries[k]
        BY <1>1, <1>5, <2>1 DEF AppendEvent, BreakerTypeOK, Calls, Entries
    <2>3. \A u \in Callers : u # t => call'[u] = call[u]
        BY <1>2, <2>1
    <2>4. call'[t].at = "compact" /\ call'[t].now = call[t].now
        BY <1>2, <2>1 DEF Calls
    <2>5. ASSUME ~crowded
          PROVE  /\ \A u, v \in Callers : call'[u].at = "pop" /\ call'[v].at = "pop" => u = v
                 /\ \A u \in Callers : call'[u].at = "pop" => Queue' # {} /\ Stale(popped + 1, call[u].now)'
                 /\ \A k \in 1 .. popped' : Stale(k, clock)'
        <3>1. \A u, v \in Callers : call'[u].at = "pop" /\ call'[v].at = "pop" => u = v
            BY <2>3, <2>4, <2>5 DEF BreakerInv
        <3>2. ASSUME NEW u \in Callers, call'[u].at = "pop"
              PROVE  Queue' # {} /\ Stale(popped + 1, call[u].now)'
            <4>1. call[u].at = "pop" /\ call'[u] = call[u]
                BY <2>3, <2>4, <3>2
            <4>2. popped + 1 \in 1 .. Len(entries) /\ Stale(popped + 1, call[u].now)
                BY <1>2, <2>5, <4>1 DEF BreakerInv, Queue
            <4> QED BY <1>2, <2>1, <2>2, <4>1, <4>2 DEF Queue, Stale
        <3>3. \A k \in 1 .. popped' : Stale(k, clock)'
            <4>1. \A k \in 1 .. popped : k \in 1 .. Len(entries) /\ Stale(k, clock)
                BY <1>2, <2>5 DEF BreakerInv
            <4> QED BY <2>1, <2>2, <4>1 DEF Stale
        <3> QED BY <3>1, <3>2, <3>3
    <2>6. \A u \in Callers : call'[u].at # "idle" => call'[u].now =< clock'
        BY <2>1, <2>3, <2>4 DEF BreakerInv
    <2> QED BY <1>1, <2>1, <2>5, <2>6 DEF BreakerInv
<1>6. ASSUME NEW t \in Callers, SeeStale(t)
      PROVE  BreakerInv'
    <2>1. /\ call' = [call EXCEPT ![t].at = "pop"] /\ call[t].at = "compact" /\ call[t] \in Calls
          /\ Queue # {} /\ Stale(popped + 1, call[t].now)
          /\ crowded' = (crowded \/ \E u \in Callers : call[u].at = "pop")
          /\ UNCHANGED <<clock, entries, popped>>
        BY <1>2, <1>6 DEF SeeStale
    <2>2. \A u \in Callers : u # t => call'[u] = call[u]
        BY <1>2, <2>1
    <2>3. call'[t].at = "pop" /\ call'[t].now = call[t].now
        BY <1>2, <2>1 DEF Calls
    <2> QED BY <1>1, <1>2, <2>1, <2>2, <2>3 DEF BreakerInv, Stale, Queue
<1>7. ASSUME NEW t \in Callers, PopLeft(t)
      PROVE  BreakerInv'
    <2>1. /\ call[t].at = "pop" /\ call[t] \in Calls /\ call[t].now =< clock /\ call[t].now \in Nat
          /\ UNCHANGED <<clock, entries, crowded>>
        BY <1>2, <1>7 DEF PopLeft, BreakerInv
    <2>2. \A u \in Callers : u # t => call'[u] = call[u]
        BY <1>2, <1>7 DEF PopLeft
    <2>3. call'[t].at \in {"failed", "compact"} /\ call'[t].now = call[t].now
        BY <1>2, <1>7, <2>1 DEF PopLeft, Calls
    <2>4. ~crowded => popped' = popped + 1 /\ \A k \in 1 .. popped + 1 : Stale(k, clock)
        <3> SUFFICES ASSUME ~crowded
                     PROVE  popped' = popped + 1 /\ \A k \in 1 .. popped + 1 : Stale(k, clock)
            OBVIOUS
        <3>1. Queue # {} /\ Stale(popped + 1, call[t].now)
            BY <2>1 DEF BreakerInv
        <3>2. popped + 1 \in 1 .. Len(entries)
            BY <1>2, <3>1 DEF Queue
        <3>3. Stale(popped + 1, clock)
            BY <1>1, <1>2, <2>1, <3>1, <3>2, StaleStays
        <3> QED BY <1>2, <1>7, <3>1, <3>3 DEF PopLeft, BreakerInv
    <2> QED BY <1>1, <1>2, <2>1, <2>2, <2>3, <2>4 DEF BreakerInv, Stale, Queue
<1>8. ASSUME NEW t \in Callers, NEW at \in {"judge", "done"}, call[t].at # "idle", call'[t].at = at,
             call'[t].now = call[t].now, \A u \in Callers : u # t => call'[u] = call[u],
             UNCHANGED <<clock, entries, popped, crowded>>
      PROVE  BreakerInv'
    BY <1>1, <1>2, <1>8 DEF BreakerInv, Stale, Queue
<1>9. ASSUME NEW t \in Callers, SeeFresh(t) \/ Judge(t)
      PROVE  BreakerInv'
    <2>1. call[t] \in Calls /\ call[t].at # "idle" /\ UNCHANGED <<clock, entries, popped, crowded>>
        BY <1>2, <1>9 DEF SeeFresh, Judge
    <2>2. \A u \in Callers : u # t => call'[u] = call[u]
        BY <1>2, <1>9 DEF SeeFresh, Judge
    <2>3. call'[t].at \in {"judge", "done"} /\ call'[t].now = call[t].now
        BY <1>2, <1>9, <2>1 DEF SeeFresh, Judge, Calls
    <2> QED BY <1>8, <2>1, <2>2, <2>3
<1>10. CASE UNCHANGED breakerVars
    BY <1>1, <1>10 DEF breakerVars, BreakerInv, Stale, Queue
<1> QED BY <1>3, <1>4, <1>5, <1>6, <1>7, <1>9, <1>10 DEF BreakerNext

-----------------------------------------------------------------------------
(* What some events report is no more than what more events report.        *)
LEMMA SpentIsMonotone ==
    ASSUME BreakerTypeOK, NEW S, NEW T, S \subseteq T, T \subseteq DOMAIN entries
    PROVE  /\ Spent(S) \in Nat /\ Spent(T) \in Nat /\ Spent(S) =< Spent(T)
           /\ Tokens(S) \in Nat /\ Tokens(T) \in Nat /\ Tokens(S) =< Tokens(T)
<1>1. IsFiniteSet(T)
    <2>1. DOMAIN entries = 1 .. Len(entries) /\ Len(entries) \in Nat
        BY DEF BreakerTypeOK
    <2>2. IsFiniteSet(1 .. Len(entries))
        BY <2>1, FS_Interval
    <2> QED BY <2>1, <2>2, FS_Subset
<1>2. \A k \in T : entries[k].usage.cost \in Nat /\ entries[k].usage.tokens \in Nat
    <2> SUFFICES ASSUME NEW k \in T
                 PROVE  entries[k].usage.cost \in Nat /\ entries[k].usage.tokens \in Nat
        OBVIOUS
    <2>1. entries[k] \in Entries
        BY DEF BreakerTypeOK
    <2>2. entries[k].usage \in Usage
        BY <2>1 DEF Entries
    <2> QED BY <2>2 DEF Usage
<1>3. ASSUME NEW number, \A k \in T : number[k] \in Nat
      PROVE  LET Units(U) == UNION {{k} \X (1 .. number[k]) : k \in U} IN
             /\ IsFiniteSet(Units(T)) /\ Cardinality(Units(T)) \in Nat
             /\ Cardinality(Units(S)) \in Nat /\ Cardinality(Units(S)) =< Cardinality(Units(T))
    <2> DEFINE Unit(k) == {k} \X (1 .. number[k])
               Units(U) == UNION {Unit(k) : k \in U}
    <2>1. \A k \in T : IsFiniteSet(Unit(k))
        <3> SUFFICES ASSUME NEW k \in T
                     PROVE  IsFiniteSet(Unit(k))
            OBVIOUS
        <3>1. IsFiniteSet(1 .. number[k])
            BY <1>3, FS_Interval
        <3> QED BY <3>1, FS_Singleton, FS_Product
    <2>2. IsFiniteSet({Unit(k) : k \in T})
        <3> HIDE DEF Unit
        <3>1. [k \in T |-> Unit(k)] \in Surjection(T, {Unit(k) : k \in T})
            BY DEF Surjection
        <3> QED BY <1>1, <3>1, FS_Surjection
    <2>3. IsFiniteSet(Units(T))
        BY <2>1, <2>2, FS_UNION
    <2>4. Units(S) \subseteq Units(T)
        <3> HIDE DEF Unit
        <3> QED OBVIOUS
    <2> HIDE DEF Units
    <2>5. /\ Cardinality(Units(T)) \in Nat /\ Cardinality(Units(S)) \in Nat
          /\ Cardinality(Units(S)) =< Cardinality(Units(T))
        BY <2>3, <2>4, FS_Subset, FS_CardinalityType
    <2> QED BY <2>3, <2>5 DEF Units
<1>4. /\ Spent(S) \in Nat /\ Spent(T) \in Nat /\ Spent(S) =< Spent(T)
    <2> DEFINE number == [k \in T |-> entries[k].usage.cost]
    <2>1. \A k \in T : number[k] \in Nat
        BY <1>2
    <2>2. /\ {{k} \X (1 .. number[k]) : k \in S} = {{k} \X (1 .. entries[k].usage.cost) : k \in S}
          /\ {{k} \X (1 .. number[k]) : k \in T} = {{k} \X (1 .. entries[k].usage.cost) : k \in T}
        OBVIOUS
    <2> HIDE DEF number
    <2> QED BY <1>3, <2>1, <2>2 DEF Spent
<1>5. /\ Tokens(S) \in Nat /\ Tokens(T) \in Nat /\ Tokens(S) =< Tokens(T)
    <2> DEFINE number == [k \in T |-> entries[k].usage.tokens]
    <2>1. \A k \in T : number[k] \in Nat
        BY <1>2
    <2>2. /\ {{k} \X (1 .. number[k]) : k \in S} = {{k} \X (1 .. entries[k].usage.tokens) : k \in S}
          /\ {{k} \X (1 .. number[k]) : k \in T} = {{k} \X (1 .. entries[k].usage.tokens) : k \in T}
        OBVIOUS
    <2> HIDE DEF number
    <2> QED BY <1>3, <2>1, <2>2 DEF Tokens
<1> QED BY <1>4, <1>5

(* An event that is not older than the retention is still in the deque.    *)
LEMMA RecentIsQueued ==
    ASSUME BreakerInv, ~crowded
    PROVE  Since(4 * Window) \subseteq Queue /\ Since(Window) \subseteq Queue
<1>1. /\ DOMAIN entries = 1 .. Len(entries) /\ Len(entries) \in Nat /\ popped \in 0 .. Len(entries) /\ clock \in Nat
      /\ \A k \in DOMAIN entries : entries[k].at \in Nat
    <2>1. \A k \in DOMAIN entries : entries[k] \in Entries
        BY DEF BreakerInv, BreakerTypeOK
    <2> QED BY <2>1 DEF BreakerInv, BreakerTypeOK, Entries
<1>2. \A k \in 1 .. popped : clock > entries[k].at + 4 * Window
    BY DEF BreakerInv, Stale
<1>3. \A k \in Since(4 * Window) : k \in Queue
    BY <1>1, <1>2 DEF Since, Queue
<1>4. Since(Window) \subseteq Since(4 * Window)
    BY <1>1 DEF Since
<1> QED BY <1>3, <1>4

(* A thread that judges its report good has seen all that the limits count.*)
LEMMA JudgeIsWithin ==
    ASSUME BreakerInv, ~crowded, NEW t \in Callers, Judge(t), call'[t].code = "none"
    PROVE  /\ call[t].usage.tool # NoTool =>
                Cardinality({k \in Since(Window) : entries[k].usage.tool = call[t].usage.tool}) =< MaxRate
           /\ Spent(Since(4 * Window)) =< MaxCost
           /\ Tokens(Since(4 * Window)) =< MaxTokens
<1> DEFINE tool == call[t].usage.tool
           now == call[t].now
<1>1. BreakerTypeOK /\ call[t] \in Calls /\ now \in Nat /\ now =< clock /\ clock \in Nat
    <2>1. BreakerTypeOK /\ clock \in Nat /\ call[t].at = "judge"
        BY DEF BreakerInv, BreakerTypeOK, Judge
    <2>2. call[t] \in Calls
        BY <2>1, CallsAreCalls
    <2>3. now \in Nat
        BY <2>2 DEF Calls
    <2> QED BY <2>1, <2>2, <2>3 DEF BreakerInv
<1>2. Code(tool, now) = "none"
    BY <1>1 DEF Judge, Calls, BreakerTypeOK
<1>3. /\ DOMAIN entries = 1 .. Len(entries) /\ Len(entries) \in Nat /\ Queue \subseteq DOMAIN entries
      /\ IsFiniteSet(Queue)
    <2>1. popped \in 0 .. Len(entries) /\ DOMAIN entries = 1 .. Len(entries) /\ Len(entries) \in Nat
        BY <1>1 DEF BreakerTypeOK
    <2>2. IsFiniteSet(popped + 1 .. Len(entries))
        BY <2>1, FS_Interval
    <2> QED BY <2>1, <2>2 DEF Queue
<1>4. Spent(Since(4 * Window)) =< Spent(Queue) /\ Tokens(Since(4 * Window)) =< Tokens(Queue)
      /\ Spent(Queue) \in Nat /\ Tokens(Queue) \in Nat /\ Spent(Since(4 * Window)) \in Nat
      /\ Tokens(Since(4 * Window)) \in Nat
    BY <1>1, <1>3, RecentIsQueued, SpentIsMonotone
<1>5. Spent(Queue) =< MaxCost /\ Tokens(Queue) =< MaxTokens
    BY <1>2, <1>4 DEF Code
<1>6. ASSUME tool # NoTool
      PROVE  Cardinality({k \in Since(Window) : entries[k].usage.tool = tool}) =< MaxRate
    <2> DEFINE recent == {k \in Since(Window) : entries[k].usage.tool = tool}
               inWindow == InWindow(tool, now)
    <2>1. recent \subseteq inWindow
        <3>1. \A k \in Since(Window) : k \in Queue /\ entries[k] \in Entries
            BY <1>1, <1>3, RecentIsQueued DEF BreakerTypeOK
        <3>2. \A k \in Since(Window) : entries[k].at + Window >= now
            BY <1>1, <3>1 DEF Since, Entries
        <3> QED BY <3>1, <3>2 DEF InWindow
    <2>2. IsFiniteSet(inWindow)
        BY <1>3, FS_Subset DEF InWindow
    <2> HIDE DEF recent
    <2>3. Cardinality(recent) =< Cardinality(inWindow) /\ Cardinality(recent) \in Nat
          /\ Cardinality(inWindow) \in Nat
        BY <2>1, <2>2, FS_Subset, FS_CardinalityType
    <2>4. ~(Cardinality(inWindow) > MaxRate)
        BY <1>2, <1>5, <1>6 DEF Code
    <2> QED BY <2>3, <2>4 DEF recent
<1> QED BY <1>4, <1>5, <1>6

(* With any number of threads and events the breaker lets nothing pass     *)
(* that is over the limits, so long as no two threads compacted at once    *)
(* (record, _compact, _metrics, _blocked): only what is older than four    *)
(* windows was ever popped, so what a decision must count is in the deque. *)
THEOREM BreakerKeepsLimits == BreakerSpec => LimitsHold
<1>1. BreakerInit => BreakerInv
    <2> SUFFICES ASSUME BreakerInit
                 PROVE  BreakerInv
        OBVIOUS
    <2>1. BreakerTypeOK
        BY TypeAtFirst
    <2>2. \A t \in Callers : call[t].at = "idle"
        BY DEF BreakerInit, NoCall
    <2>3. 1 .. popped = {}
        BY DEF BreakerInit
    <2> QED BY <2>1, <2>2, <2>3 DEF BreakerInv
<1>2. BreakerInv /\ [BreakerNext]_breakerVars =>
        [\A t \in Callers : Allows(t) /\ ~crowded =>
            /\ call[t].usage.tool # NoTool =>
                Cardinality({k \in Since(Window) : entries[k].usage.tool = call[t].usage.tool}) =< MaxRate
            /\ Spent(Since(4 * Window)) =< MaxCost
            /\ Tokens(Since(4 * Window)) =< MaxTokens]_breakerVars
    <2> SUFFICES ASSUME BreakerInv, BreakerNext, NEW t \in Callers, Allows(t), ~crowded
                 PROVE  /\ call[t].usage.tool # NoTool =>
                            Cardinality({k \in Since(Window) : entries[k].usage.tool = call[t].usage.tool}) =< MaxRate
                        /\ Spent(Since(4 * Window)) =< MaxCost
                        /\ Tokens(Since(4 * Window)) =< MaxTokens
        BY DEF breakerVars
    <2>1. call[t].at = "judge" /\ call'[t].at = "done" /\ call'[t].code = "none"
        BY DEF Allows
    <2>2. call \in [Callers -> Calls \cup {NoCall}]
        BY DEF BreakerInv, BreakerTypeOK
    <2>3. ASSUME NEW u \in Callers,
                 Report(u) \/ AppendEvent(u) \/ SeeStale(u) \/ PopLeft(u) \/ SeeFresh(u)
          PROVE  FALSE
        <3>1. u # t => call'[t] = call[t]
            BY <2>2, <2>3 DEF Report, AppendEvent, SeeStale, PopLeft, SeeFresh
        <3>2. u # t
            BY <2>1, <2>3 DEF Report, AppendEvent, SeeStale, PopLeft, SeeFresh, Calls
        <3> QED BY <2>1, <3>1, <3>2
    <2>4. ASSUME NEW u \in Callers, Judge(u)
          PROVE  Judge(t)
        BY <2>1, <2>2, <2>4 DEF Judge
    <2>5. Judge(t)
        BY <2>1, <2>3, <2>4 DEF BreakerNext, Tick
    <2> QED BY <2>1, <2>5, JudgeIsWithin
<1> QED BY <1>1, <1>2, BreakerStep, PTL DEF BreakerSpec, LimitsHold

===============================================================================
