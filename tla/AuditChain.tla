----------------------------- MODULE AuditChain -----------------------------
(***************************************************************************)
(* TamperEvidentAuditChain (crypto_audit.py) over IntegritySigner          *)
(* (integrity.py).  A digest is the value it is the digest of: nothing     *)
(* else has it.  A signature is the pair of the key and the value.         *)
(*                                                                         *)
(* append() reads the list of records three times before it extends it;    *)
(* threads that share a chain interleave between these reads.              *)
(***************************************************************************)
EXTENDS Naturals, Sequences, FiniteSets

CONSTANTS
    Appenders,  \* threads
    Payloads,
    Secrets,    \* secrets of a signer
    MaxRecords, \* bound: the calls of append
    Missing     \* None

ASSUME ChainAssumption == IsFiniteSet(Appenders) /\ MaxRecords \in Nat

VARIABLES
    secret,     \* of the chain's signer, or Missing
    records,
    draft,      \* what the append of a thread has computed so far
    overlapped  \* two appends were under way at the same time

chainVars == <<secret, records, draft, overlapped>>

Digest(value) == <<"sha256", value>>
Sign(key, value) ==
    [digest |-> Digest(value), signature |-> IF key = Missing THEN Missing ELSE <<key, value>>]

Envelope(sequence, payload, previous) ==
    [sequence |-> sequence, payload_digest |-> Digest(payload), previous_hash |-> previous]

NoDraft == [at |-> "none"]
Appending == {a \in Appenders : draft[a] # NoDraft}

ChainInit ==
    /\ secret \in Secrets \cup {Missing}
    /\ records = <<>>
    /\ draft = [a \in Appenders |-> NoDraft]
    /\ overlapped = FALSE

(* previous_hash = self.records[-1].record_hash                            *)
Link(a) ==
    /\ draft[a] = NoDraft
    /\ Len(records) < MaxRecords
    /\ \E p \in Payloads :
        draft' = [draft EXCEPT ![a] =
            [at |-> "linked", payload |-> p,
             previous |-> IF records = <<>> THEN Missing ELSE records[Len(records)].record_hash]]
    /\ overlapped' = (overlapped \/ Appending # {})
    /\ UNCHANGED <<secret, records>>

(* The envelope is signed with len(self.records) + 1 ...                   *)
Seal(a) ==
    /\ draft[a].at = "linked"
    /\ draft' = [draft EXCEPT ![a] =
        [at |-> "sealed", payload |-> draft[a].payload, previous |-> draft[a].previous,
         signed |-> Sign(secret, Envelope(Len(records) + 1, draft[a].payload, draft[a].previous))]]
    /\ UNCHANGED <<secret, records, overlapped>>

(* ... and the record is numbered with the length read again.              *)
Number(a) ==
    /\ draft[a].at = "sealed"
    /\ draft' = [draft EXCEPT ![a] =
        [at |-> "numbered",
         record |-> [sequence |-> Len(records) + 1, payload |-> draft[a].payload,
                     payload_digest |-> Digest(draft[a].payload), previous_hash |-> draft[a].previous,
                     record_hash |-> draft[a].signed.digest, signature |-> draft[a].signed.signature]]]
    /\ UNCHANGED <<secret, records, overlapped>>

Push(a) ==
    /\ draft[a].at = "numbered"
    /\ records' = Append(records, draft[a].record)
    /\ draft' = [draft EXCEPT ![a] = NoDraft]
    /\ UNCHANGED <<secret, overlapped>>

ChainNext == \E a \in Appenders : Link(a) \/ Seal(a) \/ Number(a) \/ Push(a)

ChainSpec == ChainInit /\ [][ChainNext]_chainVars

(* Mutant of Verifies: the link to the record before is not compared.      *)
VerifiesUnlinked(key, chain) ==
    \A i \in DOMAIN chain :
        LET r == chain[i]
            expected == Sign(key, [sequence |-> r.sequence, payload_digest |-> r.payload_digest,
                                   previous_hash |-> r.previous_hash])
        IN  /\ r.sequence = i
            /\ r.payload_digest = Digest(r.payload)
            /\ r.record_hash = expected.digest
            /\ r.signature # Missing => r.signature = expected.signature

(* The loop of verify(), with the signer of this key.                      *)
Verifies(key, chain) ==
    \A i \in DOMAIN chain :
        LET r == chain[i]
            expected == Sign(key, [sequence |-> r.sequence, payload_digest |-> r.payload_digest,
                                   previous_hash |-> r.previous_hash])
        IN  /\ r.sequence = i
            /\ r.previous_hash = IF i = 1 THEN Missing ELSE chain[i - 1].record_hash
            /\ r.payload_digest = Digest(r.payload)
            /\ r.record_hash = expected.digest
            /\ r.signature # Missing => r.signature = expected.signature

(* verify(records): an empty list is no argument, and the chain verifies   *)
(* itself.                                                                 *)
Verify(key, given) == Verifies(key, IF given = <<>> THEN records ELSE given)

-----------------------------------------------------------------------------
ChainTypeOK ==
    /\ secret \in Secrets \cup {Missing}
    /\ Len(records) =< MaxRecords + Cardinality(Appenders)
    /\ \A i \in DOMAIN records : records[i].sequence \in 1 .. i /\ records[i].payload \in Payloads
    /\ \A a \in Appenders : draft[a].at \in {"none", "linked", "sealed", "numbered"}
    /\ overlapped \in BOOLEAN

IsPrefixOf(s, t) == Len(s) =< Len(t) /\ \A i \in DOMAIN s : s[i] = t[i]

(* What a store can make of a chain by accident: records lost, repeated or *)
(* out of order, and one record with another payload or another number.    *)
Rearranged == UNION {[1 .. n -> {records[i] : i \in DOMAIN records}] : n \in 1 .. Len(records)}
Edited ==
    {[records EXCEPT ![i].payload = p] : i \in DOMAIN records, p \in Payloads} \cup
    {[records EXCEPT ![i].sequence = n] : i \in DOMAIN records, n \in 1 .. MaxRecords}

(* A record written anew, with what can be computed without the key.       *)
Rewritten(i, p) ==
    [records EXCEPT ![i] =
        [sequence |-> i, payload |-> p, payload_digest |-> Digest(p), previous_hash |-> @.previous_hash,
         record_hash |-> Digest(Envelope(i, p, @.previous_hash)), signature |-> Missing]]

(* While no two appends overlapped, the verifier with the chain's own key  *)
(* accepts of all these exactly what is a beginning of the chain: edits,   *)
(* gaps and swaps are found, a lost end is not.  A record that was written *)
(* anew with another payload is found by the link of the next one, so only *)
(* the last one is not.  (append against verify)                           *)
AcceptsExactlyPrefixes ==
    ~overlapped =>
        /\ \A given \in Rearranged \cup Edited : Verify(secret, given) <=> IsPrefixOf(given, records)
        /\ \A i \in DOMAIN records, p \in Payloads :
            Verify(secret, Rewritten(i, p)) <=> i = Len(records) \/ p = records[i].payload
=============================================================================
