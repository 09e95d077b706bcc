---------------------------- MODULE PolicySource ----------------------------
(***************************************************************************)
(* The documents a policy source can return, and what the two readers of   *)
(* a document do with it: _snapshot (checksum, YAML mapping) and           *)
(* PolicyEngine.__init__ (schema).  A document is its version number, so   *)
(* that a digest comparison is a comparison of versions, and a form: what  *)
(* the readers make of its content.                                        *)
(***************************************************************************)
EXTENDS Naturals

CONSTANTS
    MaxVersion,    \* bound: versions the central store publishes
    Pin,           \* version whose digest is expected_sha256; 0: no pin
    HasCache,      \* a cache_file is configured
    FallbackForm,  \* form of fallback_policy_file; "none": not configured
    NoText         \* no document: a missing file, no engine

(* "policy": a mapping that passes the schema; "invalid": a mapping that   *)
(* does not; "unreadable": not UTF-8, not YAML or not a mapping.           *)
Forms == {"policy", "invalid", "unreadable"}

(* Version 0 stands for every text nobody published: an empty file, the    *)
(* mixture two writers leave behind, the local fallback file.              *)
Text == [ver : 0 .. MaxVersion, form : Forms]

ASSUME SourceAssumption ==
    /\ MaxVersion \in Nat \ {0}
    /\ Pin \in 0 .. MaxVersion
    /\ HasCache \in BOOLEAN
    /\ FallbackForm \in Forms \cup {"none"}
    /\ NoText \notin Text

Published(x) == x # NoText /\ x.ver > 0

(* The file open(..., "w") leaves before the first write reaches it.       *)
(* yaml.safe_load("") or {} is an empty mapping: a policy that denies.     *)
EmptyText == [ver |-> 0, form |-> "policy"]

FallbackText == [ver |-> 0, form |-> FallbackForm]

(* PolicySourceSnapshot: the document and where it came from.              *)
Snapshot == [text : Text, source : {"remote", "cache", "fallback"}]
NoSnapshot == [text |-> NoText, source |-> "none"]

(* _snapshot does not raise on x.                                          *)
Readable(x, pin) == (pin = 0 \/ x.ver = pin) /\ x.form # "unreadable"

(* PolicyEngine(policy) does not raise.                                    *)
SchemaValid(x) == x.form = "policy"

(* What _cached_snapshot_or_raise returns for the cache file: no snapshot  *)
(* when it raises.                                                         *)
CachedSnapshots(file) ==
    {s \in {[text |-> file, source |-> "cache"]} :
        HasCache /\ file # NoText /\ Readable(file, Pin)}

(* What FallbackPolicySource adds when the primary source raised: the      *)
(* fallback file, which policy_source_from_uri loads without a pin.        *)
FallbackSnapshots ==
    {s \in {[text |-> FallbackText, source |-> "fallback"]} :
        FallbackForm # "none" /\ Readable(FallbackText, 0)}

(* The outcome of load() once the download or the cache write raised.      *)
Recovered(file) ==
    IF CachedSnapshots(file) # {} THEN CachedSnapshots(file)
                                  ELSE FallbackSnapshots
=============================================================================
