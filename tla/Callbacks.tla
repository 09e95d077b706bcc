------------------------------ MODULE Callbacks ------------------------------
(***************************************************************************)
(* The callback handler that LangChain and LlamaIndex share among the runs *)
(* of a pipeline (integrations/callbacks.py, langchain.py, llamaindex.py). *)
(* It has one prompt, one list of streamed tokens and one metadata dict;   *)
(* runs may nest, overlap, fail, or never report their end.  A text is the *)
(* sequence of the pieces it is made of, a piece the run it comes from.    *)
(***************************************************************************)
EXTENDS Naturals, Sequences

CONSTANTS
    Runs,
    MaxStreamed, \* bound: tokens of a run
    Nobody

ASSUME CallbackAssumption == MaxStreamed \in Nat

Keys(framework) ==
    IF framework = "langchain" THEN {"langchain_serialized", "langchain_metadata"}
    ELSE {"llamaindex_event_type", "llamaindex_payload", "llamaindex_end_payload"}

VARIABLES
    framework,
    progress, \* of each run: "new", "streaming", "ending", "ended", "failed"
    streamed, \* of each run: its tokens
    given,    \* of each run: the output its end came with, or Nobody
    prompt,   \* prompt_text: the run it is of, or Nobody
    chunks,   \* _chunks
    tags,     \* metadata: the run that set a key
    output,   \* output_text
    request,  \* what finish() has put into the request it reviews
    review,   \* of each run: what its end returned
    mixed     \* runs that had another one start, stream or end between their start and their end

callbackVars == <<framework, progress, streamed, given, prompt, chunks, tags, output, request, review, mixed>>

Frameworks == {"langchain", "llamaindex"}
SomeRun    == Runs \cup {Nobody}
NoReview   == [prompt |-> Nobody]

CallbackTypeOK ==
    /\ framework \in Frameworks
    /\ progress \in [Runs -> {"new", "streaming", "ending", "ended", "failed"}]
    /\ streamed \in [Runs -> 0 .. MaxStreamed]
    /\ prompt \in SomeRun
    /\ chunks \in Seq(Runs)
    /\ output \in Seq(Runs)
    /\ tags \in [Keys(framework) -> SomeRun]
    /\ request \in [Runs -> [prompt : SomeRun, tags : [Keys(framework) -> SomeRun]] \cup {NoReview}]
    /\ mixed \subseteq Runs

CallbackInit ==
    /\ framework \in Frameworks
    /\ progress = [r \in Runs |-> "new"]
    /\ streamed = [r \in Runs |-> 0]
    /\ given = [r \in Runs |-> Nobody]
    /\ prompt = Nobody
    /\ chunks = <<>>
    /\ tags = [k \in Keys(framework) |-> Nobody]
    /\ output = <<>>
    /\ request = [r \in Runs |-> NoReview]
    /\ review = [r \in Runs |-> NoReview]
    /\ mixed = {}

OpenRuns == {r \in Runs : progress[r] \in {"streaming", "ending"}}

(* Keys that the start and the end of a run write.                         *)
StartKeys == {"langchain_serialized", "llamaindex_event_type", "llamaindex_payload"}
EndKeys   == {"langchain_metadata", "llamaindex_event_type", "llamaindex_end_payload"}

Tagged(keys, r) == [k \in DOMAIN tags |-> IF k \in keys THEN r ELSE tags[k]]

(* Mutant of StartRun: the streamed tokens are kept.                       *)
StartRunOnly(r) ==
    /\ progress[r] = "new"
    /\ progress' = [progress EXCEPT ![r] = "streaming"]
    /\ prompt' = r
    /\ output' = <<>>
    /\ tags' = Tagged(StartKeys, r)
    /\ mixed' = mixed \cup OpenRuns
    /\ UNCHANGED <<framework, streamed, given, chunks, request, review>>

(* on_llm_start, on_event_start and their async forms.                     *)
StartRun(r) ==
    /\ progress[r] = "new"
    /\ progress' = [progress EXCEPT ![r] = "streaming"]
    /\ prompt' = r
    /\ output' = <<>>
    /\ chunks' = <<>>
    /\ tags' = Tagged(StartKeys, r)
    /\ mixed' = mixed \cup OpenRuns
    /\ UNCHANGED <<framework, streamed, given, request, review>>

AddToken(r) ==
    /\ progress[r] = "streaming"
    /\ streamed[r] < MaxStreamed
    /\ streamed' = [streamed EXCEPT ![r] = @ + 1]
    /\ chunks' = Append(chunks, r)
    /\ mixed' = mixed \cup (OpenRuns \ {r})
    /\ UNCHANGED <<framework, progress, given, prompt, tags, output, request, review>>

Streamed(r) == [i \in 1 .. streamed[r] |-> r]

(* What comes with the end: nothing, an object without text, or the text.  *)
(* _extract_langchain_output hands an empty list of generations on, which  *)
(* is not None and reads as no text; on_event_end takes an empty text for  *)
(* nothing.                                                                *)
GivenOutputs(r) == {Nobody, Streamed(r)} \cup IF framework = "langchain" THEN {<<>>} ELSE {}

(* finish(), up to the request.                                            *)
BeginFinish(r) ==
    /\ progress[r] = "streaming"
    /\ progress' = [progress EXCEPT ![r] = "ending"]
    /\ tags' = Tagged(EndKeys, r)
    /\ \E out \in GivenOutputs(r) :
        /\ given' = [given EXCEPT ![r] = out]
        /\ output' = IF out = Nobody THEN chunks ELSE out
    /\ request' = [request EXCEPT ![r] = [prompt |-> prompt, tags |-> tags']]
    /\ mixed' = mixed \cup (OpenRuns \ {r})
    /\ UNCHANGED <<framework, streamed, prompt, chunks, review>>

(* The rest of it reads the handler's fields again: findings and decision  *)
(* are about prompt_text and output_text as they are by now.               *)
EndFinish(r) ==
    /\ progress[r] = "ending"
    /\ progress' = [progress EXCEPT ![r] = "ended"]
    /\ review' = [review EXCEPT ![r] =
        [prompt |-> prompt, output |-> output, tags |-> tags, request |-> request[r]]]
    /\ UNCHANGED <<framework, streamed, given, prompt, chunks, tags, output, request, mixed>>

(* on_llm_error, on_event_error: nothing is reset.                         *)
FailRun(r) ==
    /\ progress[r] = "streaming"
    /\ progress' = [progress EXCEPT ![r] = "failed"]
    /\ UNCHANGED <<framework, streamed, given, prompt, chunks, tags, output, request, review, mixed>>

(* A cancelled run reports nothing: it is failed without a call.           *)
CallbackNext ==
    \E r \in Runs : StartRun(r) \/ AddToken(r) \/ BeginFinish(r) \/ EndFinish(r) \/ FailRun(r)

CallbackSpec == CallbackInit /\ [][CallbackNext]_callbackVars

-----------------------------------------------------------------------------
(* A run that no other one interrupted is reviewed as what it was: its own *)
(* prompt, its own output - the tokens it streamed, when its end came      *)
(* without one - and its own metadata, whatever earlier runs left behind   *)
(* by failing or by never ending.  (start and finish of the handler)       *)
ReviewedItsOwnRun ==
    \A r \in Runs : progress[r] = "ended" /\ r \notin mixed =>
        /\ review[r].prompt = r
        /\ review[r].request.prompt = r
        /\ review[r].output = IF given[r] = Nobody THEN Streamed(r) ELSE given[r]
        /\ \A k \in Keys(framework) : review[r].tags[k] = r /\ review[r].request.tags[k] = r
=============================================================================
