--------------------------- MODULE MCSessionState ---------------------------
(***************************************************************************)
(* TLC instances of SessionState: workers and actions are interchangeable. *)
(***************************************************************************)
EXTENDS SessionState, TLC

Symmetry == Permutations(Workers) \cup Permutations(Actions)
=============================================================================
