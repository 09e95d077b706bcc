----------------------------- MODULE MCMcpProxy -----------------------------
(***************************************************************************)
(* TLC instances of McpProxy: a registry with one tool of each effect, and *)
(* the messages that take each way through evaluate.                       *)
(***************************************************************************)
EXTENDS McpProxy, TLC

(* Reading is allowed for the arguments its condition accepts, pushing     *)
(* needs an approval, "exec" is not registered.                            *)
Entries ==
    "read" :> [effect |-> "allow", when |-> {"clean", "pii", "secret"}]
    @@ "push" :> [effect |-> "require_approval", when |-> Args]

Call(tool, args) == [method |-> "tools/call", hasId |-> TRUE, tool |-> tool, args |-> args]
Other(method, hasId) == [method |-> method, hasId |-> hasId, tool |-> "read", args |-> "clean"]

Traffic ==
    {Call("read", "pii"), Call("read", "secret"), Call("read", "hidden"), Call("read", "malformed"),
     Call("push", "clean"), Call("exec", "clean"),
     Other("other", TRUE), Other("other", FALSE), Other("none", TRUE)}
=============================================================================
