------------------------------ MODULE McpProxy ------------------------------
(***************************************************************************)
(* MCPStdioPolicyProxy (mcp_stdio.py) between an MCP client and the server *)
(* process it starts, with the verdicts of MCPPolicyProxy.evaluate         *)
(* (mcp_proxy.py) and ToolPolicyEngine.decide (tools.py).  The main loop   *)
(* reads the client and writes to the server or, for a blocked call, to    *)
(* the client; a daemon thread pumps the server's frames to the client.    *)
(* Pipes are bounded; the client may close its input, stop listening, or   *)
(* both; the server may die and may write a line that is no frame.         *)
(***************************************************************************)
EXTENDS Naturals, Sequences

CONSTANTS
    Messages,      \* what the client may send
    Tools,         \* connector and action of a call
    Registry,      \* the registered tools' entries
    Default,       \* the policy's default effect
    DenyOnSecrets, \* deny_on_secrets
    PipeSize,      \* frames a pipe holds
    MaxMessages,   \* bound: messages of the client
    MaxAsks        \* bound: requests and stray lines of the server

(* "pii" and "secret" stand in a string value, where redaction looks;      *)
(* "hidden" is personal data in a key; "malformed" is no mapping.          *)
Args    == {"clean", "pii", "secret", "hidden", "malformed"}
Effects == {"allow", "require_approval", "deny"}

(* An action's entry: its effect, "unset" if it has none, and for which    *)
(* arguments its conditions hold, all of them if it has no `when`.         *)
Entry == [effect : Effects \cup {"unset"}, when : SUBSET Args]

(* A JSON-RPC message; method "none" is a response to the server.          *)
Message == [method : {"tools/call", "other", "none"}, hasId : BOOLEAN, tool : Tools, args : Args]

ASSUME ProxyAssumption ==
    /\ Messages \subseteq Message
    /\ DOMAIN Registry \subseteq Tools
    /\ \A t \in DOMAIN Registry : Registry[t] \in Entry
    /\ Default \in Effects
    /\ DenyOnSecrets \in BOOLEAN
    /\ PipeSize \in Nat \ {0}
    /\ MaxMessages \in Nat
    /\ MaxAsks \in Nat

VARIABLES
    eof,         \* the client has closed its input
    listening,   \* the client reads the proxy's output
    sent,        \* history: the messages read from the client, by number
    asked,       \* requests of the server that the client has not answered
    main,        \* where the main loop stands
    toServer,    \* the server's stdin
    server,      \* "up" or "gone"
    serving,     \* the message the server works on; 0 for none
    received,    \* history: what the server has taken from its stdin
    asksLeft,    \* bound: what the server may still write unasked
    fromServer,  \* the server's stdout
    pump,        \* where the pump thread stands
    frame,       \* the frame the pump thread holds
    got          \* history: the client's answers, by message number

client == <<eof, listening>>
proxy  == <<sent, asked, main>>
child  == <<server, serving, received, asksLeft>>
thread == <<pump, frame>>
vars   == <<client, proxy, toServer, child, fromServer, thread, got>>

Numbers == 1 .. MaxMessages

(* What the server gets: the message's number, whether model_dump wrote    *)
(* its id or a null, and the arguments.                                    *)
Request == [n : Numbers, id : {"own", "null"}, args : Args \cup {"redacted"}]

(* What the server writes.                                                 *)
Reply == [kind : {"answer"}, n : Numbers] \cup [kind : {"ask", "stray"}, n : {0}]
NoReply == [kind |-> "none", n |-> 0]

TypeOK ==
    /\ eof \in BOOLEAN
    /\ listening \in BOOLEAN
    /\ sent \in Seq(Messages) /\ Len(sent) =< MaxMessages
    /\ asked \in Nat
    /\ main \in {"read", "forward", "deny", "wait", "unwind", "exited"}
    /\ main \in {"forward", "deny"} => Len(sent) \in Numbers
    /\ toServer \in Seq(Request)
    /\ server \in {"up", "gone"}
    /\ serving \in 0 .. MaxMessages
    /\ received \in SUBSET Request
    /\ asksLeft \in 0 .. MaxAsks
    /\ fromServer \in Seq(Reply)
    /\ pump \in {"read", "write", "ended", "dead", "killed"}
    /\ frame \in Reply \cup {NoReply}
    /\ pump = "write" => frame \in Reply
    /\ got \in [Numbers -> Seq({"error", "result"})]

Init ==
    /\ eof = FALSE
    /\ listening = TRUE
    /\ sent = <<>>
    /\ asked = 0
    /\ main = "read"
    /\ toServer = <<>>
    /\ server = "up"
    /\ serving = 0
    /\ received = {}
    /\ asksLeft = MaxAsks
    /\ fromServer = <<>>
    /\ pump = "read"
    /\ frame = NoReply
    /\ got = [n \in Numbers |-> <<>>]

-----------------------------------------------------------------------------
(* The verdict on a message.                                               *)

(* ToolPolicyEngine.decide.                                                *)
Decision(m) ==
    IF m.tool \notin DOMAIN Registry THEN "deny"
    ELSE LET entry == Registry[m.tool]
         IN  IF m.args \in entry.when /\ entry.effect # "unset" THEN entry.effect ELSE Default

(* Mutant of Evaluated: only a denial is blocked.                          *)
EvaluatedDeniesOnly(m) ==
    IF m.method = "none" \/ (m.method = "tools/call" /\ m.args = "malformed") THEN "unwind"
    ELSE IF m.method = "tools/call" /\ (Decision(m) = "deny" \/ (DenyOnSecrets /\ m.args = "secret"))
         THEN "deny" ELSE "forward"

(* MCPPolicyProxy.evaluate, as the next step of the loop.  A message       *)
(* without a method and arguments that are no mapping raise.               *)
Evaluated(m) ==
    IF m.method = "none" \/ (m.method = "tools/call" /\ m.args = "malformed") THEN "unwind"
    ELSE IF m.method = "tools/call" /\ (Decision(m) # "allow" \/ (DenyOnSecrets /\ m.args = "secret"))
         THEN "deny" ELSE "forward"

(* Redaction replaces what it finds in values and leaves keys alone.       *)
Sanitized(m) ==
    IF m.method = "tools/call" /\ m.args \in {"pii", "secret"} THEN "redacted" ELSE m.args

Outgoing(n) ==
    [n |-> n, id |-> IF sent[n].hasId THEN "own" ELSE "null", args |-> Sanitized(sent[n])]

-----------------------------------------------------------------------------
(* The client.                                                             *)

CloseInput ==
    /\ ~eof
    /\ eof' = TRUE
    /\ UNCHANGED <<listening, proxy, toServer, child, fromServer, thread, got>>

StopListening ==
    /\ listening
    /\ listening' = FALSE
    /\ UNCHANGED <<eof, proxy, toServer, child, fromServer, thread, got>>

-----------------------------------------------------------------------------
(* The main loop of run().                                                 *)

Read(m) ==
    /\ main = "read"
    /\ ~eof
    /\ Len(sent) < MaxMessages
    /\ m.method = "none" => asked > 0
    /\ asked' = IF m.method = "none" THEN asked - 1 ELSE asked
    /\ sent' = Append(sent, m)
    /\ main' = Evaluated(m)
    /\ UNCHANGED <<client, toServer, child, fromServer, thread, got>>

Forward ==
    /\ main = "forward"
    /\ server = "up"
    /\ Len(toServer) < PipeSize
    /\ toServer' = Append(toServer, Outgoing(Len(sent)))
    /\ main' = "read"
    /\ UNCHANGED <<client, sent, asked, child, fromServer, thread, got>>

(* Mutants of Deny: the error has no id; the call is forwarded as well.    *)
DenyWithoutId ==
    /\ main = "deny"
    /\ listening
    /\ main' = "read"
    /\ UNCHANGED <<client, sent, asked, toServer, child, fromServer, thread, got>>
DenyAndForward ==
    /\ main = "deny"
    /\ listening
    /\ got' = [got EXCEPT ![Len(sent)] = Append(@, "error")]
    /\ main' = "forward"
    /\ UNCHANGED <<client, sent, asked, toServer, child, fromServer, thread>>

Deny ==
    /\ main = "deny"
    /\ listening
    /\ got' = [got EXCEPT ![Len(sent)] = Append(@, "error")]
    /\ main' = "read"
    /\ UNCHANGED <<client, sent, asked, toServer, child, fromServer, thread>>

(* The pipe that the loop writes to is broken.                             *)
WriteRaises ==
    /\ \/ main = "forward" /\ server = "gone"
       \/ main = "deny" /\ ~listening
    /\ main' = "unwind"
    /\ UNCHANGED <<client, sent, asked, toServer, child, fromServer, thread, got>>

EndOfInput ==
    /\ main = "read"
    /\ eof
    /\ main' = "wait"
    /\ UNCHANGED <<client, sent, asked, toServer, child, fromServer, thread, got>>

(* process.wait() returns, or the exception leaves run(): the interpreter  *)
(* ends and takes the daemon thread with it.                               *)
Exit ==
    /\ main = "unwind" \/ (main = "wait" /\ server = "gone")
    /\ main' = "exited"
    /\ pump' = IF pump \in {"read", "write"} THEN "killed" ELSE pump
    /\ frame' = NoReply
    /\ UNCHANGED <<client, sent, asked, toServer, child, fromServer, got>>

(* Mutant of StdinClosed: there is no finally.                             *)
StdinClosedOnError == main \in {"unwind", "exited"}

(* The finally block has closed the server's stdin.                        *)
StdinClosed == main \in {"wait", "unwind", "exited"}

-----------------------------------------------------------------------------
(* The server.                                                             *)

(* A message with a null id is a notification to some and a request to     *)
(* other servers.                                                          *)
Take ==
    /\ server = "up"
    /\ serving = 0
    /\ toServer # <<>>
    /\ received' = received \cup {Head(toServer)}
    /\ serving' \in {Head(toServer).n} \cup IF Head(toServer).id = "null" THEN {0} ELSE {}
    /\ toServer' = Tail(toServer)
    /\ UNCHANGED <<client, proxy, server, asksLeft, fromServer, thread, got>>

Write(reply) ==
    /\ server = "up"
    /\ main # "exited"
    /\ Len(fromServer) < PipeSize
    /\ fromServer' = Append(fromServer, reply)

Answer ==
    /\ serving # 0
    /\ Write([kind |-> "answer", n |-> serving])
    /\ serving' = 0
    /\ UNCHANGED <<client, proxy, toServer, server, received, asksLeft, thread, got>>

(* A request of the server's own, or a line that is no frame.              *)
Ask(kind) ==
    /\ asksLeft > 0
    /\ Write([kind |-> kind, n |-> 0])
    /\ asksLeft' = asksLeft - 1
    /\ UNCHANGED <<client, proxy, toServer, server, serving, received, thread, got>>

(* The server ends at the end of its input, or when nobody reads it.       *)
ServerEnds ==
    /\ server = "up"
    /\ \/ StdinClosed /\ toServer = <<>> /\ serving = 0
       \/ main = "exited"
    /\ server' = "gone"
    /\ UNCHANGED <<client, proxy, toServer, serving, received, asksLeft, fromServer, thread, got>>

ServerDies ==
    /\ server = "up"
    /\ server' = "gone"
    /\ UNCHANGED <<client, proxy, toServer, serving, received, asksLeft, fromServer, thread, got>>

-----------------------------------------------------------------------------
(* _pump_server_to_client.                                                 *)

PumpRead ==
    /\ pump = "read"
    /\ fromServer # <<>>
    /\ fromServer' = Tail(fromServer)
    /\ IF Head(fromServer).kind = "stray"
       THEN pump' = "dead" /\ UNCHANGED frame
       ELSE pump' = "write" /\ frame' = Head(fromServer)
    /\ UNCHANGED <<client, proxy, toServer, child, got>>

(* Mutant of PumpEnds: what the reader returns at the end is written.      *)
PumpEndsUnchecked ==
    /\ pump = "read"
    /\ fromServer = <<>>
    /\ server = "gone"
    /\ pump' = "write"
    /\ UNCHANGED <<client, proxy, toServer, child, fromServer, frame, got>>

PumpEnds ==
    /\ pump = "read"
    /\ fromServer = <<>>
    /\ server = "gone"
    /\ pump' = "ended"
    /\ UNCHANGED <<client, proxy, toServer, child, fromServer, frame, got>>

PumpWrite ==
    /\ pump = "write"
    /\ listening
    /\ IF frame.kind = "answer"
       THEN got' = [got EXCEPT ![frame.n] = Append(@, "result")] /\ UNCHANGED asked
       ELSE asked' = asked + 1 /\ UNCHANGED got
    /\ pump' = "read"
    /\ frame' = NoReply
    /\ UNCHANGED <<client, sent, main, toServer, child, fromServer>>

PumpRaises ==
    /\ pump = "write"
    /\ ~listening
    /\ pump' = "dead"
    /\ frame' = NoReply
    /\ UNCHANGED <<client, proxy, toServer, child, fromServer, got>>

-----------------------------------------------------------------------------
MainLoop == Forward \/ Deny \/ WriteRaises \/ EndOfInput \/ Exit
Serve    == Take \/ Answer \/ ServerEnds
PumpStep == PumpRead \/ PumpEnds \/ PumpWrite \/ PumpRaises

Next ==
    \/ CloseInput \/ StopListening
    \/ \E m \in Messages : Read(m)
    \/ MainLoop \/ Serve \/ PumpStep
    \/ \E kind \in {"ask", "stray"} : Ask(kind)
    \/ ServerDies

Spec == Init /\ [][Next]_vars

(* The threads run, the server works off its input.                        *)
FairSpec == Spec /\ WF_vars(MainLoop) /\ WF_vars(PumpStep) /\ WF_vars(Serve)

-----------------------------------------------------------------------------
(* Properties.                                                             *)

(* The registry's word on a call: the effect of the tool's entry if it has *)
(* one and its conditions hold, else the default; nothing of an unknown    *)
(* tool.                                                                   *)
Permits(m) ==
    /\ m.tool \in DOMAIN Registry
    /\ \/ m.args \in Registry[m.tool].when /\ Registry[m.tool].effect = "allow"
       \/ Default = "allow" /\ (m.args \notin Registry[m.tool].when \/ Registry[m.tool].effect = "unset")

(* Whatever of the client's calls the server has received, the registry    *)
(* permits; it carries no secret and no personal data in its values, and a *)
(* call with a secret is not among them if those are denied (evaluate,     *)
(* 69-133, and the loop around it).                                        *)
OnlyGovernedCalls ==
    \A r \in received :
        r.n \in DOMAIN sent /\
        LET m == sent[r.n]
        IN  m.method = "tools/call" =>
                /\ Permits(m)
                /\ r.args \notin {"pii", "secret"}
                /\ DenyOnSecrets => m.args # "secret"

(* Although two threads write to the client, no message is answered twice, *)
(* and one that was answered with an error never reaches the server        *)
(* (run, 117-126, and the pump, 134-139).                                  *)
AnsweredOnce ==
    \A n \in Numbers :
        /\ Len(got[n]) =< 1
        /\ got[n] = <<"error">> => \A r \in received : r.n # n

(* When the client has closed its input the proxy ends, whatever the pipes *)
(* still hold, as long as the pump thread lives: nothing else drains the   *)
(* server (run, 127-132).                                                  *)
EndsWithClient == [](pump # "dead") => (eof ~> main = "exited")

Healthy == ~eof /\ server = "up" /\ main \in {"read", "forward", "deny"} /\ pump \in {"read", "write"}

(* As long as everybody lives, every request is answered, however full the *)
(* pipes are (run, 117-126, and the pump, 134-139).                        *)
RequestsAreAnswered ==
    []Healthy => \A n \in Numbers :
        n \in DOMAIN sent /\ sent[n].hasId /\ sent[n].method # "none" ~> got[n] # <<>>

(* What the documentation promises: a message that is no tool call passes  *)
(* through, so the loop does not end on one while the server runs.         *)
OtherMessagesPass ==
    main = "unwind" /\ server = "up" => sent[Len(sent)].method = "tools/call"
=============================================================================
