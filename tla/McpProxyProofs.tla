--------------------------- MODULE McpProxyProofs ---------------------------
(***************************************************************************)
(* Proofs about McpProxy, for every registry, traffic and size of the      *)
(* pipes.                                                                  *)
(***************************************************************************)
EXTENDS McpProxy, TLAPS

-----------------------------------------------------------------------------
(* What taking from and putting into a pipe does to its elements.          *)

LEMMA TailElements ==
    ASSUME NEW S, NEW s \in Seq(S), s # <<>>
    PROVE  /\ Head(s) \in S /\ Tail(s) \in Seq(S)
           /\ Head(s) = s[1] /\ 1 \in DOMAIN s
           /\ \A i \in DOMAIN Tail(s) : i + 1 \in DOMAIN s /\ Tail(s)[i] = s[i + 1]
OBVIOUS

LEMMA AppendElements ==
    ASSUME NEW S, NEW s \in Seq(S), NEW x \in S
    PROVE  /\ Append(s, x) \in Seq(S) /\ Len(Append(s, x)) = Len(s) + 1
           /\ DOMAIN Append(s, x) = DOMAIN s \cup {Len(s) + 1}
           /\ \A i \in DOMAIN s : Append(s, x)[i] = s[i]
           /\ Append(s, x)[Len(s) + 1] = x
OBVIOUS

LEMMA EvaluatedIsAStep ==
    \A m : Evaluated(m) \in {"forward", "deny", "unwind"}
BY DEF Evaluated

LEMMA OutgoingIsARequest ==
    ASSUME TypeOK, main = "forward"
    PROVE  Outgoing(Len(sent)) \in Request
<1>1. Len(sent) \in Numbers /\ sent[Len(sent)] \in Message
    BY ProxyAssumption DEF TypeOK, Numbers
<1>2. Sanitized(sent[Len(sent)]) \in Args \cup {"redacted"}
    BY <1>1 DEF Sanitized, Message
<1> QED
    BY <1>1, <1>2 DEF Outgoing, Request

(* Type correctness (mcp_stdio.py 93-139).                                 *)
THEOREM ProxyTypeCorrect == Spec => []TypeOK
<1>1. Init => TypeOK
    <2> SUFFICES ASSUME Init
                 PROVE  TypeOK
        OBVIOUS
    <2>1. got \in [Numbers -> Seq({"error", "result"})]
        BY DEF Init
    <2>2. sent \in Seq(Messages) /\ Len(sent) = 0 /\ toServer \in Seq(Request) /\ fromServer \in Seq(Reply)
        BY DEF Init
    <2>3. asksLeft \in 0 .. MaxAsks /\ serving \in 0 .. MaxMessages /\ Len(sent) =< MaxMessages
        BY <2>2, ProxyAssumption DEF Init
    <2> QED
        BY <2>1, <2>2, <2>3 DEF Init, TypeOK
<1>2. TypeOK /\ [Next]_vars => TypeOK'
    <2> SUFFICES ASSUME TypeOK, [Next]_vars
                 PROVE  TypeOK'
        OBVIOUS
    <2> USE DEF client, proxy, child, thread
    <2>1. CASE CloseInput \/ StopListening \/ ServerEnds \/ ServerDies
        <3>1. CASE CloseInput \/ StopListening
            BY <3>1 DEF TypeOK, CloseInput, StopListening
        <3>2. CASE ServerEnds \/ ServerDies
            BY <3>2 DEF TypeOK, ServerEnds, ServerDies
        <3> QED
            BY <2>1, <3>1, <3>2
    <2>2. ASSUME NEW m \in Messages, Read(m)
          PROVE  TypeOK'
        <3>1. /\ sent' \in Seq(Messages) /\ Len(sent') = Len(sent) + 1
              /\ Len(sent') =< MaxMessages
            BY <2>2, ProxyAssumption DEF TypeOK, Read
        <3>2. asked' \in Nat
            BY <2>2 DEF TypeOK, Read
        <3>3. Len(sent') \in Numbers
            BY <3>1, ProxyAssumption DEF TypeOK, Numbers
        <3> QED
            BY <2>2, <3>1, <3>2, <3>3, EvaluatedIsAStep DEF TypeOK, Read
    <2>3. CASE Forward
        <3>1. toServer' \in Seq(Request)
            BY <2>3, OutgoingIsARequest DEF TypeOK, Forward
        <3> QED
            BY <2>3, <3>1 DEF TypeOK, Forward
    <2>4. CASE Deny
        <3>1. got' \in [Numbers -> Seq({"error", "result"})]
            BY <2>4 DEF TypeOK, Deny
        <3> QED
            BY <2>4, <3>1 DEF TypeOK, Deny
    <2>5. CASE WriteRaises \/ EndOfInput
        BY <2>5 DEF TypeOK, WriteRaises, EndOfInput
    <2>6. CASE Exit
        BY <2>6 DEF TypeOK, Exit, NoReply
    <2>7. CASE Take
        <3>1. Head(toServer) \in Request /\ toServer' \in Seq(Request)
            BY <2>7, TailElements DEF TypeOK, Take
        <3>2. serving' \in 0 .. MaxMessages
            BY <2>7, <3>1, ProxyAssumption DEF Take, Request, Numbers
        <3> QED
            BY <2>7, <3>1, <3>2 DEF TypeOK, Take
    <2>8. CASE Answer
        <3>1. [kind |-> "answer", n |-> serving] \in Reply
            BY <2>8 DEF TypeOK, Answer, Reply, Numbers
        <3>2. fromServer' \in Seq(Reply) /\ serving' \in 0 .. MaxMessages
            BY <2>8, <3>1, ProxyAssumption DEF TypeOK, Answer, Write
        <3> QED
            BY <2>8, <3>2 DEF TypeOK, Answer, Write
    <2>9. ASSUME NEW kind \in {"ask", "stray"}, Ask(kind)
          PROVE  TypeOK'
        <3>1. [kind |-> kind, n |-> 0] \in Reply
            BY DEF Reply
        <3>2. fromServer' \in Seq(Reply) /\ asksLeft' \in 0 .. MaxAsks
            BY <2>9, <3>1, ProxyAssumption DEF TypeOK, Ask, Write
        <3> QED
            BY <2>9, <3>2 DEF TypeOK, Ask, Write
    <2>10. CASE PumpRead
        <3>1. Head(fromServer) \in Reply /\ fromServer' \in Seq(Reply)
            BY <2>10, TailElements DEF TypeOK, PumpRead
        <3> QED
            BY <2>10, <3>1 DEF TypeOK, PumpRead
    <2>11. CASE PumpEnds \/ PumpRaises
        BY <2>11 DEF TypeOK, PumpEnds, PumpRaises
    <2>12. CASE PumpWrite
        <3>1. frame.kind = "answer" => frame.n \in Numbers
            BY <2>12 DEF TypeOK, PumpWrite, Reply
        <3>2. asked' \in Nat
            BY <2>12 DEF TypeOK, PumpWrite
        <3>3. CASE frame.kind = "answer"
            <4> DEFINE n == frame.n
            <4>1. n \in Numbers /\ got[n] \in Seq({"error", "result"})
                BY <3>1, <3>3 DEF TypeOK
            <4>2. Append(got[n], "result") \in Seq({"error", "result"})
                BY <4>1
            <4>3. got' = [got EXCEPT ![n] = Append(got[n], "result")]
                BY <2>12, <3>3 DEF PumpWrite
            <4>4. got' \in [Numbers -> Seq({"error", "result"})]
                BY <4>1, <4>2, <4>3 DEF TypeOK
            <4> QED
                BY <2>12, <3>2, <4>4 DEF TypeOK, PumpWrite
        <3>4. CASE frame.kind # "answer"
            BY <2>12, <3>2, <3>4 DEF TypeOK, PumpWrite
        <3> QED
            BY <3>3, <3>4
    <2>13. CASE UNCHANGED vars
        BY <2>13 DEF TypeOK, vars
    <2> QED
        BY <2>1, <2>2, <2>3, <2>4, <2>5, <2>6, <2>7, <2>8, <2>9, <2>10, <2>11, <2>12, <2>13
           DEF Next, MainLoop, Serve, PumpStep
<1> QED
    BY <1>1, <1>2, PTL DEF Spec

-----------------------------------------------------------------------------
(* Only governed calls.  What travels to the server is the sanitized form  *)
(* of a message that evaluate let through, and messages keep their number. *)

Passed(r) ==
    /\ r.n \in DOMAIN sent
    /\ Evaluated(sent[r.n]) = "forward"
    /\ r.args = Sanitized(sent[r.n])

GovernedInv ==
    /\ main \in {"forward", "deny"} => Evaluated(sent[Len(sent)]) = main
    /\ \A i \in DOMAIN toServer : Passed(toServer[i])
    /\ \A r \in received : Passed(r)

(* Reading another message changes nothing about the earlier ones.         *)
LEMMA PassedIsStable ==
    ASSUME TypeOK, NEW r, Passed(r), sent' = sent \/ \E m \in Messages : sent' = Append(sent, m)
    PROVE  Passed(r)'
<1>1. CASE sent' = sent
    BY <1>1 DEF Passed
<1>2. CASE \E m \in Messages : sent' = Append(sent, m)
    BY <1>2, AppendElements DEF Passed, TypeOK
<1> QED
    BY <1>1, <1>2

LEMMA SentOnlyGrows ==
    ASSUME [Next]_vars
    PROVE  sent' = sent \/ \E m \in Messages : sent' = Append(sent, m)
BY DEF Next, MainLoop, Serve, PumpStep, CloseInput, StopListening, Read, Forward, Deny,
       WriteRaises, EndOfInput, Exit, Take, Answer, ServerEnds, ServerDies, Ask, PumpRead,
       PumpEnds, PumpWrite, PumpRaises, vars, proxy

LEMMA GovernedInductive ==
    TypeOK /\ TypeOK' /\ GovernedInv /\ [Next]_vars => GovernedInv'
<1> SUFFICES ASSUME TypeOK, TypeOK', GovernedInv, [Next]_vars
             PROVE  GovernedInv'
    OBVIOUS
<1> USE DEF client, proxy, child, thread
<1>1. \A r : Passed(r) => Passed(r)'
    BY SentOnlyGrows, PassedIsStable
<1>2. ASSUME NEW m \in Messages, Read(m)
      PROVE  GovernedInv'
    <2>1. sent'[Len(sent')] = m
        BY <1>2, AppendElements DEF Read, TypeOK
    <2>2. main' = Evaluated(m)
        BY <1>2 DEF Read
    <2> QED
        BY <1>1, <1>2, <2>1, <2>2 DEF GovernedInv, Read
<1>3. CASE Forward
    <2>1. Outgoing(Len(sent)) \in Request
        BY <1>3, OutgoingIsARequest DEF Forward
    <2>2. Passed(Outgoing(Len(sent)))
        BY <1>3 DEF Forward, GovernedInv, Passed, Outgoing, TypeOK, Numbers
    <2>3. \A i \in DOMAIN toServer' : toServer'[i] = Outgoing(Len(sent)) \/
                                      (i \in DOMAIN toServer /\ toServer'[i] = toServer[i])
        BY <1>3, <2>1, AppendElements DEF Forward, TypeOK
    <2>4. \A i \in DOMAIN toServer' : Passed(toServer'[i])
        BY <2>2, <2>3 DEF GovernedInv
    <2>5. main' = "read" /\ received' = received /\ sent' = sent
        BY <1>3 DEF Forward
    <2> QED
        BY <1>1, <2>4, <2>5 DEF GovernedInv, Passed
<1>4. CASE Take
    <2>1. /\ Head(toServer) = toServer[1] /\ 1 \in DOMAIN toServer
          /\ \A i \in DOMAIN toServer' : i + 1 \in DOMAIN toServer /\ toServer'[i] = toServer[i + 1]
        BY <1>4, TailElements DEF Take, TypeOK
    <2>2. received' = received \cup {Head(toServer)} /\ main' = main /\ sent' = sent
        BY <1>4 DEF Take
    <2> QED
        BY <2>1, <2>2 DEF GovernedInv, Passed
<1>5. CASE Deny \/ WriteRaises \/ EndOfInput \/ Exit
    BY <1>5 DEF GovernedInv, Passed, Deny, WriteRaises, EndOfInput, Exit
<1>6. CASE CloseInput \/ StopListening \/ Answer \/ ServerEnds \/ ServerDies \/ PumpStep
    BY <1>6 DEF GovernedInv, Passed, CloseInput, StopListening, Answer, ServerEnds, ServerDies,
                PumpStep, PumpRead, PumpEnds, PumpWrite, PumpRaises
<1>7. ASSUME NEW kind \in {"ask", "stray"}, Ask(kind)
      PROVE  GovernedInv'
    BY <1>7 DEF GovernedInv, Passed, Ask
<1>8. CASE UNCHANGED vars
    BY <1>8 DEF GovernedInv, Passed, vars
<1> QED
    BY <1>2, <1>3, <1>4, <1>5, <1>6, <1>7, <1>8 DEF Next, MainLoop, Serve

LEMMA GovernedAlways == Spec => []GovernedInv
<1>1. Init => GovernedInv
    BY DEF Init, GovernedInv
<1> QED
    BY <1>1, GovernedInductive, ProxyTypeCorrect, PTL DEF Spec

(* What evaluate lets through is what the registry permits.                *)
LEMMA PassedIsGoverned ==
    ASSUME NEW m \in Message, Evaluated(m) = "forward", m.method = "tools/call"
    PROVE  /\ Permits(m)
           /\ Sanitized(m) \notin {"pii", "secret"}
           /\ DenyOnSecrets => m.args # "secret"
<1>1. Decision(m) = "allow" /\ ~(DenyOnSecrets /\ m.args = "secret")
    BY DEF Evaluated
<1>2. Permits(m)
    BY <1>1 DEF Decision, Permits
<1> QED
    BY <1>1, <1>2 DEF Sanitized

(* No call reaches the server that the registry does not permit, and none  *)
(* with what redaction or deny_on_secrets holds back (mcp_proxy.py 69-133, *)
(* mcp_stdio.py 117-126).                                                  *)
THEOREM OnlyGovernedCallsReachTheServer == Spec => []OnlyGovernedCalls
<1>1. TypeOK /\ GovernedInv => OnlyGovernedCalls
    <2> SUFFICES ASSUME TypeOK, GovernedInv, NEW r \in received, sent[r.n].method = "tools/call"
                 PROVE  /\ Permits(sent[r.n])
                        /\ r.args \notin {"pii", "secret"}
                        /\ DenyOnSecrets => sent[r.n].args # "secret"
        BY DEF OnlyGovernedCalls, GovernedInv, Passed
    <2>1. Passed(r) /\ sent[r.n] \in Message
        BY ProxyAssumption DEF GovernedInv, Passed, TypeOK
    <2> QED
        BY <2>1, PassedIsGoverned DEF Passed
<1> QED
    BY <1>1, GovernedAlways, ProxyTypeCorrect, PTL

-----------------------------------------------------------------------------
(* One answer for each message.  The numbers of the messages under way     *)
(* grow from the pump's frame over the server's output, its hands and its  *)
(* input to the loop's message, so no number is at two places.             *)

Ordered(s)     == \A i, j \in DOMAIN s : i < j /\ s[i].n # 0 /\ s[j].n # 0 => s[i].n < s[j].n
AllAbove(s, k) == \A i \in DOMAIN s : s[i].n # 0 => k < s[i].n
AllBelow(s, k) == \A i \in DOMAIN s : s[i].n < k

LEMMA TailKeepsOrder ==
    ASSUME NEW S, \A x \in S : x.n \in Nat, NEW s \in Seq(S), s # <<>>
    PROVE  /\ Ordered(s) => Ordered(Tail(s)) /\ (Head(s).n # 0 => AllAbove(Tail(s), Head(s).n))
           /\ \A k \in Nat : AllAbove(s, k) => AllAbove(Tail(s), k)
           /\ \A k \in Nat : AllBelow(s, k) => AllBelow(Tail(s), k) /\ Head(s).n < k
           /\ \A k \in Nat : AllAbove(s, k) /\ Head(s).n # 0 => k < Head(s).n
<1> USE TailElements DEF Ordered, AllAbove, AllBelow
<1>1. /\ Head(s) = s[1] /\ 1 \in DOMAIN s
      /\ \A i \in DOMAIN Tail(s) : i \in Nat \ {0} /\ i + 1 \in DOMAIN s /\ Tail(s)[i] = s[i + 1]
    OBVIOUS
<1>2. ASSUME Ordered(s) PROVE Ordered(Tail(s))
    BY <1>1, <1>2
<1>3. ASSUME Ordered(s), Head(s).n # 0 PROVE AllAbove(Tail(s), Head(s).n)
    BY <1>1, <1>3
<1>4. \A k \in Nat : AllAbove(s, k) => AllAbove(Tail(s), k)
    BY <1>1
<1>5. \A k \in Nat : AllBelow(s, k) => AllBelow(Tail(s), k) /\ Head(s).n < k
    BY <1>1
<1>6. \A k \in Nat : AllAbove(s, k) /\ Head(s).n # 0 => k < Head(s).n
    BY <1>1
<1> QED
    BY <1>2, <1>3, <1>4, <1>5, <1>6

LEMMA AppendKeepsOrder ==
    ASSUME NEW S, \A x \in S : x.n \in Nat, NEW s \in Seq(S), NEW x \in S
    PROVE  /\ Ordered(s) /\ (x.n # 0 => AllBelow(s, x.n)) => Ordered(Append(s, x))
           /\ \A k \in Nat : AllAbove(s, k) /\ (x.n # 0 => k < x.n) => AllAbove(Append(s, x), k)
           /\ \A k \in Nat : AllBelow(s, k) /\ x.n < k => AllBelow(Append(s, x), k)
<1>1. /\ Append(s, x)[Len(s) + 1] = x
      /\ \A i \in DOMAIN Append(s, x) :
            i \in Nat /\ (i = Len(s) + 1 \/ (i \in DOMAIN s /\ i < Len(s) + 1 /\ Append(s, x)[i] = s[i]))
    BY AppendElements
<1>2. ASSUME Ordered(s), x.n # 0 => AllBelow(s, x.n)
      PROVE  Ordered(Append(s, x))
    BY <1>1, <1>2 DEF Ordered, AllBelow
<1>3. \A k \in Nat : AllAbove(s, k) /\ (x.n # 0 => k < x.n) => AllAbove(Append(s, x), k)
    BY <1>1 DEF AllAbove
<1>4. \A k \in Nat : AllBelow(s, k) /\ x.n < k => AllBelow(Append(s, x), k)
    BY <1>1 DEF AllBelow
<1> QED
    BY <1>2, <1>3, <1>4

Above(k) ==
    /\ frame.n < k
    /\ AllBelow(fromServer, k)
    /\ serving < k
    /\ AllBelow(toServer, k)

OrderInv ==
    /\ Ordered(toServer)
    /\ Ordered(fromServer)
    /\ AllAbove(toServer, serving)
    /\ serving # 0 => AllBelow(fromServer, serving) /\ frame.n < serving
    /\ \A i \in DOMAIN fromServer : AllAbove(toServer, fromServer[i].n)
    /\ frame.n # 0 => AllAbove(fromServer, frame.n)
    /\ AllAbove(toServer, frame.n)
    /\ pump # "write" => frame.n = 0
    /\ Above(Len(sent) + 1)
    /\ main \in {"forward", "deny"} => Above(Len(sent))

LEMMA NumbersAreNat ==
    /\ \A r \in Request : r.n \in Nat /\ r.n # 0
    /\ \A r \in Reply : r.n \in Nat /\ (r.kind = "answer" <=> r.n # 0)
BY ProxyAssumption DEF Request, Reply, Numbers

LEMMA OrderInductive ==
    TypeOK /\ TypeOK' /\ OrderInv /\ [Next]_vars => OrderInv'
<1> SUFFICES ASSUME TypeOK, TypeOK', OrderInv, [Next]_vars
             PROVE  OrderInv'
    OBVIOUS
<1> USE DEF client, proxy, child, thread
<1>0. /\ toServer \in Seq(Request) /\ fromServer \in Seq(Reply)
      /\ frame.n \in Nat /\ serving \in Nat /\ Len(sent) \in Nat
    BY NumbersAreNat, ProxyAssumption DEF TypeOK, NoReply
<1>1. ASSUME NEW m \in Messages, Read(m)
      PROVE  OrderInv'
    <2>1. Len(sent') = Len(sent) + 1
        BY <1>1, AppendElements DEF Read, TypeOK
    <2>2. UNCHANGED <<toServer, fromServer, serving, frame, pump>>
        BY <1>1 DEF Read
    <2>3. Above(Len(sent) + 2)
        BY <1>0, NumbersAreNat DEF OrderInv, Above, AllBelow
    <2> QED
        BY <2>1, <2>2, <2>3 DEF OrderInv, Above, Ordered, AllAbove, AllBelow
<1>2. CASE Forward
    <2> DEFINE r == Outgoing(Len(sent))
    <2>1. r \in Request /\ r.n = Len(sent) /\ toServer' = Append(toServer, r) /\ main' = "read"
        BY <1>2, OutgoingIsARequest DEF Forward, Outgoing
    <2>2. UNCHANGED <<sent, fromServer, serving, frame, pump>>
        BY <1>2 DEF Forward
    <2>3. Above(Len(sent))
        BY <1>2 DEF Forward, OrderInv
    <2>4. Ordered(toServer')
        BY <1>0, <2>1, <2>3, NumbersAreNat, AppendKeepsOrder DEF OrderInv, Above
    <2>5. AllAbove(toServer', serving) /\ AllAbove(toServer', frame.n)
        BY <1>0, <2>1, <2>3, NumbersAreNat, AppendKeepsOrder DEF OrderInv, Above
    <2>6. ASSUME NEW i \in DOMAIN fromServer
          PROVE  AllAbove(toServer', fromServer[i].n)
        <3>1. fromServer[i].n \in Nat /\ fromServer[i].n < Len(sent)
            BY <1>0, <2>3, NumbersAreNat DEF Above, AllBelow
        <3> QED
            BY <1>0, <2>1, <3>1, NumbersAreNat, AppendKeepsOrder DEF OrderInv
    <2>7. AllBelow(toServer', Len(sent) + 1)
        BY <1>0, <2>1, NumbersAreNat, AppendKeepsOrder DEF OrderInv, Above
    <2> QED
        BY <2>1, <2>2, <2>4, <2>5, <2>6, <2>7 DEF OrderInv, Above
<1>3. CASE Take
    <2>1. toServer # <<>> /\ toServer' = Tail(toServer) /\ serving = 0
        BY <1>3 DEF Take
    <2>2. UNCHANGED <<sent, main, fromServer, frame, pump>>
        BY <1>3 DEF Take
    <2> DEFINE h == Head(toServer).n
    <2>3. h \in Nat /\ h # 0 /\ serving' \in {0, h}
        BY <1>0, <1>3, <2>1, NumbersAreNat, TailElements DEF Take
    <2>4. Ordered(toServer') /\ AllAbove(toServer', h)
        BY <1>0, <2>1, <2>3, NumbersAreNat, TailKeepsOrder DEF OrderInv
    <2>5. AllAbove(toServer', 0)
        BY <1>0, <2>4, <2>3, NumbersAreNat, TailElements, <2>1 DEF AllAbove
    <2>6. AllAbove(toServer', frame.n) /\ frame.n < h
        BY <1>0, <2>1, <2>3, NumbersAreNat, TailKeepsOrder DEF OrderInv
    <2>7. ASSUME NEW i \in DOMAIN fromServer
          PROVE  AllAbove(toServer', fromServer[i].n) /\ fromServer[i].n < h
        <3>1. fromServer[i].n \in Nat /\ AllAbove(toServer, fromServer[i].n)
            BY <1>0, NumbersAreNat DEF OrderInv
        <3> QED
            BY <1>0, <2>1, <2>3, <3>1, NumbersAreNat, TailKeepsOrder
    <2>8. \A k \in Nat : AllBelow(toServer, k) => AllBelow(toServer', k) /\ h < k
        BY <1>0, <2>1, NumbersAreNat, TailKeepsOrder
    <2>9. Above(Len(sent) + 1)'
        BY <1>0, <2>2, <2>3, <2>8 DEF OrderInv, Above
    <2>10. main' \in {"forward", "deny"} => Above(Len(sent))'
        BY <1>0, <2>2, <2>3, <2>8 DEF OrderInv, Above
    <2>11. AllBelow(fromServer, h)
        BY <2>7 DEF AllBelow
    <2> QED
        BY <2>2, <2>3, <2>4, <2>5, <2>6, <2>7, <2>9, <2>10, <2>11 DEF OrderInv
<1>4. CASE Answer
    <2> DEFINE a == [kind |-> "answer", n |-> serving]
    <2>1. a \in Reply /\ a.n = serving /\ fromServer' = Append(fromServer, a)
          /\ serving # 0 /\ serving' = 0
        BY <1>4 DEF Answer, Write, Reply, TypeOK, Numbers
    <2>2. UNCHANGED <<sent, main, toServer, frame, pump>>
        BY <1>4 DEF Answer, Write
    <2>3. Ordered(fromServer') /\ (frame.n # 0 => AllAbove(fromServer', frame.n))
        BY <1>0, <2>1, NumbersAreNat, AppendKeepsOrder DEF OrderInv
    <2>4. \A k \in Nat : AllBelow(fromServer, k) /\ serving < k => AllBelow(fromServer', k)
        BY <1>0, <2>1, NumbersAreNat, AppendKeepsOrder
    <2>5. \A i \in DOMAIN fromServer' : fromServer'[i] = a \/
                                      (i \in DOMAIN fromServer /\ fromServer'[i] = fromServer[i])
        BY <1>0, <2>1, AppendElements
    <2>6. \A i \in DOMAIN fromServer' : AllAbove(toServer, fromServer'[i].n)
        BY <2>1, <2>5 DEF OrderInv
    <2>7. AllAbove(toServer, 0)
        BY <1>0, NumbersAreNat DEF AllAbove
    <2>8. Above(Len(sent) + 1)' /\ (main \in {"forward", "deny"} => Above(Len(sent))')
        BY <1>0, <2>1, <2>2, <2>4 DEF OrderInv, Above
    <2> QED
        BY <2>1, <2>2, <2>3, <2>6, <2>7, <2>8 DEF OrderInv
<1>5. ASSUME NEW kind \in {"ask", "stray"}, Ask(kind)
      PROVE  OrderInv'
    <2> DEFINE a == [kind |-> kind, n |-> 0]
    <2>1. a \in Reply /\ a.n = 0 /\ fromServer' = Append(fromServer, a)
        BY <1>5 DEF Ask, Write, Reply
    <2>2. UNCHANGED <<sent, main, toServer, serving, frame, pump>>
        BY <1>5 DEF Ask, Write
    <2>3. Ordered(fromServer') /\ (frame.n # 0 => AllAbove(fromServer', frame.n))
        BY <1>0, <2>1, NumbersAreNat, AppendKeepsOrder DEF OrderInv
    <2>4. \A k \in Nat : AllBelow(fromServer, k) /\ 0 < k => AllBelow(fromServer', k)
        BY <1>0, <2>1, NumbersAreNat, AppendKeepsOrder
    <2>5. \A i \in DOMAIN fromServer' : fromServer'[i] = a \/
                                      (i \in DOMAIN fromServer /\ fromServer'[i] = fromServer[i])
        BY <1>0, <2>1, AppendElements
    <2>6. AllAbove(toServer, 0)
        BY <1>0, NumbersAreNat DEF AllAbove
    <2>7. \A i \in DOMAIN fromServer' : AllAbove(toServer, fromServer'[i].n)
        BY <2>1, <2>5, <2>6 DEF OrderInv
    <2>8. Above(Len(sent) + 1)' /\ (main \in {"forward", "deny"} => Above(Len(sent))')
        BY <1>0, <2>2, <2>4 DEF OrderInv, Above
    <2>9. serving # 0 => AllBelow(fromServer', serving)
        BY <1>0, <2>4 DEF OrderInv
    <2> QED
        BY <2>2, <2>3, <2>7, <2>8, <2>9 DEF OrderInv
<1>6. CASE PumpRead
    <2>1. fromServer # <<>> /\ fromServer' = Tail(fromServer) /\ pump = "read" /\ frame.n = 0
        BY <1>6 DEF PumpRead, OrderInv
    <2>2. UNCHANGED <<sent, main, toServer, serving>>
        BY <1>6 DEF PumpRead
    <2> DEFINE h == Head(fromServer)
    <2>3. h \in Reply /\ h.n \in Nat /\ h = fromServer[1] /\ 1 \in DOMAIN fromServer
          /\ \A i \in DOMAIN fromServer' : i + 1 \in DOMAIN fromServer /\ fromServer'[i] = fromServer[i + 1]
        BY <1>0, <2>1, TailElements, NumbersAreNat
    <2>4. \/ frame' = h /\ pump' = "write"
          \/ frame' = frame /\ pump' = "dead"
        BY <1>6 DEF PumpRead
    <2>5. Ordered(fromServer') /\ (h.n # 0 => AllAbove(fromServer', h.n))
        BY <1>0, <2>1, <2>3, NumbersAreNat, TailKeepsOrder DEF OrderInv
    <2>6. \A k \in Nat : AllBelow(fromServer, k) => AllBelow(fromServer', k) /\ h.n < k
        BY <1>0, <2>1, NumbersAreNat, TailKeepsOrder
    <2>7. /\ \A i \in DOMAIN fromServer' : AllAbove(toServer, fromServer'[i].n)
          /\ AllAbove(toServer, h.n)
        BY <2>3 DEF OrderInv
    <2>8. Above(Len(sent) + 1)' /\ (main \in {"forward", "deny"} => Above(Len(sent))')
        BY <1>0, <2>1, <2>2, <2>4, <2>6 DEF OrderInv, Above
    <2>9. serving # 0 => AllBelow(fromServer', serving) /\ h.n < serving
        BY <1>0, <2>6 DEF OrderInv
    <2> QED
        BY <2>1, <2>2, <2>4, <2>5, <2>7, <2>8, <2>9 DEF OrderInv
<1>7. CASE PumpWrite \/ PumpRaises \/ Exit
    <2>1. frame' = NoReply /\ NoReply.n = 0
        BY <1>7 DEF PumpWrite, PumpRaises, Exit, NoReply
    <2>2. UNCHANGED <<sent, toServer, fromServer, serving>>
        BY <1>7 DEF PumpWrite, PumpRaises, Exit
    <2>3. main' = main \/ main' = "exited"
        BY <1>7 DEF PumpWrite, PumpRaises, Exit
    <2>4. AllAbove(toServer, 0)
        BY <1>0, NumbersAreNat DEF AllAbove
    <2>5. Above(Len(sent) + 1)' /\ (main' \in {"forward", "deny"} => Above(Len(sent))')
        BY <1>0, <2>1, <2>2, <2>3 DEF OrderInv, Above, TypeOK, Numbers
    <2>6. serving # 0 => frame'.n < serving
        BY <1>0, <2>1
    <2> QED
        BY <2>1, <2>2, <2>4, <2>5, <2>6 DEF OrderInv
<1>8. CASE Deny \/ WriteRaises \/ EndOfInput
    <2>1. UNCHANGED <<sent, toServer, fromServer, serving, frame, pump>> /\ main' \notin {"forward", "deny"}
        BY <1>8 DEF Deny, WriteRaises, EndOfInput
    <2> QED
        BY <2>1 DEF OrderInv, Above
<1>9. CASE CloseInput \/ StopListening \/ ServerEnds \/ ServerDies \/ PumpEnds \/ UNCHANGED vars
    <2>1. UNCHANGED <<sent, toServer, fromServer, serving, frame, main>> /\ (pump' = pump \/ (pump = "read" /\ pump' = "ended"))
        BY <1>9 DEF CloseInput, StopListening, ServerEnds, ServerDies, PumpEnds, vars
    <2> QED
        BY <2>1 DEF OrderInv, Above
<1> QED
    BY <1>1, <1>2, <1>3, <1>4, <1>5, <1>6, <1>7, <1>8, <1>9 DEF Next, MainLoop, Serve, PumpStep

(* The messages that may still be answered: those under way, and those the *)
(* client has not sent yet.                                                *)
Outstanding ==
    {serving, frame.n}
    \cup {toServer[i].n : i \in DOMAIN toServer}
    \cup {fromServer[i].n : i \in DOMAIN fromServer}
    \cup {n \in Numbers : n > Len(sent) \/ (n = Len(sent) /\ main \in {"forward", "deny"})}

Denied(n) == n \in DOMAIN sent /\ Evaluated(sent[n]) = "deny"

AnswerInv ==
    /\ \A n \in Outstanding \ {0} : got[n] = <<>>
    /\ \A n \in Numbers : Len(got[n]) =< 1 /\ (got[n] = <<"error">> => Denied(n))

LEMMA OutstandingShrinks ==
    ASSUME TypeOK, TypeOK', [Next]_vars
    PROVE  Outstanding' \subseteq Outstanding \cup {0}
<1> USE DEF client, proxy, child, thread
<1>0. toServer \in Seq(Request) /\ fromServer \in Seq(Reply) /\ Len(sent) \in Nat
    BY DEF TypeOK
<1>1. ASSUME NEW m \in Messages, Read(m)
      PROVE  Outstanding' \subseteq Outstanding
    <2>1. Len(sent') = Len(sent) + 1 /\ UNCHANGED <<toServer, fromServer, serving, frame>>
        BY <1>1, AppendElements DEF Read, TypeOK
    <2> QED
        BY <1>0, <2>1 DEF Outstanding, Numbers
<1>2. CASE Forward
    <2>1. /\ UNCHANGED <<sent, fromServer, serving, frame>> /\ main = "forward" /\ main' = "read"
          /\ Outgoing(Len(sent)).n = Len(sent)
        BY <1>2 DEF Forward, Outgoing
    <2>2. \A i \in DOMAIN toServer' : toServer'[i] = Outgoing(Len(sent)) \/
                                      (i \in DOMAIN toServer /\ toServer'[i] = toServer[i])
        BY <1>2, OutgoingIsARequest, AppendElements DEF Forward, TypeOK
    <2>3. Len(sent) \in Numbers
        BY <2>1 DEF TypeOK
    <2> QED
        BY <1>0, <2>1, <2>2, <2>3 DEF Outstanding
<1>3. CASE Take
    <2>1. UNCHANGED <<sent, main, fromServer, frame>>
        BY <1>3 DEF Take
    <2>2. /\ serving' \in {0, toServer[1].n} /\ 1 \in DOMAIN toServer
          /\ \A i \in DOMAIN toServer' : i + 1 \in DOMAIN toServer /\ toServer'[i] = toServer[i + 1]
        BY <1>3, <1>0, TailElements DEF Take
    <2> QED
        BY <2>1, <2>2 DEF Outstanding
<1>4. ASSUME NEW reply \in Reply, fromServer' = Append(fromServer, reply),
             UNCHANGED <<sent, main, toServer, frame>>,
             reply.n \in {0, serving}, serving' \in {0, serving}
      PROVE  Outstanding' \subseteq Outstanding \cup {0}
    <2>1. \A i \in DOMAIN fromServer' : fromServer'[i] = reply \/
                                      (i \in DOMAIN fromServer /\ fromServer'[i] = fromServer[i])
        BY <1>0, <1>4, AppendElements
    <2> QED
        BY <1>4, <2>1 DEF Outstanding
<1>5. CASE Answer
    <2>1. [kind |-> "answer", n |-> serving] \in Reply
        BY <1>5 DEF Answer, Reply, TypeOK, Numbers
    <2> QED
        BY <1>4, <1>5, <2>1 DEF Answer, Write
<1>6. ASSUME NEW kind \in {"ask", "stray"}, Ask(kind)
      PROVE  Outstanding' \subseteq Outstanding \cup {0}
    <2>1. [kind |-> kind, n |-> 0] \in Reply
        BY DEF Reply
    <2> QED
        BY <1>4, <1>6, <2>1 DEF Ask, Write
<1>7. CASE PumpRead
    <2>1. UNCHANGED <<sent, main, toServer, serving>>
        BY <1>7 DEF PumpRead
    <2>2. /\ frame'.n \in {frame.n, fromServer[1].n} /\ 1 \in DOMAIN fromServer
          /\ \A i \in DOMAIN fromServer' : i + 1 \in DOMAIN fromServer /\ fromServer'[i] = fromServer[i + 1]
        BY <1>7, <1>0, TailElements DEF PumpRead
    <2> QED
        BY <2>1, <2>2 DEF Outstanding
<1>8. CASE PumpWrite \/ PumpRaises \/ Exit
    <2>1. UNCHANGED <<sent, toServer, fromServer, serving>> /\ frame'.n = 0 /\ main' \in {main, "exited"}
        BY <1>8 DEF PumpWrite, PumpRaises, Exit, NoReply
    <2> QED
        BY <2>1 DEF Outstanding
<1>9. CASE Deny \/ WriteRaises \/ EndOfInput
    <2>1. UNCHANGED <<sent, toServer, fromServer, serving, frame>> /\ main' \notin {"forward", "deny"}
        BY <1>9 DEF Deny, WriteRaises, EndOfInput
    <2> QED
        BY <2>1 DEF Outstanding
<1>10. CASE CloseInput \/ StopListening \/ ServerEnds \/ ServerDies \/ PumpEnds \/ UNCHANGED vars
    <2>1. UNCHANGED <<sent, main, toServer, fromServer, serving, frame>>
        BY <1>10 DEF CloseInput, StopListening, ServerEnds, ServerDies, PumpEnds, vars
    <2> QED
        BY <2>1 DEF Outstanding
<1> QED
    BY <1>1, <1>2, <1>3, <1>5, <1>6, <1>7, <1>8, <1>9, <1>10 DEF Next, MainLoop, Serve, PumpStep

(* Whoever answers a message leaves no trace of it.                        *)
LEMMA AnsweringSettles ==
    ASSUME TypeOK, OrderInv
    PROVE  /\ Deny => Len(sent) \notin Outstanding'
           /\ PumpWrite /\ frame.n # 0 => frame.n \notin Outstanding'
<1>0. /\ Len(sent) \in Nat /\ frame.n \in Nat /\ serving \in Nat
      /\ \A i \in DOMAIN toServer : toServer[i].n \in Nat /\ toServer[i].n # 0
      /\ \A i \in DOMAIN fromServer : fromServer[i].n \in Nat
    BY NumbersAreNat, ProxyAssumption DEF TypeOK, NoReply
<1>1. ASSUME Deny
      PROVE  Len(sent) \notin Outstanding'
    <2>1. /\ UNCHANGED <<sent, toServer, fromServer, serving, frame>> /\ main' = "read"
          /\ Above(Len(sent))
        BY <1>1 DEF Deny, OrderInv, proxy, child, thread
    <2> QED
        BY <1>0, <2>1 DEF Outstanding, Above, AllBelow, Numbers
<1>2. ASSUME PumpWrite, frame.n # 0
      PROVE  frame.n \notin Outstanding'
    <2>1. /\ UNCHANGED <<sent, main, toServer, fromServer, serving>> /\ frame'.n = 0
        BY <1>2 DEF PumpWrite, child, client, NoReply
    <2>2. /\ \A i \in DOMAIN toServer : frame.n < toServer[i].n
          /\ \A i \in DOMAIN fromServer : fromServer[i].n # 0 => frame.n < fromServer[i].n
          /\ serving # 0 => frame.n < serving
        BY <1>0, <1>2 DEF OrderInv, AllAbove
    <2>3. /\ frame.n < Len(sent) + 1
          /\ main \in {"forward", "deny"} => frame.n < Len(sent)
        BY DEF OrderInv, Above
    <2> QED
        BY <1>0, <1>2, <2>1, <2>2, <2>3 DEF Outstanding, Numbers
<1> QED
    BY <1>1, <1>2

LEMMA AnswersInductive ==
    TypeOK /\ TypeOK' /\ OrderInv /\ GovernedInv /\ AnswerInv /\ [Next]_vars => AnswerInv'
<1> SUFFICES ASSUME TypeOK, TypeOK', OrderInv, GovernedInv, AnswerInv, [Next]_vars
             PROVE  AnswerInv'
    OBVIOUS
<1>1. ASSUME NEW n, Denied(n)
      PROVE  Denied(n)'
    <2>1. CASE sent' = sent
        BY <1>1, <2>1 DEF Denied
    <2>2. CASE \E m \in Messages : sent' = Append(sent, m)
        BY <1>1, <2>2, AppendElements DEF Denied, TypeOK
    <2> QED
        BY <2>1, <2>2, SentOnlyGrows
<1>2. ASSUME UNCHANGED got
      PROVE  AnswerInv'
    BY <1>1, <1>2, OutstandingShrinks DEF AnswerInv
<1>3. ASSUME NEW n \in Numbers \cap Outstanding, n \notin Outstanding', NEW a \in {"error", "result"},
             got' = [got EXCEPT ![n] = Append(@, a)], a = "error" => Denied(n)
      PROVE  AnswerInv'
    <2>1. n # 0 /\ got[n] = <<>>
        BY <1>3 DEF AnswerInv, Numbers
    <2>2. got'[n] = <<a>> /\ \A k \in Numbers \ {n} : got'[k] = got[k]
        BY <1>3, <2>1 DEF TypeOK
    <2>3. \A k \in Outstanding' \ {0} : got'[k] = <<>>
        <3> SUFFICES ASSUME NEW k \in Outstanding' \ {0}
                     PROVE  got'[k] = <<>>
            OBVIOUS
        <3>1. k \in Outstanding \ {0} /\ k # n
            BY <1>3, OutstandingShrinks
        <3>2. k \in Numbers
            <4>1. /\ \A i \in DOMAIN toServer : toServer[i].n \in Numbers
                  /\ \A i \in DOMAIN fromServer : fromServer[i].n \in Numbers \cup {0}
                <5>1. (\A r \in Request : r.n \in Numbers) /\ (\A r \in Reply : r.n \in Numbers \cup {0})
                    BY DEF Request, Reply
                <5>2. toServer \in Seq(Request) /\ fromServer \in Seq(Reply)
                    BY DEF TypeOK
                <5> QED
                    BY <5>1, <5>2
            <4>2. serving \in Numbers \cup {0} /\ frame.n \in Numbers \cup {0}
                BY ProxyAssumption DEF TypeOK, Reply, NoReply, Numbers
            <4> QED
                BY <3>1, <4>1, <4>2 DEF Outstanding
        <3> QED
            BY <3>1, <3>2, <2>2 DEF AnswerInv
    <2>4. Len(got'[n]) =< 1 /\ (got'[n] = <<"error">> => Denied(n)')
        <3>1. Len(<<a>>) = 1 /\ (<<a>> = <<"error">> => a = "error")
            OBVIOUS
        <3>2. a = "error" => Denied(n)'
            BY <1>1, <1>3
        <3> QED
            BY <2>2, <3>1, <3>2
    <2>5. \A k \in Numbers \ {n} : Len(got'[k]) =< 1 /\ (got'[k] = <<"error">> => Denied(k)')
        BY <1>1, <2>2 DEF AnswerInv
    <2> QED
        BY <2>3, <2>4, <2>5 DEF AnswerInv
<1>4. CASE Deny
    <2>1. Len(sent) \in Numbers \cap Outstanding
        BY <1>4 DEF Deny, TypeOK, Outstanding
    <2>2. Denied(Len(sent))
        BY <1>4, <2>1 DEF Deny, GovernedInv, Denied, TypeOK, Numbers
    <2> QED
        BY <1>3, <1>4, <2>1, <2>2, AnsweringSettles DEF Deny
<1>5. CASE PumpWrite
    <2>1. CASE frame.kind = "answer"
        <3>1. frame.n \in Numbers \cap Outstanding /\ frame.n # 0
            BY <1>5, <2>1, NumbersAreNat DEF PumpWrite, TypeOK, Reply, Outstanding
        <3> QED
            BY <1>3, <1>5, <2>1, <3>1, AnsweringSettles DEF PumpWrite
    <2>2. CASE frame.kind # "answer"
        BY <1>2, <1>5, <2>2 DEF PumpWrite
    <2> QED
        BY <2>1, <2>2
<1>6. ASSUME ~Deny, ~PumpWrite
      PROVE  UNCHANGED got
    BY <1>6 DEF Next, MainLoop, Serve, PumpStep, CloseInput, StopListening, Read, Forward,
                WriteRaises, EndOfInput, Exit, Take, Answer, ServerEnds, ServerDies, Ask, PumpRead,
                PumpEnds, PumpRaises, vars
<1> QED
    BY <1>2, <1>4, <1>5, <1>6

(* No message is answered twice, although the loop and the pump both write *)
(* to the client, and none that the loop has answered with an error        *)
(* reaches the server (mcp_stdio.py 117-139).                              *)
THEOREM MessagesAreAnsweredOnce == Spec => []AnsweredOnce
<1>1. Init => OrderInv /\ AnswerInv
    <2> SUFFICES ASSUME Init
                 PROVE  OrderInv /\ AnswerInv
        OBVIOUS
    <2>1. OrderInv
        BY DEF Init, OrderInv, Ordered, AllAbove, AllBelow, Above, NoReply
    <2>2. \A n \in Numbers : got[n] = <<>>
        BY DEF Init
    <2>3. Outstanding \subseteq Numbers \cup {0}
        BY DEF Init, Outstanding, NoReply
    <2> QED
        BY <2>1, <2>2, <2>3 DEF AnswerInv
<1>2. TypeOK /\ GovernedInv /\ AnswerInv => AnsweredOnce
    BY DEF GovernedInv, Passed, AnswerInv, Denied, AnsweredOnce
<1> QED
    BY <1>1, <1>2, OrderInductive, AnswersInductive, GovernedAlways, ProxyTypeCorrect, PTL DEF Spec
=============================================================================
