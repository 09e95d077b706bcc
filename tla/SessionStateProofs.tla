------------------------- MODULE SessionStateProofs -------------------------
(***************************************************************************)
(* Theorems about SessionState, for every set of workers and actions, both *)
(* stores, every limit and every number of calls.                          *)
(***************************************************************************)
EXTENDS SessionState, FiniteSetTheorems, TLAPS

USE SessionAssumption, NoneAssumption

(* What a call adds is a number, and a tool call names one of the actions. *)
LEMMA OpFields ==
    ASSUME NEW o \in Ops
    PROVE  /\ o.count \in Nat
           /\ o.action # None => /\ o.action \in Actions
                                /\ o.touches = {"tools", o.action}
                                /\ o.count = 1
           /\ o.action = None => o.touches \in {{"findings"}, {"output"}}
BY DEF Ops, ToolCall, Message

(* Counting an operation in a tally gives a tally.                         *)
LEMMA CountedIsState ==
    ASSUME NEW s \in State, NEW o \in Ops
    PROVE  Counted(s, o) \in State
BY OpFields DEF Counted, State

(* So does setting one counter.                                            *)
LEMMA SetIsState ==
    ASSUME NEW s \in State, NEW c \in Counters, NEW n \in Nat
    PROVE  [s EXCEPT ![c] = n] \in State
BY DEF State

(* Counting only adds, and adds the same to both sides of a comparison.    *)
LEMMA CountedGrows ==
    ASSUME NEW s \in State, NEW o \in Ops
    PROVE  AtMost(s, Counted(s, o))
BY OpFields DEF AtMost, Counted, State

LEMMA CountedMonotone ==
    ASSUME NEW s \in State, NEW t \in State, NEW o \in Ops, AtMost(s, t)
    PROVE  AtMost(Counted(s, o), Counted(t, o))
BY OpFields DEF AtMost, Counted, State

LEMMA AtMostTransitive ==
    ASSUME NEW r \in State, NEW s \in State, NEW t \in State,
           AtMost(r, s), AtMost(s, t)
    PROVE  AtMost(r, t)
BY DEF AtMost, State

(* No step changes the store that the deployment has.                      *)
LEMMA StoreIsFixed == [Next]_vars => backend' = backend
BY Zenon DEF Next, vars, CrashMemory, Begin, GetState, MakeState, PutBlank, CountTool,
    CountAction, AddFindings, PutState, Signal, CrashWorker

LEMMA BlankIsLeast ==
    /\ Blank \in State
    /\ \A s \in State : AtMost(Blank, s)
BY DEF Blank, State, AtMost

(* Type correctness (all of SessionStateMonitor).                          *)
THEOREM SessionTypeCorrect == Spec => []TypeOK
<1>1. Init => TypeOK
    <2>1. Blank \in State
        BY DEF Blank, State
    <2>2. Init => /\ heap \in [Workers -> State]
                  /\ observed \in State
                  /\ admitted \in State
        BY <2>1 DEF Init
    <2>3. Init => /\ \A w \in Workers : pc[w] = "idle"
                  /\ pc \in [Workers -> {"idle", "get", "blank", "update", "action", "put", "signal"}]
        BY DEF Init
    <2>4. Init => /\ op \in [Workers -> Ops \cup {None}]
                  /\ ref \in [Workers -> Workers]
                  /\ tally \in [Workers -> Nat]
        BY DEF Init
    <2>6. Init => backend \in Backends
        BY DEF Init
    <2>5. Init => /\ calls \in 0 .. MaxCalls
                  /\ stored = None
                  /\ overlapped \in BOOLEAN
        <3>1. 0 \in 0 .. MaxCalls
            OBVIOUS
        <3> QED
            BY <3>1, Zenon DEF Init
    <2> QED
        BY <2>2, <2>3, <2>4, <2>5, <2>6 DEF TypeOK
<1>2. TypeOK /\ [Next]_vars => TypeOK'
    <2> SUFFICES ASSUME TypeOK, [Next]_vars
                 PROVE  TypeOK'
        OBVIOUS
    <2>0. backend' = backend
        BY StoreIsFixed
    <2> USE <2>0
    <2> USE DEF TypeOK, Goto
    <2>1. CASE CrashMemory
        BY <2>1 DEF CrashMemory, State, Blank
    <2>2. ASSUME NEW w \in Workers
          PROVE  /\ \A o \in Ops : Begin(w, o) => TypeOK'
                 /\ GetState(w) => TypeOK'
                 /\ MakeState(w) => TypeOK'
                 /\ PutBlank(w) \/ PutState(w) => TypeOK'
                 /\ CountTool(w) => TypeOK'
                 /\ CountAction(w) => TypeOK'
                 /\ AddFindings(w) => TypeOK'
                 /\ Signal(w) => TypeOK'
                 /\ CrashWorker(w) => TypeOK'
        <3>1. \A o \in Ops : Begin(w, o) => TypeOK'
            BY DEF Begin
        <3>2. GetState(w) => TypeOK'
            BY DEF GetState
        <3>3. MakeState(w) => TypeOK'
            BY DEF MakeState, State, Blank
        <3>4. PutBlank(w) \/ PutState(w) => TypeOK'
            BY DEF PutBlank, PutState, StorePut
        <3>5. CountTool(w) => TypeOK'
            <4> SUFFICES ASSUME CountTool(w)
                         PROVE  TypeOK'
                OBVIOUS
            <4> DEFINE r == ref[w]
            <4>1. /\ op[w] \in Ops
                  /\ op[w].action \in Counters
                  /\ heap[r] \in State
                BY OpFields DEF CountTool, Counters
            <4>2. /\ heap[r]["tools"] \in Nat
                  /\ heap[r][op[w].action] \in Nat
                BY <4>1 DEF State, Counters, Totals
            <4>3. [heap[r] EXCEPT !["tools"] = heap[r]["tools"] + 1] \in State
                BY <4>1, <4>2, SetIsState DEF Counters, Totals
            <4>4. heap' \in [Workers -> State]
                BY <4>3 DEF CountTool
            <4>5. Counted(observed, op[w]) \in State
                BY <4>1, CountedIsState
            <4> QED
                BY <4>1, <4>2, <4>4, <4>5 DEF CountTool
        <3>6. CountAction(w) => TypeOK'
            <4> SUFFICES ASSUME CountAction(w)
                         PROVE  TypeOK'
                OBVIOUS
            <4> DEFINE r == ref[w]
            <4>1. op[w].action \in Counters /\ heap[r] \in State
                BY OpFields DEF CountAction, Counters
            <4>2. [heap[r] EXCEPT ![op[w].action] = tally[w] + 1] \in State
                <5>1. tally[w] + 1 \in Nat
                    OBVIOUS
                <5> QED
                    BY <5>1, <4>1, SetIsState
            <4>3. heap' \in [Workers -> State]
                <5>1. heap' = [heap EXCEPT ![r] = [heap[r] EXCEPT ![op[w].action] = tally[w] + 1]]
                    BY DEF CountAction
                <5> QED
                    BY <5>1, <4>2
            <4>4. tally' \in [Workers -> Nat]
                BY DEF CountAction
            <4>5. /\ pc' = [pc EXCEPT ![w] = "put"]
                  /\ op' = op
                BY DEF CountAction
            <4> QED
                BY <4>3, <4>4, <4>5 DEF CountAction
        <3>7. AddFindings(w) => TypeOK'
            BY CountedIsState DEF AddFindings
        <3>8. Signal(w) => TypeOK'
            BY CountedIsState DEF Signal
        <3>9. CrashWorker(w) => TypeOK'
            BY DEF CrashWorker
        <3> QED
            BY <3>1, <3>2, <3>3, <3>4, <3>5, <3>6, <3>7, <3>8, <3>9
    <2>3. CASE UNCHANGED vars
        BY <2>3 DEF vars
    <2> QED
        BY <2>1, <2>2, <2>3 DEF Next
<1> QED
    BY <1>1, <1>2, PTL DEF Spec

-----------------------------------------------------------------------------
(* No counter of any object or row exceeds what was observed.  The local   *)
(* tally of a tool call is one of the values that a counter may get.       *)
CountInv ==
    /\ \A w \in Workers : AtMost(heap[w], observed)
    /\ backend = "sqlite" /\ stored # None => AtMost(stored, observed)
    /\ \A w \in Workers : pc[w] = "action" => tally[w] + 1 =< observed[op[w].action]

LEMMA CountInductive == Spec => []CountInv
<1>1. Init => CountInv
    BY BlankIsLeast DEF Init, CountInv
<1>2. TypeOK /\ TypeOK' /\ CountInv /\ [Next]_vars => CountInv'
    <2> SUFFICES ASSUME TypeOK, TypeOK', CountInv, [Next]_vars
                 PROVE  CountInv'
        OBVIOUS
    <2>0. backend' = backend
        BY StoreIsFixed
    <2> USE <2>0
    <2>1. CASE CrashMemory
        BY <2>1, BlankIsLeast DEF CrashMemory, CountInv, TypeOK
    <2>2. ASSUME NEW w \in Workers, NEW o \in Ops, Begin(w, o)
          PROVE  CountInv'
        BY <2>2 DEF Begin, Goto, CountInv, TypeOK
    <2>3. ASSUME NEW w \in Workers, GetState(w)
          PROVE  CountInv'
        BY <2>3 DEF GetState, Goto, CountInv, TypeOK
    <2>4. ASSUME NEW w \in Workers, MakeState(w)
          PROVE  CountInv'
        BY <2>4, BlankIsLeast DEF MakeState, Goto, CountInv, TypeOK
    <2>5. ASSUME NEW w \in Workers, PutBlank(w) \/ PutState(w)
          PROVE  CountInv'
        BY <2>5 DEF PutBlank, PutState, StorePut, Goto, CountInv, TypeOK
    <2>6. ASSUME NEW w \in Workers, CountTool(w)
          PROVE  CountInv'
        <3> DEFINE r == ref[w]  a == op[w].action
        <3>1. /\ op[w] \in Ops
              /\ a \in Actions
              /\ op[w].touches = {"tools", a}
              /\ op[w].count = 1
            BY <2>6, OpFields DEF CountTool, TypeOK
        <3>2. AtMost(observed, observed')
            BY <2>6, <3>1, CountedGrows DEF CountTool, TypeOK
        <3>3. /\ observed'["tools"] = observed["tools"] + 1
              /\ observed'[a] = observed[a] + 1
            BY <2>6, <3>1 DEF CountTool, Counted, Counters, Totals
        <3>4. heap'[r] = [heap[r] EXCEPT !["tools"] = heap[r]["tools"] + 1]
            BY <2>6 DEF CountTool, TypeOK
        <3>5. AtMost(heap[r], observed) /\ heap[r] \in State /\ observed \in State
            BY DEF CountInv, TypeOK
        <3>6. AtMost(heap'[r], observed')
            BY <3>2, <3>3, <3>4, <3>5 DEF AtMost, State, Counters, Totals, TypeOK
        <3>7. \A v \in Workers : AtMost(heap'[v], observed')
            <4> SUFFICES ASSUME NEW v \in Workers, v # r
                         PROVE  AtMost(heap'[v], observed')
                BY <3>6
            <4> QED
                BY <2>6, <3>2, AtMostTransitive DEF CountTool, CountInv, TypeOK
        <3>8. backend = "sqlite" /\ stored' # None => AtMost(stored', observed')
            BY <2>6, <3>2, AtMostTransitive DEF CountTool, CountInv, TypeOK
        <3>9. ASSUME NEW v \in Workers, pc'[v] = "action"
              PROVE  tally'[v] + 1 =< observed'[op'[v].action]
            <4>1. CASE v = w
                <5>1. tally'[w] = heap[r][a] /\ op' = op
                    BY <2>6 DEF CountTool, TypeOK
                <5>2. heap[r][a] =< observed[a] /\ heap[r][a] \in Nat /\ observed[a] \in Nat
                    BY <3>1, <3>5 DEF AtMost, State, Counters
                <5> QED
                    BY <4>1, <5>1, <5>2, <3>3
            <4>2. CASE v # w
                <5>1. /\ pc[v] = "action" /\ op' = op /\ tally'[v] = tally[v]
                      /\ tally[v] + 1 =< observed[op[v].action]
                    BY <2>6, <3>9, <4>2 DEF CountTool, Goto, CountInv, TypeOK
                <5>2. op[v].action \in Counters
                    BY <5>1, OpFields DEF Counters, TypeOK
                <5>3. /\ observed[op[v].action] =< observed'[op[v].action]
                      /\ observed[op[v].action] \in Nat
                      /\ observed'[op[v].action] \in Nat
                    BY <5>2, <3>2 DEF AtMost, State, TypeOK
                <5> QED
                    BY <5>1, <5>3 DEF TypeOK
            <4> QED
                BY <4>1, <4>2
        <3> QED
            BY <3>7, <3>8, <3>9 DEF CountInv
    <2>7. ASSUME NEW w \in Workers, CountAction(w)
          PROVE  CountInv'
        <3> DEFINE r == ref[w]  a == op[w].action
        <3>1. /\ a \in Counters
              /\ heap'[r] = [heap[r] EXCEPT ![a] = tally[w] + 1]
              /\ tally[w] + 1 =< observed[a]
              /\ heap[r] \in State
            BY <2>7, OpFields DEF CountAction, CountInv, Counters, TypeOK
        <3>2. AtMost(heap'[r], observed)
            BY <3>1 DEF AtMost, State, CountInv, TypeOK
        <3>3. \A v \in Workers : AtMost(heap'[v], observed)
            BY <3>2, <2>7 DEF CountAction, CountInv, TypeOK
        <3>4. /\ observed' = observed /\ stored' = stored /\ op' = op
              /\ \A v \in Workers : pc'[v] = "action" => v # w /\ pc[v] = "action"
              /\ \A v \in Workers : v # w => tally'[v] = tally[v]
            BY <2>7 DEF CountAction, Goto, TypeOK
        <3> QED
            BY <3>3, <3>4 DEF CountInv
    <2>8. ASSUME NEW w \in Workers, AddFindings(w)
          PROVE  CountInv'
        <3> DEFINE r == ref[w]
        <3>1. op[w] \in Ops /\ observed' = Counted(observed, op[w])
            BY <2>8 DEF AddFindings, TypeOK
        <3>2. AtMost(observed, observed')
            BY <3>1, CountedGrows DEF TypeOK
        <3>3. heap' = [heap EXCEPT ![r] = Counted(heap[r], op[w])]
            BY <2>8 DEF AddFindings
        <3>4. \A v \in Workers : AtMost(heap'[v], observed')
            <4>1. AtMost(heap'[r], observed')
                BY <3>1, <3>3, CountedMonotone DEF CountInv, TypeOK
            <4>2. ASSUME NEW v \in Workers, v # r
                  PROVE  AtMost(heap'[v], observed')
                BY <3>2, <3>3, <4>2, AtMostTransitive DEF CountInv, TypeOK
            <4> QED
                BY <4>1, <4>2
        <3>5. backend = "sqlite" /\ stored' # None => AtMost(stored', observed')
            BY <2>8, <3>2, AtMostTransitive DEF AddFindings, CountInv, TypeOK
        <3>6. ASSUME NEW v \in Workers, pc'[v] = "action"
              PROVE  tally'[v] + 1 =< observed'[op'[v].action]
            <4>1. /\ pc[v] = "action" /\ op' = op /\ tally' = tally
                  /\ tally[v] + 1 =< observed[op[v].action]
                BY <2>8, <3>6 DEF AddFindings, Goto, CountInv, TypeOK
            <4>2. op[v].action \in Counters
                BY <4>1, OpFields DEF Counters, TypeOK
            <4>3. /\ observed[op[v].action] =< observed'[op[v].action]
                  /\ observed[op[v].action] \in Nat
                  /\ observed'[op[v].action] \in Nat
                BY <4>2, <3>2 DEF AtMost, State, TypeOK
            <4> QED
                BY <4>1, <4>3 DEF TypeOK
        <3> QED
            BY <3>4, <3>5, <3>6 DEF CountInv
    <2>9. ASSUME NEW w \in Workers, Signal(w) \/ CrashWorker(w)
          PROVE  CountInv'
        BY <2>9 DEF Signal, CrashWorker, Goto, CountInv, TypeOK
    <2>10. CASE UNCHANGED vars
        BY <2>10 DEF vars, CountInv
    <2> QED
        BY <2>1, <2>2, <2>3, <2>4, <2>5, <2>6, <2>7, <2>8, <2>9, <2>10 DEF Next
<1> QED
    BY <1>1, <1>2, SessionTypeCorrect, PTL DEF Spec

(* NeverOvercounts: whatever updates races and crashes lose, a session is  *)
(* never denied for activity it did not have (observe_*, 162-204).         *)
THEOREM CountersNeverExceedActivity == Spec => []NeverOvercounts
<1>1. TypeOK /\ CountInv => NeverOvercounts
    BY DEF TypeOK, CountInv, NeverOvercounts
<1> QED
    BY <1>1, SessionTypeCorrect, CountInductive, PTL

-----------------------------------------------------------------------------
(* The state that the next call will find.                                 *)
Content == IF backend = "memory" THEN heap[stored] ELSE stored

(* What a call that meets no other one knows at each of its steps: its     *)
(* object holds everything admitted so far, and from "put" on its own      *)
(* activity too.                                                           *)
Progress(w) ==
    /\ pc[w] = "blank" => stored = None
    /\ pc[w] \in {"update", "action", "put", "signal"} =>
           /\ stored # None
           /\ backend = "memory" => ref[w] = stored
           /\ AtMost(admitted, heap[ref[w]])
    /\ pc[w] = "action" =>
           /\ admitted["tools"] + 1 =< heap[ref[w]]["tools"]
           /\ admitted[op[w].action] =< tally[w]
    /\ pc[w] \in {"put", "signal"} => AtMost(Counted(admitted, op[w]), heap[ref[w]])
    /\ pc[w] = "signal" /\ backend = "sqlite" => stored = heap[ref[w]]

SequentialInv ==
    ~overlapped =>
        /\ \A v, w \in Workers : pc[v] # "idle" /\ pc[w] # "idle" => v = w
        /\ \A c \in Counters : admitted[c] =< Limit(c)
        /\ stored = None => admitted = Blank
        /\ stored # None => AtMost(admitted, Content)
        /\ \A w \in Workers : Progress(w)

LEMMA LimitIsNat == \A c \in Counters : Limit(c) \in Nat
BY DEF Limit

LEMMA SequentialInductive == Spec => []SequentialInv
<1>1. Init => SequentialInv
    BY BlankIsLeast, LimitIsNat DEF Init, SequentialInv, Progress, Blank
<1>2. TypeOK /\ TypeOK' /\ SequentialInv /\ [Next]_vars => SequentialInv'
    <2> SUFFICES ASSUME TypeOK, TypeOK', SequentialInv, [Next]_vars, ~overlapped'
                 PROVE  SequentialInv'
        BY DEF SequentialInv
    <2>0. backend' = backend
        BY StoreIsFixed
    <2> USE <2>0
    <2>1. CASE CrashMemory
        BY <2>1, BlankIsLeast, LimitIsNat
        DEF CrashMemory, SequentialInv, Progress, Blank, TypeOK
    <2>2. ASSUME NEW w \in Workers, NEW o \in Ops, Begin(w, o)
          PROVE  SequentialInv'
        <3>1. ~overlapped /\ \A v \in Workers : pc[v] = "idle"
            BY <2>2 DEF Begin
        <3>2. \A v \in Workers : pc'[v] # "idle" => v = w /\ pc'[v] = "get"
            BY <2>2, <3>1 DEF Begin, Goto, TypeOK
        <3> QED
            BY <2>2, <3>1, <3>2 DEF Begin, SequentialInv, Progress, Content
    <2> DEFINE Alone(w) == \A v \in Workers : v # w => pc[v] = "idle" /\ pc'[v] = "idle"
    <2>3. ASSUME NEW w \in Workers, GetState(w)
          PROVE  SequentialInv'
        <3>1. ~overlapped /\ Alone(w) /\ pc'[w] = "update"
            BY <2>3 DEF GetState, Goto, SequentialInv, TypeOK
        <3>2. /\ stored' = stored /\ stored # None /\ admitted' = admitted
              /\ AtMost(admitted, Content)
              /\ \A c \in Counters : admitted[c] =< Limit(c)
            BY <2>3, <3>1 DEF GetState, SequentialInv
        <3>3. heap'[ref'[w]] = Content
            BY <2>3 DEF GetState, Content, TypeOK
        <3>4. Content' = Content
            BY <2>3 DEF GetState, Content
        <3>5. backend = "memory" => ref'[w] = stored
            BY <2>3 DEF GetState, TypeOK
        <3>6. Progress(w)'
            BY <3>1, <3>2, <3>3, <3>5 DEF Progress
        <3> QED
            BY <3>1, <3>2, <3>4, <3>6 DEF SequentialInv, Progress
    <2>4. ASSUME NEW w \in Workers, MakeState(w)
          PROVE  SequentialInv'
        <3>1. ~overlapped /\ Alone(w) /\ pc'[w] = "blank"
            BY <2>4 DEF MakeState, Goto, SequentialInv, TypeOK
        <3>2. /\ stored' = None /\ admitted' = Blank
              /\ \A c \in Counters : admitted'[c] =< Limit(c)
            BY <2>4, <3>1 DEF MakeState, SequentialInv
        <3> QED
            BY <3>1, <3>2 DEF SequentialInv, Progress
    <2>5. ASSUME NEW w \in Workers, PutBlank(w)
          PROVE  SequentialInv'
        <3>1. ~overlapped /\ Alone(w) /\ pc'[w] = "update"
            BY <2>5 DEF PutBlank, Goto, SequentialInv, TypeOK
        <3>2. /\ admitted' = Blank
              /\ \A c \in Counters : admitted'[c] =< Limit(c)
            BY <2>5, <3>1 DEF PutBlank, SequentialInv, Progress
        <3>3. /\ stored' = (IF backend = "memory" THEN ref[w] ELSE heap[ref[w]])
              /\ ref' = ref /\ heap' = heap
              /\ heap[ref[w]] \in State
            BY <2>5 DEF PutBlank, StorePut, TypeOK
        <3>4. stored' # None /\ (backend = "memory" => ref'[w] = stored')
            BY <3>3 DEF TypeOK
        <3>5. Content' = heap'[ref'[w]]
            BY <3>3 DEF Content
        <3>6. AtMost(admitted', heap'[ref'[w]])
            BY <3>2, <3>3, BlankIsLeast
        <3>7. Progress(w)'
            BY <3>1, <3>4, <3>6 DEF Progress
        <3> QED
            BY <3>1, <3>2, <3>4, <3>5, <3>6, <3>7 DEF SequentialInv, Progress
    <2>6. ASSUME NEW w \in Workers, CountTool(w)
          PROVE  SequentialInv'
        <3> DEFINE r == ref[w]  a == op[w].action
        <3>1. ~overlapped /\ Alone(w) /\ pc'[w] = "action"
            BY <2>6 DEF CountTool, Goto, SequentialInv, TypeOK
        <3>2. /\ stored' = stored /\ stored # None /\ admitted' = admitted
              /\ ref' = ref /\ op' = op
              /\ backend = "memory" => r = stored
              /\ AtMost(admitted, heap[r]) /\ AtMost(admitted, Content)
              /\ \A c \in Counters : admitted[c] =< Limit(c)
            BY <2>6, <3>1 DEF CountTool, SequentialInv, Progress
        <3>3. heap[r] \in State /\ admitted \in State /\ heap'[r] \in State
            BY DEF TypeOK
        <3>4. a \in Counters
            BY <2>6, OpFields DEF CountTool, Counters, TypeOK
        <3>5. /\ heap'[r] = [heap[r] EXCEPT !["tools"] = heap[r]["tools"] + 1]
              /\ tally'[w] = heap[r][a]
            BY <2>6 DEF CountTool, TypeOK
        <3>6. /\ AtMost(admitted, heap'[r])
              /\ admitted["tools"] + 1 =< heap'[r]["tools"]
              /\ admitted[a] =< tally'[w]
            BY <3>2, <3>3, <3>4, <3>5 DEF AtMost, State, Counters, Totals
        <3>7. AtMost(admitted', Content')
            BY <3>2, <3>6 DEF Content
        <3>8. Progress(w)'
            BY <3>1, <3>2, <3>6 DEF Progress
        <3> QED
            BY <3>1, <3>2, <3>7, <3>8 DEF SequentialInv, Progress
    <2>7. ASSUME NEW w \in Workers, CountAction(w)
          PROVE  SequentialInv'
        <3> DEFINE r == ref[w]  a == op[w].action
        <3>1. ~overlapped /\ Alone(w) /\ pc'[w] = "put"
            BY <2>7 DEF CountAction, Goto, SequentialInv, TypeOK
        <3>2. /\ stored' = stored /\ stored # None /\ admitted' = admitted
              /\ ref' = ref /\ op' = op
              /\ backend = "memory" => r = stored
              /\ AtMost(admitted, heap[r]) /\ AtMost(admitted, Content)
              /\ \A c \in Counters : admitted[c] =< Limit(c)
            BY <2>7, <3>1 DEF CountAction, SequentialInv, Progress
        <3>3. heap[r] \in State /\ admitted \in State /\ heap'[r] \in State
            BY DEF TypeOK
        <3>4. /\ op[w] \in Ops /\ a \in Counters /\ a # "tools"
              /\ op[w].touches = {"tools", a} /\ op[w].count = 1
            BY <2>7, OpFields DEF CountAction, Counters, Totals, TypeOK
        <3>5. /\ heap'[r] = [heap[r] EXCEPT ![a] = tally[w] + 1]
              /\ tally[w] \in Nat
            BY <2>7 DEF CountAction, TypeOK
        <3>6. /\ admitted["tools"] + 1 =< heap[r]["tools"]
              /\ admitted[a] =< tally[w]
            BY <2>7, <3>1 DEF CountAction, SequentialInv, Progress
        <3>7. ASSUME NEW c \in Counters
              PROVE  Counted(admitted, op[w])[c] =< heap'[r][c]
            <4>1. admitted[c] =< heap[r][c] /\ admitted[c] \in Nat /\ heap[r][c] \in Nat
                BY <3>2, <3>3 DEF AtMost, State
            <4>2. CASE c = a
                BY <4>2, <3>3, <3>4, <3>5, <3>6, <4>1 DEF Counted, State
            <4>3. CASE c = "tools"
                BY <4>3, <3>3, <3>4, <3>5, <3>6 DEF Counted, State
            <4>4. CASE c # a /\ c # "tools"
                BY <4>4, <3>3, <3>4, <3>5, <4>1 DEF Counted, State
            <4> QED
                BY <4>2, <4>3, <4>4
        <3>8. AtMost(Counted(admitted, op[w]), heap'[r]) /\ Counted(admitted, op[w]) \in State
            BY <3>3, <3>4, <3>7, CountedIsState DEF AtMost
        <3>9. AtMost(admitted, heap'[r])
            BY <3>3, <3>4, <3>8, CountedGrows, AtMostTransitive
        <3>10. AtMost(admitted', Content')
            BY <3>2, <3>9 DEF Content
        <3>11. Progress(w)'
            BY <3>1, <3>2, <3>8, <3>9 DEF Progress
        <3> QED
            BY <3>1, <3>2, <3>10, <3>11 DEF SequentialInv, Progress
    <2>8. ASSUME NEW w \in Workers, AddFindings(w)
          PROVE  SequentialInv'
        <3> DEFINE r == ref[w]  a == op[w].action
        <3>1. ~overlapped /\ Alone(w) /\ pc'[w] = "put"
            BY <2>8 DEF AddFindings, Goto, SequentialInv, TypeOK
        <3>2. /\ stored' = stored /\ stored # None /\ admitted' = admitted
              /\ ref' = ref /\ op' = op
              /\ backend = "memory" => r = stored
              /\ AtMost(admitted, heap[r]) /\ AtMost(admitted, Content)
              /\ \A c \in Counters : admitted[c] =< Limit(c)
            BY <2>8, <3>1 DEF AddFindings, SequentialInv, Progress
        <3>3. heap[r] \in State /\ admitted \in State /\ heap'[r] \in State
            BY DEF TypeOK
        <3>4. op[w] \in Ops /\ heap'[r] = Counted(heap[r], op[w])
            BY <2>8 DEF AddFindings, TypeOK
        <3>5. AtMost(Counted(admitted, op[w]), heap'[r]) /\ Counted(admitted, op[w]) \in State
            BY <3>2, <3>3, <3>4, CountedMonotone, CountedIsState
        <3>6. AtMost(admitted, heap'[r])
            BY <3>3, <3>4, <3>5, CountedGrows, AtMostTransitive
        <3>7. AtMost(admitted', Content')
            BY <3>2, <3>6 DEF Content
        <3>8. Progress(w)'
            BY <3>1, <3>2, <3>5, <3>6 DEF Progress
        <3> QED
            BY <3>1, <3>2, <3>7, <3>8 DEF SequentialInv, Progress
    <2>9. ASSUME NEW w \in Workers, PutState(w)
          PROVE  SequentialInv'
        <3>1. ~overlapped /\ Alone(w) /\ pc'[w] = "signal"
            BY <2>9 DEF PutState, Goto, SequentialInv, TypeOK
        <3>2. /\ admitted' = admitted /\ op' = op /\ ref' = ref /\ heap' = heap
              /\ AtMost(admitted, heap[ref[w]])
              /\ AtMost(Counted(admitted, op[w]), heap[ref[w]])
              /\ \A c \in Counters : admitted[c] =< Limit(c)
            BY <2>9, <3>1 DEF PutState, SequentialInv, Progress
        <3>3. /\ stored' = (IF backend = "memory" THEN ref[w] ELSE heap[ref[w]])
              /\ heap[ref[w]] \in State
            BY <2>9 DEF PutState, StorePut, TypeOK
        <3>4. stored' # None /\ Content' = heap[ref[w]]
            BY <3>2, <3>3 DEF Content, TypeOK
        <3>5. Progress(w)'
            BY <3>1, <3>2, <3>3, <3>4 DEF Progress
        <3> QED
            BY <3>1, <3>2, <3>4, <3>5 DEF SequentialInv, Progress
    <2>10. ASSUME NEW w \in Workers, Signal(w)
          PROVE  SequentialInv'
        <3> DEFINE r == ref[w]
        <3>1. ~overlapped /\ Alone(w) /\ pc'[w] = "idle"
            BY <2>10 DEF Signal, Goto, SequentialInv, TypeOK
        <3>2. /\ stored' = stored /\ stored # None /\ heap' = heap
              /\ backend = "memory" => r = stored
              /\ backend = "sqlite" => stored = heap[r]
              /\ AtMost(admitted, heap[r])
              /\ AtMost(Counted(admitted, op[w]), heap[r])
              /\ \A c \in Counters : admitted[c] =< Limit(c)
            BY <2>10, <3>1 DEF Signal, SequentialInv, Progress
        <3>3. /\ op[w] \in Ops /\ heap[r] \in State /\ admitted \in State
              /\ Counted(admitted, op[w]) \in State
            BY <2>10, CountedIsState DEF Signal, TypeOK
        <3>0. backend \in {"memory", "sqlite"}
            BY SessionAssumption DEF TypeOK
        <3>4. Content' = heap[r]
            BY <3>0, <3>2 DEF Content
        <3>5. AtMost(admitted', heap[r])
            BY <2>10, <3>2 DEF Signal
        <3>6. ASSUME NEW c \in Counters
              PROVE  admitted'[c] =< Limit(c)
            <4>1. CASE admitted' = admitted
                BY <4>1, <3>2
            <4>2. CASE /\ admitted' = Counted(admitted, op[w])
                       /\ WithinLimits(heap[r], op[w])
                <5>1. CASE c \in op[w].touches
                    <6>1. heap[r][c] =< Limit(c) /\ Counted(admitted, op[w])[c] =< heap[r][c]
                        BY <4>2, <5>1, <3>2 DEF WithinLimits, AtMost
                    <6>2. /\ Limit(c) \in Nat /\ heap[r][c] \in Nat
                          /\ Counted(admitted, op[w])[c] \in Nat
                        BY <3>3, LimitIsNat DEF State
                    <6> QED
                        BY <6>1, <6>2, <4>2
                <5>2. CASE c \notin op[w].touches
                    BY <4>2, <5>2, <3>2 DEF Counted
                <5> QED
                    BY <5>1, <5>2
            <4> QED
                BY <2>10, <4>1, <4>2 DEF Signal
        <3> QED
            BY <3>1, <3>2, <3>4, <3>5, <3>6 DEF SequentialInv, Progress
    <2>11. ASSUME NEW w \in Workers, CrashWorker(w)
          PROVE  SequentialInv'
        <3>1. ~overlapped /\ Alone(w) /\ pc'[w] = "idle"
            BY <2>11 DEF CrashWorker, Goto, SequentialInv, TypeOK
        <3>2. stored' = stored /\ admitted' = admitted /\ heap' = heap
            BY <2>11 DEF CrashWorker
        <3> QED
            BY <3>1, <3>2 DEF SequentialInv, Progress, Content
    <2>12. CASE UNCHANGED vars
        BY <2>12 DEF vars, SequentialInv, Progress, Content
    <2> QED
        BY <2>1, <2>2, <2>3, <2>4, <2>5, <2>6, <2>7, <2>8, <2>9, <2>10, <2>11, <2>12 DEF Next
<1> QED
    BY <1>1, <1>2, SessionTypeCorrect, PTL DEF Spec

(* SequentialThreshold: calls that do not overlap are held to every limit, *)
(* over both stores and across crashes (observe_*, 162-204).               *)
THEOREM SequentialCallsAreHeld == Spec => []SequentialThreshold
<1>1. SequentialInv => SequentialThreshold
    BY DEF SequentialInv, SequentialThreshold
<1> QED
    BY <1>1, SequentialInductive, PTL

-----------------------------------------------------------------------------
(* A call that has counted and not yet got its verdict.                    *)
Counting(w, c) == pc[w] \in {"action", "put", "signal"} /\ c \in op[w].touches

(* Every unit that a total of an object was raised by has a number.  The   *)
(* call that raised it has it reserved until its verdict; if it is allowed *)
(* the unit is granted.  No object grants a unit beyond the limit.         *)
Ledger(c, granted, reserved) ==
    /\ Cardinality(granted) = admitted[c]
    /\ \A u \in granted : u[2] =< heap[u[1]][c]
    /\ \A w \in Workers :
        /\ reserved[w] \cap granted = {}
        /\ \A v \in Workers \ {w} : reserved[v] \cap reserved[w] = {}
        /\ ~Counting(w, c) => reserved[w] = {}
        /\ Counting(w, c) =>
            /\ IsFiniteSet(reserved[w])
            /\ Cardinality(reserved[w]) = op[w].count
            /\ \A u \in reserved[w] : u[1] = ref[w] /\ u[2] \in 1 .. heap[ref[w]][c]

Grants(c)    == SUBSET (Workers \X (1 .. Limit(c)))
Reservations == [Workers -> SUBSET (Workers \X Nat)]

(* The books balance: some ledger tells all that was admitted.             *)
Balanced(c) == \E granted \in Grants(c), reserved \in Reservations : Ledger(c, granted, reserved)

(* Nothing is counted before some object is stored, so the object that a   *)
(* thread makes anew has counted nothing.                                  *)
NothingCounted == admitted = Blank /\ \A w \in Workers : pc[w] \in {"idle", "get", "blank"}

(* The inductive invariant.                                                *)
OvershootInv ==
    backend = "memory" => /\ stored = None => NothingCounted
                          /\ \A c \in Totals : Balanced(c)

(* Before anything is counted nothing is granted and nothing reserved.     *)
LEMMA EmptyLedger == NothingCounted => \A c \in Totals : Balanced(c)
<1> SUFFICES ASSUME NothingCounted, NEW c \in Totals
             PROVE  Balanced(c)
    OBVIOUS
<1> DEFINE none == [w \in Workers |-> {}]
<1>1. {} \in Grants(c) /\ none \in Reservations
    BY DEF Grants, Reservations
<1>2. Ledger(c, {}, none)
    BY FS_EmptySet DEF NothingCounted, Ledger, Counting, Blank, Counters
<1> QED BY <1>1, <1>2 DEF Balanced

(* What of a ledger a step can disturb: it stays when totals only grow, on *)
(* no object less, and calls that have counted stand where they stood.     *)
LEMMA LedgerStays ==
    ASSUME NEW c \in Totals, NEW granted \in Grants(c), NEW reserved \in Reservations, TypeOK, TypeOK',
           Ledger(c, granted, reserved), admitted'[c] = admitted[c],
           \A v \in Workers : heap[v][c] =< heap'[v][c],
           \A w \in Workers : Counting(w, c)' <=> Counting(w, c),
           \A w \in Workers : Counting(w, c) => op'[w] = op[w] /\ ref'[w] = ref[w]
    PROVE  Ledger(c, granted, reserved)'
<1>1. \A v \in Workers : heap[v][c] \in Nat /\ heap'[v][c] \in Nat
    BY DEF TypeOK, State, Counters
<1>2. \A w \in Workers : ref[w] \in Workers /\ ref'[w] \in Workers
    BY DEF TypeOK
<1>3. \A u \in granted : u[1] \in Workers /\ u[2] \in Nat /\ u[2] =< heap'[u[1]][c]
    BY <1>1, LimitIsNat DEF Ledger, Grants
<1>4. ASSUME NEW w \in Workers, Counting(w, c)'
      PROVE  /\ IsFiniteSet(reserved[w])
             /\ Cardinality(reserved[w]) = op'[w].count
             /\ \A u \in reserved[w] : u[1] = ref'[w] /\ u[2] \in 1 .. heap'[ref'[w]][c]
    BY <1>1, <1>2, <1>4 DEF Ledger
<1> QED BY <1>3, <1>4 DEF Ledger

(* A call that counts reserves the units that it raises the total by.      *)
LEMMA UnitsReserved ==
    ASSUME NEW c \in Totals, NEW granted \in Grants(c), NEW reserved \in Reservations, TypeOK, TypeOK',
           Ledger(c, granted, reserved), NEW w \in Workers, NEW n \in Nat,
           pc[w] = "update", ~Counting(w, c), Counting(w, c)',
           op[w].count = n, op' = op, ref' = ref, admitted' = admitted,
           \A v \in Workers \ {w} : pc'[v] = pc[v],
           heap'[ref[w]][c] = heap[ref[w]][c] + n,
           \A v \in Workers \ {ref[w]} : heap'[v][c] = heap[v][c]
    PROVE  \E new \in Reservations : Ledger(c, granted, new)'
<1> DEFINE r == ref[w]
           base == heap[r][c]
           units == {r} \X (base + 1 .. base + n)
<1>1. r \in Workers /\ base \in Nat /\ \A v \in Workers : heap[v][c] \in Nat /\ heap'[v][c] \in Nat
    BY DEF TypeOK, State, Counters
<1>2. \A v \in Workers : heap[v][c] =< heap'[v][c]
    BY <1>1
<1>3. IsFiniteSet(units) /\ Cardinality(units) = n
    <2>1. IsFiniteSet(base + 1 .. base + n) /\ Cardinality(base + 1 .. base + n) = n
        <3>1. base + 1 \in Int /\ base + n \in Int
            BY <1>1
        <3>2. /\ IsFiniteSet(base + 1 .. base + n)
              /\ Cardinality(base + 1 .. base + n) = IF base + 1 > base + n THEN 0 ELSE (base + n) - (base + 1) + 1
            BY <3>1, FS_Interval
        <3> QED BY <1>1, <3>2
    <2>2. IsFiniteSet({r}) /\ Cardinality({r}) = 1
        BY FS_Singleton
    <2>3. IsFiniteSet(units) /\ Cardinality(units) = 1 * n
        <3> DEFINE one == {r}
                   numbers == base + 1 .. base + n
        <3> HIDE DEF one, numbers
        <3>1. IsFiniteSet(one) /\ IsFiniteSet(numbers)
            BY <2>1, <2>2 DEF one, numbers
        <3>2. IsFiniteSet(one \X numbers) /\ Cardinality(one \X numbers) = Cardinality(one) * Cardinality(numbers)
            BY <3>1, FS_Product
        <3> QED BY <2>1, <2>2, <3>2 DEF one, numbers
    <2> QED BY <2>3
<1>4. units \in SUBSET (Workers \X Nat) /\ \A u \in units : u[1] = r /\ u[2] \in base + 1 .. base + n
    BY <1>1
<1>5. PICK new \in Reservations : new[w] = units /\ \A v \in Workers \ {w} : new[v] = reserved[v]
    <2>1. [reserved EXCEPT ![w] = units] \in Reservations
        BY <1>4 DEF Reservations
    <2> QED BY <2>1 DEF Reservations
<1> HIDE DEF units
<1>6. \A v \in Workers : Counting(v, c) => \A u \in reserved[v] : u[1] = ref[v] /\ u[2] \in 1 .. heap[ref[v]][c]
    BY DEF Ledger
<1>7. units \cap granted = {}
    <2>1. \A u \in granted : u[2] =< heap[u[1]][c] /\ u[2] \in Nat
        BY LimitIsNat DEF Ledger, Grants
    <2> QED BY <1>1, <1>4, <2>1
<1>8. \A v \in Workers \ {w} : units \cap reserved[v] = {}
    <2> SUFFICES ASSUME NEW v \in Workers \ {w}, Counting(v, c), NEW u \in units, u \in reserved[v]
                 PROVE  FALSE
        BY DEF Ledger
    <2>1. u[1] = ref[v] /\ u[2] \in 1 .. heap[ref[v]][c]
        BY <1>6
    <2> QED BY <1>1, <1>4, <2>1
<1>9. \A v \in Workers \ {w} : Counting(v, c)' <=> Counting(v, c)
    BY DEF Counting
<1>10. \A u \in granted : u[2] =< heap'[u[1]][c]
    <2>1. \A u \in granted : u[2] =< heap[u[1]][c] /\ u[2] \in Nat /\ u[1] \in Workers
        BY LimitIsNat DEF Ledger, Grants
    <2> QED BY <1>1, <1>2, <2>1
<1>11. ASSUME NEW v \in Workers
       PROVE  /\ new[v] \cap granted = {}
              /\ \A x \in Workers \ {v} : new[x] \cap new[v] = {}
              /\ ~Counting(v, c)' => new[v] = {}
    BY <1>5, <1>7, <1>8, <1>9 DEF Ledger
<1>12. ASSUME NEW v \in Workers, Counting(v, c)'
       PROVE  /\ IsFiniteSet(new[v])
              /\ Cardinality(new[v]) = op'[v].count
              /\ \A u \in new[v] : u[1] = ref'[v] /\ u[2] \in 1 .. heap'[ref'[v]][c]
    <2>1. CASE v = w
        BY <1>1, <1>3, <1>4, <1>5, <2>1
    <2>2. CASE v # w
        <3>1. Counting(v, c) /\ new[v] = reserved[v] /\ ref[v] \in Workers
            BY <1>5, <1>9, <1>12, <2>2 DEF TypeOK
        <3>2. IsFiniteSet(new[v]) /\ Cardinality(new[v]) = op'[v].count
            BY <3>1 DEF Ledger
        <3>3. \A u \in new[v] : u[1] = ref'[v] /\ u[2] \in 1 .. heap'[ref'[v]][c]
            BY <1>1, <1>2, <1>6, <3>1
        <3> QED BY <3>2, <3>3
    <2> QED BY <2>1, <2>2
<1>13. Ledger(c, granted, new)'
    BY <1>10, <1>11, <1>12 DEF Ledger
<1> QED BY <1>5, <1>13

(* A call that gets its verdict gives its units back, or has them granted: *)
(* none has a number beyond the limit.                                     *)
LEMMA UnitsGranted ==
    ASSUME NEW c \in Totals, NEW granted \in Grants(c), NEW reserved \in Reservations, TypeOK, TypeOK',
           Ledger(c, granted, reserved), NEW w \in Workers, Signal(w)
    PROVE  \E more \in Grants(c), new \in Reservations : Ledger(c, more, new)'
<1> DEFINE units == reserved[w]
           allowed == WithinLimits(heap[ref[w]], op[w])
<1>1. /\ pc[w] = "signal" /\ pc'[w] = "idle" /\ \A v \in Workers \ {w} : pc'[v] = pc[v] /\ op'[v] = op[v]
      /\ heap' = heap /\ ref' = ref
      /\ admitted' = IF allowed THEN Counted(admitted, op[w]) ELSE admitted
      /\ op[w] \in Ops /\ admitted \in State /\ c \in Counters
    BY DEF Signal, Goto, TypeOK, Counters
<1>2. PICK new \in Reservations : new[w] = {} /\ \A v \in Workers \ {w} : new[v] = reserved[v]
    <2>1. [reserved EXCEPT ![w] = {}] \in Reservations
        BY DEF Reservations
    <2> QED BY <2>1 DEF Reservations
<1>3. ~Counting(w, c)' /\ \A v \in Workers \ {w} : Counting(v, c)' <=> Counting(v, c)
    BY <1>1 DEF Counting
<1>4. IsFiniteSet(granted) /\ Cardinality(granted) \in Nat
    <2>1. IsFiniteSet(Workers \X (1 .. Limit(c)))
        <3>1. Limit(c) \in Int /\ 1 \in Int
            BY <1>1, LimitIsNat
        <3>4. IsFiniteSet(Workers)
            OBVIOUS
        <3> DEFINE numbers == 1 .. Limit(c)
        <3>2. IsFiniteSet(numbers)
            BY <3>1, FS_Interval
        <3> HIDE DEF numbers
        <3>3. IsFiniteSet(Workers \X numbers)
            BY <3>2, <3>4, FS_Product
        <3> QED BY <3>3 DEF numbers
    <2> QED BY <2>1, FS_Subset, FS_CardinalityType DEF Grants
<1>5. CASE Counting(w, c) /\ allowed
    <2>1. /\ IsFiniteSet(units) /\ Cardinality(units) = op[w].count /\ op[w].count \in Nat
          /\ \A u \in units : u[1] = ref[w] /\ u[2] \in 1 .. heap[ref[w]][c]
          /\ units \cap granted = {} /\ units \subseteq Workers \X Nat
          /\ \A v \in Workers \ {w} : reserved[v] \cap units = {}
        BY <1>1, <1>5, OpFields DEF Ledger, Reservations
    <2>2. ref[w] \in Workers /\ heap[ref[w]][c] \in Nat /\ heap[ref[w]][c] =< Limit(c) /\ Limit(c) \in Nat
        BY <1>1, <1>5, LimitIsNat DEF WithinLimits, Counting, TypeOK, State
    <2> HIDE DEF units, allowed
    <2>4. granted \cup units \in Grants(c)
        <3>1. \A u \in units : u \in Workers \X (1 .. Limit(c))
            BY <2>1, <2>2
        <3> QED BY <3>1 DEF Grants
    <2>3. PICK more \in Grants(c) : more = granted \cup units
        BY <2>4
    <2>5. Cardinality(more) = Cardinality(granted) + Cardinality(units)
        <3>1. Cardinality(granted \cup units) = Cardinality(granted) + Cardinality(units) - Cardinality(granted \cap units)
            BY <1>4, <2>1, FS_Union
        <3>2. Cardinality(granted \cap units) = 0
            <4>1. granted \cap units = {}
                BY <2>1
            <4> QED BY <4>1, FS_EmptySet
        <3> QED BY <1>4, <2>1, <2>3, <3>1, <3>2
    <2>6. Cardinality(more) = admitted'[c]
        <3>1. admitted'[c] = admitted[c] + op[w].count
            BY <1>1, <1>5 DEF Counted, Counting, State
        <3> QED BY <2>1, <2>5, <3>1 DEF Ledger
    <2>7. \A u \in more : u[2] =< heap'[u[1]][c]
        <3>1. \A u \in granted : u[2] =< heap[u[1]][c]
            BY DEF Ledger
        <3> QED BY <1>1, <2>1, <2>2, <2>3, <3>1
    <2>8. ASSUME NEW v \in Workers
          PROVE  /\ new[v] \cap more = {}
                 /\ \A x \in Workers \ {v} : new[x] \cap new[v] = {}
                 /\ ~Counting(v, c)' => new[v] = {}
                 /\ Counting(v, c)' =>
                    /\ IsFiniteSet(new[v])
                    /\ Cardinality(new[v]) = op'[v].count
                    /\ \A u \in new[v] : u[1] = ref'[v] /\ u[2] \in 1 .. heap'[ref'[v]][c]
        <3>1. CASE v = w
            BY <1>2, <1>3, <3>1
        <3>2. CASE v # w
            <4>1. new[v] = reserved[v] /\ (Counting(v, c)' <=> Counting(v, c)) /\ op'[v] = op[v]
                BY <1>1, <1>2, <1>3, <3>2
            <4>2. reserved[v] \cap granted = {} /\ \A x \in Workers \ {v} : reserved[x] \cap reserved[v] = {}
                BY DEF Ledger
            <4>3. new[v] \cap more = {} /\ \A x \in Workers \ {v} : new[x] \cap new[v] = {}
                BY <1>2, <2>1, <2>3, <3>2, <4>1, <4>2
            <4> QED BY <1>1, <4>1, <4>3 DEF Ledger
        <3> QED BY <3>1, <3>2
    <2>9. Ledger(c, more, new)'
        BY <2>6, <2>7, <2>8 DEF Ledger
    <2> QED BY <2>9
<1>6. CASE ~(Counting(w, c) /\ allowed)
    <2>1. admitted'[c] = admitted[c]
        BY <1>1, <1>6 DEF Counted, Counting, State
    <2>2. Cardinality(granted) = admitted'[c] /\ \A u \in granted : u[2] =< heap'[u[1]][c]
        BY <1>1, <2>1 DEF Ledger
    <2> HIDE DEF units, allowed
    <2>3. ASSUME NEW v \in Workers
          PROVE  /\ new[v] \cap granted = {}
                 /\ \A x \in Workers \ {v} : new[x] \cap new[v] = {}
                 /\ ~Counting(v, c)' => new[v] = {}
                 /\ Counting(v, c)' =>
                    /\ IsFiniteSet(new[v])
                    /\ Cardinality(new[v]) = op'[v].count
                    /\ \A u \in new[v] : u[1] = ref'[v] /\ u[2] \in 1 .. heap'[ref'[v]][c]
        <3>1. CASE v = w
            BY <1>2, <1>3, <3>1
        <3>2. CASE v # w
            <4>1. new[v] = reserved[v] /\ (Counting(v, c)' <=> Counting(v, c)) /\ op'[v] = op[v]
                BY <1>1, <1>2, <1>3, <3>2
            <4>2. new[v] \cap granted = {} /\ \A x \in Workers \ {v} : new[x] \cap new[v] = {}
                BY <1>2, <4>1 DEF Ledger
            <4> QED BY <1>1, <4>1, <4>2 DEF Ledger
        <3> QED BY <3>1, <3>2
    <2>4. Ledger(c, granted, new)'
        BY <2>2, <2>3 DEF Ledger
    <2> QED BY <2>4
<1> QED BY <1>5, <1>6
(* No ledger is touched by a step after which no object counts less, and   *)
(* the calls that have counted stand where they stood.                     *)
LEMMA QuietStep ==
    ASSUME TypeOK, TypeOK', NEW c \in Totals, Balanced(c), admitted' = admitted,
           \A v \in Workers : heap[v][c] =< heap'[v][c],
           \A v \in Workers : Counting(v, c)' <=> Counting(v, c),
           \A v \in Workers : Counting(v, c) => op'[v] = op[v] /\ ref'[v] = ref[v]
    PROVE  Balanced(c)'
<1>1. PICK granted \in Grants(c), reserved \in Reservations : Ledger(c, granted, reserved)
    BY DEF Balanced
<1>2. Ledger(c, granted, reserved)'
    BY <1>1, LedgerStays
<1> QED BY <1>2 DEF Balanced, Grants, Reservations

(* Step by step: only a count reserves units and only a verdict grants any,*)
(* and an object is made blank only before anything is counted.            *)
LEMMA OvershootStep == TypeOK /\ TypeOK' /\ OvershootInv /\ [Next]_vars => OvershootInv'
<1> SUFFICES ASSUME TypeOK, TypeOK', OvershootInv, [Next]_vars, backend = "memory"
             PROVE  (stored = None => NothingCounted)' /\ \A c \in Totals : Balanced(c)'
    BY StoreIsFixed DEF OvershootInv
<1>0. (stored = None => NothingCounted) /\ \A c \in Totals : Balanced(c)
    BY DEF OvershootInv
<1>1. /\ Totals \subseteq Counters
      /\ \A w \in Workers : ref[w] \in Workers /\ ref[w] # None /\ heap[w] \in State
      /\ \A c \in Totals, v \in Workers : heap[v][c] \in Nat
    BY DEF Counters, TypeOK, State
<1>2. CASE CrashMemory
    <2>1. NothingCounted'
        BY <1>2 DEF CrashMemory, NothingCounted
    <2>2. NothingCounted' => (\A c \in Totals : Balanced(c))'
        BY EmptyLedger, PTL
    <2> QED BY <2>1, <2>2
<1>3. ASSUME NEW w \in Workers, NEW o \in Ops, Begin(w, o)
      PROVE  (stored = None => NothingCounted)' /\ \A c \in Totals : Balanced(c)'
    <2>1. (stored = None => NothingCounted)'
        BY <1>0, <1>3 DEF Begin, Goto, NothingCounted, TypeOK
    <2>2. \A c \in Totals : Balanced(c)'
        <3> SUFFICES ASSUME NEW c \in Totals
                     PROVE  Balanced(c)'
            OBVIOUS
        <3>1. admitted' = admitted
            BY <1>3 DEF Begin
        <3>2. \A v \in Workers : heap[v][c] =< heap'[v][c]
            BY <1>1, <1>3 DEF Begin, TypeOK
        <3>3. \A v \in Workers : Counting(v, c)' <=> Counting(v, c)
            BY <1>3 DEF Begin, Goto, Counting, TypeOK
        <3>4. \A v \in Workers : Counting(v, c) => op'[v] = op[v] /\ ref'[v] = ref[v]
            BY <1>3 DEF Begin, Goto, Counting, TypeOK
        <3> QED BY <1>0, <3>1, <3>2, <3>3, <3>4, QuietStep
    <2> QED BY <2>1, <2>2
<1>4. ASSUME NEW w \in Workers, GetState(w)
      PROVE  (stored = None => NothingCounted)' /\ \A c \in Totals : Balanced(c)'
    <2>1. (stored = None => NothingCounted)'
        BY <1>4 DEF GetState
    <2>2. \A c \in Totals : Balanced(c)'
        <3> SUFFICES ASSUME NEW c \in Totals
                     PROVE  Balanced(c)'
            OBVIOUS
        <3>1. admitted' = admitted
            BY <1>4 DEF GetState
        <3>2. \A v \in Workers : heap[v][c] =< heap'[v][c]
            BY <1>1, <1>4 DEF GetState, TypeOK
        <3>3. \A v \in Workers : Counting(v, c)' <=> Counting(v, c)
            BY <1>4 DEF GetState, Goto, Counting, TypeOK
        <3>4. \A v \in Workers : Counting(v, c) => op'[v] = op[v] /\ ref'[v] = ref[v]
            BY <1>4 DEF GetState, Goto, Counting, TypeOK
        <3> QED BY <1>0, <3>1, <3>2, <3>3, <3>4, QuietStep
    <2> QED BY <2>1, <2>2
<1>5. ASSUME NEW w \in Workers, MakeState(w)
      PROVE  (stored = None => NothingCounted)' /\ \A c \in Totals : Balanced(c)'
    <2>1. NothingCounted'
        BY <1>0, <1>5 DEF MakeState, Goto, NothingCounted, TypeOK
    <2>2. NothingCounted' => (\A c \in Totals : Balanced(c))'
        BY EmptyLedger, PTL
    <2> QED BY <2>1, <2>2
<1>6. ASSUME NEW w \in Workers, PutBlank(w) \/ PutState(w)
      PROVE  (stored = None => NothingCounted)' /\ \A c \in Totals : Balanced(c)'
    <2>1. stored' # None
        BY <1>1, <1>6 DEF PutBlank, PutState, StorePut
    <2>2. \A c \in Totals : Balanced(c)'
        <3> SUFFICES ASSUME NEW c \in Totals
                     PROVE  Balanced(c)'
            OBVIOUS
        <3>1. admitted' = admitted
            BY <1>6 DEF PutBlank, PutState
        <3>2. \A v \in Workers : heap[v][c] =< heap'[v][c]
            BY <1>1, <1>6 DEF PutBlank, PutState, TypeOK
        <3>3. \A v \in Workers : Counting(v, c)' <=> Counting(v, c)
            BY <1>6 DEF PutBlank, PutState, Goto, Counting, TypeOK
        <3>4. \A v \in Workers : Counting(v, c) => op'[v] = op[v] /\ ref'[v] = ref[v]
            BY <1>6 DEF PutBlank, PutState, Goto, Counting, TypeOK
        <3> QED BY <1>0, <3>1, <3>2, <3>3, <3>4, QuietStep
    <2> QED BY <2>1, <2>2
<1>7. ASSUME NEW w \in Workers, CountTool(w) \/ AddFindings(w)
      PROVE  (stored = None => NothingCounted)' /\ \A c \in Totals : Balanced(c)'
    <2>1. /\ pc[w] = "update" /\ pc'[w] \in {"action", "put"} /\ \A v \in Workers \ {w} : pc'[v] = pc[v]
          /\ op' = op /\ ref' = ref /\ admitted' = admitted /\ stored' = stored /\ op[w] \in Ops
          /\ op[w].count \in Nat
        BY <1>7, OpFields DEF CountTool, AddFindings, Goto, TypeOK
    <2>2. (stored = None => NothingCounted)'
        BY <1>0, <2>1 DEF NothingCounted
    <2>3. ASSUME NEW c \in Totals
          PROVE  /\ \A v \in Workers \ {ref[w]} : heap'[v][c] = heap[v][c]
                 /\ c \in op[w].touches => heap'[ref[w]][c] = heap[ref[w]][c] + op[w].count
                 /\ c \notin op[w].touches => heap'[ref[w]][c] = heap[ref[w]][c]
        <3>1. CASE CountTool(w)
            <4>1. /\ heap' = [heap EXCEPT ![ref[w]] = [heap[ref[w]] EXCEPT !["tools"] = heap[ref[w]]["tools"] + 1]]
                  /\ op[w].count = 1 /\ op[w].touches = {"tools", op[w].action} /\ op[w].action \in Actions
                BY <2>1, <3>1, OpFields DEF CountTool
            <4>2. c \in op[w].touches <=> c = "tools"
                BY <4>1
            <4>3. heap'[ref[w]] = [heap[ref[w]] EXCEPT !["tools"] = heap[ref[w]]["tools"] + 1]
                BY <1>1, <4>1 DEF TypeOK
            <4> QED BY <1>1, <4>1, <4>2, <4>3 DEF TypeOK, State
        <3>2. CASE AddFindings(w)
            <4>1. heap' = [heap EXCEPT ![ref[w]] = Counted(heap[ref[w]], op[w])]
                BY <3>2 DEF AddFindings
            <4> QED BY <1>1, <4>1 DEF Counted, TypeOK
        <3> QED BY <1>7, <3>1, <3>2
    <2>4. ASSUME NEW c \in Totals
          PROVE  Balanced(c)'
        <3>1. ~Counting(w, c) /\ \A v \in Workers \ {w} : Counting(v, c)' <=> Counting(v, c)
            BY <2>1 DEF Counting
        <3>2. CASE c \in op[w].touches
            <4>1. PICK granted \in Grants(c), reserved \in Reservations : Ledger(c, granted, reserved)
                BY <1>0 DEF Balanced
            <4>2. Counting(w, c)'
                BY <2>1, <3>2 DEF Counting
            <4>3. \E new \in Reservations : Ledger(c, granted, new)'
                BY <2>1, <2>3, <3>1, <3>2, <4>1, <4>2, UnitsReserved
            <4> QED BY <4>3 DEF Balanced, Grants, Reservations
        <3>3. CASE c \notin op[w].touches
            <4>1. ~Counting(w, c)'
                BY <2>1, <3>3 DEF Counting
            <4>2. \A v \in Workers : heap[v][c] =< heap'[v][c]
                BY <1>1, <2>3, <3>3
            <4> QED BY <1>0, <2>1, <3>1, <4>1, <4>2, QuietStep
        <3> QED BY <3>2, <3>3
    <2> QED BY <2>2, <2>4
<1>8. ASSUME NEW w \in Workers, CountAction(w)
      PROVE  (stored = None => NothingCounted)' /\ \A c \in Totals : Balanced(c)'
    <2>1. /\ pc[w] = "action" /\ pc' = [pc EXCEPT ![w] = "put"] /\ op[w].action \in Actions
          /\ heap' = [heap EXCEPT ![ref[w]] = [heap[ref[w]] EXCEPT ![op[w].action] = tally[w] + 1]]
          /\ UNCHANGED <<op, ref, admitted, stored>>
        BY <1>8, OpFields DEF CountAction, Goto, TypeOK
    <2>2. (stored = None => NothingCounted)'
        BY <1>0, <2>1 DEF NothingCounted
    <2>3. \A c \in Totals, v \in Workers : heap'[v][c] = heap[v][c]
        BY <1>1, <2>1 DEF TypeOK, State
    <2>4. \A c \in Totals, v \in Workers : Counting(v, c)' <=> Counting(v, c)
        BY <2>1 DEF Counting, TypeOK
    <2> QED BY <1>0, <1>1, <2>1, <2>2, <2>3, <2>4, QuietStep
<1>9. ASSUME NEW w \in Workers, Signal(w)
      PROVE  (stored = None => NothingCounted)' /\ \A c \in Totals : Balanced(c)'
    <2>1. (stored = None => NothingCounted)'
        BY <1>0, <1>9 DEF Signal, NothingCounted
    <2>2. ASSUME NEW c \in Totals
          PROVE  Balanced(c)'
        <3>1. PICK granted \in Grants(c), reserved \in Reservations : Ledger(c, granted, reserved)
            BY <1>0 DEF Balanced
        <3>2. \E more \in Grants(c), new \in Reservations : Ledger(c, more, new)'
            BY <1>9, <3>1, UnitsGranted
        <3> QED BY <3>2 DEF Balanced, Grants, Reservations
    <2> QED BY <2>1, <2>2
<1>10. ASSUME NEW w \in Workers, CrashWorker(w)
       PROVE  FALSE
    BY <1>10 DEF CrashWorker
<1>11. CASE UNCHANGED vars
    <2>1. (stored = None => NothingCounted)'
        BY <1>0, <1>11 DEF vars, NothingCounted
    <2>2. \A c \in Totals : Balanced(c)'
        <3>1. UNCHANGED <<pc, op, ref, heap, admitted>>
            BY <1>11 DEF vars
        <3>2. \A c \in Totals, v \in Workers : Counting(v, c)' <=> Counting(v, c)
            BY <3>1 DEF Counting
        <3> QED BY <1>0, <1>1, <3>1, <3>2, QuietStep
    <2> QED BY <2>1, <2>2
<1> QED BY <1>2, <1>3, <1>4, <1>5, <1>6, <1>7, <1>8, <1>9, <1>10, <1>11 DEF Next

(* What the ledger says of a total: there are no more units to grant.      *)
LEMMA BalancedIsBounded ==
    ASSUME NEW c \in Totals, Balanced(c)
    PROVE  admitted[c] =< Limit(c) * Cardinality(Workers)
<1>1. PICK granted \in Grants(c) : Cardinality(granted) = admitted[c]
    BY DEF Balanced, Ledger
<1>2. Limit(c) \in Nat /\ IsFiniteSet(Workers)
    BY LimitIsNat DEF Counters
<1> DEFINE numbers == 1 .. Limit(c)
<1>3. IsFiniteSet(numbers) /\ Cardinality(numbers) = Limit(c)
    BY <1>2, FS_Interval
<1> HIDE DEF numbers
<1>4. IsFiniteSet(Workers \X numbers) /\ Cardinality(Workers \X numbers) = Cardinality(Workers) * Cardinality(numbers)
    BY <1>2, <1>3, FS_Product
<1>5. granted \subseteq Workers \X numbers
    BY DEF Grants, numbers
<1>6. Cardinality(granted) =< Cardinality(Workers \X numbers)
    BY <1>4, <1>5, FS_Subset
<1>7. Cardinality(Workers) \in Nat
    BY <1>2, FS_CardinalityType
<1>8. Cardinality(Workers) * Limit(c) = Limit(c) * Cardinality(Workers)
    BY <1>2, <1>7
<1> QED BY <1>1, <1>3, <1>4, <1>6, <1>8

(* MemoryOvershootBounded: however the threads over the in-memory store    *)
(* interleave, each makes at most one object, and no object gets past a    *)
(* limit (state, 155-160; observe_*, 162-204).                             *)
THEOREM OvershootIsBounded == Spec => []MemoryOvershootBounded
<1>1. Init => OvershootInv
    <2>1. Init => NothingCounted
        BY DEF Init, NothingCounted
    <2> QED BY <2>1, EmptyLedger DEF OvershootInv
<1>2. OvershootInv => MemoryOvershootBounded
    BY BalancedIsBounded DEF OvershootInv, MemoryOvershootBounded
<1> QED BY <1>1, <1>2, OvershootStep, SessionTypeCorrect, PTL DEF Spec
=============================================================================
