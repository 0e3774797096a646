----------------------------- MODULE AgentProofs -----------------------------
(***************************************************************************)
(* Proofs about an ICE agent and those who use it.                           *)
(*                                                                           *)
(* AgentEvents, for any callbacks, consumers and limits: its type, that the  *)
(* wake tokens are binary and leave nobody asleep on what is queued, and     *)
(* that what is queued is handed out once.                                   *)
(*                                                                           *)
(* P2PSession, for any number of connectors and any choice of who maps a     *)
(* port: that peers take different ICE roles, that gathering is on hold      *)
(* while a mapping is made and never after, and that nothing stays open.     *)
(***************************************************************************)
EXTENDS AgentEvents, P2PSession, SequenceTheorems, FiniteSetTheorems, FunctionTheorems, TLAPS

\* A process owes tokens exactly while it is about to release them.
OwesAtSignal == \A p \in Process : owes[p] # {} <=> pc[p] = "signal"

\* What BinaryTokens says of one token.
BinaryToken(t) ==
  /\ available[t] <= 1
  /\ ~signaled[t] => available[t] = 0 /\ \A p \in Process : ~Holds(p, t)
  /\ signaled[t] /\ available[t] = 1 => \A p \in Process : ~Holds(p, t)
  /\ signaled[t] /\ available[t] = 0 => \E p \in Process : Holds(p, t)
  /\ \A p, q \in Process : Holds(p, t) /\ Holds(q, t) => p = q
  /\ \A p \in Process : ~(t \in owes[p] /\ Clearing(p, t))

LEMMA TokenByToken == BinaryTokens <=> \A t \in Token : BinaryToken(t)
BY DEF BinaryTokens, BinaryToken

\* A process is a callback or a consumer, and not both.
LEMMA Sorts ==
  \A p \in Process : /\ p \in Callback <=> p \notin Consumer
                     /\ p \in Callback \/ p \in Consumer
BY AgentAssumption DEF Process

-----------------------------------------------------------------------------
(* Types.                                                                   *)

LEMMA TypeInit == Init => TypeOK
<1> SUFFICES ASSUME Init PROVE TypeOK
  OBVIOUS
<1>1. events \in Seq(Event) /\ receives \in Seq(Datagram) /\ taken \in Seq(Callback)
  BY DEF Init
<1>2. /\ signaled \in [Token -> BOOLEAN] /\ dataSink \in BOOLEAN /\ closed \in BOOLEAN
      /\ owes \in [Process -> SUBSET Token]
  BY Zenon DEF Init
<1>3. available \in [Token -> Nat]
  BY DEF Init
<1>4. pc \in [Process -> CallbackPC \cup ConsumerPC]
  BY DEF Init, CallbackPC, ConsumerPC
<1>5. /\ \A p \in Callback : pc[p] \in CallbackPC
      /\ \A k \in Consumer : pc[k] \in ConsumerPC
  BY Sorts DEF Init, CallbackPC, ConsumerPC, Process
<1> QED
  BY <1>1, <1>2, <1>3, <1>4, <1>5 DEF TypeOK

\* A process that goes to one of its own places keeps the places typed.
LEMMA GotoType ==
  ASSUME TypeOK, NEW p \in Process, NEW label, Goto(p, label),
         p \in Callback => label \in CallbackPC,
         p \in Consumer => label \in ConsumerPC
  PROVE  /\ pc' \in [Process -> CallbackPC \cup ConsumerPC]
         /\ \A q \in Callback : pc'[q] \in CallbackPC
         /\ \A q \in Consumer : pc'[q] \in ConsumerPC
BY Sorts, Zenon DEF TypeOK, Goto, Process

LEMMA LeaveType ==
  ASSUME TypeOK, NEW p \in Process, NEW debts \in SUBSET Token, Leave(p, debts)
  PROVE  /\ owes' \in [Process -> SUBSET Token]
         /\ pc' \in [Process -> CallbackPC \cup ConsumerPC]
         /\ \A q \in Callback : pc'[q] \in CallbackPC
         /\ \A q \in Consumer : pc'[q] \in ConsumerPC
<1> DEFINE label == IF debts = {} THEN Resting(p) ELSE "signal"
<1>1. Goto(p, label)
  BY DEF Leave
<1>2. p \in Callback => label \in CallbackPC
  BY DEF Resting, CallbackPC
<1>3. p \in Consumer => label \in ConsumerPC
  BY Sorts DEF Resting, ConsumerPC
<1>4. owes' \in [Process -> SUBSET Token]
  BY Zenon DEF Leave, TypeOK
<1> HIDE DEF label
<1> QED
  BY <1>1, <1>2, <1>3, <1>4, GotoType

LEMMA RearmType ==
  ASSUME TypeOK, NEW k \in Process, NEW C, NEW T, NEW W \in SUBSET Token,
         \A t \in T \cap Token : available[t] > 0,
         Rearm(k, C, T, W)
  PROVE  /\ signaled' \in [Token -> BOOLEAN]
         /\ available' \in [Token -> Nat]
         /\ owes' \in [Process -> SUBSET Token]
         /\ pc' \in [Process -> CallbackPC \cup ConsumerPC]
         /\ \A q \in Callback : pc'[q] \in CallbackPC
         /\ \A q \in Consumer : pc'[q] \in ConsumerPC
<1> DEFINE still == {t \in Token : signaled[t]} \ (C \cup T)
<1>1. signaled' = [t \in Token |-> t \in still \cup W] /\ Leave(k, W \ still)
  BY Zenon DEF Rearm
<1>2. signaled' \in [Token -> BOOLEAN]
  <2>1. \A t \in Token : (t \in still \cup W) \in BOOLEAN
    OBVIOUS
  <2> HIDE DEF still
  <2> QED
    BY <1>1, <2>1, Zenon
<1>3. ASSUME NEW t \in Token
      PROVE  (IF t \in T THEN available[t] - 1 ELSE available[t]) \in Nat
  <2>1. available[t] \in Nat
    BY DEF TypeOK
  <2> QED
    BY <2>1
<1>4. available' \in [Token -> Nat]
  BY <1>3 DEF Rearm
<1>5. W \ still \in SUBSET Token
  OBVIOUS
<1> QED
  BY <1>1, <1>2, <1>4, <1>5, LeaveType

\* The queues after a drain: both parts of a sequence are sequences.
LEMMA CutType ==
  ASSUME NEW S, NEW s \in Seq(S), NEW n \in Nat, n <= Len(s)
  PROVE  SubSeq(s, 1, n) \in Seq(S) /\ Rest(s, n) \in Seq(S)
BY DEF Rest

LEMMA LeastType == \A m, n \in Nat : Least(m, n) \in Nat /\ Least(m, n) <= m /\ Least(m, n) <= n
BY DEF Least

LEMMA PopReceiveType ==
  ASSUME TypeOK, NEW k \in Consumer, NEW C, receives # <<>>, PopReceive(k, C)
  PROVE  TypeOK'
<1>1. k \in Process
  BY DEF Process
<1>2. \A t \in Retaken({"receive"} \ C) \cap Token : available[t] > 0
  BY DEF Retaken
<1>3. (IF Tail(receives) # <<>> THEN {"receive"} ELSE {}) \in SUBSET Token
  BY DEF Token
<1>4. Rearm(k, C, Retaken({"receive"} \ C), IF Tail(receives) # <<>> THEN {"receive"} ELSE {})
  BY Zenon DEF PopReceive
<1>5. receives \in Seq(Datagram) /\ taken \in Seq(Callback) /\ events \in Seq(Event)
  BY DEF TypeOK
<1>6. Head(receives) \in Datagram /\ Tail(receives) \in Seq(Datagram)
  BY <1>5
<1>7. Append(taken, Head(receives)) \in Seq(Callback)
  BY <1>5, <1>6 DEF Callback
<1>8. /\ receives' \in Seq(Datagram) /\ taken' \in Seq(Callback) /\ events' \in Seq(Event)
      /\ dataSink' \in BOOLEAN /\ closed' \in BOOLEAN
  BY <1>5, <1>6, <1>7, Zenon DEF PopReceive, TypeOK
<1> QED
  BY <1>1, <1>2, <1>3, <1>4, <1>8, RearmType DEF TypeOK

LEMMA TypeCallback ==
  ASSUME TypeOK, NEW p \in Callback, CallbackStep(p)
  PROVE  TypeOK'
<1>1. p \in Process
  BY DEF Process
<1>2. CASE p \in Event /\ QueueEvent(p)
  <2>1. CASE closed
    BY <1>1, <1>2, <2>1, GotoType, Sorts
    DEF QueueEvent, TypeOK, lists, tokens, CallbackPC
  <2>2. CASE ~closed
    <3>1. Rearm(p, {}, {}, {"event"}) /\ UNCHANGED <<receives, taken, dataSink, closed>>
      BY <1>2, <2>2 DEF QueueEvent
    <3>2. events' \in Seq(Event)
      <4>1. events' = Append(events, p) /\ p \in Event /\ events \in Seq(Event)
        BY <1>2, <2>2 DEF QueueEvent, TypeOK
      <4> QED
        BY <4>1
    <3> QED
      BY <1>1, <3>1, <3>2, RearmType DEF TypeOK, Token
  <2> QED
    BY <2>1, <2>2
<1>3. CASE p \in Datagram /\ OnReceive(p)
  BY <1>1, <1>3, GotoType, Sorts DEF OnReceive, TypeOK, lists, tokens, CallbackPC
<1>4. CASE p \in Datagram /\ QueueReceive(p)
  <2>1. CASE closed
    BY <1>1, <1>4, <2>1, GotoType, Sorts
    DEF QueueReceive, TypeOK, lists, tokens, CallbackPC
  <2>2. CASE ~closed
    <3>1. Rearm(p, {}, {}, Token) /\ UNCHANGED <<events, taken, dataSink, closed>>
      BY <1>4, <2>2 DEF QueueReceive
    <3>2. receives' \in Seq(Datagram)
      <4>1. receives' = Append(receives, p) /\ p \in Datagram /\ receives \in Seq(Datagram)
        BY <1>4, <2>2 DEF QueueReceive, TypeOK
      <4> QED
        BY <4>1
    <3> QED
      BY <1>1, <3>1, <3>2, RearmType DEF TypeOK, Token
  <2> QED
    BY <2>1, <2>2
<1> QED
  BY <1>2, <1>3, <1>4 DEF CallbackStep

LEMMA TypeRelease ==
  ASSUME TypeOK, NEW p \in Process, ReleaseToken(p)
  PROVE  TypeOK'
<1> DEFINE t == IF "receive" \in owes[p] THEN "receive" ELSE "event"
<1>1. owes[p] \ {t} \in SUBSET Token
  BY DEF TypeOK
<1>2. Leave(p, owes[p] \ {t}) /\ UNCHANGED <<lists, signaled, dataSink, closed>>
  BY Zenon DEF ReleaseToken
<1>3. available' = [available EXCEPT ![t] = @ + 1]
  BY Zenon DEF ReleaseToken
<1>4. available' \in [Token -> Nat]
  <2>1. t \in Token /\ available \in [Token -> Nat]
    BY DEF TypeOK, Token
  <2> HIDE DEF t
  <2> QED
    BY <1>3, <2>1
<1> HIDE DEF t
<1> QED
  BY <1>1, <1>2, <1>4, LeaveType DEF TypeOK, lists

\* A step that only moves a consumer, and perhaps a token.
LEMMA TypeMove ==
  ASSUME TypeOK, NEW k \in Consumer, NEW label \in ConsumerPC, Goto(k, label),
         signaled' \in [Token -> BOOLEAN], available' \in [Token -> Nat],
         UNCHANGED <<lists, owes, dataSink, closed>>
  PROVE  TypeOK'
BY GotoType, Sorts DEF TypeOK, lists, Process

LEMMA TypeTakeToken ==
  ASSUME TypeOK, NEW k \in Consumer, NEW t \in Token, NEW waiting, NEW woken \in ConsumerPC,
         TakeToken(k, t, waiting, woken)
  PROVE  TypeOK'
<1>1. available' \in [Token -> Nat]
  BY DEF TakeToken, TypeOK
<1>2. Goto(k, woken) /\ UNCHANGED <<lists, signaled, owes, dataSink, closed>>
  BY DEF TakeToken
<1>3. signaled' \in [Token -> BOOLEAN]
  BY <1>2 DEF TypeOK
<1> QED
  BY <1>1, <1>2, <1>3, TypeMove

LEMMA TypeDrain ==
  ASSUME TypeOK, NEW k \in Consumer, NEW maxEvents \in Nat, DrainEvents(k, maxEvents)
  PROVE  TypeOK'
<1> DEFINE n == Least(Len(events), maxEvents)
           m == Least(Len(receives), maxEvents - n)
           T == Retaken({"event"} \cup (IF m > 0 THEN {"receive"} ELSE {}))
           W == Wanted(Rest(events, n), Rest(receives, m))
<1>1. /\ events' = Rest(events, n) /\ receives' = Rest(receives, m)
      /\ taken' = taken \o SubSeq(events, 1, n) \o SubSeq(receives, 1, m)
      /\ Rearm(k, {}, T, W)
      /\ UNCHANGED <<dataSink, closed>>
  BY Zenon DEF DrainEvents
<1>2. events \in Seq(Event) /\ receives \in Seq(Datagram) /\ taken \in Seq(Callback)
  BY DEF TypeOK
<1>3. Len(events) \in Nat /\ Len(receives) \in Nat
  BY <1>2
<1>4. n \in Nat /\ n <= Len(events) /\ n <= maxEvents
  BY <1>3, LeastType
<1>5. maxEvents - n \in Nat
  BY <1>4
<1>6. m \in Nat /\ m <= Len(receives)
  BY <1>3, <1>5, LeastType
<1>7. W \in SUBSET Token
  BY DEF Wanted, Token
<1>8. \A t \in T \cap Token : available[t] > 0
  BY DEF Retaken
<1> HIDE DEF n, m, T, W
<1>9. /\ SubSeq(events, 1, n) \in Seq(Event) /\ Rest(events, n) \in Seq(Event)
      /\ SubSeq(receives, 1, m) \in Seq(Datagram) /\ Rest(receives, m) \in Seq(Datagram)
  BY <1>2, <1>4, <1>6, CutType
<1>10. SubSeq(events, 1, n) \in Seq(Callback) /\ SubSeq(receives, 1, m) \in Seq(Callback)
  BY <1>9 DEF Callback
<1>11. taken \o SubSeq(events, 1, n) \o SubSeq(receives, 1, m) \in Seq(Callback)
  BY <1>2, <1>10
<1>12. /\ events' \in Seq(Event) /\ receives' \in Seq(Datagram) /\ taken' \in Seq(Callback)
       /\ dataSink' \in BOOLEAN /\ closed' \in BOOLEAN
  BY <1>1, <1>9, <1>11, Zenon DEF TypeOK
<1>13. k \in Process
  BY DEF Process
<1> QED
  BY <1>1, <1>7, <1>8, <1>12, <1>13, RearmType DEF TypeOK

\* Every variable of an agent keeps its type; in particular no token is taken
\* back that was not there.
THEOREM TypeCorrect == Spec => []TypeOK
<1>1. TypeOK /\ [Next]_vars => TypeOK'
  <2> SUFFICES ASSUME TypeOK, [Next]_vars PROVE TypeOK'
    OBVIOUS
  <2>1. ASSUME NEW p \in Callback, CallbackStep(p) PROVE TypeOK'
    BY <2>1, TypeCallback
  <2>2. ASSUME NEW k \in Consumer, ConsumerStep(k) PROVE TypeOK'
    <3>1. CASE WakeUp(k)
      BY <3>1, TypeTakeToken DEF WakeUp, Token, ConsumerPC
    <3>2. CASE ResetSignal(k)
      <4>1. signaled' \in [Token -> BOOLEAN] /\ available' \in [Token -> Nat]
        BY <3>2, Zenon DEF ResetSignal, TypeOK
      <4>2. Goto(k, "drain") /\ UNCHANGED <<lists, owes, dataSink, closed>>
        BY <3>2 DEF ResetSignal
      <4>3. "drain" \in ConsumerPC
        BY DEF ConsumerPC
      <4> QED
        BY <4>1, <4>2, <4>3, TypeMove
    <3>3. CASE ReceiveWoken(k)
      <4>1. CASE receives # <<>>
        BY <3>3, <4>1, PopReceiveType DEF ReceiveWoken
      <4>2. CASE receives = <<>>
        <5>1. Rearm(k, {"receive"}, {}, {}) /\ UNCHANGED <<lists, dataSink, closed>>
          BY <3>3, <4>2 DEF ReceiveWoken
        <5>2. k \in Process
          BY DEF Process
        <5> QED
          BY <5>1, <5>2, RearmType DEF TypeOK, lists
      <4> QED
        BY <4>1, <4>2
    <3>4. CASE \E n \in Limits : DrainEvents(k, n)
      BY <3>4, AgentAssumption, TypeDrain
    <3> QED
      BY <2>2, <3>1, <3>2, <3>3, <3>4 DEF ConsumerStep
  <2>3. ASSUME NEW k \in Consumer, ConsumerCall(k) PROVE TypeOK'
    <3>1. \A label : UNCHANGED <<lists, tokens, owes, dataSink, closed>> /\ Goto(k, label)
                       /\ label \in ConsumerPC => TypeOK'
      BY TypeMove DEF tokens, TypeOK
    <3>2. CASE PollEvents(k)
      BY <3>1, <3>2 DEF PollEvents, ConsumerPC
    <3>3. CASE WaitEvents(k)
      BY <3>1, <3>3 DEF WaitEvents, ConsumerPC
    <3>4. CASE ReceiveNative(k)
      BY <3>1, <3>4, PopReceiveType DEF ReceiveNative, ConsumerPC
    <3> QED
      BY <2>3, <3>2, <3>3, <3>4 DEF ConsumerCall
  <2>4. ASSUME NEW k \in Consumer, TimeOut(k) PROVE TypeOK'
    <3>1. PICK label \in {"drain", "idle"} : Goto(k, label)
      BY <2>4 DEF TimeOut
    <3>2. UNCHANGED <<lists, tokens, owes, dataSink, closed>>
      BY <2>4 DEF TimeOut
    <3>3. signaled' \in [Token -> BOOLEAN] /\ available' \in [Token -> Nat]
      BY <3>2 DEF tokens, TypeOK
    <3>4. label \in ConsumerPC
      BY DEF ConsumerPC
    <3> QED
      BY <3>1, <3>2, <3>3, <3>4, TypeMove
  <2>5. ASSUME NEW p \in Process, ReleaseToken(p) PROVE TypeOK'
    BY <2>5, TypeRelease
  <2>6. CASE SetSink \/ ClearSink \/ CloseAgent
    BY <2>6 DEF SetSink, ClearSink, CloseAgent, TypeOK, lists, tokens
  <2>7. CASE UNCHANGED vars
    BY <2>7 DEF vars, TypeOK, lists, tokens
  <2> QED
    BY <2>1, <2>2, <2>3, <2>4, <2>5, <2>6, <2>7 DEF Next
<1> QED
  BY <1>1, TypeInit, PTL DEF Spec

-----------------------------------------------------------------------------
(* Tokens.  A step changes what one process holds; each lemma says what that *)
(* does to the one token t.                                                  *)

TokenInv == TypeOK /\ OwesAtSignal /\ BinaryTokens

LEMMA TokenFacts ==
  ASSUME TokenInv, NEW t \in Token
  PROVE  /\ BinaryToken(t)
         /\ available[t] \in Nat /\ signaled[t] \in BOOLEAN
         /\ \A p \in Process : owes[p] \in SUBSET Token
         /\ \A p \in Process : Clearing(p, t) => pc[p] # "signal" /\ owes[p] = {}
<1>1. BinaryToken(t)
  BY TokenByToken DEF TokenInv
<1>2. \A p \in Process : Clearing(p, t) => pc[p] # "signal"
  BY DEF Clearing
<1> QED
  BY <1>1, <1>2 DEF TokenInv, TypeOK, OwesAtSignal

\* What the others hold stays as it is.
LEMMA OthersHold ==
  ASSUME TypeOK, NEW k \in Process, NEW label, NEW debts,
         pc' = [pc EXCEPT ![k] = label], owes' = [owes EXCEPT ![k] = debts],
         NEW t \in Token
  PROVE  /\ \A p \in Process \ {k} : Holds(p, t)' <=> Holds(p, t)
         /\ \A p \in Process \ {k} : Clearing(p, t)' <=> Clearing(p, t)
         /\ \A p \in Process \ {k} : owes'[p] = owes[p] /\ pc'[p] = pc[p]
         /\ owes'[k] = debts /\ pc'[k] = label
BY DEF TypeOK, Holds, Clearing

\* A section under the lock keeps the tokens binary: it clears the flags that
\* its process took the tokens of, and retakes only tokens that are out.
LEMMA RearmTokens ==
  ASSUME TokenInv, NEW k \in Process, NEW C \in SUBSET Token, NEW T \in SUBSET Token,
         NEW W \in SUBSET Token, pc[k] # "signal",
         \A t \in Token : Clearing(k, t) <=> t \in C,
         \A t \in T : signaled[t] /\ available[t] > 0,
         Rearm(k, C, T, W)
  PROVE  OwesAtSignal' /\ BinaryTokens'
<1> DEFINE still == {t \in Token : signaled[t]} \ (C \cup T)
           debts == W \ still
           label == IF debts = {} THEN Resting(k) ELSE "signal"
<1>1. /\ available' = [t \in Token |-> IF t \in T THEN available[t] - 1 ELSE available[t]]
      /\ signaled' = [t \in Token |-> t \in still \cup W]
      /\ owes' = [owes EXCEPT ![k] = debts] /\ pc' = [pc EXCEPT ![k] = label]
  BY Zenon DEF Rearm, Leave, Goto
<1>2. debts \in SUBSET Token /\ owes[k] = {}
  BY DEF TokenInv, OwesAtSignal
<1>3. label \notin {"reset", "popReceive"} /\ (debts # {} <=> label = "signal")
  BY DEF Resting
<1> HIDE DEF label
<1>4. OwesAtSignal'
  <2> SUFFICES ASSUME NEW p \in Process PROVE owes'[p] # {} <=> pc'[p] = "signal"
    BY DEF OwesAtSignal
  <2>1. owes \in [Process -> SUBSET Token] /\ pc \in [Process -> CallbackPC \cup ConsumerPC]
    BY DEF TokenInv, TypeOK
  <2>2. owes[p] # {} <=> pc[p] = "signal"
    BY DEF TokenInv, OwesAtSignal
  <2> HIDE DEF debts
  <2> QED
    BY <1>1, <1>3, <2>1, <2>2
<1>5. ASSUME NEW t \in Token PROVE BinaryToken(t)'
  <2>1. /\ BinaryToken(t) /\ available[t] \in Nat /\ signaled[t] \in BOOLEAN
        /\ \A p \in Process : Clearing(p, t) => owes[p] = {}
    BY TokenFacts
  <2>2. /\ \A p \in Process \ {k} : Holds(p, t)' <=> Holds(p, t)
        /\ \A p \in Process \ {k} : Clearing(p, t)' <=> Clearing(p, t)
        /\ \A p \in Process \ {k} : owes'[p] = owes[p]
        /\ owes'[k] = debts /\ pc'[k] = label
    <3>1. TypeOK
      BY DEF TokenInv
    <3>2. owes' = [owes EXCEPT ![k] = debts] /\ pc' = [pc EXCEPT ![k] = label]
      BY <1>1
    <3> HIDE DEF debts
    <3>3. /\ \A p \in Process \ {k} : owes'[p] = owes[p] /\ pc'[p] = pc[p]
          /\ owes'[k] = debts /\ pc'[k] = label
      BY <3>1, <3>2 DEF TypeOK
    <3> QED
      BY <3>3 DEF Holds, Clearing
  <2>3. ~Clearing(k, t)' /\ (Holds(k, t)' <=> t \in debts)
    BY <1>3, <2>2 DEF Clearing, Holds
  <2>4. Holds(k, t) <=> t \in C
    BY <1>2 DEF Holds
  <2>5. /\ available'[t] = IF t \in T THEN available[t] - 1 ELSE available[t]
        /\ signaled'[t] <=> t \in still \cup W
        /\ t \in still <=> signaled[t] /\ t \notin C /\ t \notin T
    BY <1>1
  <2>6. t \in debts <=> t \in W /\ t \notin still
    OBVIOUS
  <2> HIDE DEF debts, still
  <2>7. /\ \A p, q \in Process : Holds(p, t)' /\ Holds(q, t)' => p = q
        /\ available'[t] <= 1
    BY <2>1, <2>2, <2>3, <2>4, <2>5, <2>6 DEF BinaryToken
  <2>8. /\ ~signaled'[t] => available'[t] = 0 /\ \A p \in Process : ~Holds(p, t)'
        /\ signaled'[t] /\ available'[t] = 1 => \A p \in Process : ~Holds(p, t)'
    BY <2>1, <2>2, <2>3, <2>4, <2>5, <2>6 DEF BinaryToken
  <2>9. signaled'[t] /\ available'[t] = 0 => \E p \in Process : Holds(p, t)'
    BY <2>1, <2>2, <2>3, <2>4, <2>5, <2>6 DEF BinaryToken
  <2>10. \A p \in Process : ~(t \in owes'[p] /\ Clearing(p, t)')
    BY <2>1, <2>2, <2>3
  <2> QED
    BY <2>7, <2>8, <2>9, <2>10 DEF BinaryToken
<1> QED
  BY <1>4, <1>5, TokenByToken DEF BinaryTokens, BinaryToken

\* Releasing an owed token puts out the token that was not.
LEMMA ReleaseTokens ==
  ASSUME TokenInv, NEW p \in Process, ReleaseToken(p)
  PROVE  OwesAtSignal' /\ BinaryTokens'
<1> DEFINE s == IF "receive" \in owes[p] THEN "receive" ELSE "event"
           debts == owes[p] \ {s}
           label == IF debts = {} THEN Resting(p) ELSE "signal"
<1>1. /\ available' = [available EXCEPT ![s] = @ + 1] /\ signaled' = signaled
      /\ owes' = [owes EXCEPT ![p] = debts] /\ pc' = [pc EXCEPT ![p] = label]
      /\ pc[p] = "signal"
  BY Zenon DEF ReleaseToken, Leave, Goto
<1>2. owes[p] # {} /\ owes[p] \subseteq Token
  BY <1>1 DEF TokenInv, OwesAtSignal, TypeOK
<1>3. s \in owes[p] /\ s \in Token
  BY <1>2 DEF Token
<1>4. label \notin {"reset", "popReceive"} /\ (debts # {} <=> label = "signal")
  BY DEF Resting
<1>5. debts \in SUBSET Token
  BY <1>2
<1> HIDE DEF label, s
<1>6. OwesAtSignal'
  <2> SUFFICES ASSUME NEW q \in Process PROVE owes'[q] # {} <=> pc'[q] = "signal"
    BY DEF OwesAtSignal
  <2>1. owes \in [Process -> SUBSET Token] /\ pc \in [Process -> CallbackPC \cup ConsumerPC]
    BY DEF TokenInv, TypeOK
  <2>2. owes[q] # {} <=> pc[q] = "signal"
    BY DEF TokenInv, OwesAtSignal
  <2> HIDE DEF debts
  <2> QED
    BY <1>1, <1>4, <2>1, <2>2
<1>7. ASSUME NEW t \in Token PROVE BinaryToken(t)'
  <2>1. BinaryToken(t) /\ available[t] \in Nat /\ signaled[t] \in BOOLEAN
    BY TokenFacts
  <2>2. /\ \A q \in Process \ {p} : Holds(q, t)' <=> Holds(q, t)
        /\ \A q \in Process \ {p} : Clearing(q, t)' <=> Clearing(q, t)
        /\ \A q \in Process \ {p} : owes'[q] = owes[q]
        /\ owes'[p] = debts /\ pc'[p] = label
    <3>1. TypeOK
      BY DEF TokenInv
    <3>2. owes' = [owes EXCEPT ![p] = debts] /\ pc' = [pc EXCEPT ![p] = label]
      BY <1>1
    <3> HIDE DEF debts
    <3>3. /\ \A q \in Process \ {p} : owes'[q] = owes[q] /\ pc'[q] = pc[q]
          /\ owes'[p] = debts /\ pc'[p] = label
      BY <3>1, <3>2 DEF TypeOK
    <3> QED
      BY <3>3 DEF Holds, Clearing
  <2>3. ~Clearing(p, t) /\ ~Clearing(p, t)'
    BY <1>1, <1>4, <2>2 DEF Clearing
  <2>4. /\ Holds(p, t) <=> t \in owes[p]
        /\ Holds(p, t)' <=> t \in owes[p] /\ t # s
    BY <2>2, <2>3 DEF Holds
  <2>5. available'[t] = IF t = s THEN available[t] + 1 ELSE available[t]
    BY <1>1, <1>3 DEF TokenInv, TypeOK
  <2>6. \A q \in Process : ~(t \in owes'[q] /\ Clearing(q, t)')
    BY <2>1, <2>2, <2>3 DEF BinaryToken
  <2> QED
    BY <1>1, <1>3, <2>1, <2>2, <2>4, <2>5, <2>6 DEF BinaryToken
<1> QED
  BY <1>6, <1>7, TokenByToken DEF BinaryTokens, BinaryToken

\* A consumer that does not hold tokens moves between places where it holds
\* none, and the tokens stay.
LEMMA MoveTokens ==
  ASSUME TokenInv, NEW k \in Consumer, NEW label, Goto(k, label),
         pc[k] \notin {"reset", "popReceive", "signal"},
         label \notin {"reset", "popReceive", "signal"},
         UNCHANGED <<signaled, available, owes>>
  PROVE  OwesAtSignal' /\ BinaryTokens'
<1>1. k \in Process
  BY DEF Process
<1>2. pc' = [pc EXCEPT ![k] = label] /\ pc \in [Process -> CallbackPC \cup ConsumerPC]
  BY DEF Goto, TokenInv, TypeOK
<1>3. OwesAtSignal'
  BY <1>1, <1>2 DEF OwesAtSignal, TokenInv
<1>4. \A p \in Process, t \in Token : Clearing(p, t)' <=> Clearing(p, t)
  BY <1>1, <1>2 DEF Clearing
<1>5. \A p \in Process, t \in Token : Holds(p, t)' <=> Holds(p, t)
  BY <1>4 DEF Holds
<1> QED
  BY <1>3, <1>4, <1>5 DEF BinaryTokens, TokenInv

\* Callbacks move as well.
LEMMA MoveCallback ==
  ASSUME TokenInv, NEW p \in Callback, NEW label, Goto(p, label),
         pc[p] # "signal", label # "signal", UNCHANGED <<signaled, available, owes>>
  PROVE  OwesAtSignal' /\ BinaryTokens'
<1>1. p \in Process /\ p \notin Consumer
  BY Sorts DEF Process
<1>2. pc' = [pc EXCEPT ![p] = label] /\ pc \in [Process -> CallbackPC \cup ConsumerPC]
  BY DEF Goto, TokenInv, TypeOK
<1>3. OwesAtSignal'
  BY <1>1, <1>2 DEF OwesAtSignal, TokenInv
<1>4. \A q \in Process, t \in Token : Clearing(q, t)' <=> Clearing(q, t)
  BY <1>1, <1>2 DEF Clearing
<1>5. \A q \in Process, t \in Token : Holds(q, t)' <=> Holds(q, t)
  BY <1>4 DEF Holds
<1> QED
  BY <1>3, <1>4, <1>5 DEF BinaryTokens, TokenInv

\* The consumer that took a token is the only one to hold it.
LEMMA TakeTokens ==
  ASSUME TokenInv, NEW k \in Consumer, NEW s \in Token, NEW waiting, NEW woken,
         TakeToken(k, s, waiting, woken),
         waiting \in {"wait", "waitReceive"},
         woken = IF s = "event" THEN "reset" ELSE "popReceive"
  PROVE  OwesAtSignal' /\ BinaryTokens'
<1>1. /\ available' = [available EXCEPT ![s] = @ - 1] /\ available[s] > 0
      /\ signaled' = signaled /\ owes' = owes
      /\ pc' = [pc EXCEPT ![k] = woken] /\ pc[k] = waiting
  BY DEF TakeToken, Goto
<1>2. k \in Process
  BY DEF Process
<1>3. pc \in [Process -> CallbackPC \cup ConsumerPC] /\ owes \in [Process -> SUBSET Token]
  BY DEF TokenInv, TypeOK
<1>4. owes[k] = {}
  BY <1>1, <1>2 DEF TokenInv, OwesAtSignal
<1>5. OwesAtSignal'
  BY <1>1, <1>2, <1>3, <1>4 DEF OwesAtSignal, TokenInv
<1>6. ASSUME NEW t \in Token PROVE BinaryToken(t)'
  <2>1. BinaryToken(t) /\ available[t] \in Nat /\ signaled[t] \in BOOLEAN
    BY TokenFacts
  <2>2. owes' = [owes EXCEPT ![k] = {}]
    BY <1>1, <1>3, <1>4
  <2>3. /\ \A p \in Process \ {k} : Holds(p, t)' <=> Holds(p, t)
        /\ \A p \in Process \ {k} : Clearing(p, t)' <=> Clearing(p, t)
    BY <1>1, <1>2, <2>2, OthersHold DEF TokenInv
  <2>4. ~Holds(k, t) /\ (Clearing(k, t)' <=> t = s) /\ (Holds(k, t)' <=> t = s)
    BY <1>1, <1>2, <1>3, <1>4 DEF Holds, Clearing, Token
  <2>5. available'[t] = IF t = s THEN available[t] - 1 ELSE available[t]
    BY <1>1 DEF TokenInv, TypeOK
  <2>6. \A p \in Process : ~(t \in owes'[p] /\ Clearing(p, t)')
    BY <1>1, <1>4, <2>1, <2>3 DEF BinaryToken
  <2> QED
    BY <1>1, <1>2, <2>1, <2>3, <2>4, <2>5, <2>6 DEF BinaryToken
<1> QED
  BY <1>5, <1>6, TokenByToken DEF BinaryTokens, BinaryToken

\* Clearing the flag of a token that was taken.
LEMMA ResetTokens ==
  ASSUME TokenInv, NEW k \in Consumer, ResetSignal(k)
  PROVE  OwesAtSignal' /\ BinaryTokens'
<1>1. /\ signaled' = [signaled EXCEPT !["event"] = FALSE]
      /\ available' = available /\ owes' = owes
      /\ pc' = [pc EXCEPT ![k] = "drain"] /\ pc[k] = "reset"
  BY DEF ResetSignal, Goto
<1>2. k \in Process
  BY DEF Process
<1>3. pc \in [Process -> CallbackPC \cup ConsumerPC] /\ owes \in [Process -> SUBSET Token]
  BY DEF TokenInv, TypeOK
<1>4. owes[k] = {}
  BY <1>1, <1>2 DEF TokenInv, OwesAtSignal
<1>5. OwesAtSignal'
  BY <1>1, <1>2, <1>3, <1>4 DEF OwesAtSignal, TokenInv
<1>6. ASSUME NEW t \in Token PROVE BinaryToken(t)'
  <2>1. BinaryToken(t) /\ available[t] \in Nat /\ signaled[t] \in BOOLEAN
    BY TokenFacts
  <2>2. owes' = [owes EXCEPT ![k] = {}]
    BY <1>1, <1>3, <1>4
  <2>3. /\ \A p \in Process \ {k} : Holds(p, t)' <=> Holds(p, t)
        /\ \A p \in Process \ {k} : Clearing(p, t)' <=> Clearing(p, t)
    BY <1>1, <1>2, <2>2, OthersHold DEF TokenInv
  <2>4. (Holds(k, t) <=> t = "event") /\ ~Clearing(k, t)' /\ ~Holds(k, t)'
    BY <1>1, <1>2, <1>3, <1>4 DEF Holds, Clearing, Token
  <2>5. /\ t = "event" => signaled'[t] = FALSE
        /\ t # "event" => signaled'[t] = signaled[t]
    BY <1>1 DEF TokenInv, TypeOK
  <2>6. \A p \in Process : ~(t \in owes'[p] /\ Clearing(p, t)')
    BY <1>1, <1>4, <2>1, <2>3 DEF BinaryToken
  <2> QED
    BY <1>1, <1>2, <2>1, <2>3, <2>4, <2>5, <2>6 DEF BinaryToken
<1> QED
  BY <1>5, <1>6, TokenByToken DEF BinaryTokens, BinaryToken

LEMMA TokenInit == Init => OwesAtSignal /\ BinaryTokens
<1> SUFFICES ASSUME Init PROVE OwesAtSignal /\ BinaryTokens
  OBVIOUS
<1>1. \A p \in Process : owes[p] = {} /\ pc[p] \notin {"signal", "reset", "popReceive"}
  BY DEF Init
<1>2. \A t \in Token : signaled[t] = FALSE /\ available[t] = 0
  BY DEF Init
<1>3. \A p \in Process, t \in Token : ~Holds(p, t)
  BY <1>1 DEF Holds, Clearing
<1> QED
  BY <1>1, <1>2, <1>3 DEF OwesAtSignal, BinaryTokens

\* Taking one datagram.
LEMMA PopTokens ==
  ASSUME TokenInv, NEW k \in Consumer, NEW C \in SUBSET {"receive"},
         pc[k] # "signal", \A t \in Token : Clearing(k, t) <=> t \in C,
         PopReceive(k, C)
  PROVE  OwesAtSignal' /\ BinaryTokens'
<1> DEFINE T == Retaken({"receive"} \ C)
           W == IF Tail(receives) # <<>> THEN {"receive"} ELSE {}
<1>1. k \in Process /\ C \in SUBSET Token /\ T \in SUBSET Token /\ W \in SUBSET Token
  BY DEF Process, Token, Retaken
<1>2. \A t \in T : signaled[t] /\ available[t] > 0
  BY DEF Retaken
<1>3. Rearm(k, C, T, W)
  BY Zenon DEF PopReceive
<1> HIDE DEF T, W
<1> QED
  BY <1>1, <1>2, <1>3, RearmTokens

LEMMA TokenStep ==
  ASSUME TokenInv, [Next]_vars
  PROVE  OwesAtSignal' /\ BinaryTokens'
<1>1. ASSUME NEW p \in Event, QueueEvent(p) PROVE OwesAtSignal' /\ BinaryTokens'
  <2>1. p \in Process /\ p \in Callback /\ p \notin Consumer
    BY Sorts DEF Process, Callback
  <2>2. CASE closed
    BY <1>1, <2>1, <2>2, MoveCallback DEF QueueEvent, tokens
  <2>3. CASE ~closed
    <3>1. Rearm(p, {}, {}, {"event"}) /\ pc[p] = "new"
      BY <1>1, <2>3 DEF QueueEvent
    <3>2. \A t \in Token : Clearing(p, t) <=> t \in {}
      BY <2>1 DEF Clearing
    <3> QED
      BY <2>1, <3>1, <3>2, RearmTokens DEF Token
  <2> QED
    BY <2>2, <2>3
<1>2. ASSUME NEW p \in Datagram, OnReceive(p) PROVE OwesAtSignal' /\ BinaryTokens'
  <2>1. p \in Callback
    BY DEF Callback
  <2> QED
    BY <1>2, <2>1, MoveCallback DEF OnReceive, tokens
<1>3. ASSUME NEW p \in Datagram, QueueReceive(p) PROVE OwesAtSignal' /\ BinaryTokens'
  <2>1. p \in Process /\ p \in Callback /\ p \notin Consumer
    BY Sorts DEF Process, Callback
  <2>2. CASE closed
    BY <1>3, <2>1, <2>2, MoveCallback DEF QueueReceive, tokens
  <2>3. CASE ~closed
    <3>1. Rearm(p, {}, {}, Token) /\ pc[p] = "queue"
      BY <1>3, <2>3 DEF QueueReceive
    <3>2. \A t \in Token : Clearing(p, t) <=> t \in {}
      BY <2>1 DEF Clearing
    <3> QED
      BY <2>1, <3>1, <3>2, RearmTokens
  <2> QED
    BY <2>2, <2>3
<1>4. ASSUME NEW k \in Consumer, WakeUp(k) PROVE OwesAtSignal' /\ BinaryTokens'
  BY <1>4, TakeTokens DEF WakeUp, Token
<1>5. ASSUME NEW k \in Consumer, ResetSignal(k) PROVE OwesAtSignal' /\ BinaryTokens'
  BY <1>5, ResetTokens
<1>6. ASSUME NEW k \in Consumer, ReceiveWoken(k) PROVE OwesAtSignal' /\ BinaryTokens'
  <2>1. pc[k] = "popReceive" /\ \A t \in Token : Clearing(k, t) <=> t \in {"receive"}
    BY <1>6 DEF ReceiveWoken, Clearing, Token
  <2>2. CASE receives # <<>>
    BY <1>6, <2>1, <2>2, PopTokens DEF ReceiveWoken
  <2>3. CASE receives = <<>>
    <3>1. Rearm(k, {"receive"}, {}, {})
      BY <1>6, <2>3 DEF ReceiveWoken
    <3>2. k \in Process /\ {"receive"} \in SUBSET Token
      BY DEF Process, Token
    <3> QED
      BY <2>1, <3>1, <3>2, RearmTokens
  <2> QED
    BY <2>2, <2>3
<1>7. ASSUME NEW k \in Consumer, NEW n \in Limits, DrainEvents(k, n)
      PROVE  OwesAtSignal' /\ BinaryTokens'
  <2>1. PICK left, leftReceives, m :
          Rearm(k, {}, Retaken({"event"} \cup (IF m > 0 THEN {"receive"} ELSE {})),
                Wanted(left, leftReceives))
    BY <1>7, Zenon DEF DrainEvents
  <2> DEFINE T == Retaken({"event"} \cup (IF m > 0 THEN {"receive"} ELSE {}))
  <2>2. T \in SUBSET Token /\ \A t \in T : signaled[t] /\ available[t] > 0
    BY DEF Retaken, Token
  <2>3. Wanted(left, leftReceives) \in SUBSET Token
    BY DEF Wanted, Token
  <2>4. k \in Process /\ pc[k] = "drain"
    BY <1>7 DEF DrainEvents, Process
  <2>5. \A t \in Token : Clearing(k, t) <=> t \in {}
    BY <2>4 DEF Clearing
  <2> HIDE DEF T
  <2> QED
    BY <2>1, <2>2, <2>3, <2>4, <2>5, RearmTokens DEF T
<1>8. ASSUME NEW k \in Consumer, PollEvents(k) \/ WaitEvents(k)
      PROVE  OwesAtSignal' /\ BinaryTokens'
  <2>1. PICK label \in {"drain", "wait"} : Goto(k, label)
    BY <1>8 DEF PollEvents, WaitEvents
  <2>2. pc[k] = "idle" /\ UNCHANGED <<signaled, available, owes>>
    BY <1>8 DEF PollEvents, WaitEvents, tokens
  <2> QED
    BY <2>1, <2>2, MoveTokens
<1>9. ASSUME NEW k \in Consumer, ReceiveNative(k) PROVE OwesAtSignal' /\ BinaryTokens'
  <2>1. pc[k] = "idle" /\ \A t \in Token : Clearing(k, t) <=> t \in {}
    BY <1>9 DEF ReceiveNative, Clearing
  <2>2. CASE receives # <<>>
    BY <1>9, <2>1, <2>2, PopTokens DEF ReceiveNative
  <2>3. CASE receives = <<>>
    BY <1>9, <2>1, <2>3, MoveTokens DEF ReceiveNative, tokens
  <2> QED
    BY <2>2, <2>3
<1>10. ASSUME NEW k \in Consumer, TimeOut(k) PROVE OwesAtSignal' /\ BinaryTokens'
  <2>1. PICK label \in {"drain", "idle"} : Goto(k, label)
    BY <1>10 DEF TimeOut
  <2>2. pc[k] \in {"wait", "waitReceive"} /\ UNCHANGED <<signaled, available, owes>>
    BY <1>10 DEF TimeOut, tokens
  <2> QED
    BY <2>1, <2>2, MoveTokens
<1>11. ASSUME NEW p \in Process, ReleaseToken(p) PROVE OwesAtSignal' /\ BinaryTokens'
  BY <1>11, ReleaseTokens
<1>12. CASE SetSink \/ ClearSink \/ CloseAgent \/ UNCHANGED vars
  <2>1. UNCHANGED <<signaled, available, owes, pc>>
    BY <1>12 DEF SetSink, ClearSink, CloseAgent, vars, tokens
  <2> QED
    BY <2>1 DEF TokenInv, OwesAtSignal, BinaryTokens, Holds, Clearing
<1> QED
  BY <1>1, <1>2, <1>3, <1>4, <1>5, <1>6, <1>7, <1>8, <1>9, <1>10, <1>11, <1>12
  DEF Next, CallbackStep, ConsumerStep, ConsumerCall

-----------------------------------------------------------------------------
(* Flags and lists.                                                         *)

\* After a section under the lock that leaves W wanted, the flags of W are set.
LEMMA RearmSets ==
  ASSUME NEW k, NEW C, NEW T, NEW W, Rearm(k, C, T, W), NEW t \in Token
  PROVE  /\ t \in W => signaled'[t]
         /\ signaled[t] /\ t \notin C /\ t \notin T => signaled'[t]
BY DEF Rearm

\* A process that is not draining moves, or one that starts to.
LEMMA DrainersStay ==
  ASSUME TypeOK, NEW k \in Process, NEW label, pc' = [pc EXCEPT ![k] = label],
         pc[k] # "drain" \/ label = "drain",
         \E j \in Consumer : pc[j] = "drain"
  PROVE  \E j \in Consumer : pc'[j] = "drain"
BY DEF TypeOK, Process

LEMMA FlagStep ==
  ASSUME TypeOK, FlagsCoverLists, [Next]_vars
  PROVE  FlagsCoverLists'
<1> USE DEF FlagsCoverLists
<1>1. ASSUME NEW p \in Event, QueueEvent(p) PROVE FlagsCoverLists'
  <2>1. CASE closed
    <3>1. Goto(p, "dropped") /\ UNCHANGED <<events, receives, signaled>> /\ pc[p] = "new"
      BY <1>1, <2>1 DEF QueueEvent, lists, tokens
    <3>2. p \in Process
      BY DEF Process, Callback
    <3> QED
      BY <3>1, <3>2, DrainersStay DEF Goto
  <2>2. CASE ~closed
    <3>1. Rearm(p, {}, {}, {"event"}) /\ receives' = receives
      BY <1>1, <2>2 DEF QueueEvent
    <3> QED
      BY <3>1, RearmSets DEF Token
  <2> QED
    BY <2>1, <2>2
<1>2. ASSUME NEW p \in Datagram, OnReceive(p) PROVE FlagsCoverLists'
  <2>1. PICK label : Goto(p, label) /\ UNCHANGED <<events, receives, signaled>> /\ pc[p] = "new"
    BY <1>2 DEF OnReceive, lists, tokens
  <2>2. p \in Process
    BY DEF Process, Callback
  <2> QED
    BY <2>1, <2>2, DrainersStay DEF Goto
<1>3. ASSUME NEW p \in Datagram, QueueReceive(p) PROVE FlagsCoverLists'
  <2>1. CASE closed
    <3>1. Goto(p, "dropped") /\ UNCHANGED <<events, receives, signaled>> /\ pc[p] = "queue"
      BY <1>3, <2>1 DEF QueueReceive, lists, tokens
    <3>2. p \in Process
      BY DEF Process, Callback
    <3> QED
      BY <3>1, <3>2, DrainersStay DEF Goto
  <2>2. CASE ~closed
    <3>1. Rearm(p, {}, {}, Token)
      BY <1>3, <2>2 DEF QueueReceive
    <3> QED
      BY <3>1, RearmSets DEF Token
  <2> QED
    BY <2>1, <2>2
<1>4. ASSUME NEW k \in Consumer, NEW C \in SUBSET {"receive"}, receives # <<>>,
             pc[k] # "drain", PopReceive(k, C)
      PROVE  FlagsCoverLists'
  <2> DEFINE T == Retaken({"receive"} \ C)
             W == IF Tail(receives) # <<>> THEN {"receive"} ELSE {}
  <2>1. Rearm(k, C, T, W) /\ receives' = Tail(receives) /\ events' = events
    BY <1>4, Zenon DEF PopReceive
  <2>2. "event" \notin C /\ "event" \notin T
    BY DEF Retaken
  <2>3. receives' # <<>> => "receive" \in W
    BY <2>1
  <2>4. PICK label : pc' = [pc EXCEPT ![k] = label]
    BY <2>1 DEF Rearm, Leave, Goto
  <2> HIDE DEF T, W
  <2>5. receives' # <<>> => signaled'["receive"]
    BY <2>1, <2>3, RearmSets DEF Token
  <2>6. signaled["event"] => signaled'["event"]
    BY <2>1, <2>2, RearmSets DEF Token
  <2>7. k \in Process
    BY DEF Process
  <2>8. (\E j \in Consumer : pc[j] = "drain") => \E j \in Consumer : pc'[j] = "drain"
    BY <1>4, <2>4, <2>7, DrainersStay
  <2> QED
    BY <1>4, <2>5, <2>6, <2>8
<1>5. ASSUME NEW k \in Consumer, WakeUp(k) \/ PollEvents(k) \/ WaitEvents(k) \/ TimeOut(k)
      PROVE  FlagsCoverLists'
  <2>1. PICK label : Goto(k, label)
    BY <1>5 DEF WakeUp, TakeToken, PollEvents, WaitEvents, TimeOut
  <2>2. UNCHANGED <<events, receives, signaled>> /\ pc[k] # "drain"
    BY <1>5 DEF WakeUp, TakeToken, PollEvents, WaitEvents, TimeOut, lists, tokens
  <2>3. k \in Process
    BY DEF Process
  <2> QED
    BY <2>1, <2>2, <2>3, DrainersStay DEF Goto
<1>6. ASSUME NEW k \in Consumer, ResetSignal(k) PROVE FlagsCoverLists'
  <2>1. pc'[k] = "drain"
    BY <1>6 DEF ResetSignal, Goto, TypeOK, Process
  <2>2. receives' = receives /\ signaled'["receive"] = signaled["receive"]
    BY <1>6 DEF ResetSignal, lists, TypeOK, Token
  <2> QED
    BY <2>1, <2>2
<1>7. ASSUME NEW k \in Consumer, ReceiveWoken(k) PROVE FlagsCoverLists'
  <2>1. CASE receives # <<>>
    BY <1>4, <1>7, <2>1 DEF ReceiveWoken
  <2>2. CASE receives = <<>>
    <3>1. Rearm(k, {"receive"}, {}, {}) /\ UNCHANGED <<events, receives>> /\ pc[k] = "popReceive"
      BY <1>7, <2>2 DEF ReceiveWoken, lists
    <3>2. PICK label : pc' = [pc EXCEPT ![k] = label]
      BY <3>1 DEF Rearm, Leave, Goto
    <3>3. k \in Process
      BY DEF Process
    <3>4. (\E j \in Consumer : pc[j] = "drain") => \E j \in Consumer : pc'[j] = "drain"
      BY <3>1, <3>2, <3>3, DrainersStay
    <3>5. signaled["event"] => signaled'["event"]
      BY <3>1, RearmSets DEF Token
    <3> QED
      BY <2>2, <3>1, <3>4, <3>5
  <2> QED
    BY <2>1, <2>2
<1>8. ASSUME NEW k \in Consumer, NEW n \in Limits, DrainEvents(k, n) PROVE FlagsCoverLists'
  <2>1. PICK T : Rearm(k, {}, T, Wanted(events', receives'))
    BY <1>8, Zenon DEF DrainEvents
  <2>2. /\ receives' # <<>> => {"event", "receive"} \subseteq Wanted(events', receives')
        /\ events' # <<>> => "event" \in Wanted(events', receives')
    BY DEF Wanted
  <2> QED
    BY <2>1, <2>2, RearmSets DEF Token
<1>9. ASSUME NEW k \in Consumer, ReceiveNative(k) PROVE FlagsCoverLists'
  <2>1. CASE receives # <<>>
    BY <1>4, <1>9, <2>1 DEF ReceiveNative
  <2>2. CASE receives = <<>>
    <3>1. Goto(k, "waitReceive") /\ UNCHANGED <<events, receives, signaled>> /\ pc[k] = "idle"
      BY <1>9, <2>2 DEF ReceiveNative, lists, tokens
    <3>2. k \in Process
      BY DEF Process
    <3> QED
      BY <3>1, <3>2, DrainersStay DEF Goto
  <2> QED
    BY <2>1, <2>2
<1>10. ASSUME NEW p \in Process, ReleaseToken(p) PROVE FlagsCoverLists'
  <2>1. PICK label : pc' = [pc EXCEPT ![p] = label]
    BY <1>10 DEF ReleaseToken, Leave, Goto
  <2>2. UNCHANGED <<events, receives, signaled>> /\ pc[p] = "signal"
    BY <1>10 DEF ReleaseToken, lists
  <2> QED
    BY <2>1, <2>2, DrainersStay
<1>11. CASE SetSink \/ ClearSink \/ CloseAgent \/ UNCHANGED vars
  BY <1>11 DEF SetSink, ClearSink, CloseAgent, vars, tokens, lists
<1> QED
  BY <1>1, <1>2, <1>3, <1>5, <1>6, <1>7, <1>8, <1>9, <1>10, <1>11
  DEF Next, CallbackStep, ConsumerStep, ConsumerCall

-----------------------------------------------------------------------------
(* What is queued is handed out once.  A step that queues adds one copy of    *)
(* its callback; a consumer's moves copies between the lists and what was     *)
(* taken.                                                                     *)

\* Where an element stands in a sequence.
Places(s, p) == {i \in DOMAIN s : s[i] = p}

LEMMA PlacesFinite ==
  ASSUME NEW S, NEW s \in Seq(S), NEW p
  PROVE  /\ Places(s, p) \subseteq 1 .. Len(s) /\ IsFiniteSet(Places(s, p))
         /\ Occurrences(s, p) = Cardinality(Places(s, p))
         /\ Occurrences(s, p) \in Nat
<1>1. Places(s, p) \subseteq 1 .. Len(s)
  BY LenProperties DEF Places
<1>2. IsFiniteSet(1 .. Len(s))
  BY LenProperties, FS_Interval
<1>3. IsFiniteSet(Places(s, p))
  BY <1>1, <1>2, FS_Subset
<1>4. Occurrences(s, p) = Cardinality(Places(s, p))
  BY DEF Occurrences, Places
<1> QED
  BY <1>1, <1>3, <1>4, FS_CardinalityType

\* Concatenating sequences adds what they hold.
LEMMA OccurrencesConcat ==
  ASSUME NEW S, NEW s \in Seq(S), NEW t \in Seq(S), NEW p
  PROVE  Occurrences(s \o t, p) = Occurrences(s, p) + Occurrences(t, p)
<1> DEFINE A == Places(s, p)
           B == Places(t, p)
           C == Places(s \o t, p) \ A
           f == [i \in B |-> Len(s) + i]
<1>1. /\ A \subseteq 1 .. Len(s) /\ IsFiniteSet(A) /\ B \subseteq 1 .. Len(t) /\ IsFiniteSet(B)
      /\ Occurrences(s, p) = Cardinality(A) /\ Occurrences(t, p) = Cardinality(B)
      /\ Cardinality(A) \in Nat /\ Cardinality(B) \in Nat
  BY PlacesFinite
<1>2. /\ Len(s) \in Nat /\ Len(t) \in Nat
      /\ DOMAIN s = 1 .. Len(s) /\ DOMAIN t = 1 .. Len(t)
  BY LenProperties
<1>3. /\ DOMAIN (s \o t) = 1 .. Len(s) + Len(t)
      /\ \A i \in 1 .. Len(s) : (s \o t)[i] = s[i]
      /\ \A i \in 1 .. Len(t) : (s \o t)[Len(s) + i] = t[i]
  BY <1>2
<1>4. A \subseteq Places(s \o t, p)
  BY <1>2, <1>3 DEF Places
<1>5. f \in [B -> C]
  BY <1>1, <1>2, <1>3 DEF Places
<1>6. \A i, j \in B : f[i] = f[j] => i = j
  BY <1>1, <1>2
<1>7. ASSUME NEW c \in C PROVE \E i \in B : f[i] = c
  <2>1. c \in 1 .. Len(s) + Len(t) /\ (s \o t)[c] = p /\ c \notin 1 .. Len(s)
    BY <1>2, <1>3 DEF Places
  <2>2. c - Len(s) \in 1 .. Len(t) /\ Len(s) + (c - Len(s)) = c
    BY <1>2, <2>1
  <2>3. c - Len(s) \in B
    BY <1>2, <1>3, <2>1, <2>2 DEF Places
  <2> QED
    BY <2>2, <2>3
<1> HIDE DEF A, B, C, f
<1>8. f \in Bijection(B, C)
  BY <1>5, <1>6, <1>7, Fun_IsBij
<1>9. IsFiniteSet(C) /\ Cardinality(C) = Cardinality(B)
  BY <1>1, <1>8, FS_Bijection DEF ExistsBijection
<1>10. A \cup C = Places(s \o t, p) /\ A \cap C = {}
  BY <1>4 DEF C
<1>11. Cardinality(A \cup C) = Cardinality(A) + Cardinality(C) - Cardinality(A \cap C)
  BY <1>1, <1>9, FS_Union
<1>12. Cardinality(Places(s \o t, p)) = Cardinality(A) + Cardinality(B)
  <2>1. Cardinality(A \cap C) = 0
    BY <1>10, FS_EmptySet
  <2>2. Cardinality(A \cup C) = Cardinality(Places(s \o t, p))
    BY <1>10
  <2>3. Cardinality(A \cup C) = Cardinality(A) + Cardinality(B) - 0
    BY <1>9, <1>11, <2>1
  <2> QED
    BY <1>1, <2>2, <2>3
<1> QED
  BY <1>1, <1>12 DEF Occurrences, Places

\* A sequence of one holds its element.
LEMMA OccurrencesOne ==
  \A e, p : Occurrences(<<e>>, p) = IF e = p THEN 1 ELSE 0
<1> TAKE e, p
<1>1. CASE e = p
  <2>1. Places(<<e>>, p) = {1}
    BY <1>1 DEF Places
  <2> QED
    BY <1>1, <2>1, FS_Singleton DEF Occurrences, Places
<1>2. CASE e # p
  <2>1. Places(<<e>>, p) = {}
    BY <1>2 DEF Places
  <2> QED
    BY <1>2, <2>1, FS_EmptySet DEF Occurrences, Places
<1> QED
  BY <1>1, <1>2

LEMMA OccurrencesAppend ==
  ASSUME NEW S, NEW s \in Seq(S), NEW e \in S, NEW p
  PROVE  Occurrences(Append(s, e), p) = Occurrences(s, p) + (IF e = p THEN 1 ELSE 0)
<1>1. Append(s, e) = s \o <<e>> /\ <<e>> \in Seq(S)
  BY AppendIsConcat
<1>2. Occurrences(s \o <<e>>, p) = Occurrences(s, p) + Occurrences(<<e>>, p)
  BY <1>1, OccurrencesConcat
<1> QED
  BY <1>1, <1>2, OccurrencesOne

\* Both parts of a sequence hold what it holds.
LEMMA OccurrencesCut ==
  ASSUME NEW S, NEW s \in Seq(S), NEW n \in Nat, n <= Len(s), NEW p
  PROVE  Occurrences(s, p) = Occurrences(SubSeq(s, 1, n), p) + Occurrences(Rest(s, n), p)
<1>1. Len(s) \in Nat
  BY LenProperties
<1>2. SubSeq(s, 1, n) \o SubSeq(s, n + 1, Len(s)) = SubSeq(s, 1, Len(s))
  <2>1. n \in 0 .. Len(s) /\ Len(s) \in n .. Len(s) /\ 1 \in 1 .. Len(s) + 1
        /\ n \in 1 - 1 .. Len(s)
    BY <1>1
  <2> QED
    BY <2>1, ConcatAdjacentSubSeq
<1>3. SubSeq(s, 1, n) \o Rest(s, n) = s
  BY <1>2, SubSeqFull DEF Rest
<1>4. SubSeq(s, 1, n) \in Seq(S) /\ Rest(s, n) \in Seq(S)
  BY DEF Rest
<1>5. Occurrences(SubSeq(s, 1, n) \o Rest(s, n), p)
        = Occurrences(SubSeq(s, 1, n), p) + Occurrences(Rest(s, n), p)
  BY <1>4, OccurrencesConcat
<1> QED
  BY <1>3, <1>5

LEMMA OccurrencesHead ==
  ASSUME NEW S, NEW s \in Seq(S), s # <<>>, NEW p
  PROVE  Occurrences(s, p) = (IF Head(s) = p THEN 1 ELSE 0) + Occurrences(Tail(s), p)
<1>1. s = <<Head(s)>> \o Tail(s)
  BY HeadTailProperties, LenProperties
<1>2. <<Head(s)>> \in Seq(S) /\ Tail(s) \in Seq(S)
  BY HeadTailProperties
<1>3. Occurrences(<<Head(s)>> \o Tail(s), p)
        = Occurrences(<<Head(s)>>, p) + Occurrences(Tail(s), p)
  BY <1>2, OccurrencesConcat
<1> QED
  BY <1>1, <1>3, OccurrencesOne

Copies(p) == Occurrences(events, p) + Occurrences(receives, p) + Occurrences(taken, p)
WasQueued(p) == pc[p] \in {"signal", "queued"}

\* A callback is somewhere exactly once when it was queued, and nowhere before
\* or when it was dropped.
QueuedOnce == \A p \in Callback : Copies(p) = IF WasQueued(p) THEN 1 ELSE 0

LEMMA CopiesNat ==
  ASSUME TypeOK, NEW p
  PROVE  /\ Occurrences(events, p) \in Nat /\ Occurrences(receives, p) \in Nat
         /\ Occurrences(taken, p) \in Nat
BY PlacesFinite DEF TypeOK

\* A process that moves lets the callbacks stay where they are, or was itself
\* queued before and after.
LEMMA QueuedStay ==
  ASSUME TypeOK, NEW k \in Process, NEW label, pc' = [pc EXCEPT ![k] = label],
         k \in Callback => (WasQueued(k) <=> label \in {"signal", "queued"})
  PROVE  \A p \in Callback : WasQueued(p)' <=> WasQueued(p)
<1> SUFFICES ASSUME NEW p \in Callback PROVE WasQueued(p)' <=> WasQueued(p)
  OBVIOUS
<1>1. p \in Process /\ pc \in [Process -> CallbackPC \cup ConsumerPC]
  BY DEF Process, TypeOK
<1>2. pc'[p] = IF p = k THEN label ELSE pc[p]
  BY <1>1
<1> QED
  BY <1>2 DEF WasQueued

LEMMA StayQueued ==
  ASSUME QueuedOnce, \A p \in Callback : WasQueued(p)' <=> WasQueued(p),
         \A p \in Callback : Copies(p)' = Copies(p)
  PROVE  QueuedOnce'
BY DEF QueuedOnce

\* A callback that was not queued before, and now is.
LEMMA NewlyQueued ==
  ASSUME TypeOK, QueuedOnce, NEW e \in Callback, ~WasQueued(e),
         NEW label \in {"signal", "queued"}, pc' = [pc EXCEPT ![e] = label],
         \A p \in Callback : Copies(p)' = Copies(p) + (IF e = p THEN 1 ELSE 0)
  PROVE  QueuedOnce'
<1> SUFFICES ASSUME NEW p \in Callback
             PROVE  Copies(p)' = IF WasQueued(p)' THEN 1 ELSE 0
  BY DEF QueuedOnce
<1>1. p \in Process /\ pc \in [Process -> CallbackPC \cup ConsumerPC]
  BY DEF Process, TypeOK
<1>2. pc'[p] = IF p = e THEN label ELSE pc[p]
  BY <1>1
<1>3. WasQueued(p)' <=> (p = e \/ WasQueued(p))
  BY <1>2 DEF WasQueued
<1>4. Copies(p)' = Copies(p) + (IF e = p THEN 1 ELSE 0)
  OBVIOUS
<1>5. Copies(p) = IF WasQueued(p) THEN 1 ELSE 0
  BY DEF QueuedOnce
<1> QED
  BY <1>3, <1>4, <1>5

LEMMA PopOnce ==
  ASSUME TypeOK, QueuedOnce, NEW k \in Consumer, NEW C, receives # <<>>, PopReceive(k, C)
  PROVE  QueuedOnce'
<1> DEFINE W == IF Tail(receives) # <<>> THEN {"receive"} ELSE {}
<1>1. /\ Rearm(k, C, Retaken({"receive"} \ C), W)
      /\ receives' = Tail(receives) /\ events' = events
      /\ taken' = Append(taken, Head(receives))
  BY Zenon DEF PopReceive
<1>2. PICK label : pc' = [pc EXCEPT ![k] = label]
  BY <1>1 DEF Rearm, Leave, Goto
<1>3. \A p \in Callback : WasQueued(p)' <=> WasQueued(p)
  BY <1>2, QueuedStay, Sorts DEF Process
<1>4. ASSUME NEW p \in Callback PROVE Copies(p)' = Copies(p)
  <2>1. receives \in Seq(Datagram) /\ taken \in Seq(Callback) /\ Head(receives) \in Callback
    BY HeadTailProperties DEF TypeOK, Callback
  <2>2. Occurrences(receives, p)
          = (IF Head(receives) = p THEN 1 ELSE 0) + Occurrences(receives', p)
    BY <1>1, <2>1, OccurrencesHead
  <2>3. Occurrences(taken', p) = Occurrences(taken, p) + (IF Head(receives) = p THEN 1 ELSE 0)
    BY <1>1, <2>1, OccurrencesAppend
  <2>4. receives' \in Seq(Datagram)
    BY <1>1, <2>1, HeadTailProperties
  <2>5. Occurrences(receives', p) \in Nat
    BY <2>4, PlacesFinite
  <2> QED
    BY <1>1, <2>2, <2>3, <2>5, CopiesNat DEF Copies
<1> QED
  BY <1>3, <1>4, StayQueued

LEMMA DrainOnce ==
  ASSUME TypeOK, QueuedOnce, NEW k \in Consumer, NEW maxEvents \in Limits,
         DrainEvents(k, maxEvents)
  PROVE  QueuedOnce'
<1> DEFINE n == Least(Len(events), maxEvents)
           m == Least(Len(receives), maxEvents - n)
           T == Retaken({"event"} \cup (IF m > 0 THEN {"receive"} ELSE {}))
<1>1. /\ Rearm(k, {}, T, Wanted(Rest(events, n), Rest(receives, m)))
      /\ events' = Rest(events, n) /\ receives' = Rest(receives, m)
      /\ taken' = taken \o SubSeq(events, 1, n) \o SubSeq(receives, 1, m)
  BY Zenon DEF DrainEvents
<1>2. PICK label : pc' = [pc EXCEPT ![k] = label]
  BY <1>1 DEF Rearm, Leave, Goto
<1>3. \A p \in Callback : WasQueued(p)' <=> WasQueued(p)
  BY <1>2, QueuedStay, Sorts DEF Process
<1>4. /\ events \in Seq(Event) /\ receives \in Seq(Datagram) /\ taken \in Seq(Callback)
      /\ events \in Seq(Callback) /\ receives \in Seq(Callback)
  BY SeqMonotonic DEF TypeOK, Callback
<1>5. n \in Nat /\ n <= Len(events) /\ n <= maxEvents /\ maxEvents \in Nat
  BY <1>4, LenProperties, LeastType, AgentAssumption
<1>6. m \in Nat /\ m <= Len(receives)
  <2>1. Len(receives) \in Nat /\ maxEvents - n \in Nat
    BY <1>4, <1>5, LenProperties
  <2> HIDE DEF n
  <2> QED
    BY <2>1, LeastType
<1> HIDE DEF n, m, T
<1>7. ASSUME NEW p \in Callback PROVE Copies(p)' = Copies(p)
  <2>1. Occurrences(events, p) = Occurrences(SubSeq(events, 1, n), p) + Occurrences(events', p)
    BY <1>1, <1>4, <1>5, OccurrencesCut
  <2>2. Occurrences(receives, p)
          = Occurrences(SubSeq(receives, 1, m), p) + Occurrences(receives', p)
    BY <1>1, <1>4, <1>6, OccurrencesCut
  <2>3. /\ SubSeq(events, 1, n) \in Seq(Callback) /\ SubSeq(receives, 1, m) \in Seq(Callback)
        /\ events' \in Seq(Callback) /\ receives' \in Seq(Callback)
    BY <1>1, <1>4, <1>5, <1>6, CutType
  <2>4. taken \o SubSeq(events, 1, n) \in Seq(Callback)
    BY <1>4, <2>3, ConcatProperties
  <2>5. Occurrences(taken \o SubSeq(events, 1, n), p)
          = Occurrences(taken, p) + Occurrences(SubSeq(events, 1, n), p)
    BY <1>4, <2>3, OccurrencesConcat
  <2>6. Occurrences(taken', p)
          = Occurrences(taken \o SubSeq(events, 1, n), p)
              + Occurrences(SubSeq(receives, 1, m), p)
    BY <1>1, <2>3, <2>4, OccurrencesConcat
  <2>7. /\ Occurrences(SubSeq(events, 1, n), p) \in Nat
        /\ Occurrences(SubSeq(receives, 1, m), p) \in Nat
        /\ Occurrences(events', p) \in Nat /\ Occurrences(receives', p) \in Nat
    BY <2>3, PlacesFinite
  <2> QED
    BY <2>1, <2>2, <2>5, <2>6, <2>7, CopiesNat DEF Copies
<1> QED
  BY <1>3, <1>7, StayQueued

\* A consumer that only moves.
LEMMA MoveOnce ==
  ASSUME TypeOK, QueuedOnce, NEW k \in Consumer, NEW label,
         pc' = [pc EXCEPT ![k] = label], UNCHANGED lists
  PROVE  QueuedOnce'
<1>1. \A p \in Callback : WasQueued(p)' <=> WasQueued(p)
  BY QueuedStay, Sorts DEF Process
<1>2. \A p \in Callback : Copies(p)' = Copies(p)
  BY DEF Copies, lists
<1> QED
  BY <1>1, <1>2, StayQueued

LEMMA QueueOnce ==
  ASSUME TypeOK, QueuedOnce, NEW p \in Callback, CallbackStep(p)
  PROVE  QueuedOnce'
<1>1. p \in Process
  BY DEF Process
<1>2. ASSUME NEW label, Goto(p, label), label \notin {"signal", "queued"},
             ~WasQueued(p), UNCHANGED lists
      PROVE  QueuedOnce'
  <2>1. \A q \in Callback : WasQueued(q)' <=> WasQueued(q)
    BY <1>1, <1>2, QueuedStay DEF Goto
  <2>2. \A q \in Callback : Copies(q)' = Copies(q)
    BY <1>2 DEF Copies, lists
  <2> QED
    BY <2>1, <2>2, StayQueued
<1>3. ASSUME NEW W, Rearm(p, {}, {}, W)
      PROVE  \E label \in {"signal", "queued"} : pc' = [pc EXCEPT ![p] = label]
  BY <1>3, Zenon DEF Rearm, Leave, Goto, Resting
<1>4. CASE p \in Event /\ QueueEvent(p)
  <2>1. ~WasQueued(p)
    BY <1>4 DEF QueueEvent, WasQueued
  <2>2. CASE closed
    BY <1>2, <1>4, <2>1, <2>2 DEF QueueEvent
  <2>3. CASE ~closed
    <3>1. /\ Rearm(p, {}, {}, {"event"}) /\ events' = Append(events, p)
          /\ receives' = receives /\ taken' = taken
      BY <1>4, <2>3 DEF QueueEvent
    <3>2. PICK label \in {"signal", "queued"} : pc' = [pc EXCEPT ![p] = label]
      BY <1>3, <3>1
    <3>3. ASSUME NEW q \in Callback PROVE Copies(q)' = Copies(q) + (IF p = q THEN 1 ELSE 0)
      <4>1. events \in Seq(Event)
        BY DEF TypeOK
      <4>2. Occurrences(events', q) = Occurrences(events, q) + (IF p = q THEN 1 ELSE 0)
        BY <1>4, <3>1, <4>1, OccurrencesAppend
      <4> QED
        BY <3>1, <4>2, CopiesNat DEF Copies
    <3> QED
      BY <2>1, <3>2, <3>3, NewlyQueued
  <2> QED
    BY <2>2, <2>3
<1>5. CASE p \in Datagram /\ OnReceive(p)
  <2>1. ~WasQueued(p)
    BY <1>5 DEF OnReceive, WasQueued
  <2>2. Goto(p, IF ~closed /\ dataSink THEN "sunk" ELSE "queue") /\ UNCHANGED lists
    BY <1>5 DEF OnReceive
  <2> QED
    BY <1>2, <2>1, <2>2
<1>6. CASE p \in Datagram /\ QueueReceive(p)
  <2>1. ~WasQueued(p)
    BY <1>6 DEF QueueReceive, WasQueued
  <2>2. CASE closed
    BY <1>2, <1>6, <2>1, <2>2 DEF QueueReceive
  <2>3. CASE ~closed
    <3>1. /\ Rearm(p, {}, {}, Token) /\ receives' = Append(receives, p)
          /\ events' = events /\ taken' = taken
      BY <1>6, <2>3 DEF QueueReceive
    <3>2. PICK label \in {"signal", "queued"} : pc' = [pc EXCEPT ![p] = label]
      BY <1>3, <3>1
    <3>3. ASSUME NEW q \in Callback PROVE Copies(q)' = Copies(q) + (IF p = q THEN 1 ELSE 0)
      <4>1. receives \in Seq(Datagram)
        BY DEF TypeOK
      <4>2. Occurrences(receives', q) = Occurrences(receives, q) + (IF p = q THEN 1 ELSE 0)
        BY <1>6, <3>1, <4>1, OccurrencesAppend
      <4> QED
        BY <3>1, <4>2, CopiesNat DEF Copies
    <3> QED
      BY <2>1, <3>2, <3>3, NewlyQueued
  <2> QED
    BY <2>2, <2>3
<1> QED
  BY <1>4, <1>5, <1>6 DEF CallbackStep

LEMMA OnceStep ==
  ASSUME TypeOK, QueuedOnce, [Next]_vars
  PROVE  QueuedOnce'
<1>1. ASSUME NEW p \in Callback, CallbackStep(p) PROVE QueuedOnce'
  BY <1>1, QueueOnce
<1>2. ASSUME NEW k \in Consumer,
             WakeUp(k) \/ ResetSignal(k) \/ PollEvents(k) \/ WaitEvents(k) \/ TimeOut(k)
      PROVE  QueuedOnce'
  <2>1. PICK label : Goto(k, label)
    BY <1>2 DEF WakeUp, TakeToken, ResetSignal, PollEvents, WaitEvents, TimeOut
  <2>2. UNCHANGED lists
    BY <1>2 DEF WakeUp, TakeToken, ResetSignal, PollEvents, WaitEvents, TimeOut
  <2> QED
    BY <2>1, <2>2, MoveOnce DEF Goto
<1>3. ASSUME NEW k \in Consumer, NEW maxEvents \in Limits, DrainEvents(k, maxEvents)
      PROVE  QueuedOnce'
  BY <1>3, DrainOnce
<1>4. ASSUME NEW k \in Consumer, ReceiveNative(k) PROVE QueuedOnce'
  <2>1. CASE receives # <<>>
    BY <1>4, <2>1, PopOnce DEF ReceiveNative
  <2>2. CASE receives = <<>>
    BY <1>4, <2>2, MoveOnce DEF ReceiveNative, Goto
  <2> QED
    BY <2>1, <2>2
<1>5. ASSUME NEW k \in Consumer, ReceiveWoken(k) PROVE QueuedOnce'
  <2>1. CASE receives # <<>>
    BY <1>5, <2>1, PopOnce DEF ReceiveWoken
  <2>2. CASE receives = <<>>
    <3>1. Rearm(k, {"receive"}, {}, {}) /\ UNCHANGED lists
      BY <1>5, <2>2 DEF ReceiveWoken
    <3>2. PICK label : pc' = [pc EXCEPT ![k] = label]
      BY <3>1 DEF Rearm, Leave, Goto
    <3> QED
      BY <3>1, <3>2, MoveOnce
  <2> QED
    BY <2>1, <2>2
<1>6. ASSUME NEW p \in Process, ReleaseToken(p) PROVE QueuedOnce'
  <2> DEFINE t == IF "receive" \in owes[p] THEN "receive" ELSE "event"
             label == IF owes[p] \ {t} = {} THEN Resting(p) ELSE "signal"
  <2>1. pc' = [pc EXCEPT ![p] = label] /\ UNCHANGED lists /\ pc[p] = "signal"
    BY <1>6, Zenon DEF ReleaseToken, Leave, Goto
  <2>2. p \in Callback => WasQueued(p) /\ label \in {"signal", "queued"}
    BY <2>1 DEF WasQueued, Resting
  <2> HIDE DEF label
  <2>3. \A q \in Callback : WasQueued(q)' <=> WasQueued(q)
    BY <2>1, <2>2, QueuedStay
  <2>4. \A q \in Callback : Copies(q)' = Copies(q)
    BY <2>1 DEF Copies, lists
  <2> QED
    BY <2>3, <2>4, StayQueued
<1>7. CASE SetSink \/ ClearSink \/ CloseAgent \/ UNCHANGED vars
  <2>1. UNCHANGED <<pc, lists>>
    BY <1>7 DEF SetSink, ClearSink, CloseAgent, vars
  <2>2. \A p \in Callback : (WasQueued(p)' <=> WasQueued(p)) /\ Copies(p)' = Copies(p)
    BY <2>1 DEF WasQueued, Copies, lists
  <2> QED
    BY <2>2, StayQueued
<1> QED
  BY <1>1, <1>2, <1>3, <1>4, <1>5, <1>6, <1>7 DEF Next, ConsumerStep, ConsumerCall

-----------------------------------------------------------------------------

\* The wake tokens of an agent are binary: no lock is released twice, and a flag
\* is set exactly while its token is out, owed or just taken.
THEOREM TokensCorrect == Spec => []BinaryTokens
<1>1. TypeOK /\ OwesAtSignal /\ BinaryTokens /\ [Next]_vars => OwesAtSignal' /\ BinaryTokens'
  BY TokenStep DEF TokenInv
<1> QED
  BY <1>1, TokenInit, TypeCorrect, PTL DEF Spec

\* Nobody sleeps on something queued: whenever a consumer waits and a list it
\* waits for has something, its token is out, owed by a thread that is about to
\* release it, or another consumer is about to look at the lists.
THEOREM NobodySleeps == Spec => [](FlagsCoverLists /\ NoSleep)
<1>1. Init => FlagsCoverLists
  BY DEF Init, FlagsCoverLists
<1>2. TypeOK /\ FlagsCoverLists /\ [Next]_vars => FlagsCoverLists'
  BY FlagStep
<1>3. TypeOK /\ BinaryTokens /\ FlagsCoverLists => NoSleep
  <2> SUFFICES ASSUME TypeOK, BinaryTokens, FlagsCoverLists
               PROVE  NoSleepOnEvents /\ NoSleepOnDatagrams
    BY DEF NoSleep
  <2>1. ASSUME NEW t \in Token, signaled[t]
        PROVE  \/ available[t] > 0
               \/ \E p \in Process : t \in owes[p]
               \/ \E k \in Consumer : Clearing(k, t)
    <3>1. available[t] \in Nat
      BY DEF TypeOK
    <3>2. CASE available[t] = 0
      <4>1. PICK p \in Process : Holds(p, t)
        BY <2>1, <3>2 DEF BinaryTokens
      <4> QED
        BY <4>1 DEF Holds, Clearing
    <3> QED
      BY <3>1, <3>2
  <2>2. NoSleepOnEvents
    BY <2>1 DEF NoSleepOnEvents, FlagsCoverLists, Clearing, Token
  <2>3. NoSleepOnDatagrams
    BY <2>1 DEF NoSleepOnDatagrams, FlagsCoverLists, Clearing, Token
  <2> QED
    BY <2>2, <2>3
<1> QED
  BY <1>1, <1>2, <1>3, TypeCorrect, TokensCorrect, PTL DEF Spec

\* Nothing is lost and nothing is handed out twice: what was queued before the
\* agent closed is in one of the lists or with a consumer, once.
THEOREM QueuedOnceCorrect == Spec => []NothingLost
<1>1. Init => QueuedOnce
  <2> SUFFICES ASSUME Init, NEW p \in Callback
               PROVE  Copies(p) = IF WasQueued(p) THEN 1 ELSE 0
    BY DEF QueuedOnce
  <2>1. pc[p] = "new"
    BY DEF Init, Process
  <2>2. Places(<<>>, p) = {}
    BY DEF Places
  <2>3. Occurrences(<<>>, p) = 0
    BY <2>2, FS_EmptySet DEF Occurrences, Places
  <2> QED
    BY <2>1, <2>3 DEF Init, Copies, WasQueued
<1>2. TypeOK /\ QueuedOnce /\ [Next]_vars => QueuedOnce'
  BY OnceStep
<1>3. QueuedOnce => NothingLost
  BY DEF QueuedOnce, NothingLost, Copies, WasQueued
<1> QED
  BY <1>1, <1>2, <1>3, TypeCorrect, PTL DEF Spec

-----------------------------------------------------------------------------
(* P2PSession.  A gather takes a hold, a mapping and roles step by step, and  *)
(* answers, the handler's thread and libjuice come between any two steps, so  *)
(* the invariant says of every place what the program has taken so far.      *)

\* The publisher is none of its connectors.
LEMMA SetupSorts ==
  /\ Publisher \in Owners
  /\ \A c \in Connectors : c \in Owners /\ c # Publisher
  /\ \A o \in Owners : o = Publisher \/ o \in Connectors
  /\ None \notin Owners
BY SessionAssumption DEF Owners


\* One field of one owner's record set: the lemmas are cited with these closed.
WithAgent(f, o, x) == [f EXCEPT ![o].agent = x]
WithMapping(f, o, x) == [f EXCEPT ![o].mapping = x]
WithRemoteSet(f, o, x) == [f EXCEPT ![o].remoteSet = x]
WithRole(f, o, x) == [f EXCEPT ![o].role = x]
WithRemote(f, o, x) == [f EXCEPT ![o].remote = x]
WithStarted(f, o, x) == [f EXCEPT ![o].started = x]
WithHolds(f, o, x) == [f EXCEPT ![o].holds = x]
WithGathered(f, o, x) == [f EXCEPT ![o].gathered = x]
WithDone(f, o, x) == [f EXCEPT ![o].done = x]
WithEvent(f, o, x) == [f EXCEPT ![o].event = x]
WithConnected(f, o, x) == [f EXCEPT ![o].connected = x]

\* What keeps a function of connectors well typed, field by field.
LEMMA UDPFields ==
  ASSUME NEW f \in [Owners -> UDPState], NEW o \in Owners
  PROVE  /\ f[o].agent \in {"none", "open", "closed", "late"} /\ f[o].role \in Roles
         /\ \A x \in {"none", "open", "closed", "late"} : WithAgent(f, o, x) \in [Owners -> UDPState]
         /\ WithMapping(f, o, TRUE) \in [Owners -> UDPState]
         /\ WithMapping(f, o, FALSE) \in [Owners -> UDPState]
         /\ WithGathered(f, o, TRUE) \in [Owners -> UDPState]
         /\ WithRemoteSet(f, o, TRUE) \in [Owners -> UDPState]
         /\ \A x \in Roles : WithRole(f, o, x) \in [Owners -> UDPState]
<1>1. f[o].agent \in {"none", "open", "closed", "late"} /\ f[o].role \in Roles
  BY DEF UDPState
<1>2. \A x \in {"none", "open", "closed", "late"} : WithAgent(f, o, x) \in [Owners -> UDPState]
  BY DEF UDPState, WithAgent
<1>3. WithMapping(f, o, TRUE) \in [Owners -> UDPState]
  BY DEF UDPState, WithMapping
<1>4. WithMapping(f, o, FALSE) \in [Owners -> UDPState]
  BY DEF UDPState, WithMapping
<1>5. WithGathered(f, o, TRUE) \in [Owners -> UDPState]
  BY DEF UDPState, WithGathered
<1>6. WithRemoteSet(f, o, TRUE) \in [Owners -> UDPState]
  BY DEF UDPState, WithRemoteSet
<1>7. \A x \in Roles : WithRole(f, o, x) \in [Owners -> UDPState]
  BY DEF UDPState, WithRole
<1> QED
  BY <1>1, <1>2, <1>3, <1>4, <1>5, <1>6, <1>7

\* The same for what libjuice knows.
LEMMA ICEFields ==
  ASSUME NEW f \in [Owners -> ICEState], NEW o \in Owners
  PROVE  /\ f[o].role \in Roles /\ f[o].remote \in Owners \cup {None} /\ f[o].holds \in {0, 1}
         /\ \A x \in Roles : WithRole(f, o, x) \in [Owners -> ICEState]
         /\ \A x \in Owners \cup {None} : WithRemote(f, o, x) \in [Owners -> ICEState]
         /\ \A x \in {0, 1} : WithHolds(f, o, x) \in [Owners -> ICEState]
         /\ WithStarted(f, o, TRUE) \in [Owners -> ICEState]
         /\ WithEvent(f, o, FALSE) \in [Owners -> ICEState]
         /\ WithEvent(WithDone(f, o, TRUE), o, TRUE) \in [Owners -> ICEState]
         /\ WithConnected(f, o, TRUE) \in [Owners -> ICEState]
<1>1. f[o].role \in Roles /\ f[o].remote \in Owners \cup {None} /\ f[o].holds \in {0, 1}
  BY DEF ICEState
<1>2. \A x \in Roles : WithRole(f, o, x) \in [Owners -> ICEState]
  BY DEF ICEState, WithRole
<1>3. \A x \in Owners \cup {None} : WithRemote(f, o, x) \in [Owners -> ICEState]
  BY DEF ICEState, WithRemote
<1>4. \A x \in {0, 1} : WithHolds(f, o, x) \in [Owners -> ICEState]
  BY DEF ICEState, WithHolds
<1>5. WithStarted(f, o, TRUE) \in [Owners -> ICEState]
  BY DEF ICEState, WithStarted
<1>6. WithEvent(f, o, FALSE) \in [Owners -> ICEState]
  BY DEF ICEState, WithEvent
<1>7. WithEvent(WithDone(f, o, TRUE), o, TRUE) \in [Owners -> ICEState]
  BY DEF ICEState, WithEvent, WithDone
<1>8. WithConnected(f, o, TRUE) \in [Owners -> ICEState]
  BY DEF ICEState, WithConnected
<1> QED
  BY <1>1, <1>2, <1>3, <1>4, <1>5, <1>6, <1>7, <1>8

\* Taking or dropping a mapping leaves the role alone.
LEMMA MappingOnly ==
  ASSUME NEW f \in [Owners -> UDPState], NEW o \in Owners, NEW p \in Owners
  PROVE  /\ WithMapping(f, o, TRUE)[p].role = f[p].role
         /\ WithMapping(f, o, FALSE)[p].role = f[p].role
  BY DEF UDPState, WithMapping

\* The places at which a gather with a mapping has gathering on hold.
Held == {"start", "map", "mapping", "candidate", "release", "raise"}

\* The hold is counted where the program is, and nothing ends gathering meanwhile.
Holding(o) ==
  /\ at[o] \in {"hold", "map", "mapping", "candidate", "release", "raise"} => o \in UsesMapping
  /\ ice[o].holds = IF at[o] \in Held /\ o \in UsesMapping THEN 1 ELSE 0
  /\ at[o] \in Held /\ o \in UsesMapping => ~ice[o].done

\* A connector that has not started has neither an agent nor a mapping, and who is
\* over has none that gathered.
Unused(o) == udp[o].agent = "none" /\ ~udp[o].mapping
Owned(o) ==
  /\ o \in Connectors /\ at[o] \in {"offer", "describe"} => Unused(o)
  /\ at[o] \in {"closed", "over"} => udp[o].agent # "open" /\ ~udp[o].mapping

\* The publisher gathers before it describes: both sides of its agent say so, and
\* no answer arrives before that is true.
Offering ==
  /\ udp[Publisher].role \in {"unknown", "controlling"}
  /\ ice[Publisher].role \in {"unknown", "controlling"}
  /\ ice[Publisher].remote \in Connectors \cup {None}
  /\ at[Publisher] \in GatherPlaces => udp[Publisher].role = "controlling"
  /\ ice[Publisher].started =>
       udp[Publisher].role = "controlling" /\ ice[Publisher].role = "controlling"
  /\ ice[Publisher].event \/ at[Publisher] = "offered" => ice[Publisher].started
  /\ udp[Publisher].gathered => ice[Publisher].started
  /\ \A c \in Connectors :
       request[c] # "none" \/ at[c] \notin {"offer", "over"} => ice[Publisher].started

\* A connector describes before it gathers.
Answering(c) ==
  /\ at[c] \in {"offer", "describe"} =>
       udp[c].role = "unknown" /\ ice[c].role = "unknown" /\ ice[c].remote = None
  /\ ice[c].remote \in {Publisher, None}
  /\ ice[c].remote = Publisher => udp[c].role = "controlled" /\ ice[c].role = "controlled"

\* A connection is one between the publisher and the connector it has accepted.
Paired(o) ==
  ice[o].connected =>
    /\ ice[Publisher].started
    /\ ice[o].remote \in Owners
    /\ o = Publisher => ice[ice[o].remote].remote = Publisher

\* The inductive invariant.
SetupInv ==
  /\ SetupTypeOK
  /\ \A o \in Owners : Holding(o) /\ Owned(o) /\ Paired(o)
  /\ Offering
  /\ \A c \in Connectors : Answering(c)

\* It holds at first.
LEMMA SetupInvInit == SetupInit => SetupInv
<1> SUFFICES ASSUME SetupInit PROVE SetupInv
  OBVIOUS
<1> USE SetupSorts, SessionAssumption DEF SetupInit
<1>1. SetupTypeOK
  BY DEF SetupTypeOK, UDPState, ICEState, SetupPlaces, GatherPlaces, Roles
<1>2. \A o \in Owners : Holding(o) /\ Owned(o) /\ Paired(o)
  BY DEF Holding, Held, Owned, Unused, Paired
<1>3. Offering
  BY DEF Offering, GatherPlaces
<1>4. \A c \in Connectors : Answering(c)
  BY DEF Answering
<1> QED
  BY <1>1, <1>2, <1>3, <1>4 DEF SetupInv

\* The three invariants follow from it.
LEMMA SetupConsequences == SetupInv => OffererControls /\ HoldCoversMapping /\ NothingLeft
<1> SUFFICES ASSUME SetupInv PROVE OffererControls /\ HoldCoversMapping /\ NothingLeft
  OBVIOUS
<1>1. OffererControls
  BY SetupSorts DEF SetupInv, Paired, Offering, Answering, OffererControls
<1>2. HoldCoversMapping
  BY DEF SetupInv, Holding, Held, GatherPlaces, HoldCoversMapping
<1>3. NothingLeft
  BY DEF SetupInv, Owned, NothingLeft
<1> QED
  BY <1>1, <1>2, <1>3

\* Each action keeps it: UDPConnector.gather.
LEMMA BeginGatherStep ==
  ASSUME SetupInv, NEW o \in Owners, BeginGather(o)
  PROVE  SetupInv'
<1>1. SetupTypeOK'
  <2>1. at' \in [Owners -> SetupPlaces]
    BY SetupSorts
       DEF SetupTypeOK, SetupPlaces, GatherPlaces, BeginGather, Go, publisherVars, Either,
           SetupInv
  <2>2. udp' \in [Owners -> UDPState]
    <3> DEFINE opened == WithAgent(udp, o, "open")
    <3>1. opened \in [Owners -> UDPState]
      BY SetupSorts, UDPFields DEF SetupTypeOK, SetupInv
    <3>2. Either(udp[o].role, "controlling") \in Roles
      BY SetupSorts, UDPFields DEF SetupTypeOK, Roles, Either, SetupInv
    <3>3. udp' = WithRole(opened, o, Either(udp[o].role, "controlling"))
      BY SetupSorts
         DEF SetupTypeOK, WithAgent, WithRole, BeginGather, Go, publisherVars, Either,
             SetupInv
    <3> QED
      BY SetupSorts, <3>1, <3>2, <3>3, UDPFields
  <2>3. ice' \in [Owners -> ICEState]
    BY SetupSorts DEF SetupTypeOK, BeginGather, Go, publisherVars, Either, SetupInv
  <2> QED
    BY <2>1, <2>2, <2>3 DEF SetupTypeOK, SetupInv, BeginGather, Go, publisherVars, Either
<1>2. \A p \in Owners : Holding(p)'
  BY SetupSorts
     DEF SetupTypeOK, UDPState, ICEState, Holding, Held, SetupInv, BeginGather, Go,
         publisherVars, Either
<1>3. \A p \in Owners : Owned(p)'
  BY SetupSorts
     DEF SetupTypeOK, UDPState, ICEState, Owned, Unused, SetupInv, BeginGather, Go,
         publisherVars, Either
<1>4. \A p \in Owners : Paired(p)'
  BY SetupSorts
     DEF SetupTypeOK, UDPState, ICEState, Paired, Offering, Answering, SetupInv,
         BeginGather, Go, publisherVars, Either
<1>5. Offering'
  BY SetupSorts
     DEF SetupTypeOK, UDPState, ICEState, Offering, GatherPlaces, SetupInv,
         BeginGather, Go, publisherVars, Either
<1>6. \A p \in Connectors : Answering(p)'
  BY SetupSorts
     DEF SetupTypeOK, UDPState, ICEState, Answering, SetupInv, BeginGather, Go,
         publisherVars, Either
<1> QED
  BY <1>1, <1>2, <1>3, <1>4, <1>5, <1>6 DEF SetupInv

LEMMA HoldGatheringStep ==
  ASSUME SetupInv, NEW o \in Owners, HoldGathering(o)
  PROVE  SetupInv'
<1>1. SetupTypeOK'
  <2>1. at' \in [Owners -> SetupPlaces]
    BY SetupSorts
       DEF SetupTypeOK, SetupPlaces, GatherPlaces, HoldGathering, Go, publisherVars, Raised,
           SetupInv
  <2>2. udp' \in [Owners -> UDPState]
    BY SetupSorts DEF SetupTypeOK, HoldGathering, Go, publisherVars, Raised, SetupInv
  <2>3. ice' \in [Owners -> ICEState]
    <3>1. ice[o].holds = 0
      BY SetupSorts DEF HoldGathering, SetupTypeOK, Holding, Held, SetupInv
    <3>2. ice' = ice \/ ice' = WithHolds(ice, o, 1)
      BY SetupSorts, <3>1
         DEF SetupTypeOK, WithHolds, HoldGathering, Go, publisherVars, Raised, SetupInv
    <3>3. ice \in [Owners -> ICEState] /\ WithHolds(ice, o, 1) \in [Owners -> ICEState]
      BY SetupSorts, ICEFields DEF SetupTypeOK, SetupInv
    <3> QED
      BY Zenon, <3>2, <3>3
  <2> QED
    BY <2>1, <2>2, <2>3 DEF SetupTypeOK, SetupInv, HoldGathering, Go, publisherVars, Raised
<1>2. \A p \in Owners : Holding(p)'
  <2>1. CASE ice[o].done
    BY SetupSorts, <2>1
       DEF SetupTypeOK, UDPState, ICEState, Holding, Held, SetupInv, HoldGathering, Go,
           publisherVars, Raised
  <2>2. CASE ~ice[o].done
    BY SetupSorts, <2>2
       DEF SetupTypeOK, ICEState, Holding, Held, SetupInv, HoldGathering, Go,
           publisherVars, Raised
  <2> QED
    BY <2>1, <2>2
<1>3. \A p \in Owners : Owned(p)'
  BY SetupSorts
     DEF SetupTypeOK, UDPState, ICEState, Owned, Unused, SetupInv, HoldGathering, Go,
         publisherVars, Raised
<1>4. \A p \in Owners : Paired(p)'
  <2>1. \A p \in Owners : ice'[p].connected = ice[p].connected /\ ice'[p].remote = ice[p].remote
    BY SetupSorts DEF SetupTypeOK, ICEState, SetupInv, HoldGathering
  <2>2. ice[Publisher].started => ice'[Publisher].started
    BY SetupSorts DEF SetupTypeOK, ICEState, SetupInv, HoldGathering
  <2>3. \A p \in Owners : Paired(p)
    BY DEF SetupInv
  <2> QED
    BY <2>1, <2>2, <2>3, SetupSorts DEF Paired
<1>5. Offering'
  <2>1. /\ ice'[Publisher].role = ice[Publisher].role
        /\ ice'[Publisher].remote = ice[Publisher].remote
        /\ ice'[Publisher].started = ice[Publisher].started
        /\ ice'[Publisher].event = ice[Publisher].event
    BY SetupSorts DEF SetupTypeOK, ICEState, SetupInv, HoldGathering
  <2>2. at'[Publisher] # at[Publisher] => at[Publisher] \in GatherPlaces /\ at'[Publisher] # "offered"
    BY SetupSorts DEF SetupTypeOK, SetupInv, HoldGathering, Go, Raised, GatherPlaces
  <2>3. UNCHANGED <<udp, request>>
    BY DEF HoldGathering, publisherVars
  <2>4. \A p \in Connectors : at'[p] \notin {"offer", "over"} => at[p] \notin {"offer", "over"}
    BY SetupSorts DEF SetupTypeOK, SetupInv, HoldGathering, Go, Raised
  <2> QED
    BY <2>1, <2>2, <2>3, <2>4 DEF Offering, SetupInv
<1>6. \A p \in Connectors : Answering(p)'
  <2>1. \A p \in Connectors : ice'[p].role = ice[p].role /\ ice'[p].remote = ice[p].remote
    BY SetupSorts DEF SetupTypeOK, ICEState, SetupInv, HoldGathering
  <2>2. \A p \in Connectors : at'[p] \in {"offer", "describe"} => at[p] \in {"offer", "describe"}
    BY SetupSorts DEF SetupTypeOK, SetupInv, HoldGathering, Go, Raised
  <2>3. UNCHANGED udp
    BY DEF HoldGathering
  <2> QED
    BY <2>1, <2>2, <2>3 DEF Answering, SetupInv
<1> QED
  BY <1>1, <1>2, <1>3, <1>4, <1>5, <1>6 DEF SetupInv

LEMMA StartGatheringStep ==
  ASSUME SetupInv, NEW o \in Owners, StartGathering(o)
  PROVE  SetupInv'
<1>1. SetupTypeOK'
  <2>1. at' \in [Owners -> SetupPlaces]
    BY SetupSorts
       DEF SetupTypeOK, SetupPlaces, GatherPlaces, StartGathering, Go, publisherVars, Raised,
           Either, SetupInv
  <2>2. udp' \in [Owners -> UDPState]
    BY SetupSorts DEF SetupTypeOK, StartGathering, Go, publisherVars, Raised, Either, SetupInv
  <2>3. ice' \in [Owners -> ICEState]
    <3> DEFINE started == WithStarted(ice, o, TRUE)
    <3>1. started \in [Owners -> ICEState]
      BY SetupSorts, ICEFields DEF SetupTypeOK, SetupInv
    <3>2. Either(ice[o].role, "controlling") \in Roles
      BY SetupSorts, ICEFields DEF SetupTypeOK, Roles, Either, SetupInv
    <3>3. ice' = ice \/ ice' = WithRole(started, o, Either(ice[o].role, "controlling"))
      BY SetupSorts
         DEF SetupTypeOK, WithStarted, WithRole, StartGathering, Go, publisherVars, Raised,
             Either, SetupInv
    <3> HIDE DEF started
    <3>4. ice \in [Owners -> ICEState] /\ WithRole(started, o, Either(ice[o].role, "controlling")) \in [Owners -> ICEState]
      BY SetupSorts, <3>1, <3>2, ICEFields DEF SetupTypeOK, Either, SetupInv
    <3> QED
      BY Zenon, <3>3, <3>4
  <2> QED
    BY <2>1, <2>2, <2>3
       DEF SetupTypeOK, SetupInv, StartGathering, Go, publisherVars, Raised, Either
<1>2. \A p \in Owners : Holding(p)'
  <2>1. \A p \in Owners : ice'[p].holds = ice[p].holds /\ ice'[p].done = ice[p].done
    BY SetupSorts DEF SetupTypeOK, ICEState, SetupInv, StartGathering
  <2> QED
    BY <2>1 DEF SetupTypeOK, Holding, Held, SetupInv, StartGathering, Go, Raised
<1>3. \A p \in Owners : Owned(p)'
  BY SetupSorts
     DEF SetupTypeOK, UDPState, ICEState, Owned, Unused, SetupInv, StartGathering, Go,
         publisherVars, Raised, Either
<1>4. \A p \in Owners : Paired(p)'
  <2>1. \A p \in Owners : ice'[p].connected = ice[p].connected /\ ice'[p].remote = ice[p].remote
    BY SetupSorts DEF SetupTypeOK, ICEState, SetupInv, StartGathering
  <2>2. ice[Publisher].started => ice'[Publisher].started
    BY SetupSorts DEF SetupTypeOK, ICEState, SetupInv, StartGathering
  <2>3. \A p \in Owners : Paired(p)
    BY DEF SetupInv
  <2> QED
    BY <2>1, <2>2, <2>3, SetupSorts DEF Paired
<1>5. Offering'
  <2>0. \A p \in Connectors : at'[p] \notin {"offer", "over"} => at[p] \notin {"offer", "over"}
    BY SetupSorts DEF SetupTypeOK, SetupInv, StartGathering, Go, Raised
  <2>1. CASE o = Publisher
    <3>1. udp[o].role = "controlling"
      BY <2>1 DEF SetupInv, Offering, StartGathering, GatherPlaces
    <3>2. /\ ice'[o].role \in {ice[o].role, Either(ice[o].role, "controlling")}
          /\ ice'[o].remote = ice[o].remote /\ ice'[o].event = ice[o].event
          /\ ice[o].started => ice'[o].started
          /\ ice'[o].started => ice[o].started \/ ice'[o].role = Either(ice[o].role, "controlling")
          /\ ice[o].started => ice'[o].role \in {ice[o].role, Either(ice[o].role, "controlling")}
      BY SetupSorts DEF SetupTypeOK, ICEState, SetupInv, StartGathering
    <3>3. at'[o] # "offered" /\ UNCHANGED <<udp, request>>
      BY SetupSorts DEF SetupTypeOK, SetupInv, StartGathering, Go, Raised, publisherVars
    <3> QED
      BY <2>0, <2>1, <3>1, <3>2, <3>3 DEF Offering, SetupInv, Either
  <2>2. CASE o # Publisher
    <3>1. ice'[Publisher] = ice[Publisher] /\ at'[Publisher] = at[Publisher]
      BY <2>2, SetupSorts DEF SetupTypeOK, SetupInv, StartGathering, Go
    <3>2. UNCHANGED <<udp, request>>
      BY DEF StartGathering, publisherVars
    <3> QED
      BY <2>0, <3>1, <3>2 DEF Offering, SetupInv
  <2> QED
    BY <2>1, <2>2
<1>6. \A p \in Connectors : Answering(p)'
  <2>1. \A p \in Connectors :
          /\ ice'[p].remote = ice[p].remote
          /\ p # o => ice'[p] = ice[p]
          /\ ice[p].role = "controlled" => ice'[p].role = "controlled"
    BY SetupSorts DEF SetupTypeOK, ICEState, SetupInv, StartGathering, Either
  <2>2. \A p \in Connectors : at'[p] \in {"offer", "describe"} =>
          at[p] \in {"offer", "describe"} /\ p # o
    BY SetupSorts DEF SetupTypeOK, SetupInv, StartGathering, Go, Raised
  <2>3. UNCHANGED udp
    BY DEF StartGathering
  <2> QED
    BY <2>1, <2>2, <2>3 DEF Answering, SetupInv
<1> QED
  BY <1>1, <1>2, <1>3, <1>4, <1>5, <1>6 DEF SetupInv

LEMMA CreateMappingStep ==
  ASSUME SetupInv, NEW o \in Owners, CreateMapping(o)
  PROVE  SetupInv'
<1>1. SetupTypeOK'
  <2>1. at' \in [Owners -> SetupPlaces]
    BY SetupSorts
       DEF SetupTypeOK, SetupPlaces, GatherPlaces, CreateMapping, Go, publisherVars,
           TakeMapping, DropMapping, SetupInv
  <2>2. udp' \in [Owners -> UDPState]
    <3>1. udp' = WithMapping(udp, o, TRUE) \/ udp' = WithMapping(udp, o, FALSE)
      BY SetupSorts DEF WithMapping, CreateMapping, Go, publisherVars, TakeMapping, DropMapping
    <3>2. WithMapping(udp, o, TRUE) \in [Owners -> UDPState] /\ WithMapping(udp, o, FALSE) \in [Owners -> UDPState]
      BY SetupSorts, UDPFields DEF SetupTypeOK, SetupInv
    <3> QED
      BY Zenon, <3>1, <3>2
  <2>3. ice' \in [Owners -> ICEState]
    BY SetupSorts
       DEF SetupTypeOK, CreateMapping, Go, publisherVars, TakeMapping, DropMapping, SetupInv
  <2> QED
    BY <2>1, <2>2, <2>3
       DEF SetupTypeOK, SetupInv, CreateMapping, Go, publisherVars, TakeMapping, DropMapping
<1>2. \A p \in Owners : Holding(p)'
  BY SetupSorts
     DEF SetupTypeOK, UDPState, ICEState, Holding, Held, SetupInv, CreateMapping, Go,
         publisherVars, TakeMapping, DropMapping
<1>3. \A p \in Owners : Owned(p)'
  BY SetupSorts
     DEF SetupTypeOK, UDPState, ICEState, Owned, Unused, SetupInv, CreateMapping, Go,
         publisherVars, TakeMapping, DropMapping
<1>4. \A p \in Owners : Paired(p)'
  BY SetupSorts
     DEF SetupTypeOK, UDPState, ICEState, Paired, Offering, Answering, SetupInv,
         CreateMapping, Go, publisherVars, TakeMapping, DropMapping
<1>5. Offering'
  <2>1. UNCHANGED <<ice, request>>
    BY DEF CreateMapping, publisherVars
  <2>2. udp'[Publisher].role = udp[Publisher].role /\ udp'[Publisher].gathered = udp[Publisher].gathered
    BY SetupSorts DEF SetupTypeOK, UDPState, SetupInv, CreateMapping, TakeMapping, DropMapping
  <2>3. at[o] = "map" /\ (at' = [at EXCEPT ![o] = "mapping"] \/ at' = [at EXCEPT ![o] = "release"])
    BY DEF CreateMapping, Go
  <2>4. Offering
    BY DEF SetupInv
  <2>5. at \in [Owners -> SetupPlaces]
    BY DEF SetupInv, SetupTypeOK
  <2> QED
    BY <2>1, <2>2, <2>3, <2>4, <2>5, SetupSorts DEF Offering, GatherPlaces
<1>6. \A p \in Connectors : Answering(p)'
  <2>1. \A p \in Owners : udp'[p].role = udp[p].role
    <3>1. udp' = WithMapping(udp, o, TRUE) \/ udp' = WithMapping(udp, o, FALSE)
      BY DEF WithMapping, CreateMapping, TakeMapping, DropMapping
    <3>2. udp \in [Owners -> UDPState]
      BY DEF SetupTypeOK, SetupInv
    <3>3. \A p \in Owners : /\ WithMapping(udp, o, TRUE)[p].role = udp[p].role
                           /\ WithMapping(udp, o, FALSE)[p].role = udp[p].role
      BY <3>2, MappingOnly
    <3> QED
      BY Zenon, <3>1, <3>3
  <2>2. \A p \in Connectors : at'[p] \in {"offer", "describe"} => at[p] \in {"offer", "describe"}
    BY SetupSorts DEF SetupTypeOK, SetupInv, CreateMapping, Go
  <2>3. UNCHANGED ice
    BY DEF CreateMapping
  <2> QED
    BY <2>1, <2>2, <2>3, SetupSorts DEF Answering, SetupInv
<1> QED
  BY <1>1, <1>2, <1>3, <1>4, <1>5, <1>6 DEF SetupInv

LEMMA MappingAnsweredStep ==
  ASSUME SetupInv, NEW o \in Owners, MappingAnswered(o)
  PROVE  SetupInv'
<1>1. SetupTypeOK'
  <2>1. at' \in [Owners -> SetupPlaces]
    BY SetupSorts
       DEF SetupTypeOK, SetupPlaces, GatherPlaces, MappingAnswered, Go, publisherVars,
           DropMapping, SetupInv
  <2>2. udp' \in [Owners -> UDPState]
    <3>1. udp' = udp \/ udp' = WithMapping(udp, o, FALSE)
      BY SetupSorts DEF WithMapping, MappingAnswered, Go, publisherVars, DropMapping
    <3>2. udp \in [Owners -> UDPState] /\ WithMapping(udp, o, FALSE) \in [Owners -> UDPState]
      BY SetupSorts, UDPFields DEF SetupTypeOK, SetupInv
    <3> QED
      BY Zenon, <3>1, <3>2
  <2>3. ice' \in [Owners -> ICEState]
    BY SetupSorts DEF SetupTypeOK, MappingAnswered, Go, publisherVars, DropMapping, SetupInv
  <2> QED
    BY <2>1, <2>2, <2>3 DEF SetupTypeOK, SetupInv, MappingAnswered, Go, publisherVars, DropMapping
<1>2. \A p \in Owners : Holding(p)'
  BY SetupSorts
     DEF SetupTypeOK, UDPState, ICEState, Holding, Held, SetupInv, MappingAnswered, Go,
         publisherVars, DropMapping
<1>3. \A p \in Owners : Owned(p)'
  BY SetupSorts
     DEF SetupTypeOK, UDPState, ICEState, Owned, Unused, SetupInv, MappingAnswered, Go,
         publisherVars, DropMapping
<1>4. \A p \in Owners : Paired(p)'
  BY SetupSorts
     DEF SetupTypeOK, UDPState, ICEState, Paired, Offering, Answering, SetupInv,
         MappingAnswered, Go, publisherVars, DropMapping
<1>5. Offering'
  BY SetupSorts
     DEF SetupTypeOK, UDPState, ICEState, Offering, GatherPlaces, SetupInv,
         MappingAnswered, Go, publisherVars, DropMapping
<1>6. \A p \in Connectors : Answering(p)'
  <2>1. \A p \in Owners : udp'[p].role = udp[p].role
    <3>1. udp' = udp \/ udp' = WithMapping(udp, o, FALSE)
      BY DEF WithMapping, MappingAnswered, TakeMapping, DropMapping
    <3>2. udp \in [Owners -> UDPState]
      BY DEF SetupTypeOK, SetupInv
    <3>3. \A p \in Owners : /\ WithMapping(udp, o, TRUE)[p].role = udp[p].role
                           /\ WithMapping(udp, o, FALSE)[p].role = udp[p].role
      BY <3>2, MappingOnly
    <3> QED
      BY Zenon, <3>1, <3>3
  <2>2. \A p \in Connectors : at'[p] \in {"offer", "describe"} => at[p] \in {"offer", "describe"}
    BY SetupSorts DEF SetupTypeOK, SetupInv, MappingAnswered, Go
  <2>3. UNCHANGED ice
    BY DEF MappingAnswered
  <2> QED
    BY <2>1, <2>2, <2>3, SetupSorts DEF Answering, SetupInv
<1> QED
  BY <1>1, <1>2, <1>3, <1>4, <1>5, <1>6 DEF SetupInv

LEMMA AddMappedCandidateStep ==
  ASSUME SetupInv, NEW o \in Owners, AddMappedCandidate(o)
  PROVE  SetupInv'
<1>1. SetupTypeOK'
  <2>1. at' \in [Owners -> SetupPlaces]
    BY SetupSorts
       DEF SetupTypeOK, SetupPlaces, GatherPlaces, AddMappedCandidate, Go, publisherVars,
           DropMapping, SetupInv
  <2>2. udp' \in [Owners -> UDPState]
    <3>1. udp' = udp \/ udp' = WithMapping(udp, o, FALSE)
      BY SetupSorts DEF WithMapping, AddMappedCandidate, Go, publisherVars, DropMapping
    <3>2. udp \in [Owners -> UDPState] /\ WithMapping(udp, o, FALSE) \in [Owners -> UDPState]
      BY SetupSorts, UDPFields DEF SetupTypeOK, SetupInv
    <3> QED
      BY Zenon, <3>1, <3>2
  <2>3. ice' \in [Owners -> ICEState]
    BY SetupSorts DEF SetupTypeOK, AddMappedCandidate, Go, publisherVars, DropMapping, SetupInv
  <2> QED
    BY <2>1, <2>2, <2>3
       DEF SetupTypeOK, SetupInv, AddMappedCandidate, Go, publisherVars, DropMapping
<1>2. \A p \in Owners : Holding(p)'
  BY SetupSorts
     DEF SetupTypeOK, UDPState, ICEState, Holding, Held, SetupInv, AddMappedCandidate,
         Go, publisherVars, DropMapping
<1>3. \A p \in Owners : Owned(p)'
  BY SetupSorts
     DEF SetupTypeOK, UDPState, ICEState, Owned, Unused, SetupInv, AddMappedCandidate,
         Go, publisherVars, DropMapping
<1>4. \A p \in Owners : Paired(p)'
  BY SetupSorts
     DEF SetupTypeOK, UDPState, ICEState, Paired, Offering, Answering, SetupInv,
         AddMappedCandidate, Go, publisherVars, DropMapping
<1>5. Offering'
  BY SetupSorts
     DEF SetupTypeOK, UDPState, ICEState, Offering, GatherPlaces, SetupInv,
         AddMappedCandidate, Go, publisherVars, DropMapping
<1>6. \A p \in Connectors : Answering(p)'
  <2>1. \A p \in Owners : udp'[p].role = udp[p].role
    <3>1. udp' = udp \/ udp' = WithMapping(udp, o, FALSE)
      BY DEF WithMapping, AddMappedCandidate, TakeMapping, DropMapping
    <3>2. udp \in [Owners -> UDPState]
      BY DEF SetupTypeOK, SetupInv
    <3>3. \A p \in Owners : /\ WithMapping(udp, o, TRUE)[p].role = udp[p].role
                           /\ WithMapping(udp, o, FALSE)[p].role = udp[p].role
      BY <3>2, MappingOnly
    <3> QED
      BY Zenon, <3>1, <3>3
  <2>2. \A p \in Connectors : at'[p] \in {"offer", "describe"} => at[p] \in {"offer", "describe"}
    BY SetupSorts DEF SetupTypeOK, SetupInv, AddMappedCandidate, Go
  <2>3. UNCHANGED ice
    BY DEF AddMappedCandidate
  <2> QED
    BY <2>1, <2>2, <2>3, SetupSorts DEF Answering, SetupInv
<1> QED
  BY <1>1, <1>2, <1>3, <1>4, <1>5, <1>6 DEF SetupInv

LEMMA ReleaseGatheringStep ==
  ASSUME SetupInv, NEW o \in Owners, ReleaseGathering(o)
  PROVE  SetupInv'
<1>1. SetupTypeOK'
  <2>1. at' \in [Owners -> SetupPlaces]
    BY SetupSorts
       DEF SetupTypeOK, SetupPlaces, GatherPlaces, ReleaseGathering, Go, publisherVars,
           Raised, SetupInv
  <2>2. udp' \in [Owners -> UDPState]
    BY SetupSorts DEF SetupTypeOK, ReleaseGathering, Go, publisherVars, Raised, SetupInv
  <2>3. ice' \in [Owners -> ICEState]
    <3>1. ice[o].holds = 1
      BY SetupSorts DEF ReleaseGathering, SetupTypeOK, Holding, Held, SetupInv
    <3>2. ice' = WithHolds(ice, o, 0)
      BY SetupSorts, <3>1
         DEF SetupTypeOK, WithHolds, ReleaseGathering, Go, publisherVars, Raised, SetupInv
    <3> QED
      BY SetupSorts, <3>2, ICEFields DEF SetupTypeOK, SetupInv
  <2> QED
    BY <2>1, <2>2, <2>3 DEF SetupTypeOK, SetupInv, ReleaseGathering, Go, publisherVars, Raised
<1>2. \A p \in Owners : Holding(p)'
  BY SetupSorts
     DEF SetupTypeOK, UDPState, ICEState, Holding, Held, SetupInv, ReleaseGathering,
         Go, publisherVars, Raised
<1>3. \A p \in Owners : Owned(p)'
  BY SetupSorts
     DEF SetupTypeOK, UDPState, ICEState, Owned, Unused, SetupInv, ReleaseGathering,
         Go, publisherVars, Raised
<1>4. \A p \in Owners : Paired(p)'
  BY SetupSorts
     DEF SetupTypeOK, UDPState, ICEState, Paired, Offering, Answering, SetupInv,
         ReleaseGathering, Go, publisherVars, Raised
<1>5. Offering'
  BY SetupSorts
     DEF SetupTypeOK, UDPState, ICEState, Offering, GatherPlaces, SetupInv,
         ReleaseGathering, Go, publisherVars, Raised
<1>6. \A p \in Connectors : Answering(p)'
  BY SetupSorts
     DEF SetupTypeOK, UDPState, ICEState, Answering, SetupInv, ReleaseGathering, Go,
         publisherVars, Raised
<1> QED
  BY <1>1, <1>2, <1>3, <1>4, <1>5, <1>6 DEF SetupInv

LEMMA AwaitGatheringDoneStep ==
  ASSUME SetupInv, NEW o \in Owners, AwaitGatheringDone(o)
  PROVE  SetupInv'
<1>1. SetupTypeOK'
  <2>1. at' \in [Owners -> SetupPlaces]
    BY SetupSorts
       DEF SetupTypeOK, SetupPlaces, GatherPlaces, AwaitGatheringDone, Go, publisherVars,
           SetupInv
  <2>2. udp' \in [Owners -> UDPState]
    <3>1. udp' = WithGathered(udp, o, TRUE)
      BY SetupSorts DEF SetupTypeOK, WithGathered, AwaitGatheringDone, Go, publisherVars, SetupInv
    <3> QED
      BY SetupSorts, <3>1, UDPFields DEF SetupTypeOK, SetupInv
  <2>3. ice' \in [Owners -> ICEState]
    <3>1. ice' = WithEvent(ice, o, FALSE)
      BY SetupSorts DEF SetupTypeOK, WithEvent, AwaitGatheringDone, Go, publisherVars, SetupInv
    <3> QED
      BY SetupSorts, <3>1, ICEFields DEF SetupTypeOK, SetupInv
  <2> QED
    BY <2>1, <2>2, <2>3 DEF SetupTypeOK, SetupInv, AwaitGatheringDone, Go, publisherVars
<1>2. \A p \in Owners : Holding(p)'
  BY SetupSorts
     DEF SetupTypeOK, UDPState, ICEState, Holding, Held, SetupInv, AwaitGatheringDone,
         Go, publisherVars
<1>3. \A p \in Owners : Owned(p)'
  BY SetupSorts
     DEF SetupTypeOK, UDPState, ICEState, Owned, Unused, SetupInv, AwaitGatheringDone,
         Go, publisherVars
<1>4. \A p \in Owners : Paired(p)'
  BY SetupSorts
     DEF SetupTypeOK, UDPState, ICEState, Paired, Offering, Answering, SetupInv,
         AwaitGatheringDone, Go, publisherVars
<1>5. Offering'
  BY SetupSorts
     DEF SetupTypeOK, UDPState, ICEState, Offering, GatherPlaces, SetupInv,
         AwaitGatheringDone, Go, publisherVars
<1>6. \A p \in Connectors : Answering(p)'
  BY SetupSorts
     DEF SetupTypeOK, UDPState, ICEState, Answering, SetupInv, AwaitGatheringDone, Go,
         publisherVars
<1> QED
  BY <1>1, <1>2, <1>3, <1>4, <1>5, <1>6 DEF SetupInv

LEMMA GatheringTimesOutStep ==
  ASSUME SetupInv, NEW o \in Owners, GatheringTimesOut(o)
  PROVE  SetupInv'
<1>1. SetupTypeOK'
  BY SetupSorts
     DEF SetupTypeOK, UDPState, ICEState, SetupPlaces, GatherPlaces, Roles, SetupInv,
         GatheringTimesOut, Go, publisherVars, Raised
<1>2. \A p \in Owners : Holding(p)'
  BY SetupSorts
     DEF SetupTypeOK, UDPState, ICEState, Holding, Held, SetupInv, GatheringTimesOut,
         Go, publisherVars, Raised
<1>3. \A p \in Owners : Owned(p)'
  BY SetupSorts
     DEF SetupTypeOK, UDPState, ICEState, Owned, Unused, SetupInv, GatheringTimesOut,
         Go, publisherVars, Raised
<1>4. \A p \in Owners : Paired(p)'
  BY SetupSorts
     DEF SetupTypeOK, UDPState, ICEState, Paired, Offering, Answering, SetupInv,
         GatheringTimesOut, Go, publisherVars, Raised
<1>5. Offering'
  BY SetupSorts
     DEF SetupTypeOK, UDPState, ICEState, Offering, GatherPlaces, SetupInv,
         GatheringTimesOut, Go, publisherVars, Raised
<1>6. \A p \in Connectors : Answering(p)'
  BY SetupSorts
     DEF SetupTypeOK, UDPState, ICEState, Answering, SetupInv, GatheringTimesOut, Go,
         publisherVars, Raised
<1> QED
  BY <1>1, <1>2, <1>3, <1>4, <1>5, <1>6 DEF SetupInv

\* P2PConnector.connect.
LEMMA GetOfferStep ==
  ASSUME SetupInv, NEW c \in Connectors, GetOffer(c)
  PROVE  SetupInv'
<1>1. SetupTypeOK'
  BY SetupSorts
     DEF SetupTypeOK, UDPState, ICEState, SetupPlaces, GatherPlaces, Roles, SetupInv,
         GetOffer, Go, publisherVars
<1>2. \A p \in Owners : Holding(p)'
  BY SetupSorts
     DEF SetupTypeOK, UDPState, ICEState, Holding, Held, SetupInv, GetOffer, Go,
         publisherVars
<1>3. \A p \in Owners : Owned(p)'
  BY SetupSorts
     DEF SetupTypeOK, UDPState, ICEState, Owned, Unused, SetupInv, GetOffer, Go,
         publisherVars
<1>4. \A p \in Owners : Paired(p)'
  BY SetupSorts
     DEF SetupTypeOK, UDPState, ICEState, Paired, Offering, Answering, SetupInv,
         GetOffer, Go, publisherVars
<1>5. Offering'
  BY SetupSorts
     DEF SetupTypeOK, UDPState, ICEState, Offering, GatherPlaces, SetupInv, GetOffer,
         Go, publisherVars
<1>6. \A p \in Connectors : Answering(p)'
  BY SetupSorts
     DEF SetupTypeOK, UDPState, ICEState, Answering, SetupInv, GetOffer, Go,
         publisherVars
<1> QED
  BY <1>1, <1>2, <1>3, <1>4, <1>5, <1>6 DEF SetupInv

LEMMA DescribeOfferStep ==
  ASSUME SetupInv, NEW c \in Connectors, DescribeOffer(c)
  PROVE  SetupInv'
<1>1. SetupTypeOK'
  <2>1. at' \in [Owners -> SetupPlaces]
    BY SetupSorts
       DEF SetupTypeOK, SetupPlaces, GatherPlaces, DescribeOffer, Go, publisherVars, Either,
           SetupInv
  <2>2. udp' \in [Owners -> UDPState]
    <3> DEFINE opened == WithAgent(udp, c, "open")
               described == WithRole(opened, c, Either(udp[c].role, "controlled"))
    <3>1. opened \in [Owners -> UDPState]
      BY SetupSorts, UDPFields DEF SetupTypeOK, SetupInv
    <3>2. Either(udp[c].role, "controlled") \in Roles
      BY SetupSorts, UDPFields DEF SetupTypeOK, Roles, Either, SetupInv
    <3>3. described \in [Owners -> UDPState]
      BY SetupSorts, <3>1, <3>2, UDPFields
    <3>4. udp' = described \/ udp' = WithRemoteSet(described, c, TRUE)
      BY SetupSorts
         DEF SetupTypeOK, WithAgent, WithRole, WithRemoteSet, DescribeOffer, Go,
             publisherVars, Either, SetupInv
    <3> HIDE DEF described
    <3>5. described \in [Owners -> UDPState] /\ WithRemoteSet(described, c, TRUE) \in [Owners -> UDPState]
      BY SetupSorts, <3>3, UDPFields
    <3> QED
      BY Zenon, <3>4, <3>5
  <2>3. ice' \in [Owners -> ICEState]
    <3> DEFINE informed == WithRemote(ice, c, Publisher)
    <3>1. informed \in [Owners -> ICEState]
      BY SetupSorts, ICEFields DEF SetupTypeOK, SetupInv
    <3>2. Either(ice[c].role, "controlled") \in Roles
      BY SetupSorts, ICEFields DEF SetupTypeOK, Roles, Either, SetupInv
    <3>3. ice' = ice \/ ice' = WithRole(informed, c, Either(ice[c].role, "controlled"))
      BY SetupSorts
         DEF SetupTypeOK, WithRemote, WithRole, DescribeOffer, Go, publisherVars, Either,
             SetupInv
    <3> HIDE DEF informed
    <3>4. ice \in [Owners -> ICEState] /\ WithRole(informed, c, Either(ice[c].role, "controlled")) \in [Owners -> ICEState]
      BY SetupSorts, <3>1, <3>2, ICEFields DEF SetupTypeOK, Either, SetupInv
    <3> QED
      BY Zenon, <3>3, <3>4
  <2> QED
    BY <2>1, <2>2, <2>3 DEF SetupTypeOK, SetupInv, DescribeOffer, Go, publisherVars, Either
<1>2. \A p \in Owners : Holding(p)'
  BY SetupSorts
     DEF SetupTypeOK, UDPState, ICEState, Holding, Held, SetupInv, DescribeOffer, Go,
         publisherVars, Either
<1>3. \A p \in Owners : Owned(p)'
  BY SetupSorts
     DEF SetupTypeOK, UDPState, ICEState, Owned, Unused, SetupInv, DescribeOffer, Go,
         publisherVars, Either
<1>4. \A p \in Owners : Paired(p)'
  BY SetupSorts
     DEF SetupTypeOK, UDPState, ICEState, Paired, Offering, Answering, SetupInv,
         DescribeOffer, Go, publisherVars, Either
<1>5. Offering'
  BY SetupSorts
     DEF SetupTypeOK, UDPState, ICEState, Offering, GatherPlaces, SetupInv,
         DescribeOffer, Go, publisherVars, Either
<1>6. \A p \in Connectors : Answering(p)'
  BY SetupSorts
     DEF SetupTypeOK, UDPState, ICEState, Answering, SetupInv, DescribeOffer, Go,
         publisherVars, Either
<1> QED
  BY <1>1, <1>2, <1>3, <1>4, <1>5, <1>6 DEF SetupInv

LEMMA SendAnswerStep ==
  ASSUME SetupInv, NEW c \in Connectors, SendAnswer(c)
  PROVE  SetupInv'
<1>1. SetupTypeOK'
  BY SetupSorts
     DEF SetupTypeOK, UDPState, ICEState, SetupPlaces, GatherPlaces, Roles, SetupInv,
         SendAnswer, Go, publisherVars
<1>2. \A p \in Owners : Holding(p)'
  BY SetupSorts
     DEF SetupTypeOK, UDPState, ICEState, Holding, Held, SetupInv, SendAnswer, Go,
         publisherVars
<1>3. \A p \in Owners : Owned(p)'
  BY SetupSorts
     DEF SetupTypeOK, UDPState, ICEState, Owned, Unused, SetupInv, SendAnswer, Go,
         publisherVars
<1>4. \A p \in Owners : Paired(p)'
  BY SetupSorts
     DEF SetupTypeOK, UDPState, ICEState, Paired, Offering, Answering, SetupInv,
         SendAnswer, Go, publisherVars
<1>5. Offering'
  BY SetupSorts
     DEF SetupTypeOK, UDPState, ICEState, Offering, GatherPlaces, SetupInv, SendAnswer,
         Go, publisherVars
<1>6. \A p \in Connectors : Answering(p)'
  BY SetupSorts
     DEF SetupTypeOK, UDPState, ICEState, Answering, SetupInv, SendAnswer, Go,
         publisherVars
<1> QED
  BY <1>1, <1>2, <1>3, <1>4, <1>5, <1>6 DEF SetupInv

LEMMA AnswerAcceptedStep ==
  ASSUME SetupInv, NEW c \in Connectors, AnswerAccepted(c)
  PROVE  SetupInv'
<1>1. SetupTypeOK'
  BY SetupSorts
     DEF SetupTypeOK, UDPState, ICEState, SetupPlaces, GatherPlaces, Roles, SetupInv,
         AnswerAccepted, Go, publisherVars
<1>2. \A p \in Owners : Holding(p)'
  BY SetupSorts
     DEF SetupTypeOK, UDPState, ICEState, Holding, Held, SetupInv, AnswerAccepted, Go,
         publisherVars
<1>3. \A p \in Owners : Owned(p)'
  BY SetupSorts
     DEF SetupTypeOK, UDPState, ICEState, Owned, Unused, SetupInv, AnswerAccepted, Go,
         publisherVars
<1>4. \A p \in Owners : Paired(p)'
  BY SetupSorts
     DEF SetupTypeOK, UDPState, ICEState, Paired, Offering, Answering, SetupInv,
         AnswerAccepted, Go, publisherVars
<1>5. Offering'
  BY SetupSorts
     DEF SetupTypeOK, UDPState, ICEState, Offering, GatherPlaces, SetupInv,
         AnswerAccepted, Go, publisherVars
<1>6. \A p \in Connectors : Answering(p)'
  BY SetupSorts
     DEF SetupTypeOK, UDPState, ICEState, Answering, SetupInv, AnswerAccepted, Go,
         publisherVars
<1> QED
  BY <1>1, <1>2, <1>3, <1>4, <1>5, <1>6 DEF SetupInv

LEMMA TryTCPStep ==
  ASSUME SetupInv, NEW c \in Connectors, TryTCP(c)
  PROVE  SetupInv'
<1>1. SetupTypeOK'
  BY SetupSorts
     DEF SetupTypeOK, UDPState, ICEState, SetupPlaces, GatherPlaces, Roles, SetupInv, TryTCP,
         Go, publisherVars
<1>2. \A p \in Owners : Holding(p)'
  BY SetupSorts
     DEF SetupTypeOK, UDPState, ICEState, Holding, Held, SetupInv, TryTCP, Go,
         publisherVars
<1>3. \A p \in Owners : Owned(p)'
  BY SetupSorts
     DEF SetupTypeOK, UDPState, ICEState, Owned, Unused, SetupInv, TryTCP, Go,
         publisherVars
<1>4. \A p \in Owners : Paired(p)'
  BY SetupSorts
     DEF SetupTypeOK, UDPState, ICEState, Paired, Offering, Answering, SetupInv,
         TryTCP, Go, publisherVars
<1>5. Offering'
  BY SetupSorts
     DEF SetupTypeOK, UDPState, ICEState, Offering, GatherPlaces, SetupInv, TryTCP, Go,
         publisherVars
<1>6. \A p \in Connectors : Answering(p)'
  BY SetupSorts
     DEF SetupTypeOK, UDPState, ICEState, Answering, SetupInv, TryTCP, Go,
         publisherVars
<1> QED
  BY <1>1, <1>2, <1>3, <1>4, <1>5, <1>6 DEF SetupInv

LEMMA ConnectStep ==
  ASSUME SetupInv, NEW c \in Connectors, Connect(c)
  PROVE  SetupInv'
<1>1. SetupTypeOK'
  <2>1. at' \in [Owners -> SetupPlaces]
    BY SetupSorts
       DEF SetupTypeOK, SetupPlaces, GatherPlaces, Connect, Go, publisherVars, DropMapping,
           SetupInv
  <2>2. udp' \in [Owners -> UDPState]
    <3>1. udp' = WithMapping(udp, c, FALSE)
      BY SetupSorts
         DEF SetupTypeOK, DropMapping, WithMapping, Connect, Go, publisherVars, DropMapping,
             SetupInv
    <3> QED
      BY SetupSorts, <3>1, UDPFields DEF SetupTypeOK, SetupInv
  <2>3. ice' \in [Owners -> ICEState]
    BY SetupSorts DEF SetupTypeOK, Connect, Go, publisherVars, DropMapping, SetupInv
  <2> QED
    BY <2>1, <2>2, <2>3 DEF SetupTypeOK, SetupInv, Connect, Go, publisherVars, DropMapping
<1>2. \A p \in Owners : Holding(p)'
  BY SetupSorts
     DEF SetupTypeOK, UDPState, ICEState, Holding, Held, SetupInv, Connect, Go,
         publisherVars, DropMapping
<1>3. \A p \in Owners : Owned(p)'
  BY SetupSorts
     DEF SetupTypeOK, UDPState, ICEState, Owned, Unused, SetupInv, Connect, Go,
         publisherVars, DropMapping
<1>4. \A p \in Owners : Paired(p)'
  BY SetupSorts
     DEF SetupTypeOK, UDPState, ICEState, Paired, Offering, Answering, SetupInv,
         Connect, Go, publisherVars, DropMapping
<1>5. Offering'
  BY SetupSorts
     DEF SetupTypeOK, UDPState, ICEState, Offering, GatherPlaces, SetupInv, Connect,
         Go, publisherVars, DropMapping
<1>6. \A p \in Connectors : Answering(p)'
  BY SetupSorts
     DEF SetupTypeOK, UDPState, ICEState, Answering, SetupInv, Connect, Go,
         publisherVars, DropMapping
<1> QED
  BY <1>1, <1>2, <1>3, <1>4, <1>5, <1>6 DEF SetupInv

LEMMA ConnectFailsStep ==
  ASSUME SetupInv, NEW c \in Connectors, ConnectFails(c)
  PROVE  SetupInv'
<1>1. SetupTypeOK'
  BY SetupSorts
     DEF SetupTypeOK, UDPState, ICEState, SetupPlaces, GatherPlaces, Roles, SetupInv,
         ConnectFails, Go, publisherVars
<1>2. \A p \in Owners : Holding(p)'
  BY SetupSorts
     DEF SetupTypeOK, UDPState, ICEState, Holding, Held, SetupInv, ConnectFails, Go,
         publisherVars
<1>3. \A p \in Owners : Owned(p)'
  BY SetupSorts
     DEF SetupTypeOK, UDPState, ICEState, Owned, Unused, SetupInv, ConnectFails, Go,
         publisherVars
<1>4. \A p \in Owners : Paired(p)'
  BY SetupSorts
     DEF SetupTypeOK, UDPState, ICEState, Paired, Offering, Answering, SetupInv,
         ConnectFails, Go, publisherVars
<1>5. Offering'
  BY SetupSorts
     DEF SetupTypeOK, UDPState, ICEState, Offering, GatherPlaces, SetupInv,
         ConnectFails, Go, publisherVars
<1>6. \A p \in Connectors : Answering(p)'
  BY SetupSorts
     DEF SetupTypeOK, UDPState, ICEState, Answering, SetupInv, ConnectFails, Go,
         publisherVars
<1> QED
  BY <1>1, <1>2, <1>3, <1>4, <1>5, <1>6 DEF SetupInv

LEMMA CloseConnectorStep ==
  ASSUME SetupInv, NEW c \in Connectors, CloseConnector(c)
  PROVE  SetupInv'
<1>1. SetupTypeOK'
  <2>1. at' \in [Owners -> SetupPlaces]
    BY SetupSorts
       DEF SetupTypeOK, SetupPlaces, GatherPlaces, CloseConnector, Go, publisherVars,
           Released, SetupInv
  <2>2. udp' \in [Owners -> UDPState]
    <3> DEFINE unmapped == WithMapping(udp, c, FALSE)
               agent == "none"
    <3>1. unmapped \in [Owners -> UDPState] /\ agent \in {"none", "open", "closed", "late"}
      BY SetupSorts, UDPFields DEF SetupTypeOK, SetupInv
    <3>2. udp' = WithAgent(unmapped, c, agent)
      BY SetupSorts
         DEF SetupTypeOK, WithMapping, WithAgent, CloseConnector, Go, publisherVars,
             Released, SetupInv
    <3> HIDE DEF unmapped, agent
    <3> QED
      BY SetupSorts, <3>1, <3>2, UDPFields
  <2>3. ice' \in [Owners -> ICEState]
    BY SetupSorts DEF SetupTypeOK, CloseConnector, Go, publisherVars, Released, SetupInv
  <2> QED
    BY <2>1, <2>2, <2>3 DEF SetupTypeOK, SetupInv, CloseConnector, Go, publisherVars, Released
<1>2. \A p \in Owners : Holding(p)'
  BY SetupSorts
     DEF SetupTypeOK, UDPState, ICEState, Holding, Held, SetupInv, CloseConnector, Go,
         publisherVars, Released
<1>3. \A p \in Owners : Owned(p)'
  BY SetupSorts
     DEF SetupTypeOK, UDPState, ICEState, Owned, Unused, SetupInv, CloseConnector, Go,
         publisherVars, Released
<1>4. \A p \in Owners : Paired(p)'
  BY SetupSorts
     DEF SetupTypeOK, UDPState, ICEState, Paired, Offering, Answering, SetupInv,
         CloseConnector, Go, publisherVars, Released
<1>5. Offering'
  BY SetupSorts
     DEF SetupTypeOK, UDPState, ICEState, Offering, GatherPlaces, SetupInv,
         CloseConnector, Go, publisherVars, Released
<1>6. \A p \in Connectors : Answering(p)'
  BY SetupSorts
     DEF SetupTypeOK, UDPState, ICEState, Answering, SetupInv, CloseConnector, Go,
         publisherVars, Released
<1> QED
  BY <1>1, <1>2, <1>3, <1>4, <1>5, <1>6 DEF SetupInv

\* P2PPublisher.acceptAnswer.
LEMMA CheckRemoteStep ==
  ASSUME SetupInv, NEW c \in Connectors, CheckRemote(c)
  PROVE  SetupInv'
<1>1. SetupTypeOK'
  BY SetupSorts
     DEF SetupTypeOK, UDPState, ICEState, SetupPlaces, GatherPlaces, Roles, SetupInv,
         CheckRemote, Go, publisherVars, Step
<1>2. \A p \in Owners : Holding(p)'
  BY SetupSorts
     DEF SetupTypeOK, UDPState, ICEState, Holding, Held, SetupInv, CheckRemote, Go,
         publisherVars, Step
<1>3. \A p \in Owners : Owned(p)'
  BY SetupSorts
     DEF SetupTypeOK, UDPState, ICEState, Owned, Unused, SetupInv, CheckRemote, Go,
         publisherVars, Step
<1>4. \A p \in Owners : Paired(p)'
  BY SetupSorts
     DEF SetupTypeOK, UDPState, ICEState, Paired, Offering, Answering, SetupInv,
         CheckRemote, Go, publisherVars, Step
<1>5. Offering'
  BY SetupSorts
     DEF SetupTypeOK, UDPState, ICEState, Offering, GatherPlaces, SetupInv,
         CheckRemote, Go, publisherVars, Step
<1>6. \A p \in Connectors : Answering(p)'
  BY SetupSorts
     DEF SetupTypeOK, UDPState, ICEState, Answering, SetupInv, CheckRemote, Go,
         publisherVars, Step
<1> QED
  BY <1>1, <1>2, <1>3, <1>4, <1>5, <1>6 DEF SetupInv

LEMMA SetRemoteDescriptionStep ==
  ASSUME SetupInv, NEW c \in Connectors, SetRemoteDescription(c)
  PROVE  SetupInv'
<1>1. SetupTypeOK'
  <2>1. at' \in [Owners -> SetupPlaces]
    BY SetupSorts
       DEF SetupTypeOK, SetupPlaces, GatherPlaces, SetRemoteDescription, Go, publisherVars,
           Step, Either, SetupInv
  <2>2. udp' \in [Owners -> UDPState]
    <3> DEFINE reopened == WithAgent(udp, Publisher, AnsweredAgent)
    <3>1. Either(udp[Publisher].role, "controlled") \in Roles
      BY SetupSorts, UDPFields DEF SetupTypeOK, Roles, Either, SetupInv
    <3>2. reopened \in [Owners -> UDPState]
      BY SetupSorts, UDPFields DEF SetupTypeOK, AnsweredAgent, SetupInv
    <3>3. udp' = WithRole(reopened, Publisher, Either(udp[Publisher].role, "controlled"))
      BY SetupSorts
         DEF SetupTypeOK, WithAgent, WithRole, SetRemoteDescription, SetupInv, UDPState
    <3> HIDE DEF reopened
    <3> QED
      BY SetupSorts, <3>1, <3>2, <3>3, UDPFields
  <2>3. ice' \in [Owners -> ICEState]
    <3> DEFINE first == IF ice[Publisher].remote = None THEN c ELSE ice[Publisher].remote
               informed == WithRemote(ice, Publisher, first)
    <3>1. first \in Owners \cup {None}
      BY SetupSorts, ICEFields DEF SetupTypeOK, SetupInv
    <3>2. informed \in [Owners -> ICEState]
      BY SetupSorts, <3>1, ICEFields DEF SetupTypeOK, SetupInv
    <3>3. Either(ice[Publisher].role, "controlled") \in Roles
      BY SetupSorts, ICEFields DEF SetupTypeOK, Roles, Either, SetupInv
    <3>4. ice' = ice \/ ice' = WithRole(informed, Publisher, Either(ice[Publisher].role, "controlled"))
      BY SetupSorts
         DEF SetupTypeOK, WithRemote, WithRole, SetRemoteDescription, Go, publisherVars,
             Step, Either, SetupInv
    <3> HIDE DEF informed
    <3>5. ice \in [Owners -> ICEState] /\ WithRole(informed, Publisher, Either(ice[Publisher].role, "controlled")) \in [Owners -> ICEState]
      BY SetupSorts, <3>2, <3>3, ICEFields DEF SetupTypeOK, Either, SetupInv
    <3> QED
      BY Zenon, <3>4, <3>5
  <2> QED
    BY <2>1, <2>2, <2>3
       DEF SetupTypeOK, SetupInv, SetRemoteDescription, Go, publisherVars, Step, Either
<1>2. \A p \in Owners : Holding(p)'
  <2>1. \A p \in Owners : ice'[p].holds = ice[p].holds /\ ice'[p].done = ice[p].done
    BY SetupSorts DEF SetupTypeOK, ICEState, SetupInv, SetRemoteDescription
  <2> QED
    BY <2>1 DEF Holding, SetupInv, SetRemoteDescription
<1>a. /\ UNCHANGED at
      /\ \A p \in Owners \ {Publisher} : udp'[p] = udp[p] /\ ice'[p] = ice[p]
      /\ udp'[Publisher].mapping = udp[Publisher].mapping
      /\ udp'[Publisher].gathered = udp[Publisher].gathered
      /\ udp'[Publisher].agent = AnsweredAgent
      /\ udp'[Publisher].role = Either(udp[Publisher].role, "controlled")
  BY SetupSorts DEF SetupTypeOK, UDPState, SetupInv, SetRemoteDescription
<1>b. /\ ice'[Publisher].started = ice[Publisher].started
      /\ ice'[Publisher].event = ice[Publisher].event
      /\ ice'[Publisher].connected = ice[Publisher].connected
      /\ ice'[Publisher].role \in {ice[Publisher].role, Either(ice[Publisher].role, "controlled")}
      /\ ice'[Publisher].remote \in {ice[Publisher].remote, c}
      /\ ice[Publisher].remote # None => ice'[Publisher].remote = ice[Publisher].remote
  BY SetupSorts DEF SetupTypeOK, ICEState, SetupInv, SetRemoteDescription
<1>c. \A d \in Connectors : request'[d] # "none" => request[d] # "none"
  BY DEF SetupTypeOK, SetupInv, SetRemoteDescription, Step
<1>d. /\ request[c] # "none" /\ ice[Publisher].started
      /\ udp[Publisher].role = "controlling" /\ ice[Publisher].role = "controlling"
  BY DEF SetRemoteDescription, SetupInv, Offering
<1>3. \A p \in Owners : Owned(p)'
  BY <1>a, SetupSorts DEF Owned, Unused, AnsweredAgent, SetupInv
<1>4. \A p \in Owners : Paired(p)'
  <2>1. \A p \in Owners : Paired(p)
    BY DEF SetupInv
  <2>2. Paired(Publisher)'
    <3>1. SUFFICES ASSUME ice[Publisher].connected
                   PROVE  Paired(Publisher)'
      BY <1>b DEF Paired
    <3>2. ice[Publisher].remote \in Owners /\ ice[Publisher].remote \in Connectors \cup {None}
      BY <2>1, <3>1, SetupSorts DEF Paired, SetupInv, Offering
    <3>3. ice[Publisher].remote \in Owners \ {Publisher} /\ ice'[Publisher].remote = ice[Publisher].remote
      BY <1>b, <3>2, SetupSorts
    <3> QED
      BY <1>a, <1>b, <1>d, <2>1, <3>1, <3>2, <3>3, SetupSorts DEF Paired
  <2>3. ASSUME NEW p \in Owners \ {Publisher} PROVE Paired(p)'
    BY <1>a, <1>b, <1>d, <2>1, <2>3 DEF Paired
  <2> QED
    BY <2>2, <2>3
<1>5. Offering'
  BY <1>a, <1>b, <1>c, <1>d, SetupSorts DEF Offering, Either, SetupInv
<1>6. \A p \in Connectors : Answering(p)'
  BY <1>a, SetupSorts DEF Answering, SetupInv
<1> QED
  BY <1>1, <1>2, <1>3, <1>4, <1>5, <1>6 DEF SetupInv

LEMMA MarkRemoteSetStep ==
  ASSUME SetupInv, NEW c \in Connectors, MarkRemoteSet(c)
  PROVE  SetupInv'
<1>1. SetupTypeOK'
  <2>1. at' \in [Owners -> SetupPlaces]
    BY SetupSorts
       DEF SetupTypeOK, SetupPlaces, GatherPlaces, MarkRemoteSet, Go, publisherVars, Step,
           SetupInv
  <2>2. udp' \in [Owners -> UDPState]
    <3>1. udp' = WithRemoteSet(udp, Publisher, TRUE)
      BY SetupSorts
         DEF SetupTypeOK, WithRemoteSet, MarkRemoteSet, Go, publisherVars, Step, SetupInv
    <3> QED
      BY SetupSorts, <3>1, UDPFields DEF SetupTypeOK, SetupInv
  <2>3. ice' \in [Owners -> ICEState]
    BY SetupSorts DEF SetupTypeOK, MarkRemoteSet, Go, publisherVars, Step, SetupInv
  <2> QED
    BY <2>1, <2>2, <2>3 DEF SetupTypeOK, SetupInv, MarkRemoteSet, Go, publisherVars, Step
<1>2. \A p \in Owners : Holding(p)'
  BY SetupSorts
     DEF SetupTypeOK, UDPState, ICEState, Holding, Held, SetupInv, MarkRemoteSet, Go,
         publisherVars, Step
<1>3. \A p \in Owners : Owned(p)'
  BY SetupSorts
     DEF SetupTypeOK, UDPState, ICEState, Owned, Unused, SetupInv, MarkRemoteSet, Go,
         publisherVars, Step
<1>4. \A p \in Owners : Paired(p)'
  BY SetupSorts
     DEF SetupTypeOK, UDPState, ICEState, Paired, Offering, Answering, SetupInv,
         MarkRemoteSet, Go, publisherVars, Step
<1>5. Offering'
  BY SetupSorts
     DEF SetupTypeOK, UDPState, ICEState, Offering, GatherPlaces, SetupInv,
         MarkRemoteSet, Go, publisherVars, Step
<1>6. \A p \in Connectors : Answering(p)'
  BY SetupSorts
     DEF SetupTypeOK, UDPState, ICEState, Answering, SetupInv, MarkRemoteSet, Go,
         publisherVars, Step
<1> QED
  BY <1>1, <1>2, <1>3, <1>4, <1>5, <1>6 DEF SetupInv

LEMMA SetAnsweredStep ==
  ASSUME SetupInv, NEW c \in Connectors, SetAnswered(c)
  PROVE  SetupInv'
<1>1. SetupTypeOK'
  BY SetupSorts
     DEF SetupTypeOK, UDPState, ICEState, SetupPlaces, GatherPlaces, Roles, SetupInv,
         SetAnswered, Go, publisherVars, Step
<1>2. \A p \in Owners : Holding(p)'
  BY SetupSorts
     DEF SetupTypeOK, UDPState, ICEState, Holding, Held, SetupInv, SetAnswered, Go,
         publisherVars, Step
<1>3. \A p \in Owners : Owned(p)'
  BY SetupSorts
     DEF SetupTypeOK, UDPState, ICEState, Owned, Unused, SetupInv, SetAnswered, Go,
         publisherVars, Step
<1>4. \A p \in Owners : Paired(p)'
  BY SetupSorts
     DEF SetupTypeOK, UDPState, ICEState, Paired, Offering, Answering, SetupInv,
         SetAnswered, Go, publisherVars, Step
<1>5. Offering'
  BY SetupSorts
     DEF SetupTypeOK, UDPState, ICEState, Offering, GatherPlaces, SetupInv,
         SetAnswered, Go, publisherVars, Step
<1>6. \A p \in Connectors : Answering(p)'
  BY SetupSorts
     DEF SetupTypeOK, UDPState, ICEState, Answering, SetupInv, SetAnswered, Go,
         publisherVars, Step
<1> QED
  BY <1>1, <1>2, <1>3, <1>4, <1>5, <1>6 DEF SetupInv

LEMMA StartHandlerStep ==
  ASSUME SetupInv, NEW c \in Connectors, StartHandler(c)
  PROVE  SetupInv'
<1>1. SetupTypeOK'
  BY SetupSorts
     DEF SetupTypeOK, UDPState, ICEState, SetupPlaces, GatherPlaces, Roles, SetupInv,
         StartHandler, Go, publisherVars, Step
<1>2. \A p \in Owners : Holding(p)'
  BY SetupSorts
     DEF SetupTypeOK, UDPState, ICEState, Holding, Held, SetupInv, StartHandler, Go,
         publisherVars, Step
<1>3. \A p \in Owners : Owned(p)'
  BY SetupSorts
     DEF SetupTypeOK, UDPState, ICEState, Owned, Unused, SetupInv, StartHandler, Go,
         publisherVars, Step
<1>4. \A p \in Owners : Paired(p)'
  BY SetupSorts
     DEF SetupTypeOK, UDPState, ICEState, Paired, Offering, Answering, SetupInv,
         StartHandler, Go, publisherVars, Step
<1>5. Offering'
  BY SetupSorts
     DEF SetupTypeOK, UDPState, ICEState, Offering, GatherPlaces, SetupInv,
         StartHandler, Go, publisherVars, Step
<1>6. \A p \in Connectors : Answering(p)'
  BY SetupSorts
     DEF SetupTypeOK, UDPState, ICEState, Answering, SetupInv, StartHandler, Go,
         publisherVars, Step
<1> QED
  BY <1>1, <1>2, <1>3, <1>4, <1>5, <1>6 DEF SetupInv

\* P2PPublisher._runUDPHandler, and close.
LEMMA HandlerConnectsStep ==
  ASSUME SetupInv, NEW c \in Connectors, HandlerConnects(c)
  PROVE  SetupInv'
<1>1. SetupTypeOK'
  BY SetupSorts
     DEF SetupTypeOK, UDPState, ICEState, SetupPlaces, GatherPlaces, Roles, SetupInv,
         HandlerConnects, Go, publisherVars
<1>2. \A p \in Owners : Holding(p)'
  BY SetupSorts
     DEF SetupTypeOK, UDPState, ICEState, Holding, Held, SetupInv, HandlerConnects, Go,
         publisherVars
<1>3. \A p \in Owners : Owned(p)'
  BY SetupSorts
     DEF SetupTypeOK, UDPState, ICEState, Owned, Unused, SetupInv, HandlerConnects, Go,
         publisherVars
<1>4. \A p \in Owners : Paired(p)'
  BY SetupSorts
     DEF SetupTypeOK, UDPState, ICEState, Paired, Offering, Answering, SetupInv,
         HandlerConnects, Go, publisherVars
<1>5. Offering'
  BY SetupSorts
     DEF SetupTypeOK, UDPState, ICEState, Offering, GatherPlaces, SetupInv,
         HandlerConnects, Go, publisherVars
<1>6. \A p \in Connectors : Answering(p)'
  BY SetupSorts
     DEF SetupTypeOK, UDPState, ICEState, Answering, SetupInv, HandlerConnects, Go,
         publisherVars
<1> QED
  BY <1>1, <1>2, <1>3, <1>4, <1>5, <1>6 DEF SetupInv

LEMMA HandlerServesStep ==
  ASSUME SetupInv, NEW c \in Connectors, HandlerServes(c)
  PROVE  SetupInv'
<1>1. SetupTypeOK'
  BY SetupSorts
     DEF SetupTypeOK, UDPState, ICEState, SetupPlaces, GatherPlaces, Roles, SetupInv,
         HandlerServes, Go, publisherVars
<1>2. \A p \in Owners : Holding(p)'
  BY SetupSorts
     DEF SetupTypeOK, UDPState, ICEState, Holding, Held, SetupInv, HandlerServes, Go,
         publisherVars
<1>3. \A p \in Owners : Owned(p)'
  BY SetupSorts
     DEF SetupTypeOK, UDPState, ICEState, Owned, Unused, SetupInv, HandlerServes, Go,
         publisherVars
<1>4. \A p \in Owners : Paired(p)'
  BY SetupSorts
     DEF SetupTypeOK, UDPState, ICEState, Paired, Offering, Answering, SetupInv,
         HandlerServes, Go, publisherVars
<1>5. Offering'
  BY SetupSorts
     DEF SetupTypeOK, UDPState, ICEState, Offering, GatherPlaces, SetupInv,
         HandlerServes, Go, publisherVars
<1>6. \A p \in Connectors : Answering(p)'
  BY SetupSorts
     DEF SetupTypeOK, UDPState, ICEState, Answering, SetupInv, HandlerServes, Go,
         publisherVars
<1> QED
  BY <1>1, <1>2, <1>3, <1>4, <1>5, <1>6 DEF SetupInv

LEMMA HandlerFailsStep ==
  ASSUME SetupInv, NEW c \in Connectors, HandlerFails(c)
  PROVE  SetupInv'
<1>1. SetupTypeOK'
  BY SetupSorts
     DEF SetupTypeOK, UDPState, ICEState, SetupPlaces, GatherPlaces, Roles, SetupInv,
         HandlerFails, Go, publisherVars
<1>2. \A p \in Owners : Holding(p)'
  BY SetupSorts
     DEF SetupTypeOK, UDPState, ICEState, Holding, Held, SetupInv, HandlerFails, Go,
         publisherVars
<1>3. \A p \in Owners : Owned(p)'
  BY SetupSorts
     DEF SetupTypeOK, UDPState, ICEState, Owned, Unused, SetupInv, HandlerFails, Go,
         publisherVars
<1>4. \A p \in Owners : Paired(p)'
  BY SetupSorts
     DEF SetupTypeOK, UDPState, ICEState, Paired, Offering, Answering, SetupInv,
         HandlerFails, Go, publisherVars
<1>5. Offering'
  BY SetupSorts
     DEF SetupTypeOK, UDPState, ICEState, Offering, GatherPlaces, SetupInv,
         HandlerFails, Go, publisherVars
<1>6. \A p \in Connectors : Answering(p)'
  BY SetupSorts
     DEF SetupTypeOK, UDPState, ICEState, Answering, SetupInv, HandlerFails, Go,
         publisherVars
<1> QED
  BY <1>1, <1>2, <1>3, <1>4, <1>5, <1>6 DEF SetupInv

LEMMA HandlerReturnsStep ==
  ASSUME SetupInv, NEW c \in Connectors, HandlerReturns(c)
  PROVE  SetupInv'
<1>1. SetupTypeOK'
  <2>1. at' \in [Owners -> SetupPlaces]
    BY SetupSorts
       DEF SetupTypeOK, SetupPlaces, GatherPlaces, HandlerReturns, Go, publisherVars,
           SetupInv
  <2>2. udp' \in [Owners -> UDPState]
    <3> DEFINE agent == IF <<handler[c], udp[Publisher].agent>> \in {<<"serving", "open">>, <<"late", "late">>}
                          THEN "closed" ELSE udp[Publisher].agent
    <3>1. agent \in {"none", "open", "closed", "late"}
      BY SetupSorts, UDPFields DEF SetupTypeOK, SetupInv
    <3>2. udp' = WithAgent(udp, Publisher, agent)
      BY SetupSorts DEF WithAgent, HandlerReturns, Go, publisherVars
    <3> QED
      BY SetupSorts, <3>1, <3>2, UDPFields DEF SetupTypeOK, SetupInv
  <2>3. ice' \in [Owners -> ICEState]
    BY SetupSorts DEF SetupTypeOK, HandlerReturns, Go, publisherVars, SetupInv
  <2> QED
    BY <2>1, <2>2, <2>3 DEF SetupTypeOK, SetupInv, HandlerReturns, Go, publisherVars
<1>2. \A p \in Owners : Holding(p)'
  BY SetupSorts
     DEF SetupTypeOK, UDPState, ICEState, Holding, Held, SetupInv, HandlerReturns, Go,
         publisherVars
<1>3. \A p \in Owners : Owned(p)'
  BY SetupSorts
     DEF SetupTypeOK, UDPState, ICEState, Owned, Unused, SetupInv, HandlerReturns, Go,
         publisherVars
<1>4. \A p \in Owners : Paired(p)'
  BY SetupSorts
     DEF SetupTypeOK, UDPState, ICEState, Paired, Offering, Answering, SetupInv,
         HandlerReturns, Go, publisherVars
<1>5. Offering'
  BY SetupSorts
     DEF SetupTypeOK, UDPState, ICEState, Offering, GatherPlaces, SetupInv,
         HandlerReturns, Go, publisherVars
<1>6. \A p \in Connectors : Answering(p)'
  BY SetupSorts
     DEF SetupTypeOK, UDPState, ICEState, Answering, SetupInv, HandlerReturns, Go,
         publisherVars
<1> QED
  BY <1>1, <1>2, <1>3, <1>4, <1>5, <1>6 DEF SetupInv

LEMMA ClosePublisherStep ==
  ASSUME SetupInv, ClosePublisher
  PROVE  SetupInv'
<1>1. SetupTypeOK'
  <2>1. at' \in [Owners -> SetupPlaces]
    BY SetupSorts
       DEF SetupTypeOK, SetupPlaces, GatherPlaces, ClosePublisher, Go, publisherVars,
           Released, SetupInv
  <2>2. udp' \in [Owners -> UDPState]
    <3> DEFINE unmapped == WithMapping(udp, Publisher, FALSE)
               agent == "none"
    <3>1. unmapped \in [Owners -> UDPState] /\ agent \in {"none", "open", "closed", "late"}
      BY SetupSorts, UDPFields DEF SetupTypeOK, SetupInv
    <3>2. udp' = WithAgent(unmapped, Publisher, agent)
      BY SetupSorts
         DEF SetupTypeOK, WithMapping, WithAgent, ClosePublisher, Go, publisherVars,
             Released, SetupInv
    <3> HIDE DEF unmapped, agent
    <3> QED
      BY SetupSorts, <3>1, <3>2, UDPFields
  <2>3. ice' \in [Owners -> ICEState]
    BY SetupSorts DEF SetupTypeOK, ClosePublisher, Go, publisherVars, Released, SetupInv
  <2> QED
    BY <2>1, <2>2, <2>3 DEF SetupTypeOK, SetupInv, ClosePublisher, Go, publisherVars, Released
<1>2. \A p \in Owners : Holding(p)'
  BY SetupSorts
     DEF SetupTypeOK, UDPState, ICEState, Holding, Held, SetupInv, ClosePublisher, Go,
         publisherVars, Released
<1>3. \A p \in Owners : Owned(p)'
  BY SetupSorts
     DEF SetupTypeOK, UDPState, ICEState, Owned, Unused, SetupInv, ClosePublisher, Go,
         publisherVars, Released
<1>4. \A p \in Owners : Paired(p)'
  BY SetupSorts
     DEF SetupTypeOK, UDPState, ICEState, Paired, Offering, Answering, SetupInv,
         ClosePublisher, Go, publisherVars, Released
<1>5. Offering'
  BY SetupSorts
     DEF SetupTypeOK, UDPState, ICEState, Offering, GatherPlaces, SetupInv,
         ClosePublisher, Go, publisherVars, Released
<1>6. \A p \in Connectors : Answering(p)'
  BY SetupSorts
     DEF SetupTypeOK, UDPState, ICEState, Answering, SetupInv, ClosePublisher, Go,
         publisherVars, Released
<1> QED
  BY <1>1, <1>2, <1>3, <1>4, <1>5, <1>6 DEF SetupInv

\* libjuice.
LEMMA GatheringDoneStep ==
  ASSUME SetupInv, NEW o \in Owners, GatheringDone(o)
  PROVE  SetupInv'
<1>1. SetupTypeOK'
  <2>1. at' \in [Owners -> SetupPlaces]
    BY SetupSorts
       DEF SetupTypeOK, SetupPlaces, GatherPlaces, GatheringDone, Go, publisherVars,
           SetupInv
  <2>2. udp' \in [Owners -> UDPState]
    BY SetupSorts DEF SetupTypeOK, GatheringDone, Go, publisherVars, SetupInv
  <2>3. ice' \in [Owners -> ICEState]
    <3>1. ice' = WithEvent(WithDone(ice, o, TRUE), o, TRUE)
      BY SetupSorts
         DEF SetupTypeOK, WithEvent, WithDone, GatheringDone, Go, publisherVars, SetupInv
    <3> QED
      BY SetupSorts, <3>1, ICEFields DEF SetupTypeOK, SetupInv
  <2> QED
    BY <2>1, <2>2, <2>3 DEF SetupTypeOK, SetupInv, GatheringDone, Go, publisherVars
<1>2. \A p \in Owners : Holding(p)'
  BY SetupSorts
     DEF SetupTypeOK, UDPState, ICEState, Holding, Held, SetupInv, GatheringDone, Go,
         publisherVars
<1>3. \A p \in Owners : Owned(p)'
  BY SetupSorts
     DEF SetupTypeOK, UDPState, ICEState, Owned, Unused, SetupInv, GatheringDone, Go,
         publisherVars
<1>4. \A p \in Owners : Paired(p)'
  BY SetupSorts
     DEF SetupTypeOK, UDPState, ICEState, Paired, Offering, Answering, SetupInv,
         GatheringDone, Go, publisherVars
<1>5. Offering'
  BY SetupSorts
     DEF SetupTypeOK, UDPState, ICEState, Offering, GatherPlaces, SetupInv,
         GatheringDone, Go, publisherVars
<1>6. \A p \in Connectors : Answering(p)'
  BY SetupSorts
     DEF SetupTypeOK, UDPState, ICEState, Answering, SetupInv, GatheringDone, Go,
         publisherVars
<1> QED
  BY <1>1, <1>2, <1>3, <1>4, <1>5, <1>6 DEF SetupInv

LEMMA IceConnectsStep ==
  ASSUME SetupInv, NEW o \in Owners, IceConnects(o)
  PROVE  SetupInv'
<1>1. SetupTypeOK'
  <2>1. at' \in [Owners -> SetupPlaces]
    BY SetupSorts
       DEF SetupTypeOK, SetupPlaces, GatherPlaces, IceConnects, Go, publisherVars, SetupInv
  <2>2. udp' \in [Owners -> UDPState]
    BY SetupSorts DEF SetupTypeOK, IceConnects, Go, publisherVars, SetupInv
  <2>3. ice' \in [Owners -> ICEState]
    <3>1. ice' = WithConnected(ice, o, TRUE)
      BY SetupSorts DEF SetupTypeOK, WithConnected, IceConnects, Go, publisherVars, SetupInv
    <3> QED
      BY SetupSorts, <3>1, ICEFields DEF SetupTypeOK, SetupInv
  <2> QED
    BY <2>1, <2>2, <2>3 DEF SetupTypeOK, SetupInv, IceConnects, Go, publisherVars
<1>2. \A p \in Owners : Holding(p)'
  BY SetupSorts
     DEF SetupTypeOK, UDPState, ICEState, Holding, Held, SetupInv, IceConnects, Go,
         publisherVars
<1>3. \A p \in Owners : Owned(p)'
  BY SetupSorts
     DEF SetupTypeOK, UDPState, ICEState, Owned, Unused, SetupInv, IceConnects, Go,
         publisherVars
<1>4. \A p \in Owners : Paired(p)'
  BY SetupSorts
     DEF SetupTypeOK, UDPState, ICEState, Paired, Offering, Answering, SetupInv,
         IceConnects, Go, publisherVars
<1>5. Offering'
  BY SetupSorts
     DEF SetupTypeOK, UDPState, ICEState, Offering, GatherPlaces, SetupInv,
         IceConnects, Go, publisherVars
<1>6. \A p \in Connectors : Answering(p)'
  BY SetupSorts
     DEF SetupTypeOK, UDPState, ICEState, Answering, SetupInv, IceConnects, Go,
         publisherVars
<1> QED
  BY <1>1, <1>2, <1>3, <1>4, <1>5, <1>6 DEF SetupInv

\* A step that changes nothing keeps everything.
LEMMA SetupStutter ==
  ASSUME SetupInv, UNCHANGED setupVars
  PROVE  SetupInv'
BY DEF SetupInv, SetupTypeOK, Holding, Held, Owned, Unused, Paired, Offering, Answering,
       setupVars, publisherVars

\* Every step keeps the invariant.
LEMMA SetupInvNext == SetupInv /\ [SetupNext]_setupVars => SetupInv'
<1> SUFFICES ASSUME SetupInv, SetupNext PROVE SetupInv'
  BY SetupStutter
<1>1. ASSUME NEW o \in Owners, Gather(o) \/ GatheringTimesOut(o) \/ GatheringDone(o) \/ IceConnects(o)
      PROVE  SetupInv'
  BY <1>1, BeginGatherStep, HoldGatheringStep, StartGatheringStep, CreateMappingStep,
     MappingAnsweredStep, AddMappedCandidateStep, ReleaseGatheringStep,
     AwaitGatheringDoneStep, GatheringTimesOutStep, GatheringDoneStep, IceConnectsStep
     DEF Gather
<1>2. ASSUME NEW c \in Connectors, Connector(c) \/ SendAnswer(c) \/ ConnectFails(c) \/ CloseConnector(c)
      PROVE  SetupInv'
  BY <1>2, GetOfferStep, DescribeOfferStep, SendAnswerStep, AnswerAcceptedStep, TryTCPStep,
     ConnectStep, ConnectFailsStep, CloseConnectorStep
     DEF Connector
<1>3. ASSUME NEW c \in Connectors, AcceptAnswer(c) \/ Handler(c) \/ HandlerFails(c) \/ HandlerReturns(c)
      PROVE  SetupInv'
  BY <1>3, CheckRemoteStep, SetRemoteDescriptionStep, MarkRemoteSetStep, SetAnsweredStep,
     StartHandlerStep, HandlerConnectsStep, HandlerServesStep, HandlerFailsStep,
     HandlerReturnsStep
     DEF AcceptAnswer, Handler
<1>4. CASE ClosePublisher
  BY <1>4, ClosePublisherStep
<1> QED
  BY <1>1, <1>2, <1>3, <1>4 DEF SetupNext

\* The inductive invariant holds in every state of every set-up.
THEOREM SetupInvariant == SetupSpec => []SetupInv
BY SetupInvInit, SetupInvNext, PTL DEF SetupSpec

\* Any number of connectors, whoever has mappings: of two agents that connect the
\* publisher's is controlling, the connector's is controlled, and each connector
\* object says of itself what libjuice took (UDP.py 70-73, 134-140).
THEOREM RolesCorrect == SetupSpec => []OffererControls
BY SetupInvariant, SetupConsequences, PTL

\* Gathering is never over while a mapped candidate may be added, and every way
\* out of gather, exceptions and retries included, takes the hold back (UDP.py 79-86).
THEOREM HoldCorrect == SetupSpec => []HoldCoversMapping
BY SetupInvariant, SetupConsequences, PTL

\* However a connect call ended, and whatever its publisher was doing when it was
\* closed, neither leaves an open agent or a mapped port (UDP.py 159-164, P2P.py
\* 117-119, 173-175).
THEOREM ResourcesCorrect == SetupSpec => []NothingLeft
BY SetupInvariant, SetupConsequences, PTL

\* The same for the specification the run checks, which adds fairness only.
COROLLARY FairSetupCorrect == FairSetup => [](OffererControls /\ HoldCoversMapping /\ NothingLeft)
BY RolesCorrect, HoldCorrect, ResourcesCorrect, PTL DEF FairSetup
=============================================================================
