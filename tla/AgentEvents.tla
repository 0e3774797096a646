----------------------------- MODULE AgentEvents -----------------------------
(***************************************************************************)
(* The event and datagram queues of an ICE agent (native/P2P.c).            *)
(*                                                                           *)
(* Callbacks of libjuice (state, candidate, gatheringDone and received       *)
(* datagrams) append to two lists under the agent's lock.  Consumers poll    *)
(* or wait for them.  A list wakes its consumers with a binary token: a      *)
(* Python lock that is released when there is something to take, and a flag  *)
(* that says so.  The flag changes under the agent's lock, the token after   *)
(* it was released, so the two differ for a while.                           *)
(*                                                                           *)
(* Every callback is a process of its own; steps are the sections under the  *)
(* lock and the releases of the tokens between them.                         *)
(***************************************************************************)
EXTENDS Naturals, Sequences, FiniteSets

CONSTANTS
  Event,     \* the callbacks that queue an event
  Datagram,  \* the callbacks that bring a datagram
  Consumer,  \* the threads that take events
  Limits     \* the values of maxEvents they pass

Callback == Event \cup Datagram
Process == Callback \cup Consumer
Token == {"event", "receive"}

ASSUME AgentAssumption ==
  /\ Callback \cap Consumer = {}
  /\ Event \cap Datagram = {}
  /\ Limits \subseteq Nat

VARIABLES
  events,     \* head .. tail
  receives,   \* receiveHead .. receiveTail
  signaled,   \* eventSignaled and receiveSignaled
  available,  \* how often eventAvailable and receiveAvailable can be acquired
  owes,       \* the tokens a process decided to release, under the lock
  dataSink,   \* a sink is installed
  closed,     \* the agent is closed
  pc,         \* where each process is
  taken       \* everything taken out of the lists, in that order

lists == <<events, receives, taken>>
tokens == <<signaled, available>>
vars == <<lists, tokens, owes, dataSink, closed, pc>>

CallbackPC == {"new", "queue", "signal", "queued", "dropped", "sunk"}
ConsumerPC == {"idle", "wait", "reset", "drain", "waitReceive", "popReceive", "signal"}

TypeOK ==
  /\ events \in Seq(Event)
  /\ receives \in Seq(Datagram)
  /\ taken \in Seq(Callback)
  /\ signaled \in [Token -> BOOLEAN]
  /\ available \in [Token -> Nat]
  /\ owes \in [Process -> SUBSET Token]
  /\ dataSink \in BOOLEAN
  /\ closed \in BOOLEAN
  /\ pc \in [Process -> CallbackPC \cup ConsumerPC]
  /\ \A p \in Callback : pc[p] \in CallbackPC
  /\ \A k \in Consumer : pc[k] \in ConsumerPC

\* initializeAgent takes both locks: "locked means no queued event/datagram".
Init ==
  /\ events = <<>>
  /\ receives = <<>>
  /\ taken = <<>>
  /\ signaled = [t \in Token |-> FALSE]
  /\ available = [t \in Token |-> 0]
  /\ owes = [p \in Process |-> {}]
  /\ dataSink = FALSE
  /\ closed = FALSE
  /\ pc = [p \in Process |-> IF p \in Callback THEN "new" ELSE "idle"]

Goto(p, label) == pc' = [pc EXCEPT ![p] = label]

\* Where a process goes after a section under the lock that left it these
\* tokens to release.
Resting(p) == IF p \in Callback THEN "queued" ELSE "idle"
Leave(p, debts) ==
  /\ owes' = [owes EXCEPT ![p] = debts]
  /\ Goto(p, IF debts = {} THEN Resting(p) ELSE "signal")

\* Mutant: tokens are released whether or not their flags are set.
RearmAlways(k, C, T, W) ==
  LET still == {t \in Token : signaled[t]} \ (C \cup T) IN
  /\ available' = [t \in Token |-> IF t \in T THEN available[t] - 1 ELSE available[t]]
  /\ signaled' = [t \in Token |-> t \in still \cup W]
  /\ Leave(k, W)

\* What a section under the lock does to flags and tokens: the flags of C are
\* cleared, the tokens of T retaken, and of the tokens W that must be out those
\* whose flag is not set are to be released.
Rearm(k, C, T, W) ==
  LET still == {t \in Token : signaled[t]} \ (C \cup T) IN
  /\ available' = [t \in Token |-> IF t \in T THEN available[t] - 1 ELSE available[t]]
  /\ signaled' = [t \in Token |-> t \in still \cup W]
  /\ Leave(k, W \ still)

-----------------------------------------------------------------------------
(* Callbacks.                                                               *)

\* queueEvent: the flag is looked at and set with the list.
QueueEvent(e) ==
  /\ pc[e] = "new"
  /\ IF closed
       THEN Goto(e, "dropped") /\ UNCHANGED <<lists, tokens, owes>>
       ELSE /\ events' = Append(events, e)
            /\ Rearm(e, {}, {}, {"event"})
            /\ UNCHANGED <<receives, taken>>
  /\ UNCHANGED <<dataSink, closed>>

\* onReceive, its section under the lock: an installed sink takes the datagram.
OnReceive(d) ==
  /\ pc[d] = "new"
  /\ Goto(d, IF ~closed /\ dataSink THEN "sunk" ELSE "queue")
  /\ UNCHANGED <<lists, tokens, owes, dataSink, closed>>

\* queueReceive wakes those who wait for datagrams and those who wait for
\* anything.
QueueReceive(d) ==
  /\ pc[d] = "queue"
  /\ IF closed
       THEN Goto(d, "dropped") /\ UNCHANGED <<lists, tokens, owes>>
       ELSE /\ receives' = Append(receives, d)
            /\ Rearm(d, {}, {}, Token)
            /\ UNCHANGED <<events, taken>>
  /\ UNCHANGED <<dataSink, closed>>

\* A token is released after the lock, the one of the datagrams first.
ReleaseToken(p) ==
  LET t == IF "receive" \in owes[p] THEN "receive" ELSE "event" IN
  /\ pc[p] = "signal"
  /\ available' = [available EXCEPT ![t] = @ + 1]
  /\ Leave(p, owes[p] \ {t})
  /\ UNCHANGED <<lists, signaled, dataSink, closed>>

-----------------------------------------------------------------------------
(* Consumers.                                                               *)

\* pollEvents drains at once, on a closed agent too.
PollEvents(k) ==
  /\ pc[k] = "idle"
  /\ Goto(k, "drain")
  /\ UNCHANGED <<lists, tokens, owes, dataSink, closed>>

\* waitEvents looks at the lists first.
WaitEvents(k) ==
  /\ pc[k] = "idle" /\ ~closed
  /\ Goto(k, IF events # <<>> \/ receives # <<>> THEN "drain" ELSE "wait")
  /\ UNCHANGED <<lists, tokens, owes, dataSink, closed>>

\* The wait ends with the token ...
TakeToken(k, t, waiting, woken) ==
  /\ pc[k] = waiting
  /\ available[t] > 0
  /\ available' = [available EXCEPT ![t] = @ - 1]
  /\ Goto(k, woken)
  /\ UNCHANGED <<lists, signaled, owes, dataSink, closed>>

WakeUp(k) ==
  \/ TakeToken(k, "event", "wait", "reset")
  \/ TakeToken(k, "receive", "waitReceive", "popReceive")

\* ... or without it.
TimeOut(k) ==
  /\ \/ pc[k] = "wait" /\ Goto(k, "drain")
     \/ pc[k] = "waitReceive" /\ Goto(k, "idle")
  /\ UNCHANGED <<lists, tokens, owes, dataSink, closed>>

\* waitEvents clears the flag in a section of its own.
ResetSignal(k) ==
  /\ pc[k] = "reset"
  /\ signaled' = [signaled EXCEPT !["event"] = FALSE]
  /\ Goto(k, "drain")
  /\ UNCHANGED <<lists, available, owes, dataSink, closed>>

\* A token whose flag is set is taken back without waiting; one that is still
\* owed stays out.
Retaken(T) == {t \in T : signaled[t] /\ available[t] > 0}

Least(m, n) == IF m < n THEN m ELSE n
\* Mutant: one more is dropped than was taken.
RestAfterNext(s, n) == IF n = 0 THEN s ELSE SubSeq(s, n + 2, Len(s))

Rest(s, n) == SubSeq(s, n + 1, Len(s))

\* Mutants: one of the lists, or one of the tokens, is forgotten.
WantedForEvents(left, leftReceives) == IF left # <<>> THEN {"event"} ELSE {}
WantedForAny(left, leftReceives) ==
  IF left # <<>> \/ leftReceives # <<>> THEN {"event"} ELSE {}

\* The tokens that must be out for what is left in the lists.
Wanted(left, leftReceives) ==
  (IF left # <<>> \/ leftReceives # <<>> THEN {"event"} ELSE {})
    \cup (IF leftReceives # <<>> THEN {"receive"} ELSE {})

\* drainEvents: events first, then datagrams, up to maxEvents of them.  They have left
\* the lists, and are in taken, also when Python has no memory for one of them: the
\* code then frees all it took, and the call raises.
DrainEvents(k, maxEvents) ==
  LET n == Least(Len(events), maxEvents)
      m == Least(Len(receives), maxEvents - n)
      left == Rest(events, n)
      leftReceives == Rest(receives, m)
  IN
  /\ pc[k] = "drain"
  /\ events' = left
  /\ receives' = leftReceives
  /\ taken' = taken \o SubSeq(events, 1, n) \o SubSeq(receives, 1, m)
  /\ Rearm(k, {}, Retaken({"event"} \cup (IF m > 0 THEN {"receive"} ELSE {})),
           Wanted(left, leftReceives))
  /\ UNCHANGED <<dataSink, closed>>

\* popReceiveLocked, after the flags of C were cleared.
PopReceive(k, C) ==
  LET left == Tail(receives) IN
  /\ receives' = left
  /\ taken' = Append(taken, Head(receives))
  /\ Rearm(k, C, Retaken({"receive"} \ C), IF left # <<>> THEN {"receive"} ELSE {})
  /\ UNCHANGED <<events, dataSink, closed>>

\* receiveFFLP2PAgentNative: takes a datagram at once, or waits for one.
ReceiveNative(k) ==
  /\ pc[k] = "idle"
  /\ IF receives # <<>>
       THEN PopReceive(k, {})
       ELSE Goto(k, "waitReceive") /\ UNCHANGED <<lists, tokens, owes, dataSink, closed>>

ReceiveWoken(k) ==
  /\ pc[k] = "popReceive"
  /\ IF receives # <<>>
       THEN PopReceive(k, {"receive"})
       ELSE Rearm(k, {"receive"}, {}, {}) /\ UNCHANGED <<lists, dataSink, closed>>

-----------------------------------------------------------------------------
(* The owner of the agent.                                                  *)

\* setFFLP2PAgentNativeDataSink refuses a second sink and a closed agent.
SetSink ==
  /\ ~closed /\ ~dataSink
  /\ dataSink' = TRUE
  /\ UNCHANGED <<lists, tokens, owes, closed, pc>>

ClearSink ==
  /\ dataSink
  /\ dataSink' = FALSE
  /\ UNCHANGED <<lists, tokens, owes, closed, pc>>

\* closeAgent wakes nobody; what was queued can still be polled.
CloseAgent ==
  /\ ~closed
  /\ closed' = TRUE
  /\ dataSink' = FALSE
  /\ UNCHANGED <<lists, tokens, owes, pc>>

CallbackStep(p) ==
  \/ p \in Event /\ QueueEvent(p)
  \/ p \in Datagram /\ (OnReceive(p) \/ QueueReceive(p))

ConsumerStep(k) ==
  WakeUp(k) \/ ResetSignal(k) \/ ReceiveWoken(k) \/ \E n \in Limits : DrainEvents(k, n)

ConsumerCall(k) == PollEvents(k) \/ WaitEvents(k) \/ ReceiveNative(k)

Next ==
  \/ \E p \in Callback : CallbackStep(p)
  \/ \E k \in Consumer : ConsumerStep(k) \/ ConsumerCall(k) \/ TimeOut(k)
  \/ \E p \in Process : ReleaseToken(p)
  \/ SetSink \/ ClearSink \/ CloseAgent

Spec == Init /\ [][Next]_vars

\* Threads that were in the middle of something go on.  Nobody has to call and
\* no wait has to time out.
Fairness ==
  /\ \A p \in Process : WF_vars(ReleaseToken(p))
  /\ \A k \in Consumer : WF_vars(ConsumerStep(k))
FairSpec == Spec /\ Fairness

-----------------------------------------------------------------------------
(* Properties.                                                              *)

\* Who took the token t and has not cleared its flag yet.
Clearing(k, t) ==
  k \in Consumer /\ pc[k] = IF t = "event" THEN "reset" ELSE "popReceive"

\* Those who can make the token t appear, or just made it disappear.
Holds(p, t) == t \in owes[p] \/ Clearing(p, t)

\* "Binary events" (P2P.c:545): a token is out once at most, however releases
\* and re-arming drains interleave; then the lock is never released twice.
\* The flag is set exactly while the token is out, owed, or taken by a waiter
\* that has not cleared the flag yet, and only one of the three is the case.
BinaryTokens ==
  \A t \in Token :
    /\ available[t] <= 1
    /\ ~signaled[t] => available[t] = 0 /\ \A p \in Process : ~Holds(p, t)
    /\ signaled[t] /\ available[t] = 1 => \A p \in Process : ~Holds(p, t)
    /\ signaled[t] /\ available[t] = 0 => \E p \in Process : Holds(p, t)
    /\ \A p, q \in Process : Holds(p, t) /\ Holds(q, t) => p = q
    /\ \A p \in Process : ~(t \in owes[p] /\ Clearing(p, t))

\* What the flags promise (drainEvents, P2P.c:868 and 913): with something in a
\* list its flag is set, or a consumer that cleared it is about to drain.
FlagsCoverLists ==
  /\ receives # <<>> => signaled["receive"]
  /\ events # <<>> \/ receives # <<>> =>
       signaled["event"] \/ \E k \in Consumer : pc[k] = "drain"

\* No consumer sleeps on a queued event (queueEvent, P2P.c:172): its token is
\* out, or some other thread is about to release it or to drain the lists.
NoSleepOnEvents ==
  (\E k \in Consumer : pc[k] = "wait") /\ (events # <<>> \/ receives # <<>>) =>
    \/ available["event"] > 0
    \/ \E p \in Process : "event" \in owes[p]
    \/ \E k \in Consumer : pc[k] \in {"reset", "drain"}

\* The same for those who wait for datagrams only (P2P.c:256).
NoSleepOnDatagrams ==
  (\E k \in Consumer : pc[k] = "waitReceive") /\ receives # <<>> =>
    \/ available["receive"] > 0
    \/ \E p \in Process : "receive" \in owes[p]
    \/ \E k \in Consumer : pc[k] = "popReceive"

\* Neither kind of consumer sleeps on what it waits for.
NoSleep == NoSleepOnEvents /\ NoSleepOnDatagrams

\* Whatever was queued before the agent closed is in its list or was handed
\* out, and only once (drainEvents, P2P.c:874-905).
Occurrences(s, p) == Cardinality({i \in DOMAIN s : s[i] = p})
NothingLost ==
  \A p \in Callback :
    pc[p] \in {"signal", "queued"} =>
      Occurrences(events, p) + Occurrences(receives, p) + Occurrences(taken, p) = 1

\* A waiting consumer is woken by an event, unless somebody else took it
\* (waitForAgentEvents, P2P.c:1002).
WaiterWoken ==
  \A k \in Consumer :
    (pc[k] = "wait" /\ (events # <<>> \/ receives # <<>>))
      ~> (pc[k] # "wait" \/ (events = <<>> /\ receives = <<>>))
=============================================================================
