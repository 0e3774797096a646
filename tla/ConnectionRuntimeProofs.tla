----------------------- MODULE ConnectionRuntimeProofs -----------------------
(***************************************************************************)
(* Proofs about ConnectionRuntime for every set of connections and calls and *)
(* every operation budget.                                                   *)
(***************************************************************************)
EXTENDS ConnectionRuntime, SequenceTheorems, TLAPS

USE ConstantsAssumption DEF AllKinds

-----------------------------------------------------------------------------
(* Sequences as queues.                                                     *)

Elements(q) == {q[i] : i \in DOMAIN q}
Distinct(q) == \A i, j \in DOMAIN q : q[i] = q[j] => i = j

LEMMA EmptyQueue ==
  ASSUME NEW S
  PROVE  <<>> \in Seq(S) /\ Elements(<<>>) = {} /\ Distinct(<<>>)
BY DEF Elements, Distinct

LEMMA AppendQueue ==
  ASSUME NEW S, NEW q \in Seq(S), NEW e \in S
  PROVE  /\ Append(q, e) \in Seq(S)
         /\ Append(q, e) # <<>>
         /\ Elements(Append(q, e)) = Elements(q) \cup {e}
         /\ Distinct(q) /\ e \notin Elements(q) => Distinct(Append(q, e))
<1> DEFINE r == Append(q, e)
<1>1. /\ r \in Seq(S)
      /\ Len(q) \in Nat
      /\ DOMAIN q = 1 .. Len(q)
      /\ DOMAIN r = 1 .. Len(q) + 1
      /\ r[Len(q) + 1] = e
      /\ \A i \in 1 .. Len(q) : r[i] = q[i]
  OBVIOUS
<1>2. r # <<>>
  BY <1>1
<1>3. Elements(r) = Elements(q) \cup {e}
  BY <1>1 DEF Elements
<1>4. Distinct(q) /\ e \notin Elements(q) => Distinct(r)
  BY <1>1 DEF Elements, Distinct
<1> QED BY <1>1, <1>2, <1>3, <1>4

LEMMA TailQueue ==
  ASSUME NEW S, NEW q \in Seq(S), q # <<>>
  PROVE  /\ Head(q) \in S
         /\ Tail(q) \in Seq(S)
         /\ Elements(q) = Elements(Tail(q)) \cup {Head(q)}
         /\ Distinct(q) => Distinct(Tail(q)) /\ Head(q) \notin Elements(Tail(q))
<1> DEFINE t == Tail(q)
<1>1. /\ t \in Seq(S) /\ Head(q) \in S
      /\ Len(q) \in Nat /\ Len(q) >= 1
      /\ DOMAIN q = 1 .. Len(q)
      /\ DOMAIN t = 1 .. Len(q) - 1
      /\ Head(q) = q[1]
      /\ \A i \in 1 .. Len(q) - 1 : t[i] = q[i + 1]
  BY EmptySeq, HeadTailProperties
<1>2. Elements(q) = Elements(t) \cup {Head(q)}
  <2>1. ASSUME NEW i \in DOMAIN q, i # 1 PROVE q[i] \in Elements(t)
    <3>1. i - 1 \in DOMAIN t /\ t[i - 1] = q[i]
      BY <1>1, <2>1
    <3> QED BY <3>1 DEF Elements
  <2>2. ASSUME NEW i \in DOMAIN t PROVE t[i] \in Elements(q)
    BY <1>1 DEF Elements
  <2>3. 1 \in DOMAIN q
    BY <1>1
  <2> HIDE DEF t
  <2> QED BY <2>1, <2>2, <2>3, <1>1 DEF Elements
<1>3. Distinct(q) => Distinct(t) /\ Head(q) \notin Elements(t)
  BY <1>1 DEF Elements, Distinct
<1> QED BY <1>1, <1>2, <1>3

-----------------------------------------------------------------------------
(* Lemmas about the operators of ConnectionRuntime.                         *)

LEMMA InternalOperation ==
  ASSUME NEW type \in OperationType
  PROVE  Internal(type) \in Operation
BY DEF Internal, Operation

LEMMA OperationOfCall ==
  ASSUME NEW k \in Call, kind \in [Call -> Kinds]
  PROVE  OperationOf(k) \in Operation
BY DEF OperationOf, Operation, OperationType, Internal

LEMMA AnsweredType ==
  ASSUME NEW k, NEW result \in {"ok", "error"}, answer \in [Call -> {"none", "ok", "error"}]
  PROVE  Answered(k, result) \in [Call -> {"none", "ok", "error"}]
BY DEF Answered

\* What queueing flushes does to a mailbox: it keeps what is there and stays typed.
LEMMA QueueFlushesType ==
  ASSUME TypeOK, NEW pending \in SUBSET FlushType, NEW F \in SUBSET FlushType,
         QueueFlushes(pending, F)
  PROVE  /\ ops' \in [Connection -> Seq(Operation)]
         /\ flushing' \in [Connection -> SUBSET FlushType]
<1> DEFINE c == wconn
           q == IF stopped[c] THEN {} ELSE F \ pending
           s1 == IF "FlushStreamRecv" \in q THEN <<Internal("FlushStreamRecv")>> ELSE <<>>
           s2 == IF "FlushSend" \in q THEN <<Internal("FlushSend")>> ELSE <<>>
<1>1. Internal("FlushSend") \in Operation /\ Internal("FlushStreamRecv") \in Operation
  BY InternalOperation DEF OperationType
<1>2. s1 \in Seq(Operation) /\ s2 \in Seq(Operation)
  BY <1>1
<1>3. ops[c] \in Seq(Operation)
  BY DEF TypeOK
<1>4. (ops[c] \o s1) \o s2 \in Seq(Operation)
  <2> HIDE DEF s1, s2
  <2> QED BY <1>2, <1>3
<1>5. ops' = [ops EXCEPT ![c] = (ops[c] \o s1) \o s2]
  BY DEF QueueFlushes, TypeOK
<1>6. flushing' = [flushing EXCEPT ![c] = pending \cup F]
  BY DEF QueueFlushes
<1> QED BY <1>4, <1>5, <1>6 DEF TypeOK, FlushType

LEMMA ScheduleByWorkerType ==
  ASSUME TypeOK, ScheduleByWorker
  PROVE  /\ sched' \in [Connection -> {"Idle", "Queued", "Processing"}]
         /\ runQueue' \in Seq(Connection)
         /\ ready' \in BOOLEAN
<1>1. Append(runQueue, wconn) \in Seq(Connection)
  BY AppendQueue DEF TypeOK
<1>2. CASE sched[wconn] = "Idle"
  BY <1>1, <1>2 DEF ScheduleByWorker, TypeOK
<1>3. CASE sched[wconn] # "Idle"
  BY <1>3 DEF ScheduleByWorker, TypeOK
<1> QED BY <1>2, <1>3

-----------------------------------------------------------------------------
(* Type correctness.                                                        *)

LEMMA TypeInit == Init => TypeOK
<1>1. Internal("FlushSend") \in Operation
  BY InternalOperation DEF OperationType
<1>2. <<>> \in Seq(Operation) /\ <<>> \in Seq(Connection)
  BY EmptyQueue
<1>3. Init => /\ wop \in Operation
              /\ ops \in [Connection -> Seq(Operation)]
              /\ runQueue \in Seq(Connection)
              /\ rxBatch \in [Connection -> Nat] /\ processed \in Nat
  BY <1>1, <1>2 DEF Init
<1>4. Init => /\ at \in [Call -> CallPC] /\ wpc \in WorkerPC
              /\ answer \in [Call -> {"none", "ok", "error"}]
              /\ flushing \in [Connection -> SUBSET FlushType]
              /\ wheel \in SUBSET Connection /\ expired \in SUBSET Connection
  BY DEF Init, CallPC, WorkerPC
<1>5. Init => sched \in [Connection -> {"Idle", "Queued", "Processing"}]
  <2>1. Init => sched = [c \in Connection |-> "Idle"]
    BY DEF Init
  <2> QED BY <2>1
<1>8. Init => ready \in BOOLEAN /\ running \in BOOLEAN
  BY DEF Init
<1>9. Init => wconn \in Connection /\ kind \in [Call -> Kinds] /\ target \in [Call -> Connection]
  BY Zenon DEF Init
<1>6. [c \in Connection |-> FALSE] \in [Connection -> BOOLEAN]
  OBVIOUS
<1>7. Init => /\ started \in [Connection -> BOOLEAN]
              /\ stopped \in [Connection -> BOOLEAN]
              /\ conn \in [Connection -> BOOLEAN]
              /\ deadline \in [Connection -> BOOLEAN]
              /\ attached \in [Connection -> BOOLEAN]
              /\ rxPending \in [Connection -> BOOLEAN]
              /\ appError \in [Connection -> BOOLEAN]
  BY <1>6 DEF Init
<1> QED BY <1>3, <1>4, <1>5, <1>7, <1>8, <1>9 DEF TypeOK

\* A datagram joins the batch.
LEMMA AppendDatagramType ==
  ASSUME TypeOK, NEW k \in Call, AppendDatagram(k)
  PROVE  /\ rxBatch' \in [Connection -> Nat] /\ rxPending' \in [Connection -> BOOLEAN]
         /\ at' \in [Call -> CallPC]
<1>1. /\ rxBatch \in [Connection -> Nat] /\ rxPending \in [Connection -> BOOLEAN]
      /\ at \in [Call -> CallPC] /\ target[k] \in Connection
  BY DEF TypeOK
<1>2. rxBatch[target[k]] + 1 \in Nat
  BY <1>1
<1>3. rxBatch' = rxBatch \/ rxBatch' = [rxBatch EXCEPT ![target[k]] = rxBatch[target[k]] + 1]
  BY DEF AppendDatagram
<1>4. rxPending' = rxPending \/ rxPending' = [rxPending EXCEPT ![target[k]] = TRUE]
  BY DEF AppendDatagram
<1>5. at' = [at EXCEPT ![k] = "done"] \/ at' = [at EXCEPT ![k] = "check"]
  BY DEF AppendDatagram, Goto
<1>6. rxBatch' \in [Connection -> Nat]
  BY <1>1, <1>2, <1>3
<1>7. rxPending' \in [Connection -> BOOLEAN]
  BY <1>1, <1>4
<1>8. at' \in [Call -> CallPC]
  BY <1>1, <1>5 DEF CallPC
<1> QED BY <1>6, <1>7, <1>8

LEMMA TypeCallStep ==
  ASSUME TypeOK, NEW k \in Call, InvokeStep(k) \/ CallStep(k) \/ WaitTimedOut(k)
  PROVE  TypeOK'
<1> USE DEF TypeOK, connectionVars, workerVars, CallPC, Goto
<1>1. CASE BeginStart(k)
  BY <1>1 DEF BeginStart
<1>2. CASE BeginSend(k)
  BY <1>2 DEF BeginSend
<1>r. CASE BeginRead(k)
  BY <1>r DEF BeginRead
<1>3. CASE BeginClose(k)
  BY <1>3 DEF BeginClose
<1>4. CASE BeginReceive(k)
  BY <1>4 DEF BeginReceive
<1>5. CASE StopWorker(k)
  BY <1>5 DEF StopWorker
<1>6. CASE Attach(k)
  BY <1>6 DEF Attach
<1>7. CASE AppendDatagram(k)
  BY <1>7, AppendDatagramType DEF AppendDatagram
<1>8. CASE CheckStopped(k)
  <2>1. answer' \in [Call -> {"none", "ok", "error"}]
    BY <1>8, AnsweredType, OperationOfCall DEF CheckStopped
  <2>2. at' \in [Call -> CallPC]
    BY <1>8 DEF CheckStopped, AfterQueueing
  <2> QED BY <1>8, <2>1, <2>2 DEF CheckStopped
<1>9. CASE PushOperation(k)
  <2>1. ops' \in [Connection -> Seq(Operation)]
    BY <1>9, OperationOfCall DEF PushOperation
  <2>2. at' \in [Call -> CallPC]
    BY <1>9 DEF PushOperation
  <2> QED BY <1>9, <2>1, <2>2 DEF PushOperation
<1>10. CASE ScheduleIfIdle(k)
  <2>1. /\ sched \in [Connection -> {"Idle", "Queued", "Processing"}]
        /\ at \in [Call -> CallPC]
    OBVIOUS
  <2>2. sched' \in [Connection -> {"Idle", "Queued", "Processing"}]
    <3> HIDE DEF TypeOK
    <3> QED BY <1>10, <2>1 DEF ScheduleIfIdle
  <2>3. at' \in [Call -> CallPC]
    <3> HIDE DEF TypeOK
    <3> QED BY <1>10, <2>1 DEF ScheduleIfIdle, AfterQueueing
  <2> QED BY <1>10, <2>2, <2>3 DEF ScheduleIfIdle
<1>11. CASE QueueConnection(k)
  BY <1>11 DEF QueueConnection
<1>12. CASE SignalReady(k)
  BY <1>12 DEF SignalReady, AfterQueueing
<1>13. CASE WaitAnswered(k)
  BY <1>13 DEF WaitAnswered
<1>14. CASE Detach(k)
  BY <1>14 DEF Detach
<1>15. CASE JoinWorker(k)
  BY <1>15 DEF JoinWorker
<1>16. CASE WaitTimedOut(k)
  BY <1>16 DEF WaitTimedOut
<1> HIDE DEF TypeOK, connectionVars, workerVars, CallPC, Goto
<1> QED BY <1>1, <1>2, <1>r, <1>3, <1>4, <1>5, <1>6, <1>7, <1>8, <1>9, <1>10, <1>11, <1>12, <1>13, <1>14, <1>15, <1>16 DEF InvokeStep, CallStep

LEMMA TypeWorkerStep ==
  ASSUME TypeOK, WorkerStep
  PROVE  TypeOK'
<1> USE DEF TypeOK, connectionVars, workerVars, WorkerPC, ProcessingPC, ExitPC
<1>0. ASSUME NEW c \in Connection, QueueTimerExpired(c) PROVE TypeOK'
  <2>1. ops' \in [Connection -> Seq(Operation)]
    <3>1. ops \in [Connection -> Seq(Operation)]
      OBVIOUS
    <3>2. ops' = ops \/ ops' = [ops EXCEPT ![c] = Append(@, Internal("TimerExpired"))]
      BY <1>0 DEF QueueTimerExpired
    <3> HIDE DEF TypeOK
    <3>3. Internal("TimerExpired") \in Operation
      BY InternalOperation DEF OperationType
    <3>4. Append(ops[c], Internal("TimerExpired")) \in Seq(Operation)
      BY <3>1, <3>3, AppendQueue
    <3> QED BY <3>1, <3>2, <3>4
  <2>2. wpc' \in WorkerPC
    BY <1>0 DEF QueueTimerExpired
  <2> QED BY <1>0, <2>1, <2>2 DEF QueueTimerExpired
<1>1. CASE LoopTop
  BY <1>1 DEF LoopTop
<1>2. CASE ScheduleExpired
  BY <1>2, ScheduleByWorkerType DEF ScheduleExpired
<1>3. CASE PopConnection
  <2>1. runQueue' \in Seq(Connection) /\ wconn' \in Connection /\ wpc' \in WorkerPC
    <3>1. CASE runQueue = <<>>
      BY <1>3, <3>1 DEF PopConnection
    <3>2. CASE runQueue # <<>>
      <4>1. Head(runQueue) \in Connection /\ Tail(runQueue) \in Seq(Connection)
        BY <3>2, TailQueue
      <4>2. runQueue' = Tail(runQueue) /\ wconn' = Head(runQueue) /\ wpc' = "begin"
        BY <1>3, <3>2 DEF PopConnection
      <4> QED BY <4>1, <4>2
    <3> QED BY <3>1, <3>2
  <2> QED BY <1>3, <2>1 DEF PopConnection
<1>4. CASE Park
  BY <1>4 DEF Park
<1>5. CASE BeginWorkerProcessing
  BY <1>5 DEF BeginWorkerProcessing
<1>6. CASE PopOperation
  <2>1. ops[wconn] \in Seq(Operation)
    OBVIOUS
  <2>2. wop' \in Operation /\ ops' \in [Connection -> Seq(Operation)] /\ wpc' \in WorkerPC
    <3>1. CASE processed < Budget /\ ops[wconn] # <<>>
      <4>1. Head(ops[wconn]) \in Operation /\ Tail(ops[wconn]) \in Seq(Operation)
        BY <2>1, <3>1, TailQueue
      <4> DEFINE h == Head(ops[wconn])
                 t == Tail(ops[wconn])
      <4>2. wop' = h /\ ops' = [ops EXCEPT ![wconn] = t] /\ wpc' = "execute"
        BY <1>6, <3>1 DEF PopOperation
      <4> HIDE DEF h, t
      <4>3. h \in Operation /\ t \in Seq(Operation)
        BY <4>1 DEF h, t
      <4> QED BY <4>2, <4>3
    <3>2. CASE ~(processed < Budget /\ ops[wconn] # <<>>)
      BY <1>6, <3>2 DEF PopOperation
    <3> QED BY <3>1, <3>2
  <2> QED BY <1>6, <2>2 DEF PopOperation
<1>7. CASE ProcessStart
  BY <1>7, QueueFlushesType DEF ProcessStart, Throw, FlushType
<1>8. CASE ProcessSend
  BY <1>8, QueueFlushesType DEF ProcessSend, Throw, FlushType
<1>9. CASE ProcessReceive
  BY <1>9, QueueFlushesType DEF ProcessReceive, Throw, FlushType
<1>10. CASE ProcessStreamReceive
  BY <1>10 DEF ProcessStreamReceive, FlushType
<1>11. CASE ProcessSendFlush
  <2>1. /\ ops' \in [Connection -> Seq(Operation)]
        /\ flushing' \in [Connection -> SUBSET FlushType]
        /\ wpc' \in WorkerPC
    <3>1. CASE wpc' = "failError"
      <4>1. ops' = ops /\ flushing' = [flushing EXCEPT ![wconn] = flushing[wconn] \ {"FlushSend"}]
        BY <1>11, <3>1 DEF ProcessSendFlush
      <4> QED BY <3>1, <4>1
    <3>2. ASSUME NEW again \in {{}, {"FlushSend"}},
                 QueueFlushes(flushing[wconn] \ {"FlushSend"}, again), wpc' = "complete"
          PROVE  /\ ops' \in [Connection -> Seq(Operation)]
                 /\ flushing' \in [Connection -> SUBSET FlushType]
      BY <3>2, QueueFlushesType DEF FlushType
    <3> QED BY <1>11, <3>1, <3>2 DEF ProcessSendFlush
  <2> QED BY <1>11, <2>1 DEF ProcessSendFlush
<1>12. CASE ProcessTimer
  <2>1. ops' \in [Connection -> Seq(Operation)] /\ flushing' \in [Connection -> SUBSET FlushType]
    BY <1>12, QueueFlushesType DEF ProcessTimer, Throw, FlushType
  <2>2. wpc' \in WorkerPC
    BY <1>12 DEF ProcessTimer, Throw
  <2> QED BY <1>12, <2>1, <2>2 DEF ProcessTimer, Throw
<1>c. CASE ProcessReleaseStreamReceiveCredit
  <2>1. ops' \in [Connection -> Seq(Operation)] /\ flushing' \in [Connection -> SUBSET FlushType]
    BY <1>c, QueueFlushesType DEF ProcessReleaseStreamReceiveCredit, Throw, FlushType
  <2>2. wpc' \in WorkerPC
    BY <1>c DEF ProcessReleaseStreamReceiveCredit, Throw
  <2> QED BY <1>c, <2>1, <2>2 DEF ProcessReleaseStreamReceiveCredit, Throw
<1>13. CASE ProcessShutdown
  BY <1>13 DEF ProcessShutdown
<1>14. CASE RecheckReceive
  BY <1>14, InternalOperation DEF RecheckReceive, OperationType, StrandedBatch
<1>15. CASE CompleteOperation
  <2>0. answer' \in [Call -> {"none", "ok", "error"}]
    BY <1>15, AnsweredType DEF CompleteOperation
  <2>1. processed' \in Nat
    BY <1>15 DEF CompleteOperation
  <2>2. deadline' \in [Connection -> BOOLEAN] /\ wpc' \in WorkerPC
    BY <1>15 DEF CompleteOperation
  <2> QED BY <1>15, <2>0, <2>1, <2>2 DEF CompleteOperation
<1>16. CASE FailError
  BY <1>16, AnsweredType DEF FailError
<1>17. CASE FailStop
  BY <1>17 DEF FailStop
<1>18. CASE DrainOperation
  <2>1. ops[wconn] \in Seq(Operation)
    OBVIOUS
  <2>2. /\ ops' \in [Connection -> Seq(Operation)]
        /\ answer' \in [Call -> {"none", "ok", "error"}]
        /\ wpc' \in WorkerPC
    <3>1. CASE ops[wconn] # <<>>
      <4>1. Tail(ops[wconn]) \in Seq(Operation)
        BY <2>1, <3>1, TailQueue
      <4> DEFINE by == Head(ops[wconn]).by
                 t == Tail(ops[wconn])
      <4>2. answer' = Answered(by, "error") /\ ops' = [ops EXCEPT ![wconn] = t] /\ wpc' = wpc
        BY <1>18, <3>1 DEF DrainOperation
      <4> HIDE DEF by, t
      <4>3. answer' \in [Call -> {"none", "ok", "error"}]
        BY <4>2, AnsweredType
      <4>4. ops' \in [Connection -> Seq(Operation)]
        BY <4>1, <4>2 DEF t
      <4> QED BY <4>2, <4>3, <4>4
    <3>2. CASE ops[wconn] = <<>>
      BY <1>18, <3>2 DEF DrainOperation
    <3> QED BY <3>1, <3>2
  <2> QED BY <1>18, <2>2 DEF DrainOperation
<1>19. CASE UpdateTimer
  BY <1>19 DEF UpdateTimer
<1>20. CASE FinishWorkerProcessing
  BY <1>20 DEF FinishWorkerProcessing
<1>21. CASE RecheckOperations
  BY <1>21, ScheduleByWorkerType DEF RecheckOperations
<1>22. CASE FailQueued
  <2>1. runQueue' \in Seq(Connection) /\ wconn' \in Connection /\ wpc' \in WorkerPC
    <3>1. CASE runQueue = <<>>
      BY <1>22, <3>1 DEF FailQueued
    <3>2. CASE runQueue # <<>>
      <4>1. Head(runQueue) \in Connection /\ Tail(runQueue) \in Seq(Connection)
        BY <3>2, TailQueue
      <4>2. runQueue' = Tail(runQueue) /\ wconn' = Head(runQueue) /\ wpc' = "exitFail"
        BY <1>22, <3>2 DEF FailQueued
      <4> QED BY <4>1, <4>2
    <3> QED BY <3>1, <3>2
  <2>2. appError' \in [Connection -> BOOLEAN]
    BY <1>22 DEF FailQueued
  <2>3. conn' \in [Connection -> BOOLEAN]
    BY <1>22 DEF FailQueued
  <2>4. stopped' \in [Connection -> BOOLEAN]
    BY <1>22 DEF FailQueued
  <2> QED BY <1>22, <2>1, <2>2, <2>3, <2>4 DEF FailQueued
<1> HIDE DEF TypeOK, connectionVars, workerVars, WorkerPC, ProcessingPC, ExitPC
<1> QED BY <1>0, <1>1, <1>2, <1>3, <1>4, <1>5, <1>6, <1>7, <1>8, <1>9, <1>10, <1>11, <1>12, <1>c, <1>13, <1>14, <1>15, <1>16, <1>17, <1>18, <1>19, <1>20, <1>21, <1>22 DEF WorkerStep, Execute

\* Every variable keeps its type (ConnectionRuntime's state, Connection.h:268).
THEOREM TypeCorrect == Spec => []TypeOK
<1>1. Init => TypeOK
  BY TypeInit
<1>2. TypeOK /\ [Next]_vars => TypeOK'
  <2>1. CASE UNCHANGED vars
    BY <2>1 DEF vars, connectionVars, workerVars, TypeOK
  <2>2. CASE Next
    BY <2>2, TypeCallStep, TypeWorkerStep DEF Next
  <2> QED BY <2>1, <2>2
<1> QED BY <1>1, <1>2, PTL DEF Spec

-----------------------------------------------------------------------------
(* Scheduling.                                                              *)

\* SchedulingInv with the run queue seen as a set.
SchedulingView ==
  /\ Distinct(runQueue)
  /\ \A k \in Call : Enqueuing(k) => target[k] \notin Elements(runQueue)
  /\ \A c \in Connection : c \in Elements(runQueue) => sched[c] = "Queued"
  /\ \A c \in Connection : ops[c] # <<>> /\ sched[c] = "Idle" =>
       \/ \E k \in Call : at[k] = "cas" /\ target[k] = c
       \/ wpc \in {"recheck", "timerCas"} /\ wconn = c
  /\ \A c \in Connection : sched[c] = "Queued" /\ ~Exiting =>
       \/ c \in Elements(runQueue)
       \/ \E k \in Call : Enqueuing(k) /\ target[k] = c
       \/ wpc = "begin" /\ wconn = c
  /\ wpc = "park" /\ Elements(runQueue) # {} => ready \/ \E k \in Call : at[k] = "signal"
  /\ \A k \in Call : Enqueuing(k) => sched[target[k]] = "Queued"
  /\ \A k, l \in Call : Enqueuing(k) /\ Enqueuing(l) /\ target[k] = target[l] => k = l
  /\ wpc = "begin" =>
       /\ sched[wconn] = "Queued" /\ wconn \notin Elements(runQueue)
       /\ \A k \in Call : Enqueuing(k) => target[k] # wconn
  /\ \A c \in Connection : sched[c] = "Processing" <=> (wpc \in ProcessingPC /\ wconn = c)

LEMMA ElementsEmpty ==
  ASSUME NEW S, NEW q \in Seq(S)
  PROVE  Elements(q) = {} <=> q = <<>>
<1>1. DOMAIN q = 1 .. Len(q) /\ Len(q) \in Nat
  OBVIOUS
<1>2. q # <<>> => 1 \in DOMAIN q
  BY <1>1, EmptySeq
<1> QED BY <1>2, EmptyQueue DEF Elements

LEMMA ViewOfInvariant ==
  ASSUME TypeOK, SchedulingInv
  PROVE  SchedulingView
<1>1. \A c : InRunQueue(c) <=> c \in Elements(runQueue)
  BY DEF InRunQueue, Elements
<1>2. Elements(runQueue) # {} <=> runQueue # <<>>
  BY ElementsEmpty DEF TypeOK
<1> QED BY <1>1, <1>2 DEF SchedulingInv, SchedulingView, ScheduledOnce, NoLostWakeup,
             WorkerAwake, Distinct

LEMMA InvariantOfView ==
  ASSUME TypeOK', SchedulingView'
  PROVE  SchedulingInv'
<1>1. \A c : InRunQueue(c)' <=> c \in Elements(runQueue')
  BY DEF InRunQueue, Elements
<1>2. Elements(runQueue') # {} <=> runQueue' # <<>>
  BY ElementsEmpty DEF TypeOK
<1> QED BY <1>1, <1>2 DEF SchedulingInv, SchedulingView, ScheduledOnce, NoLostWakeup,
             WorkerAwake, Distinct

\* A call that moves on without touching the mailboxes, the schedule states or
\* the run queue, and without holding a ticket.
QuietCall(k) ==
  /\ UNCHANGED <<sched, ops, runQueue, ready, wpc, wconn, target>>
  /\ at[k] \notin {"cas", "enqueue", "signal"}
  /\ \E pc \in CallPC \ {"enqueue"} : at' = [at EXCEPT ![k] = pc]

LEMMA QuietCallStep ==
  ASSUME TypeOK, SchedulingView, NEW k \in Call, QuietCall(k)
  PROVE  SchedulingView'
BY DEF TypeOK, SchedulingView, QuietCall, Enqueuing, Exiting

\* The Worker at work on its connection: only that connection's mailbox changes.
QuietWorker ==
  /\ UNCHANGED <<sched, runQueue, ready, at, wconn, target>>
  /\ wpc \in ProcessingPC /\ wpc' \in ProcessingPC
  /\ \A c \in Connection \ {wconn} : ops'[c] = ops[c]

LEMMA QuietWorkerStep ==
  ASSUME TypeOK, SchedulingView, QuietWorker
  PROVE  SchedulingView'
BY DEF TypeOK, SchedulingView, QuietWorker, Enqueuing, Exiting, ProcessingPC, ExitPC

LEMMA SchedulingCallStep ==
  ASSUME TypeOK, SchedulingView, NEW k \in Call,
         InvokeStep(k) \/ CallStep(k) \/ WaitTimedOut(k)
  PROVE  SchedulingView'
<1>1. CASE BeginStart(k)
  <2>1. QuietCall(k)
    BY <1>1 DEF BeginStart, QuietCall, Goto, CallPC, workerVars
  <2> QED BY <2>1, QuietCallStep
<1>2. CASE BeginSend(k)
  <2>1. QuietCall(k)
    BY <1>2 DEF BeginSend, QuietCall, Goto, CallPC, workerVars
  <2> QED BY <2>1, QuietCallStep
<1>r. CASE BeginRead(k)
  <2>1. QuietCall(k)
    BY <1>r DEF BeginRead, QuietCall, Goto, CallPC, workerVars
  <2> QED BY <2>1, QuietCallStep
<1>3. CASE BeginClose(k)
  <2>1. QuietCall(k)
    BY <1>3 DEF BeginClose, QuietCall, Goto, CallPC, workerVars
  <2> QED BY <2>1, QuietCallStep
<1>4. CASE BeginReceive(k)
  <2>1. QuietCall(k)
    BY <1>4 DEF BeginReceive, QuietCall, Goto, CallPC, workerVars
  <2> QED BY <2>1, QuietCallStep
<1>5. CASE Attach(k)
  <2>1. QuietCall(k)
    BY <1>5 DEF Attach, QuietCall, Goto, CallPC, workerVars
  <2> QED BY <2>1, QuietCallStep
<1>6. CASE AppendDatagram(k)
  <2>1. QuietCall(k)
    BY <1>6 DEF AppendDatagram, QuietCall, Goto, CallPC, workerVars
  <2> QED BY <2>1, QuietCallStep
<1>7. CASE CheckStopped(k)
  <2>1. QuietCall(k)
    BY <1>7 DEF CheckStopped, QuietCall, Goto, CallPC, workerVars, AfterQueueing
  <2> QED BY <2>1, QuietCallStep
<1>8. CASE WaitAnswered(k)
  <2>1. QuietCall(k)
    BY <1>8 DEF WaitAnswered, QuietCall, Goto, CallPC, workerVars
  <2> QED BY <2>1, QuietCallStep
<1>9. CASE Detach(k)
  <2>1. QuietCall(k)
    BY <1>9 DEF Detach, QuietCall, Goto, CallPC, workerVars
  <2> QED BY <2>1, QuietCallStep
<1>10. CASE JoinWorker(k)
  <2>1. QuietCall(k)
    BY <1>10 DEF JoinWorker, QuietCall, Goto, CallPC, workerVars
  <2> QED BY <2>1, QuietCallStep
<1>11. CASE WaitTimedOut(k)
  <2>1. QuietCall(k)
    BY <1>11 DEF WaitTimedOut, QuietCall, Goto, CallPC, workerVars
  <2> QED BY <2>1, QuietCallStep
<1>12. CASE StopWorker(k)
  <2>1. QuietCall(k)
    BY <1>12 DEF StopWorker, QuietCall, Goto, CallPC, workerVars
  <2> QED BY <2>1, QuietCallStep
<1>20. CASE PushOperation(k)
  <2>1. /\ at[k] = "push" /\ at' = [at EXCEPT ![k] = "cas"]
        /\ \A c \in Connection \ {target[k]} : ops'[c] = ops[c]
        /\ UNCHANGED <<sched, runQueue, ready, wpc, wconn, target>>
    BY <1>20 DEF PushOperation, Goto, workerVars, TypeOK
  <2> QED BY <2>1 DEF TypeOK, SchedulingView, Enqueuing, Exiting
<1>21. CASE ScheduleIfIdle(k)
  <2>0. UNCHANGED <<ops, runQueue, ready, wpc, wconn, target>> /\ at[k] = "cas"
    BY <1>21 DEF ScheduleIfIdle, workerVars
  <2>1. CASE sched[target[k]] = "Idle"
    <3>1. /\ sched' = [sched EXCEPT ![target[k]] = "Queued"]
          /\ at' = [at EXCEPT ![k] = "enqueue"]
      BY <1>21, <2>1 DEF ScheduleIfIdle, Goto
    <3> QED BY <2>0, <2>1, <3>1 DEF TypeOK, SchedulingView, Enqueuing, Exiting
  <2>2. CASE sched[target[k]] # "Idle"
    <3>1. /\ sched' = sched
          /\ \E pc \in {"wait", "done"} : at' = [at EXCEPT ![k] = pc]
      BY <1>21, <2>2 DEF ScheduleIfIdle, Goto, AfterQueueing
    <3> QED BY <2>0, <2>2, <3>1 DEF TypeOK, SchedulingView, Enqueuing, Exiting
  <2> QED BY <2>1, <2>2
<1>22. CASE QueueConnection(k)
  <2>1. /\ UNCHANGED <<sched, ops, ready, wpc, wconn, target>>
        /\ at[k] = "enqueue" /\ at' = [at EXCEPT ![k] = "signal"]
        /\ runQueue' = Append(runQueue, target[k])
    BY <1>22 DEF QueueConnection, Goto, workerVars
  <2>2. target[k] \in Connection /\ target[k] \notin Elements(runQueue)
    BY <2>1 DEF TypeOK, SchedulingView, Enqueuing
  <2>3. Elements(runQueue') = Elements(runQueue) \cup {target[k]} /\ Distinct(runQueue')
    BY <2>1, <2>2, AppendQueue DEF TypeOK, SchedulingView
  <2> QED BY <2>1, <2>2, <2>3 DEF TypeOK, SchedulingView, Enqueuing, Exiting
<1>23. CASE SignalReady(k)
  <2>1. /\ UNCHANGED <<sched, ops, runQueue, wpc, wconn, target>> /\ ready'
        /\ at[k] = "signal"
        /\ \E pc \in {"join", "wait", "done"} : at' = [at EXCEPT ![k] = pc]
    BY <1>23 DEF SignalReady, Goto, AfterQueueing, workerVars
  <2> QED BY <2>1 DEF TypeOK, SchedulingView, Enqueuing, Exiting
<1> QED BY <1>1, <1>2, <1>r, <1>3, <1>4, <1>5, <1>6, <1>7, <1>8, <1>9, <1>10, <1>11, <1>12, <1>20, <1>21, <1>22, <1>23 DEF InvokeStep, CallStep

\* QueueFlushes touches the mailbox of the Worker's connection only.
LEMMA QueueFlushesFrame ==
  ASSUME TypeOK, NEW pending, NEW F, QueueFlushes(pending, F)
  PROVE  \A c \in Connection \ {wconn} : ops'[c] = ops[c]
BY DEF QueueFlushes, TypeOK

\* scheduleIfIdle by the Worker while it holds no connection: afterwards wconn is
\* not idle, and the run queue grew by it exactly if it was.
LEMMA SchedulingByWorker ==
  ASSUME TypeOK, SchedulingView, ScheduleByWorker,
         wpc \in {"recheck", "timerCas"}, wpc' \in {"loop", "pop", "timers"},
         UNCHANGED <<ops, at, wconn, target>>
  PROVE  SchedulingView'
<1>0. /\ wpc \notin ProcessingPC /\ wpc \notin ExitPC /\ wpc # "begin" /\ wpc # "park"
      /\ wpc' \notin ProcessingPC /\ wpc' \notin ExitPC /\ wpc' # "begin" /\ wpc' # "park"
  BY DEF ProcessingPC, ExitPC
<1>1. CASE sched[wconn] = "Idle"
  <2>1. /\ sched' = [sched EXCEPT ![wconn] = "Queued"]
        /\ runQueue' = Append(runQueue, wconn)
        /\ ready' = TRUE
    BY <1>1 DEF ScheduleByWorker
  <2>2. wconn \in Connection /\ wconn \notin Elements(runQueue)
    BY <1>1 DEF TypeOK, SchedulingView
  <2>3. Elements(runQueue') = Elements(runQueue) \cup {wconn} /\ Distinct(runQueue')
    BY <2>1, <2>2, AppendQueue DEF TypeOK, SchedulingView
  <2>4. ASSUME NEW c \in Connection, ops[c] # <<>>, sched'[c] = "Idle"
        PROVE  \E k \in Call : at[k] = "cas" /\ target[k] = c
    BY <2>1, <2>4 DEF SchedulingView, TypeOK
  <2> QED BY <1>0, <1>1, <2>1, <2>2, <2>3, <2>4 DEF TypeOK, SchedulingView, Enqueuing, Exiting
<1>2. CASE sched[wconn] # "Idle"
  <2>1. UNCHANGED <<sched, runQueue, ready>>
    BY <1>2 DEF ScheduleByWorker
  <2>2. ASSUME NEW c \in Connection, ops[c] # <<>>, sched[c] = "Idle"
        PROVE  \E k \in Call : at[k] = "cas" /\ target[k] = c
    BY <1>2, <2>2 DEF SchedulingView
  <2> QED BY <1>0, <2>1, <2>2 DEF TypeOK, SchedulingView, Enqueuing, Exiting
<1> QED BY <1>1, <1>2

LEMMA SchedulingWorkerStep ==
  ASSUME TypeOK, SchedulingView, WorkerStep
  PROVE  SchedulingView'
<1>1. CASE PopOperation
  <2>1. \A c \in Connection \ {wconn} : ops'[c] = ops[c]
    BY <1>1 DEF PopOperation, TypeOK
  <2>2. QuietWorker
    BY <1>1, <2>1 DEF PopOperation, QuietWorker, ProcessingPC
  <2> QED BY <2>2, QuietWorkerStep
<1>2. CASE ProcessStart
  <2>1. \A c \in Connection \ {wconn} : ops'[c] = ops[c]
    BY <1>2, QueueFlushesFrame DEF ProcessStart, Throw
  <2>2. QuietWorker
    BY <1>2, <2>1 DEF ProcessStart, QuietWorker, ProcessingPC, Throw
  <2> QED BY <2>2, QuietWorkerStep
<1>3. CASE ProcessSend
  <2>1. \A c \in Connection \ {wconn} : ops'[c] = ops[c]
    BY <1>3, QueueFlushesFrame DEF ProcessSend, Throw
  <2>2. QuietWorker
    BY <1>3, <2>1 DEF ProcessSend, QuietWorker, ProcessingPC, Throw
  <2> QED BY <2>2, QuietWorkerStep
<1>4. CASE ProcessReceive
  <2>1. \A c \in Connection \ {wconn} : ops'[c] = ops[c]
    BY <1>4, QueueFlushesFrame DEF ProcessReceive, Throw
  <2>2. QuietWorker
    BY <1>4, <2>1 DEF ProcessReceive, QuietWorker, ProcessingPC, Throw
  <2> QED BY <2>2, QuietWorkerStep
<1>5. CASE ProcessStreamReceive
  <2>1. \A c \in Connection \ {wconn} : ops'[c] = ops[c]
    BY <1>5 DEF ProcessStreamReceive, TypeOK
  <2>2. QuietWorker
    BY <1>5, <2>1 DEF ProcessStreamReceive, QuietWorker, ProcessingPC
  <2> QED BY <2>2, QuietWorkerStep
<1>6. CASE ProcessSendFlush
  <2>1. \A c \in Connection \ {wconn} : ops'[c] = ops[c]
    BY <1>6, QueueFlushesFrame DEF ProcessSendFlush, Throw
  <2>2. QuietWorker
    BY <1>6, <2>1 DEF ProcessSendFlush, QuietWorker, ProcessingPC, Throw
  <2> QED BY <2>2, QuietWorkerStep
<1>7. CASE ProcessTimer
  <2>1. \A c \in Connection \ {wconn} : ops'[c] = ops[c]
    BY <1>7, QueueFlushesFrame DEF ProcessTimer, Throw
  <2>2. QuietWorker
    BY <1>7, <2>1 DEF ProcessTimer, QuietWorker, ProcessingPC, Throw
  <2> QED BY <2>2, QuietWorkerStep
<1>c. CASE ProcessReleaseStreamReceiveCredit
  <2>1. \A c \in Connection \ {wconn} : ops'[c] = ops[c]
    BY <1>c, QueueFlushesFrame DEF ProcessReleaseStreamReceiveCredit, Throw
  <2>2. QuietWorker
    BY <1>c, <2>1 DEF ProcessReleaseStreamReceiveCredit, QuietWorker, ProcessingPC, Throw
  <2> QED BY <2>2, QuietWorkerStep
<1>8. CASE ProcessShutdown
  <2>1. \A c \in Connection \ {wconn} : ops'[c] = ops[c]
    BY <1>8 DEF ProcessShutdown, TypeOK
  <2>2. QuietWorker
    BY <1>8, <2>1 DEF ProcessShutdown, QuietWorker, ProcessingPC
  <2> QED BY <2>2, QuietWorkerStep
<1>9. CASE RecheckReceive
  <2>1. \A c \in Connection \ {wconn} : ops'[c] = ops[c]
    BY <1>9 DEF RecheckReceive, TypeOK
  <2>2. QuietWorker
    BY <1>9, <2>1 DEF RecheckReceive, QuietWorker, ProcessingPC
  <2> QED BY <2>2, QuietWorkerStep
<1>10. CASE CompleteOperation
  <2>1. \A c \in Connection \ {wconn} : ops'[c] = ops[c]
    BY <1>10 DEF CompleteOperation, TypeOK
  <2>2. QuietWorker
    BY <1>10, <2>1 DEF CompleteOperation, QuietWorker, ProcessingPC
  <2> QED BY <2>2, QuietWorkerStep
<1>11. CASE FailError
  <2>1. \A c \in Connection \ {wconn} : ops'[c] = ops[c]
    BY <1>11 DEF FailError, TypeOK
  <2>2. QuietWorker
    BY <1>11, <2>1 DEF FailError, QuietWorker, ProcessingPC
  <2> QED BY <2>2, QuietWorkerStep
<1>12. CASE FailStop
  <2>1. \A c \in Connection \ {wconn} : ops'[c] = ops[c]
    BY <1>12 DEF FailStop, TypeOK
  <2>2. QuietWorker
    BY <1>12, <2>1 DEF FailStop, QuietWorker, ProcessingPC
  <2> QED BY <2>2, QuietWorkerStep
<1>13. CASE UpdateTimer
  <2>1. \A c \in Connection \ {wconn} : ops'[c] = ops[c]
    BY <1>13 DEF UpdateTimer, TypeOK
  <2>2. QuietWorker
    BY <1>13, <2>1 DEF UpdateTimer, QuietWorker, ProcessingPC
  <2> QED BY <2>2, QuietWorkerStep
<1>20. CASE LoopTop
  <2>1. /\ UNCHANGED <<sched, ops, runQueue, ready, at, wconn, target>>
        /\ wpc = "loop" /\ wpc' \in {"exitDrain", "pop", "timers"}
    BY <1>20 DEF LoopTop
  <2> QED BY <2>1 DEF TypeOK, SchedulingView, Enqueuing, Exiting, ProcessingPC, ExitPC
<1>21. ASSUME NEW c \in Connection, QueueTimerExpired(c) PROVE SchedulingView'
  <2>1. /\ UNCHANGED <<sched, runQueue, ready, at, target>>
        /\ wpc = "timers" /\ wconn' = c
        /\ \A d \in Connection \ {c} : ops'[d] = ops[d]
        /\ \/ ops' = ops /\ wpc' \in {"pop", "timers"}
           \/ wpc' = "timerCas"
    BY <1>21 DEF QueueTimerExpired, TypeOK
  <2> QED BY <2>1 DEF TypeOK, SchedulingView, Enqueuing, Exiting, ProcessingPC, ExitPC
<1>22. CASE ScheduleExpired
  <2>1. ScheduleByWorker /\ wpc = "timerCas" /\ wpc' \in {"pop", "timers"}
    BY <1>22 DEF ScheduleExpired
  <2> QED BY <1>22, <2>1, SchedulingByWorker DEF ScheduleExpired
<1>23. CASE RecheckOperations
  <2>1. /\ UNCHANGED <<ops, at, wconn, target>>
        /\ wpc = "recheck" /\ wpc' = "loop"
    BY <1>23 DEF RecheckOperations
  <2>2. CASE ops[wconn] # <<>>
    <3>1. ScheduleByWorker
      BY <1>23, <2>2 DEF RecheckOperations
    <3> QED BY <2>1, <3>1, SchedulingByWorker
  <2>3. CASE ops[wconn] = <<>>
    <3>1. UNCHANGED <<sched, runQueue, ready>>
      BY <1>23, <2>3 DEF RecheckOperations
    <3>2. ASSUME NEW c \in Connection, ops[c] # <<>>, sched[c] = "Idle"
          PROVE  \E k \in Call : at[k] = "cas" /\ target[k] = c
      BY <2>1, <2>3, <3>2 DEF SchedulingView
    <3> QED BY <2>1, <3>1, <3>2 DEF TypeOK, SchedulingView, Enqueuing, Exiting, ProcessingPC, ExitPC
  <2> QED BY <2>2, <2>3
<1>24. CASE PopConnection
  <2>1. UNCHANGED <<sched, ops, ready, at, target>> /\ wpc = "pop"
    BY <1>24 DEF PopConnection
  <2>2. CASE runQueue = <<>>
    <3>1. runQueue' = runQueue /\ wconn' = wconn /\ wpc' = "park"
      BY <1>24, <2>2 DEF PopConnection
    <3>2. Elements(runQueue) = {}
      BY <2>2, EmptyQueue
    <3> QED BY <2>1, <3>1, <3>2 DEF TypeOK, SchedulingView, Enqueuing, Exiting, ProcessingPC, ExitPC
  <2>3. CASE runQueue # <<>>
    <3>1. runQueue' = Tail(runQueue) /\ wconn' = Head(runQueue) /\ wpc' = "begin"
      BY <1>24, <2>3 DEF PopConnection
    <3>2. /\ Distinct(runQueue')
          /\ wconn' \in Connection /\ wconn' \notin Elements(runQueue')
          /\ Elements(runQueue) = Elements(runQueue') \cup {wconn'}
      BY <2>3, <3>1, TailQueue DEF TypeOK, SchedulingView
    <3> QED BY <2>1, <3>1, <3>2 DEF TypeOK, SchedulingView, Enqueuing, Exiting, ProcessingPC, ExitPC
  <2> QED BY <2>2, <2>3
<1>25. CASE Park
  <2>1. /\ UNCHANGED <<sched, ops, runQueue, at, wconn, target>>
        /\ wpc = "park" /\ wpc' = "loop"
    BY <1>25 DEF Park
  <2> QED BY <2>1 DEF TypeOK, SchedulingView, Enqueuing, Exiting, ProcessingPC, ExitPC
<1>26. CASE BeginWorkerProcessing
  <2>1. /\ UNCHANGED <<ops, runQueue, ready, at, wconn, target>>
        /\ sched' = [sched EXCEPT ![wconn] = "Processing"]
        /\ wpc = "begin" /\ wpc' = "ops"
    BY <1>26 DEF BeginWorkerProcessing
  <2> QED BY <2>1 DEF TypeOK, SchedulingView, Enqueuing, Exiting, ProcessingPC, ExitPC
<1>27. CASE FinishWorkerProcessing
  <2>1. /\ UNCHANGED <<ops, runQueue, ready, at, wconn, target>>
        /\ sched' = [sched EXCEPT ![wconn] = "Idle"]
        /\ wpc = "finish" /\ wpc' = "recheck"
    BY <1>27 DEF FinishWorkerProcessing
  <2> QED BY <2>1 DEF TypeOK, SchedulingView, Enqueuing, Exiting, ProcessingPC, ExitPC
<1>28. CASE DrainOperation
  <2>1. /\ UNCHANGED <<sched, runQueue, ready, at, wconn, target>>
        /\ \A c \in Connection \ {wconn} : ops'[c] = ops[c]
        /\ \/ wpc = "drain" /\ wpc' \in {"drain", "rearm"}
           \/ wpc = "exitFail" /\ wpc' \in {"exitFail", "exitDrain"}
    BY <1>28 DEF DrainOperation, TypeOK
  <2>2. ops[wconn] = <<>> => ops' = ops
    BY <1>28 DEF DrainOperation
  <2> QED BY <2>1, <2>2 DEF TypeOK, SchedulingView, Enqueuing, Exiting, ProcessingPC, ExitPC
<1>29. CASE FailQueued
  <2>1. UNCHANGED <<sched, ops, ready, at, target>> /\ wpc = "exitDrain"
    BY <1>29 DEF FailQueued
  <2>2. CASE runQueue = <<>>
    <3>1. runQueue' = runQueue /\ wconn' = wconn /\ wpc' = "exited"
      BY <1>29, <2>2 DEF FailQueued
    <3> QED BY <2>1, <3>1 DEF TypeOK, SchedulingView, Enqueuing, Exiting, ProcessingPC, ExitPC
  <2>3. CASE runQueue # <<>>
    <3>1. runQueue' = Tail(runQueue) /\ wconn' = Head(runQueue) /\ wpc' = "exitFail"
      BY <1>29, <2>3 DEF FailQueued
    <3>2. /\ Distinct(runQueue')
          /\ Elements(runQueue) = Elements(runQueue') \cup {wconn'}
      BY <2>3, <3>1, TailQueue DEF TypeOK, SchedulingView
    <3> QED BY <2>1, <3>1, <3>2 DEF TypeOK, SchedulingView, Enqueuing, Exiting, ProcessingPC, ExitPC
  <2> QED BY <2>2, <2>3
<1> QED BY <1>1, <1>2, <1>3, <1>4, <1>5, <1>6, <1>7, <1>c, <1>8, <1>9, <1>10, <1>11, <1>12, <1>13, <1>20, <1>21, <1>22, <1>23, <1>24, <1>25, <1>26, <1>27, <1>28, <1>29 DEF WorkerStep, Execute

LEMMA SchedulingInit == Init => SchedulingInv
BY EmptyQueue DEF Init, SchedulingInv, ScheduledOnce, NoLostWakeup, WorkerAwake,
     Enqueuing, InRunQueue, Exiting, ProcessingPC, ExitPC

\* scheduleState_ hands a connection over: in every reachable state it is in
\* connections_ at most once, no wakeup is lost, and the Worker does not sleep on
\* work (Connection.cpp:828 and 904, Worker.cpp:64 and 143).
THEOREM SchedulingCorrect == Spec => [](SchedulingInv /\ ScheduledOnce /\ NoLostWakeup /\ WorkerAwake)
<1>1. Init => TypeOK /\ SchedulingInv
  BY TypeInit, SchedulingInit
<1>2. TypeOK /\ SchedulingInv /\ [Next]_vars => SchedulingInv'
  <2> SUFFICES ASSUME TypeOK, SchedulingInv, [Next]_vars PROVE SchedulingInv'
    OBVIOUS
  <2>1. CASE UNCHANGED vars
    BY <2>1 DEF vars, connectionVars, workerVars, SchedulingInv, ScheduledOnce, NoLostWakeup,
         WorkerAwake, Enqueuing, InRunQueue, Exiting
  <2>2. CASE Next
    <3>1. SchedulingView /\ TypeOK'
      BY <2>2, ViewOfInvariant, TypeCallStep, TypeWorkerStep DEF Next
    <3>2. SchedulingView'
      BY <2>2, <3>1, SchedulingCallStep, SchedulingWorkerStep DEF Next
    <3> QED BY <3>1, <3>2, InvariantOfView
  <2> QED BY <2>1, <2>2
<1>3. SchedulingInv => ScheduledOnce /\ NoLostWakeup /\ WorkerAwake
  BY DEF SchedulingInv
<1> QED BY <1>1, <1>2, <1>3, TypeCorrect, PTL DEF Spec

-----------------------------------------------------------------------------
(* Answers, received datagrams and timers: what becomes of an operation.     *)

\* A mailbox as a set.
Mail(c) == Elements(ops[c])
\* The Worker has an operation that it has not answered yet.
InHandPC == {"execute", "recheckReceive", "complete", "failError"}
HandedPC == {"cas", "enqueue", "signal", "wait"}

\* An operation is in the mailbox of the connection its call was made on, and is
\* what that call queues; so is the one the Worker has in hand.
Addressed ==
  /\ \A c \in Connection : \A op \in Mail(c) :
       op.by \in Call => target[op.by] = c /\ op = OperationOf(op.by)
  /\ wpc \in InHandPC /\ wop.by \in Call => target[wop.by] = wconn /\ wop = OperationOf(wop.by)

\* From its push on, a call that will wait has its operation somewhere.
Waiting ==
  /\ \A k \in Call : at[k] = "wait" => kind[k] \in {"start", "close"}
  /\ \A k \in Call : kind[k] \in {"start", "close"} /\ at[k] \in HandedPC /\ answer[k] = "none" =>
       \/ \E op \in Mail(target[k]) : op.by = k
       \/ wop.by = k /\ wpc \in InHandPC

\* A start was answered well only after started_ was set, and the Worker completes
\* one only if it was the first.
Starts ==
  /\ \A k \in Call : kind[k] = "start" /\ answer[k] = "ok" => started[target[k]]
  /\ wpc = "complete" /\ wop.type = "APIStart" =>
       /\ started[wconn]
       /\ \A k \in Call : kind[k] = "start" /\ target[k] = wconn => answer[k] # "ok"
  /\ OneStartSucceeds

\* The flag says that a flush of the received datagrams is on its way.
FlushOnItsWay(c) ==
  \/ \E op \in Mail(c) : op.type = "FlushRecv"
  \/ \E k \in Call : kind[k] = "receive" /\ target[k] = c /\ at[k] \in {"check", "push"}
  \/ wconn = c /\ wpc = "execute" /\ wop.type = "FlushRecv"
  \/ wconn = c /\ wpc \in {"failError", "failStop"}

Receiving ==
  /\ \A k \in Call : at[k] = "append" => kind[k] = "receive"
  /\ \A c \in Connection : rxBatch[c] > 0 => rxPending[c]
  /\ \A c \in Connection : rxPending[c] /\ ~stopped[c] => FlushOnItsWay(c)
  /\ wpc = "recheckReceive" => wop.type = "FlushRecv"

\* The Worker enters a deadline in the wheel before it lets go of the connection,
\* and parks only with no expired timer left.
Timers ==
  /\ expired # {} => wpc \in {"timers", "timerCas"}
  /\ wpc = "finish" /\ deadline[wconn] /\ ~stopped[wconn] => wconn \in wheel
  /\ \A c \in Connection : deadline[c] /\ ~stopped[c] =>
       \/ c \in wheel
       \/ c \in expired
       \/ \E op \in Mail(c) : op.type = "TimerExpired"
       \/ wconn = c /\ wpc \in ProcessingPC

\* Only the mailbox of a stopped connection is drained.
Draining == wpc \in {"drain", "exitFail"} => stopped[wconn]

DeliveryInv == Addressed /\ Waiting /\ Starts /\ Receiving /\ Timers /\ Draining

LEMMA OperationOfIsBy ==
  ASSUME NEW k \in Call
  PROVE  /\ kind[k] \in {"start", "close"} => OperationOf(k).by = k
         /\ kind[k] = "receive" => OperationOf(k).type = "FlushRecv"
         /\ OperationOf(k).by \in Call => OperationOf(k).by = k
         /\ OperationOf(k).type = "APIStart" => kind[k] = "start"
         /\ kind[k] = "start" => OperationOf(k).type = "APIStart"
BY DEF OperationOf, Internal

\* What is queued without an answer to give stays behind what is there.
LEMMA QueueFlushesMail ==
  ASSUME TypeOK, NEW pending \in SUBSET FlushType, NEW F \in SUBSET FlushType,
         QueueFlushes(pending, F), NEW c \in Connection
  PROVE  /\ Mail(c) \subseteq Mail(c)'
         /\ \A op \in Mail(c)' : op \in Mail(c) \/ op.by = NoCall
<1> DEFINE w == wconn
           q == IF stopped[w] THEN {} ELSE F \ pending
           s1 == IF "FlushStreamRecv" \in q THEN <<Internal("FlushStreamRecv")>> ELSE <<>>
           s2 == IF "FlushSend" \in q THEN <<Internal("FlushSend")>> ELSE <<>>
<1>1. Internal("FlushSend") \in Operation /\ Internal("FlushStreamRecv") \in Operation
  BY InternalOperation DEF OperationType
<1>2. /\ s1 \in Seq(Operation) /\ s2 \in Seq(Operation)
      /\ \A i \in DOMAIN s1 : s1[i].by = NoCall
      /\ \A i \in DOMAIN s2 : s2[i].by = NoCall
  BY <1>1 DEF Internal
<1>3. ops[w] \in Seq(Operation) /\ ops \in [Connection -> Seq(Operation)] /\ w \in Connection
  BY DEF TypeOK
<1>4. ops' = [ops EXCEPT ![w] = (ops[w] \o s1) \o s2]
  BY DEF QueueFlushes, TypeOK
<1> HIDE DEF s1, s2, w
<1>5. \A a, b \in Seq(Operation) : (\A i \in DOMAIN b : b[i].by = NoCall) =>
        /\ a \o b \in Seq(Operation)
        /\ Elements(a) \subseteq Elements(a \o b)
        /\ \A op \in Elements(a \o b) : op \in Elements(a) \/ op.by = NoCall
  <2> TAKE a, b \in Seq(Operation)
  <2> HAVE \A i \in DOMAIN b : b[i].by = NoCall
  <2>1. /\ a \o b \in Seq(Operation)
        /\ DOMAIN (a \o b) = 1..(Len(a) + Len(b))
        /\ DOMAIN a = 1..Len(a) /\ DOMAIN b = 1..Len(b)
        /\ Len(a) \in Nat /\ Len(b) \in Nat
        /\ \A i \in 1..(Len(a) + Len(b)) : (a \o b)[i] = IF i <= Len(a) THEN a[i] ELSE b[i - Len(a)]
    OBVIOUS
  <2>2. ASSUME NEW i \in DOMAIN (a \o b) PROVE (a \o b)[i] \in Elements(a) \/ (a \o b)[i].by = NoCall
    BY <2>1 DEF Elements
  <2>3. ASSUME NEW i \in DOMAIN a PROVE a[i] \in Elements(a \o b)
    <3>1. i \in DOMAIN (a \o b) /\ (a \o b)[i] = a[i]
      BY <2>1
    <3> QED BY <3>1 DEF Elements
  <2> QED BY <2>1, <2>2, <2>3 DEF Elements
<1>6. ASSUME c = w
      PROVE  /\ Elements(ops[c]) \subseteq Elements(ops'[c])
             /\ \A op \in Elements(ops'[c]) : op \in Elements(ops[c]) \/ op.by = NoCall
  <2>1. ops'[c] = (ops[c] \o s1) \o s2
    BY <1>3, <1>4, <1>6
  <2>2. /\ ops[c] \o s1 \in Seq(Operation)
        /\ Elements(ops[c]) \subseteq Elements(ops[c] \o s1)
        /\ \A op \in Elements(ops[c] \o s1) : op \in Elements(ops[c]) \/ op.by = NoCall
    BY <1>2, <1>3, <1>5, <1>6
  <2>3. /\ Elements(ops[c] \o s1) \subseteq Elements((ops[c] \o s1) \o s2)
        /\ \A op \in Elements((ops[c] \o s1) \o s2) : op \in Elements(ops[c] \o s1) \/ op.by = NoCall
    BY <1>2, <1>5, <2>2
  <2> QED BY <2>1, <2>2, <2>3
<1>7. c # w => ops'[c] = ops[c]
  BY <1>3, <1>4
<1> QED BY <1>6, <1>7 DEF Mail

\* An internal operation behind the others.
LEMMA AppendMail ==
  ASSUME TypeOK, NEW d \in Connection, NEW op \in Operation,
         ops' = [ops EXCEPT ![d] = Append(@, op)], NEW c \in Connection
  PROVE  Mail(c)' = IF c = d THEN Mail(c) \cup {op} ELSE Mail(c)
<1>1. ops[d] \in Seq(Operation) /\ ops'[c] = IF c = d THEN Append(ops[d], op) ELSE ops[c]
  BY DEF TypeOK
<1>2. Elements(Append(ops[d], op)) = Elements(ops[d]) \cup {op}
  BY <1>1, AppendQueue
<1>3. Mail(c) = Elements(ops[c]) /\ Mail(c)' = Elements(ops'[c])
  BY DEF Mail
<1>4. CASE c = d
  BY <1>1, <1>2, <1>3, <1>4
<1>5. CASE c # d
  BY <1>1, <1>3, <1>5
<1> QED BY <1>4, <1>5

\* The first operation is taken out.
LEMMA TakeMail ==
  ASSUME TypeOK, NEW d \in Connection, ops[d] # <<>>,
         ops' = [ops EXCEPT ![d] = Tail(@)], NEW c \in Connection
  PROVE  /\ Head(ops[d]) \in Operation /\ Head(ops[d]) \in Mail(d)
         /\ Mail(c) = IF c = d THEN Mail(c)' \cup {Head(ops[d])} ELSE Mail(c)'
<1>1. ops[d] \in Seq(Operation) /\ ops'[c] = IF c = d THEN Tail(ops[d]) ELSE ops[c]
  BY DEF TypeOK
<1>2. /\ Head(ops[d]) \in Operation
      /\ Elements(ops[d]) = Elements(Tail(ops[d])) \cup {Head(ops[d])}
  BY <1>1, TailQueue
<1> QED BY <1>1, <1>2 DEF Mail

\* What an operation in execution may do, whichever it is.
ExecuteEffect ==
  /\ wpc = "execute" /\ wpc' \in {"complete", "recheckReceive", "failError"}
  /\ UNCHANGED <<wop, wconn, expired, wheel, deadline, at, kind, target, answer>>
  /\ \A c \in Connection : Mail(c) \subseteq Mail(c)'
  /\ \A c \in Connection : \A op \in Mail(c)' : op \in Mail(c) \/ op.by = NoCall
  /\ \A c \in Connection : (stopped[c] => stopped'[c]) /\ (started[c] => started'[c])
  /\ wpc' = "recheckReceive" => wop.type = "FlushRecv"
  /\ wop.type = "APIStart" /\ wpc' = "complete" => ~started[wconn] /\ started'[wconn]
  /\ \A c \in Connection :
       IF c = wconn /\ wop.type = "FlushRecv"
         THEN rxBatch'[c] = 0 /\ rxPending'[c] = FALSE
         ELSE rxBatch'[c] = rxBatch[c] /\ rxPending'[c] = rxPending[c]

LEMMA ExecuteHasEffect ==
  ASSUME TypeOK, Execute
  PROVE  ExecuteEffect
<1>1. /\ wconn \in Connection /\ flushing[wconn] \in SUBSET FlushType
      /\ flushing[wconn] \ {"FlushSend"} \in SUBSET FlushType
      /\ {} \in SUBSET FlushType /\ {"FlushSend"} \in SUBSET FlushType
      /\ {"FlushStreamRecv"} \cup {"FlushSend"} \in SUBSET FlushType
      /\ {} \cup {"FlushSend"} \in SUBSET FlushType
      /\ started \in [Connection -> BOOLEAN] /\ stopped \in [Connection -> BOOLEAN]
      /\ rxBatch \in [Connection -> Nat] /\ rxPending \in [Connection -> BOOLEAN]
  BY DEF TypeOK, FlushType
<1> DEFINE Kept == \A c \in Connection : Mail(c)' = Mail(c)
           Grown == /\ \A c \in Connection : Mail(c) \subseteq Mail(c)'
                    /\ \A c \in Connection : \A op \in Mail(c)' : op \in Mail(c) \/ op.by = NoCall
<1>2. UNCHANGED ops => Grown
  BY DEF Mail
<1>3. \A pending, F \in SUBSET FlushType : QueueFlushes(pending, F) => Grown
  BY QueueFlushesMail
<1> HIDE DEF Grown
<1>4. CASE ProcessStart
  <2>1. Grown
    BY <1>1, <1>2, <1>3, <1>4 DEF ProcessStart
  <2> QED BY <1>1, <1>4, <2>1 DEF ProcessStart, ExecuteEffect, Grown
<1>5. CASE ProcessSend
  <2>1. Grown
    BY <1>1, <1>2, <1>3, <1>5 DEF ProcessSend, Throw
  <2> QED BY <1>1, <1>5, <2>1 DEF ProcessSend, Throw, ExecuteEffect, Grown
<1>6. CASE ProcessReceive
  <2>1. Grown
    BY <1>1, <1>2, <1>3, <1>6 DEF ProcessReceive, Throw
  <2>2. UNCHANGED <<started, stopped>>
    BY <1>6 DEF ProcessReceive, Throw
  <2> QED BY <1>1, <1>6, <2>1, <2>2 DEF ProcessReceive, Throw, ExecuteEffect, Grown
<1>7. CASE ProcessStreamReceive
  <2>1. Grown
    BY <1>2, <1>7 DEF ProcessStreamReceive
  <2> QED BY <1>1, <1>7, <2>1 DEF ProcessStreamReceive, ExecuteEffect, Grown
<1>8. CASE ProcessSendFlush
  <2>1. Grown
    BY <1>1, <1>2, <1>3, <1>8 DEF ProcessSendFlush
  <2> QED BY <1>1, <1>8, <2>1 DEF ProcessSendFlush, ExecuteEffect, Grown
<1>9. CASE ProcessTimer
  <2>1. Grown
    BY <1>1, <1>2, <1>3, <1>9 DEF ProcessTimer, Throw
  <2> QED BY <1>1, <1>9, <2>1 DEF ProcessTimer, Throw, ExecuteEffect, Grown
<1>c. CASE ProcessReleaseStreamReceiveCredit
  <2>1. Grown
    BY <1>1, <1>2, <1>3, <1>c DEF ProcessReleaseStreamReceiveCredit, Throw
  <2> QED BY <1>1, <1>c, <2>1 DEF ProcessReleaseStreamReceiveCredit, Throw, ExecuteEffect, Grown
<1>10. CASE ProcessShutdown
  <2>1. Grown
    BY <1>2, <1>10 DEF ProcessShutdown
  <2> QED BY <1>1, <1>10, <2>1 DEF ProcessShutdown, ExecuteEffect, Grown
<1> QED BY <1>4, <1>5, <1>6, <1>7, <1>8, <1>9, <1>c, <1>10 DEF Execute

\* What a step of a call does to the mailboxes.
LEMMA CallMail ==
  ASSUME TypeOK, NEW k \in Call, InvokeStep(k) \/ CallStep(k) \/ WaitTimedOut(k)
  PROVE  \A c \in Connection :
           Mail(c)' = IF PushOperation(k) /\ c = target[k] THEN Mail(c) \cup {OperationOf(k)} ELSE Mail(c)
<1>1. CASE PushOperation(k)
  <2>1. OperationOf(k) \in Operation /\ target[k] \in Connection
    BY OperationOfCall DEF TypeOK
  <2>2. ops' = [ops EXCEPT ![target[k]] = Append(@, OperationOf(k))]
    BY <1>1 DEF PushOperation
  <2> QED BY <1>1, <2>1, <2>2, AppendMail
<1>2. CASE ~PushOperation(k)
  <2>1. UNCHANGED ops
    BY <1>2 DEF InvokeStep, CallStep, WaitTimedOut, BeginStart, BeginSend, BeginRead, BeginClose, BeginReceive,
         StopWorker, Attach, AppendDatagram, CheckStopped, ScheduleIfIdle, QueueConnection,
         SignalReady, WaitAnswered, Detach, JoinWorker
  <2> QED BY <1>2, <2>1 DEF Mail
<1> QED BY <1>1, <1>2

\* A step of a call changes nothing of the Worker, and kinds and targets are fixed.
LEMMA CallFrame ==
  ASSUME TypeOK, NEW k \in Call, InvokeStep(k) \/ CallStep(k) \/ WaitTimedOut(k)
  PROVE  /\ UNCHANGED <<wpc, wconn, wop, expired, wheel, deadline, started, stopped, kind, target>>
         /\ \A l \in Call \ {k} : at'[l] = at[l]
<1> USE DEF TypeOK, Goto
<1>1. UNCHANGED <<wpc, wconn, wop, expired, wheel, deadline, started, stopped, kind, target>>
  BY DEF InvokeStep, CallStep, WaitTimedOut, BeginStart, BeginSend, BeginRead, BeginClose, BeginReceive,
     StopWorker, Attach, AppendDatagram, CheckStopped, PushOperation, ScheduleIfIdle, QueueConnection,
     SignalReady, WaitAnswered, Detach, JoinWorker, workerVars, connectionVars
<1>2. \E pc : at' = [at EXCEPT ![k] = pc]
  BY DEF InvokeStep, CallStep, WaitTimedOut, BeginStart, BeginSend, BeginRead, BeginClose, BeginReceive,
     StopWorker, Attach, AppendDatagram, CheckStopped, PushOperation, ScheduleIfIdle, QueueConnection,
     SignalReady, WaitAnswered, Detach, JoinWorker
<1> QED BY <1>1, <1>2

\* Where a step of a call may lead, and what it may do besides.
CallEffect(k) ==
  /\ \A l \in Call : answer'[l] \in {"none", "ok"} => answer[l] = answer'[l]
  /\ at'[k] = "wait" => kind[k] \in {"start", "close"}
  /\ at'[k] = "append" => kind[k] = "receive"
  /\ kind[k] \in {"start", "close"} /\ at'[k] \in HandedPC =>
       at[k] \in HandedPC \/ PushOperation(k) \/ answer'[k] # "none"
  /\ kind[k] = "receive" /\ at[k] \in {"check", "push"} =>
       at'[k] \in {"check", "push"} \/ PushOperation(k) \/ stopped[target[k]]
  /\ \A c \in Connection :
       IF at[k] = "append" /\ c = target[k] /\ ~stopped[c]
         THEN rxPending'[c] /\ (rxPending[c] \/ at'[k] = "check")
         ELSE rxBatch'[c] = rxBatch[c] /\ rxPending'[c] = rxPending[c]

LEMMA CallHasEffect ==
  ASSUME TypeOK, NEW k \in Call, InvokeStep(k) \/ CallStep(k) \/ WaitTimedOut(k)
  PROVE  CallEffect(k)
<1> USE DEF TypeOK, Goto, CallEffect, HandedPC, AfterQueueing, connectionVars
<1>1. CASE BeginStart(k)
  BY <1>1 DEF BeginStart
<1>2. CASE BeginSend(k)
  BY <1>2 DEF BeginSend
<1>r. CASE BeginRead(k)
  BY <1>r DEF BeginRead
<1>3. CASE BeginClose(k)
  BY <1>3 DEF BeginClose
<1>4. CASE BeginReceive(k)
  BY <1>4 DEF BeginReceive
<1>5. CASE StopWorker(k)
  BY <1>5 DEF StopWorker
<1>6. CASE Attach(k)
  BY <1>6 DEF Attach
<1>7. CASE AppendDatagram(k)
  BY <1>7 DEF AppendDatagram
<1>8. CASE CheckStopped(k)
  <2>1. \A l \in Call : answer'[l] \in {"none", "ok"} => answer[l] = answer'[l]
    BY <1>8 DEF CheckStopped, Answered
  <2>2. kind[k] = "start" /\ stopped[target[k]] => answer'[k] # "none"
    <3>1. kind[k] = "start" => OperationOf(k).by = k
      BY OperationOfIsBy
    <3> QED BY <1>8, <3>1 DEF CheckStopped, Answered
  <2> QED BY <1>8, <2>1, <2>2 DEF CheckStopped
<1>9. CASE PushOperation(k)
  BY <1>9 DEF PushOperation
<1>10. CASE ScheduleIfIdle(k)
  BY <1>10 DEF ScheduleIfIdle
<1>11. CASE QueueConnection(k)
  BY <1>11 DEF QueueConnection
<1>12. CASE SignalReady(k)
  BY <1>12 DEF SignalReady
<1>13. CASE WaitAnswered(k)
  BY <1>13 DEF WaitAnswered
<1>14. CASE Detach(k)
  BY <1>14 DEF Detach
<1>15. CASE JoinWorker(k)
  BY <1>15 DEF JoinWorker
<1>16. CASE WaitTimedOut(k)
  BY <1>16 DEF WaitTimedOut
<1> QED BY <1>1, <1>2, <1>r, <1>3, <1>4, <1>5, <1>6, <1>7, <1>8, <1>9, <1>10, <1>11, <1>12, <1>13, <1>14, <1>15, <1>16 DEF InvokeStep, CallStep

LEMMA DeliveryCallStep ==
  ASSUME TypeOK, DeliveryInv, NEW k \in Call, InvokeStep(k) \/ CallStep(k) \/ WaitTimedOut(k)
  PROVE  DeliveryInv'
<1>1. /\ UNCHANGED <<wpc, wconn, wop, expired, wheel, deadline, started, stopped, kind, target>>
      /\ \A l \in Call \ {k} : at'[l] = at[l]
  BY CallFrame
<1>2. \A c \in Connection :
        Mail(c)' = IF PushOperation(k) /\ c = target[k] THEN Mail(c) \cup {OperationOf(k)} ELSE Mail(c)
  BY CallMail
<1>3. CallEffect(k)
  BY CallHasEffect
<1>4. \A l \in Call : target[l] \in Connection
  BY DEF TypeOK
<1>5. \A l : OperationOf(l)' = OperationOf(l)
  BY <1>1 DEF OperationOf, Internal
<1>6. PushOperation(k) => at[k] = "push"
  BY DEF PushOperation
<1>7. Addressed'
  <2>1. OperationOf(k).by \in Call => OperationOf(k).by = k
    BY OperationOfIsBy
  <2> QED BY <1>1, <1>2, <1>5, <2>1 DEF DeliveryInv, Addressed
<1>8. Waiting'
  <2>1. \A l \in Call : at'[l] = "wait" => kind[l] \in {"start", "close"}
    BY <1>1, <1>3 DEF CallEffect, DeliveryInv, Waiting
  <2>2. ASSUME NEW l \in Call, NEW c \in Connection, c = target[l],
               kind[l] \in {"start", "close"}, at'[l] \in HandedPC, answer'[l] = "none"
        PROVE  (\E op \in Mail(c)' : op.by = l) \/ (wop.by = l /\ wpc \in InHandPC)
    <3>1. answer[l] = "none"
      BY <1>3, <2>2 DEF CallEffect
    <3>2. CASE at[l] \in HandedPC
      <4>1. (\E op \in Mail(c) : op.by = l) \/ (wop.by = l /\ wpc \in InHandPC)
        BY <2>2, <3>1, <3>2 DEF DeliveryInv, Waiting
      <4> QED BY <1>2, <4>1
    <3>3. CASE at[l] \notin HandedPC
      <4>1. l = k /\ PushOperation(k)
        BY <1>1, <1>3, <2>2, <3>3 DEF CallEffect
      <4>2. OperationOf(k).by = k
        BY <2>2, <4>1, OperationOfIsBy
      <4>3. OperationOf(k) \in Mail(c)'
        BY <1>2, <2>2, <4>1
      <4> QED BY <4>1, <4>2, <4>3
    <3> QED BY <3>2, <3>3
  <2>3. ASSUME NEW l \in Call, kind'[l] \in {"start", "close"}, at'[l] \in HandedPC, answer'[l] = "none"
        PROVE  (\E op \in Mail(target[l])' : op.by = l) \/ (wop'.by = l /\ wpc' \in InHandPC)
    <3>1. PICK c \in Connection : c = target[l]
      BY <1>4
    <3>2. (\E op \in Mail(c)' : op.by = l) \/ (wop.by = l /\ wpc \in InHandPC)
      BY <1>1, <2>2, <2>3, <3>1
    <3>3. Mail(target[l])' = Mail(c)'
      BY <1>1, <3>1 DEF Mail
    <3> QED BY <1>1, <3>2, <3>3
  <2> QED BY <1>1, <2>1, <2>3 DEF Waiting
<1>9. Starts'
  BY <1>1, <1>3 DEF DeliveryInv, Starts, OneStartSucceeds, CallEffect
<1>10. Receiving'
  <2>1. \A l \in Call : at'[l] = "append" => kind[l] = "receive"
    BY <1>1, <1>3 DEF CallEffect, DeliveryInv, Receiving
  <2>2. \A c \in Connection : rxBatch'[c] > 0 => rxPending'[c]
    BY <1>3 DEF CallEffect, DeliveryInv, Receiving
  <2>3. ASSUME NEW c \in Connection, rxPending'[c], ~stopped[c]
        PROVE  FlushOnItsWay(c)'
    <3>1. CASE at[k] = "append" /\ c = target[k] /\ ~rxPending[c]
      <4>1. at'[k] = "check" /\ kind[k] = "receive"
        BY <1>3, <2>3, <3>1 DEF CallEffect, DeliveryInv, Receiving
      <4> QED BY <1>1, <3>1, <4>1 DEF FlushOnItsWay
    <3>2. CASE rxPending[c]
      <4>1. FlushOnItsWay(c)
        BY <2>3, <3>2 DEF DeliveryInv, Receiving
      <4>2. CASE \E op \in Mail(c) : op.type = "FlushRecv"
        BY <1>2, <4>2 DEF FlushOnItsWay
      <4>3. ASSUME NEW l \in Call, kind[l] = "receive", target[l] = c, at[l] \in {"check", "push"}
            PROVE  FlushOnItsWay(c)'
        <5>1. CASE at'[l] \in {"check", "push"}
          BY <1>1, <4>3, <5>1 DEF FlushOnItsWay
        <5>2. CASE at'[l] \notin {"check", "push"}
          <6>1. l = k /\ PushOperation(k)
            BY <1>1, <1>3, <2>3, <4>3, <5>2 DEF CallEffect
          <6>2. OperationOf(k) \in Mail(c)' /\ OperationOf(k).type = "FlushRecv"
            BY <1>2, <4>3, <6>1, OperationOfIsBy
          <6> QED BY <6>2 DEF FlushOnItsWay
        <5> QED BY <5>1, <5>2
      <4> QED BY <1>1, <4>1, <4>2, <4>3 DEF FlushOnItsWay
    <3>3. CASE ~rxPending[c] /\ ~(at[k] = "append" /\ c = target[k])
      BY <1>3, <2>3, <3>3 DEF CallEffect
    <3> QED BY <3>1, <3>2, <3>3
  <2>4. wpc = "recheckReceive" => wop.type = "FlushRecv"
    BY DEF DeliveryInv, Receiving
  <2> QED BY <1>1, <2>1, <2>2, <2>3, <2>4 DEF Receiving
<1>11. Timers'
  BY <1>1, <1>2 DEF DeliveryInv, Timers
<1>12. Draining'
  BY <1>1 DEF DeliveryInv, Draining
<1> QED BY <1>7, <1>8, <1>9, <1>10, <1>11, <1>12 DEF DeliveryInv

\* Where an operation goes in a step of the Worker, and what its answer is.
OperationEffect ==
  /\ UNCHANGED <<at, kind, target>>
  /\ \A c \in Connection : \A op \in Mail(c)' : op \in Mail(c) \/ op.by = NoCall
  /\ \A c \in Connection : \A op \in Mail(c) :
       \/ op \in Mail(c)'
       \/ wop' = op /\ wpc' = "execute" /\ wconn' = c
       \/ /\ wpc \in {"drain", "exitFail"} /\ wconn = c
          /\ op.by \in Call => answer'[op.by] # "none"
  /\ wpc' \in InHandPC =>
       \/ wpc \in InHandPC /\ UNCHANGED <<wop, wconn>>
       \/ wop' \in Mail(wconn) /\ wconn' = wconn /\ wpc' = "execute"
  /\ wpc \in InHandPC =>
       \/ wpc' \in InHandPC /\ UNCHANGED wop
       \/ wop.by \in Call => answer'[wop.by] # "none"
  /\ \A l \in Call : answer'[l] = "none" => answer[l] = "none"
  /\ \A l \in Call : answer'[l] = "ok" => answer[l] = "ok" \/ (wpc = "complete" /\ wop.by = l)

\* What a step of the Worker does to the connection it works on.
ConnectionEffect ==
  /\ \A c \in Connection : (stopped[c] => stopped'[c]) /\ (started[c] => started'[c])
  /\ wpc' = "complete" /\ wop'.type = "APIStart" =>
       ~started[wconn] /\ started'[wconn] /\ wconn' = wconn /\ wpc # "complete"
  /\ \A c \in Connection :
       \/ c = wconn /\ wpc = "execute" /\ rxBatch'[c] = 0 /\ rxPending'[c] = FALSE
       \/ rxBatch'[c] = rxBatch[c] /\ rxPending'[c] = rxPending[c]
  /\ wpc = "execute" /\ wop.type = "FlushRecv" => rxPending'[wconn] = FALSE
  /\ wpc' = "recheckReceive" => wop'.type = "FlushRecv"
  /\ wpc = "failError" => wpc' = "failStop" /\ wconn' = wconn
  /\ wpc = "failStop" => stopped'[wconn]
  /\ wpc' \in {"drain", "exitFail"} => stopped'[wconn']

\* What a step of the Worker does to deadlines and their timers.
TimerEffect ==
  /\ expired' # {} => wpc' \in {"timers", "timerCas"}
  /\ wpc' = "finish" /\ deadline'[wconn'] /\ ~stopped'[wconn'] => wconn' \in wheel'
  /\ \A c \in Connection : deadline'[c] =>
       deadline[c] \/ (c = wconn /\ wconn' = wconn /\ wpc' \in ProcessingPC)
  /\ \A c \in wheel : c \in wheel' \cup expired' \/ (c = wconn /\ wconn' = wconn /\ wpc' \in ProcessingPC)
  /\ \A c \in expired :
       c \in expired' \/ stopped[c] \/ \E op \in Mail(c)' : op.type = "TimerExpired"
  /\ wpc \in ProcessingPC =>
       \/ wconn' = wconn /\ wpc' \in ProcessingPC
       \/ wpc = "finish" /\ UNCHANGED <<wheel, deadline, stopped>>

LEMMA WorkerHasEffect ==
  ASSUME TypeOK, DeliveryInv, WorkerStep
  PROVE  OperationEffect /\ ConnectionEffect /\ TimerEffect
<1>0. /\ wconn \in Connection /\ wop \in Operation
      /\ started \in [Connection -> BOOLEAN] /\ stopped \in [Connection -> BOOLEAN]
      /\ deadline \in [Connection -> BOOLEAN]
      /\ rxBatch \in [Connection -> Nat] /\ rxPending \in [Connection -> BOOLEAN]
      /\ answer \in [Call -> {"none", "ok", "error"}]
      /\ wheel \in SUBSET Connection /\ expired \in SUBSET Connection
      /\ Draining /\ Timers
      /\ \A c \in Connection : rxBatch[c] > 0 => rxPending[c]
  BY DEF TypeOK, DeliveryInv, Receiving
<1>a. UNCHANGED ops => \A c \in Connection : Mail(c)' = Mail(c)
  BY DEF Mail
<1> USE DEF InHandPC, ProcessingPC
<1>1. CASE LoopTop
  <2>1. \A c \in Connection : Mail(c)' = Mail(c)
    BY <1>a, <1>1 DEF LoopTop
  <2>2. OperationEffect
    BY <1>0, <1>1, <2>1 DEF LoopTop, OperationEffect, connectionVars, workerVars
  <2>3. ConnectionEffect
    BY <1>0, <1>1 DEF LoopTop, ConnectionEffect, Draining, connectionVars, workerVars
  <2>4. TimerEffect
    BY <1>0, <1>1, <2>1 DEF LoopTop, TimerEffect, Timers, connectionVars, workerVars
  <2> QED BY <2>2, <2>3, <2>4
<1>2. CASE ScheduleExpired
  <2>1. \A c \in Connection : Mail(c)' = Mail(c)
    BY <1>a, <1>2 DEF ScheduleExpired
  <2>2. OperationEffect
    BY <1>0, <1>2, <2>1 DEF ScheduleExpired, OperationEffect, connectionVars, workerVars
  <2>3. ConnectionEffect
    BY <1>0, <1>2 DEF ScheduleExpired, ConnectionEffect, Draining, connectionVars, workerVars
  <2>4. TimerEffect
    BY <1>0, <1>2, <2>1 DEF ScheduleExpired, TimerEffect, Timers, connectionVars, workerVars
  <2> QED BY <2>2, <2>3, <2>4
<1>3. CASE PopConnection
  <2>1. \A c \in Connection : Mail(c)' = Mail(c)
    BY <1>a, <1>3 DEF PopConnection
  <2>2. OperationEffect
    BY <1>0, <1>3, <2>1 DEF PopConnection, OperationEffect, connectionVars, workerVars
  <2>3. ConnectionEffect
    BY <1>0, <1>3 DEF PopConnection, ConnectionEffect, Draining, connectionVars, workerVars
  <2>4. TimerEffect
    BY <1>0, <1>3, <2>1 DEF PopConnection, TimerEffect, Timers, connectionVars, workerVars
  <2> QED BY <2>2, <2>3, <2>4
<1>4. CASE Park
  <2>1. \A c \in Connection : Mail(c)' = Mail(c)
    BY <1>a, <1>4 DEF Park
  <2>2. OperationEffect
    BY <1>0, <1>4, <2>1 DEF Park, OperationEffect, connectionVars, workerVars
  <2>3. ConnectionEffect
    BY <1>0, <1>4 DEF Park, ConnectionEffect, Draining, connectionVars, workerVars
  <2>4. TimerEffect
    BY <1>0, <1>4, <2>1 DEF Park, TimerEffect, Timers, connectionVars, workerVars
  <2> QED BY <2>2, <2>3, <2>4
<1>5. CASE BeginWorkerProcessing
  <2>1. \A c \in Connection : Mail(c)' = Mail(c)
    BY <1>a, <1>5 DEF BeginWorkerProcessing
  <2>2. OperationEffect
    BY <1>0, <1>5, <2>1 DEF BeginWorkerProcessing, OperationEffect, connectionVars, workerVars
  <2>3. ConnectionEffect
    BY <1>0, <1>5 DEF BeginWorkerProcessing, ConnectionEffect, Draining, connectionVars, workerVars
  <2>4. TimerEffect
    BY <1>0, <1>5, <2>1 DEF BeginWorkerProcessing, TimerEffect, Timers, connectionVars, workerVars
  <2> QED BY <2>2, <2>3, <2>4
<1>6. CASE CompleteOperation
  <2>1. \A c \in Connection : Mail(c)' = Mail(c)
    BY <1>a, <1>6 DEF CompleteOperation
  <2>2. OperationEffect
    BY <1>0, <1>6, <2>1 DEF CompleteOperation, OperationEffect, Answered, connectionVars, workerVars
  <2>3. ConnectionEffect
    BY <1>0, <1>6 DEF CompleteOperation, ConnectionEffect, Draining, connectionVars, workerVars
  <2>4. TimerEffect
    BY <1>0, <1>6, <2>1 DEF CompleteOperation, TimerEffect, Timers, connectionVars, workerVars
  <2> QED BY <2>2, <2>3, <2>4
<1>7. CASE FailError
  <2>1. \A c \in Connection : Mail(c)' = Mail(c)
    BY <1>a, <1>7 DEF FailError
  <2>2. OperationEffect
    BY <1>0, <1>7, <2>1 DEF FailError, OperationEffect, Answered, connectionVars, workerVars
  <2>3. ConnectionEffect
    BY <1>0, <1>7 DEF FailError, ConnectionEffect, Draining, connectionVars, workerVars
  <2>4. TimerEffect
    BY <1>0, <1>7, <2>1 DEF FailError, TimerEffect, Timers, connectionVars, workerVars
  <2> QED BY <2>2, <2>3, <2>4
<1>8. CASE FailStop
  <2>1. \A c \in Connection : Mail(c)' = Mail(c)
    BY <1>a, <1>8 DEF FailStop
  <2>2. OperationEffect
    BY <1>0, <1>8, <2>1 DEF FailStop, OperationEffect, connectionVars, workerVars
  <2>3. ConnectionEffect
    BY <1>0, <1>8 DEF FailStop, ConnectionEffect, Draining, connectionVars, workerVars
  <2>4. TimerEffect
    BY <1>0, <1>8, <2>1 DEF FailStop, TimerEffect, Timers, connectionVars, workerVars
  <2> QED BY <2>2, <2>3, <2>4
<1>9. CASE UpdateTimer
  <2>1. \A c \in Connection : Mail(c)' = Mail(c)
    BY <1>a, <1>9 DEF UpdateTimer
  <2>2. OperationEffect
    BY <1>0, <1>9, <2>1 DEF UpdateTimer, OperationEffect, connectionVars, workerVars
  <2>3. ConnectionEffect
    BY <1>0, <1>9 DEF UpdateTimer, ConnectionEffect, Draining, connectionVars, workerVars
  <2>4. TimerEffect
    BY <1>0, <1>9, <2>1 DEF UpdateTimer, TimerEffect, Timers, connectionVars, workerVars
  <2> QED BY <2>2, <2>3, <2>4
<1>10. CASE FinishWorkerProcessing
  <2>1. \A c \in Connection : Mail(c)' = Mail(c)
    BY <1>a, <1>10 DEF FinishWorkerProcessing
  <2>2. OperationEffect
    BY <1>0, <1>10, <2>1 DEF FinishWorkerProcessing, OperationEffect, connectionVars, workerVars
  <2>3. ConnectionEffect
    BY <1>0, <1>10 DEF FinishWorkerProcessing, ConnectionEffect, Draining, connectionVars, workerVars
  <2>4. TimerEffect
    BY <1>0, <1>10, <2>1 DEF FinishWorkerProcessing, TimerEffect, Timers, connectionVars, workerVars
  <2> QED BY <2>2, <2>3, <2>4
<1>11. CASE RecheckOperations
  <2>1. \A c \in Connection : Mail(c)' = Mail(c)
    BY <1>a, <1>11 DEF RecheckOperations
  <2>2. OperationEffect
    BY <1>0, <1>11, <2>1 DEF RecheckOperations, OperationEffect, connectionVars, workerVars
  <2>3. ConnectionEffect
    BY <1>0, <1>11 DEF RecheckOperations, ConnectionEffect, Draining, connectionVars, workerVars
  <2>4. TimerEffect
    BY <1>0, <1>11, <2>1 DEF RecheckOperations, TimerEffect, Timers, connectionVars, workerVars
  <2> QED BY <2>2, <2>3, <2>4
<1>12. CASE FailQueued
  <2>1. \A c \in Connection : Mail(c)' = Mail(c)
    BY <1>a, <1>12 DEF FailQueued
  <2>2. OperationEffect
    BY <1>0, <1>12, <2>1 DEF FailQueued, OperationEffect, connectionVars, workerVars
  <2>3. ConnectionEffect
    <3>1. CASE runQueue = <<>>
      BY <1>0, <1>12, <3>1 DEF FailQueued, ConnectionEffect
    <3>2. CASE runQueue # <<>>
      <4>1. /\ stopped' = [stopped EXCEPT ![Head(runQueue)] = TRUE]
            /\ wconn' = Head(runQueue) /\ wpc = "exitDrain" /\ wpc' = "exitFail"
            /\ UNCHANGED <<started, rxBatch, rxPending>>
        BY <1>12, <3>2 DEF FailQueued
      <4>2. Head(runQueue) \in Connection
        BY <3>2, TailQueue DEF TypeOK
      <4> QED BY <1>0, <4>1, <4>2 DEF ConnectionEffect
    <3> QED BY <3>1, <3>2
  <2>4. TimerEffect
    BY <1>0, <1>12, <2>1 DEF FailQueued, TimerEffect, Timers, connectionVars, workerVars
  <2> QED BY <2>2, <2>3, <2>4
<1>13. CASE PopOperation
  <2>1. CASE processed < Budget /\ ops[wconn] # <<>>
    <3>1. /\ wpc = "ops" /\ wpc' = "execute" /\ wop' = Head(ops[wconn])
          /\ ops' = [ops EXCEPT ![wconn] = Tail(@)]
          /\ UNCHANGED <<connectionVars, wheel, wconn, expired, at, kind, target, answer>>
      BY <1>13, <2>1 DEF PopOperation
    <3>2. \A c \in Connection :
            /\ Head(ops[wconn]) \in Mail(wconn)
            /\ Mail(c) = IF c = wconn THEN Mail(c)' \cup {Head(ops[wconn])} ELSE Mail(c)'
      BY <1>0, <2>1, <3>1, TakeMail
    <3>3. OperationEffect
      BY <1>0, <3>1, <3>2 DEF OperationEffect
    <3>4. ConnectionEffect
      BY <1>0, <3>1 DEF ConnectionEffect, connectionVars
    <3>5. TimerEffect
      BY <1>0, <3>1 DEF TimerEffect, Timers, connectionVars
    <3> QED BY <3>3, <3>4, <3>5
  <2>2. CASE ~(processed < Budget /\ ops[wconn] # <<>>)
    <3>1. /\ wpc = "ops" /\ wpc' = "rearm"
          /\ UNCHANGED <<ops, connectionVars, wheel, wconn, wop, expired, at, kind, target, answer>>
      BY <1>13, <2>2 DEF PopOperation
    <3>2. \A c \in Connection : Mail(c)' = Mail(c)
      BY <1>a, <3>1
    <3> QED BY <1>0, <3>1, <3>2 DEF OperationEffect, ConnectionEffect, TimerEffect, Timers, connectionVars
  <2> QED BY <2>1, <2>2
<1>14. CASE DrainOperation
  <2>0. stopped[wconn] /\ wpc \in {"drain", "exitFail"}
    BY <1>0, <1>14 DEF DrainOperation, Draining
  <2>1. CASE ops[wconn] # <<>>
    <3>1. /\ answer' = Answered(Head(ops[wconn]).by, "error")
          /\ ops' = [ops EXCEPT ![wconn] = Tail(@)]
          /\ UNCHANGED <<connectionVars, wheel, wpc, wop, wconn, expired, at, kind, target>>
      BY <1>14, <2>1 DEF DrainOperation
    <3>2. \A c \in Connection :
            Mail(c) = IF c = wconn THEN Mail(c)' \cup {Head(ops[wconn])} ELSE Mail(c)'
      BY <1>0, <2>1, <3>1, TakeMail
    <3>3. /\ Head(ops[wconn]).by \in Call => answer'[Head(ops[wconn]).by] # "none"
          /\ \A l \in Call : answer'[l] = "none" => answer[l] = "none"
          /\ \A l \in Call : answer'[l] = "ok" => answer[l] = "ok"
      BY <1>0, <3>1 DEF Answered
    <3>4. OperationEffect
      BY <1>0, <2>0, <3>1, <3>2, <3>3 DEF OperationEffect
    <3>5. ConnectionEffect
      BY <1>0, <2>0, <3>1 DEF ConnectionEffect, connectionVars
    <3>6. TimerEffect
      BY <1>0, <2>0, <3>1 DEF TimerEffect, Timers, connectionVars
    <3> QED BY <3>4, <3>5, <3>6
  <2>2. CASE ops[wconn] = <<>>
    <3>1. /\ wpc' = IF wpc = "drain" THEN "rearm" ELSE "exitDrain"
          /\ UNCHANGED <<ops, connectionVars, wheel, wconn, wop, expired, at, kind, target, answer>>
      BY <1>14, <2>2 DEF DrainOperation
    <3>2. \A c \in Connection : Mail(c)' = Mail(c)
      BY <1>a, <3>1
    <3> QED BY <1>0, <2>0, <3>1, <3>2 DEF OperationEffect, ConnectionEffect, TimerEffect, Timers, connectionVars
  <2> QED BY <2>1, <2>2
<1>15. CASE RecheckReceive
  <2>1. /\ wpc = "recheckReceive" /\ wpc' = "complete" /\ ~StrandedBatch(wconn)
    BY <1>0, <1>15 DEF RecheckReceive, StrandedBatch
  <2>2. /\ UNCHANGED <<ops, started, stopped, deadline, rxBatch, wheel, wconn, wop, expired, at, kind, target, answer>>
        /\ \A c \in Connection : rxPending'[c] = rxPending[c]
    BY <1>0, <1>15, <2>1 DEF RecheckReceive, TypeOK
  <2>3. \A c \in Connection : Mail(c)' = Mail(c)
    BY <1>a, <2>2
  <2>4. wop.type = "FlushRecv"
    BY <2>1 DEF DeliveryInv, Receiving
  <2> QED BY <1>0, <2>1, <2>2, <2>3, <2>4 DEF OperationEffect, ConnectionEffect, TimerEffect, Timers
<1>16. CASE Execute
  <2>1. ExecuteEffect
    BY <1>16, ExecuteHasEffect
  <2>2. OperationEffect
    BY <1>0, <2>1 DEF ExecuteEffect, OperationEffect
  <2>3. ConnectionEffect
    BY <1>0, <2>1 DEF ExecuteEffect, ConnectionEffect
  <2>4. TimerEffect
    BY <1>0, <2>1 DEF ExecuteEffect, TimerEffect, Timers
  <2> QED BY <2>2, <2>3, <2>4
<1>17. ASSUME NEW d \in Connection, QueueTimerExpired(d)
      PROVE  OperationEffect /\ ConnectionEffect /\ TimerEffect
  <2>1. /\ wpc = "timers" /\ wpc' \in {"timers", "timerCas", "pop"} /\ d \in expired /\ expired' = expired \ {d} /\ wconn' = d
        /\ wpc' = "pop" => expired' = {}
        /\ UNCHANGED <<connectionVars, wheel, wop, at, kind, target, answer>>
    BY <1>17 DEF QueueTimerExpired
  <2>2. CASE stopped[d]
    <3>1. \A c \in Connection : Mail(c)' = Mail(c)
      BY <1>a, <1>17, <2>2 DEF QueueTimerExpired
    <3> QED BY <1>0, <2>1, <2>2, <3>1 DEF OperationEffect, ConnectionEffect, TimerEffect, Timers, connectionVars
  <2>3. CASE ~stopped[d]
    <3>1. Internal("TimerExpired") \in Operation
      BY InternalOperation DEF OperationType
    <3>2. ops' = [ops EXCEPT ![d] = Append(@, Internal("TimerExpired"))]
      BY <1>17, <2>3 DEF QueueTimerExpired
    <3>3. \A c \in Connection :
            Mail(c)' = IF c = d THEN Mail(c) \cup {Internal("TimerExpired")} ELSE Mail(c)
      BY <3>1, <3>2, AppendMail
    <3>4. Internal("TimerExpired").by = NoCall /\ Internal("TimerExpired").type = "TimerExpired"
      BY DEF Internal
    <3>5. OperationEffect
      BY <1>0, <2>1, <3>3, <3>4 DEF OperationEffect
    <3>6. ConnectionEffect
      BY <1>0, <2>1 DEF ConnectionEffect, connectionVars
    <3>7. TimerEffect
      BY <1>0, <2>1, <3>3, <3>4 DEF TimerEffect, Timers, connectionVars
    <3> QED BY <3>5, <3>6, <3>7
  <2> QED BY <2>2, <2>3
<1> QED BY <1>1, <1>2, <1>3, <1>4, <1>5, <1>6, <1>7, <1>8, <1>9, <1>10, <1>11, <1>12, <1>13, <1>14, <1>15, <1>16, <1>17 DEF WorkerStep

LEMMA DeliveryWorkerStep ==
  ASSUME TypeOK, DeliveryInv, WorkerStep
  PROVE  DeliveryInv'
<1>1. OperationEffect /\ ConnectionEffect /\ TimerEffect
  BY WorkerHasEffect
<1>2. /\ UNCHANGED <<at, kind, target>>
      /\ \A l : OperationOf(l)' = OperationOf(l)
      /\ \A l \in Call : target[l] \in Connection
      /\ wconn \in Connection /\ wop \in Operation
  BY <1>1 DEF OperationEffect, OperationOf, Internal, TypeOK
<1>3. Addressed'
  <2>1. \A c \in Connection : \A op \in Mail(c)' :
          op.by \in Call => target[op.by] = c /\ op = OperationOf(op.by)
    BY <1>1, <1>2 DEF DeliveryInv, Addressed, OperationEffect
  <2>2. wpc' \in InHandPC /\ wop'.by \in Call => target[wop'.by] = wconn' /\ wop' = OperationOf(wop'.by)
    BY <1>1, <1>2 DEF DeliveryInv, Addressed, OperationEffect
  <2> QED BY <1>2, <2>1, <2>2 DEF Addressed
<1>4. Waiting'
  <2>1. ASSUME NEW l \in Call, NEW c \in Connection, c = target[l],
               kind[l] \in {"start", "close"}, at[l] \in HandedPC, answer'[l] = "none"
        PROVE  (\E op \in Mail(c)' : op.by = l) \/ (wop'.by = l /\ wpc' \in InHandPC)
    <3>1. (\E op \in Mail(c) : op.by = l) \/ (wop.by = l /\ wpc \in InHandPC)
      BY <1>1, <2>1 DEF OperationEffect, DeliveryInv, Waiting
    <3>2. CASE wop.by = l /\ wpc \in InHandPC
      BY <1>1, <2>1, <3>2 DEF OperationEffect
    <3>3. ASSUME NEW op \in Mail(c), op.by = l
          PROVE  (\E mail \in Mail(c)' : mail.by = l) \/ (wop'.by = l /\ wpc' \in InHandPC)
      BY <1>1, <2>1, <3>3 DEF OperationEffect, InHandPC
    <3> QED BY <3>1, <3>2, <3>3
  <2>2. ASSUME NEW l \in Call, kind'[l] \in {"start", "close"}, at'[l] \in HandedPC, answer'[l] = "none"
        PROVE  (\E op \in Mail(target[l])' : op.by = l) \/ (wop'.by = l /\ wpc' \in InHandPC)
    <3>1. PICK c \in Connection : c = target[l]
      BY <1>2
    <3>2. (\E op \in Mail(c)' : op.by = l) \/ (wop'.by = l /\ wpc' \in InHandPC)
      BY <1>2, <2>1, <2>2, <3>1
    <3>3. Mail(target[l])' = Mail(c)'
      BY <1>2, <3>1 DEF Mail
    <3> QED BY <3>2, <3>3
  <2> QED BY <1>2, <2>2 DEF DeliveryInv, Waiting
<1>5. Starts'
  <2>1. wpc = "complete" /\ wop.by \in Call /\ kind[wop.by] = "start" =>
          wop.type = "APIStart" /\ target[wop.by] = wconn
    BY OperationOfIsBy DEF DeliveryInv, Addressed, InHandPC
  <2>2. \A l \in Call : kind[l] = "start" /\ answer'[l] = "ok" => started'[target[l]]
    BY <1>1, <1>2, <2>1 DEF DeliveryInv, Starts, OperationEffect, ConnectionEffect
  <2>3. OneStartSucceeds'
    BY <1>1, <1>2, <2>1 DEF DeliveryInv, Starts, OneStartSucceeds, OperationEffect
  <2>4. ASSUME wpc' = "complete", wop'.type = "APIStart"
        PROVE  /\ started'[wconn']
               /\ \A l \in Call : kind[l] = "start" /\ target[l] = wconn' => answer'[l] # "ok"
    BY <1>1, <1>2, <2>4 DEF DeliveryInv, Starts, OperationEffect, ConnectionEffect
  <2> QED BY <1>2, <2>2, <2>3, <2>4 DEF Starts
<1>6. Receiving'
  <2>1. /\ \A l \in Call : at'[l] = "append" => kind'[l] = "receive"
        /\ wpc' = "recheckReceive" => wop'.type = "FlushRecv"
    BY <1>1, <1>2 DEF DeliveryInv, Receiving, ConnectionEffect
  <2>2. \A c \in Connection : rxBatch'[c] > 0 => rxPending'[c]
    BY <1>1 DEF DeliveryInv, Receiving, ConnectionEffect
  <2>3. ASSUME NEW c \in Connection, rxPending'[c], ~stopped'[c]
        PROVE  FlushOnItsWay(c)'
    <3>1. rxPending[c] /\ ~stopped[c]
      BY <1>1, <2>3 DEF ConnectionEffect
    <3>2. FlushOnItsWay(c)
      BY <3>1 DEF DeliveryInv, Receiving
    <3>3. ASSUME NEW op \in Mail(c), op.type = "FlushRecv"
          PROVE  FlushOnItsWay(c)'
      <4>1. op \in Mail(c)' \/ (wop' = op /\ wpc' = "execute" /\ wconn' = c)
        BY <1>1, <3>1 DEF OperationEffect, DeliveryInv, Draining
      <4> QED BY <3>3, <4>1 DEF FlushOnItsWay
    <3>4. CASE \E l \in Call : kind[l] = "receive" /\ target[l] = c /\ at[l] \in {"check", "push"}
      BY <1>2, <3>4 DEF FlushOnItsWay
    <3>5. CASE wconn = c /\ wpc = "execute" /\ wop.type = "FlushRecv"
      BY <1>1, <2>3, <3>5 DEF ConnectionEffect
    <3>6. CASE wconn = c /\ wpc \in {"failError", "failStop"}
      BY <1>1, <2>3, <3>6 DEF ConnectionEffect, FlushOnItsWay
    <3> QED BY <3>2, <3>3, <3>4, <3>5, <3>6 DEF FlushOnItsWay
  <2> QED BY <2>1, <2>2, <2>3 DEF Receiving
<1>7. Timers'
  <2>1. ASSUME NEW c \in Connection, deadline'[c], ~stopped'[c]
        PROVE  \/ c \in wheel'
               \/ c \in expired'
               \/ \E op \in Mail(c)' : op.type = "TimerExpired"
               \/ wconn' = c /\ wpc' \in ProcessingPC
    <3>1. ~stopped[c]
      BY <1>1, <2>1 DEF ConnectionEffect
    <3>2. deadline[c] \/ (c = wconn /\ wconn' = wconn /\ wpc' \in ProcessingPC)
      BY <1>1, <2>1 DEF TimerEffect
    <3>3. ASSUME deadline[c]
          PROVE  \/ c \in wheel
                 \/ c \in expired
                 \/ \E op \in Mail(c) : op.type = "TimerExpired"
                 \/ wconn = c /\ wpc \in ProcessingPC
      BY <3>1, <3>3 DEF DeliveryInv, Timers
    <3>4. CASE c \in wheel
      BY <1>1, <3>4 DEF TimerEffect
    <3>5. CASE c \in expired
      BY <1>1, <3>1, <3>5 DEF TimerEffect
    <3>6. ASSUME NEW op \in Mail(c), op.type = "TimerExpired"
          PROVE  \/ \E mail \in Mail(c)' : mail.type = "TimerExpired"
                 \/ wconn' = c /\ wpc' \in ProcessingPC
      <4>1. op \in Mail(c)' \/ (wop' = op /\ wpc' = "execute" /\ wconn' = c)
        BY <1>1, <3>1 DEF OperationEffect, DeliveryInv, Draining
      <4> QED BY <3>6, <4>1 DEF ProcessingPC
    <3>7. CASE wconn = c /\ wpc \in ProcessingPC
      <4>1. CASE wconn' = wconn /\ wpc' \in ProcessingPC
        BY <3>7, <4>1
      <4>2. CASE wpc = "finish" /\ UNCHANGED <<wheel, deadline, stopped>>
        BY <2>1, <3>7, <4>2 DEF DeliveryInv, Timers
      <4> QED BY <1>1, <3>7, <4>1, <4>2 DEF TimerEffect
    <3> QED BY <3>2, <3>3, <3>4, <3>5, <3>6, <3>7
  <2> QED BY <1>1, <2>1 DEF Timers, TimerEffect
<1>8. Draining'
  BY <1>1 DEF Draining, ConnectionEffect
<1> QED BY <1>3, <1>4, <1>5, <1>6, <1>7, <1>8 DEF DeliveryInv

LEMMA DeliveryInit == Init => DeliveryInv
BY EmptyQueue DEF Init, DeliveryInv, Addressed, Waiting, Starts, OneStartSucceeds, Receiving, Timers,
     Draining, Mail, Elements, InHandPC, HandedPC

LEMMA DeliveryInductive == Spec => [](TypeOK /\ DeliveryInv)
<1>1. TypeOK /\ DeliveryInv /\ [Next]_vars => DeliveryInv'
  <2> SUFFICES ASSUME TypeOK, DeliveryInv, [Next]_vars PROVE DeliveryInv'
    OBVIOUS
  <2>1. CASE UNCHANGED vars
    BY <2>1 DEF vars, connectionVars, workerVars, DeliveryInv, Addressed, Waiting, Starts,
         OneStartSucceeds, Receiving, FlushOnItsWay, Timers, Draining, Mail, OperationOf, Internal
  <2>2. CASE Next
    BY <2>2, DeliveryCallStep, DeliveryWorkerStep DEF Next
  <2> QED BY <2>1, <2>2
<1> QED BY <1>1, DeliveryInit, TypeCorrect, PTL DEF Spec

\* A caller that waits for its Completion has its operation in the mailbox or in
\* the Worker's hands, whatever stops the connection meanwhile (Operation.cpp:39,
\* Connection.cpp:862), for every number of calls and connections.
THEOREM CallCorrect == Spec => []NoStrandedCall
<1>1. TypeOK /\ DeliveryInv => NoStrandedCall
  <2> SUFFICES ASSUME TypeOK, DeliveryInv, NEW k \in Call, at[k] = "wait", answer[k] = "none"
               PROVE  \/ \E i \in DOMAIN ops[target[k]] : ops[target[k]][i].by = k
                      \/ /\ wop.by = k
                         /\ wpc \in {"execute", "recheckReceive", "complete", "failError"}
    BY DEF NoStrandedCall
  <2>1. (\E op \in Mail(target[k]) : op.by = k) \/ (wop.by = k /\ wpc \in InHandPC)
    BY DEF DeliveryInv, Waiting, HandedPC
  <2> QED BY <2>1 DEF Mail, Elements, InHandPC
<1> QED BY <1>1, DeliveryInductive, PTL

\* At most one start of a connection is answered well (processStart,
\* Connection.cpp:983).
THEOREM StartCorrect == Spec => []OneStartSucceeds
<1>1. DeliveryInv => OneStartSucceeds
  BY DEF DeliveryInv, Starts
<1> QED BY <1>1, DeliveryInductive, PTL

\* Received datagrams have a flush coming as long as the connection runs
\* (queueReceive and processReceive, Connection.cpp:760 and 1036).
THEOREM ReceiveCorrect == Spec => []ReceiveNotStranded
<1>1. DeliveryInv => ReceiveNotStranded
  BY DEF DeliveryInv, Receiving, FlushOnItsWay, ReceiveNotStranded, Mail, Elements
<1> QED BY <1>1, DeliveryInductive, PTL

\* No deadline of a running connection is forgotten (Worker.cpp:130 and 169).
THEOREM TimersCorrect == Spec => []TimerCovered
<1>1. DeliveryInv => TimerCovered
  BY DEF DeliveryInv, Timers, TimerCovered, Mail, Elements
<1> QED BY <1>1, DeliveryInductive, PTL

-----------------------------------------------------------------------------
(* The runtime is a Mailbox: operations of a connection are executed one at a  *)
(* time, in the order they were queued.                                        *)

\* The operation in execution, as Promise sees it.
Current == IF wpc \in WorkingPC THEN [on |-> wconn, op |-> wop] ELSE Nothing

LEMMA CurrentIsSomething == \A c, op : [on |-> c, op |-> op] # Nothing
<1>1. \A c, op : DOMAIN [on |-> c, op |-> op] = {"on", "op"}
  OBVIOUS
<1>2. DOMAIN Nothing = {"on"}
  BY DEF Nothing
<1>3. "op" \in {"on", "op"} /\ "op" \notin {"on"}
  OBVIOUS
<1> QED BY <1>1, <1>2, <1>3

LEMMA MailboxUnchanged ==
  ASSUME UNCHANGED <<ops, stopped, answer>>, Current' = Current
  PROVE  UNCHANGED Promise!vars
BY DEF Promise!vars, Current

\* Whatever is put behind a mailbox joins it, and nothing else happens.
LEMMA MailboxGrows ==
  ASSUME TypeOK, NEW d \in Connection, NEW s \in Seq(Operation),
         ops' = [ops EXCEPT ![d] = ops[d] \o s],
         UNCHANGED <<stopped, answer>>, Current' = Current
  PROVE  [Promise!Next]_(Promise!vars)
<1>1. ops \in [Connection -> Seq(Operation)] /\ ops[d] \in Seq(Operation)
  BY DEF TypeOK
<1>2. /\ ops'[d] = ops[d] \o s
      /\ \A c \in Connection \ {d} : ops'[c] = ops[c]
  BY <1>1
<1>3. CASE s = <<>>
  <2>1. ops[d] \o s = ops[d]
    BY <1>1, <1>3
  <2>2. UNCHANGED ops
    BY <1>1, <2>1
  <2> QED BY <2>2, MailboxUnchanged
<1>4. CASE s # <<>>
  <2>1. Len(s) > 0
    BY <1>4, EmptySeq
  <2>2. Len(ops[d] \o s) > Len(ops[d])
    BY <1>1, <2>1
  <2>3. SubSeq(ops[d] \o s, 1, Len(ops[d])) = ops[d]
    <3> DEFINE q == ops[d]
    <3>1. q \in Seq(Operation) /\ q \o s \in Seq(Operation) /\ Len(q) \in Nat
      BY <1>1
    <3> HIDE DEF q
    <3>2. /\ Len(q) \in 0..Len(q \o s) /\ Len(q \o s) = Len(q) + Len(s)
          /\ \A i \in 1..Len(q) : (q \o s)[i] = q[i]
      BY <3>1
    <3>3. /\ SubSeq(q \o s, 1, Len(q)) \in Seq(Operation)
          /\ Len(SubSeq(q \o s, 1, Len(q))) = Len(q)
          /\ \A i \in 1..Len(q) : SubSeq(q \o s, 1, Len(q))[i] = q[i]
      BY <3>1, <3>2
    <3>4. SubSeq(q \o s, 1, Len(q)) = q
      BY <3>1, <3>3, SeqEqual
    <3> QED BY <3>4 DEF q
  <2>4. Promise!Submit(d)
    BY <1>2, <2>2, <2>3 DEF Promise!Submit, Current
  <2> QED BY <2>4 DEF Promise!Next
<1> QED BY <1>3, <1>4

\* A call queues its operation, is refused, or does nothing a mailbox shows.
LEMMA MailboxCallStep ==
  ASSUME TypeOK, NEW k \in Call, InvokeStep(k) \/ CallStep(k) \/ WaitTimedOut(k)
  PROVE  [Promise!Next]_(Promise!vars)
<1>1. UNCHANGED <<wpc, wconn, wop, stopped>> /\ Current' = Current
  BY CallFrame DEF Current
<1>2. CASE PushOperation(k)
  <2>1. OperationOf(k) \in Operation /\ target[k] \in Connection /\ ops[target[k]] \in Seq(Operation)
    BY OperationOfCall DEF TypeOK
  <2>2. <<OperationOf(k)>> \in Seq(Operation)
        /\ Append(ops[target[k]], OperationOf(k)) = ops[target[k]] \o <<OperationOf(k)>>
    BY <2>1
  <2>3. /\ ops' = [ops EXCEPT ![target[k]] = ops[target[k]] \o <<OperationOf(k)>>]
        /\ UNCHANGED <<stopped, answer>>
    BY <1>1, <1>2, <2>2 DEF PushOperation
  <2> QED BY <1>1, <2>1, <2>2, <2>3, MailboxGrows
<1>3. CASE CheckStopped(k)
  <2>1. UNCHANGED ops
    BY <1>3 DEF CheckStopped
  <2>2. CASE answer' = answer
    BY <1>1, <2>1, <2>2, MailboxUnchanged
  <2>3. CASE answer' # answer
    <3>1. stopped[target[k]] /\ answer' = Answered(OperationOf(k).by, "error")
      BY <1>3, <2>3 DEF CheckStopped
    <3>2. PICK l \in Call : answer[l] = "none" /\ answer' = [answer EXCEPT ![l] = "error"]
      BY <2>3, <3>1 DEF Answered
    <3>3. Promise!Refuse(l)
      BY <1>1, <2>1, <3>1, <3>2 DEF Promise!Refuse, Current, TypeOK
    <3> QED BY <3>3 DEF Promise!Next
  <2> QED BY <2>2, <2>3
<1>4. CASE ~PushOperation(k) /\ ~CheckStopped(k)
  <2>1. UNCHANGED <<ops, answer>>
    BY <1>4 DEF InvokeStep, CallStep, WaitTimedOut, BeginStart, BeginSend, BeginRead, BeginClose, BeginReceive,
         StopWorker, Attach, AppendDatagram, ScheduleIfIdle, QueueConnection, SignalReady,
         WaitAnswered, Detach, JoinWorker
  <2> QED BY <1>1, <2>1, MailboxUnchanged
<1> QED BY <1>2, <1>3, <1>4

\* An operation in execution queues others, or closes its mailbox.
LEMMA MailboxExecute ==
  ASSUME TypeOK, Execute
  PROVE  [Promise!Next]_(Promise!vars)
<1>0. /\ wpc \in WorkingPC /\ wpc' \in WorkingPC /\ UNCHANGED <<wop, wconn, answer>>
      /\ wconn \in Connection /\ ops[wconn] \in Seq(Operation)
      /\ ops \in [Connection -> Seq(Operation)] /\ stopped \in [Connection -> BOOLEAN]
  BY ExecuteHasEffect DEF ExecuteEffect, WorkingPC, TypeOK
<1>1. Current' = Current
  BY <1>0 DEF Current
<1>2. UNCHANGED <<ops, stopped>> => [Promise!Next]_(Promise!vars)
  BY <1>0, <1>1, MailboxUnchanged
<1>3. ASSUME NEW pending, NEW F, QueueFlushes(pending, F), UNCHANGED stopped
      PROVE  [Promise!Next]_(Promise!vars)
  <2> DEFINE q == IF stopped[wconn] THEN {} ELSE F \ pending
             s1 == IF "FlushStreamRecv" \in q THEN <<Internal("FlushStreamRecv")>> ELSE <<>>
             s2 == IF "FlushSend" \in q THEN <<Internal("FlushSend")>> ELSE <<>>
  <2>1. Internal("FlushSend") \in Operation /\ Internal("FlushStreamRecv") \in Operation
    BY InternalOperation DEF OperationType
  <2>2. s1 \in Seq(Operation) /\ s2 \in Seq(Operation)
    BY <2>1
  <2>3. ops' = [ops EXCEPT ![wconn] = (ops[wconn] \o s1) \o s2]
    BY <1>3 DEF QueueFlushes, TypeOK
  <2> HIDE DEF s1, s2
  <2>4. s1 \o s2 \in Seq(Operation) /\ (ops[wconn] \o s1) \o s2 = ops[wconn] \o (s1 \o s2)
    BY <1>0, <2>2, ConcatAssociative
  <2>5. ops' = [ops EXCEPT ![wconn] = ops[wconn] \o (s1 \o s2)]
    BY <2>3, <2>4
  <2> QED BY <1>0, <1>1, <1>3, <2>4, <2>5, MailboxGrows
<1>4. CASE ProcessStart
  BY <1>2, <1>3, <1>4 DEF ProcessStart
<1>5. CASE ProcessSend
  BY <1>2, <1>3, <1>5 DEF ProcessSend, Throw
<1>6. CASE ProcessReceive
  BY <1>2, <1>3, <1>6 DEF ProcessReceive, Throw
<1>7. CASE ProcessStreamReceive
  BY <1>2, <1>7 DEF ProcessStreamReceive
<1>8. CASE ProcessSendFlush
  BY <1>2, <1>3, <1>8 DEF ProcessSendFlush
<1>9. CASE ProcessTimer
  BY <1>2, <1>3, <1>9 DEF ProcessTimer, Throw
<1>c. CASE ProcessReleaseStreamReceiveCredit
  BY <1>2, <1>3, <1>c DEF ProcessReleaseStreamReceiveCredit, Throw
<1>10. CASE ProcessShutdown
  <2>1. UNCHANGED ops /\ stopped' = [stopped EXCEPT ![wconn] = TRUE]
    BY <1>10 DEF ProcessShutdown
  <2>2. Promise!Close(wconn)
    BY <1>0, <1>1, <2>1 DEF Promise!Close, Current
  <2> QED BY <1>0, <2>2 DEF Promise!Next
<1> QED BY <1>4, <1>5, <1>6, <1>7, <1>8, <1>9, <1>c, <1>10 DEF Execute

\* The Worker takes, executes, answers and throws away as an executor of
\* mailboxes may.
LEMMA MailboxWorkerStep ==
  ASSUME TypeOK, DeliveryInv, WorkerStep
  PROVE  [Promise!Next]_(Promise!vars)
<1>0. /\ wconn \in Connection /\ ops[wconn] \in Seq(Operation)
      /\ ops \in [Connection -> Seq(Operation)] /\ stopped \in [Connection -> BOOLEAN]
      /\ answer \in [Call -> {"none", "ok", "error"}]
  BY DEF TypeOK
<1>a. ASSUME UNCHANGED <<ops, stopped, answer>>, wpc \notin WorkingPC, wpc' \notin WorkingPC
      PROVE  [Promise!Next]_(Promise!vars)
  BY <1>a, MailboxUnchanged DEF Current
<1>b. ASSUME NEW d \in Connection, stopped' = [stopped EXCEPT ![d] = TRUE], UNCHANGED <<ops, answer>>,
             wpc \notin WorkingPC, wpc' \notin WorkingPC
      PROVE  [Promise!Next]_(Promise!vars)
  <2>1. Promise!Close(d)
    BY <1>b DEF Promise!Close
  <2> QED BY <2>1 DEF Promise!Next
<1>c. ASSUME NEW r \in {"ok", "error"}, answer' = Answered(wop.by, r), UNCHANGED <<ops, stopped>>,
             wpc \in WorkingPC, wpc' \notin WorkingPC
      PROVE  [Promise!Next]_(Promise!vars)
  <2>1. Promise!Answer(wop, {"ok", "error"})
    BY <1>c DEF Promise!Answer, Answered
  <2>2. [on |-> wconn, op |-> wop] # Nothing /\ [on |-> wconn, op |-> wop].op = wop
    BY CurrentIsSomething
  <2>3. Promise!Finish
    BY <1>c, <2>1, <2>2 DEF Promise!Finish
  <2> QED BY <2>3 DEF Promise!Next
<1> USE DEF WorkingPC
<1>1. CASE LoopTop
  BY <1>1, <1>a DEF LoopTop, connectionVars
<1>2. ASSUME NEW d \in Connection, QueueTimerExpired(d)
      PROVE  [Promise!Next]_(Promise!vars)
  <2>1. CASE stopped[d]
    BY <1>2, <1>a, <2>1 DEF QueueTimerExpired, connectionVars
  <2>2. CASE ~stopped[d]
    <3>1. Internal("TimerExpired") \in Operation /\ ops[d] \in Seq(Operation)
      BY <1>0, InternalOperation DEF OperationType
    <3>2. /\ <<Internal("TimerExpired")>> \in Seq(Operation)
          /\ Append(ops[d], Internal("TimerExpired")) = ops[d] \o <<Internal("TimerExpired")>>
      BY <3>1
    <3>3. /\ ops' = [ops EXCEPT ![d] = ops[d] \o <<Internal("TimerExpired")>>]
          /\ UNCHANGED <<stopped, answer>> /\ Current' = Current
      BY <1>2, <2>2, <3>2 DEF QueueTimerExpired, connectionVars, Current
    <3> QED BY <3>2, <3>3, MailboxGrows
  <2> QED BY <2>1, <2>2
<1>3. CASE ScheduleExpired
  BY <1>3, <1>a DEF ScheduleExpired, connectionVars
<1>4. CASE PopConnection
  BY <1>4, <1>a DEF PopConnection, connectionVars
<1>5. CASE Park
  BY <1>5, <1>a DEF Park, connectionVars
<1>6. CASE BeginWorkerProcessing
  BY <1>6, <1>a DEF BeginWorkerProcessing, connectionVars
<1>7. CASE PopOperation
  <2>1. CASE processed < Budget /\ ops[wconn] # <<>>
    <3>1. /\ wpc = "ops" /\ wpc' = "execute" /\ wop' = Head(ops[wconn]) /\ wconn' = wconn
          /\ ops' = [ops EXCEPT ![wconn] = Tail(@)] /\ UNCHANGED <<stopped, answer>>
      BY <1>7, <2>1 DEF PopOperation, connectionVars
    <3>2. Promise!Take(wconn)
      BY <2>1, <3>1 DEF Promise!Take
    <3> QED BY <1>0, <3>2 DEF Promise!Next, Promise!Serve
  <2>2. CASE ~(processed < Budget /\ ops[wconn] # <<>>)
    BY <1>7, <1>a, <2>2 DEF PopOperation, connectionVars
  <2> QED BY <2>1, <2>2
<1>8. CASE Execute
  BY <1>8, MailboxExecute
<1>9. CASE RecheckReceive
  <2>1. /\ ~StrandedBatch(wconn) /\ wpc = "recheckReceive" /\ wpc' = "complete"
        /\ UNCHANGED <<stopped, answer, wop, wconn>>
    BY <1>0, <1>9 DEF RecheckReceive, StrandedBatch, DeliveryInv, Receiving
  <2>2. UNCHANGED ops
    BY <1>0, <1>9, <2>1 DEF RecheckReceive
  <2> QED BY <2>1, <2>2, MailboxUnchanged DEF Current
<1>10. CASE CompleteOperation
  <2>1. UNCHANGED <<ops, stopped>> /\ wpc = "complete" /\ wpc' \in {"drain", "ops"}
        /\ answer' = Answered(wop.by, "ok")
    BY <1>10 DEF CompleteOperation
  <2> QED BY <1>c, <2>1
<1>11. CASE FailError
  <2>1. UNCHANGED <<ops, stopped>> /\ wpc = "failError" /\ wpc' = "failStop"
        /\ answer' = Answered(wop.by, "error")
    BY <1>11 DEF FailError
  <2> QED BY <1>c, <2>1
<1>12. CASE FailStop
  BY <1>0, <1>12, <1>b DEF FailStop
<1>13. CASE DrainOperation
  <2>0. stopped[wconn] /\ wpc \in {"drain", "exitFail"} /\ UNCHANGED <<stopped, wconn, wop>>
    BY <1>13 DEF DrainOperation, DeliveryInv, Draining, connectionVars
  <2>1. CASE ops[wconn] # <<>>
    <3>1. /\ answer' = Answered(Head(ops[wconn]).by, "error")
          /\ ops' = [ops EXCEPT ![wconn] = Tail(@)] /\ wpc' = wpc
      BY <1>13, <2>1 DEF DrainOperation
    <3>2. Promise!Answer(Head(ops[wconn]), {"error"})
      BY <3>1 DEF Promise!Answer, Answered
    <3>3. Promise!Discard(wconn)
      BY <2>0, <2>1, <3>1, <3>2 DEF Promise!Discard
    <3> QED BY <1>0, <3>3 DEF Promise!Next, Promise!Serve
  <2>2. CASE ops[wconn] = <<>>
    <3>1. UNCHANGED <<ops, answer>> /\ wpc' \in {"rearm", "exitDrain"}
      BY <1>13, <2>2 DEF DrainOperation
    <3> QED BY <1>a, <2>0, <3>1
  <2> QED BY <2>1, <2>2
<1>14. CASE UpdateTimer
  BY <1>14, <1>a DEF UpdateTimer, connectionVars
<1>15. CASE FinishWorkerProcessing
  BY <1>15, <1>a DEF FinishWorkerProcessing, connectionVars
<1>16. CASE RecheckOperations
  BY <1>16, <1>a DEF RecheckOperations, connectionVars
<1>17. CASE FailQueued
  <2>1. CASE runQueue = <<>>
    BY <1>17, <1>a, <2>1 DEF FailQueued
  <2>2. CASE runQueue # <<>>
    <3>1. Head(runQueue) \in Connection
      BY <2>2, TailQueue DEF TypeOK
    <3>2. /\ stopped' = [stopped EXCEPT ![Head(runQueue)] = TRUE] /\ UNCHANGED <<ops, answer>>
          /\ wpc = "exitDrain" /\ wpc' = "exitFail"
      BY <1>17, <2>2 DEF FailQueued
    <3> QED BY <1>b, <3>1, <3>2
  <2> QED BY <2>1, <2>2
<1> QED BY <1>1, <1>2, <1>3, <1>4, <1>5, <1>6, <1>7, <1>8, <1>9, <1>10, <1>11, <1>12, <1>13, <1>14, <1>15, <1>16, <1>17 DEF WorkerStep

\* Whatever calls, callbacks, timers and errors come together: the operations of a
\* connection are executed one at a time in the order of their push, a caller is
\* answered once, and what is thrown away was queued on a connection that stopped
\* (OperationQueue, Operation.cpp:54; processOperations, Connection.cpp:862).
THEOREM OrderCorrect == Spec => KeepsOrder
<1>1. Init => Promise!Init
  BY DEF Init, Promise!Init, WorkingPC
<1>2. TypeOK /\ DeliveryInv /\ [Next]_vars => [Promise!Next]_(Promise!vars)
  <2> SUFFICES ASSUME TypeOK, DeliveryInv, [Next]_vars PROVE [Promise!Next]_(Promise!vars)
    OBVIOUS
  <2>1. CASE UNCHANGED vars
    BY <2>1, MailboxUnchanged DEF vars, workerVars, connectionVars, Current
  <2>2. CASE Next
    BY <2>2, MailboxCallStep, MailboxWorkerStep DEF Next
  <2> QED BY <2>1, <2>2
<1> QED BY <1>1, <1>2, DeliveryInductive, PTL DEF Spec, KeepsOrder, Promise!Spec
=============================================================================
