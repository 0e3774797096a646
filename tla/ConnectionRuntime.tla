-------------------------- MODULE ConnectionRuntime --------------------------
(***************************************************************************)
(* The QUIC runtime of native/core and native/quic: connections that are    *)
(* owned by one Worker thread, driven through a mailbox (OperationQueue) by  *)
(* API threads and by the datapath thread of the ICE agent.                  *)
(*                                                                           *)
(* Steps are as fine as the code's mutexes and atomics.  A call into a       *)
(* Connection is a process of its own (the element k of Call), so that two   *)
(* calls of one thread, or of two threads, interleave in every order; the    *)
(* Worker is one more process.  Connections are assigned to a Worker for     *)
(* life, so one Worker with its connections is a complete system.            *)
(***************************************************************************)
EXTENDS Naturals, Sequences, FiniteSets

CONSTANTS
  Connection,   \* the connections assigned to this Worker
  Server,       \* those with Role::Server; the others are clients
  Call,         \* the calls other threads make
  Kinds,        \* which calls they make
  Budget,       \* kConnectionOperationBudget
  NoCall        \* the caller of an operation nobody waits for

AllKinds == {"start", "send", "close", "receive", "read", "stop"}

ASSUME ConstantsAssumption ==
  /\ Server \subseteq Connection
  /\ Kinds \subseteq AllKinds
  /\ Budget \in Nat \ {0}
  /\ NoCall \notin Call

OperationType == {"APIStart", "APISend", "FlushRecv", "FlushStreamRecv",
                  "FlushSend", "TimerExpired", "Shutdown", "ReleaseStreamRecvCredit"}
FlushType == {"FlushSend", "FlushStreamRecv"}

\* core::Operation; "by" is the call that holds its Completion, if any.
Operation == [type : OperationType, by : Call \cup {NoCall}]
Internal(type) == [type |-> type, by |-> NoCall]

VARIABLES
  sched,      \* Connection::scheduleState_
  ops,        \* Connection::operationQueue_
  started,    \* Connection::started_
  stopped,    \* Connection::stopped_
  conn,       \* ProtocolState::conn is set
  deadline,   \* getNextExpiry() of a running connection is finite
  attached,   \* JuiceBinding holds the agent and the agent holds the sink
  rxBatch,    \* number of datagrams in receiveBatch_
  rxPending,  \* receiveOperationPending_
  flushing,   \* sendOperationPending_ and streamReceiveOperationPending_
  appError,   \* appError_ is not empty
  runQueue,   \* Worker::connections_
  ready,      \* Worker::ready_
  running,    \* Worker::running_
  wheel,      \* the connections in the TimerWheel
  wpc,        \* where the Worker thread is
  wconn,      \* the connection it works on
  wop,        \* the operation it works on
  processed,  \* operations done in this batch
  expired,    \* connections whose timer fired and was not queued yet
  at,         \* where each call is
  kind,       \* what each call does
  target,     \* the connection it is made on
  answer      \* its Completion: "none" until completed

connectionVars == <<started, stopped, conn, deadline, rxBatch, rxPending, flushing, appError>>
workerVars == <<wpc, wconn, wop, processed, expired>>
vars == <<sched, ops, connectionVars, attached, runQueue, ready, running, wheel,
          workerVars, at, kind, target, answer>>

CallPC == {"new", "attach", "append", "check", "push", "cas", "enqueue", "signal",
           "wait", "detach", "join", "done"}
ProcessingPC == {"ops", "execute", "recheckReceive", "complete", "failError",
                 "failStop", "drain", "rearm", "finish"}
ExitPC == {"exitDrain", "exitFail", "exited"}
WorkerPC == {"loop", "timers", "timerCas", "pop", "park", "begin", "recheck"}
              \cup ProcessingPC \cup ExitPC

TypeOK ==
  /\ sched \in [Connection -> {"Idle", "Queued", "Processing"}]
  /\ ops \in [Connection -> Seq(Operation)]
  /\ started \in [Connection -> BOOLEAN]
  /\ stopped \in [Connection -> BOOLEAN]
  /\ conn \in [Connection -> BOOLEAN]
  /\ deadline \in [Connection -> BOOLEAN]
  /\ attached \in [Connection -> BOOLEAN]
  /\ rxBatch \in [Connection -> Nat]
  /\ rxPending \in [Connection -> BOOLEAN]
  /\ flushing \in [Connection -> SUBSET FlushType]
  /\ appError \in [Connection -> BOOLEAN]
  /\ runQueue \in Seq(Connection)
  /\ ready \in BOOLEAN
  /\ running \in BOOLEAN
  /\ wheel \in SUBSET Connection
  /\ wpc \in WorkerPC
  /\ wconn \in Connection
  /\ wop \in Operation
  /\ processed \in Nat
  /\ expired \in SUBSET Connection
  /\ at \in [Call -> CallPC]
  /\ kind \in [Call -> Kinds]
  /\ target \in [Call -> Connection]
  /\ answer \in [Call -> {"none", "ok", "error"}]

Init ==
  /\ sched = [c \in Connection |-> "Idle"]
  /\ ops = [c \in Connection |-> <<>>]
  /\ started = [c \in Connection |-> FALSE]
  /\ stopped = [c \in Connection |-> FALSE]
  /\ conn = [c \in Connection |-> FALSE]
  /\ deadline = [c \in Connection |-> FALSE]
  /\ attached = [c \in Connection |-> FALSE]
  /\ rxBatch = [c \in Connection |-> 0]
  /\ rxPending = [c \in Connection |-> FALSE]
  /\ flushing = [c \in Connection |-> {}]
  /\ appError = [c \in Connection |-> FALSE]
  /\ runQueue = <<>>
  /\ ready = FALSE
  /\ running = TRUE
  /\ wheel = {}
  /\ wpc = "loop"
  /\ wconn \in Connection
  /\ wop = Internal("FlushSend")
  /\ processed = 0
  /\ expired = {}
  /\ at = [k \in Call |-> "new"]
  /\ kind \in [Call -> Kinds]
  /\ target \in [Call -> Connection]
  /\ answer = [k \in Call |-> "none"]

-----------------------------------------------------------------------------
(* Calls of other threads.                                                  *)

Goto(k, pc) == at' = [at EXCEPT ![k] = pc]

\* Completion::complete: the first answer stays.
Answered(k, result) ==
  IF k \in Call /\ answer[k] = "none" THEN [answer EXCEPT ![k] = result] ELSE answer

\* The operation a call queues.
OperationOf(k) ==
  CASE kind[k] = "start" -> [type |-> "APIStart", by |-> k]
    [] kind[k] = "close" -> [type |-> "Shutdown", by |-> k]
    [] kind[k] = "send" -> Internal("APISend")
    [] kind[k] = "read" -> Internal("ReleaseStreamRecvCredit")
    [] OTHER -> Internal("FlushRecv")

\* The sink runs under the agent's lock, which clearing the sink takes too.
InSink(c) ==
  \E k \in Call : kind[k] = "receive" /\ target[k] = c /\ at[k] \notin {"new", "done"}

\* Connection::start up to its check of started_.
BeginStart(k) ==
  /\ at[k] = "new" /\ kind[k] = "start"
  /\ Goto(k, IF started[target[k]] THEN "done" ELSE "attach")
  /\ UNCHANGED <<sched, ops, connectionVars, attached, runQueue, ready, running,
                 wheel, workerVars, kind, target, answer>>

\* JuiceBinding::attach; a binding that is already attached refuses.
Attach(k) ==
  /\ at[k] = "attach"
  /\ Goto(k, IF attached[target[k]] THEN "done" ELSE "check")
  /\ attached' = [attached EXCEPT ![target[k]] = TRUE]
  /\ UNCHANGED <<sched, ops, connectionVars, runQueue, ready, running, wheel,
                 workerVars, kind, target, answer>>

\* Connection::createSendOperation: refused before start and after stop.
BeginSend(k) ==
  /\ at[k] = "new" /\ kind[k] = "send"
  /\ Goto(k, IF started[target[k]] /\ ~stopped[target[k]] THEN "check" ELSE "done")
  /\ UNCHANGED <<sched, ops, connectionVars, attached, runQueue, ready, running,
                 wheel, workerVars, kind, target, answer>>

\* releasableStreamReceiveBytes_ is not zero: the read that counted first is still
\* to queue its operation, or the operation waits for the Worker.
Releasing(c) ==
  \/ \E k \in Call : kind[k] = "read" /\ target[k] = c /\ at[k] \in {"check", "push"}
  \/ \E i \in DOMAIN ops[c] : ops[c][i].type = "ReleaseStreamRecvCredit"
  \/ wconn = c /\ wpc = "execute" /\ wop.type = "ReleaseStreamRecvCredit"

\* Connection::takeReceivedStreamData, when it takes something: only the first
\* read since the Worker last gave credit queues an operation.
BeginRead(k) ==
  /\ at[k] = "new" /\ kind[k] = "read"
  /\ started[target[k]]
  /\ Goto(k, IF Releasing(target[k]) THEN "done" ELSE "check")
  /\ UNCHANGED <<sched, ops, connectionVars, attached, runQueue, ready, running,
                 wheel, workerVars, kind, target, answer>>

\* Connection::close: nothing to shut down once stopped.
BeginClose(k) ==
  /\ at[k] = "new" /\ kind[k] = "close"
  /\ Goto(k, IF stopped[target[k]] THEN "detach" ELSE "check")
  /\ UNCHANGED <<sched, ops, connectionVars, attached, runQueue, ready, running,
                 wheel, workerVars, kind, target, answer>>

\* Connection::queueReceive, called by the sink: the unlocked check of stopped_.
BeginReceive(k) ==
  /\ at[k] = "new" /\ kind[k] = "receive"
  /\ attached[target[k]] /\ ~InSink(target[k])
  /\ Goto(k, IF stopped[target[k]] THEN "done" ELSE "append")
  /\ UNCHANGED <<sched, ops, connectionVars, attached, runQueue, ready, running,
                 wheel, workerVars, kind, target, answer>>

\* Connection::queueReceive under receiveMutex_.
AppendDatagram(k) ==
  LET c == target[k] IN
  /\ at[k] = "append"
  /\ IF stopped[c]
       THEN Goto(k, "done") /\ UNCHANGED <<rxBatch, rxPending>>
       ELSE /\ rxBatch' = [rxBatch EXCEPT ![c] = @ + 1]
            /\ rxPending' = [rxPending EXCEPT ![c] = TRUE]
            /\ Goto(k, IF rxPending[c] THEN "done" ELSE "check")
  /\ UNCHANGED <<sched, ops, started, stopped, conn, deadline, flushing, appError, attached,
                 runQueue, ready, running, wheel, workerVars, kind, target, answer>>

\* Where a call goes when queueOperation returned.
AfterQueueing(k) == IF kind[k] \in {"start", "close"} THEN "wait" ELSE "done"

\* Mutant: a refused call is not told.
CheckStoppedSilently(k) ==
  /\ at[k] = "check"
  /\ Goto(k, IF stopped[target[k]] /\ kind[k] # "close" THEN AfterQueueing(k) ELSE "push")
  /\ UNCHANGED <<sched, ops, connectionVars, attached, runQueue, ready, running,
                 wheel, workerVars, kind, target, answer>>

\* Connection::queueOperation: a stopped connection takes a Shutdown only.
CheckStopped(k) ==
  LET refused == stopped[target[k]] /\ kind[k] # "close" IN
  /\ at[k] = "check"
  /\ Goto(k, IF refused THEN AfterQueueing(k) ELSE "push")
  /\ answer' = IF refused THEN Answered(OperationOf(k).by, "error") ELSE answer
  /\ UNCHANGED <<sched, ops, connectionVars, attached, runQueue, ready, running,
                 wheel, workerVars, kind, target>>

\* OperationQueue::push.
PushOperation(k) ==
  /\ at[k] = "push"
  /\ ops' = [ops EXCEPT ![target[k]] = Append(@, OperationOf(k))]
  /\ Goto(k, "cas")
  /\ UNCHANGED <<sched, connectionVars, attached, runQueue, ready, running, wheel,
                 workerVars, kind, target, answer>>

\* Connection::scheduleIfIdle: the compare-and-swap Idle -> Queued.
ScheduleIfIdle(k) ==
  LET c == target[k] IN
  /\ at[k] = "cas"
  /\ IF sched[c] = "Idle"
       THEN sched' = [sched EXCEPT ![c] = "Queued"] /\ Goto(k, "enqueue")
       ELSE UNCHANGED sched /\ Goto(k, AfterQueueing(k))
  /\ UNCHANGED <<ops, connectionVars, attached, runQueue, ready, running, wheel,
                 workerVars, kind, target, answer>>

\* Worker::queueConnection under queueMutex_.
QueueConnection(k) ==
  /\ at[k] = "enqueue"
  /\ runQueue' = Append(runQueue, target[k])
  /\ Goto(k, "signal")
  /\ UNCHANGED <<sched, ops, connectionVars, attached, ready, running, wheel,
                 workerVars, kind, target, answer>>

\* Worker::queueConnection after the lock, and the same line of Worker::stop.
SignalReady(k) ==
  /\ at[k] = "signal"
  /\ ready' = TRUE
  /\ Goto(k, IF kind[k] = "stop" THEN "join" ELSE AfterQueueing(k))
  /\ UNCHANGED <<sched, ops, connectionVars, attached, runQueue, running, wheel,
                 workerVars, kind, target, answer>>

\* Completion::wait returned the answer.
WaitAnswered(k) ==
  /\ at[k] = "wait" /\ answer[k] # "none"
  /\ Goto(k, IF kind[k] = "close" \/ answer[k] = "error" THEN "detach" ELSE "done")
  /\ UNCHANGED <<sched, ops, connectionVars, attached, runQueue, ready, running,
                 wheel, workerVars, kind, target, answer>>

\* Completion::wait timed out: the caller gives up, its operation stays queued.
WaitTimedOut(k) ==
  /\ at[k] = "wait" /\ answer[k] = "none"
  /\ Goto(k, "detach")
  /\ UNCHANGED <<sched, ops, connectionVars, attached, runQueue, ready, running,
                 wheel, workerVars, kind, target, answer>>

\* JuiceBinding::detach: waits for a sink callback under the agent's lock.
Detach(k) ==
  /\ at[k] = "detach"
  /\ ~InSink(target[k])
  /\ attached' = [attached EXCEPT ![target[k]] = FALSE]
  /\ Goto(k, "done")
  /\ UNCHANGED <<sched, ops, connectionVars, runQueue, ready, running, wheel,
                 workerVars, kind, target, answer>>

\* Mutant: stop() joins without waking the Worker.
StopWithoutSignal(k) ==
  /\ at[k] = "new" /\ kind[k] = "stop"
  /\ running' = FALSE
  /\ Goto(k, IF running THEN "join" ELSE "done")
  /\ UNCHANGED <<sched, ops, connectionVars, attached, runQueue, ready, wheel,
                 workerVars, kind, target, answer>>

\* Worker::stop: only the first caller signals and joins.
StopWorker(k) ==
  /\ at[k] = "new" /\ kind[k] = "stop"
  /\ running' = FALSE
  /\ Goto(k, IF running THEN "signal" ELSE "done")
  /\ UNCHANGED <<sched, ops, connectionVars, attached, runQueue, ready, wheel,
                 workerVars, kind, target, answer>>

JoinWorker(k) ==
  /\ at[k] = "join" /\ wpc = "exited"
  /\ Goto(k, "done")
  /\ UNCHANGED <<sched, ops, connectionVars, attached, runQueue, ready, running,
                 wheel, workerVars, kind, target, answer>>

InvokeStep(k) == BeginStart(k) \/ BeginSend(k) \/ BeginClose(k) \/ BeginReceive(k)
                   \/ BeginRead(k) \/ StopWorker(k)
CallStep(k) ==
  \/ Attach(k) \/ AppendDatagram(k) \/ CheckStopped(k) \/ PushOperation(k)
  \/ ScheduleIfIdle(k) \/ QueueConnection(k) \/ SignalReady(k)
  \/ WaitAnswered(k) \/ Detach(k) \/ JoinWorker(k)

-----------------------------------------------------------------------------
(* The Worker thread.                                                       *)

\* Worker::run at the top of its loop: running_, and the timers that are due.
\* Time is abstract: any entry of the wheel may be due.
LoopTop ==
  /\ wpc = "loop"
  /\ IF ~running
       THEN wpc' = "exitDrain" /\ UNCHANGED <<wheel, expired>>
       ELSE \E due \in SUBSET wheel :
              /\ wheel' = wheel \ due
              /\ expired' = due
              /\ wpc' = IF due = {} THEN "pop" ELSE "timers"
  /\ UNCHANGED <<sched, ops, connectionVars, attached, runQueue, ready, running,
                 wconn, wop, processed, at, kind, target, answer>>

\* Connection::queueTimerExpired for one expired entry.  Only the Worker sets
\* stopped_, so its two checks are one.
QueueTimerExpired(c) ==
  /\ wpc = "timers" /\ c \in expired
  /\ expired' = expired \ {c}
  /\ wconn' = c
  /\ IF stopped[c]
       THEN UNCHANGED ops /\ wpc' = IF expired = {c} THEN "pop" ELSE "timers"
       ELSE ops' = [ops EXCEPT ![c] = Append(@, Internal("TimerExpired"))]
            /\ wpc' = "timerCas"
  /\ UNCHANGED <<sched, connectionVars, attached, runQueue, ready, running, wheel,
                 wop, processed, at, kind, target, answer>>

\* scheduleIfIdle and queueConnection by the Worker itself: only the Worker
\* takes from runQueue and waits for ready_, so no thread can come between.
ScheduleByWorker ==
  IF sched[wconn] = "Idle"
    THEN /\ sched' = [sched EXCEPT ![wconn] = "Queued"]
         /\ runQueue' = Append(runQueue, wconn)
         /\ ready' = TRUE
    ELSE UNCHANGED <<sched, runQueue, ready>>

ScheduleExpired ==
  /\ wpc = "timerCas"
  /\ ScheduleByWorker
  /\ wpc' = IF expired = {} THEN "pop" ELSE "timers"
  /\ UNCHANGED <<ops, connectionVars, attached, running, wheel, wconn, wop,
                 processed, expired, at, kind, target, answer>>

\* Mutant: the connection queued last is served first.
PopNewestConnection ==
  /\ wpc = "pop"
  /\ IF runQueue = <<>>
       THEN wpc' = "park" /\ UNCHANGED <<runQueue, wconn>>
       ELSE /\ wconn' = runQueue[Len(runQueue)]
            /\ runQueue' = SubSeq(runQueue, 1, Len(runQueue) - 1)
            /\ wpc' = "begin"
  /\ UNCHANGED <<sched, ops, connectionVars, attached, ready, running, wheel, wop,
                 processed, expired, at, kind, target, answer>>

\* Worker::popConnection.
PopConnection ==
  /\ wpc = "pop"
  /\ IF runQueue = <<>>
       THEN wpc' = "park" /\ UNCHANGED <<runQueue, wconn>>
       ELSE /\ wconn' = Head(runQueue)
            /\ runQueue' = Tail(runQueue)
            /\ wpc' = "begin"
  /\ UNCHANGED <<sched, ops, connectionVars, attached, ready, running, wheel, wop,
                 processed, expired, at, kind, target, answer>>

\* ready_.waitUntil(deadline): the event resets itself, and the deadline is
\* finite only while the wheel has an entry.
Park ==
  /\ wpc = "park"
  /\ ready \/ wheel # {}
  /\ ready' = FALSE
  /\ wpc' = "loop"
  /\ UNCHANGED <<sched, ops, connectionVars, attached, runQueue, running, wheel,
                 wconn, wop, processed, expired, at, kind, target, answer>>

\* Mutant: the connection stays Queued while it is processed.
BeginWithoutState ==
  /\ wpc = "begin"
  /\ processed' = 0
  /\ wpc' = "ops"
  /\ UNCHANGED <<sched, ops, connectionVars, attached, runQueue, ready, running, wheel,
                 wconn, wop, expired, at, kind, target, answer>>

BeginWorkerProcessing ==
  /\ wpc = "begin"
  /\ sched' = [sched EXCEPT ![wconn] = "Processing"]
  /\ processed' = 0
  /\ wpc' = "ops"
  /\ UNCHANGED <<ops, connectionVars, attached, runQueue, ready, running, wheel,
                 wconn, wop, expired, at, kind, target, answer>>

\* The head of the loop of Connection::processOperations.
PopOperation ==
  /\ wpc = "ops"
  /\ IF processed < Budget /\ ops[wconn] # <<>>
       THEN /\ wop' = Head(ops[wconn])
            /\ ops' = [ops EXCEPT ![wconn] = Tail(@)]
            /\ wpc' = "execute"
       ELSE wpc' = "rearm" /\ UNCHANGED <<wop, ops>>
  /\ UNCHANGED <<sched, connectionVars, attached, runQueue, ready, running, wheel,
                 wconn, processed, expired, at, kind, target, answer>>

\* An operation threw: processOperations goes to its catch block.
Throw ==
  /\ wpc' = "failError"
  /\ UNCHANGED <<ops, started, conn, flushing>>

\* queueSendFlush and queueStreamReceiveFlush for the types in F, with one
\* operation of each type at a time; the flag stays set when the operation is
\* refused because the connection has stopped.
QueueFlushes(pending, F) ==
  LET c == wconn
      fresh == F \ pending
      queued == IF stopped[c] THEN {} ELSE fresh
  IN /\ flushing' = [flushing EXCEPT ![c] = pending \cup F]
     /\ ops' = [ops EXCEPT ![c] =
          @ \o (IF "FlushStreamRecv" \in queued
                  THEN <<Internal("FlushStreamRecv")>> ELSE <<>>)
            \o (IF "FlushSend" \in queued THEN <<Internal("FlushSend")>> ELSE <<>>)]

\* Mutant: started_ is stored, not exchanged.
ProcessEveryStart ==
  /\ wpc = "execute" /\ wop.type = "APIStart"
  /\ started' = [started EXCEPT ![wconn] = TRUE]
  /\ conn' = [conn EXCEPT ![wconn] = @ \/ wconn \notin Server]
  /\ QueueFlushes(flushing[wconn], IF wconn \in Server THEN {} ELSE {"FlushSend"})
  /\ wpc' = "complete"
  /\ UNCHANGED <<sched, stopped, deadline, rxBatch, rxPending, appError, attached, runQueue,
                 ready, running, wheel, wconn, wop, processed, expired, at, kind,
                 target, answer>>

\* processStart: once only; a client creates its ngtcp2 connection, which may
\* fail.
ProcessStart ==
  /\ wpc = "execute" /\ wop.type = "APIStart"
  /\ started' = [started EXCEPT ![wconn] = TRUE]
  /\ \/ /\ started[wconn] \/ wconn \notin Server
        /\ wpc' = "failError"
        /\ UNCHANGED <<ops, conn, flushing>>
     \/ /\ ~started[wconn]
        /\ conn' = [conn EXCEPT ![wconn] = @ \/ wconn \notin Server]
        /\ QueueFlushes(flushing[wconn], IF wconn \in Server THEN {} ELSE {"FlushSend"})
        /\ wpc' = "complete"
  /\ UNCHANGED <<sched, stopped, deadline, rxBatch, rxPending, appError, attached, runQueue,
                 ready, running, wheel, wconn, wop, processed, expired, at, kind,
                 target, answer>>

\* processSend: throws without a connection, when the stream is finishing and
\* when no stream can be had.
ProcessSend ==
  /\ wpc = "execute" /\ wop.type = "APISend"
  /\ \/ Throw
     \/ /\ conn[wconn]
        /\ QueueFlushes(flushing[wconn], {"FlushSend"})
        /\ wpc' = "complete"
        /\ UNCHANGED <<started, conn>>
  /\ UNCHANGED <<sched, stopped, deadline, rxBatch, rxPending, appError, attached, runQueue,
                 ready, running, wheel, wconn, wop, processed, expired, at, kind,
                 target, answer>>

\* processReceive: take the batch, feed it, ask for a send flush.  A client that
\* has no connection throws, a server creates one from the first datagram; both
\* fail when ngtcp2 refuses the datagram.
ProcessReceive ==
  /\ wpc = "execute" /\ wop.type = "FlushRecv"
  /\ rxBatch' = [rxBatch EXCEPT ![wconn] = 0]
  /\ rxPending' = [rxPending EXCEPT ![wconn] = FALSE]
  /\ \/ /\ rxBatch[wconn] > 0
        /\ Throw
     \/ /\ rxBatch[wconn] > 0
        /\ conn[wconn] \/ wconn \in Server
        /\ conn' = [conn EXCEPT ![wconn] = TRUE]
        /\ \E delivered \in {{}, {"FlushStreamRecv"}} :
             QueueFlushes(flushing[wconn], delivered \cup {"FlushSend"})
        /\ wpc' = "recheckReceive"
        /\ UNCHANGED started
     \/ /\ rxBatch[wconn] = 0
        /\ wpc' = "recheckReceive"
        /\ UNCHANGED <<ops, started, conn, flushing>>
  /\ UNCHANGED <<sched, stopped, deadline, appError, attached, runQueue, ready, running,
                 wheel, wconn, wop, processed, expired, at, kind, target, answer>>

\* A batch that filled up again without a queued flush is queued here.
StrandedBatch(c) == rxBatch[c] > 0 /\ ~rxPending[c]

\* Mutant: receiveOperationPending_ is cleared when the batch is done.
RecheckClearsPending ==
  /\ wpc = "recheckReceive"
  /\ rxPending' = [rxPending EXCEPT ![wconn] = FALSE]
  /\ wpc' = "complete"
  /\ UNCHANGED <<sched, ops, started, stopped, conn, deadline, rxBatch, flushing, appError,
                 attached, runQueue, ready, running, wheel, wconn, wop, processed, expired,
                 at, kind, target, answer>>

\* processReceive, its second section under receiveMutex_.
RecheckReceive ==
  LET again == StrandedBatch(wconn) IN
  /\ wpc = "recheckReceive"
  /\ rxPending' = [rxPending EXCEPT ![wconn] = @ \/ again]
  /\ ops' = [ops EXCEPT ![wconn] =
               IF again /\ ~stopped[wconn] THEN Append(@, Internal("FlushRecv")) ELSE @]
  /\ wpc' = "complete"
  /\ UNCHANGED <<sched, started, stopped, conn, deadline, rxBatch, flushing, appError, attached,
                 runQueue, ready, running, wheel, wconn, wop, processed, expired, at,
                 kind, target, answer>>

\* processStreamReceive: publishes what the callbacks received (AppStream).
ProcessStreamReceive ==
  /\ wpc = "execute" /\ wop.type = "FlushStreamRecv"
  /\ flushing' = [flushing EXCEPT ![wconn] = @ \ {"FlushStreamRecv"}]
  /\ wpc' = "complete"
  /\ UNCHANGED <<sched, ops, started, stopped, conn, deadline, rxBatch, rxPending, appError,
                 attached, runQueue, ready, running, wheel, wconn, wop, processed,
                 expired, at, kind, target, answer>>

\* processSendFlush: nothing without a connection; otherwise it sends what ngtcp2
\* has, which may throw, and asks for another turn when it used up its packets,
\* which it can only send while attached.
ProcessSendFlush ==
  LET others == flushing[wconn] \ {"FlushSend"} IN
  /\ wpc = "execute" /\ wop.type = "FlushSend"
  /\ \/ /\ conn[wconn]
        /\ wpc' = "failError"
        /\ flushing' = [flushing EXCEPT ![wconn] = others]
        /\ UNCHANGED ops
     \/ \E again \in {{}, {"FlushSend"}} :
          /\ again # {} => conn[wconn] /\ attached[wconn]
          /\ QueueFlushes(others, again)
          /\ wpc' = "complete"
  /\ UNCHANGED <<sched, started, stopped, conn, deadline, rxBatch, rxPending, appError, attached,
                 runQueue, ready, running, wheel, wconn, wop, processed, expired, at,
                 kind, target, answer>>

\* processTimer: an idle timeout throws; an expiry that was due asks for a flush.
ProcessTimer ==
  /\ wpc = "execute" /\ wop.type = "TimerExpired"
  /\ \/ conn[wconn] /\ Throw
     \/ \E flush \in {{}, {"FlushSend"}} :
          /\ flush # {} => deadline[wconn]
          /\ QueueFlushes(flushing[wconn], flush)
          /\ wpc' = "complete"
          /\ UNCHANGED <<started, conn>>
  /\ UNCHANGED <<sched, stopped, deadline, rxBatch, rxPending, appError, attached, runQueue,
                 ready, running, wheel, wconn, wop, processed, expired, at, kind,
                 target, answer>>

\* processReleaseStreamReceiveCredit: with a connection and a stream of the peer's it
\* extends the peer's limits, which may throw, and asks for a flush to tell it.
ProcessReleaseStreamReceiveCredit ==
  /\ wpc = "execute" /\ wop.type = "ReleaseStreamRecvCredit"
  /\ \/ conn[wconn] /\ Throw
     \/ \E flush \in {{}, {"FlushSend"}} :
          /\ flush # {} => conn[wconn]
          /\ QueueFlushes(flushing[wconn], flush)
          /\ wpc' = "complete"
          /\ UNCHANGED <<started, conn>>
  /\ UNCHANGED <<sched, stopped, deadline, rxBatch, rxPending, appError, attached, runQueue,
                 ready, running, wheel, wconn, wop, processed, expired, at, kind,
                 target, answer>>

\* processShutdown.
ProcessShutdown ==
  /\ wpc = "execute" /\ wop.type = "Shutdown"
  /\ conn' = [conn EXCEPT ![wconn] = FALSE]
  /\ stopped' = [stopped EXCEPT ![wconn] = TRUE]
  /\ wpc' = "complete"
  /\ UNCHANGED <<sched, ops, started, deadline, rxBatch, rxPending, flushing, appError, attached,
                 runQueue, ready, running, wheel, wconn, wop, processed, expired, at,
                 kind, target, answer>>

\* completeOperation after a success, and the test of stopped_ that follows.
\* Here the model also settles which deadline the operation left behind: ngtcp2
\* has one while it waits for something, and a blocked send has its retry.
CompleteOperation ==
  /\ wpc = "complete"
  /\ \E finite \in BOOLEAN :
       deadline' = [deadline EXCEPT ![wconn] = finite /\ conn[wconn]]
  /\ answer' = Answered(wop.by, "ok")
  /\ processed' = processed + 1
  /\ wpc' = IF stopped[wconn] THEN "drain" ELSE "ops"
  /\ UNCHANGED <<sched, ops, started, stopped, conn, rxBatch, rxPending, flushing,
                 appError, attached, runQueue, ready, running, wheel,
                 wconn, wop, expired, at, kind, target>>

\* The catch block: answer, then setError ...
FailError ==
  /\ wpc = "failError"
  /\ answer' = Answered(wop.by, "error")
  /\ appError' = [appError EXCEPT ![wconn] = TRUE]
  /\ wpc' = "failStop"
  /\ UNCHANGED <<sched, ops, started, stopped, conn, deadline, rxBatch, rxPending, flushing,
                 attached, runQueue, ready, running, wheel, wconn, wop, processed,
                 expired, at, kind, target>>

\* ... then release the transport and stop.
FailStop ==
  /\ wpc = "failStop"
  /\ conn' = [conn EXCEPT ![wconn] = FALSE]
  /\ stopped' = [stopped EXCEPT ![wconn] = TRUE]
  /\ wpc' = "drain"
  /\ UNCHANGED <<sched, ops, started, deadline, rxBatch, rxPending, flushing, appError, attached,
                 runQueue, ready, running, wheel, wconn, wop, processed, expired, at,
                 kind, target, answer>>

\* Mutant: drained operations are dropped without an answer.
DrainSilently ==
  /\ wpc \in {"drain", "exitFail"}
  /\ ops' = [ops EXCEPT ![wconn] = <<>>]
  /\ wpc' = IF wpc = "drain" THEN "rearm" ELSE "exitDrain"
  /\ UNCHANGED <<sched, connectionVars, attached, runQueue, ready, running, wheel,
                 wconn, wop, processed, expired, at, kind, target, answer>>

\* drainFailedOperations, one operation at a time, then the end of
\* processOperations.
DrainOperation ==
  /\ wpc \in {"drain", "exitFail"}
  /\ IF ops[wconn] # <<>>
       THEN /\ answer' = Answered(Head(ops[wconn]).by, "error")
            /\ ops' = [ops EXCEPT ![wconn] = Tail(@)]
            /\ UNCHANGED wpc
       ELSE /\ wpc' = IF wpc = "drain" THEN "rearm" ELSE "exitDrain"
            /\ UNCHANGED <<answer, ops>>
  /\ UNCHANGED <<sched, connectionVars, attached, runQueue, ready, running, wheel,
                 wconn, wop, processed, expired, at, kind, target>>

\* Mutant: a connection that used up its budget is not re-armed.
UpdateTimerWithinBudget ==
  /\ wpc = "rearm"
  /\ wheel' = IF ~stopped[wconn] /\ deadline[wconn] /\ processed < Budget
                THEN wheel \cup {wconn} ELSE wheel \ {wconn}
  /\ wpc' = "finish"
  /\ UNCHANGED <<sched, ops, connectionVars, attached, runQueue, ready, running, wconn,
                 wop, processed, expired, at, kind, target, answer>>

\* Worker::run: a stopped connection leaves the wheel, and so does one whose
\* expiry is infinite; another is entered with its expiry.
UpdateTimer ==
  /\ wpc = "rearm"
  /\ wheel' = IF ~stopped[wconn] /\ deadline[wconn] THEN wheel \cup {wconn}
                                               ELSE wheel \ {wconn}
  /\ wpc' = "finish"
  /\ UNCHANGED <<sched, ops, connectionVars, attached, runQueue, ready, running, wconn,
                 wop, processed, expired, at, kind, target, answer>>

\* finishWorkerProcessing: Idle first, then look at the mailbox again.
FinishWorkerProcessing ==
  /\ wpc = "finish"
  /\ sched' = [sched EXCEPT ![wconn] = "Idle"]
  /\ wpc' = "recheck"
  /\ UNCHANGED <<ops, connectionVars, attached, runQueue, ready, running, wheel, wconn,
                 wop, processed, expired, at, kind, target, answer>>

\* Mutant: no second look at the mailbox.
RecheckNothing ==
  /\ wpc = "recheck"
  /\ wpc' = "loop"
  /\ UNCHANGED <<sched, ops, connectionVars, attached, runQueue, ready, running, wheel,
                 wconn, wop, processed, expired, at, kind, target, answer>>

RecheckOperations ==
  /\ wpc = "recheck"
  /\ IF ops[wconn] # <<>> THEN ScheduleByWorker ELSE UNCHANGED <<sched, runQueue, ready>>
  /\ wpc' = "loop"
  /\ UNCHANGED <<ops, connectionVars, attached, running, wheel, wconn, wop, processed,
                 expired, at, kind, target, answer>>

\* Worker::run after its loop: failFromRuntime for each connection still queued.
FailQueued ==
  /\ wpc = "exitDrain"
  /\ IF runQueue = <<>>
       THEN wpc' = "exited" /\ UNCHANGED <<runQueue, wconn, appError, conn, stopped>>
       ELSE LET c == Head(runQueue) IN
            /\ wconn' = c
            /\ runQueue' = Tail(runQueue)
            /\ appError' = [appError EXCEPT ![c] = TRUE]
            /\ conn' = [conn EXCEPT ![c] = FALSE]
            /\ stopped' = [stopped EXCEPT ![c] = TRUE]
            /\ wpc' = "exitFail"
  /\ UNCHANGED <<sched, ops, started, deadline, rxBatch, rxPending, flushing, attached, ready,
                 running, wheel, wop, processed, expired, at, kind, target, answer>>

Execute ==
  \/ ProcessStart \/ ProcessSend \/ ProcessReceive \/ ProcessStreamReceive
  \/ ProcessSendFlush \/ ProcessTimer \/ ProcessShutdown \/ ProcessReleaseStreamReceiveCredit

WorkerStep ==
  \/ LoopTop \/ (\E c \in Connection : QueueTimerExpired(c)) \/ ScheduleExpired
  \/ PopConnection \/ Park \/ BeginWorkerProcessing \/ PopOperation
  \/ Execute \/ RecheckReceive \/ CompleteOperation \/ FailError \/ FailStop
  \/ DrainOperation \/ UpdateTimer \/ FinishWorkerProcessing \/ RecheckOperations
  \/ FailQueued

Next ==
  \/ \E k \in Call : InvokeStep(k) \/ CallStep(k) \/ WaitTimedOut(k)
  \/ WorkerStep

Spec == Init /\ [][Next]_vars

\* The operating system runs every thread: a call that was made goes on, and so
\* does the Worker (a finite deadline passes).  Nobody has to make a call, and
\* no wait has to time out.
Fairness == WF_vars(WorkerStep) /\ \A k \in Call : WF_vars(CallStep(k))
FairSpec == Spec /\ Fairness

-----------------------------------------------------------------------------
(* Properties.                                                              *)

Exiting == wpc \in ExitPC
InRunQueue(c) == \E i \in DOMAIN runQueue : runQueue[i] = c
Enqueuing(k) == at[k] = "enqueue"

\* A connection is queued for its Worker at most once, and never while it is
\* idle or being processed (scheduleState_, Connection.cpp:904): whoever moved
\* it to Queued is the only one that may put it into connections_.
ScheduledOnce ==
  /\ \A i, j \in DOMAIN runQueue : runQueue[i] = runQueue[j] => i = j
  /\ \A k \in Call : Enqueuing(k) => ~InRunQueue(target[k])
  /\ \A c \in Connection : InRunQueue(c) => sched[c] = "Queued"

\* No wakeup is lost between the Worker going Idle and a producer that found it
\* Processing (finishWorkerProcessing, Connection.cpp:828): an idle connection
\* with operations has somebody about to schedule it, and a queued one is on
\* its way to the Worker.
NoLostWakeup ==
  \A c \in Connection :
    /\ ops[c] # <<>> /\ sched[c] = "Idle" =>
         \/ \E k \in Call : at[k] = "cas" /\ target[k] = c
         \/ wpc \in {"recheck", "timerCas"} /\ wconn = c
    /\ sched[c] = "Queued" /\ ~Exiting =>
         \/ InRunQueue(c)
         \/ \E k \in Call : Enqueuing(k) /\ target[k] = c
         \/ wpc = "begin" /\ wconn = c

\* The Worker never sleeps on work (queueConnection, Worker.cpp:64): while it
\* waits for ready_ with a connection queued, ready_ is set or about to be.
WorkerAwake ==
  wpc = "park" /\ runQueue # <<>> => ready \/ \E k \in Call : at[k] = "signal"

\* The inductive invariant behind the three: scheduleState_ says who holds the
\* connection, one producer on its way into connections_, connections_ itself or
\* the Worker, and the Worker holds at most one.
SchedulingInv ==
  /\ ScheduledOnce /\ NoLostWakeup /\ WorkerAwake
  /\ \A k \in Call : Enqueuing(k) => sched[target[k]] = "Queued"
  /\ \A k, l \in Call : Enqueuing(k) /\ Enqueuing(l) /\ target[k] = target[l] => k = l
  /\ wpc = "begin" =>
       /\ sched[wconn] = "Queued" /\ ~InRunQueue(wconn)
       /\ \A k \in Call : Enqueuing(k) => target[k] # wconn
  /\ \A c \in Connection :
       sched[c] = "Processing" <=> (wpc \in ProcessingPC /\ wconn = c)

\* A call that waits for its Completion has its operation somewhere: in the
\* mailbox or in the hands of the Worker (Operation.cpp:39).  So an operation
\* that slipped past the check of stopped_ is answered as well.
NoStrandedCall ==
  \A k \in Call : at[k] = "wait" /\ answer[k] = "none" =>
    \/ \E i \in DOMAIN ops[target[k]] : ops[target[k]][i].by = k
    \/ wop.by = k /\ wpc \in {"execute", "recheckReceive", "complete", "failError"}

\* Datagrams are not left behind (queueReceive, Connection.cpp:760): while the
\* connection runs, a batch that holds datagrams has receiveOperationPending_
\* set and a FlushRecv that is queued, about to be queued or about to run.
ReceiveNotStranded ==
  \A c \in Connection : rxBatch[c] > 0 /\ ~stopped[c] =>
    /\ rxPending[c]
    /\ \/ \E i \in DOMAIN ops[c] : ops[c][i].type = "FlushRecv"
       \/ \E k \in Call : kind[k] = "receive" /\ target[k] = c /\ at[k] \in {"check", "push"}
       \/ wconn = c /\ wpc = "execute" /\ wop.type = "FlushRecv"
       \/ wconn = c /\ wpc \in {"failError", "failStop"}

\* No timer is lost (Worker.cpp:130 and 169): a running connection that waits
\* for a deadline is in the timer wheel, or its expiry is being
\* queued or waits in the mailbox, or the Worker is on it and will re-arm it.
TimerCovered ==
  \A c \in Connection : deadline[c] /\ ~stopped[c] =>
    \/ c \in wheel
    \/ c \in expired
    \/ \E i \in DOMAIN ops[c] : ops[c][i].type = "TimerExpired"
    \/ wconn = c /\ wpc \in ProcessingPC

\* start() succeeds for at most one caller (processStart, Connection.cpp:984),
\* whoever attached, timed out, closed or detached in between.
OneStartSucceeds ==
  \A k, l \in Call :
    /\ kind[k] = "start" /\ kind[l] = "start" /\ target[k] = target[l]
    /\ answer[k] = "ok" /\ answer[l] = "ok"
    => k = l

\* Every call that was made returns, without help from a timeout
\* (Connection.cpp:562, 592, 622, 760), unless the Worker is stopped: an
\* operation queued behind its exit is waited for until the timeout.
CallsReturn == \A k \in Call : (at[k] # "new") ~> (at[k] = "done" \/ ~running)

\* Worker::stop joins: the Worker notices running_ wherever it is
\* (Worker.cpp:56).
StopJoins == \A k \in Call : (at[k] = "join") ~> (at[k] = "done")

\* The runtime keeps the promise of Mailbox.
WorkingPC == {"execute", "recheckReceive", "complete", "failError"}
Nothing == [on |-> NoCall]
Promise == INSTANCE Mailbox WITH
  inbox <- ops,
  closed <- stopped,
  Idle <- Nothing,
  current <- IF wpc \in WorkingPC THEN [on |-> wconn, op |-> wop] ELSE Nothing

KeepsOrder == Promise!Spec

\* ... and serves every connection in its turn while the Worker is not stopped
\* (Worker.cpp:85, Connection.cpp:877).
KeepsServing == []running => Promise!Fairness
=============================================================================
