---------------------------- MODULE StreamReceive ----------------------------
(***************************************************************************)
(* The receiving direction of a QUIC stream: from the packets the peer sends,*)
(* through the Worker's batch and the batch the application reads, to the    *)
(* bytes that QUICStream.receive returns, and the flow-control credit that   *)
(* goes back to the peer for what the application took.                      *)
(*                                                                           *)
(* Three parties run concurrently.  The peer (external) sends in order and   *)
(* within the credit it knows of.  The Worker of the connection executes one *)
(* operation at a time from the connection's queue, which is ConnectionRun-  *)
(* time's and is a plain sequence here.  The reader is the Python thread in  *)
(* QUICStream.iterReceive; each of its native calls is a step, and taking    *)
(* data (takeReceivedStreamData) is several, because it swaps the batch      *)
(* under appMutex_, counts the bytes atomically and then queues an operation.*)
(*                                                                           *)
(* A byte is its position in the stream, so an order or a loss is visible in *)
(* what the reader was handed.                                               *)
(***************************************************************************)
EXTENDS Naturals, Sequences

CONSTANTS
  StreamWindow,  \* kInitialMaxStreamData
  DataWindow,    \* kInitialMaxData
  StreamLength   \* how many bytes the peer has to send

ASSUME WindowAssumption ==
  /\ StreamWindow \in Nat \ {0}
  /\ DataWindow \in Nat \ {0}
  /\ StreamLength \in Nat

VARIABLES
  rxOffset,      \* bytes that arrived (ProtocolState::rxOffset)
  rxFinished,    \* the FIN arrived (ProtocolState::peerFinished)
  peerCredit,    \* the limits the peer knows of
  granted,       \* the limits ngtcp2 has on this side
  advertised,    \* the limits in the last packet that carried them
  operations,    \* the operations queued for the connection
  flushPending,  \* streamReceiveOperationPending_
  sendPending,   \* sendOperationPending_
  workerBatch,   \* streamReceiveBatch_
  finPending,    \* peerFinishedPending_
  releasable,    \* releasableStreamReceiveBytes_
  stopped,       \* the connection failed: stopped_ and appError_ are set
  appBatch,      \* appReceiveBatch_
  appFinished,   \* appPeerFinished_
  pc,            \* where the reader is
  held,          \* what the reader took in this call of receive
  delivered      \* what receive has returned so far

peerVars == <<rxOffset, rxFinished, peerCredit>>
creditVars == <<granted, advertised>>
workerVars == <<flushPending, sendPending, workerBatch, finPending, stopped>>
appVars == <<appBatch, appFinished>>
readerVars == <<pc, held, delivered>>
vars == <<peerVars, creditVars, operations, releasable, workerVars, appVars, readerVars>>

Credit == [stream : Nat, data : Nat]
InitialCredit == [stream |-> StreamWindow, data |-> DataWindow]

\* The bytes after the first a, up to the b-th.
Bytes(a, b) == [i \in 1..(b - a) |-> a + i]

Init ==
  /\ rxOffset = 0
  /\ rxFinished = FALSE
  /\ peerCredit = InitialCredit
  /\ granted = InitialCredit
  /\ advertised = InitialCredit
  /\ operations = <<>>
  /\ flushPending = FALSE
  /\ sendPending = FALSE
  /\ workerBatch = <<>>
  /\ finPending = FALSE
  /\ releasable = 0
  /\ stopped = FALSE
  /\ appBatch = <<>>
  /\ appFinished = FALSE
  /\ pc = "read"
  /\ held = <<>>
  /\ delivered = <<>>

(***************************************************************************)
(* The Worker.                                                               *)
(***************************************************************************)

\* queueStreamReceiveFlush and queueSendFlush: one operation at a time.
QueueUnless(pending, type) ==
  operations' = IF pending THEN operations ELSE Append(operations, type)

\* MUTANT of ReceiveStreamData: credit follows arrival, not consumption.
ReceiveWithCredit ==
  /\ ~stopped
  /\ ~rxFinished
  /\ \E upTo \in rxOffset..StreamLength, fin \in BOOLEAN :
       /\ upTo <= peerCredit.stream
       /\ upTo <= peerCredit.data
       /\ fin => upTo = StreamLength
       /\ upTo > rxOffset \/ fin
       /\ workerBatch' = workerBatch \o Bytes(rxOffset, upTo)
       /\ rxOffset' = upTo
       /\ rxFinished' = fin
       /\ finPending' = (finPending \/ fin)
       /\ granted' = [stream |-> upTo + StreamWindow, data |-> upTo + DataWindow]
       /\ peerCredit' = [stream |-> upTo + StreamWindow, data |-> upTo + DataWindow]
  /\ QueueUnless(flushPending, "FlushStreamRecv")
  /\ flushPending' = TRUE
  /\ UNCHANGED <<advertised, sendPending, releasable, stopped, appVars, readerVars>>

\* The peer's next bytes, as far as its credit goes, and possibly its FIN;
\* ngtcp2 hands them on in order, within the operation that read the packet.
ReceiveStreamData ==
  /\ ~stopped
  /\ ~rxFinished
  /\ \E upTo \in rxOffset..StreamLength, fin \in BOOLEAN :
       /\ upTo <= peerCredit.stream
       /\ upTo <= peerCredit.data
       /\ fin => upTo = StreamLength
       /\ upTo > rxOffset \/ fin
       /\ workerBatch' = workerBatch \o Bytes(rxOffset, upTo)
       /\ rxOffset' = upTo
       /\ rxFinished' = fin
       /\ finPending' = (finPending \/ fin)
  /\ QueueUnless(flushPending, "FlushStreamRecv")
  /\ flushPending' = TRUE
  /\ UNCHANGED <<peerCredit, creditVars, sendPending, releasable, stopped, appVars, readerVars>>

\* The Worker executes the first operation queued.
Begin(type) ==
  /\ operations # <<>>
  /\ Head(operations) = type

\* MUTANT of ProcessStreamReceive: the flag stays set.
FlushKeepingFlag ==
  /\ Begin("FlushStreamRecv")
  /\ operations' = Tail(operations)
  /\ workerBatch' = <<>>
  /\ finPending' = FALSE
  /\ appBatch' = appBatch \o workerBatch
  /\ appFinished' = (appFinished \/ finPending)
  /\ UNCHANGED <<peerVars, creditVars, flushPending, sendPending, releasable, stopped, readerVars>>

\* MUTANT of ProcessStreamReceive: the new batch goes before what was not read.
FlushInFront ==
  /\ Begin("FlushStreamRecv")
  /\ operations' = Tail(operations)
  /\ flushPending' = FALSE
  /\ workerBatch' = <<>>
  /\ finPending' = FALSE
  /\ appBatch' = workerBatch \o appBatch
  /\ appFinished' = (appFinished \/ finPending)
  /\ UNCHANGED <<peerVars, creditVars, sendPending, releasable, stopped, readerVars>>

\* FlushStreamRecv: the batch and the FIN become visible in one critical section.
ProcessStreamReceive ==
  /\ Begin("FlushStreamRecv")
  /\ operations' = Tail(operations)
  /\ flushPending' = FALSE
  /\ workerBatch' = <<>>
  /\ finPending' = FALSE
  /\ appBatch' = appBatch \o workerBatch
  /\ appFinished' = (appFinished \/ finPending)
  /\ UNCHANGED <<peerVars, creditVars, sendPending, releasable, stopped, readerVars>>

\* MUTANT of Extend: the connection's credit is forgotten.
ExtendStreamOnly(credit, n) == [credit EXCEPT !.stream = @ + n]

Extend(credit, n) == [stream |-> credit.stream + n, data |-> credit.data + n]

\* MUTANT of ProcessReleaseStreamReceiveCredit: nothing is sent for it.
ReleaseSilently ==
  /\ Begin("ReleaseStreamRecvCredit")
  /\ operations' = Tail(operations)
  /\ releasable' = 0
  /\ granted' = IF stopped THEN granted ELSE Extend(granted, releasable)
  /\ UNCHANGED <<peerVars, advertised, sendPending, flushPending, workerBatch, finPending, stopped,
                 appVars, readerVars>>

\* ReleaseStreamRecvCredit: everything counted since the last time, at once.
ProcessReleaseStreamReceiveCredit ==
  /\ Begin("ReleaseStreamRecvCredit")
  /\ releasable' = 0
  /\ IF releasable = 0 \/ stopped
       THEN /\ operations' = Tail(operations)
            /\ UNCHANGED <<granted, sendPending>>
       ELSE /\ granted' = Extend(granted, releasable)
            /\ operations' = IF sendPending THEN Tail(operations)
                                            ELSE Append(Tail(operations), "FlushSend")
            /\ sendPending' = TRUE
  /\ UNCHANGED <<peerVars, advertised, flushPending, workerBatch, finPending, stopped,
                 appVars, readerVars>>

\* FlushSend: the packets that leave carry the limits of this side.
ProcessSendFlush ==
  /\ Begin("FlushSend")
  /\ operations' = Tail(operations)
  /\ sendPending' = FALSE
  /\ advertised' = granted
  /\ UNCHANGED <<peerVars, granted, releasable, flushPending, workerBatch, finPending, stopped,
                 appVars, readerVars>>

\* An operation throws, or the transport fails: the connection is dropped with
\* the error recorded, and what is queued is thrown away.
Fail ==
  /\ ~stopped
  /\ stopped' = TRUE
  /\ operations' = <<>>
  /\ UNCHANGED <<peerVars, creditVars, releasable, flushPending, sendPending, workerBatch,
                 finPending, appVars, readerVars>>

\* The limits reach the peer; a lost packet is sent again by ngtcp2.
PeerLearnsCredit ==
  /\ peerCredit # advertised
  /\ ~stopped
  /\ peerCredit' = advertised
  /\ UNCHANGED <<rxOffset, rxFinished, creditVars, operations, releasable, workerVars, appVars,
                 readerVars>>

(***************************************************************************)
(* The reader: QUICStream.iterReceive calls receive until it returns nothing.*)
(***************************************************************************)

Return(data) ==
  /\ delivered' = delivered \o data
  /\ held' = <<>>
  /\ pc' = "read"

\* session.read: the batch is swapped out under appMutex_.
Take(ifEmpty) ==
  /\ appBatch' = <<>>
  /\ held' = appBatch
  /\ pc' = IF appBatch = <<>> THEN ifEmpty ELSE "count"
  /\ UNCHANGED <<peerVars, creditVars, operations, releasable, workerVars, appFinished, delivered>>

Read == pc = "read" /\ Take("askFinished")

\* ... and again when the FIN is visible: only now is "nothing" the end.
ReadAgain == pc = "readAgain" /\ Take("ended")

\* session.peerFinished.
AskFinished ==
  /\ pc = "askFinished"
  /\ pc' = IF appFinished THEN "readAgain" ELSE "wait"
  /\ UNCHANGED <<peerVars, creditVars, operations, releasable, workerVars, appVars, held, delivered>>

\* session.wait returns after a change or after 50 ms.
Wait ==
  /\ pc = "wait"
  /\ pc' = "checkError"
  /\ UNCHANGED <<peerVars, creditVars, operations, releasable, workerVars, appVars, held, delivered>>

\* The deadline of receive passed.
TimeOut ==
  /\ pc = "wait"
  /\ pc' = "timedOut"
  /\ UNCHANGED <<peerVars, creditVars, operations, releasable, workerVars, appVars, held, delivered>>

CheckError ==
  /\ pc = "checkError"
  /\ pc' = IF stopped THEN "failed" ELSE "read"
  /\ UNCHANGED <<peerVars, creditVars, operations, releasable, workerVars, appVars, held, delivered>>

\* The first count since the Worker last released credit schedules it.
CountTaken ==
  /\ pc = "count"
  /\ releasable' = releasable + Len(held)
  /\ IF releasable = 0
       THEN pc' = "checkStopped" /\ UNCHANGED <<held, delivered>>
       ELSE Return(held)
  /\ UNCHANGED <<peerVars, creditVars, operations, workerVars, appVars>>

\* queueOperation refuses on a stopped connection, and otherwise pushes.
CheckStopped ==
  /\ pc = "checkStopped"
  /\ IF stopped THEN Return(held) ELSE pc' = "push" /\ UNCHANGED <<held, delivered>>
  /\ UNCHANGED <<peerVars, creditVars, operations, releasable, workerVars, appVars>>

PushRelease ==
  /\ pc = "push"
  /\ operations' = Append(operations, "ReleaseStreamRecvCredit")
  /\ Return(held)
  /\ UNCHANGED <<peerVars, creditVars, releasable, workerVars, appVars>>

ReaderStep ==
  \/ Read \/ ReadAgain \/ AskFinished \/ Wait \/ CheckError
  \/ CountTaken \/ CheckStopped \/ PushRelease

WorkerStep == ProcessStreamReceive \/ ProcessReleaseStreamReceiveCredit \/ ProcessSendFlush

PeerStep == ReceiveStreamData \/ PeerLearnsCredit

Next == PeerStep \/ WorkerStep \/ Fail \/ ReaderStep \/ TimeOut

Spec == Init /\ [][Next]_vars

\* The Worker executes what is queued, the program keeps reading, and the
\* peer keeps sending and is told of its credit; failures and deadlines may
\* or may not happen.
FairSpec ==
  /\ Spec
  /\ WF_vars(WorkerStep)
  /\ WF_vars(ReaderStep)
  /\ WF_vars(ReceiveStreamData)
  /\ WF_vars(PeerLearnsCredit)

(***************************************************************************)
(* Properties.                                                               *)
(***************************************************************************)

OperationType == {"FlushStreamRecv", "ReleaseStreamRecvCredit", "FlushSend"}

Queued(type) == \E i \in DOMAIN operations : operations[i] = type

\* Every variable has its type, and an operation is queued at most once: the
\* two pending flags and the counter that was zero keep duplicates out.
TypeOK ==
  /\ rxOffset \in 0..StreamLength
  /\ rxFinished \in BOOLEAN
  /\ {peerCredit, granted, advertised} \subseteq Credit
  /\ operations \in Seq(OperationType)
  /\ \A i, j \in DOMAIN operations : operations[i] = operations[j] => i = j
  /\ {flushPending, sendPending, finPending, stopped, appFinished} \subseteq BOOLEAN
  /\ releasable \in Nat
  /\ {workerBatch, appBatch, held, delivered} \subseteq Seq(1..StreamLength)
  /\ pc \in {"read", "readAgain", "askFinished", "wait", "checkError", "count", "checkStopped",
             "push", "ended", "failed", "timedOut"}

\* What the reader took and has not counted yet.
Uncounted == IF pc = "count" THEN Len(held) ELSE 0

\* What is queued in the receiver, in the Worker's batch, in the application's
\* and in the hands of a reader who has not counted it, is at most the window,
\* however fast the sender and however slow the reader (the comment in
\* receiveStreamDataCallback, and QUICFlowControlTest).
UnreadWithinWindow == Len(workerBatch) + Len(appBatch) + Uncounted <= StreamWindow

\* Credit is neither lost nor invented: as long as the connection lives, both
\* limits are their window plus what was taken, less what waits to be released.
CreditConserved ==
  ~stopped =>
    LET released == rxOffset - (Len(workerBatch) + Len(appBatch) + Uncounted + releasable)
    IN granted = [stream |-> StreamWindow + released, data |-> DataWindow + released]

\* Credit waiting to be released has an operation that will release it, or a
\* reader on its way to queue one.
CreditQueued ==
  releasable > 0 =>
    stopped \/ Queued("ReleaseStreamRecvCredit") \/ pc \in {"checkStopped", "push"}

\* Data and FIN waiting to be published have an operation that will publish
\* them, and new limits one that will send them.
WorkQueued ==
  ~stopped =>
    /\ workerBatch # <<>> \/ finPending => Queued("FlushStreamRecv")
    /\ granted # advertised => Queued("FlushSend")

\* A sender that is out of credit is never left there: something that leads to
\* more credit is still to be done, by the program (reading, or finishing its
\* read), by the Worker or by the network.
NoStall ==
  ~stopped /\ (rxOffset = peerCredit.stream \/ rxOffset = peerCredit.data) =>
    \/ operations # <<>>
    \/ appBatch # <<>>
    \/ pc \in {"count", "checkStopped", "push"}
    \/ advertised # peerCredit

\* The program is told that the stream ended only when it was handed every byte
\* the peer sent before its FIN, although data and FIN are read by separate calls.
NoFalseEnd == pc = "ended" => rxFinished /\ delivered = Bytes(0, rxOffset)

\* A program that keeps reading comes to the end of the stream, or is told
\* that the connection failed or that its deadline passed.
StreamEnds == <>(pc \in {"ended", "failed", "timedOut"})

Stream == INSTANCE ByteStream WITH
  sent <- Bytes(0, rxOffset),
  finished <- rxFinished,
  received <- delivered,
  status <- IF pc \in {"ended", "failed", "timedOut"} THEN pc ELSE "open"

\* The receive path implements the byte stream it promises.
StreamImplemented == Stream!Spec
=============================================================================
