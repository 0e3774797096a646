------------------------------ MODULE WriteFlow ------------------------------
(***************************************************************************)
(* The sending direction of a QUIC stream: a Python writer that is held back *)
(* by the watermarks of QUICWriteFlowController, the chunks the Worker keeps *)
(* for ngtcp2 until they are acknowledged, the FIN, and the two offsets the  *)
(* writer compares to learn that everything was acknowledged.                *)
(*                                                                           *)
(* The writer makes one native call at a time (a step each).  The Worker     *)
(* executes one operation at a time.  The network and ngtcp2 are external:   *)
(* a STREAM frame that was written is acknowledged some time later, in any   *)
(* order, and lost frames are sent again, so a frame stays outstanding until *)
(* it is acknowledged.  A flush writes one packet (kMaxPacketsPerFlush = 1): *)
(* then the budget is exhausted and the flush queues the next one, as it     *)
(* does after 512 in the program.                                            *)
(***************************************************************************)
EXTENDS Naturals, Sequences, FiniteSetsExt

CONSTANTS
  Total,          \* how many bytes the writer may write
  MaxWrite,       \* the longest single write
  HighWatermark,  \* QUICWriteFlowConfiguration.highWatermarkBytes
  InitialCredit   \* what the peer lets the stream send at first

ASSUME WriteAssumption ==
  /\ Total \in Nat
  /\ MaxWrite \in Nat \ {0}
  /\ HighWatermark \in Nat \ {0}
  /\ InitialCredit \in Nat

LowWatermark == Max({1, HighWatermark \div 2})

VARIABLES
  wpc,           \* where the writer is
  writing,       \* the write in progress: its size, and whether it ends the stream
  buffered,      \* bufferedWriteBytes as the writer last read it
  appOffset,     \* applicationWriteOffset_
  appFin,        \* applicationFinRequested_
  operations,    \* the operations queued for the connection
  sendPending,   \* sendOperationPending_
  chunks,        \* ProtocolState::txChunks
  txNext,        \* txNextOffset
  txSubmitted,   \* txSubmittedOffset
  txAcked,       \* txAckedOffset
  finRequested,  \* txFinRequested
  finSubmitted,  \* txFinSubmitted
  finAcked,      \* txFinAcked
  streamClosed,  \* streamClosed
  stopped,       \* stopped_ and appError_ are set, the ngtcp2 connection is gone
  pubAcked,      \* appAckedWriteOffset_
  pubFinAcked,   \* appFinAcked_
  pubClosed,     \* appStreamClosed_
  frames,        \* STREAM frames sent and not acknowledged (external)
  credit         \* the stream limit the peer gave (external)

writerVars == <<wpc, writing, buffered, appOffset, appFin>>
offsetVars == <<chunks, txNext, txSubmitted, txAcked>>
finVars == <<finRequested, finSubmitted, finAcked, streamClosed>>
pubVars == <<pubAcked, pubFinAcked, pubClosed>>
externalVars == <<frames, credit>>
vars == <<writerVars, operations, sendPending, offsetVars, finVars, stopped, pubVars, externalVars>>

Send(write) == [type |-> "APISend", size |-> write.size, fin |-> write.fin]
Flush == [type |-> "FlushSend", size |-> 0, fin |-> FALSE]

Init ==
  /\ wpc = "idle"
  /\ writing = [size |-> 0, fin |-> FALSE]
  /\ buffered = 0
  /\ appOffset = 0
  /\ appFin = FALSE
  /\ operations = <<>>
  /\ sendPending = FALSE
  /\ chunks = <<>>
  /\ txNext = 0
  /\ txSubmitted = 0
  /\ txAcked = 0
  /\ finRequested = FALSE
  /\ finSubmitted = FALSE
  /\ finAcked = FALSE
  /\ streamClosed = FALSE
  /\ stopped = FALSE
  /\ pubAcked = 0
  /\ pubFinAcked = FALSE
  /\ pubClosed = FALSE
  /\ frames = {}
  /\ credit = InitialCredit

(***************************************************************************)
(* The writer.                                                               *)
(***************************************************************************)

Goto(label) == wpc' = label

\* getBufferedWriteBytes.
BufferedWriteBytes == IF appOffset >= pubAcked THEN appOffset - pubAcked ELSE 0

\* mutant: the size of the write is forgotten.
HasCapacityNow(inFlight, size) == inFlight <= HighWatermark

\* QUICWriteFlowController._hasCapacity.
HasCapacity(inFlight, size) ==
  \/ inFlight = 0 /\ size > HighWatermark
  \/ inFlight + size <= HighWatermark

\* The program calls send with some bytes, which may be its last ...
BeginWrite ==
  /\ wpc = "idle"
  /\ \E size \in 1..MaxWrite, fin \in BOOLEAN :
       appOffset + size <= Total /\ writing' = [size |-> size, fin |-> fin]
  /\ Goto("measure")
  /\ UNCHANGED <<buffered, appOffset, appFin, operations, sendPending, offsetVars, finVars, stopped,
                 pubVars, externalVars>>

\* ... or with none, to end the stream; an empty write does not wait.
BeginFinish ==
  /\ wpc = "idle"
  /\ writing' = [size |-> 0, fin |-> TRUE]
  /\ Goto("count")
  /\ UNCHANGED <<buffered, appOffset, appFin, operations, sendPending, offsetVars, finVars, stopped,
                 pubVars, externalVars>>

\* _waitForCapacity: the first reading decides whether to wait at all, the
\* next ones wait for the low watermark.
Measure ==
  /\ wpc \in {"measure", "remeasure"}
  /\ buffered' = BufferedWriteBytes
  /\ IF \/ wpc = "measure" /\ HasCapacity(BufferedWriteBytes, writing.size)
        \/ BufferedWriteBytes <= LowWatermark
       THEN Goto("count")
       ELSE Goto("wait")
  /\ UNCHANGED <<writing, appOffset, appFin, operations, sendPending, offsetVars, finVars, stopped,
                 pubVars, externalVars>>

\* session.wait returned (a change, or 50 ms), then checkError.
Wait(from, to) ==
  /\ wpc = from
  /\ Goto(IF stopped THEN "failed" ELSE to)
  /\ UNCHANGED <<writing, buffered, appOffset, appFin, operations, sendPending, offsetVars, finVars,
                 stopped, pubVars, externalVars>>

\* createSendOperation refuses on a stopped connection and counts otherwise.
CountWrite ==
  /\ wpc = "count"
  /\ IF stopped
       THEN Goto("failed") /\ UNCHANGED <<appOffset, appFin>>
       ELSE /\ Goto("queue")
            /\ appOffset' = appOffset + writing.size
            /\ appFin' = writing.fin
  /\ UNCHANGED <<writing, buffered, operations, sendPending, offsetVars, finVars, stopped, pubVars,
                 externalVars>>

\* queueOperation throws the operation away when the connection has stopped.
QueueWrite ==
  /\ wpc = "queue"
  /\ operations' = IF stopped THEN operations ELSE Append(operations, Send(writing))
  /\ Goto(IF appFin THEN "askAcked" ELSE "idle")
  /\ UNCHANGED <<writing, buffered, appOffset, appFin, sendPending, offsetVars, finVars, stopped,
                 pubVars, externalVars>>

\* isWriteAcknowledged.
WriteAcknowledged == pubAcked = appOffset /\ (appFin => pubFinAcked)

AskAcked ==
  /\ wpc = "askAcked"
  /\ Goto(IF WriteAcknowledged THEN "acked" ELSE "waitAcked")
  /\ UNCHANGED <<writing, buffered, appOffset, appFin, operations, sendPending, offsetVars, finVars,
                 stopped, pubVars, externalVars>>

\* waitForCleanClose, without the 50 ms for which the stream has to stay closed.
AskClosed ==
  /\ wpc = "acked"
  /\ Goto(IF pubClosed THEN "closed" ELSE "waitClosed")
  /\ UNCHANGED <<writing, buffered, appOffset, appFin, operations, sendPending, offsetVars, finVars,
                 stopped, pubVars, externalVars>>

\* The deadline of the call passed while it waited; the two waits of the end
\* look once more.
TimeOut ==
  /\ \/ wpc = "wait" /\ Goto("timedOut")
     \/ wpc = "waitAcked" /\ Goto(IF WriteAcknowledged THEN "acked" ELSE "timedOut")
     \/ wpc = "waitClosed" /\ Goto(IF pubClosed THEN "closed" ELSE "timedOut")
  /\ UNCHANGED <<writing, buffered, appOffset, appFin, operations, sendPending, offsetVars, finVars,
                 stopped, pubVars, externalVars>>

WriterStep ==
  \/ Measure \/ CountWrite \/ QueueWrite \/ AskAcked \/ AskClosed
  \/ Wait("wait", "remeasure") \/ Wait("waitAcked", "askAcked") \/ Wait("waitClosed", "acked")

(***************************************************************************)
(* The Worker.                                                               *)
(***************************************************************************)

QueueSendFlush(queue) ==
  /\ operations' = IF sendPending THEN queue ELSE Append(queue, Flush)
  /\ sendPending' = TRUE

Begin(type) == operations # <<>> /\ Head(operations).type = type

\* publishApplicationState on a running connection.
Publish == pubAcked' = txAcked /\ pubFinAcked' = finAcked /\ pubClosed' = streamClosed

\* A chunk joins those kept for ngtcp2; the FIN closes the sending side, and a
\* write after it throws.
ProcessSend ==
  /\ Begin("APISend")
  /\ LET op == Head(operations)
     IN /\ ~finRequested
        /\ chunks' = IF op.size = 0 THEN chunks
                     ELSE Append(chunks, [offset |-> txNext, size |-> op.size, submitted |-> 0])
        /\ txNext' = txNext + op.size
        /\ finRequested' = op.fin
  /\ QueueSendFlush(Tail(operations))
  /\ Publish
  /\ UNCHANGED <<writerVars, txSubmitted, txAcked, finSubmitted, finAcked, streamClosed, stopped,
                 externalVars>>

HasPendingWrite == txSubmitted < txNext \/ (finRequested /\ ~finSubmitted)

\* nextTransmitChunk, as the indices it may return.
NextTransmitChunk ==
  {i \in DOMAIN chunks : /\ chunks[i].offset + chunks[i].submitted = txSubmitted
                         /\ chunks[i].submitted < chunks[i].size}

Remaining(i) == chunks[i].size - chunks[i].submitted

\* mutant: the FIN goes with whatever chunk is next.
SendingFinEarly(i) == finRequested /\ ~finSubmitted

SendingFin(i) == finRequested /\ ~finSubmitted /\ txSubmitted + Remaining(i) = txNext

\* writeOnePacket with data: some of the next chunk, as far as the credit goes,
\* and the FIN with it if it is the last of what is queued.
WriteData(i, accepted) ==
  LET fin == SendingFin(i) /\ accepted = Remaining(i)
  IN /\ txSubmitted + accepted <= credit
     /\ chunks' = [chunks EXCEPT ![i].submitted = @ + accepted]
     /\ txSubmitted' = txSubmitted + accepted
     /\ finSubmitted' = (finSubmitted \/ fin)
     /\ frames' = frames \cup {[from |-> txSubmitted, to |-> txSubmitted + accepted, fin |-> fin]}

\* ... and with nothing but the FIN.
WriteFin ==
  /\ finRequested /\ ~finSubmitted /\ txSubmitted = txNext
  /\ finSubmitted' = TRUE
  /\ frames' = frames \cup {[from |-> txNext, to |-> txNext, fin |-> TRUE]}
  /\ UNCHANGED <<chunks, txSubmitted>>

\* STREAM_DATA_BLOCKED: the peer's limit is reached, nothing is written.
Blocked == txSubmitted < txNext /\ txSubmitted >= credit

\* One packet, after which the budget is used up and a flush is queued again;
\* none, and it is not.
ProcessSendFlush ==
  /\ Begin("FlushSend")
  /\ \/ /\ HasPendingWrite /\ ~Blocked
        /\ \/ \E i \in NextTransmitChunk : \E n \in 1..Remaining(i) : WriteData(i, n)
           \/ WriteFin
        /\ operations' = Append(Tail(operations), Flush)
        /\ UNCHANGED sendPending
     \/ /\ ~HasPendingWrite \/ Blocked
        /\ operations' = Tail(operations)
        /\ sendPending' = FALSE
        /\ UNCHANGED <<chunks, txSubmitted, finSubmitted, frames>>
  /\ UNCHANGED <<writerVars, txNext, txAcked, finRequested, finAcked, streamClosed, stopped, pubVars,
                 credit>>

\* ngtcp2 reports data acknowledged without a gap.
AckedWithoutGap(outstanding) ==
  LET gaps == {f.from : f \in {g \in outstanding : g.from < g.to}}
  IN IF gaps = {} THEN txSubmitted ELSE Min(gaps)

\* mutant: a chunk is freed when its first byte is acknowledged.
RetainedFromStart(acked) ==
  LET kept == {i \in DOMAIN chunks : chunks[i].offset >= acked}
  IN IF kept = {} THEN <<>> ELSE SubSeq(chunks, Min(kept), Len(chunks))

\* Chunks that end at or before the acknowledged offset are freed.
Retained(acked) ==
  LET kept == {i \in DOMAIN chunks : chunks[i].offset + chunks[i].size > acked}
  IN IF kept = {} THEN <<>> ELSE SubSeq(chunks, Min(kept), Len(chunks))

\* mutant: appFinAcked_ is assigned txFinSubmitted.
AcknowledgeDataAndFin(frame) ==
  /\ AckedWithoutGap(frames \ {frame}) > txAcked
  /\ txAcked' = AckedWithoutGap(frames \ {frame})
  /\ chunks' = Retained(txAcked')
  /\ pubAcked' = txAcked'
  /\ pubFinAcked' = finSubmitted
  /\ QueueSendFlush(operations)
  /\ UNCHANGED <<writerVars, txNext, txSubmitted, finVars, stopped, pubClosed, credit>>

\* acknowledgedStreamDataCallback, with data: the offset moves and is published.
AcknowledgeData(frame) ==
  /\ AckedWithoutGap(frames \ {frame}) > txAcked
  /\ txAcked' = AckedWithoutGap(frames \ {frame})
  /\ chunks' = Retained(txAcked')
  /\ pubAcked' = txAcked'
  /\ pubFinAcked' = finAcked
  /\ QueueSendFlush(operations)
  /\ UNCHANGED <<writerVars, txNext, txSubmitted, finVars, stopped, pubClosed, credit>>

\* ... without data: the empty frame of the FIN.
AcknowledgeFin(frame) ==
  /\ AckedWithoutGap(frames \ {frame}) = txAcked
  /\ frame.fin
  /\ finSubmitted /\ txAcked = txNext
  /\ finAcked' = TRUE
  /\ pubFinAcked' = TRUE
  /\ pubAcked' = txAcked
  /\ QueueSendFlush(operations)
  /\ UNCHANGED <<writerVars, offsetVars, finRequested, finSubmitted, streamClosed, stopped, pubClosed,
                 credit>>

\* ... and a frame behind a gap is not reported yet.
AcknowledgeLater(frame) ==
  /\ AckedWithoutGap(frames \ {frame}) = txAcked
  /\ ~frame.fin
  /\ QueueSendFlush(operations)
  /\ UNCHANGED <<writerVars, offsetVars, finVars, stopped, pubVars, credit>>

Drop ==
  /\ stopped' = TRUE
  /\ operations' = <<>>

\* The FIN reported before all data is: the callback fails, and with it the
\* connection.
AcknowledgeFinEarly(frame) ==
  /\ AckedWithoutGap(frames \ {frame}) = txAcked
  /\ frame.fin
  /\ txAcked # txNext
  /\ Drop
  /\ UNCHANGED <<writerVars, sendPending, offsetVars, finVars, pubVars, credit>>

\* A packet arrives that acknowledges a frame.
Acknowledge ==
  /\ ~stopped
  /\ \E frame \in frames :
       /\ frames' = frames \ {frame}
       /\ \/ AcknowledgeData(frame)
          \/ AcknowledgeFin(frame)
          \/ AcknowledgeLater(frame)
          \/ AcknowledgeFinEarly(frame)

\* A packet arrives that raises the limit.
RaiseCredit ==
  /\ ~stopped
  /\ credit < Total
  /\ credit' \in (credit + 1)..Total
  /\ QueueSendFlush(operations)
  /\ UNCHANGED <<writerVars, offsetVars, finVars, stopped, pubVars, frames>>

\* mutant: closing the stream does not count as acknowledging its FIN.
CloseStreamOnly ==
  /\ ~stopped
  /\ ~streamClosed
  /\ finSubmitted /\ frames = {}
  /\ streamClosed' = TRUE
  /\ pubClosed' = TRUE
  /\ QueueSendFlush(operations)
  /\ UNCHANGED <<writerVars, offsetVars, finRequested, finSubmitted, finAcked, stopped, pubAcked,
                 pubFinAcked, externalVars>>

\* streamCloseCallback: ngtcp2 closes the stream when both directions ended and
\* this one's FIN, and so all before it, was acknowledged.
CloseStream ==
  /\ ~stopped
  /\ ~streamClosed
  /\ finSubmitted /\ frames = {}
  /\ streamClosed' = TRUE
  /\ finAcked' = TRUE
  /\ pubClosed' = TRUE
  /\ pubFinAcked' = TRUE
  /\ pubAcked' = txAcked
  /\ QueueSendFlush(operations)
  /\ UNCHANGED <<writerVars, offsetVars, finRequested, finSubmitted, stopped, externalVars>>

\* An operation throws or the transport fails.
Fail ==
  /\ ~stopped
  /\ Drop
  /\ UNCHANGED <<writerVars, sendPending, offsetVars, finVars, pubVars, externalVars>>

\* The Worker's run ends with publishApplicationState, which after the ngtcp2
\* connection is gone publishes zeros.
PublishStopped ==
  /\ stopped
  /\ pubAcked # 0 \/ pubFinAcked \/ pubClosed
  /\ pubAcked' = 0
  /\ pubFinAcked' = FALSE
  /\ pubClosed' = FALSE
  /\ UNCHANGED <<writerVars, operations, sendPending, offsetVars, finVars, stopped, externalVars>>

WorkerStep == ProcessSend \/ ProcessSendFlush \/ PublishStopped

NetworkStep == Acknowledge \/ RaiseCredit \/ CloseStream

Next == WriterStep \/ BeginWrite \/ BeginFinish \/ TimeOut \/ WorkerStep \/ NetworkStep \/ Fail

Spec == Init /\ [][Next]_vars

\* A writer in a call goes on with it and eventually finishes; the Worker
\* executes what is queued; the peer acknowledges, raises its limit and ends
\* its own direction.
FairSpec ==
  /\ Spec
  /\ WF_vars(WriterStep)
  /\ WF_vars(BeginWrite \/ BeginFinish)
  /\ WF_vars(WorkerStep)
  /\ WF_vars(Acknowledge)
  /\ WF_vars(RaiseCredit)
  /\ WF_vars(CloseStream)

(***************************************************************************)
(* Properties.                                                               *)
(***************************************************************************)

Flushes == {i \in DOMAIN operations : operations[i] = Flush}

\* The variables have their types, and sendOperationPending_ counts the flushes
\* in the queue: one, or none.
TypeOK ==
  /\ wpc \in {"idle", "measure", "remeasure", "wait", "count", "queue", "askAcked", "waitAcked",
              "acked", "waitClosed", "closed", "failed", "timedOut"}
  /\ writing \in [size : 0..MaxWrite, fin : BOOLEAN]
  /\ {appOffset, txNext, txSubmitted, txAcked, pubAcked, buffered} \subseteq 0..Total
  /\ {appFin, sendPending, finRequested, finSubmitted, finAcked, streamClosed, stopped, pubFinAcked,
      pubClosed} \subseteq BOOLEAN
  /\ \A i \in DOMAIN operations :
       operations[i] \in [type : {"APISend", "FlushSend"}, size : 0..MaxWrite, fin : BOOLEAN]
  /\ \A i \in DOMAIN chunks :
       chunks[i] \in [offset : 0..Total, size : 1..MaxWrite, submitted : 0..MaxWrite]
  /\ \A i, j \in Flushes : i = j
  /\ ~stopped => (sendPending <=> Flushes # {})

\* QUICWriteFlowController: "Bound producer memory".  However late the writer
\* sees an acknowledgement, the bytes it wrote and the peer did not acknowledge
\* stay below the high watermark, or one write above the low one.
ProducerBounded ==
  appOffset - txAcked <= Max({HighWatermark, LowWatermark + MaxWrite})

\* ngtcp2 sends a lost frame again from the memory of the chunk: whatever is
\* not acknowledged is in a chunk that is still kept.
UnackedRetained ==
  \A frame \in frames :
    \A byte \in frame.from..(frame.to - 1) :
      \E i \in DOMAIN chunks :
        chunks[i].offset <= byte /\ byte < chunks[i].offset + chunks[i].size

\* The FIN is where the stream ends: nothing is behind it, sent, kept or queued,
\* and every byte before it went into a frame.
FinAfterData ==
  finSubmitted =>
    /\ txSubmitted = txNext
    /\ \A i \in DOMAIN operations : operations[i].type # "APISend"
    /\ \A frame \in frames : frame.fin => frame.to = appOffset

\* waitForWriteAcknowledged tells the program that everything arrived: then
\* nothing of what it wrote, nor the FIN, is queued, unsent or outstanding.
AckedMeansDelivered ==
  wpc \in {"acked", "waitClosed", "closed"} =>
    /\ frames = {}
    /\ finSubmitted
    /\ txAcked = appOffset
    /\ \A i \in DOMAIN operations : operations[i].type # "APISend"

\* A program that writes and then ends the stream learns that everything was
\* acknowledged and the stream closed, unless the connection fails or its
\* deadline passes.
WriterDone == <>(wpc \in {"closed", "failed", "timedOut"})
=============================================================================
