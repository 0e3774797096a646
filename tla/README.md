# Verification of ffl-p2p

`ffl-p2p` gives Python programs a peer-to-peer connection: ICE (libjuice) finds
a path between two hosts, QUIC (ngtcp2, GnuTLS) runs over it, and a file can be
transferred over a QUIC stream. A TCP connector is the fallback. The native core
(C++ and C) drives ngtcp2 from worker threads; Python (`src/src/ffl_p2p`) makes
the blocking calls.

This directory holds TLA+ models of the parts of that program whose correctness
depends on the order in which threads, callbacks and messages meet, the TLC
configurations that check them on small instances, and TLAPS proofs of the
results that matter most, for every instance. `PROJECT.json` is the index:
components, runs, mutants of each property, the lines each definition stands
for, hazards, findings and theorems.

Abbreviations: `Connection.cpp` is `src/native/quic/Connection.cpp`, `P2P.c` is
`src/native/P2P.c`, `QUIC.py` and the other Python files are in
`src/src/ffl_p2p/`.

## 1. The system

### 1.1 Inventory

| Component | State | Operations | Talks to |
|---|---|---|---|
| Connection runtime and Worker (`Connection.cpp`, `Worker.cpp`, `Operation.cpp`, `TimerWheel.cpp`) | per connection: operation queue, scheduling state, started / stopped flags, error; per Worker: ready queue, timer wheel, stop flag, event | `start`, `send`, `write`, `close`, `receive`, timers, `Worker::run`, `Worker::stop` | the calling threads (operations with a completion), libjuice's threads (received datagrams), ngtcp2 |
| Stream receive path (`Connection.cpp`, `Buffer.cpp`, `QUIC.py`) | batch filled by ngtcp2, batch the program reads, credit counted for release, FIN and error flags | `receiveStreamDataCallback`, `processStreamReceive`, `takeReceivedStreamData`, `processReleaseStreamReceiveCredit`; `QUICStream.receive` | the peer's flow control |
| Write flow (`QUICFlow.py`, `QUIC.py`, `Connection.cpp`) | transmit chunks, queued / acknowledged offsets, FIN flags, the published counters | `QUICWriteFlowController.queue`, `createSendOperation`, `writeOnePacket`, the acknowledgement and close callbacks, `waitForWriteAcknowledged`, `waitForCleanClose` | the receive path of the peer |
| Send path (`Connection.cpp`, `JuiceBinding.cpp`) | one kept send, retry deadline, flush operation, timer | `processSendFlush`, `flushPackets`, `flushPendingTransportSend`, `retainPendingTransportSend`, `processTimer` | libjuice and its socket, the timer wheel |
| ICE agent queues (`P2P.c`) | event list, datagram list, two flags and two wake semaphores, sink, closed | libjuice's callbacks, `pollEvents`, `waitEvents`, `drainEvents`, `receiveFFLP2PAgentNative`, `setFFLP2PAgentNativeDataSink`, `closeAgent` | libjuice's thread, Python's threads, the Worker |
| ICE binding (`JuiceBinding.cpp`) | agent and connection pointer | attach, detach, `onReceive`, `send`, `limitDatagramSize` | agent, connection |
| File transfer (`QUIC.py`) | request, response header, byte count, completion | `iterDownload`, `QUICFileServer` | session, stream |
| UDP connector, publisher, signalling (`UDP.py`, `P2P.py`, `Signaling.py`, `Native.py`) | gathered / remote description / connected / closed, role, mapping | `gather`, `setRemoteDescription`, `connect`, `close`, publish, subscribe | agent, port mapping, an HTTP signalling server |
| TCP connector, transport (`TCP.py`, `Transport.py`) | candidates, sockets | sequential probes, accept, HTTP framing | peers |
| Port mapping (`Plum.c`, `P2P.c`) | mapping id, state, external address | request, callback, release | libplum |
| Buffers and pools (`Buffer.cpp`, `Buffer.h`) | a free list that grows without a limit, batches of buffers | append, join, swap, release | all data paths |
| Datapath (`Datapath*.cpp`) | which batched system calls work | send aggregate, receive messages, fallbacks | sockets |
| Configuration (`Configuration.py`, `RuntimeConfiguration.*`) | validated settings | parse, validate | everything |
| Credentials (`Credentials.cpp`) | certificate, fingerprint | create, pin | GnuTLS |
| Python session object (`Quic.cpp`) | reference to the agent, initial packet, connection | create, start, close, collect; one native call per method | connection, binding, agent |
| Diagnostics, logging | counters | none that the program reads back | - |
| libjuice / libplum patches, build, tests | - | - | - |

### 1.2 How the parts meet

* **Threads.** Any number of Python threads make calls; one Worker thread owns
  each connection for its whole life (`README.md` 211-223: round-robin over the
  pool). libjuice has threads of its own for callbacks.
* **Calls** become operations: pushed on the connection's queue under the
  queue's mutex; the caller then waits for a completion with a timeout, and
  schedules the connection on the Worker if it was idle.
* **The run.** The Worker takes a ready connection, expires its timer, executes
  at most a budget of operations, publishes the counters Python reads, and sets
  the connection idle, looking once more at the queue.
* **Callbacks.** ngtcp2 calls back inside a run (data, acknowledgement, close of
  a stream). libjuice calls back in its own thread: a state or candidate goes
  into the agent's event queue, a datagram to the native sink (the QUIC
  connection) or, without one, into the datagram queue.
* **Shared state.** Counters as atomics read by Python (the
  acknowledged offset, the closed flags), batches under a mutex.

### 1.3 What is hard here

1. A connection that goes idle while a producer pushes (the lost wakeup), and a
   ready queue that must hold each connection once.
2. A call that timed out and is executed later; a call that slips past the stop.
3. One kept send that must neither be lost, repeated nor overtaken, while the
   timer that retries it, flushes and ngtcp2's own timers interfere.
4. Credit counted by a reader thread and released by the Worker: none may be
   lost, or the peer stalls; none may be invented, or memory is unbounded.
5. The end of a stream seen through two non-atomic reads.
6. Buffers that ngtcp2 still points into, watermarks shared by two threads, and
   a FIN that may or may not be acknowledged by a callback.
7. Binary wake tokens shared by consumers of two queues.
8. A session, its binding and the agent that point at one another, taken apart
   by three threads while a fourth delivers and the Worker sends.

`PROJECT.json` "hazards" lists every one with the line where it bites and the
properties that would notice.

### 1.4 What makes each component correct

| Component | Correct when | Stated by |
|---|---|---|
| Connection runtime | every queued operation is executed in order and its caller answered; a connection is scheduled once; no wakeup is lost; timers come back; the error is there before the stop is seen | `SchedulingInv`, `NoStrandedCall`, `TimerCovered`, `ReceiveNotStranded`, `OneStartSucceeds`, `CallsReturn`, `StopJoins`, refinement of `Mailbox` |
| Stream receive | the program reads the sent bytes in order, all of them before the end; bounded buffering; no credit lost or invented | `CreditConserved`, `UnreadWithinWindow`, `NoStall`, `StreamEnds`, refinement of `ByteStream` |
| Write flow | bounded memory, nothing freed too early, FIN last, acknowledged means delivered, every writer learns the end | `ProducerBounded`, `UnackedRetained`, `FinAfterData`, `AckedMeansDelivered`, `WriterDone` |
| Send path | packets leave in order, once; a refused send is tried again; budgets do not strand a backlog | `PacketOrder`, `PendingRetried`, `BacklogDrains` |
| Agent queues | nothing lost or handed out twice; nobody sleeps on something queued | `NothingLost`, `BinaryTokens`, `NoSleep`, `WaiterWoken` |
| File transfer | what is counted is complete and consumed; neither side waits for ever although the last acknowledgement may be lost | `CountedMeansConsumed`, `WholeFile`, `TransferCompletes` |
| UDP session | peers take different ICE roles; a mapped candidate is never too late; every agent and mapping is given back; the peers meet | `OffererControls`, `HoldCoversMapping`, `NothingLeft`, `PeersMeet` |
| Session over an agent | nobody calls or uses what is gone; a start that failed leaves nothing attached; a handshake survives what was lost before the sink was in | `PointersValid`, `SendsReachLiveAgent`, `HandshakeCompletes` |
| Buffers | a buffer has one owner; nothing is lost, repeated or moved in a batch | `BatchesAreSequences` |
| Datapath | datagrams reach libjuice whole, once, in order, until the socket is empty; reported progress is what the socket took | `HandedOver`, `Drained`, `ProgressExact` |

## 2. The plan

Most important behaviour first. Each module has constants with a named
assumption, one action per step of the code, and no RECURSIVE operator, so that
it can be proved about.

| # | Module | Composition and abstraction | State |
|---|---|---|---|
| 1 | `ConnectionRuntime` | implements `Mailbox` | model, runs, proofs including the refinement |
| 2 | `AgentEvents` | - | model, runs, proofs |
| 3 | `StreamReceive` | implements `ByteStream` | model, runs, proofs including the refinement |
| 4 | `WriteFlow` | - | model, run, proofs |
| 5 | `SendPath` | - | model, run, proofs |
| 6 | `FileTransfer` | composes two `ByteStream`s, one for each direction | model, run, proofs |
| 7 | `P2PSession` | publisher, connectors, signalling, ICE and port mapping in one module | model, run, proofs |
| 8 | `Buffers` | justifies the batches that `StreamReceive` and `ConnectionRuntime` take for sequences | model, run, proof |
| 9 | `DatapathReceive` | - | model, runs, proof |
| 10 | `DatapathSend` | justifies what `SendPath` assumes of an aggregate; `Datapath` puts the two directions side by side | model, run, proof |
| 11 | `QUICSession` | composes agent, binding, session object and the start and close of a connection; rests on `ConnectionRuntime` for the order of operations | model, run, proofs |
| 12 | the TCP connector (its probes and the headers they carry), the pool of Workers, configuration as operators over bounded inputs | - | not written |

Theorems worth proving, in this order: the scheduling protocol, the wake tokens,
flow-control credit and the stream refinement, exact progress of an aggregate,
the completion of a transfer, the kept send (`SendPath`), the acknowledgement
offsets (`WriteFlow`), the life of a session over its agent (`QUICSession`): the
delivery of operations and the safety part of `Mailbox` (`KeepsOrder`), the set-up
of a session (`P2PSession`), what the receive hook hands over
(`DatapathReceive`), and that batches are sequences (`Buffers`): all done.

## 3. The models

### 3.1 `ConnectionRuntime` - operations, scheduling, timers, stop

Steps are as fine as the code's mutexes and atomics. A call is a process
(`at[k]`), so two calls of one thread or of two interleave in every order; the
Worker is one more (`wpc`).

| State | Code |
|---|---|
| `sched` | `Connection::scheduleState_` |
| `ops` | `operationQueue_` |
| `started`, `stopped`, `appError` | the atomics and the error string |
| `conn`, `deadline` | `ProtocolState::conn`, whether `getNextExpiry` is finite |
| `rxBatch`, `rxPending`, `flushing` | `receiveBatch_`, `receiveOperationPending_`, the two other pending flags |
| `runQueue`, `ready`, `running`, `wheel` | `Worker::connections_`, `ready_`, `running_`, `TimerWheel` |
| `answer` | the `Completion` a caller waits for |

A call goes `new -> (attach | append) -> check -> push -> cas -> enqueue -> signal
-> wait -> (detach) -> done`: `BeginStart` .. `JoinWorker`. Its `kind` is start, send,
close, receive (libjuice's thread), read (which queues the release of credit) or
stop. The Worker goes
`loop -> timers -> pop -> (park) -> begin -> ops -> execute -> complete -> ... ->
rearm -> finish -> recheck`. `ProcessStart`, `ProcessSend`, `ProcessReceive`,
`ProcessStreamReceive`, `ProcessReleaseStreamReceiveCredit`, `ProcessSendFlush`,
`ProcessTimer` and `ProcessShutdown` are the cases of `processOperation`; what
ngtcp2 does in them is a choice between success, failure and which further
operations are queued. `FailError`,
`FailStop` and `DrainOperation` are the three separate stores of
`failFromRuntime`. `Worker::stop` sets `running_` and signals in two steps, and
`exitDrain` / `exitFail` are what the Worker does after its loop.

`Mailbox` is the promise: operations of one connection are executed one at a time
in the order they were queued, each caller is answered once, operations are
thrown away only on a connection that stopped, and no mailbox starves.
`KeepsOrder` and `KeepsServing` are the refinement.

### 3.2 `AgentEvents` - the queues of the ICE agent

Callbacks of libjuice, consumers of events and of datagrams, the sink and
`close`. A token is a Python lock used as a binary semaphore (`available`) with
a flag (`signaled`); the flag changes under the agent's lock, the token after
the lock was released (`owes` is the set of tokens a process decided to release
and has not yet). `taken` records everything that left
the lists, in that order.

### 3.3 `StreamReceive` and `ByteStream`

Peer (external), Worker, reader. A byte is its position in the stream. The
reader's steps are the native calls of `QUICStream.receive` and, inside
`takeReceivedStreamData`, the exchange of the batch, the count of the bytes
and the queueing of `ReleaseStreamRecvCredit`, which are three separate steps in the code.
`granted` is what ngtcp2 was told, `advertised` what the last packet carried,
`peerCredit` what the peer knows. `ByteStream` is the abstract one: bytes are
sent, delivered in order, and the end is reported after the last.

### 3.4 `WriteFlow` - watermarks, chunks, FIN, acknowledgement

A writer that loops over `_waitForCapacity` of `QUICWriteFlowController`, writes
and ends with an empty
write that carries the FIN (`QUIC.py:265`), the operation it queues, the chunks
with their three offsets (`txNext`, `txSubmitted`, `txAcked`), the published
copies the writer reads, and the two waits at the end. Frames stay outstanding
until they are acknowledged, in any order: losing and sending again is
ngtcp2's. A flush writes one packet and then its budget is exhausted
(`kMaxPacketsPerFlush` is 512 in the code), so the case in which a flush stops
early happens all the time.

`AcknowledgeFinEarly` is the case in which the empty FIN frame is acknowledged
while data before it is not: `acknowledgedStreamDataCallback` compares the offset
with `txAckedOffset`, fails, and the connection is dropped.

### 3.5 `SendPath` - flush, kept send, retry

A flush is one operation but a loop of system calls, and the room of the socket
may change between two of them, so it is a loop here: first
`flushPendingTransportSend`, then batches from ngtcp2 until it has nothing, the
socket refuses, or the budget is used. A datagram that is too large is dropped
as the code drops it. Time is counted in ticks; a deadline that is due stays
due. `expiry` is ngtcp2's timer, here its pacing deadline, which stays due
until packets are written.

### 3.6 `FileTransfer` - request, file, completion, clean close

The client's generator (`iterDownload`) and the server's `serve`, call by call,
over a stream of which each direction is a `ByteStream`. A part of the file is
its number. Below the two programs only two facts per side are kept: the
peer's FIN arrived, and the own FIN is acknowledged. Both may come late or
never, since each side closes its connection silently 50 ms after it saw the
stream closed. The program may drop the generator at any `yield`, the server's
iterator may raise, and every wait may reach its deadline.

### 3.7 `P2PSession` - offer, answer, handler thread, close

One publisher and several downloaders that got the same offer. `udp[o]` is the
`UDPConnector` of each: agent open, hold, mapping, role. `gather` is a step per
native call, since libjuice's gathering ends in a thread of its own
(`GatheringDone`). The publisher's side of an answer (`acceptAnswer`) runs in a
thread per request, so `CheckRemote`, `SetRemoteDescription`, `MarkRemoteSet`,
`SetAnswered` and `StartHandler` of two requests interleave. `Connect` is the
moment in which the connector gives its agent to the transport. Assumed of the
application, as `README.md` 127-136 shows it: an offer is created before it is
served. The tests also stop their HTTP server before they close the publisher
(`P2PTest.py` 214-215, 249-250), but no code asks for it, so `ClosePublisher` may
come at any time: an answer that is served later makes an agent of its own
(`late`), and a handler that was about to make its transport makes it of that
agent, or of none (`hollow`), and calls the program with it.

### 3.8 `Buffers` - pool and batches

The free list, the chain of each batch and the entries of each buffer as
pointers and arrays, so that a swap, a join and a release can go wrong as in the
code. The same four batches are used twice, for datagrams and for stream data
(`kind`). `AppendStreamData` is one round of its loop, since a reader may
release buffers between two rounds. `Walk` follows the pointers of a chain as
`releaseChain` and `copyTo` do. `MaxBuffers` and `MaxBytes` are bounds: the code
allocates as long as there is memory.

### 3.9 `DatapathReceive` - from the socket to libjuice

The poll loop that patch 0004 adds, and the hooks of both platforms that it
calls: one system call for several datagrams on POSIX, one buffer of joined
datagrams on Windows of which a rest may be kept, and the single receives both
fall back to. A datagram is plain, empty or longer than the receive buffer, as
only these are treated differently. `Fairness` bounds a turn of the loop, not the
specification's fairness. `Datapath` composes both directions; the run takes one
at a time, and what is proved of each direction holds of the composition.

### 3.10 `DatapathSend` - one aggregate on its way to the socket

Segmentation by the system (`UDP_SEGMENT`, `UDP_SEND_MSG_SIZE`) or a loop of
single sends, the errors that turn segmentation off for good, and the progress
that each way reports. This is where `SendPath`'s assumption comes from: an
aggregate stops between two packets, and the Worker is told exactly where.

### 3.11 `QUICSession` - sessions over one agent

Four kinds of threads: the application's, one per session, which makes one call
at a time on it while those on other sessions are at any step of theirs; the
Worker of each session; libjuice's; and whoever closes the agent or drops the
Python object that owns it.

| State | Code |
|---|---|
| `closed`, `juice`, `sink` | the fields of `PyP2PAgent` (`P2P.c`), changed under its lock |
| `wrapper`, `refs`, `freed` | who holds a Python reference to the agent object, and that it is deallocated |
| `ice` | libjuice's thread, which calls the sink with the agent's lock held |
| `bound` | `agentHandle_` and `connection_` of `JuiceBinding` |
| `pc`, `starts`, `answer` | where a call on the session is, and the `Completion` it waits for |
| `ops`, `rx`, `receivePending`, `started`, `stopped` | the same of `Connection` |
| `peer`, `complete`, `sending` | the ngtcp2 connection and a send of the Worker that passed its checks |

A start goes `attach` (the sink is installed) `-> bind` (the binding learns of its
agent) `-> queueStart -> startWait -> running`, or by `unbindStart` and `drop` to
`failed`; a close goes `closeWait -> unbindClose -> clear -> closed`. Both detach in
two steps: `Detach` takes the sink out under the agent's lock, `ResetBinding` clears
the binding's pointers without one (`resetStart`, `resetClose`). `CloseAgent`
and `DestroyJuice` are the two halves of `closeAgent`, `DeallocateAgent` is what
the last reference brings about. `BeginSend` is the check of the agent, which has
no lock, and `Send` what comes after it.

A datagram that comes before the sink, or between the sink and `Bind`, is lost to
the session, as in the code, and what saves it is that the peer sends again. The
peer may send whatever its end of a session can have sent so far, at any time and
any number of times; sessions of an earlier use of the path (`Foreign`) may too.
`ops` is a set: that operations keep their order is `KeepsOrder` of
`ConnectionRuntime`, and here any order is allowed. The idle and handshake
timeouts of ngtcp2, the GIL and a second close of a session are left out.

## 4. The runs

| Run | Question | Bounds | Distinct states |
|---|---|---|---|
| `lifecycle` | Is every call accounted for, whatever three calls and the Worker do to one connection, including errors and timeouts? Is a received datagram ever left behind? | 1 client connection, 3 calls of any of 4 kinds, symmetric calls, budget 2 | 5 240 818 |
| `serving` | Is a wakeup lost? Does every call return, does `stop` join, and does one connection starve another? | a client and a server connection, 2 calls, reads of a stream and `stop` among them, fair | 620 072 |
| `tokens` | Does anybody sleep on something queued; is anything lost? Is a waiter woken without its timeout? | 2 events, 2 datagrams, 2 consumers, limits 1 and 2, fair | 349 696 |
| `credit` | Is memory bounded and no credit lost; is it a byte stream? Does a program that reads reach the end? | stream of 7 bytes, windows 3 and 4, fair | 7 686 |
| `writing` | Bounded writer, nothing freed early, FIN last, acknowledged means delivered; does the writer learn the end? | 5 bytes, writes up to 3, watermark 3, first limit 2, fair | 215 423 |
| `backpressure` | Order, loss, repetition of packets and the retry | 5 packets, aggregates of 2, flush of 3, budget 2, socket of 2, retry after 2 ticks | 71 272 |
| `transfer` | Is what either side counts the whole file, consumed? Does it complete? | 3 parts, from offsets 0, 1, 3 and 4, fair | 4 564 |
| `session` | Roles, hold and mapping, nothing left open; do both sides get their transport? | publisher and 2 downloaders, all but one with a mapping, a close at any time, fair | 89 239 |
| `buffering` | Is a batch a sequence, a buffer in one place? | buffers of 3 bytes or 2 datagrams, a pool of 2 that grows by 2 up to 8, 8 bytes in sizes 1 to 4 | 74 354 |
| `datapath` | Receiving: whole, once, in order, until the socket is empty? Sending: is the Worker told what the socket took? | one direction at a time; batches of 2, loop of 3, up to 4 joined, 5 datagrams, fair; 7 packets, aggregates up to 4, 3 segments | 52 670 |
| `empty_datagram` | Does the hook return only datagrams libjuice takes for valid? (No.) | the same | violation |
| `handshake` | Do the pointers between session and agent hold; does a send meet a live agent; does a started session complete its handshake? | 1 session, datagrams of 1 other, 2 starts, batch of 1, fair | 193 412 |

Why the bounds are enough. In the runtime every protocol is between one
connection, the Worker and at most two other threads: three calls let one
producer be between its check and its push while another sets the queue and a
third stops. A budget of 2 (64 in the code) is used up by two operations, so
runs end early; with 1 an operation that queues another would never let the
queue shrink. Two connections are needed for starvation and for a queued and an
unqueued connection at the stop. The stream of 7 exceeds both windows (3 for
the stream, 4 for the connection: 16 and 64 MiB in the code) and the program may
pause with both used up. In `WriteFlow` 5 bytes exceed the watermark, the first
limit and a packet. In `SendPath` an aggregate exceeds the room of the socket
once it is partly full, a backlog exceeds a flush, and flushes exceed a run.
In `FileTransfer` three parts let the program be in the middle, at the end and
behind what has arrived; the offsets are the start, the middle, the end and one
behind it. In `P2PSession` two downloaders are what it takes for two answers to
pass the check of `remoteSet` together; one without a mapping gathers without a
hold. In `Buffers` an arrival exceeds a buffer, a batch exceeds the initial pool
and a chain has three buffers, so joins happen at both ends of a chain. In
`DatapathReceive` what is joined exceeds a batch and the loop's limit, so a
rest is kept over two calls and over the end of the loop. In `DatapathSend` an
aggregate exceeds the segments of one call. In `QUICSession` two starts let the
operation of one that gave up be executed under the second; two sessions on one
agent are beyond TLC with liveness, and the theorems of section 5 are about any
number of them.

`CHECK_DEADLOCK FALSE` in every cfg: all of these systems come to rest when no
call is outstanding and nothing is sent.

### Fairness

* `ConnectionRuntime`: weak fairness of the Worker and of each call that began:
  threads are scheduled. Calls need not be made, and timeouts need not fire.
* `AgentEvents`: weak fairness of each callback and consumer inside an operation.
  A timeout, `close` and a new callback are not fair.
* `StreamReceive`: weak fairness of the Worker, of the reader, of the arrival of
  data the peer may send and of the credit it learns (QUIC sends again what was
  lost). Failures and timeouts are not fair.
* `WriteFlow`: weak fairness of the writer, the Worker, of acknowledgements, of
  the peer that raises its limit, and of the close of the stream. Failures and
  timeouts are not.
* `SendPath`: weak fairness of the Worker, of time, and of the socket that
  drains. New packets and failures are not.
* `FileTransfer`: weak fairness of each side's calls, of the server's return, and
  of the arrival of FIN and acknowledgement while the peer is up (QUIC sends them
  again). Deadlines, failures and dropping the download are not.
* `P2PSession`: weak fairness of the programs' calls, of requests that arrived, of
  the handler thread and of libjuice's gathering and checks. Deadlines, lost
  messages, closing and a handler that returns are not.
* `DatapathReceive`: weak fairness of `poll()` while the socket is readable (it is
  level-triggered) and of libjuice's processing; strong fairness of the receive
  call, since a socket that reports an error does not report one every time
  (`KeepsReading` of `FairReceive`; `DatapathSend` needs none).
* `QUICSession`: weak fairness of libjuice's thread, of the steps of a call, and of
  the timer; strong fairness of the Worker's receive, send and timer operations,
  which `KeepsServing` of `ConnectionRuntime` provides; strong fairness of a send
  that arrives and of the peer's retransmission: the network does not lose
  everything. Nothing makes the application call, close or give up, nor the owner
  close the agent.

No run spends a property on `TypeOK`. It is proved for `ConnectionRuntime`,
`AgentEvents`, `StreamReceive`, `DatapathSend`, `FileTransfer`, `QUICSession` and
`SendPath`, and the types of `WriteFlow`, `P2PSession`, `DatapathReceive` and `Buffers`
are part of their inductive invariants.

### What the runs show beyond "it holds"

* `writeOnePacket` puts the FIN on the last data frame when the FIN was requested
  before that data was sent (`Connection.cpp:457`), so the FIN of an empty write
  is not always in an empty frame, as the comment at `QUIC.py:265` has it, and
  its acknowledgement is then not reported by itself. The code is safe: the close
  of the stream tells the writer, which is `WriterDone`.
* A consumer of the agent that asks for no events at all (`maxEvents` of 0) takes
  the wake token and puts it back, and can keep it from another one for ever.
  No caller in this repository does, so the limits of `tokens` begin with 1.
* `CallsReturn` and `KeepsServing` are about a Worker that is not stopped. What is
  queued behind its exit is not executed any more.
* `empty_datagram` (finding): of a batch, POSIX passes an empty datagram on to
  libjuice, where patch 0004 takes it for a broken hook and finishes the socket.
  A single receive passes over it, and so does Windows.
* On Windows the rest of a joined buffer waits when the poll loop ends at its
  limit of 1000 datagrams: it is handed over when the next datagram makes the
  socket readable. `Drained` is therefore about the socket, not about that rest.
* A `gather` that timed out while a mapping was asked for, and is called again
  after libjuice finished gathering, fails in `holdGathering` every time.
* A client whose connection is lost between its completion and the close of the
  stream raises, although the server counts the transfer as complete.
* An answer that is served after the publisher was closed makes an agent that
  nothing closes, unless a handler makes its transport of it. A handler that was
  past its wait when the publisher was closed gets a transport without an agent,
  whose `close` raises in the handler's `finally`. `NothingLeft` is about the agents
  that gathered and connected.
* After `Connect` the port mapping is given back while the transport that may be
  using the mapped candidate lives on.
* An operation that passed the check of `stopped_` may be executed on a
  connection that stopped meanwhile; `NoStrandedCall` and `CallsReturn` hold since
  the run that follows drains it or the caller's timeout ends the wait. After
  `Worker::stop` nothing follows, and only the timeout does.
* In `processReceive` the branch that queues the flush again (`Connection.cpp:1077`)
  cannot be reached.
* While a send is kept and ngtcp2's timer stays due, the Worker goes through
  expiry, flush and refusal without pause until the socket drains.

* A datagram of an earlier session on the same path can fail a new one: a client
  that has not started, and a server whose first datagram is no Initial, throw
  ("client not initialized", "invalid QUIC Initial packet") and stop; a server
  whose first datagram is an old Initial is tied to a handshake that never
  completes. `HandshakeCompletes` excepts sessions that read such a datagram.
* A start or close that times out detaches while the Worker may be in a send, and
  `closeAgent` with a session open destroys libjuice's agent under it: the check
  at `P2P.c:385` has no lock. `SendsReachLiveAgent` excepts both. The order the
  program keeps (sessions closed before their agent) avoids the second.
* A start that gave up leaves its operation queued. If it is executed before the
  next start, that one is refused as started already.

## 5. The proofs

All proofs are for every value of the constants that meets the named assumption
of the module (`ConstantsAssumption`, `AgentAssumption`, `WindowAssumption`,
`WriteAssumption`, `TransferAssumption`, `ReceiveAssumption`, `BufferAssumption`, the
`SessionAssumption` of `P2PSession` and of `QUICSession`, and the `SendAssumption` of
`SendPath` and of `DatapathSend`), which TLC evaluates in the runs.

* `ConnectionRuntimeProofs`. `TypeCorrect`; `SchedulingCorrect`: a connection is
  in the Worker's queue at most once and exactly while somebody is responsible
  for it, no wakeup is lost, the Worker does not park on work. The inductive
  invariant is `SchedulingInv`: `sched[c] = "Queued"` exactly when the connection
  is in the queue, is being put there by one call or one Worker step, or has just
  been taken; without that "exactly one" the queue could hold a connection
  twice although every step looks right. Step lemmas: one per group of
  call steps, one per Worker step.
  `CallCorrect`, `StartCorrect`, `ReceiveCorrect` and `TimersCorrect` rest on it and
  on a second inductive invariant, `DeliveryInv`: `Addressed` (an operation is in
  the mailbox of its call's connection and is the one that call queues), `Waiting`
  (a call without an answer has its operation on the way), `Starts` (a start was
  answered well only after the connection had started, and the Worker completes
  only the first), `Receiving` (a set receive flag
  has a flush on its way), `Timers`, and `Draining` (only the mailbox of a stopped
  connection is thrown away). `OrderCorrect`: the runtime implements `Mailbox`'s
  safety part; each step is mapped to a step of the mailbox or a stutter.
* `AgentProofs`, of `AgentEvents`. `TypeCorrect`; `TokensCorrect` with the inductive
  `TokenInv`: a token is with exactly one of the semaphore, a process that owes
  it, and a consumer that has acquired it and not reset the flag; the
  flag covers all three. From it `NobodySleeps`: who waits while
  something is queued has a token coming. `QueuedOnceCorrect`: inductive is
  `QueuedOnce`, which also says that a callback that was not queued is nowhere.
  It rests on lemmas that count the places of an element in a sequence
  (`OccurrencesConcat`, `OccurrencesCut`), proved with a bijection of indices.
* `AgentProofs`, of `P2PSession`. `RolesCorrect`, `HoldCorrect` and `ResourcesCorrect`
  for any number of connectors, of which any may have mappings. One inductive
  invariant, `SetupInv`, gives all three. `Holding`: an agent's holds are counted by
  where its program is, and while it is inside, gathering is not done.
  `Owned`: a connector that has not begun has no agent, and who is over has given
  back its mapping and the agent that gathered.
  `Offering`: both sides of the publisher's agent say that it is
  controlling from the moment it gathers, and no answer arrives earlier.
  `Answering`: a connector's remote side is the publisher or unknown, and known
  only once its role is fixed. `Paired`: who is connected is connected to someone
  who described it. `OffererControls` speaks of connected agents only and is not
  inductive: that two agents about to connect have different roles
  follows from `Offering` and `Answering`, which hold long before.
* `StreamReceiveProofs`. `TypeCorrect`; `WindowCorrect`, `CreditCorrect` and
  `StallCorrect` with the inductive `CreditInv` (all bytes are somewhere between
  the peer and the release, and whoever counted them first has queued it);
  `EndCorrect` and, with `OrderInv`, `StreamCorrect`: the receive path implements
  `ByteStream`, each action mapped to a step or a stutter.
* `WriteFlowProofs`. `ProducerCorrect`, `RetentionCorrect`, `FinCorrect` and
  `AcknowledgementCorrect`, for any watermark, size of writes and number of bytes.
  The inductive invariant has six parts: `Typed`; `Writer` (what was published is
  at most what is true, and what the writer counted is at most a watermark, or a
  write, above it); `Queued` (the
  writes under way lead from `txNext` to the offset the program counted, stated
  with a function of offsets in place of a sum); `Outstanding` (`txAcked` is where
  the first outstanding frame with data begins, and the FIN is in the last frame);
  `Kept` (the chunks hold every byte that is not acknowledged); `Told` (a writer
  past its wait for the acknowledgement ended its stream with all of it
  acknowledged).
* `SendPathProofs`. `TypeCorrect`; `PacketOrderCorrect`: the packets on the wire
  are in order and once, for every size of batch, flush, budget and socket;
  `RetryCorrect`: a kept send has a retry or a flush coming. Inductive with
  `Queueing` (who is responsible for the flush), `Order` (wire, kept send, packets
  in hand and dropped ones are one run of numbers up to ngtcp2's) and `Retrying`.
  `PendingRetried` without `Queueing` is not inductive: a refused send that finds
  the flag set relies on the flush it promises being in the queue.
* `QUICSessionProofs`. `TypeCorrect`; `PointersCorrect` and `SendsCorrect` for any
  number of sessions. The inductive invariant has three parts: `Attachment` (sink,
  the call in it and binding belong to one session that is between attach and
  detach and has a reference to the agent, which it keeps while the binding is
  reset), `Answers` (a stopped connection has no
  ngtcp2 connection and sends nothing; an error in a start and any answer to a
  close mean that it stopped) and `Closing` (a session that did not give up
  detaches only when it stopped). With `Answers` a detach that waited for its
  answer comes after the last send; without it `SendsReachLiveAgent` is not
  inductive.
* `DatapathProofs`, of `DatapathSend`. `TypeCorrect`; `ProgressCorrect`: what the Worker is told
  is what the socket took, in order and once, for every size of an aggregate and
  every limit of the system call. Inductive with `Bounds` (the aggregate is a
  run), `Placed` (between calls `reported` is the wire; in the loop the wire is
  `reported` and a run of `offset` packets from `first`) and the order of the
  wire. Without `Placed` the loop's packets would be on the wire and nowhere in
  the invariant.
* `DatapathProofs`, of `DatapathReceive`. `HandedOverCorrect`, for any size of a batch,
  a joined buffer and a turn of the loop. The four places of a datagram (socket,
  rest of a joined buffer, what a call returned, libjuice) are put together to
  one sequence, `InFlight`: `Kept` says that it is in the order of the socket and
  that together with what is lost it is exactly what arrived. Most steps move a
  datagram from one part to the next and leave `InFlight` as it is. A batch that drops its
  long datagrams and a socket that is given up cut pieces out of it
  (`LoseMiddle`). `Stages` is
  what the loop relies on: on POSIX nothing waits between calls, and
  libjuice works off a result before it asks for the next. Without it a
  second call could overwrite datagrams still to be processed. `BothHandOver`
  carries the result over to the composition the run checks.
* `DatapathProofs`, of `Buffers`. `BatchesAreSequencesCorrect`, for any size of a
  buffer, a pool, its growth and what arrives. The property is about chains that a
  reader of the pointers finds (`Walk`), and no step can be judged from the pointers
  alone. `BufferInv` says that there are chains `ch`, one for each batch and one
  for the free list, such that the pointers lead through them and every
  allocated buffer is in exactly one (`Owns`), the batches have the counts and
  the tails of their chains (`Known`), and what was consumed followed by what
  the batches hold, the oldest first, is all that arrived (`Whole`). A step then is a
  step on sequences: `OwnsTake`, `OwnsJoin`, `OwnsSwap`, `OwnsRelease` and `OwnsGrow`
  show it for the pointers, for any chains; `ContentNew`, `ContentLast`, `CutGrows` and
  `InLineMoves` for what they hold. Without `Owns` a join could tie a chain to
  itself, and without its disjointness an append to one batch could change
  another. The two facts by induction (what `FlattenSeq` yields, and that `Walk`
  follows a chain to its end) are proved with a set of numbers in the place of
  the induction predicate (`Induction`). `WithinArraysCorrect`: the payload and the
  entries of a buffer stay within their arrays and every offset is one of the
  payload, which the static_assert of `Buffer.h` takes for granted when it lets 16
  bits do for it. It needs that the entries of every buffer, free or in a batch,
  lie within the payload array (`EntriesFit`), and `BufferInv` for the types. No run
  lists it.
* `FileTransferProofs`. `TypeCorrect`; `ConsumedCorrect` and `WholeFileCorrect`: what
  is counted was consumed, and is the file from the offset to its end, for every
  length and offset. The inductive invariant has three parts: `ClientInv` (the
  completion is the second line, and exists only when the program consumed an
  ended download), `ServerInv` (nothing is sent before the request or after the
  end, and counting needs the second line) and `FileInv` (what was sent is the
  file from the offset on). It rests on `ByteStream`, which `StreamCorrect` shows
  the receive path to implement: that an end is announced only after everything
  was handed over.

Only model-checked: liveness (`CallsReturn`, `StopJoins`, the fairness part of
`KeepsServing`, `WaiterWoken`, `StreamEnds`, `WriterDone`, `BacklogDrains`,
`TransferCompletes`, `PeersMeet`, `Drained`, `HandshakeCompletes`), since the prover
has no rules for ENABLED here. Every invariant of a passing run is proved.

## 6. What is not modelled, and why

* ngtcp2, GnuTLS, libjuice, libplum, sockets: external, modelled from how the
  code uses them. `QUICSession` says when a send may run while `closeAgent` destroys
  libjuice's agent; what that does to its memory is out of reach.
* Allocation failures: of Python in the middle of a drain or a read (`P2P.c:939`,
  `Quic.cpp:385`, listed as a hazard), and of the pools.
* A datagram of more than 65535 bytes in `Buffer.cpp`, which UDP has not, and in the
  receive hook of Windows the change of the socket with datagrams kept
  (`DatapathWindows.cpp:137`) and the errors of address lengths.
* In `QUICSession` what ends a connection by time: errors of ngtcp2 on expiry and its
  idle close (`Connection.cpp:1191`, `1280`).
* Credentials, diagnostics, logging, build: no state the program acts on.
* TCP connector: one thread probes one endpoint after the other, with nothing
  shared; `TryTCP` of `P2PSession` is what it comes to.
* Configuration (settings are read once and validated), the round-robin choice of
  a Worker (a connection stays with the one it got, so one Worker is a complete
  system), `TCPPublisher` (a listening socket and an HTTP handler of the standard
  library), the wait for UDP by a thread of the application.
* `limitDatagramSize` beyond a send that is too large; the argument conversions of
  `Quic.cpp` and `P2P.c`.
