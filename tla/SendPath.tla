------------------------------- MODULE SendPath -------------------------------
(***************************************************************************)
(* How the packets of one connection reach the socket: the flush that asks   *)
(* ngtcp2 for packets and hands them to libjuice, the send the socket refused *)
(* and the timer that tries it again.                                        *)
(*                                                                           *)
(* A flush runs on the Worker and is one operation, but it makes many system *)
(* calls, so it is a loop here: flushPendingTransportSend first, then a       *)
(* batch of packets at a time (a single packet when aggregation is off).     *)
(* What ngtcp2 has to send, and the room in the socket's buffer, are         *)
(* external; both may change between two calls.  Packets are the numbers     *)
(* 1, 2, ... in the order in which ngtcp2 wrote them.                        *)
(*                                                                           *)
(* Time passes in ticks.  A deadline is the number of ticks left, and it is  *)
(* due at zero.                                                              *)
(***************************************************************************)
EXTENDS Integers, Sequences, FiniteSets

CONSTANTS
  Packets,            \* how many packets ngtcp2 writes at most
  MaxBatch,           \* the most packets of one aggregate; 1 without aggregation
  MaxPacketsPerFlush, \* kMaxPacketsPerFlush
  OperationBudget,    \* Worker.cpp's kConnectionOperationBudget
  RetryDelay,         \* kSendRetryDelayNS, in ticks
  SocketRoom          \* how many packets the socket's buffer holds

ASSUME SendAssumption ==
  /\ Packets \in Nat
  /\ {MaxBatch, MaxPacketsPerFlush, OperationBudget, RetryDelay, SocketRoom} \subseteq Nat \ {0}

Infinite == RetryDelay + 1

Deadline == 0..Infinite

\* The earlier of two deadlines.
Earlier(a, b) == IF a <= b THEN a ELSE b

VARIABLES
  operations,    \* the operations queued for the connection
  sendPending,   \* sendOperationPending_
  wpc,           \* where the Worker is
  processed,     \* operations executed in this run
  written,       \* packets written in this flush
  pending,       \* pendingSend_, the packets left of a send the socket refused
  retry,         \* sendRetryExpiry_
  wheel,         \* the connection's entry in the TimerWheel
  stopped,       \* stopped_
  expiry,        \* ngtcp2_conn_get_expiry2 (external)
  next,          \* the packet ngtcp2 writes next (external)
  backlog,       \* how many packets ngtcp2 has to send (external)
  room,          \* how many packets the socket takes now (external)
  wire,          \* the packets the socket took, in order (external)
  dropped        \* the packets given up as too large

queueVars == <<operations, sendPending>>
workerVars == <<wpc, processed, written>>
ngtcp2Vars == <<expiry, next, backlog>>
socketVars == <<room, wire>>
vars == <<queueVars, workerVars, pending, retry, wheel, stopped, ngtcp2Vars, socketVars, dropped>>

Init ==
  /\ operations = <<>>
  /\ sendPending = FALSE
  /\ wpc = "idle"
  /\ processed = 0
  /\ written = 0
  /\ pending = <<>>
  /\ retry = Infinite
  /\ wheel = Infinite
  /\ stopped = FALSE
  /\ expiry = Infinite
  /\ next = 1
  /\ backlog = 0
  /\ room = SocketRoom
  /\ wire = <<>>
  /\ dropped = {}

Numbers(first, count) == [i \in 1..count |-> first + i - 1]
Members(s) == {s[i] : i \in DOMAIN s}
Drop(s, n) == SubSeq(s, n + 1, Len(s))

\* queueSendFlush.
QueueSendFlush(queue) ==
  /\ operations' = IF sendPending THEN queue ELSE Append(queue, "FlushSend")
  /\ sendPending' = TRUE

(***************************************************************************)
(* The rest of the connection and the outside.                               *)
(***************************************************************************)

\* A write of the application or a packet of the peer is queued, one at a time ...
Offer ==
  /\ ~stopped
  /\ next + backlog <= Packets
  /\ \A i \in DOMAIN operations : operations[i] # "Offered"
  /\ operations' = Append(operations, "Offered")
  /\ UNCHANGED <<sendPending, workerVars, pending, retry, wheel, stopped, ngtcp2Vars, socketVars,
                 dropped>>

\* The socket sends what it holds.
Drain ==
  /\ room < SocketRoom
  /\ room' \in (room + 1)..SocketRoom
  /\ UNCHANGED <<queueVars, workerVars, pending, retry, wheel, stopped, ngtcp2Vars, wire, dropped>>

Later(deadline) == IF deadline \in {0, Infinite} THEN deadline ELSE deadline - 1

Tick ==
  /\ \E deadline \in {retry, wheel, expiry} : deadline \notin {0, Infinite}
  /\ retry' = Later(retry)
  /\ wheel' = Later(wheel)
  /\ expiry' = Later(expiry)
  /\ UNCHANGED <<queueVars, workerVars, pending, stopped, next, backlog, socketVars, dropped>>

\* An operation throws: libjuice fails, ngtcp2 fails, the connection is closed.
Fail ==
  /\ wpc # "idle"
  /\ stopped' = TRUE
  /\ operations' = <<>>
  /\ wheel' = Infinite
  /\ wpc' = "idle"
  /\ UNCHANGED <<sendPending, processed, written, pending, retry, ngtcp2Vars, socketVars, dropped>>

(***************************************************************************)
(* The Worker.                                                               *)
(***************************************************************************)

\* processTimers: the entry leaves the wheel, the connection gets an operation.
ExpireTimer ==
  /\ wpc = "idle"
  /\ wheel = 0
  /\ wheel' = Infinite
  /\ operations' = Append(operations, "TimerExpired")
  /\ UNCHANGED <<sendPending, workerVars, pending, retry, stopped, ngtcp2Vars, socketVars, dropped>>

BeginRun ==
  /\ wpc = "idle"
  /\ wheel # 0
  /\ operations # <<>>
  /\ wpc' = "run"
  /\ processed' = 0
  /\ UNCHANGED <<queueVars, written, pending, retry, wheel, stopped, ngtcp2Vars, socketVars, dropped>>

Begin(type) ==
  /\ wpc = "run"
  /\ processed < OperationBudget
  /\ operations # <<>>
  /\ Head(operations) = type
  /\ processed' = processed + 1

\* ... and when it is processed ngtcp2 has something to send, and a flush is queued.
ProcessOffered ==
  /\ Begin("Offered")
  /\ backlog' \in (backlog + 1)..(Packets + 1 - next)
  /\ QueueSendFlush(Tail(operations))
  /\ UNCHANGED <<wpc, written, pending, retry, wheel, stopped, expiry, next, socketVars, dropped>>

\* mutant: a due retry is cleared, and only ngtcp2's timer becomes a flush.
ProcessTimerOfNgtcp2 ==
  /\ Begin("TimerExpired")
  /\ retry' = IF retry = 0 THEN Infinite ELSE retry
  /\ IF expiry = 0
       THEN QueueSendFlush(Tail(operations))
       ELSE operations' = Tail(operations) /\ UNCHANGED sendPending
  /\ UNCHANGED <<wpc, written, pending, wheel, stopped, ngtcp2Vars, socketVars, dropped>>

\* processTimer: a due retry is cleared and becomes a flush, and so does the
\* expired timer of ngtcp2, which stays due until ngtcp2 writes again.
ProcessTimer ==
  /\ Begin("TimerExpired")
  /\ retry' = IF retry = 0 THEN Infinite ELSE retry
  /\ IF retry = 0 \/ expiry = 0
       THEN QueueSendFlush(Tail(operations))
       ELSE operations' = Tail(operations) /\ UNCHANGED sendPending
  /\ UNCHANGED <<wpc, written, pending, wheel, stopped, ngtcp2Vars, socketVars, dropped>>

ProcessSendFlush ==
  /\ Begin("FlushSend")
  /\ operations' = Tail(operations)
  /\ sendPending' = FALSE
  /\ written' = 0
  /\ wpc' = IF pending = <<>> THEN "flush" ELSE "retry"
  /\ UNCHANGED <<pending, retry, wheel, stopped, ngtcp2Vars, socketVars, dropped>>

\* What libjuice reports for a send: how many packets the socket took, and why
\* it took no more.  An aggregate stops between two packets.
Outcome(packets) ==
  [sent : 0..Earlier(room, Len(packets)), status : {"Complete", "Blocked", "TooLarge"}]

Possible(packets, outcome) ==
  /\ (outcome.status = "Complete") <=> (outcome.sent = Len(packets))
  /\ outcome.status = "Blocked" => outcome.sent = room

\* sendTransportOnce.
Transmit(packets, outcome) ==
  /\ outcome \in Outcome(packets)
  /\ Possible(packets, outcome)
  /\ wire' = wire \o SubSeq(packets, 1, outcome.sent)
  /\ room' = room - outcome.sent

\* mutant: all of a send that was refused in the middle is kept.
SettleWhole(packets, outcome) ==
  LET rest == Drop(packets, outcome.sent)
  IN IF outcome.status = "Blocked"
       THEN pending' = packets /\ retry' = RetryDelay /\ UNCHANGED dropped
       ELSE pending' = <<>> /\ retry' = Infinite /\ dropped' = dropped \cup Members(rest)

\* mutant: the retry is scheduled for the first refusal only.
SettleOnce(packets, outcome) ==
  LET rest == Drop(packets, outcome.sent)
  IN IF outcome.status = "Blocked"
       THEN /\ pending' = rest
            /\ retry' = IF pending = <<>> THEN RetryDelay ELSE retry
            /\ UNCHANGED dropped
       ELSE pending' = <<>> /\ retry' = Infinite /\ dropped' = dropped \cup Members(rest)

\* The retry is scheduled or cleared, and the packets behind the ones that were
\* sent are kept or given up.
Settle(packets, outcome) ==
  LET rest == Drop(packets, outcome.sent)
  IN IF outcome.status = "Blocked"
       THEN pending' = rest /\ retry' = RetryDelay /\ UNCHANGED dropped
       ELSE pending' = <<>> /\ retry' = Infinite /\ dropped' = dropped \cup Members(rest)

\* flushPendingTransportSend: a flush goes no further while it is blocked.
FlushPendingTransportSend ==
  /\ wpc = "retry"
  /\ \E outcome \in Outcome(pending) :
       /\ Transmit(pending, outcome)
       /\ Settle(pending, outcome)
       /\ wpc' = IF outcome.status = "Blocked" THEN "run" ELSE "flush"
  /\ UNCHANGED <<queueVars, processed, written, wheel, stopped, ngtcp2Vars>>

\* ngtcp2 writes a batch and the socket gets it.  sendTransportBuffer starts no
\* send while another one is pending.
WriteBatch ==
  /\ wpc = "flush"
  /\ written < MaxPacketsPerFlush
  /\ expiry \in {0, Infinite}
  /\ \E count \in 1..Earlier(MaxBatch, Earlier(MaxPacketsPerFlush - written, backlog)) :
       LET batch == Numbers(next, count)
       IN /\ next' = next + count
          /\ backlog' = backlog - count
          /\ written' = written + count
          /\ \E outcome \in Outcome(batch) :
               /\ Transmit(batch, outcome)
               /\ Settle(batch, outcome)
               /\ wpc' = IF outcome.status = "Blocked" THEN "run" ELSE "flush"
  /\ expiry' = Infinite
  /\ UNCHANGED <<queueVars, processed, wheel, stopped>>

\* ngtcp2 has nothing to write, or paces and sets its timer.
NothingWritten ==
  /\ wpc = "flush"
  /\ written < MaxPacketsPerFlush
  /\ \/ backlog = 0 /\ UNCHANGED expiry
     \/ backlog > 0 /\ expiry = Infinite /\ expiry' = RetryDelay
     \/ backlog > 0 /\ expiry \notin {0, Infinite} /\ UNCHANGED expiry
  /\ wpc' = "run"
  /\ UNCHANGED <<queueVars, processed, written, pending, retry, wheel, stopped, next, backlog,
                 socketVars, dropped>>

\* The packets of one flush are used up: the rest is for the next.
BudgetExhausted ==
  /\ wpc = "flush"
  /\ written = MaxPacketsPerFlush
  /\ QueueSendFlush(operations)
  /\ wpc' = "run"
  /\ UNCHANGED <<processed, written, pending, retry, wheel, stopped, ngtcp2Vars, socketVars, dropped>>

\* The run ends; the timer is set to what is due first.
EndRun ==
  /\ wpc = "run"
  /\ operations = <<>> \/ processed = OperationBudget
  /\ wheel' = IF stopped THEN Infinite ELSE Earlier(expiry, retry)
  /\ wpc' = "idle"
  /\ UNCHANGED <<queueVars, processed, written, pending, retry, stopped, ngtcp2Vars, socketVars, dropped>>

WorkerStep ==
  \/ ExpireTimer \/ BeginRun \/ ProcessOffered \/ ProcessTimer \/ ProcessSendFlush
  \/ FlushPendingTransportSend \/ WriteBatch \/ NothingWritten \/ BudgetExhausted \/ EndRun

Next == WorkerStep \/ Offer \/ Drain \/ Tick \/ Fail

Spec == Init /\ [][Next]_vars

\* The Worker goes on, time passes and the socket sends what it was given.
FairSpec == Spec /\ WF_vars(WorkerStep) /\ WF_vars(Tick) /\ WF_vars(Drain)

(***************************************************************************)
(* Properties.                                                               *)
(***************************************************************************)

Flushes == {i \in DOMAIN operations : operations[i] = "FlushSend"}

\* The variables have their types; sendOperationPending_ says whether a flush is
\* queued, and no more than one is.
TypeOK ==
  /\ operations \in Seq({"Offered", "TimerExpired", "FlushSend"})
  /\ wpc \in {"idle", "run", "retry", "flush"}
  /\ processed \in 0..OperationBudget
  /\ written \in 0..MaxPacketsPerFlush
  /\ {retry, wheel, expiry} \subseteq Deadline
  /\ {sendPending, stopped} \subseteq BOOLEAN
  /\ next \in 1..(Packets + 1)
  /\ backlog \in 0..Packets
  /\ room \in 0..SocketRoom
  /\ Members(pending) \cup Members(wire) \cup dropped \subseteq 1..Packets
  /\ \A i, j \in Flushes : i = j
  /\ ~stopped => (sendPending <=> Flushes # {})

\* The packets ngtcp2 wrote are on the wire, pending or given up as too large,
\* each once, and the first two in the order in which they were written.
PacketOrder ==
  LET kept == wire \o pending
  IN /\ \A i, j \in DOMAIN kept : i < j => kept[i] < kept[j]
     /\ Members(kept) \cup dropped = 1..(next - 1)
     /\ Members(kept) \cap dropped = {}

\* A send the socket refused is tried again: when the connection has nothing
\* else to do, its timer is set, and not later than the retry.
PendingRetried ==
  ~stopped /\ wpc = "idle" /\ operations = <<>> /\ pending # <<>> =>
    retry <= RetryDelay /\ wheel <= retry

\* As long as the socket sends what it was given, everything ngtcp2 has to send
\* is sent.
BacklogDrains ==
  (backlog > 0 \/ pending # <<>>) ~> ((backlog = 0 /\ pending = <<>>) \/ stopped)
=============================================================================
