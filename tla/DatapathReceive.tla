--------------------------- MODULE DatapathReceive ---------------------------
(***************************************************************************)
(* How datagrams come from a UDP socket to libjuice: the receive hook of      *)
(* DatapathPOSIX.cpp and DatapathWindows.cpp, called by the poll thread in    *)
(* the loop that patch 0004 puts into libjuice.                              *)
(*                                                                           *)
(* A call returns several datagrams: POSIX takes them with one system call,   *)
(* Windows takes one buffer in which the system joined a run of datagrams of  *)
(* one sender, and keeps the part that libjuice had no room for.  Each can    *)
(* fall back to single receives, POSIX in the middle of a call.  Datagrams    *)
(* are numbered in the order in which the socket queued them.  An empty one   *)
(* and one longer than the receive buffer have a shape of their own.          *)
(***************************************************************************)
EXTENDS Naturals, Sequences, SequencesExt

CONSTANTS
  Capacity,      \* JUICE_UDP_RECV_BATCH_CAPACITY (64)
  Fairness,      \* datagrams the loop takes from one socket at a time (1000)
  MaxCoalesced,  \* datagrams the system joins at most (external)
  MaxDatagrams   \* bound: datagrams that ever arrive

ASSUME ReceiveAssumption ==
  /\ {Capacity, Fairness, MaxCoalesced} \subseteq Nat \ {0}
  /\ MaxDatagrams \in Nat

ReceiveBackend == {"posix", "windows"}
Shape == {"plain", "empty", "long"}
Datagram == [id : 1..MaxDatagrams, shape : Shape]

VARIABLES
  receiver,   \* which DatapathBackend was built
  batching,   \* receiveBatchingEnabled_, coalescingEnabled_
  socket,     \* the datagrams in the socket's buffer (external)
  arrived,    \* how many there were (external)
  pending,    \* pendingBytes_ and pendingOffset_: the rest of a joined buffer
  returned,   \* the datagrams of the last call that libjuice has not processed
  left,       \* left of the loop
  poll,       \* where the poll thread is; "finished": the socket is given up
  delivered,  \* the datagrams handed to agent_conn_recv
  lost        \* the datagrams that never will be

hookVars == <<batching, pending>>
receiveVars == <<receiver, hookVars, socket, arrived, returned, left, poll, delivered, lost>>

ReceiveTypeOK ==
  /\ receiver \in ReceiveBackend
  /\ batching \in BOOLEAN
  /\ {socket, pending, returned, delivered} \subseteq Seq(Datagram)
  /\ arrived \in 0..MaxDatagrams
  /\ left \in 0..Fairness
  /\ poll \in {"poll", "loop", "deliver", "finished"}
  /\ lost \subseteq Datagram

ReceiveInit ==
  /\ receiver \in ReceiveBackend
  /\ batching \in BOOLEAN
  /\ socket = <<>>
  /\ arrived = 0
  /\ pending = <<>>
  /\ returned = <<>>
  /\ left = 0
  /\ poll = "poll"
  /\ delivered = <<>>
  /\ lost = {}

Smaller(a, b) == IF a < b THEN a ELSE b
First(s, n) == SubSeq(s, 1, n)
Rest(s, n) == SubSeq(s, n + 1, Len(s))

\* The receive buffer of Windows holds any datagram.
Arrive(shape) ==
  /\ arrived < MaxDatagrams
  /\ receiver = "windows" => shape # "long"
  /\ arrived' = arrived + 1
  /\ socket' = Append(socket, [id |-> arrived', shape |-> shape])
  /\ UNCHANGED <<receiver, hookVars, returned, left, poll, delivered, lost>>

\* poll() says that the socket is readable, or that it has an error to report.
Wake ==
  /\ poll = "poll"
  /\ poll' = "loop"
  /\ left' = Fairness
  /\ UNCHANGED <<receiver, hookVars, socket, arrived, returned, delivered, lost>>

-----------------------------------------------------------------------------
(* One call of the hook, with room for Room datagrams.  Errors of ICMP are    *)
(* passed over and the system call is made again.                            *)

Room == Smaller(left, Capacity)

\* Nothing to report, or an error that says so: the loop ends.
Nothing ==
  /\ poll' = "poll"
  /\ UNCHANGED <<left, returned>>

Returns(datagrams) ==
  /\ returned' = datagrams
  /\ left' = left - Len(datagrams)
  /\ poll' = "deliver"

\* What libjuice does after an error other than would-block is not in the
\* repository: it may give the socket up.
ReportsError ==
  /\ poll' \in {"poll", "finished"}
  /\ UNCHANGED <<left, returned>>

Takes(n) == socket' = Rest(socket, n)
Loses(datagrams) == lost' = lost \cup ToSet(datagrams)

\* A datagram that was cut short fails the whole batch.
ReceiveMessages ==
  /\ receiver = "posix" /\ batching
  /\ \/ socket = <<>> /\ Nothing /\ UNCHANGED <<socket, lost>>
     \/ \E n \in 1..Smaller(Room, Len(socket)) :
          /\ Takes(n)
          /\ IF \E i \in 1..n : socket[i].shape = "long"
             THEN ReportsError /\ Loses(First(socket, n))
             ELSE Returns(First(socket, n)) /\ UNCHANGED lost
  /\ UNCHANGED hookVars

\* recvfrom: an empty datagram looks like no datagram, a long one is cut.
ReceiveSingle ==
  \/ socket = <<>> /\ Nothing /\ UNCHANGED <<socket, lost>>
  \/ /\ socket # <<>>
     /\ Takes(1)
     /\ IF Head(socket).shape = "empty"
        THEN Nothing /\ Loses(First(socket, 1))
        ELSE Returns(First(socket, 1)) /\ UNCHANGED lost

ReceiveSingly == ~batching /\ pending = <<>> /\ ReceiveSingle /\ UNCHANGED hookVars

\* mutant: the call that is not supported is made again and again.
KeepTryingBatches ==
  /\ receiver = "posix" /\ batching
  /\ Nothing
  /\ UNCHANGED <<hookVars, socket, lost>>

\* ENOSYS or EOPNOTSUPP.
DisableReceiveBatching ==
  /\ receiver = "posix" /\ batching
  /\ batching' = FALSE
  /\ ReceiveSingle
  /\ UNCHANGED pending

EmitPending ==
  /\ pending # <<>>
  /\ LET n == Smaller(Room, Len(pending))
     IN /\ Returns(First(pending, n))
        /\ pending' = Rest(pending, n)
  /\ UNCHANGED <<batching, socket, lost>>

\* mutant: a new buffer is received although some of the last one is kept.
ReceiveCoalescedOver ==
  /\ receiver = "windows" /\ batching
  /\ \E n \in 1..Smaller(MaxCoalesced, Len(socket)) :
       /\ \A i \in 1..n : socket[i].shape # "empty"
       /\ Takes(n)
       /\ Returns(First(socket, Smaller(Room, n)))
       /\ pending' = Rest(First(socket, n), Smaller(Room, n))
       /\ UNCHANGED lost
  /\ UNCHANGED batching

\* Datagrams are joined only while they are not empty.
ReceiveCoalesced ==
  /\ receiver = "windows" /\ batching /\ pending = <<>>
  /\ \/ socket = <<>> /\ Nothing /\ UNCHANGED <<socket, lost, pending>>
     \/ /\ socket # <<>> /\ Head(socket).shape = "empty"
        /\ Takes(1)
        /\ Nothing
        /\ Loses(First(socket, 1))
        /\ UNCHANGED pending
     \/ \E n \in 1..Smaller(MaxCoalesced, Len(socket)) :
          /\ \A i \in 1..n : socket[i].shape # "empty"
          /\ Takes(n)
          /\ Returns(First(socket, Smaller(Room, n)))
          /\ pending' = Rest(First(socket, n), Smaller(Room, n))
          /\ UNCHANGED lost
  /\ UNCHANGED batching

\* Any other error of the socket.
SocketFails ==
  /\ pending = <<>>
  /\ ReportsError
  /\ UNCHANGED <<hookVars, socket, lost>>

Call ==
  /\ poll = "loop"
  /\ \/ ReceiveMessages \/ ReceiveSingly \/ DisableReceiveBatching
     \/ EmitPending \/ ReceiveCoalesced
  /\ UNCHANGED <<receiver, arrived, delivered>>

CallFails ==
  /\ poll = "loop"
  /\ SocketFails
  /\ UNCHANGED <<receiver, arrived, delivered>>

-----------------------------------------------------------------------------
(* libjuice processes what the call returned (patch 0004).                   *)

Finish ==
  /\ poll' = "finished"
  /\ Loses(returned)
  /\ returned' = <<>>
  /\ UNCHANGED <<receiver, hookVars, socket, arrived, left, delivered>>

\* An empty datagram is taken for a broken hook.
RejectDatagram ==
  /\ poll = "deliver"
  /\ Head(returned).shape = "empty"
  /\ Finish

\* agent_conn_recv fails (external).
AgentFails ==
  /\ poll = "deliver"
  /\ Finish

ProcessDatagram ==
  /\ poll = "deliver"
  /\ Head(returned).shape # "empty"
  /\ delivered' = Append(delivered, Head(returned))
  /\ returned' = Tail(returned)
  /\ poll' = IF Len(returned) > 1 THEN "deliver" ELSE IF left > 0 THEN "loop" ELSE "poll"
  /\ UNCHANGED <<receiver, hookVars, socket, arrived, left, lost>>

ReceiveNext ==
  \/ \E shape \in Shape : Arrive(shape)
  \/ Wake \/ Call \/ CallFails \/ RejectDatagram \/ AgentFails \/ ProcessDatagram

ReceiveSpec == ReceiveInit /\ [][ReceiveNext]_receiveVars

Readable == socket # <<>>
KeepsReading ==
  /\ WF_receiveVars(Readable /\ Wake)
  /\ SF_receiveVars(Call)
  /\ WF_receiveVars(ProcessDatagram \/ RejectDatagram)
FairReceive == ReceiveSpec /\ KeepsReading

-----------------------------------------------------------------------------
(* Properties.                                                              *)

InFlight == delivered \o returned \o pending \o socket

\* Joined, kept, split or received one by one, datagrams reach libjuice whole,
\* once and in the order of the socket, and none gets between the hook's two
\* buffers; while the socket is used a plain one is lost only on POSIX,
\* together with one that was too long (DatapathPOSIX.cpp 371-377).
HandedOver ==
  /\ \A i, j \in DOMAIN InFlight : i < j => InFlight[i].id < InFlight[j].id
  /\ {d.id : d \in ToSet(InFlight) \cup lost} = 1..arrived
  /\ ToSet(InFlight) \cap lost = {}
  /\ poll # "finished" /\ (\E d \in lost : d.shape = "plain") =>
       receiver = "posix" /\ \E d \in lost : d.shape = "long"

\* Unless libjuice gives it up, the socket is read until it is empty, through
\* every fallback and every end of the loop: the hook never leaves datagrams
\* that poll() was woken for and will not be woken for again.  It is not true
\* of the joined buffer of Windows, whose rest waits for the next datagram when
\* the loop ends at its limit (DatapathWindows.cpp 109-135).
Drained ==
  <>[](poll = "finished" \/ (socket = <<>> /\ returned = <<>> /\ (receiver = "posix" => pending = <<>>)))

\* What libjuice says of the hook when it finds an empty datagram: "UDP receive
\* batch callback returned invalid datagram" (patch 0004, line 116).
ReturnsValidDatagrams == \A i \in DOMAIN returned : returned[i].shape # "empty"
=============================================================================
