----------------------------- MODULE DatapathSend -----------------------------
(***************************************************************************)
(* What becomes of one aggregate of packets between JuiceBinding and the      *)
(* socket: the send hook of DatapathPOSIX.cpp and DatapathWindows.cpp, the    *)
(* fallbacks that patches 0003, 0005 and 0006 put into libjuice, and the      *)
(* progress that comes back to the Worker.  SendPath takes from here that an  *)
(* aggregate stops between two packets, and that it is told where.            *)
(*                                                                           *)
(* Packets are the numbers 1, 2, ... in the order in which ngtcp2 wrote       *)
(* them; an aggregate is a run of them.  Errors of the socket (external) are  *)
(* told apart as far as the code does: "again", "large", "capability" (it     *)
(* cannot segment), and "other".                                             *)
(***************************************************************************)
EXTENDS Naturals, Sequences

CONSTANTS
  Packets,      \* bound: packets that are ever written
  MaxBatch,     \* the most packets of one aggregate
  MaxSegments   \* kMaxGSOSegments (64)

ASSUME SendAssumption ==
  /\ Packets \in Nat
  /\ {MaxBatch, MaxSegments} \subseteq Nat \ {0}

Backend == {"linux", "plain", "windows"}
Error == {"again", "large", "capability", "other"}

VARIABLES
  backend,   \* the DatapathBackend: "plain" is POSIX without UDP_SEGMENT
  segments,  \* sendSegmentationEnabled_
  pc,        \* "idle", in the "hook", at the message size "option", in the "loop"; or "failed"
  first,     \* the first packet of the aggregate, or of what is left of it
  last,      \* its last packet; last < first when nothing is pending
  offset,    \* the packets the loop has sent
  reported,  \* the packets the Worker was told are sent
  wire       \* the packets the socket took, in order (external)

vars == <<backend, segments, pc, first, last, offset, reported, wire>>

TypeOK ==
  /\ backend \in Backend
  /\ segments \in BOOLEAN
  /\ pc \in {"idle", "hook", "option", "loop", "failed"}
  /\ first \in 1..(Packets + 1)
  /\ last \in 0..Packets
  /\ offset \in 0..MaxBatch
  /\ {reported, wire} \subseteq Seq(1..Packets)

\* initializeCapabilities: the probe of UDP_SEGMENT may fail on Linux.
Init ==
  /\ backend \in Backend
  /\ segments \in (IF backend = "linux" THEN BOOLEAN ELSE {FALSE})
  /\ pc = "idle"
  /\ first = 1
  /\ last = 0
  /\ offset = 0
  /\ reported = <<>>
  /\ wire = <<>>

Count == last + 1 - first
Run(start, count) == [i \in 1..count |-> start + i - 1]

\* A new aggregate, or again what was left of one.  A relayed one (agent.c) and a
\* Windows packet that is alone do not get to the hook's system calls.
SendAggregate ==
  /\ pc = "idle"
  /\ IF last < first
     THEN last' \in first..(IF first + MaxBatch - 1 < Packets THEN first + MaxBatch - 1 ELSE Packets)
     ELSE UNCHANGED last
  /\ pc' \in {"hook", "loop"}
  /\ offset' = 0
  /\ UNCHANGED <<backend, segments, first, reported, wire>>

-----------------------------------------------------------------------------
\* The result: so many packets are sent, and what stopped the rest.  Packets
\* that are too large are given up, and so is all that follows them.
Completes ==
  /\ reported' = reported \o Run(first, Count)
  /\ first' = last + 1
  /\ pc' = "idle"
  /\ UNCHANGED <<last, offset>>

Stops(error, sent) ==
  /\ reported' = reported \o Run(first, sent)
  /\ first' = IF error = "large" THEN last + 1 ELSE first + sent
  /\ pc' = IF error \in {"again", "large"} THEN "idle" ELSE "failed"
  /\ UNCHANGED <<last, offset>>

FallsBack ==
  /\ pc' = IF pc = "hook" /\ backend = "windows" /\ Count > 1 THEN "option" ELSE "loop"
  /\ UNCHANGED <<first, last, offset, reported>>

TakesAll == wire' = wire \o Run(first, Count)

Segmentable == segments /\ Count > 1 /\ Count <= MaxSegments

\* The hook does not handle it.
NotHandled ==
  /\ pc = "hook"
  /\ ~Segmentable
  /\ FallsBack
  /\ UNCHANGED <<backend, segments, wire>>

\* sendmsg with UDP_SEGMENT takes all or nothing; less than all would be EIO.
SendMessage ==
  /\ pc = "hook"
  /\ Segmentable
  /\ \/ TakesAll /\ Completes /\ UNCHANGED segments
     \/ \E error \in Error \ {"capability"} : Stops(error, 0) /\ UNCHANGED <<segments, wire>>
     \/ segments' = FALSE /\ FallsBack /\ UNCHANGED wire
     \/ \E n \in 1..(Count - 1) :
          /\ wire' = wire \o Run(first, n)
          /\ Stops("other", 0)
          /\ UNCHANGED segments
  /\ UNCHANGED backend

\* UDP_SEND_MSG_SIZE of Windows, which may be refused.
SendWithMessageSize ==
  /\ pc = "option"
  /\ \/ TakesAll /\ Completes
     \/ \E error \in {"again", "other"} : Stops(error, 0) /\ UNCHANGED wire
     \/ FallsBack /\ UNCHANGED wire
  /\ UNCHANGED <<backend, segments>>

\* mutant: an error in the loop says nothing of what was sent before it.
SendSegmentWithoutProgress ==
  /\ pc = "loop"
  /\ \/ /\ wire' = Append(wire, first + offset)
        /\ IF offset + 1 = Count
           THEN Completes
           ELSE offset' = offset + 1 /\ UNCHANGED <<pc, first, last, reported>>
     \/ \E error \in Error : Stops(error, 0) /\ UNCHANGED wire
  /\ UNCHANGED <<backend, segments>>

\* The loop: a sendto for each packet.
SendSegment ==
  /\ pc = "loop"
  /\ \/ /\ wire' = Append(wire, first + offset)
        /\ IF offset + 1 = Count
           THEN Completes
           ELSE offset' = offset + 1 /\ UNCHANGED <<pc, first, last, reported>>
     \/ \E error \in Error : Stops(error, offset) /\ UNCHANGED wire
  /\ UNCHANGED <<backend, segments>>

Next == SendAggregate \/ NotHandled \/ SendMessage \/ SendWithMessageSize \/ SendSegment

Spec == Init /\ [][Next]_vars

-----------------------------------------------------------------------------
\* However an aggregate was sent, and through every fallback, between two calls
\* the Worker knows exactly which packets the socket took: no packet is sent
\* again by a retry, none is skipped but for its size, and they leave in the order
\* in which they were written (Connection.cpp 1356-1421 relies on it).
ProgressExact ==
  /\ pc = "idle" => reported = wire
  /\ \A i, j \in DOMAIN wire : i < j => wire[i] < wire[j]
  /\ pc = "idle" /\ first <= last => \A i \in DOMAIN wire : wire[i] < first
=============================================================================
