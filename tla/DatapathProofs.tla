---------------------------- MODULE DatapathProofs ----------------------------
(***************************************************************************)
(* Proofs about the two directions of a datapath and about its buffers.      *)
(*                                                                           *)
(* DatapathSend: that the progress of an aggregate is exact, for every       *)
(* number of packets, every size of an aggregate and every limit of the      *)
(* system call.  DatapathReceive: that datagrams are handed over once and in *)
(* order, for every size of a batch, of a joined buffer and of the loop.     *)
(* Buffers: that batches are sequences, for every size of a buffer and of a  *)
(* pool.  The chains are named, and what the pointers say of them is kept.   *)
(***************************************************************************)
EXTENDS Datapath, Buffers, SequenceTheorems, FiniteSetTheorems, WellFoundedInduction, TLAPS

Increasing(s) == \A i, j \in DOMAIN s : i < j => s[i] < s[j]
Below(s, n) == \A i \in DOMAIN s : s[i] < n

\* What the loop has sent is not reported yet; where nothing is under way the
\* next packet is the first one that is not on the wire.
Placed ==
  /\ pc \in {"hook", "option", "loop"} => first <= last
  /\ pc \in {"hook", "option"} => offset = 0
  /\ pc # "loop" => pc = "failed" \/ (reported = wire /\ Below(wire, first))
  /\ pc = "loop" =>
       /\ offset < Count
       /\ wire = reported \o Run(first, offset)
       /\ Increasing(reported)
       /\ Below(reported, first)

Bounds == first <= last + 1 /\ Count <= MaxBatch

IInv == TypeOK /\ Bounds /\ Placed /\ Increasing(wire)

\* A run of packets has its numbers, in order.
LEMMA RunIsRun ==
  ASSUME NEW f \in Nat, NEW n \in Nat
  PROVE  /\ Run(f, n) \in Seq(Nat)
         /\ Len(Run(f, n)) = n
         /\ \A i \in 1..n : Run(f, n)[i] = f + i - 1
  BY DEF Run

\* What is put behind lower numbers keeps the order.
LEMMA RunKeepsOrder ==
  ASSUME NEW s \in Seq(Nat), NEW f \in Nat, NEW n \in Nat, Increasing(s), Below(s, f)
  PROVE  /\ s \o Run(f, n) \in Seq(Nat)
         /\ Increasing(s \o Run(f, n))
         /\ Below(s \o Run(f, n), f + n)
<1> DEFINE r == Run(f, n)
           t == s \o r
<1>1. r \in Seq(Nat) /\ Len(r) = n /\ \A i \in 1..n : r[i] = f + i - 1
  BY RunIsRun
<1> HIDE DEF r
<1>2. t \in Seq(Nat) /\ Len(t) = Len(s) + n
  BY <1>1, ConcatProperties
<1>3. \A i \in 1..Len(s) : t[i] = s[i] /\ t[i] < f
  BY <1>1 DEF Below
<1>4. \A i \in (Len(s) + 1)..Len(t) : t[i] = f + (i - Len(s)) - 1
  <2> TAKE i \in (Len(s) + 1)..Len(t)
  <2>1. i - Len(s) \in 1..n /\ i \in Nat
    BY <1>2
  <2>2. t[i] = r[i - Len(s)]
    BY <1>1, <1>2, <2>1
  <2> QED BY <1>1, <2>1, <2>2
<1>5. \A i, j \in 1..Len(s) : i < j => s[i] < s[j]
  BY DEF Increasing
<1> HIDE DEF t
<1>6. \A i \in 1..Len(s) : s[i] \in Nat
  OBVIOUS
<1>7. Increasing(t)
  <2> SUFFICES ASSUME NEW i \in 1..Len(t), NEW j \in 1..Len(t), i < j
               PROVE  t[i] < t[j]
    BY <1>2 DEF Increasing
  <2>1. CASE j <= Len(s)
    <3>1. i \in 1..Len(s) /\ j \in 1..Len(s)
      BY <2>1
    <3> QED BY <1>3, <1>5, <3>1
  <2>2. CASE i <= Len(s) /\ j > Len(s)
    <3>1. i \in 1..Len(s) /\ j \in (Len(s) + 1)..Len(t)
      BY <2>2
    <3> QED BY <1>3, <1>4, <1>6, <3>1
  <2>3. CASE i > Len(s)
    <3>1. i \in (Len(s) + 1)..Len(t) /\ j \in (Len(s) + 1)..Len(t)
      BY <2>3
    <3> QED BY <1>4, <3>1
  <2> QED BY <2>1, <2>2, <2>3
<1>8. Below(t, f + n)
  <2> SUFFICES ASSUME NEW i \in 1..Len(t) PROVE t[i] < f + n
    BY DEF Below
  <2>1. Len(s) \in Nat /\ Len(t) = Len(s) + n
    BY <1>2
  <2>2. CASE i <= Len(s)
    <3>1. t[i] = s[i] /\ t[i] < f /\ s[i] \in Nat
      BY <1>3, <1>6, <2>1, <2>2
    <3> QED BY <3>1
  <2>3. CASE i > Len(s)
    <3>1. t[i] = f + (i - Len(s)) - 1
      BY <1>4, <2>1, <2>3
    <3> QED BY <2>1, <2>3, <3>1
  <2> QED BY <2>2, <2>3
<1> QED BY <1>2, <1>7, <1>8 DEF t, r

\* One packet more makes the run longer by one.
LEMMA RunGrows ==
  ASSUME NEW s \in Seq(Nat), NEW f \in Nat, NEW n \in Nat
  PROVE  Append(s \o Run(f, n), f + n) = s \o Run(f, n + 1)
<1>1. Run(f, n + 1) = Append(Run(f, n), f + n)
  BY DEF Run
<1>2. Run(f, n) \in Seq(Nat)
  BY RunIsRun
<1> DEFINE r == Run(f, n)
<1> HIDE DEF r
<1>3. r \in Seq(Nat) /\ <<f + n>> \in Seq(Nat)
  BY <1>2 DEF r
<1>4. Append(r, f + n) = r \o <<f + n>>
  BY <1>3, AppendIsConcat
<1>5. Append(s \o r, f + n) = (s \o r) \o <<f + n>>
  BY <1>3, AppendIsConcat, ConcatProperties
<1>6. (s \o r) \o <<f + n>> = s \o (r \o <<f + n>>)
  BY <1>3, ConcatAssociative
<1> QED BY <1>1, <1>4, <1>5, <1>6 DEF r

\* Nothing is a run of no packets.
LEMMA RunOfNone ==
  ASSUME NEW s \in Seq(Nat), NEW f \in Nat
  PROVE  s \o Run(f, 0) = s
  BY RunIsRun DEF Run

-----------------------------------------------------------------------------
(***************************************************************************)
(* The invariant.  Every way of sending either reports what it put on the     *)
(* wire, or is the loop, whose offset says how much it will report.          *)
(***************************************************************************)

\* The packets of the aggregate, and each part of it, are ordinary numbers.
LEMMA Parts ==
  ASSUME TypeOK, Bounds
  PROVE  /\ first \in Nat /\ last \in Nat /\ Count \in Nat
         /\ Count <= MaxBatch /\ first + Count = last + 1
         /\ wire \in Seq(Nat) /\ reported \in Seq(Nat)
<1>1. Packets \in Nat /\ MaxBatch \in Nat
  BY SendAssumption
<1>2. first \in Nat /\ last \in Nat /\ first <= last + 1
  BY <1>1 DEF TypeOK, Bounds
<1>3. wire \in Seq(Nat) /\ reported \in Seq(Nat)
  <2>1. 1..Packets \subseteq Nat
    BY <1>1
  <2>2. Seq(1..Packets) \subseteq Seq(Nat)
    BY <2>1, SeqMonotonic
  <2> QED BY <2>2 DEF TypeOK
<1> QED BY <1>2, <1>3 DEF Bounds, Count

\* A part of the aggregate is made of packets that exist.
LEMMA PartIsTyped ==
  ASSUME TypeOK, Bounds, NEW n \in Nat, n <= Count
  PROVE  Run(first, n) \in Seq(1..Packets)
<1>1. \A i \in 1..n : first + i - 1 \in 1..Packets
  BY Parts, SendAssumption DEF TypeOK, Bounds, Count
<1> QED BY <1>1 DEF Run

\* Nothing is sent at first.
LEMMA InitInv == Init => IInv
<1> SUFFICES ASSUME Init PROVE IInv
  OBVIOUS
<1> USE DEF Init
<1>1. <<>> \in Seq(1..Packets) /\ DOMAIN <<>> = {}
  OBVIOUS
<1>2. TypeOK
  <2>1. segments \in BOOLEAN
    BY Zenon
  <2>2. {reported, wire} \subseteq Seq(1..Packets)
    BY <1>1
  <2> QED BY <2>1, <2>2, SendAssumption DEF TypeOK
<1>3. Bounds
  BY SendAssumption DEF Bounds, Count
<1>4. Placed /\ Increasing(wire)
  BY <1>1 DEF Placed, Increasing, Below
<1> QED BY <1>2, <1>3, <1>4 DEF IInv

\* The way back to the Worker: n packets are on the wire, and either the Worker
\* is told so or the connection has failed.
LEMMA Settled ==
  ASSUME TypeOK, Bounds, first <= last, NEW n \in Nat, n <= Count,
         Increasing(reported), Below(reported, first),
         wire' = reported \o Run(first, n),
         reported' \in Seq(1..Packets),
         first' \in first..(last + 1), last' = last, offset' = offset,
         backend' = backend, segments' \in BOOLEAN,
         pc' = "failed" \/ (pc' = "idle" /\ reported' = wire' /\ first' >= first + n)
  PROVE  IInv'
<1>1. /\ first \in Nat /\ last \in Nat /\ Count \in Nat /\ Count <= MaxBatch
      /\ first + Count = last + 1 /\ reported \in Seq(Nat)
  BY Parts
<1>2. /\ wire' \in Seq(Nat) /\ Increasing(wire') /\ Below(wire', first + n)
  BY <1>1, RunKeepsOrder
<1>3. wire' \in Seq(1..Packets)
  <2>1. Run(first, n) \in Seq(1..Packets)
    BY PartIsTyped
  <2>2. reported \in Seq(1..Packets)
    BY DEF TypeOK
  <2> QED BY <2>1, <2>2, ConcatProperties
<1>4. first' \in Nat /\ first' >= first /\ first' <= last + 1
  BY <1>1
<1>5. pc' = "idle" => Below(wire', first')
  <2> SUFFICES ASSUME pc' = "idle", NEW i \in DOMAIN wire' PROVE wire'[i] < first'
    BY DEF Below
  <2>1. wire'[i] \in Nat
    BY <1>2, LenProperties, ElementOfSeq
  <2>2. wire'[i] < first + n
    BY <1>2 DEF Below
  <2>3. first' >= first + n
    OBVIOUS
  <2> QED BY <1>1, <1>4, <2>1, <2>2, <2>3
<1>6. TypeOK'
  <2>1. first' \in 1..(Packets + 1) /\ last' \in 0..Packets
    BY <1>1, <1>4, SendAssumption DEF TypeOK
  <2>2. segments' \in BOOLEAN
    OBVIOUS
  <2>3. pc' \in {"idle", "hook", "option", "loop", "failed"}
    OBVIOUS
  <2> QED BY <1>3, <2>1, <2>2, <2>3 DEF TypeOK
<1>7. Bounds'
  BY <1>1, <1>4, SendAssumption DEF Bounds, Count
<1>8. Placed'
  BY <1>5 DEF Placed
<1> QED BY <1>2, <1>6, <1>7, <1>8 DEF IInv

\* A way that is not taken leaves everything to the next one.
LEMMA FallsBackInv ==
  ASSUME IInv, pc \in {"hook", "option"}, FallsBack,
         backend' = backend, wire' = wire, segments' \in BOOLEAN
  PROVE  IInv'
<1>1. /\ first <= last /\ offset = 0 /\ reported = wire /\ Below(wire, first)
      /\ Increasing(wire)
  BY DEF IInv, Placed
<1>2. /\ pc' \in {"option", "loop"} /\ first' = first /\ last' = last
      /\ offset' = offset /\ reported' = reported
  BY DEF FallsBack
<1>3. first \in Nat /\ Count \in Nat /\ first + Count = last + 1 /\ last \in Nat
      /\ reported \in Seq(Nat)
  BY Parts DEF IInv
<1>4. wire = reported \o Run(first, 0)
  BY <1>1, <1>3, RunOfNone
<1>5. 0 < Count /\ Count' = Count
  BY <1>1, <1>2, <1>3 DEF Count
<1>6. TypeOK'
  <2>1. segments' \in BOOLEAN
    OBVIOUS
  <2>2. pc' \in {"idle", "hook", "option", "loop", "failed"}
    BY <1>2
  <2> QED BY <1>2, <2>1, <2>2 DEF IInv, TypeOK
<1>7. Bounds'
  BY <1>2, <1>5 DEF IInv, Bounds
<1>8. Placed'
  BY <1>1, <1>2, <1>4, <1>5 DEF Placed, Increasing, Below, Run
<1>9. Increasing(wire')
  BY <1>1
<1> QED BY <1>6, <1>7, <1>8, <1>9 DEF IInv

\* A new aggregate follows the packets before it; the rest of one is what it was.
LEMMA SendAggregateInv == IInv /\ SendAggregate => IInv'
<1> SUFFICES ASSUME IInv, SendAggregate PROVE IInv'
  OBVIOUS
<1>1. /\ pc = "idle" /\ reported = wire /\ Below(wire, first) /\ Increasing(wire)
  BY DEF IInv, Placed, SendAggregate
<1>2. /\ pc' \in {"hook", "loop"} /\ offset' = 0 /\ backend' = backend /\ segments' = segments
      /\ first' = first /\ reported' = reported /\ wire' = wire
  BY DEF SendAggregate
<1>3. first \in Nat /\ last \in Nat
  BY Parts DEF IInv
<1>9. reported \in Seq(Nat)
  BY Parts DEF IInv
<1>4. PICK l \in Nat : last' = l /\ l <= Packets /\ first <= l /\ l + 1 - first <= MaxBatch
  <2>1. CASE last < first
    <3>1. PICK l \in first..(IF first + MaxBatch - 1 < Packets THEN first + MaxBatch - 1 ELSE Packets) :
            last' = l
      BY <2>1 DEF SendAggregate
    <3> QED BY <1>3, <3>1, SendAssumption
  <2>2. CASE ~(last < first)
    <3>1. last' = last
      BY <2>2 DEF SendAggregate
    <3> QED BY <1>3, <2>2, <3>1, SendAssumption DEF IInv, TypeOK, Bounds, Count
  <2> QED BY <2>1, <2>2
<1>5. TypeOK'
  <2>1. segments' \in BOOLEAN
    BY <1>2, Zenon DEF IInv, TypeOK
  <2>2. pc' \in {"idle", "hook", "option", "loop", "failed"}
    BY <1>2
  <2>3. last' \in 0..Packets /\ offset' \in 0..MaxBatch
    BY <1>2, <1>4, SendAssumption
  <2> QED BY <1>2, <2>1, <2>2, <2>3 DEF IInv, TypeOK
<1>8. Count' = l + 1 - first
  BY <1>2, <1>4 DEF Count
<1>6. Bounds'
  BY <1>2, <1>3, <1>4, <1>8, SendAssumption DEF Bounds
<1>7. Placed'
  <2>1. wire = reported \o Run(first, 0)
    BY <1>1, <1>3, <1>9, RunOfNone
  <2>2. 0 < Count'
    BY <1>3, <1>4, <1>8
  <2> QED BY <1>1, <1>2, <1>4, <2>1, <2>2 DEF Placed, Increasing, Below, Run
<1> QED BY <1>1, <1>2, <1>5, <1>6, <1>7 DEF IInv

\* What is known of the hook, the option and the loop when a result comes back.
LEMMA UnderWay ==
  ASSUME IInv, pc \in {"hook", "option", "loop"}
  PROVE  /\ TypeOK /\ Bounds /\ first <= last
         /\ Increasing(reported) /\ Below(reported, first)
         /\ reported \in Seq(1..Packets)
         /\ pc # "loop" => wire = reported
  BY DEF IInv, Placed, TypeOK

\* The numbers an aggregate consists of, in every state of the invariant.
LEMMA PartsUnderWay ==
  ASSUME IInv
  PROVE  first \in Nat /\ last \in Nat /\ Count \in Nat /\ first + Count = last + 1
  BY Parts DEF IInv

\* All of the aggregate is on the wire, and the Worker is told so.
LEMMA CompletesInv ==
  ASSUME IInv, pc \in {"hook", "option", "loop"}, Completes,
         wire' = reported \o Run(first, Count),
         backend' = backend, segments' \in BOOLEAN
  PROVE  IInv'
<1>1. /\ reported' = reported \o Run(first, Count) /\ first' = last + 1 /\ pc' = "idle"
      /\ last' = last /\ offset' = offset
  BY DEF Completes
<1>2. first \in Nat /\ last \in Nat /\ Count \in Nat /\ first + Count = last + 1
  BY PartsUnderWay
<1>3. Count <= Count /\ first' \in first..(last + 1) /\ first' >= first + Count
  BY <1>1, <1>2
<1>4. reported' \in Seq(1..Packets)
  <2>1. Run(first, Count) \in Seq(1..Packets)
    BY <1>2, <1>3, UnderWay, PartIsTyped
  <2> QED BY <1>1, <2>1, UnderWay, ConcatProperties
<1> QED BY <1>1, <1>2, <1>3, <1>4, UnderWay, Settled

\* An error comes back with the packets that were sent before it, or the
\* connection fails.
LEMMA StopsInv ==
  ASSUME IInv, pc \in {"hook", "option", "loop"},
         NEW error \in Error, NEW sent \in Nat, NEW n \in Nat, sent <= n, n < Count,
         Stops(error, sent),
         error \in {"again", "large"} => sent = n,
         wire' = reported \o Run(first, n),
         backend' = backend, segments' \in BOOLEAN
  PROVE  IInv'
<1>1. /\ reported' = reported \o Run(first, sent) /\ last' = last /\ offset' = offset
      /\ first' = IF error = "large" THEN last + 1 ELSE first + sent
      /\ pc' = IF error \in {"again", "large"} THEN "idle" ELSE "failed"
  BY DEF Stops
<1>2. first \in Nat /\ last \in Nat /\ Count \in Nat /\ first + Count = last + 1
  BY PartsUnderWay
<1>3. n <= Count /\ sent <= Count /\ first' \in first..(last + 1)
  BY <1>1, <1>2
<1>4. error \in {"again", "large"} => sent = n /\ first' >= first + n
  BY <1>1, <1>2
<1>5. reported' \in Seq(1..Packets)
  <2>1. Run(first, sent) \in Seq(1..Packets)
    BY <1>3, UnderWay, PartIsTyped
  <2> QED BY <1>1, <2>1, UnderWay, ConcatProperties
<1>6. pc' = "failed" \/ (pc' = "idle" /\ reported' = wire' /\ first' >= first + n)
  BY <1>1, <1>4
<1> QED BY <1>1, <1>3, <1>5, <1>6, UnderWay, Settled

\* One more packet of the loop is on the wire.
LEMMA SendSegmentInv == IInv /\ SendSegment => IInv'
<1> SUFFICES ASSUME IInv, SendSegment PROVE IInv'
  OBVIOUS
<1>1. /\ pc = "loop" /\ offset < Count /\ wire = reported \o Run(first, offset)
      /\ backend' = backend /\ segments' = segments
  BY DEF SendSegment, IInv, Placed
<1>2. first \in Nat /\ last \in Nat /\ Count \in Nat /\ first + Count = last + 1
  BY PartsUnderWay
<1>3. offset \in Nat /\ segments' \in BOOLEAN
  <2>1. segments' \in BOOLEAN
    BY <1>1, Zenon DEF IInv, TypeOK
  <2>2. offset \in Nat
    BY SendAssumption DEF IInv, TypeOK
  <2> QED BY <2>1, <2>2
<1>4. Append(wire, first + offset) = reported \o Run(first, offset + 1)
  BY <1>1, <1>2, <1>3, Parts, RunGrows DEF IInv
<1>5. CASE wire' = Append(wire, first + offset) /\ offset + 1 = Count /\ Completes
  BY <1>1, <1>3, <1>4, <1>5, CompletesInv
<1>6. CASE /\ wire' = Append(wire, first + offset) /\ offset + 1 # Count /\ offset' = offset + 1
           /\ UNCHANGED <<pc, first, last, reported>>
  <2>1. offset + 1 \in Nat /\ offset + 1 < Count /\ offset + 1 <= MaxBatch
    <3>1. offset < Count /\ offset + 1 # Count
      BY <1>1, <1>6
    <3>2. Count <= MaxBatch
      BY DEF IInv, Bounds
    <3> QED BY <1>2, <1>3, <3>1, <3>2, SendAssumption
  <2>2. wire' \in Seq(1..Packets)
    <3>1. offset + 1 <= Count
      BY <1>2, <2>1
    <3>2. Run(first, offset + 1) \in Seq(1..Packets)
      BY <1>1, <2>1, <3>1, UnderWay, PartIsTyped
    <3> QED BY <1>1, <1>4, <1>6, <3>2, UnderWay, ConcatProperties
  <2>3. Increasing(wire')
    <3>1. reported \in Seq(Nat) /\ Increasing(reported) /\ Below(reported, first)
      BY <1>1, Parts, UnderWay DEF IInv
    <3>2. wire' = reported \o Run(first, offset + 1)
      BY <1>4, <1>6
    <3>3. Increasing(reported \o Run(first, offset + 1))
      BY <1>2, <2>1, <3>1, RunKeepsOrder
    <3> QED BY <3>2, <3>3
  <2>4. TypeOK'
    <3>1. offset' \in 0..MaxBatch
      BY <1>3, <1>6, <2>1, SendAssumption
    <3> QED BY <1>1, <1>3, <1>6, <2>2, <3>1 DEF IInv, TypeOK
  <2>5. Count' = Count
    BY <1>6 DEF Count
  <2>6. Bounds'
    BY <1>6, <2>5 DEF IInv, Bounds
  <2>7. Placed'
    BY <1>1, <1>4, <1>6, <2>1, <2>5 DEF IInv, Placed, Increasing, Below, Run
  <2> QED BY <2>3, <2>4, <2>6, <2>7 DEF IInv
<1>7. CASE \E error \in Error : Stops(error, offset) /\ UNCHANGED wire
  BY <1>1, <1>3, <1>7, StopsInv
<1> QED BY <1>5, <1>6, <1>7 DEF SendSegment

\* The system call that segments takes all, or is refused.
LEMMA SendMessageInv == IInv /\ SendMessage => IInv'
<1> SUFFICES ASSUME IInv, SendMessage PROVE IInv'
  OBVIOUS
<1>1. pc = "hook" /\ wire = reported /\ backend' = backend /\ first <= last
  BY DEF SendMessage, IInv, Placed
<1>2. first \in Nat /\ last \in Nat /\ Count \in Nat /\ first + Count = last + 1
  BY PartsUnderWay
<1>3. 0 < Count
  BY <1>1, <1>2
<1>4. wire = reported \o Run(first, 0)
  BY <1>1, <1>2, Parts, RunOfNone DEF IInv
<1>5. segments' \in BOOLEAN
  BY Zenon DEF SendMessage, IInv, TypeOK
<1>6. CASE TakesAll /\ Completes
  BY <1>1, <1>5, <1>6, CompletesInv DEF TakesAll
<1>7. CASE \E error \in Error : Stops(error, 0) /\ UNCHANGED wire
  BY <1>1, <1>3, <1>4, <1>5, <1>7, StopsInv
<1>8. CASE FallsBack /\ UNCHANGED wire
  BY <1>1, <1>5, <1>8, FallsBackInv
<1>9. CASE \E n \in 1..(Count - 1) : wire' = wire \o Run(first, n) /\ Stops("other", 0)
  <2>1. PICK n \in 1..(Count - 1) : wire' = wire \o Run(first, n) /\ Stops("other", 0)
    BY <1>9
  <2>2. n \in Nat /\ 0 <= n /\ n < Count
    BY <1>2
  <2> QED BY <1>1, <1>5, <2>1, <2>2, StopsInv DEF Error
<1> QED BY <1>6, <1>7, <1>8, <1>9 DEF SendMessage

\* So does the message size of Windows.
LEMMA SendWithMessageSizeInv == IInv /\ SendWithMessageSize => IInv'
<1> SUFFICES ASSUME IInv, SendWithMessageSize PROVE IInv'
  OBVIOUS
<1>1. /\ pc = "option" /\ wire = reported /\ backend' = backend /\ segments' = segments
      /\ first <= last
  BY DEF SendWithMessageSize, IInv, Placed
<1>2. first \in Nat /\ last \in Nat /\ Count \in Nat /\ first + Count = last + 1
  BY PartsUnderWay
<1>3. 0 < Count
  BY <1>1, <1>2
<1>4. wire = reported \o Run(first, 0)
  BY <1>1, <1>2, Parts, RunOfNone DEF IInv
<1>5. segments' \in BOOLEAN
  BY <1>1, Zenon DEF IInv, TypeOK
<1>6. CASE TakesAll /\ Completes
  BY <1>1, <1>5, <1>6, CompletesInv DEF TakesAll
<1>7. CASE \E error \in {"again", "other"} : Stops(error, 0) /\ UNCHANGED wire
  BY <1>1, <1>3, <1>4, <1>5, <1>7, StopsInv DEF Error
<1>8. CASE FallsBack /\ UNCHANGED wire
  BY <1>1, <1>5, <1>8, FallsBackInv
<1> QED BY <1>6, <1>7, <1>8 DEF SendWithMessageSize

\* The hook that does not handle the aggregate changes nothing.
LEMMA NotHandledInv == IInv /\ NotHandled => IInv'
<1> SUFFICES ASSUME IInv, NotHandled PROVE IInv'
  OBVIOUS
<1>1. pc = "hook" /\ FallsBack /\ backend' = backend /\ segments' = segments /\ wire' = wire
  BY DEF NotHandled
<1>2. segments' \in BOOLEAN
  BY <1>1, Zenon DEF IInv, TypeOK
<1> QED BY <1>1, <1>2, FallsBackInv

\* Every step keeps the invariant.
LEMMA StepInv == IInv /\ [Next]_vars => IInv'
<1> SUFFICES ASSUME IInv, [Next]_vars PROVE IInv'
  OBVIOUS
<1>1. CASE UNCHANGED vars
  BY <1>1 DEF vars, IInv, TypeOK, Bounds, Placed, Increasing, Below, Count, Run
<1>2. CASE Next
  BY <1>2, SendAggregateInv, NotHandledInv, SendMessageInv, SendWithMessageSizeInv, SendSegmentInv
     DEF Next
<1> QED BY <1>1, <1>2

\* The variables keep their types, for any sizes.
THEOREM TypeCorrect == Spec => []TypeOK
<1>1. IInv => TypeOK
  BY DEF IInv
<1> QED BY <1>1, InitInv, StepInv, PTL DEF Spec

\* Whichever way an aggregate takes and wherever it is stopped, what the Worker is
\* told is what the socket took, and the packets leave once and in order: for any
\* number of packets, any size of an aggregate and any limit of the system call
\* (JuiceBinding.cpp 105-117, patch 0005).
THEOREM ProgressCorrect == Spec => []ProgressExact
<1>1. IInv => ProgressExact
  BY DEF IInv, Placed, ProgressExact, Increasing, Below
<1> QED BY <1>1, InitInv, StepInv, PTL DEF Spec

-----------------------------------------------------------------------------
(* DatapathReceive.  Datagrams move through four places, the socket, the rest *)
(* of a joined buffer, what a call returned, and libjuice; the invariant is   *)
(* about the four put together, and about what is lost.                      *)

\* By the order of the socket.
Ordered(s) == \A i, j \in DOMAIN s : i < j => s[i].id < s[j].id

\* The datagrams s are in order, none of them is one of l, and together they are
\* the first n.
Kept(s, l, n) ==
  /\ Ordered(s)
  /\ {d.id : d \in ToSet(s) \cup l} = 1..n
  /\ ToSet(s) \cap l = {}

\* The loop goes on while it has something left, libjuice processes what there is,
\* and only the hook of Windows keeps anything.
Stages ==
  /\ poll = "deliver" <=> returned # <<>>
  /\ poll = "loop" => left > 0
  /\ pending # <<>> => receiver = "windows"

\* A plain datagram is lost only with a long one.
Excused ==
  poll # "finished" /\ (\E d \in lost : d.shape = "plain") =>
    receiver = "posix" /\ \E d \in lost : d.shape = "long"

\* The inductive invariant.
ReceiveInv == ReceiveTypeOK /\ Stages /\ Excused /\ Kept(InFlight, lost, arrived)

\* The limits are numbers, of which a loop and a batch hold at least one.
LEMMA ReceiveConstants ==
  /\ Capacity \in Nat /\ Capacity > 0 /\ Fairness \in Nat /\ Fairness > 0
  /\ MaxCoalesced \in Nat /\ MaxDatagrams \in Nat
BY ReceiveAssumption

\* What is on the way is a sequence of datagrams.
LEMMA InFlightType ==
  ASSUME ReceiveTypeOK
  PROVE  InFlight \in Seq(Datagram)
BY DEF ReceiveTypeOK, InFlight

\* A sequence is its first n elements and the rest.
LEMMA FirstAndRest ==
  ASSUME NEW S, NEW s \in Seq(S), NEW n \in 0..Len(s)
  PROVE  /\ First(s, n) \in Seq(S) /\ Len(First(s, n)) = n
         /\ Rest(s, n) \in Seq(S) /\ Len(Rest(s, n)) = Len(s) - n
         /\ First(s, n) \o Rest(s, n) = s
<1>1. \A i \in 1..Len(s) : s[i] \in S
  BY ElementOfSeq
<1>2. First(s, n) \in Seq(S) /\ Len(First(s, n)) = n
  BY <1>1, SubSeqProperties, Z3 DEF First
<1>3. Rest(s, n) \in Seq(S) /\ Len(Rest(s, n)) = Len(s) - n
  BY <1>1, SubSeqProperties, Z3 DEF Rest
<1>4. SubSeq(s, 1, n) \o SubSeq(s, n + 1, Len(s)) = SubSeq(s, 1, Len(s))
  <2>1. 1 \in 1..(Len(s) + 1) /\ n \in (1 - 1)..Len(s) /\ Len(s) \in n..Len(s)
    OBVIOUS
  <2> QED
    BY <2>1, ConcatAdjacentSubSeq
<1> QED
  BY <1>2, <1>3, <1>4, SubSeqFull DEF First, Rest

\* The elements of two sequences put together.
LEMMA ToSetConcat ==
  ASSUME NEW S, NEW s \in Seq(S), NEW t \in Seq(S)
  PROVE  ToSet(s \o t) = ToSet(s) \cup ToSet(t) /\ ToSet(s) \subseteq S
<1>1. ToSet(s) \subseteq S
  BY ElementOfSeq DEF ToSet
<1>2. ASSUME NEW x \in ToSet(s \o t) PROVE x \in ToSet(s) \cup ToSet(t)
  <2>1. PICK i \in 1..(Len(s) + Len(t)) : x = (s \o t)[i]
    BY <1>2, ConcatProperties DEF ToSet
  <2>2. CASE i <= Len(s)
    BY <2>1, <2>2, ConcatProperties DEF ToSet
  <2>3. CASE i > Len(s)
    <3>1. i - Len(s) \in 1..Len(t) /\ x = t[i - Len(s)]
      BY <2>1, <2>3, ConcatProperties
    <3> QED
      BY <3>1 DEF ToSet
  <2> QED
    BY <2>2, <2>3
<1>3. ASSUME NEW x \in ToSet(s) PROVE x \in ToSet(s \o t)
  <2>1. PICK i \in 1..Len(s) : x = s[i]
    BY <1>3 DEF ToSet
  <2>2. i \in 1..(Len(s) + Len(t)) /\ x = (s \o t)[i]
    BY <2>1, ConcatProperties
  <2> QED
    BY <2>2, ConcatProperties DEF ToSet
<1>4. ASSUME NEW x \in ToSet(t) PROVE x \in ToSet(s \o t)
  <2>1. PICK i \in 1..Len(t) : x = t[i]
    BY <1>4 DEF ToSet
  <2>2. Len(s) + i \in 1..(Len(s) + Len(t)) /\ x = (s \o t)[Len(s) + i]
    BY <2>1, ConcatProperties
  <2> QED
    BY <2>2, ConcatProperties DEF ToSet
<1> QED
  BY <1>1, <1>2, <1>3, <1>4

\* Two sequences are in order together if each is and the first is before the second.
LEMMA OrderedConcat ==
  ASSUME NEW s \in Seq(Datagram), NEW t \in Seq(Datagram)
  PROVE  Ordered(s \o t) <=>
           /\ Ordered(s) /\ Ordered(t)
           /\ \A i \in DOMAIN s, j \in DOMAIN t : s[i].id < t[j].id
<1> DEFINE u == s \o t
<1>0. Len(s) \in Nat /\ Len(t) \in Nat /\ DOMAIN s = 1..Len(s) /\ DOMAIN t = 1..Len(t)
  OBVIOUS
<1>1. DOMAIN u = 1..(Len(s) + Len(t)) /\ \A i \in 1..Len(s) : u[i] = s[i]
  BY ConcatProperties
<1>2. \A i \in 1..Len(t) : u[Len(s) + i] = t[i]
  BY ConcatProperties
<1>3. \A i \in DOMAIN u : i > Len(s) => i - Len(s) \in 1..Len(t) /\ u[i] = t[i - Len(s)]
  BY <1>0, <1>1, <1>2
<1> HIDE DEF u
<1>4. ASSUME Ordered(u)
      PROVE  Ordered(s) /\ Ordered(t) /\ \A i \in DOMAIN s, j \in DOMAIN t : s[i].id < t[j].id
  <2>1. Ordered(s)
    BY <1>0, <1>1, <1>4 DEF Ordered
  <2>2. \A i \in 1..Len(t) : Len(s) + i \in DOMAIN u
    BY <1>0, <1>1
  <2>3. Ordered(t)
    BY <1>0, <1>2, <1>4, <2>2 DEF Ordered
  <2>4. \A i \in DOMAIN s, j \in DOMAIN t : s[i].id < t[j].id
    BY <1>0, <1>1, <1>2, <1>4, <2>2 DEF Ordered
  <2> QED
    BY <2>1, <2>3, <2>4
<1>5. ASSUME Ordered(s), Ordered(t), \A i \in DOMAIN s, j \in DOMAIN t : s[i].id < t[j].id
      PROVE  Ordered(u)
  <2> SUFFICES ASSUME NEW i \in DOMAIN u, NEW j \in DOMAIN u, i < j
               PROVE  u[i].id < u[j].id
    BY DEF Ordered
  <2>1. CASE j <= Len(s)
    BY <1>0, <1>1, <1>5, <2>1 DEF Ordered
  <2>2. CASE i <= Len(s) /\ j > Len(s)
    BY <1>0, <1>1, <1>3, <1>5, <2>2
  <2>3. CASE i > Len(s)
    BY <1>0, <1>1, <1>3, <1>5, <2>3 DEF Ordered
  <2> QED
    BY <1>0, <1>1, <2>1, <2>2, <2>3
<1> QED
  BY <1>4, <1>5 DEF u

\* What comes out of the middle leaves the rest in order, and is not in it.
LEMMA LoseMiddle ==
  ASSUME NEW n \in Nat, NEW a \in Seq(Datagram), NEW b \in Seq(Datagram), NEW c \in Seq(Datagram),
         NEW l \in SUBSET Datagram, Kept(a \o b \o c, l, n)
  PROVE  Kept(a \o c, l \cup ToSet(b), n)
<1>1. a \o b \in Seq(Datagram) /\ b \o c \in Seq(Datagram)
  BY ConcatProperties
<1>2. a \o b \o c = a \o (b \o c)
  BY ConcatAssociative
<1>3. Ordered(a) /\ Ordered(b \o c) /\ \A i \in DOMAIN a, j \in DOMAIN (b \o c) : a[i].id < (b \o c)[j].id
  BY <1>1, <1>2, OrderedConcat DEF Kept
<1>4. Ordered(a \o b) /\ Ordered(c) /\ \A i \in DOMAIN (a \o b), j \in DOMAIN c : (a \o b)[i].id < c[j].id
  BY <1>1, OrderedConcat DEF Kept
<1>5. \A x \in ToSet(a), y \in ToSet(b \o c) : x.id < y.id
  BY <1>3 DEF ToSet
<1>6. \A x \in ToSet(a \o b), y \in ToSet(c) : x.id < y.id
  BY <1>4 DEF ToSet
<1>7. /\ ToSet(a \o c) = ToSet(a) \cup ToSet(c) /\ ToSet(a \o b) = ToSet(a) \cup ToSet(b)
      /\ ToSet(b \o c) = ToSet(b) \cup ToSet(c)
      /\ ToSet(a \o b \o c) = ToSet(a) \cup ToSet(b) \cup ToSet(c)
      /\ ToSet(a) \subseteq Datagram /\ ToSet(b) \subseteq Datagram /\ ToSet(c) \subseteq Datagram
  <2>1. ToSet(a \o c) = ToSet(a) \cup ToSet(c) /\ ToSet(a) \subseteq Datagram
    BY ToSetConcat
  <2>2. ToSet(a \o b) = ToSet(a) \cup ToSet(b)
    BY ToSetConcat
  <2>3. ToSet(b \o c) = ToSet(b) \cup ToSet(c) /\ ToSet(b) \subseteq Datagram
    BY ToSetConcat
  <2>4. ToSet(a \o b \o c) = ToSet(a \o b) \cup ToSet(c)
    <3> DEFINE ab == a \o b
    <3>1. ab \in Seq(Datagram)
      BY <1>1
    <3> HIDE DEF ab
    <3>2. ToSet(ab \o c) = ToSet(ab) \cup ToSet(c)
      BY <3>1, ToSetConcat
    <3> QED
      BY <3>2 DEF ab
  <2>5. ToSet(c) \subseteq Datagram
    BY ToSetConcat
  <2> QED
    BY <2>1, <2>2, <2>3, <2>4, <2>5
<1>8. \A d \in Datagram : d.id \in Nat
  BY ReceiveConstants DEF Datagram
<1>9. \A i \in DOMAIN a, j \in DOMAIN c : a[i] \in ToSet(a) /\ c[j] \in ToSet(c)
  BY DEF ToSet
<1>10. Ordered(a \o c)
  BY <1>3, <1>4, <1>6, <1>7, <1>9, OrderedConcat
<1>11. ToSet(b) \cap ToSet(a \o c) = {}
  BY <1>5, <1>6, <1>7, <1>8
<1>12. ToSet(a \o c) \cup (l \cup ToSet(b)) = ToSet(a \o b \o c) \cup l
  BY <1>7
<1>13. ToSet(a \o c) \cap (l \cup ToSet(b)) = {}
  BY <1>7, <1>11 DEF Kept
<1> QED
  BY <1>10, <1>12, <1>13 DEF Kept

-----------------------------------------------------------------------------

\* One datagram behind all others, with the next number.
LEMMA AddLast ==
  ASSUME NEW n \in Nat, NEW s \in Seq(Datagram), NEW l \in SUBSET Datagram, NEW d \in Datagram,
         Kept(s, l, n), d.id = n + 1
  PROVE  Kept(s \o <<d>>, l, n + 1)
<1>1. <<d>> \in Seq(Datagram) /\ Len(<<d>>) = 1 /\ <<d>>[1] = d
  OBVIOUS
<1>2. ToSet(<<d>>) = {d}
  BY <1>1 DEF ToSet
<1>3. ToSet(s \o <<d>>) = ToSet(s) \cup {d} /\ ToSet(s) \subseteq Datagram
  <2> DEFINE last1 == <<d>>
  <2>1. last1 \in Seq(Datagram) /\ ToSet(last1) = {d}
    BY <1>1, <1>2
  <2> HIDE DEF last1
  <2>2. ToSet(s \o last1) = ToSet(s) \cup ToSet(last1) /\ ToSet(s) \subseteq Datagram
    BY <2>1, ToSetConcat
  <2> QED
    BY <2>1, <2>2 DEF last1
<1>4. \A x \in ToSet(s) \cup l : x.id \in 1..n
  BY DEF Kept
<1>5. \A i \in DOMAIN s : s[i] \in ToSet(s)
  BY DEF ToSet
<1>6. Ordered(s \o <<d>>)
  <2>1. Ordered(<<d>>)
    BY <1>1 DEF Ordered
  <2>2. \A i \in DOMAIN s, j \in DOMAIN <<d>> : s[i].id < <<d>>[j].id
    BY <1>1, <1>4, <1>5
  <2> QED
    BY <1>1, <2>1, <2>2, OrderedConcat DEF Kept
<1>7. {x.id : x \in ToSet(s \o <<d>>) \cup l} = 1..(n + 1)
  <2>1. {x.id : x \in ToSet(s) \cup l} = 1..n
    BY DEF Kept
  <2>2. {x.id : x \in ToSet(s \o <<d>>) \cup l} = {x.id : x \in ToSet(s) \cup l} \cup {n + 1}
    BY <1>3
  <2>3. 1..(n + 1) = (1..n) \cup {n + 1}
    OBVIOUS
  <2> QED
    BY <2>1, <2>2, <2>3
<1>8. ToSet(s \o <<d>>) \cap l = {}
  BY <1>3, <1>4 DEF Kept
<1> QED
  BY <1>6, <1>7, <1>8 DEF Kept

\* What is on the way while neither hook nor libjuice holds anything.
LEMMA Idle ==
  ASSUME ReceiveTypeOK, returned = <<>>, pending = <<>>
  PROVE  InFlight = delivered \o socket
BY ConcatEmptySeq DEF ReceiveTypeOK, InFlight

\* The same behind another sequence.
LEMMA SocketInTwo ==
  ASSUME NEW S, NEW d \in Seq(S), NEW s \in Seq(S), NEW n \in 0..Len(s)
  PROVE  d \o First(s, n) \o Rest(s, n) = d \o s
<1>1. First(s, n) \in Seq(S) /\ Rest(s, n) \in Seq(S)
  BY FirstAndRest
<1>2. First(s, n) \o Rest(s, n) = s
  BY FirstAndRest
<1>3. (d \o First(s, n)) \o Rest(s, n) = d \o (First(s, n) \o Rest(s, n))
  BY <1>1, ConcatAssociative
<1> QED
  BY <1>2, <1>3

\* The first datagrams of the socket, now in the two buffers, are still on the way.
LEMMA TakenAreKept ==
  ASSUME ReceiveTypeOK, returned = <<>>, pending = <<>>, NEW n \in 0..Len(socket), NEW k \in 0..n,
         socket' = Rest(socket, n), delivered' = delivered,
         returned' = First(First(socket, n), k), pending' = Rest(First(socket, n), k)
  PROVE  InFlight' = InFlight
<1>1. delivered \in Seq(Datagram) /\ socket \in Seq(Datagram)
  BY DEF ReceiveTypeOK
<1>2. /\ First(socket, n) \in Seq(Datagram) /\ Rest(socket, n) \in Seq(Datagram)
      /\ First(socket, n) \o Rest(socket, n) = socket
  BY <1>1, FirstAndRest
<1>3. delivered \o returned' \o pending' = delivered \o First(socket, n)
  <2> DEFINE taken == First(socket, n)
  <2>1. taken \in Seq(Datagram) /\ Len(taken) = n
    BY <1>1, FirstAndRest
  <2> HIDE DEF taken
  <2>2. delivered \o First(taken, k) \o Rest(taken, k) = delivered \o taken
    BY <1>1, <2>1, SocketInTwo
  <2> QED
    BY <2>2 DEF taken
<1>4. delivered \o First(socket, n) \o Rest(socket, n) = delivered \o socket
  BY <1>1, <1>2, SocketInTwo
<1>5. InFlight' = delivered \o returned' \o pending' \o Rest(socket, n)
  BY DEF InFlight
<1> QED
  BY <1>3, <1>4, <1>5, Idle

\* Those that are lost are accounted for.
LEMMA DroppedAreLost ==
  ASSUME ReceiveTypeOK, returned = <<>>, pending = <<>>, NEW n \in 0..Len(socket),
         Kept(InFlight, lost, arrived),
         socket' = Rest(socket, n), returned' = <<>>, pending' = <<>>, delivered' = delivered,
         lost' = lost \cup ToSet(First(socket, n))
  PROVE  Kept(InFlight', lost', arrived)
<1>1. delivered \in Seq(Datagram) /\ socket \in Seq(Datagram) /\ lost \in SUBSET Datagram /\ arrived \in Nat
  BY ReceiveConstants DEF ReceiveTypeOK
<1>2. /\ First(socket, n) \in Seq(Datagram) /\ Rest(socket, n) \in Seq(Datagram)
      /\ First(socket, n) \o Rest(socket, n) = socket
  BY <1>1, FirstAndRest
<1>3. InFlight = delivered \o First(socket, n) \o Rest(socket, n)
  BY <1>1, Idle, SocketInTwo
<1>4. InFlight' = delivered \o Rest(socket, n)
  BY <1>1, <1>2, ConcatEmptySeq DEF InFlight
<1>5. Kept(delivered \o Rest(socket, n), lost \cup ToSet(First(socket, n)), arrived)
  BY <1>1, <1>2, <1>3, LoseMiddle
<1> QED
  BY <1>4, <1>5

-----------------------------------------------------------------------------

\* The first k of the first n are the first k.
LEMMA FirstOfFirst ==
  ASSUME NEW S, NEW s \in Seq(S), NEW n \in 0..Len(s), NEW k \in 0..n
  PROVE  First(First(s, n), k) = First(s, k)
<1>1. /\ First(s, n) \in Seq(S) /\ Len(First(s, n)) = n
      /\ First(s, k) \in Seq(S) /\ Len(First(s, k)) = k
  BY FirstAndRest
<1>2. First(First(s, n), k) \in Seq(S) /\ Len(First(First(s, n), k)) = k
  <2> DEFINE f == First(s, n)
  <2>1. f \in Seq(S) /\ k \in 0..Len(f)
    BY <1>1
  <2> HIDE DEF f
  <2>2. First(f, k) \in Seq(S) /\ Len(First(f, k)) = k
    BY <2>1, FirstAndRest
  <2> QED
    BY <2>2 DEF f
<1>3. ASSUME NEW i \in 1..k PROVE First(First(s, n), k)[i] = First(s, k)[i]
  <2>1. \A j \in 1..Len(s) : s[j] \in S
    BY ElementOfSeq
  <2>2. First(s, n)[i] = s[i] /\ First(s, k)[i] = s[i]
    BY <2>1, SubSeqProperties, Z3 DEF First
  <2>3. \A j \in 1..Len(First(s, n)) : First(s, n)[j] \in S
    BY <1>1, ElementOfSeq
  <2>4. First(First(s, n), k)[i] = First(s, n)[i]
    <3> DEFINE f == First(s, n)
    <3>1. \A j \in 1..k : f[j] \in S
      BY <1>1, <2>3
    <3> HIDE DEF f
    <3>2. SubSeq(f, 1, k)[i] = f[1 + i - 1]
      BY <3>1, SubSeqProperties, Z3
    <3>3. 1 + i - 1 = i
      OBVIOUS
    <3> QED
      BY <3>2, <3>3 DEF First, f
  <2> QED
    BY <2>2, <2>4
<1> QED
  BY <1>1, <1>2, <1>3, SeqEqual, Zenon

\* The first n of the first n are all of them.
LEMMA WholeFirst ==
  ASSUME NEW S, NEW s \in Seq(S), NEW n \in 0..Len(s)
  PROVE  First(First(s, n), n) = First(s, n) /\ Rest(First(s, n), n) = <<>>
<1>1. Len(First(s, n)) = n /\ n \in 0..n
  BY FirstAndRest
<1>2. First(First(s, n), n) = First(s, n)
  BY <1>1, FirstOfFirst
<1>3. Rest(First(s, n), n) = <<>>
  BY <1>1, SubSeqEmpty DEF Rest
<1> QED
  BY <1>2, <1>3

\* A call that took n datagrams from the socket and returned k of them.
LEMMA TakeStep ==
  ASSUME ReceiveInv, poll = "loop", pending = <<>>,
         NEW n \in 1..Len(socket), NEW k \in 1..n, k <= left, k # n => receiver = "windows",
         Takes(n), Returns(First(socket, k)), pending' = Rest(First(socket, n), k),
         batching' \in BOOLEAN, UNCHANGED <<receiver, arrived, delivered, lost>>
  PROVE  ReceiveInv'
<1>1. /\ ReceiveTypeOK /\ returned = <<>> /\ socket \in Seq(Datagram) /\ n \in 0..Len(socket) /\ k \in 0..n
      /\ left \in Nat /\ left <= Fairness /\ k \in Nat /\ Len(socket) \in Nat /\ k \in 0..Len(socket)
  BY ReceiveConstants DEF ReceiveInv, Stages, ReceiveTypeOK
<1>2. /\ First(socket, k) \in Seq(Datagram) /\ Len(First(socket, k)) = k
      /\ Rest(socket, n) \in Seq(Datagram)
      /\ First(socket, n) \in Seq(Datagram) /\ Len(First(socket, n)) = n
  BY <1>1, FirstAndRest
<1>3. Rest(First(socket, n), k) \in Seq(Datagram)
  <2> DEFINE taken == First(socket, n)
  <2>1. taken \in Seq(Datagram) /\ k \in 0..Len(taken)
    BY <1>1, <1>2
  <2> HIDE DEF taken
  <2>2. Rest(taken, k) \in Seq(Datagram)
    BY <2>1, FirstAndRest
  <2> QED
    BY <2>2 DEF taken
<1>4. ReceiveTypeOK'
  <2>1. left' \in 0..Fairness
    BY <1>1, <1>2, ReceiveConstants DEF Returns
  <2>2. {socket, pending, returned, delivered}' \subseteq Seq(Datagram)
    BY <1>1, <1>2, <1>3 DEF Takes, Returns, ReceiveTypeOK
  <2> QED
    BY <1>1, <2>1, <2>2 DEF Returns, ReceiveTypeOK
<1>5. Stages'
  <2>1. returned' # <<>>
    BY <1>2, EmptySeq DEF Returns
  <2>2. k = n => pending' = <<>>
    BY <1>1, WholeFirst
  <2> QED
    BY <2>1, <2>2 DEF Returns, Stages
<1>6. Excused'
  BY DEF ReceiveInv, Excused, Returns
<1>7. InFlight' = InFlight
  <2>1. returned' = First(First(socket, n), k)
    BY <1>1, FirstOfFirst DEF Returns
  <2> QED
    BY <1>1, <2>1, TakenAreKept DEF Takes
<1> QED
  BY <1>4, <1>5, <1>6, <1>7 DEF ReceiveInv

\* A call that lost the n datagrams it took.
LEMMA DropStep ==
  ASSUME ReceiveInv, poll = "loop", pending = <<>>,
         NEW n \in 1..Len(socket), Takes(n), Loses(First(socket, n)),
         \/ receiver = "posix" /\ \E i \in 1..n : socket[i].shape = "long"
         \/ n = 1 /\ Head(socket).shape = "empty",
         poll' \in {"poll", "finished"}, batching' \in BOOLEAN,
         UNCHANGED <<receiver, arrived, delivered, left, returned, pending>>
  PROVE  ReceiveInv'
<1>1. /\ ReceiveTypeOK /\ returned = <<>> /\ socket \in Seq(Datagram) /\ n \in 0..Len(socket)
      /\ Len(socket) \in Nat
  BY DEF ReceiveInv, Stages, ReceiveTypeOK
<1>2. /\ First(socket, n) \in Seq(Datagram) /\ Rest(socket, n) \in Seq(Datagram)
      /\ Len(First(socket, n)) = n
  BY <1>1, FirstAndRest
<1>3. ToSet(First(socket, n)) \subseteq Datagram
  BY <1>2, ToSetConcat
<1>4. ReceiveTypeOK'
  BY <1>1, <1>2, <1>3 DEF Takes, Loses, ReceiveTypeOK
<1>5. Stages'
  BY <1>1 DEF ReceiveInv, Stages
<1>6. \A i \in 1..n : First(socket, n)[i] = socket[i]
  <2>1. \A j \in 1..n : socket[j] \in Datagram
    BY <1>1, ElementOfSeq
  <2> QED
    BY <2>1, SubSeqProperties, Z3 DEF First
<1>7. ToSet(First(socket, n)) = {socket[i] : i \in 1..n}
  BY <1>2, <1>6 DEF ToSet
<1>8. Excused'
  <2>1. CASE receiver = "posix" /\ \E i \in 1..n : socket[i].shape = "long"
    BY <1>7, <2>1 DEF Loses, Excused
  <2>2. CASE n = 1 /\ Head(socket).shape = "empty"
    <3>1. ToSet(First(socket, n)) = {socket[1]} /\ socket[1].shape = "empty"
      BY <1>7, <2>2
    <3> QED
      BY <3>1 DEF Loses, Excused, ReceiveInv
  <2> QED
    BY <2>1, <2>2
<1>9. Kept(InFlight', lost', arrived)
  BY <1>1, DroppedAreLost DEF ReceiveInv, Takes, Loses
<1> QED
  BY <1>4, <1>5, <1>8, <1>9 DEF ReceiveInv

\* A call, or an error, that changed nothing but the hook's choice.
LEMMA NothingStep ==
  ASSUME ReceiveInv, poll = "loop", poll' \in {"poll", "finished"}, batching' \in BOOLEAN,
         UNCHANGED <<receiver, socket, arrived, pending, returned, left, delivered, lost>>
  PROVE  ReceiveInv'
<1>1. ReceiveTypeOK'
  BY DEF ReceiveInv, ReceiveTypeOK
<1>2. Stages'
  BY DEF ReceiveInv, Stages
<1>3. Excused'
  BY DEF ReceiveInv, Excused
<1>4. InFlight' = InFlight
  BY DEF InFlight
<1> QED
  BY <1>1, <1>2, <1>3, <1>4 DEF ReceiveInv

\* recvfrom, by the hook of either platform.
LEMMA ReceiveSingleStep ==
  ASSUME ReceiveInv, poll = "loop", pending = <<>>, ReceiveSingle, batching' \in BOOLEAN,
         UNCHANGED <<pending, receiver, arrived, delivered>>
  PROVE  ReceiveInv'
<1>1. socket \in Seq(Datagram) /\ returned = <<>> /\ left \in Nat /\ left > 0
  BY DEF ReceiveInv, ReceiveTypeOK, Stages
<1>2. CASE socket = <<>>
  BY <1>2, NothingStep DEF ReceiveSingle, Nothing
<1>3. CASE socket # <<>> /\ Head(socket).shape = "empty"
  <2>1. 1 \in 1..Len(socket)
    BY <1>1, <1>3, EmptySeq
  <2>2. Takes(1) /\ Nothing /\ Loses(First(socket, 1))
    BY <1>3 DEF ReceiveSingle
  <2> QED
    BY <1>3, <2>1, <2>2, DropStep DEF Nothing
<1>4. CASE socket # <<>> /\ Head(socket).shape # "empty"
  <2>1. 1 \in 1..Len(socket) /\ 1 \in 0..Len(socket) /\ 1 \in 1..1 /\ 1 <= left
    BY <1>1, <1>4, EmptySeq
  <2>2. Takes(1) /\ Returns(First(socket, 1)) /\ UNCHANGED lost
    BY <1>4 DEF ReceiveSingle
  <2>3. pending' = Rest(First(socket, 1), 1)
    BY <1>1, <2>1, WholeFirst
  <2> QED
    BY <2>1, <2>2, <2>3, TakeStep
<1> QED
  BY <1>2, <1>3, <1>4

\* A call asks for at least one datagram, and for no more than the loop has left.
LEMMA RoomBounds ==
  ASSUME ReceiveTypeOK, left > 0
  PROVE  Room \in 1..left
BY ReceiveConstants DEF ReceiveTypeOK, Room, Smaller

\* Every call keeps the invariant: recvmmsg,
LEMMA ReceiveMessagesStep ==
  ASSUME ReceiveInv, poll = "loop", ReceiveMessages, UNCHANGED <<receiver, arrived, delivered>>
  PROVE  ReceiveInv'
<1>1. /\ socket \in Seq(Datagram) /\ Len(socket) \in Nat /\ left \in Nat /\ left > 0
      /\ Room \in 1..left /\ receiver = "posix" /\ pending = <<>> /\ batching \in BOOLEAN
      /\ UNCHANGED <<pending, batching>> /\ returned = <<>>
  BY RoomBounds DEF ReceiveInv, ReceiveTypeOK, Stages, ReceiveMessages, hookVars
<1>2. CASE socket = <<>> /\ Nothing /\ UNCHANGED <<socket, lost>>
  BY <1>1, <1>2, NothingStep DEF Nothing
<1>3. ASSUME NEW n \in 1..Smaller(Room, Len(socket)), Takes(n),
             \E i \in 1..n : socket[i].shape = "long", ReportsError, Loses(First(socket, n))
      PROVE  ReceiveInv'
  <2>1. n \in 1..Len(socket)
    BY <1>1 DEF Smaller
  <2> QED
    BY <1>1, <1>3, <2>1, DropStep DEF ReportsError
<1>4. ASSUME NEW n \in 1..Smaller(Room, Len(socket)), Takes(n), Returns(First(socket, n)),
             UNCHANGED lost
      PROVE  ReceiveInv'
  <2>1. n \in 1..Len(socket) /\ n \in 0..Len(socket) /\ n \in 1..n /\ n <= left
    BY <1>1 DEF Smaller
  <2>2. pending' = Rest(First(socket, n), n)
    BY <1>1, <2>1, WholeFirst
  <2> QED
    BY <1>1, <1>4, <2>1, <2>2, TakeStep
<1> QED
  BY <1>2, <1>3, <1>4 DEF ReceiveMessages

\* what the joined buffer still holds,
LEMMA EmitPendingStep ==
  ASSUME ReceiveInv, poll = "loop", EmitPending, UNCHANGED <<receiver, arrived, delivered>>
  PROVE  ReceiveInv'
<1> DEFINE n == Smaller(Room, Len(pending))
<1>1. /\ pending \in Seq(Datagram) /\ delivered \in Seq(Datagram) /\ socket \in Seq(Datagram)
      /\ left \in 0..Fairness /\ left > 0 /\ Room \in 1..left /\ returned = <<>>
      /\ pending # <<>> /\ Len(pending) \in Nat /\ Len(pending) > 0 /\ receiver = "windows"
  BY RoomBounds, EmptySeq DEF ReceiveInv, ReceiveTypeOK, Stages, EmitPending
<1>2. n \in 1..Len(pending) /\ n <= left /\ n \in 0..Len(pending)
  BY <1>1 DEF Smaller
<1>3. /\ returned' = First(pending, n) /\ left' = left - Len(returned') /\ poll' = "deliver"
      /\ pending' = Rest(pending, n) /\ UNCHANGED <<batching, socket, lost>>
  BY DEF EmitPending, Returns
<1> HIDE DEF n
<1>4. /\ First(pending, n) \in Seq(Datagram) /\ Len(First(pending, n)) = n
      /\ Rest(pending, n) \in Seq(Datagram)
  BY <1>1, <1>2, FirstAndRest
<1>5. ReceiveTypeOK'
  <2>1. left' \in 0..Fairness
    BY <1>1, <1>2, <1>3, <1>4, ReceiveConstants
  <2> QED
    BY <1>3, <1>4, <2>1 DEF ReceiveInv, ReceiveTypeOK
<1>6. Stages'
  <2>1. returned' # <<>>
    BY <1>2, <1>3, <1>4, EmptySeq
  <2> QED
    BY <1>1, <1>3, <2>1 DEF Stages
<1>7. Excused'
  BY <1>3 DEF ReceiveInv, Excused
<1>8. InFlight' = InFlight
  <2>1. InFlight = delivered \o pending \o socket
    BY <1>1, ConcatEmptySeq DEF InFlight
  <2>2. delivered \o First(pending, n) \o Rest(pending, n) = delivered \o pending
    BY <1>1, <1>2, SocketInTwo
  <2> QED
    BY <1>3, <2>1, <2>2 DEF InFlight
<1> QED
  BY <1>3, <1>5, <1>6, <1>7, <1>8 DEF ReceiveInv

\* and a buffer of joined datagrams, of which libjuice may have room for some.
LEMMA ReceiveCoalescedStep ==
  ASSUME ReceiveInv, poll = "loop", ReceiveCoalesced, UNCHANGED <<receiver, arrived, delivered>>
  PROVE  ReceiveInv'
<1>1. /\ socket \in Seq(Datagram) /\ Len(socket) \in Nat /\ left \in Nat /\ left > 0
      /\ Room \in 1..left /\ receiver = "windows" /\ pending = <<>> /\ batching' \in BOOLEAN
      /\ returned = <<>>
  BY RoomBounds DEF ReceiveInv, ReceiveTypeOK, Stages, ReceiveCoalesced
<1>2. CASE socket = <<>> /\ Nothing /\ UNCHANGED <<socket, lost, pending>>
  BY <1>1, <1>2, NothingStep DEF Nothing
<1>3. CASE /\ socket # <<>> /\ Head(socket).shape = "empty" /\ Takes(1) /\ Nothing
           /\ Loses(First(socket, 1)) /\ UNCHANGED pending
  <2>1. 1 \in 1..Len(socket)
    BY <1>1, <1>3, EmptySeq
  <2> QED
    BY <1>1, <1>3, <2>1, DropStep DEF Nothing
<1>4. ASSUME NEW n \in 1..Smaller(MaxCoalesced, Len(socket)), Takes(n),
             Returns(First(socket, Smaller(Room, n))),
             pending' = Rest(First(socket, n), Smaller(Room, n)), UNCHANGED lost
      PROVE  ReceiveInv'
  <2> DEFINE k == Smaller(Room, n)
  <2>1. n \in 1..Len(socket)
    BY <1>1, ReceiveConstants DEF Smaller
  <2>2. k \in 1..n /\ k <= left
    BY <1>1, <2>1 DEF Smaller
  <2>3. Returns(First(socket, k)) /\ pending' = Rest(First(socket, n), k)
    BY <1>4
  <2> HIDE DEF k
  <2> QED
    BY <1>1, <1>4, <2>1, <2>2, <2>3, TakeStep
<1> QED
  BY <1>2, <1>3, <1>4 DEF ReceiveCoalesced

-----------------------------------------------------------------------------

\* A datagram arrives.
LEMMA ArriveStep ==
  ASSUME ReceiveInv, NEW shape \in Shape, Arrive(shape)
  PROVE  ReceiveInv'
<1> DEFINE d == [id |-> arrived', shape |-> shape]
<1>1. /\ arrived \in Nat /\ arrived' = arrived + 1 /\ arrived' \in 0..MaxDatagrams
      /\ d \in Datagram /\ d.id = arrived + 1
  BY ReceiveConstants DEF ReceiveInv, ReceiveTypeOK, Arrive, Datagram
<1>2. /\ socket \in Seq(Datagram) /\ delivered \in Seq(Datagram) /\ returned \in Seq(Datagram)
      /\ pending \in Seq(Datagram) /\ lost \in SUBSET Datagram /\ socket' = Append(socket, d)
  BY DEF ReceiveInv, ReceiveTypeOK, Arrive
<1>3. UNCHANGED <<receiver, batching, pending, returned, left, poll, delivered, lost>>
  BY DEF Arrive, hookVars
<1> HIDE DEF d
<1>4. socket' = socket \o <<d>> /\ socket' \in Seq(Datagram)
  BY <1>1, <1>2, AppendIsConcat, AppendProperties
<1>5. ReceiveTypeOK'
  BY <1>1, <1>3, <1>4 DEF ReceiveInv, ReceiveTypeOK
<1>6. Stages' /\ Excused'
  BY <1>3 DEF ReceiveInv, Stages, Excused
<1>7. InFlight' = InFlight \o <<d>>
  <2> DEFINE before == delivered \o returned \o pending
             d1 == <<d>>
  <2>1. before \in Seq(Datagram) /\ d1 \in Seq(Datagram)
    BY <1>1, <1>2
  <2> HIDE DEF before, d1
  <2>2. socket \in Seq(Datagram)
    BY <1>2
  <2>3. (before \o socket) \o d1 = before \o (socket \o d1)
    BY <2>1, <2>2, ConcatAssociative
  <2> QED
    BY <1>3, <1>4, <2>3 DEF InFlight, before, d1
<1>8. Kept(InFlight \o <<d>>, lost, arrived + 1)
  BY <1>1, <1>2, InFlightType, AddLast DEF ReceiveInv
<1> QED
  BY <1>1, <1>3, <1>5, <1>6, <1>7, <1>8 DEF ReceiveInv

\* The poll thread wakes.
LEMMA WakeStep ==
  ASSUME ReceiveInv, Wake
  PROVE  ReceiveInv'
<1>1. ReceiveTypeOK'
  BY ReceiveConstants DEF ReceiveInv, ReceiveTypeOK, Wake, hookVars
<1>2. Stages'
  BY ReceiveConstants DEF ReceiveInv, Stages, Wake, hookVars
<1>3. Excused'
  BY DEF ReceiveInv, Excused, Wake
<1>4. InFlight' = InFlight /\ UNCHANGED <<lost, arrived>>
  BY DEF InFlight, Wake, hookVars
<1> QED
  BY <1>1, <1>2, <1>3, <1>4 DEF ReceiveInv

\* The loop calls the hook.
LEMMA CallStep ==
  ASSUME ReceiveInv, Call \/ CallFails
  PROVE  ReceiveInv'
<1>1. batching \in BOOLEAN /\ poll = "loop" /\ UNCHANGED <<receiver, arrived, delivered>>
  BY DEF ReceiveInv, ReceiveTypeOK, Call, CallFails
<1>2. CASE ReceiveMessages
  BY <1>1, <1>2, ReceiveMessagesStep
<1>3. CASE ReceiveSingly
  BY <1>1, <1>3, ReceiveSingleStep DEF ReceiveSingly, hookVars
<1>4. CASE DisableReceiveBatching
  BY <1>1, <1>4, ReceiveSingleStep DEF DisableReceiveBatching, ReceiveInv, Stages
<1>5. CASE EmitPending
  BY <1>1, <1>5, EmitPendingStep
<1>6. CASE ReceiveCoalesced
  BY <1>1, <1>6, ReceiveCoalescedStep
<1>7. CASE SocketFails
  BY <1>1, <1>7, NothingStep DEF SocketFails, ReportsError, hookVars
<1> QED
  BY <1>2, <1>3, <1>4, <1>5, <1>6, <1>7 DEF Call, CallFails

\* libjuice gives the socket up with what it has not processed.
LEMMA FinishStep ==
  ASSUME ReceiveInv, poll = "deliver", Finish
  PROVE  ReceiveInv'
<1>1. /\ ReceiveTypeOK /\ socket \in Seq(Datagram) /\ delivered \in Seq(Datagram)
      /\ returned \in Seq(Datagram) /\ pending \in Seq(Datagram) /\ lost \in SUBSET Datagram
      /\ arrived \in Nat
  BY ReceiveConstants DEF ReceiveInv, ReceiveTypeOK
<1>2. ToSet(returned) \subseteq Datagram
  BY <1>1, ToSetConcat
<1>3. /\ returned' = <<>> /\ lost' = lost \cup ToSet(returned) /\ poll' = "finished"
      /\ UNCHANGED <<receiver, batching, pending, socket, arrived, left, delivered>>
  BY DEF Finish, Loses, hookVars
<1>4. ReceiveTypeOK' /\ Stages' /\ Excused'
  BY <1>2, <1>3 DEF ReceiveInv, ReceiveTypeOK, Stages, Excused
<1>5. Kept(InFlight', lost', arrived)
  <2>1. pending \in Seq(Datagram) /\ socket \in Seq(Datagram) /\ delivered \in Seq(Datagram)
    BY <1>1
  <2>3. (delivered \o pending) \o socket = delivered \o (pending \o socket)
    BY ONLY <2>1, ConcatAssociative
  <2> DEFINE rest == pending \o socket
             both == delivered \o returned
  <2>2. rest \in Seq(Datagram) /\ both \in Seq(Datagram)
    BY <1>1
  <2>4. InFlight = delivered \o returned \o rest
    <3> HIDE DEF both
    <3>1. (both \o pending) \o socket = both \o (pending \o socket)
      BY <2>1, <2>2, ConcatAssociative
    <3> QED
      BY <3>1 DEF InFlight, both
  <2>5. InFlight' = delivered \o rest
    BY <1>1, <1>3, <2>3, ConcatEmptySeq DEF InFlight
  <2> HIDE DEF rest
  <2>6. Kept(delivered \o rest, lost \cup ToSet(returned), arrived)
    BY <1>1, <2>2, <2>4, LoseMiddle DEF ReceiveInv
  <2> QED
    BY <1>3, <2>5, <2>6
<1> QED
  BY <1>3, <1>4, <1>5 DEF ReceiveInv

\* libjuice processes a datagram.
LEMMA ProcessStep ==
  ASSUME ReceiveInv, ProcessDatagram
  PROVE  ReceiveInv'
<1>1. /\ returned \in Seq(Datagram) /\ returned # <<>> /\ delivered \in Seq(Datagram)
      /\ pending \in Seq(Datagram) /\ socket \in Seq(Datagram) /\ left \in Nat
  BY ReceiveConstants DEF ReceiveInv, ReceiveTypeOK, Stages, ProcessDatagram
<1>2. Head(returned) \in Datagram /\ Tail(returned) \in Seq(Datagram) /\ Len(Tail(returned)) = Len(returned) - 1
  BY <1>1, HeadTailProperties
<1>3. /\ delivered' = Append(delivered, Head(returned)) /\ returned' = Tail(returned)
      /\ UNCHANGED <<receiver, batching, pending, socket, arrived, left, lost>>
      /\ poll = "deliver"
      /\ poll' = IF Len(returned) > 1 THEN "deliver" ELSE IF left > 0 THEN "loop" ELSE "poll"
  BY DEF ProcessDatagram, hookVars
<1>4. ReceiveTypeOK'
  BY <1>1, <1>2, <1>3, AppendProperties DEF ReceiveInv, ReceiveTypeOK
<1>5. Stages'
  <2>1. Tail(returned) # <<>> <=> Len(returned) > 1
    <3> DEFINE tl == Tail(returned)
    <3>1. tl \in Seq(Datagram) /\ Len(tl) = Len(returned) - 1 /\ Len(returned) \in Nat
      BY <1>1, <1>2
    <3> HIDE DEF tl
    <3>2. tl # <<>> <=> Len(tl) > 0
      BY <3>1, EmptySeq
    <3> QED
      BY <3>1, <3>2 DEF tl
  <2> QED
    BY <1>1, <1>3, <2>1 DEF ReceiveInv, Stages
<1>6. Excused'
  BY <1>3 DEF ReceiveInv, Excused
<1>7. InFlight' = InFlight
  <2> DEFINE h == <<Head(returned)>>
             tl == Tail(returned)
  <2>1. h \in Seq(Datagram) /\ tl \in Seq(Datagram)
    BY <1>2
  <2>2. delivered' = delivered \o h
    BY <1>1, <1>2, <1>3, AppendIsConcat
  <2>3. h \o tl = returned
    BY <1>1, <1>2
  <2> HIDE DEF h, tl
  <2>4. (delivered \o h) \o tl = delivered \o (h \o tl)
    <3>1. delivered \in Seq(Datagram)
      BY <1>1
    <3> QED
      BY <2>1, <3>1, ConcatAssociative
  <2>5. delivered' \o returned' = delivered \o returned
    BY <1>3, <2>2, <2>3, <2>4 DEF tl
  <2> QED
    BY <1>3, <2>5 DEF InFlight
<1> QED
  BY <1>3, <1>4, <1>5, <1>6, <1>7 DEF ReceiveInv

\* The invariant holds at first, and every step keeps it.
LEMMA ReceiveInvInit == ReceiveInit => ReceiveInv
<1> SUFFICES ASSUME ReceiveInit PROVE ReceiveInv
  OBVIOUS
<1>1. ReceiveTypeOK /\ Stages /\ Excused
  BY ReceiveConstants DEF ReceiveInit, ReceiveTypeOK, Stages, Excused
<1>2. InFlight = <<>>
  BY ConcatEmptySeq DEF ReceiveInit, InFlight
<1>3. Kept(<<>>, {}, 0)
  BY DEF Kept, Ordered, ToSet
<1> QED
  BY <1>1, <1>2, <1>3 DEF ReceiveInv, ReceiveInit

\* Every step keeps the invariant.
LEMMA ReceiveInvNext == ReceiveInv /\ [ReceiveNext]_receiveVars => ReceiveInv'
<1> SUFFICES ASSUME ReceiveInv, [ReceiveNext]_receiveVars PROVE ReceiveInv'
  OBVIOUS
<1>1. CASE UNCHANGED receiveVars
  <2>1. UNCHANGED <<receiver, batching, pending, socket, arrived, returned, left, poll, delivered, lost>>
    BY <1>1 DEF receiveVars, hookVars
  <2>2. InFlight' = InFlight
    BY <2>1 DEF InFlight
  <2> QED
    BY <2>1, <2>2 DEF ReceiveInv, ReceiveTypeOK, Stages, Excused
<1>2. ASSUME NEW shape \in Shape, Arrive(shape) PROVE ReceiveInv'
  BY <1>2, ArriveStep
<1>3. CASE Wake
  BY <1>3, WakeStep
<1>4. CASE Call \/ CallFails
  BY <1>4, CallStep
<1>5. CASE RejectDatagram \/ AgentFails
  BY <1>5, FinishStep DEF RejectDatagram, AgentFails
<1>6. CASE ProcessDatagram
  BY <1>6, ProcessStep
<1> QED
  BY <1>1, <1>2, <1>3, <1>4, <1>5, <1>6 DEF ReceiveNext

\* For any batches, joined buffers and loops, and through every fallback: datagrams
\* reach libjuice once and in the order of the socket, none is between the hook and
\* libjuice's buffer, and a plain one is lost only with one that was too long, while
\* the socket is used (DatapathPOSIX.cpp 311-459, DatapathWindows.cpp 109-318).
THEOREM HandedOverCorrect == ReceiveSpec => []HandedOver
<1>1. ReceiveInv => HandedOver
  <2>1. ReceiveInv => \A i, j \in DOMAIN InFlight : i < j => InFlight[i].id < InFlight[j].id
    BY DEF ReceiveInv, Kept, Ordered
  <2> QED
    BY <2>1 DEF ReceiveInv, Kept, Excused, HandedOver
<1> QED
  BY <1>1, ReceiveInvInit, ReceiveInvNext, PTL DEF ReceiveSpec

\* The same where the two directions run one at a time, as in the run.
COROLLARY BothHandOver == BothSpec => []HandedOver
<1>1. BothInit => ReceiveInit
  BY DEF BothInit
<1>2. [BothNext]_bothVars => [ReceiveNext]_receiveVars
  BY DEF BothNext, bothVars
<1>3. BothSpec => ReceiveSpec
  BY <1>1, <1>2, PTL DEF BothSpec, ReceiveSpec
<1> QED
  BY <1>3, HandedOverCorrect, PTL

-----------------------------------------------------------------------------
(* Buffers.  What FlattenSeq does is recursive; a set that contains 0 and    *)
(* with every number the next one takes the place of an induction rule.      *)

\* Putting sequences together is associative.
Regroups(x, y, z) == (x \o y) \o z = x \o (y \o z)

LEMMA Associative ==
  ASSUME NEW S, NEW x \in Seq(S), NEW y \in Seq(S), NEW z \in Seq(S)
  PROVE  Regroups(x, y, z)
BY ConcatAssociative DEF Regroups

\* Induction, with a set in place of a predicate.
LEMMA Induction ==
  ASSUME NEW S, 0 \in S, \A n \in Nat : n \in S => n + 1 \in S
  PROVE  \A n \in Nat : n \in S
<1> DEFINE R == OpToRel(<, Nat)
           T == {n \in Nat : n \notin S}
<1>1. \A x, y \in Nat : <<x, y>> \in R <=> x < y
  BY DEF OpToRel
<1>2. IsWellFoundedOn(R, Nat)
  BY NatLessThanWellFounded
<1> HIDE DEF R
<1> SUFFICES ASSUME T # {} PROVE FALSE
  OBVIOUS
<1>3. T \subseteq Nat
  OBVIOUS
<1>4. PICK n \in T : \A m \in T : <<m, n>> \notin R
  BY <1>2, <1>3, WFMin
<1>5. n # 0 /\ n \in Nat
  BY <1>4
<1>6. n - 1 \in Nat /\ n - 1 < n /\ (n - 1) + 1 = n
  BY <1>5
<1>7. n - 1 \notin T
  BY <1>1, <1>4, <1>5, <1>6
<1> QED
  BY <1>4, <1>6, <1>7

\* What a recursive flattening of the first n sequences of s satisfies.
Flattens(g, s, n) ==
  \A i \in 1..n : g[i] = IF i = 1 THEN s[i] ELSE g[i - 1] \o s[i]

\* The recursion has a solution for every number of sequences.
LEMMA FlattensExists ==
  ASSUME NEW S, NEW s \in Seq(Seq(S)), NEW m \in 0..Len(s)
  PROVE  \E g \in [1..m -> Seq(S)] : Flattens(g, s, m)
<1> DEFINE G == {n \in Nat : n <= Len(s) => \E g \in [1..n -> Seq(S)] : Flattens(g, s, n)}
<1>0. Len(s) \in Nat /\ \A i \in 1..Len(s) : s[i] \in Seq(S)
  BY ElementOfSeq
<1>1. 0 \in G
  <2>1. [i \in 1..0 |-> <<>>] \in [1..0 -> Seq(S)]
    OBVIOUS
  <2>2. Flattens([i \in 1..0 |-> <<>>], s, 0)
    BY DEF Flattens
  <2> QED
    BY <2>1, <2>2
<1>2. ASSUME NEW n \in Nat, n \in G PROVE n + 1 \in G
  <2> SUFFICES ASSUME n + 1 <= Len(s)
               PROVE  \E g \in [1..(n + 1) -> Seq(S)] : Flattens(g, s, n + 1)
    OBVIOUS
  <2>1. PICK g \in [1..n -> Seq(S)] : Flattens(g, s, n)
    BY <1>0, <1>2
  <2> DEFINE e == IF n = 0 THEN s[1] ELSE g[n] \o s[n + 1]
             h == [i \in 1..(n + 1) |-> IF i = n + 1 THEN e ELSE g[i]]
  <2>2. s[n + 1] \in Seq(S)
    BY <1>0
  <2>3. e \in Seq(S)
    <3>1. CASE n = 0
      BY <2>2, <3>1
    <3>2. CASE n # 0
      <4>1. g[n] \in Seq(S)
        BY <3>2
      <4> QED
        BY <2>2, <3>2, <4>1, ConcatProperties
    <3> QED
      BY <3>1, <3>2
  <2>4. e = IF n + 1 = 1 THEN s[n + 1] ELSE g[n] \o s[n + 1]
    OBVIOUS
  <2> HIDE DEF e
  <2>5. h \in [1..(n + 1) -> Seq(S)]
    BY <2>3
  <2>6. ASSUME NEW i \in 1..(n + 1)
        PROVE  h[i] = IF i = 1 THEN s[i] ELSE h[i - 1] \o s[i]
    <3>1. CASE i = n + 1
      <4>1. n # 0 => h[n] = g[n]
        OBVIOUS
      <4>2. h[i] = e /\ i - 1 = n
        BY <3>1
      <4> QED
        BY <2>4, <3>1, <4>1, <4>2
    <3>2. CASE i # n + 1
      <4>1. i \in 1..n /\ h[i] = g[i]
        BY <3>2
      <4>2. i # 1 => h[i - 1] = g[i - 1]
        BY <4>1
      <4> QED
        BY <2>1, <4>1, <4>2 DEF Flattens
    <3> QED
      BY <3>1, <3>2
  <2>7. Flattens(h, s, n + 1)
    BY <2>6 DEF Flattens
  <2> QED
    BY <2>5, <2>7
<1> HIDE DEF G
<1>3. \A n \in Nat : n \in G
  BY <1>1, <1>2, Induction
<1>4. m \in Nat /\ m <= Len(s)
  BY <1>0
<1> QED
  BY <1>3, <1>4 DEF G

\* and only one.
LEMMA FlattensUnique ==
  ASSUME NEW s, NEW n \in Nat, NEW g, NEW h, Flattens(g, s, n), Flattens(h, s, n),
         NEW m \in 1..n
  PROVE  g[m] = h[m]
<1> DEFINE G == {i \in Nat : i \in 1..n => g[i] = h[i]}
<1>1. 0 \in G
  OBVIOUS
<1>2. ASSUME NEW i \in Nat, i \in G PROVE i + 1 \in G
  <2> SUFFICES ASSUME i + 1 \in 1..n PROVE g[i + 1] = h[i + 1]
    OBVIOUS
  <2>1. CASE i = 0
    BY <2>1 DEF Flattens
  <2>2. CASE i # 0
    <3>1. g[i] = h[i] /\ (i + 1) - 1 = i /\ i + 1 # 1
      BY <1>2, <2>2
    <3>2. g[i + 1] = g[i] \o s[i + 1] /\ h[i + 1] = h[i] \o s[i + 1]
      BY <3>1 DEF Flattens
    <3> QED
      BY <3>1, <3>2
  <2> QED
    BY <2>1, <2>2
<1> HIDE DEF G
<1>3. m \in G
  BY <1>1, <1>2, Induction
<1> QED
  BY <1>3 DEF G

\* FlattenSeq is the last value of any solution.
LEMMA FlattenIs ==
  ASSUME NEW S, NEW s \in Seq(Seq(S)), s # <<>>, NEW g, Flattens(g, s, Len(s))
  PROVE  FlattenSeq(s) = g[Len(s)]
<1> DEFINE Rec(f) == f = [i \in 1..Len(s) |-> IF i = 1 THEN s[i] ELSE f[i - 1] \o s[i]]
           f0 == CHOOSE f : Rec(f)
<1>0. Len(s) \in Nat /\ Len(s) # 0
  BY EmptySeq
<1>1. PICK h \in [1..Len(s) -> Seq(S)] : Flattens(h, s, Len(s))
  <2> DEFINE m == Len(s)
  <2>1. m \in 0..Len(s)
    BY <1>0
  <2> HIDE DEF m
  <2>2. \E h \in [1..m -> Seq(S)] : Flattens(h, s, m)
    BY <2>1, FlattensExists
  <2> QED
    BY <2>2 DEF m
<1>2. Rec(h)
  BY <1>1 DEF Flattens
<1>3. Rec(f0)
  BY <1>2, Zenon
<1>4. FlattenSeq(s) = f0[Len(s)]
  BY <1>0 DEF FlattenSeq
<1> HIDE DEF f0
<1>5. Flattens(f0, s, Len(s))
  BY <1>3 DEF Flattens
<1> QED
  BY <1>0, <1>4, <1>5, FlattensUnique

\* Nothing, flattened, is nothing.
LEMMA FlattenEmpty == FlattenSeq(<<>>) = <<>>
BY DEF FlattenSeq

\* Sequences over a set, flattened, are a sequence over it.
LEMMA FlattenType ==
  ASSUME NEW S, NEW s \in Seq(Seq(S))
  PROVE  FlattenSeq(s) \in Seq(S)
<1>1. CASE s = <<>>
  BY <1>1, FlattenEmpty, EmptySeq
<1>2. CASE s # <<>>
  <2>1. Len(s) \in Nat /\ Len(s) # 0 /\ Len(s) \in 0..Len(s) /\ Len(s) \in 1..Len(s)
    BY <1>2, EmptySeq
  <2>2. PICK g \in [1..Len(s) -> Seq(S)] : Flattens(g, s, Len(s))
    BY <2>1, FlattensExists
  <2>3. FlattenSeq(s) = g[Len(s)]
    BY <1>2, <2>2, FlattenIs
  <2> QED
    BY <2>1, <2>2, <2>3
<1> QED
  BY <1>1, <1>2

\* One more sequence comes behind the others.
LEMMA FlattenAppend ==
  ASSUME NEW S, NEW s \in Seq(Seq(S)), NEW e \in Seq(S)
  PROVE  FlattenSeq(Append(s, e)) = FlattenSeq(s) \o e
<1> DEFINE t == Append(s, e)
<1>1. FlattenSeq(<<>>) = <<>>
  BY FlattenEmpty
<1>2. /\ t \in Seq(Seq(S)) /\ Len(t) = Len(s) + 1 /\ Len(s) \in Nat /\ t # <<>>
      /\ t[Len(s) + 1] = e /\ \A i \in 1..Len(s) : t[i] = s[i]
  BY AppendProperties
<1> HIDE DEF t
<1>3. PICK g \in [1..Len(t) -> Seq(S)] : Flattens(g, t, Len(t))
  <2>1. Len(t) \in 0..Len(t)
    BY <1>2
  <2> QED
    BY <1>2, <2>1, FlattensExists
<1>4. FlattenSeq(t) = g[Len(t)]
  BY <1>2, <1>3, FlattenIs
<1>5. CASE s = <<>>
  <2>1. Len(s) = 0
    BY <1>5
  <2>2. g[1] = t[1] /\ t[1] = e
    BY <1>2, <1>3, <2>1 DEF Flattens
  <2>3. FlattenSeq(s) = <<>>
    BY <1>1, <1>5
  <2>4. FlattenSeq(t) = e
    BY <1>2, <1>4, <2>1, <2>2
  <2> QED
    BY <1>1, <2>3, <2>4, ConcatEmptySeq DEF t
<1>6. CASE s # <<>>
  <2>1. Len(s) # 0
    BY <1>6, EmptySeq
  <2>2. Flattens(g, s, Len(s))
    <3> SUFFICES ASSUME NEW i \in 1..Len(s)
                 PROVE  g[i] = IF i = 1 THEN s[i] ELSE g[i - 1] \o s[i]
      BY DEF Flattens
    <3>1. i \in 1..Len(t) /\ t[i] = s[i]
      BY <1>2
    <3> QED
      BY <1>3, <3>1 DEF Flattens
  <2>3. FlattenSeq(s) = g[Len(s)]
    BY <1>6, <2>2, FlattenIs
  <2>4. g[Len(t)] = g[Len(s)] \o e
    <3>1. Len(t) \in 1..Len(t) /\ Len(t) # 1 /\ Len(t) - 1 = Len(s) /\ t[Len(t)] = e
      BY <1>2, <2>1
    <3>2. g[Len(t)] = g[Len(t) - 1] \o t[Len(t)]
      BY <1>3, <3>1 DEF Flattens
    <3> QED
      BY <3>1, <3>2
  <2>5. g[Len(s)] \in Seq(S)
    BY <1>2, <2>1
  <2> QED
    BY <1>1, <1>4, <2>3, <2>4, <2>5 DEF t
<1> QED
  BY <1>5, <1>6

\* A sequence that is not empty is its first elements and the last one.
LEMMA FrontAndLast ==
  ASSUME NEW S, NEW s \in Seq(S), s # <<>>
  PROVE  \E f \in Seq(S) : s = Append(f, s[Len(s)]) /\ Len(s) = Len(f) + 1 /\ s[Len(s)] \in S
<1>1. Len(s) \in Nat /\ Len(s) # 0
  BY EmptySeq
<1> DEFINE f == SubSeq(s, 1, Len(s) - 1)
<1>2. \A i \in 1..Len(s) : s[i] \in S
  BY ElementOfSeq
<1>3. f \in Seq(S) /\ Len(f) = Len(s) - 1 /\ \A i \in 1..(Len(s) - 1) : f[i] = s[i]
  <2> DEFINE k == Len(s) - 1
  <2>1. k \in Nat /\ 1 \in Int /\ k \in Int /\ k - 1 + 1 = k /\ \A i \in 1..k : s[i] \in S
    BY <1>1, <1>2
  <2> HIDE DEF k
  <2>2. SubSeq(s, 1, k) \in Seq(S) /\ \A i \in 1..(k - 1 + 1) : SubSeq(s, 1, k)[i] = s[1 + i - 1]
    BY <2>1, SubSeqProperties
  <2>3. Len(SubSeq(s, 1, k)) = k
    <3>1. Len(SubSeq(s, 1, k)) = IF 1 <= k THEN k - 1 + 1 ELSE 0
      BY <2>1, SubSeqProperties
    <3> QED
      BY <2>1, <3>1
  <2>4. \A i \in 1..k : SubSeq(s, 1, k)[i] = s[i]
    BY <2>1, <2>2
  <2> QED
    BY <2>2, <2>3, <2>4 DEF k
<1> HIDE DEF f
<1>4. s[Len(s)] \in S
  BY <1>1, <1>2
<1>5. /\ Append(f, s[Len(s)]) \in Seq(S) /\ Len(Append(f, s[Len(s)])) = Len(f) + 1
      /\ \A i \in 1..Len(f) : Append(f, s[Len(s)])[i] = f[i]
      /\ Append(f, s[Len(s)])[Len(f) + 1] = s[Len(s)]
  BY <1>3, <1>4, AppendProperties
<1>6. s = Append(f, s[Len(s)])
  BY <1>1, <1>3, <1>5, SeqEqual
<1> QED
  BY <1>1, <1>3, <1>4, <1>6

\* Flattening two sequences of sequences together.
LEMMA FlattenConcat ==
  ASSUME NEW S, NEW s \in Seq(Seq(S)), NEW t \in Seq(Seq(S))
  PROVE  FlattenSeq(s \o t) = FlattenSeq(s) \o FlattenSeq(t)
<1> DEFINE G == {n \in Nat : \A u \in Seq(Seq(S)) :
                   Len(u) = n => FlattenSeq(s \o u) = FlattenSeq(s) \o FlattenSeq(u)}
<1>0. \A u \in Seq(Seq(S)) : FlattenSeq(u) \in Seq(S)
  BY FlattenType
<1>1. 0 \in G
  <2> SUFFICES ASSUME NEW u \in Seq(Seq(S)), Len(u) = 0
               PROVE  FlattenSeq(s \o u) = FlattenSeq(s) \o FlattenSeq(u)
    OBVIOUS
  <2>1. u = <<>>
    BY EmptySeq
  <2>2. s \o u = s /\ FlattenSeq(s) \in Seq(S) /\ FlattenSeq(u) = <<>>
    BY <1>0, <2>1, ConcatEmptySeq, FlattenEmpty
  <2> QED
    BY <2>2, ConcatEmptySeq
<1>2. ASSUME NEW n \in Nat, n \in G PROVE n + 1 \in G
  <2> SUFFICES ASSUME NEW u \in Seq(Seq(S)), Len(u) = n + 1
               PROVE  FlattenSeq(s \o u) = FlattenSeq(s) \o FlattenSeq(u)
    OBVIOUS
  <2>1. u # <<>>
    BY EmptySeq
  <2>2. PICK f \in Seq(Seq(S)) : /\ u = Append(f, u[Len(u)]) /\ Len(u) = Len(f) + 1
                                 /\ u[Len(u)] \in Seq(S)
    BY <2>1, FrontAndLast
  <2> DEFINE e == u[Len(u)]
  <2>3. e \in Seq(S) /\ u = Append(f, e) /\ Len(f) = n
    BY <2>2
  <2> HIDE DEF e
  <2>4. FlattenSeq(s \o f) = FlattenSeq(s) \o FlattenSeq(f)
    BY <1>2, <2>3
  <2>5. s \o Append(f, e) = Append(s \o f, e) /\ s \o f \in Seq(Seq(S))
    BY <2>3
  <2>6. FlattenSeq(Append(s \o f, e)) = FlattenSeq(s \o f) \o e
    BY <2>3, <2>5, FlattenAppend
  <2>7. FlattenSeq(Append(f, e)) = FlattenSeq(f) \o e
    BY <2>3, FlattenAppend
  <2>8. (FlattenSeq(s) \o FlattenSeq(f)) \o e = FlattenSeq(s) \o (FlattenSeq(f) \o e)
    <3> DEFINE x == FlattenSeq(s)
               y == FlattenSeq(f)
    <3>1. x \in Seq(S) /\ y \in Seq(S) /\ e \in Seq(S)
      BY <1>0, <2>3
    <3> HIDE DEF x, y
    <3>2. Regroups(x, y, e)
      BY <3>1, Associative
    <3> QED
      BY <3>2 DEF Regroups, x, y
  <2> QED
    BY <2>3, <2>4, <2>5, <2>6, <2>7, <2>8
<1>3. \A n \in Nat : n \in G
  <2> HIDE DEF G
  <2> QED
    BY <1>1, <1>2, Induction
<1>4. Len(t) \in Nat
  OBVIOUS
<1> QED
  BY <1>3, <1>4

-----------------------------------------------------------------------------
(* What a chain holds.                                                       *)

\* The buffers of a chain c hold, one after the other, what f says of each.
Content(f, c) == FlattenSeq([i \in DOMAIN c |-> f[c[i]]])

\* What a chain holds is a sequence of what its buffers hold.
LEMMA ContentSeq ==
  ASSUME NEW S, NEW f \in [Buffer -> Seq(S)], NEW c \in Seq(Buffer)
  PROVE  /\ [i \in DOMAIN c |-> f[c[i]]] \in Seq(Seq(S))
         /\ Len([i \in DOMAIN c |-> f[c[i]]]) = Len(c)
         /\ Content(f, c) \in Seq(S)
<1>1. Len(c) \in Nat /\ DOMAIN c = 1..Len(c) /\ \A i \in 1..Len(c) : c[i] \in Buffer
  BY ElementOfSeq
<1>2. [i \in DOMAIN c |-> f[c[i]]] \in Seq(Seq(S)) /\ Len([i \in DOMAIN c |-> f[c[i]]]) = Len(c)
  BY <1>1
<1> QED
  BY <1>2, FlattenType DEF Content

\* A chain without buffers holds nothing.
LEMMA ContentEmpty == \A f : Content(f, <<>>) = <<>>
BY FlattenEmpty DEF Content

\* Two chains joined hold what the first holds, then what the second holds.
LEMMA ContentConcat ==
  ASSUME NEW S, NEW f \in [Buffer -> Seq(S)], NEW c \in Seq(Buffer), NEW d \in Seq(Buffer)
  PROVE  Content(f, c \o d) = Content(f, c) \o Content(f, d)
<1> DEFINE a == [i \in DOMAIN c |-> f[c[i]]]
           b == [i \in DOMAIN d |-> f[d[i]]]
           e == c \o d
           u == [i \in DOMAIN e |-> f[e[i]]]
<1>1. a \in Seq(Seq(S)) /\ Len(a) = Len(c) /\ b \in Seq(Seq(S)) /\ Len(b) = Len(d)
  BY ContentSeq
<1>2. /\ e \in Seq(Buffer) /\ Len(e) = Len(c) + Len(d)
      /\ \A i \in 1..(Len(c) + Len(d)) : e[i] = IF i <= Len(c) THEN c[i] ELSE d[i - Len(c)]
  BY ConcatProperties
<1>3. /\ Len(c) \in Nat /\ Len(d) \in Nat /\ DOMAIN c = 1..Len(c) /\ DOMAIN d = 1..Len(d)
      /\ DOMAIN e = 1..(Len(c) + Len(d))
  BY <1>2
<1>4. \A i \in 1..Len(c) : a[i] = f[c[i]]
  BY <1>3
<1>5. \A i \in 1..Len(d) : b[i] = f[d[i]]
  BY <1>3
<1> HIDE DEF e
<1>6. \A i \in 1..(Len(c) + Len(d)) : u[i] = f[e[i]]
  BY <1>3
<1>7. u \in Seq(Seq(S)) /\ Len(u) = Len(e)
  BY <1>2, ContentSeq
<1> HIDE DEF a, b, u
<1>8. /\ a \o b \in Seq(Seq(S)) /\ Len(a \o b) = Len(c) + Len(d)
      /\ \A i \in 1..(Len(c) + Len(d)) : (a \o b)[i] = IF i <= Len(c) THEN a[i] ELSE b[i - Len(c)]
  <2>1. a \in Seq(Seq(S)) /\ b \in Seq(Seq(S))
    BY <1>1
  <2>2. /\ a \o b \in Seq(Seq(S)) /\ Len(a \o b) = Len(a) + Len(b)
        /\ \A i \in 1..(Len(a) + Len(b)) : (a \o b)[i] = IF i <= Len(a) THEN a[i] ELSE b[i - Len(a)]
    BY ONLY <2>1, ConcatProperties
  <2>3. Len(a) = Len(c) /\ Len(b) = Len(d)
    BY <1>1
  <2> QED
    BY ONLY <2>2, <2>3
<1>9. ASSUME NEW i \in 1..(Len(c) + Len(d)) PROVE u[i] = (a \o b)[i]
  <2>1. CASE i <= Len(c)
    BY <1>2, <1>3, <1>4, <1>6, <1>8, <2>1
  <2>2. CASE i > Len(c)
    <3>1. i - Len(c) \in 1..Len(d) /\ ~(i <= Len(c))
      BY <1>3, <2>2
    <3> QED
      BY <1>2, <1>5, <1>6, <1>8, <3>1
  <2>3. i <= Len(c) \/ i > Len(c)
    BY <1>3
  <2> QED
    BY <2>1, <2>2, <2>3, Zenon
<1>10. u = a \o b
  BY <1>1, <1>2, <1>7, <1>8, <1>9, SeqEqual
<1>11. FlattenSeq(a \o b) = FlattenSeq(a) \o FlattenSeq(b)
  BY <1>1, FlattenConcat
<1> QED
  BY <1>10, <1>11 DEF Content, a, b, e, u

\* What the buffers outside a chain hold does not matter to it.
LEMMA ContentSame ==
  ASSUME NEW f, NEW g, NEW c, \A b \in ToSet(c) : f[b] = g[b]
  PROVE  Content(f, c) = Content(g, c)
<1>1. \A i \in DOMAIN c : f[c[i]] = g[c[i]]
  BY DEF ToSet
<1>2. [i \in DOMAIN c |-> f[c[i]]] = [i \in DOMAIN c |-> g[c[i]]]
  BY <1>1
<1> QED
  BY <1>2 DEF Content

\* A chain of one buffer holds what that buffer holds.
LEMMA ContentOne ==
  ASSUME NEW S, NEW f \in [Buffer -> Seq(S)], NEW b \in Buffer
  PROVE  Content(f, <<b>>) = f[b]
<1>1. [i \in DOMAIN <<b>> |-> f[<<b>>[i]]] = Append(<<>>, f[b])
  OBVIOUS
<1>2. f[b] \in Seq(S) /\ <<>> \in Seq(Seq(S))
  OBVIOUS
<1>3. FlattenSeq(Append(<<>>, f[b])) = FlattenSeq(<<>>) \o f[b]
  BY <1>2, FlattenAppend
<1> QED
  BY <1>1, <1>2, <1>3, FlattenEmpty, ConcatEmptySeq DEF Content
-----------------------------------------------------------------------------
(* Pointers that lead through a chain, and Walk, which follows them.         *)

\* The n links of e, after which comes k.
Leads(nx, e, n, k) == \A i \in 1..n : nx[e[i]] = IF i = n THEN k ELSE e[i + 1]

\* nx leads from h through the buffers of c, one after the other, and ends there.
Links(nx, h, c) ==
  /\ h = IF c = <<>> THEN Null ELSE c[1]
  /\ Leads(nx, c, Len(c), Null)

\* The first n elements of a sequence, and one more.
LEMMA FirstElements ==
  ASSUME NEW S, NEW s \in Seq(S), NEW n \in 0..Len(s)
  PROVE  /\ First(s, n) \in Seq(S) /\ Len(First(s, n)) = n
         /\ \A i \in 1..n : First(s, n)[i] = s[i]
<1>1. \A i \in 1..n : s[i] \in S
  BY ElementOfSeq
<1>2. 1 \in Int /\ n \in Int /\ n \in Nat
  OBVIOUS
<1>3. SubSeq(s, 1, n) \in Seq(S) /\ \A i \in 1..(n - 1 + 1) : SubSeq(s, 1, n)[i] = s[1 + i - 1]
  BY ONLY <1>1, <1>2, SubSeqProperties
<1>4. Len(SubSeq(s, 1, n)) = IF 1 <= n THEN n - 1 + 1 ELSE 0
  BY ONLY <1>1, <1>2, SubSeqProperties
<1> QED
  BY <1>2, <1>3, <1>4 DEF First

\* One more element is the first ones and the next.
LEMMA FirstAndNext ==
  ASSUME NEW S, NEW s \in Seq(S), NEW n \in 0..(Len(s) - 1)
  PROVE  First(s, n + 1) = Append(First(s, n), s[n + 1])
<1> DEFINE f == First(s, n)
           g == First(s, n + 1)
<1>1. Len(s) \in Nat /\ n \in 0..Len(s) /\ n + 1 \in 0..Len(s) /\ n \in Nat /\ n + 1 \in 1..Len(s)
  OBVIOUS
<1>2. f \in Seq(S) /\ Len(f) = n /\ \A i \in 1..n : f[i] = s[i]
  BY <1>1, FirstElements
<1>3. g \in Seq(S) /\ Len(g) = n + 1 /\ \A i \in 1..(n + 1) : g[i] = s[i]
  BY <1>1, FirstElements
<1>4. s[n + 1] \in S
  BY <1>1, ElementOfSeq
<1> DEFINE e == s[n + 1]
<1> HIDE DEF f, g, e
<1>5. e \in S /\ e = s[n + 1]
  BY <1>4 DEF e
<1>6. /\ Append(f, e) \in Seq(S) /\ Len(Append(f, e)) = n + 1
      /\ \A i \in 1..n : Append(f, e)[i] = f[i] /\ Append(f, e)[n + 1] = e
  BY <1>2, <1>5, AppendProperties
<1>7. \A i \in 1..(n + 1) : g[i] = Append(f, e)[i]
  <2> SUFFICES ASSUME NEW i \in 1..(n + 1) PROVE g[i] = Append(f, e)[i]
    OBVIOUS
  <2>1. CASE i \in 1..n
    BY <1>2, <1>3, <1>6, <2>1
  <2>2. CASE i = n + 1
    BY <1>3, <1>5, <1>6, <2>2, AppendProperties, <1>2
  <2>3. i \in 1..n \/ i = n + 1
    BY <1>1
  <2> QED
    BY <2>1, <2>2, <2>3, Zenon
<1>8. g = Append(f, e)
  BY <1>3, <1>6, <1>7, SeqEqual
<1> QED
  BY <1>8 DEF f, g, e

\* As many elements as there are, are all of them.
LEMMA FirstFull ==
  ASSUME NEW S, NEW s \in Seq(S)
  PROVE  First(s, Len(s)) = s
BY SubSeqFull DEF First

\* No buffer is the null pointer.
LEMMA BufferIsReal == Null \notin Buffer /\ Buffer \subseteq Nat
BY BufferAssumption DEF Buffer, Null

\* One round of the loop over a chain.
Follow(n, before) ==
  IF Len(before) < n \/ next[Last(before)] = Null THEN before
  ELSE Append(before, next[Last(before)])

Upto(c, n) == IF n < Len(c) THEN First(c, n + 1) ELSE c

\* A step of Walk goes one buffer further along a chain, and stays at its end.
LEMMA FollowLinks ==
  ASSUME NEW c \in Seq(Buffer), NEW h, Links(next, h, c), NEW n \in Nat \ {0}
  PROVE  Follow(n, Upto(c, n - 1)) = Upto(c, n)
<1>0. Len(c) \in Nat /\ n \in Nat /\ n > 0 /\ (n - 1) + 1 = n
  OBVIOUS
<1>1. CASE Len(c) < n
  <2>1. Upto(c, n - 1) = c /\ Upto(c, n) = c
    BY <1>0, <1>1 DEF Upto
  <2> QED
    BY <1>0, <1>1, <2>1 DEF Follow
<1>2. CASE Len(c) = n
  <2>1. Upto(c, n - 1) = c /\ Upto(c, n) = c
    BY <1>0, <1>2, FirstFull DEF Upto
  <2>2. next[c[Len(c)]] = Null
    BY <1>0, <1>2 DEF Links, Leads
  <2> QED
    BY <1>0, <1>2, <2>1, <2>2 DEF Follow, Last
<1>3. CASE Len(c) > n
  <2>1. Upto(c, n - 1) = First(c, n) /\ Upto(c, n) = First(c, n + 1)
    BY <1>0, <1>3 DEF Upto
  <2>2. n \in 0..(Len(c) - 1) /\ n \in 0..Len(c) /\ n \in 1..Len(c) /\ n + 1 \in 1..Len(c) /\ n \in 1..n
    BY <1>0, <1>3
  <2>3. Len(First(c, n)) = n /\ First(c, n)[n] = c[n]
    BY <2>2, FirstElements
  <2>4. next[c[n]] = c[n + 1]
    BY <1>0, <1>3, <2>2 DEF Links, Leads
  <2>5. c[n + 1] # Null
    BY <2>2, ElementOfSeq, BufferIsReal
  <2>6. First(c, n + 1) = Append(First(c, n), c[n + 1])
    BY <2>2, FirstAndNext
  <2>7. ~(Len(First(c, n)) < n) /\ next[Last(First(c, n))] = c[n + 1]
    BY <1>0, <2>3, <2>4 DEF Last
  <2> QED
    BY <2>1, <2>5, <2>6, <2>7 DEF Follow
<1> QED
  BY <1>0, <1>1, <1>2, <1>3

\* Walking from the head of a chain finds the chain.
LEMMA WalkIs ==
  ASSUME NEW c \in Seq(Buffer), NEW h, Links(next, h, c), Len(c) <= MaxBuffers
  PROVE  Walk(h) = c
<1> DEFINE N == 0..MaxBuffers
           begin == IF h = Null THEN <<>> ELSE <<h>>
           Rec(f) == f = [n \in N |-> IF n = 0 THEN IF h = Null THEN <<>> ELSE <<h>>
                                      ELSE Follow(n, f[n - 1])]
           f0 == CHOOSE f : Rec(f)
           g == [n \in N |-> Upto(c, n)]
<1>0. MaxBuffers \in Nat /\ Len(c) \in Nat
  BY BufferAssumption
<1>1. Upto(c, 0) = begin
  <2>1. CASE c = <<>>
    <3>1. Len(c) = 0 /\ h = Null
      BY <2>1 DEF Links, Leads
    <3> QED
      BY <2>1, <3>1 DEF Upto
  <2>2. CASE c # <<>>
    <3>1. Len(c) > 0 /\ h = c[1] /\ 1 \in 1..Len(c) /\ 0 \in 0..(Len(c) - 1)
      BY <2>2, EmptySeq, <1>0 DEF Links, Leads
    <3>2. h \in Buffer /\ h # Null
      BY <3>1, ElementOfSeq, BufferIsReal
    <3>3. 1 \in 0..Len(c) /\ 1 \in 1..1
      BY <3>1, <1>0
    <3>4. First(c, 1) \in Seq(Buffer) /\ Len(First(c, 1)) = 1 /\ First(c, 1)[1] = c[1]
      BY <3>3, FirstElements
    <3>5. First(c, 1) = <<h>>
      BY <3>1, <3>2, <3>4
    <3> QED
      BY <3>1, <3>2, <3>5 DEF Upto
  <2> QED
    BY <2>1, <2>2
<1>2. \A n \in N : n # 0 => n - 1 \in N /\ n \in Nat \ {0}
  BY <1>0
<1>3. Rec(g)
  <2>1. ASSUME NEW n \in N
        PROVE  g[n] = IF n = 0 THEN IF h = Null THEN <<>> ELSE <<h>> ELSE Follow(n, g[n - 1])
    <3>1. CASE n = 0
      BY <1>1, <3>1
    <3>2. CASE n # 0
      BY <1>2, <3>2, FollowLinks
    <3> QED
      BY <3>1, <3>2
  <2> QED
    BY <2>1
<1>4. Rec(f0)
  BY <1>3, Zenon
<1>5. Walk(h) = f0[MaxBuffers]
  BY DEF Walk, Follow
<1> HIDE DEF f0
<1>6. f0[0] = Upto(c, 0)
  BY <1>0, <1>1, <1>4
<1>7. \A n \in N : n # 0 => f0[n] = Follow(n, f0[n - 1])
  BY <1>4
<1> DEFINE G == {n \in Nat : n \in N => f0[n] = Upto(c, n)}
<1>8. 0 \in G
  BY <1>6
<1>9. ASSUME NEW n \in Nat, n \in G PROVE n + 1 \in G
  <2> SUFFICES ASSUME n + 1 \in N PROVE f0[n + 1] = Upto(c, n + 1)
    OBVIOUS
  <2>1. n \in N /\ n + 1 # 0 /\ (n + 1) - 1 = n /\ n + 1 \in Nat \ {0}
    BY <1>0
  <2>2. f0[n] = Upto(c, n)
    BY <1>9, <2>1
  <2>3. f0[n + 1] = Follow(n + 1, Upto(c, n))
    BY <1>7, <2>1, <2>2
  <2>4. Follow(n + 1, Upto(c, (n + 1) - 1)) = Upto(c, n + 1)
    BY <2>1, FollowLinks
  <2> QED
    BY <2>1, <2>3, <2>4
<1>10. \A n \in Nat : n \in G
  <2> HIDE DEF G
  <2> QED
    BY <1>8, <1>9, Induction
<1>11. f0[MaxBuffers] = Upto(c, MaxBuffers)
  BY <1>0, <1>10
<1> QED
  BY <1>0, <1>5, <1>11 DEF Upto
-----------------------------------------------------------------------------
(* Chains are joined, cut behind the first buffer, and turned around.        *)

\* A chain is the same for other pointers, if they agree on its buffers.
LEMMA LinksSame ==
  ASSUME NEW nx, NEW ny, NEW h, NEW c, Links(nx, h, c), \A b \in ToSet(c) : ny[b] = nx[b],
         NEW S, c \in Seq(S)
  PROVE  Links(ny, h, c)
<1>1. \A i \in 1..Len(c) : ny[c[i]] = nx[c[i]]
  BY DEF ToSet
<1> QED
  BY <1>1 DEF Links, Leads

\* The null pointer is the head of the chain without buffers.
LEMMA LinksEmpty == \A nx, c : Links(nx, Null, <<>>)
BY DEF Links, Leads

\* e begins with the m elements of c and goes on with the n elements of d.
Meets(e, c, m, d, n) ==
  /\ m \in Nat \ {0} /\ n \in Nat
  /\ \A i \in 1..m : e[i] = c[i]
  /\ \A i \in 1..n : e[m + i] = d[i]

\* Pointers lead through two chains put together when the first leads to the second.
LEMMA LinksMeet ==
  ASSUME NEW m, NEW n, NEW c, NEW d, NEW e, NEW nx, NEW k,
         Meets(e, c, m, d, n), Leads(nx, c, m, k), Leads(nx, d, n, Null),
         k = IF n = 0 THEN Null ELSE d[1]
  PROVE  Leads(nx, e, m + n, Null)
<1> USE DEF Meets, Leads
<1> SUFFICES ASSUME NEW i \in 1..(m + n)
             PROVE  nx[e[i]] = IF i = m + n THEN Null ELSE e[i + 1]
  OBVIOUS
<1>1. CASE i < m
  <2>1. i \in 1..m /\ i + 1 \in 1..m /\ i # m /\ i # m + n
    BY <1>1
  <2> QED
    BY <2>1
<1>2. CASE i = m
  <2>1. i \in 1..m /\ nx[e[i]] = k
    BY <1>2
  <2>2. n # 0 => 1 \in 1..n /\ e[m + 1] = d[1]
    OBVIOUS
  <2> QED
    BY <1>2, <2>1, <2>2
<1>3. CASE i > m
  <2> DEFINE j == i - m
  <2>1. j \in 1..n /\ m + j = i /\ (j = n <=> i = m + n) /\ m + (j + 1) = i + 1
    BY <1>3
  <2> HIDE DEF j
  <2>2. j # n => j + 1 \in 1..n
    BY <2>1
  <2>3. e[i] = d[j]
    BY <2>1
  <2>4. j # n => e[i + 1] = d[j + 1]
    BY <2>1, <2>2
  <2> QED
    BY <2>1, <2>3, <2>4
<1> QED
  BY <1>1, <1>2, <1>3

\* The elements of two sequences put together, by their places.
LEMMA ConcatElements ==
  ASSUME NEW S, NEW c \in Seq(S), NEW d \in Seq(S)
  PROVE  /\ c \o d \in Seq(S) /\ Len(c \o d) = Len(c) + Len(d)
         /\ \A i \in 1..Len(c) : (c \o d)[i] = c[i]
         /\ \A i \in 1..Len(d) : (c \o d)[Len(c) + i] = d[i]
BY ConcatProperties

\* Two chains are joined where the first one ends.
LEMMA LinksConcat ==
  ASSUME NEW c \in Seq(Buffer), NEW d \in Seq(Buffer), c # <<>>, IsInjective(c),
         NEW nx, NEW ny, NEW h, NEW k, Links(nx, h, c), Links(ny, k, d),
         \A b \in ToSet(c) : b # Last(c) => ny[b] = nx[b], ny[Last(c)] = k
  PROVE  Links(ny, h, c \o d)
<1> DEFINE e == c \o d
           m == Len(c)
           n == Len(d)
<1>1. /\ e \in Seq(Buffer) /\ Len(e) = m + n
      /\ \A i \in 1..m : e[i] = c[i]
      /\ \A i \in 1..n : e[m + i] = d[i]
  BY ConcatElements
<1>2. m \in Nat \ {0} /\ n \in Nat /\ DOMAIN c = 1..m
  BY EmptySeq
<1>3. \A i \in 1..m : nx[c[i]] = IF i = m THEN Null ELSE c[i + 1]
  BY DEF Links, Leads
<1>4. h = c[1] /\ k = (IF n = 0 THEN Null ELSE d[1]) /\ \A i \in 1..n : ny[d[i]] = IF i = n THEN Null ELSE d[i + 1]
  BY EmptySeq DEF Links, Leads
<1>5. \A i \in 1..m : c[i] \in ToSet(c)
  BY <1>2 DEF ToSet
<1>6. \A i, j \in 1..m : c[i] = c[j] => i = j
  BY <1>2 DEF IsInjective
<1>7. Last(c) = c[m]
  BY DEF Last
<1>8. e # <<>>
  BY <1>1, <1>2
<1>9. Links(ny, h, e) <=> h = e[1] /\ Leads(ny, e, m + n, Null)
  BY <1>1, <1>8 DEF Links
<1> HIDE DEF e, m, n
<1>10. \A i \in 1..m : ny[c[i]] = IF i = m THEN k ELSE c[i + 1]
  BY <1>2, <1>3, <1>5, <1>6, <1>7
<1>11. Leads(ny, e, m + n, Null)
  <2>1. Meets(e, c, m, d, n)
    BY <1>1, <1>2 DEF Meets
  <2>2. Leads(ny, c, m, k) /\ Leads(ny, d, n, Null) /\ k = IF n = 0 THEN Null ELSE d[1]
    BY <1>4, <1>10 DEF Leads
  <2> QED
    BY <2>1, <2>2, LinksMeet
<1>12. h = e[1]
  BY <1>1, <1>2, <1>4
<1>13. Links(ny, h, e)
  BY <1>9, <1>11, <1>12
<1> QED
  BY <1>13 DEF e

\* The rest of a chain begins where its first buffer leads.
LEMMA LinksTail ==
  ASSUME NEW c \in Seq(Buffer), c # <<>>, NEW nx, NEW h, Links(nx, h, c)
  PROVE  Links(nx, nx[h], Tail(c))
<1> DEFINE t == Tail(c)
<1>1. t \in Seq(Buffer) /\ Len(t) = Len(c) - 1 /\ \A i \in 1..Len(t) : t[i] = c[i + 1]
  BY HeadTailProperties
<1>2. Len(c) \in Nat /\ Len(c) > 0
  BY EmptySeq
<1> HIDE DEF t
<1>3. nx[h] = IF t = <<>> THEN Null ELSE t[1]
  <2>1. h = c[1] /\ nx[c[1]] = IF 1 = Len(c) THEN Null ELSE c[1 + 1]
    <3>1. 1 \in 1..Len(c)
      BY <1>2
    <3> QED
      BY <3>1 DEF Links, Leads
  <2>2. t = <<>> <=> Len(c) = 1
    BY <1>1, <1>2, EmptySeq
  <2>3. Len(c) # 1 => t[1] = c[1 + 1]
    BY <1>1, <1>2
  <2> QED
    BY <2>1, <2>2, <2>3
<1>4. ASSUME NEW i \in 1..Len(t)
      PROVE  nx[t[i]] = IF i = Len(t) THEN Null ELSE t[i + 1]
  <2>1. i + 1 \in 1..Len(c) /\ t[i] = c[i + 1] /\ (i = Len(t) <=> i + 1 = Len(c))
    BY <1>1, <1>2
  <2>2. nx[c[i + 1]] = IF i + 1 = Len(c) THEN Null ELSE c[(i + 1) + 1]
    BY <2>1 DEF Links, Leads
  <2>3. i # Len(t) => t[i + 1] = c[(i + 1) + 1]
    BY <1>1, <1>2
  <2> QED
    BY <2>1, <2>2, <2>3
<1>5. Links(nx, nx[h], t)
  BY <1>3, <1>4 DEF Links, Leads
<1> QED
  BY <1>5 DEF t

\* Putting one buffer after the other before a chain turns them around.
LEMMA LinksReverse ==
  ASSUME NEW c \in Seq(Buffer), NEW f \in Seq(Buffer), c # <<>>,
         NEW ny, NEW k, Links(ny, k, f), ny[c[1]] = k,
         \A i \in 1..Len(c) : i # 1 => ny[c[i]] = c[i - 1]
  PROVE  Links(ny, Last(c), Reverse(c) \o f)
<1> DEFINE r == Reverse(c)
           e == r \o f
           m == Len(c)
           n == Len(f)
<1>1. m \in Nat \ {0} /\ n \in Nat /\ \A i \in 1..m : c[i] \in Buffer
  BY EmptySeq, ElementOfSeq
<1>2. r = [i \in 1..m |-> c[(m - i) + 1]]
  BY DEF Reverse
<1>3. Last(c) = c[m]
  BY DEF Last
<1>4. k = (IF n = 0 THEN Null ELSE f[1]) /\ \A i \in 1..n : ny[f[i]] = IF i = n THEN Null ELSE f[i + 1]
  BY EmptySeq DEF Links, Leads
<1>5. \A i \in 1..m : i # 1 => ny[c[i]] = c[i - 1]
  OBVIOUS
<1> HIDE DEF r, m
<1>6. r \in Seq(Buffer) /\ Len(r) = m
  <2>1. \A i \in 1..m : (m - i) + 1 \in 1..m
    BY <1>1
  <2>2. r \in [1..m -> Buffer]
    BY <1>1, <1>2, <2>1
  <2> QED
    BY ONLY <1>1, <2>2
<1>7. /\ e \in Seq(Buffer) /\ Len(e) = m + n
      /\ \A i \in 1..m : e[i] = r[i]
      /\ \A i \in 1..n : e[m + i] = f[i]
  <2>1. /\ e \in Seq(Buffer) /\ Len(e) = Len(r) + n
        /\ \A i \in 1..Len(r) : e[i] = r[i]
        /\ \A i \in 1..n : e[Len(r) + i] = f[i]
    <3>1. r \in Seq(Buffer) /\ f \in Seq(Buffer)
      BY <1>6
    <3> QED
      BY ONLY <3>1, ConcatElements
  <2> QED
    BY <1>6, <2>1, Zenon
<1>8. e # <<>>
  BY <1>1, <1>7
<1>9. Links(ny, Last(c), e) <=> Last(c) = e[1] /\ Leads(ny, e, m + n, Null)
  BY <1>7, <1>8 DEF Links
<1> HIDE DEF e, n
<1>10. \A i \in 1..m : ny[r[i]] = IF i = m THEN k ELSE r[i + 1]
  <2> SUFFICES ASSUME NEW i \in 1..m PROVE ny[r[i]] = IF i = m THEN k ELSE r[i + 1]
    OBVIOUS
  <2>1. CASE i = m
    <3>1. (m - i) + 1 = 1
      BY <1>1, <2>1
    <3> QED
      BY <1>2, <2>1, <3>1
  <2>2. CASE i # m
    <3> DEFINE j == (m - i) + 1
    <3>1. j \in 1..m /\ j # 1 /\ i + 1 \in 1..m /\ (m - (i + 1)) + 1 = j - 1
      BY <1>1, <2>2
    <3>2. r[i] = c[j] /\ r[i + 1] = c[j - 1]
      BY <1>2, <3>1
    <3> HIDE DEF j
    <3> QED
      BY <1>5, <2>2, <3>1, <3>2
  <2> QED
    BY <2>1, <2>2
<1>11. Leads(ny, e, m + n, Null)
  <2>1. Meets(e, r, m, f, n)
    BY <1>1, <1>7 DEF Meets
  <2>2. Leads(ny, r, m, k) /\ Leads(ny, f, n, Null) /\ k = IF n = 0 THEN Null ELSE f[1]
    BY <1>4, <1>10 DEF Leads
  <2> QED
    BY <2>1, <2>2, LinksMeet
<1>12. Last(c) = e[1]
  <2>1. 1 \in 1..m /\ (m - 1) + 1 = m
    BY <1>1
  <2> QED
    BY <1>2, <1>3, <1>7, <2>1
<1>13. Links(ny, Last(c), e)
  BY <1>9, <1>11, <1>12
<1> QED
  BY <1>13 DEF e, r
-----------------------------------------------------------------------------
(* The buffers of a chain, each of which is in it once.                      *)

\* Two sequences without repetitions that share nothing have none together.
LEMMA InjectiveConcat ==
  ASSUME NEW S, NEW c \in Seq(S), NEW d \in Seq(S), IsInjective(c), IsInjective(d),
         ToSet(c) \cap ToSet(d) = {}
  PROVE  IsInjective(c \o d)
<1> DEFINE e == c \o d
           m == Len(c)
           n == Len(d)
<1>1. m \in Nat /\ n \in Nat /\ DOMAIN c = 1..m /\ DOMAIN d = 1..n
  OBVIOUS
<1>2. \A i \in 1..m : e[i] = c[i] /\ c[i] \in ToSet(c)
  BY <1>1, ConcatElements DEF ToSet
<1>3. \A i \in 1..n : e[m + i] = d[i] /\ d[i] \in ToSet(d)
  BY <1>1, ConcatElements DEF ToSet
<1>4. DOMAIN e = 1..(m + n)
  BY <1>1, ConcatElements
<1>5. /\ \A i, j \in 1..m : c[i] = c[j] => i = j
      /\ \A i, j \in 1..n : d[i] = d[j] => i = j
  BY <1>1 DEF IsInjective
<1> HIDE DEF e, m, n
<1>6. ASSUME NEW i \in 1..(m + n), NEW j \in 1..(m + n), e[i] = e[j], i <= m PROVE i = j
  <2>1. i \in 1..m
    BY <1>1, <1>6
  <2>2. CASE j <= m
    BY <1>1, <1>2, <1>5, <1>6, <2>1, <2>2
  <2>3. CASE j > m
    <3>1. j - m \in 1..n /\ m + (j - m) = j
      BY <1>1, <2>3
    <3>2. e[j] \in ToSet(d) /\ e[i] \in ToSet(c)
      BY <1>2, <1>3, <2>1, <3>1
    <3> QED
      BY <1>6, <3>2
  <2> QED
    BY <1>1, <2>2, <2>3
<1>7. ASSUME NEW i \in 1..(m + n), NEW j \in 1..(m + n), e[i] = e[j], i > m, j > m PROVE i = j
  <2>1. i - m \in 1..n /\ m + (i - m) = i /\ j - m \in 1..n /\ m + (j - m) = j
    BY <1>1, <1>7
  <2>2. d[i - m] = d[j - m]
    BY <1>3, <1>7, <2>1
  <2>3. i - m = j - m
    BY <1>5, <2>1, <2>2
  <2> QED
    BY <1>1, <2>3
<1>8. ASSUME NEW i \in 1..(m + n), NEW j \in 1..(m + n), e[i] = e[j] PROVE i = j
  <2>1. i <= m \/ j <= m \/ (i > m /\ j > m)
    BY <1>1
  <2> QED
    BY <1>6, <1>7, <1>8, <2>1
<1>9. IsInjective(e)
  BY <1>4, <1>8 DEF IsInjective
<1> QED
  BY <1>9 DEF e

\* A sequence of one element has no repetitions.
LEMMA OneElement ==
  ASSUME NEW S, NEW b \in S
  PROVE  <<b>> \in Seq(S) /\ IsInjective(<<b>>) /\ ToSet(<<b>>) = {b} /\ Len(<<b>>) = 1 /\ <<b>>[1] = b
BY DEF IsInjective, ToSet

\* The empty sequence has no elements and no repetitions.
LEMMA EmptyElements == ToSet(<<>>) = {} /\ IsInjective(<<>>)
BY DEF IsInjective, ToSet

\* The first element of a sequence without repetitions is not in the rest.
LEMMA InjectiveTail ==
  ASSUME NEW S, NEW c \in Seq(S), c # <<>>, IsInjective(c)
  PROVE  /\ Tail(c) \in Seq(S) /\ IsInjective(Tail(c)) /\ c[1] \in S
         /\ c[1] \notin ToSet(Tail(c)) /\ ToSet(c) = {c[1]} \cup ToSet(Tail(c))
<1> DEFINE t == Tail(c)
           n == Len(t)
<1>1. t \in Seq(S) /\ n \in Nat /\ Len(c) = n + 1 /\ \A i \in 1..n : t[i] = c[i + 1]
  BY HeadTailProperties, EmptySeq
<1>2. DOMAIN t = 1..n /\ DOMAIN c = 1..(n + 1)
  BY <1>1
<1>3. c[1] \in S
  BY <1>1, ElementOfSeq
<1> HIDE DEF t, n
<1>4. \A i, j \in 1..(n + 1) : c[i] = c[j] => i = j
  BY <1>2 DEF IsInjective
<1>5. IsInjective(t)
  <2> SUFFICES ASSUME NEW i \in 1..n, NEW j \in 1..n, t[i] = t[j] PROVE i = j
    BY <1>2 DEF IsInjective
  <2>1. i + 1 \in 1..(n + 1) /\ j + 1 \in 1..(n + 1) /\ c[i + 1] = c[j + 1]
    BY <1>1
  <2>2. i + 1 = j + 1
    BY <1>4, <2>1
  <2> QED
    BY <2>2
<1>6. c[1] \notin ToSet(t)
  <2> SUFFICES ASSUME NEW i \in 1..n, t[i] = c[1] PROVE FALSE
    BY <1>2 DEF ToSet
  <2>1. i + 1 \in 1..(n + 1) /\ 1 \in 1..(n + 1) /\ c[i + 1] = c[1] /\ i + 1 # 1
    BY <1>1
  <2> QED
    BY <1>4, <2>1
<1>7. ToSet(c) = {c[1]} \cup ToSet(t)
  <2>1. \A i \in 1..(n + 1) : i = 1 \/ (i - 1 \in 1..n /\ (i - 1) + 1 = i)
    BY <1>1
  <2>2. \A i \in 1..n : i + 1 \in 1..(n + 1)
    BY <1>1
  <2>3. 1 \in 1..(n + 1)
    BY <1>1
  <2>4. ASSUME NEW b \in ToSet(c) PROVE b \in {c[1]} \cup ToSet(t)
    <3>1. PICK i \in 1..(n + 1) : b = c[i]
      BY <1>2, <2>4 DEF ToSet
    <3>2. CASE i = 1
      BY <3>1, <3>2
    <3>3. CASE i # 1
      <4>1. i - 1 \in 1..n /\ t[i - 1] = b
        BY <1>1, <2>1, <3>1, <3>3
      <4> QED
        BY <1>2, <4>1 DEF ToSet
    <3> QED
      BY <3>2, <3>3
  <2>5. ASSUME NEW b \in ToSet(t) PROVE b \in ToSet(c)
    <3>1. PICK i \in 1..n : b = t[i]
      BY <1>2, <2>5 DEF ToSet
    <3>2. b = c[i + 1] /\ i + 1 \in 1..(n + 1)
      BY <1>1, <2>2, <3>1
    <3> QED
      BY <1>2, <3>2 DEF ToSet
  <2>6. c[1] \in ToSet(c)
    BY <1>2, <2>3 DEF ToSet
  <2> QED
    BY <2>4, <2>5, <2>6
<1> QED
  BY <1>1, <1>3, <1>5, <1>6, <1>7 DEF t

\* A chain that is turned around has the same buffers, each once.
LEMMA ReverseElements ==
  ASSUME NEW S, NEW c \in Seq(S), IsInjective(c)
  PROVE  Reverse(c) \in Seq(S) /\ IsInjective(Reverse(c)) /\ ToSet(Reverse(c)) = ToSet(c)
<1> DEFINE r == Reverse(c)
           m == Len(c)
<1>1. m \in Nat /\ DOMAIN c = 1..m /\ \A i \in 1..m : c[i] \in S
  BY ElementOfSeq
<1>2. r = [i \in 1..m |-> c[(m - i) + 1]]
  BY DEF Reverse
<1> HIDE DEF r, m
<1>3. \A i \in 1..m : (m - i) + 1 \in 1..m /\ (m - ((m - i) + 1)) + 1 = i
  BY <1>1
<1>4. \A i, j \in 1..m : (m - i) + 1 = (m - j) + 1 => i = j
  BY <1>1
<1>5. r \in [1..m -> S]
  BY <1>1, <1>2, <1>3
<1>6. r \in Seq(S)
  BY ONLY <1>1, <1>5
<1>7. IsInjective(r)
  BY <1>1, <1>2, <1>3, <1>4 DEF IsInjective
<1>8. ASSUME NEW b \in ToSet(c) PROVE b \in ToSet(r)
  <2>1. PICK i \in 1..m : b = c[i]
    BY <1>1, <1>8 DEF ToSet
  <2>2. r[(m - i) + 1] = b /\ (m - i) + 1 \in DOMAIN r
    BY <1>2, <1>3, <2>1
  <2> QED
    BY <2>2 DEF ToSet
<1>9. ASSUME NEW b \in ToSet(r) PROVE b \in ToSet(c)
  <2>1. PICK i \in 1..m : b = r[i]
    BY <1>2, <1>9 DEF ToSet
  <2>2. b = c[(m - i) + 1]
    BY <1>2, <2>1
  <2> QED
    BY <1>1, <1>3, <2>2 DEF ToSet
<1>10. ToSet(r) = ToSet(c)
  BY <1>8, <1>9
<1> QED
  BY <1>6, <1>7, <1>10 DEF r
-----------------------------------------------------------------------------
(* Who owns which buffers.  The free list is one more place to be.  All      *)
(* that is done to pointers is one of five things: two chains are joined,    *)
(* the first free buffer is put behind a chain, a chain is released, two     *)
(* batches swap theirs, and the pool grows.                                  *)

Place == Batch \cup {"free"}

\* The first n buffers are in the chains ch, each in one of them once, and nx leads
\* through each chain from its head.
Owns(nx, hd, ch, n) ==
  /\ ch \in [Place -> Seq(Buffer)]
  /\ hd \in [Place -> Nat]
  /\ \A p \in Place : Links(nx, hd[p], ch[p]) /\ IsInjective(ch[p])
  /\ \A p, q \in Place : p # q => ToSet(ch[p]) \cap ToSet(ch[q]) = {}
  /\ \A b : b \in 1..n <=> \E p \in Place : b \in ToSet(ch[p])

\* The elements of a sequence.
LEMMA ElementsIn ==
  ASSUME NEW S, NEW c \in Seq(S)
  PROVE  ToSet(c) \subseteq S
BY ElementOfSeq DEF ToSet

\* Two places exchange buffers: they have the same ones together as before, and
\* the pointers of the others are left alone.
LEMMA OwnsExchange ==
  ASSUME NEW nx, NEW hd, NEW ch, NEW n, Owns(nx, hd, ch, n),
         NEW p \in Place, NEW q \in Place, p # q,
         NEW ny, NEW c \in Seq(Buffer), NEW d \in Seq(Buffer), NEW h \in Nat, NEW k \in Nat,
         Links(ny, h, c), Links(ny, k, d), IsInjective(c), IsInjective(d),
         ToSet(c) \cap ToSet(d) = {},
         ToSet(c) \cup ToSet(d) = ToSet(ch[p]) \cup ToSet(ch[q]),
         \A b \in Buffer : b \notin ToSet(ch[p]) \cup ToSet(ch[q]) => ny[b] = nx[b]
  PROVE  Owns(ny, [hd EXCEPT ![p] = h, ![q] = k], [ch EXCEPT ![p] = c, ![q] = d], n)
<1> DEFINE hd1 == [hd EXCEPT ![p] = h, ![q] = k]
           ch1 == [ch EXCEPT ![p] = c, ![q] = d]
<1>1. /\ ch \in [Place -> Seq(Buffer)] /\ hd \in [Place -> Nat]
      /\ \A r \in Place : Links(nx, hd[r], ch[r]) /\ IsInjective(ch[r])
      /\ \A r, s \in Place : r # s => ToSet(ch[r]) \cap ToSet(ch[s]) = {}
      /\ \A b : b \in 1..n <=> \E r \in Place : b \in ToSet(ch[r])
  BY DEF Owns
<1>2. ch1 \in [Place -> Seq(Buffer)] /\ hd1 \in [Place -> Nat]
  BY <1>1
<1>3. /\ ch1[p] = c /\ ch1[q] = d /\ hd1[p] = h /\ hd1[q] = k
      /\ \A r \in Place : r # p /\ r # q => ch1[r] = ch[r] /\ hd1[r] = hd[r]
  BY <1>1
<1> HIDE DEF hd1, ch1
<1>4. ASSUME NEW r \in Place PROVE Links(ny, hd1[r], ch1[r]) /\ IsInjective(ch1[r])
  <2>1. CASE r \in {p, q}
    BY <1>3, <2>1
  <2>2. CASE r \notin {p, q}
    <3>0. ToSet(ch[r]) \subseteq Buffer
      BY <1>1, ElementsIn
    <3>1. \A b \in ToSet(ch[r]) : ny[b] = nx[b]
      BY <1>1, <2>2, <3>0
    <3>2. ch[r] \in Seq(Buffer) /\ Links(nx, hd[r], ch[r])
      BY <1>1
    <3>3. Links(ny, hd[r], ch[r])
      BY <3>1, <3>2, LinksSame
    <3> QED
      BY <1>1, <1>3, <2>2, <3>3
  <2> QED
    BY <2>1, <2>2
<1>5. ASSUME NEW r \in Place, NEW s \in Place, r # s PROVE ToSet(ch1[r]) \cap ToSet(ch1[s]) = {}
  <2>1. \A x \in Place : x \notin {p, q} =>
          ToSet(ch[x]) \cap ToSet(c) = {} /\ ToSet(ch[x]) \cap ToSet(d) = {}
    BY <1>1
  <2>2. CASE r \in {p, q} /\ s \in {p, q}
    BY <1>3, <1>5, <2>2
  <2>3. CASE r \in {p, q} /\ s \notin {p, q}
    BY <1>3, <2>1, <2>3
  <2>4. CASE r \notin {p, q} /\ s \in {p, q}
    BY <1>3, <2>1, <2>4
  <2>5. CASE r \notin {p, q} /\ s \notin {p, q}
    BY <1>1, <1>3, <1>5, <2>5
  <2> QED
    BY <2>2, <2>3, <2>4, <2>5
<1>6. ASSUME NEW b PROVE (\E r \in Place : b \in ToSet(ch1[r])) <=> (\E r \in Place : b \in ToSet(ch[r]))
  <2>1. ASSUME NEW r \in Place, b \in ToSet(ch1[r]) PROVE \E s \in Place : b \in ToSet(ch[s])
    BY <1>3, <2>1
  <2>2. ASSUME NEW r \in Place, b \in ToSet(ch[r]) PROVE \E s \in Place : b \in ToSet(ch1[s])
    <3>1. CASE r \in {p, q}
      <4>1. b \in ToSet(c) \/ b \in ToSet(d)
        BY <2>2, <3>1
      <4> QED
        BY <1>3, <4>1
    <3>2. CASE r \notin {p, q}
      BY <1>3, <2>2, <3>2
    <3> QED
      BY <3>1, <3>2
  <2> QED
    BY <2>1, <2>2
<1>7. Owns(ny, hd1, ch1, n)
  BY <1>1, <1>2, <1>4, <1>5, <1>6 DEF Owns
<1> QED
  BY <1>7 DEF hd1, ch1

\* A chain is put behind another one that may be empty.
LEMMA LinksOnto ==
  ASSUME NEW c \in Seq(Buffer), NEW d \in Seq(Buffer), IsInjective(c),
         NEW nx, NEW ny, NEW h, NEW k, Links(nx, h, c), Links(ny, k, d),
         \A b \in ToSet(c) : ny[b] = IF b = Last(c) THEN k ELSE nx[b]
  PROVE  Links(ny, IF c = <<>> THEN k ELSE h, c \o d)
<1>1. CASE c = <<>>
  BY <1>1, ConcatEmptySeq
<1>2. CASE c # <<>>
  <2>1. Last(c) \in ToSet(c)
    <3>1. Len(c) \in DOMAIN c
      BY <1>2, EmptySeq
    <3> QED
      BY <3>1 DEF Last, ToSet
  <2>2. Links(ny, h, c \o d)
    BY <1>2, <2>1, LinksConcat
  <2> QED
    BY <1>2, <2>2
<1> QED
  BY <1>1, <1>2

\* A batch takes the chain of another one behind its own.
LEMMA OwnsJoin ==
  ASSUME NEW nx, NEW hd, NEW ch, NEW n, Owns(nx, hd, ch, n),
         NEW v \in Place, NEW w \in Place, v # w, NEW ny,
         \A b \in Buffer : ny[b] = IF ch[v] # <<>> /\ b = Last(ch[v]) THEN hd[w] ELSE nx[b]
  PROVE  Owns(ny, [hd EXCEPT ![v] = IF ch[v] = <<>> THEN hd[w] ELSE hd[v], ![w] = Null],
              [ch EXCEPT ![v] = ch[v] \o ch[w], ![w] = <<>>], n)
<1> DEFINE c == ch[v]
           d == ch[w]
           h == IF c = <<>> THEN hd[w] ELSE hd[v]
<1>1. /\ c \in Seq(Buffer) /\ d \in Seq(Buffer) /\ IsInjective(c) /\ IsInjective(d)
      /\ Links(nx, hd[v], c) /\ Links(nx, hd[w], d) /\ ToSet(c) \cap ToSet(d) = {}
      /\ hd[v] \in Nat /\ hd[w] \in Nat
  BY DEF Owns
<1>2. c # <<>> => Last(c) \in ToSet(c)
  <2> SUFFICES ASSUME c # <<>> PROVE Last(c) \in ToSet(c)
    OBVIOUS
  <2>1. Len(c) \in DOMAIN c
    BY <1>1, EmptySeq
  <2> QED
    BY <2>1 DEF Last, ToSet
<1>0. ToSet(c) \subseteq Buffer /\ ToSet(d) \subseteq Buffer
  BY <1>1, ElementsIn
<1>3. \A b \in ToSet(d) : ny[b] = nx[b]
  BY <1>0, <1>1, <1>2
<1>4. Links(ny, hd[w], d)
  BY <1>1, <1>3, LinksSame
<1>5. \A b \in ToSet(c) : ny[b] = IF b = Last(c) THEN hd[w] ELSE nx[b]
  BY <1>0, EmptyElements
<1> HIDE DEF c, d
<1>6. Links(ny, h, c \o d)
  BY <1>1, <1>4, <1>5, LinksOnto
<1>7. IsInjective(c \o d) /\ ToSet(c \o d) = ToSet(c) \cup ToSet(d) /\ c \o d \in Seq(Buffer)
  BY <1>1, InjectiveConcat, ToSetConcat, ConcatElements
<1>8. \A b \in Buffer : b \notin ToSet(c) \cup ToSet(d) => ny[b] = nx[b]
  BY <1>2 DEF c
<1>9. Links(ny, Null, <<>>) /\ IsInjective(<<>>) /\ ToSet(<<>>) = {} /\ <<>> \in Seq(Buffer) /\ Null \in Nat
  BY LinksEmpty, EmptyElements DEF Null
<1>10. h \in Nat /\ ToSet(c \o d) \cap ToSet(<<>>) = {}
       /\ ToSet(c \o d) \cup ToSet(<<>>) = ToSet(ch[v]) \cup ToSet(ch[w])
  BY <1>1, <1>7, <1>9 DEF c, d
<1>11. \A b \in Buffer : b \notin ToSet(ch[v]) \cup ToSet(ch[w]) => ny[b] = nx[b]
  BY <1>8 DEF c, d
<1> HIDE DEF h
<1> DEFINE e == c \o d
<1>12. e \in Seq(Buffer) /\ Links(ny, h, e) /\ IsInjective(e)
       /\ ToSet(e) \cap ToSet(<<>>) = {}
       /\ ToSet(e) \cup ToSet(<<>>) = ToSet(ch[v]) \cup ToSet(ch[w])
  BY <1>6, <1>7, <1>10
<1> HIDE DEF e
<1>13. Owns(ny, [hd EXCEPT ![v] = h, ![w] = Null], [ch EXCEPT ![v] = e, ![w] = <<>>], n)
  BY <1>9, <1>10, <1>11, <1>12, OwnsExchange
<1> QED
  BY <1>13 DEF h, e, c, d
\* ny is nx after b was put behind c.
Behind(ny, nx, c, b) ==
  \A x \in Buffer : ny[x] = IF x = b THEN Null ELSE IF c # <<>> /\ x = Last(c) THEN b ELSE nx[x]

\* A batch takes the first free buffer behind its chain.
LEMMA OwnsTake ==
  ASSUME NEW nx, NEW hd, NEW ch, NEW n, Owns(nx, hd, ch, n),
         NEW w \in Batch, ch["free"] # <<>>, NEW b, b = hd["free"], nx[b] \in Nat, NEW ny,
         Behind(ny, nx, ch[w], b)
  PROVE  /\ Owns(ny, [hd EXCEPT !["free"] = nx[b], ![w] = IF ch[w] = <<>> THEN b ELSE hd[w]],
                 [ch EXCEPT !["free"] = Tail(ch["free"]), ![w] = ch[w] \o <<b>>], n)
         /\ b \in Buffer
         /\ \A q \in Place : q # "free" => b \notin ToSet(ch[q])
<1> DEFINE f == ch["free"]
           c == ch[w]
           h == IF c = <<>> THEN b ELSE hd[w]
           t == Tail(f)
<1>0. \A x \in Buffer : ny[x] = IF x = b THEN Null ELSE IF c # <<>> /\ x = Last(c) THEN b ELSE nx[x]
  BY DEF Behind
<1>1. /\ "free" \in Place /\ w \in Place /\ w # "free"
  BY DEF Place, Batch
<1>2. /\ c \in Seq(Buffer) /\ f \in Seq(Buffer) /\ IsInjective(c) /\ IsInjective(f)
      /\ Links(nx, hd[w], c) /\ Links(nx, b, f) /\ ToSet(c) \cap ToSet(f) = {}
      /\ hd[w] \in Nat /\ b \in Nat
  BY <1>1 DEF Owns
<1>3. b = f[1]
  BY <1>2 DEF Links
<1>4. /\ t \in Seq(Buffer) /\ IsInjective(t) /\ b \in Buffer
      /\ b \notin ToSet(t) /\ ToSet(f) = {b} \cup ToSet(t)
  BY <1>2, <1>3, InjectiveTail
<1>5. \A q \in Place : q # "free" => b \notin ToSet(ch[q])
  BY <1>1, <1>4 DEF Owns
<1>6. Links(nx, nx[b], t)
  BY <1>2, LinksTail
<1>7. c # <<>> => Last(c) \in ToSet(c)
  <2> SUFFICES ASSUME c # <<>> PROVE Last(c) \in ToSet(c)
    OBVIOUS
  <2>1. Len(c) \in DOMAIN c
    BY <1>2, EmptySeq
  <2> QED
    BY <2>1 DEF Last, ToSet
<1>8. ToSet(c) \subseteq Buffer /\ ToSet(t) \subseteq Buffer
  BY <1>2, <1>4, ElementsIn
<1> HIDE DEF f, c, t
<1>9. \A x \in ToSet(t) : ny[x] = nx[x]
  BY <1>0, <1>2, <1>4, <1>7, <1>8
<1>10. Links(ny, nx[b], t)
  BY <1>4, <1>6, <1>9, LinksSame
<1> DEFINE o == <<b>>
<1>11. o \in Seq(Buffer) /\ IsInjective(o) /\ ToSet(o) = {b} /\ Len(o) = 1 /\ o[1] = b /\ o # <<>>
  BY <1>4, OneElement
<1> HIDE DEF o
<1>12. Links(ny, b, o)
  BY <1>0, <1>4, <1>11 DEF Links, Leads
<1>13. b \notin ToSet(c)
  BY <1>2, <1>4
<1>14. \A x \in ToSet(c) : ny[x] = IF x = Last(c) THEN b ELSE nx[x]
  BY <1>0, <1>8, <1>13, EmptyElements
<1>15. Links(ny, h, c \o o)
  BY <1>2, <1>11, <1>12, <1>14, LinksOnto
<1> DEFINE e == c \o o
<1>16. ToSet(c) \cap ToSet(o) = {}
  BY <1>11, <1>13
<1>17. e \in Seq(Buffer) /\ IsInjective(e) /\ ToSet(e) = ToSet(c) \cup {b} /\ Links(ny, h, e)
  BY <1>2, <1>11, <1>15, <1>16, InjectiveConcat, ToSetConcat, ConcatElements
<1>18. h \in Nat
  BY <1>2
<1> HIDE DEF e, h
<1>19. /\ ToSet(t) \cap ToSet(e) = {}
       /\ ToSet(t) \cup ToSet(e) = ToSet(f) \cup ToSet(c)
  BY <1>2, <1>4, <1>17
<1>20. \A x \in Buffer : x \notin ToSet(f) \cup ToSet(c) => ny[x] = nx[x]
  BY <1>0, <1>4, <1>7
<1>21. /\ ToSet(t) \cap ToSet(e) = {}
       /\ ToSet(t) \cup ToSet(e) = ToSet(ch["free"]) \cup ToSet(ch[w])
       /\ \A x \in Buffer : x \notin ToSet(ch["free"]) \cup ToSet(ch[w]) => ny[x] = nx[x]
  BY <1>19, <1>20 DEF f, c
<1>22. Owns(ny, [hd EXCEPT !["free"] = nx[b], ![w] = h], [ch EXCEPT !["free"] = t, ![w] = e], n)
  BY <1>1, <1>4, <1>10, <1>17, <1>18, <1>21, OwnsExchange
<1> QED
  BY <1>4, <1>5, <1>22 DEF h, e, c, t, f, o

\* ny is nx after the chain c, which the batch had, was put before the free ones.
Freed(ny, nx, k, had, c) ==
  /\ c = had /\ c # <<>>
  /\ \A x \in Buffer : x \notin ToSet(c) => ny[x] = nx[x]
  /\ \A i \in 1..Len(c) : ny[c[i]] = IF i = 1 THEN k ELSE c[i - 1]

\* A chain that is released is put before the free ones, turned around.
LEMMA OwnsRelease ==
  ASSUME NEW nx, NEW hd, NEW ch, NEW n, Owns(nx, hd, ch, n),
         NEW w \in Batch, NEW c, NEW ny, Freed(ny, nx, hd["free"], ch[w], c)
  PROVE  Owns(ny, [hd EXCEPT !["free"] = Last(c), ![w] = Null],
              [ch EXCEPT !["free"] = Reverse(c) \o ch["free"], ![w] = <<>>], n)
<1>0. /\ c = ch[w] /\ c # <<>> /\ \A x \in Buffer : x \notin ToSet(c) => ny[x] = nx[x]
      /\ \A i \in 1..Len(c) : ny[c[i]] = IF i = 1 THEN hd["free"] ELSE c[i - 1]
  BY DEF Freed
<1> DEFINE f == ch["free"]
           k == hd["free"]
           h == Last(c)
           e == Reverse(c) \o f
<1>1. /\ "free" \in Place /\ w \in Place /\ w # "free"
  BY DEF Place, Batch
<1>2. /\ c \in Seq(Buffer) /\ f \in Seq(Buffer) /\ IsInjective(c) /\ IsInjective(f)
      /\ Links(nx, k, f) /\ ToSet(c) \cap ToSet(f) = {} /\ k \in Nat
  BY <1>0, <1>1 DEF Owns
<1>3. ToSet(f) \subseteq Buffer
  BY <1>2, ElementsIn
<1>4. \A x \in ToSet(f) : ny[x] = nx[x]
  BY <1>0, <1>2, <1>3
<1>5. Links(ny, k, f)
  BY <1>2, <1>4, LinksSame
<1>6. 1 \in 1..Len(c) /\ Len(c) \in 1..Len(c)
  BY <1>0, <1>2, EmptySeq
<1>7. ny[c[1]] = k /\ \A i \in 1..Len(c) : i # 1 => ny[c[i]] = c[i - 1]
  BY <1>0, <1>6
<1>8. Links(ny, Last(c), e)
  BY <1>0, <1>2, <1>5, <1>7, LinksReverse
<1>9. Reverse(c) \in Seq(Buffer) /\ IsInjective(Reverse(c)) /\ ToSet(Reverse(c)) = ToSet(c)
  BY <1>2, ReverseElements
<1>10. e \in Seq(Buffer) /\ IsInjective(e) /\ ToSet(e) = ToSet(c) \cup ToSet(f)
  <2> DEFINE r == Reverse(c)
  <2> HIDE DEF r, f
  <2>1. r \in Seq(Buffer) /\ IsInjective(r) /\ ToSet(r) = ToSet(c) /\ ToSet(r) \cap ToSet(f) = {}
    BY <1>2, <1>9 DEF r
  <2>2. r \o f \in Seq(Buffer) /\ IsInjective(r \o f) /\ ToSet(r \o f) = ToSet(r) \cup ToSet(f)
    BY <1>2, <2>1, InjectiveConcat, ToSetConcat, ConcatElements
  <2> QED
    BY <2>1, <2>2 DEF r
<1>11. Last(c) \in Nat
  <2>1. Last(c) \in Buffer
    BY <1>2, <1>6, ElementOfSeq DEF Last
  <2> QED
    BY <2>1, BufferIsReal
<1>12. Links(ny, Null, <<>>) /\ IsInjective(<<>>) /\ ToSet(<<>>) = {} /\ <<>> \in Seq(Buffer) /\ Null \in Nat
  BY LinksEmpty, EmptyElements DEF Null
<1> HIDE DEF e, k, f
<1>13. /\ ToSet(e) \cap ToSet(<<>>) = {}
       /\ ToSet(e) \cup ToSet(<<>>) = ToSet(ch["free"]) \cup ToSet(ch[w])
       /\ \A x \in Buffer : x \notin ToSet(ch["free"]) \cup ToSet(ch[w]) => ny[x] = nx[x]
  BY <1>0, <1>10, <1>12 DEF f
<1>14. h \in Nat /\ Links(ny, h, e)
  BY <1>8, <1>11
<1> HIDE DEF h
<1> DEFINE z == <<>>
<1>15. /\ e \in Seq(Buffer) /\ z \in Seq(Buffer) /\ Links(ny, Null, z)
       /\ IsInjective(e) /\ IsInjective(z) /\ ToSet(e) \cap ToSet(z) = {}
       /\ ToSet(e) \cup ToSet(z) = ToSet(ch["free"]) \cup ToSet(ch[w])
       /\ "free" # w
  BY <1>1, <1>10, <1>12, <1>13
<1>16. Null \in Nat /\ \A x \in Buffer : x \notin ToSet(ch["free"]) \cup ToSet(ch[w]) => ny[x] = nx[x]
  BY <1>12, <1>13
<1> HIDE DEF z
<1>17. Owns(ny, [hd EXCEPT !["free"] = h, ![w] = Null], [ch EXCEPT !["free"] = e, ![w] = z], n)
  BY <1>1, <1>14, <1>15, <1>16, OwnsExchange
<1> QED
  BY <1>17 DEF e, f, h, z

\* Two places swap their chains.
LEMMA OwnsSwap ==
  ASSUME NEW nx, NEW hd, NEW ch, NEW n, Owns(nx, hd, ch, n),
         NEW v \in Place, NEW w \in Place, v # w
  PROVE  Owns(nx, [hd EXCEPT ![v] = hd[w], ![w] = hd[v]], [ch EXCEPT ![v] = ch[w], ![w] = ch[v]], n)
<1> DEFINE c == ch[v]
           d == ch[w]
           h == hd[v]
           k == hd[w]
<1>1. /\ c \in Seq(Buffer) /\ d \in Seq(Buffer) /\ IsInjective(c) /\ IsInjective(d)
      /\ Links(nx, h, c) /\ Links(nx, k, d) /\ ToSet(d) \cap ToSet(c) = {}
      /\ h \in Nat /\ k \in Nat
  BY DEF Owns
<1>2. /\ ToSet(d) \cup ToSet(c) = ToSet(ch[v]) \cup ToSet(ch[w])
      /\ \A x \in Buffer : x \notin ToSet(ch[v]) \cup ToSet(ch[w]) => nx[x] = nx[x]
  OBVIOUS
<1> HIDE DEF c, d, h, k
<1>3. Owns(nx, [hd EXCEPT ![v] = k, ![w] = h], [ch EXCEPT ![v] = d, ![w] = c], n)
  BY <1>1, <1>2, OwnsExchange
<1> QED
  BY <1>3 DEF c, d, h, k

\* The free list grows by k buffers when it is empty.
LEMMA OwnsGrow ==
  ASSUME NEW nx, NEW hd, NEW ch, NEW n \in Nat, Owns(nx, hd, ch, n), ch["free"] = <<>>,
         NEW k \in Nat \ {0}, n + k <= MaxBuffers
  PROVE  Owns(Slab(n + 1, k, nx, Null), [hd EXCEPT !["free"] = n + k],
              [ch EXCEPT !["free"] = [i \in 1..k |-> (n + k + 1) - i]], n + k)
<1> DEFINE c == [i \in 1..k |-> (n + k + 1) - i]
           ny == Slab(n + 1, k, nx, Null)
           hd1 == [hd EXCEPT !["free"] = n + k]
           ch1 == [ch EXCEPT !["free"] = c]
<1>1. /\ ch \in [Place -> Seq(Buffer)] /\ hd \in [Place -> Nat]
      /\ \A r \in Place : Links(nx, hd[r], ch[r]) /\ IsInjective(ch[r])
      /\ \A r, s \in Place : r # s => ToSet(ch[r]) \cap ToSet(ch[s]) = {}
      /\ \A b : b \in 1..n <=> \E r \in Place : b \in ToSet(ch[r])
      /\ "free" \in Place
  BY DEF Owns, Place
<1>2. ASSUME NEW b \in Buffer
      PROVE  /\ b \in 1..n => ny[b] = nx[b]
             /\ b = n + 1 => ny[b] = Null
             /\ b \in (n + 2)..(n + k) => ny[b] = b - 1
  BY DEF Slab
<1>3. 1..(n + k) \subseteq Buffer
  BY BufferAssumption DEF Buffer
<1>4. \A i \in 1..k : (n + k + 1) - i \in (n + 1)..(n + k)
  OBVIOUS
<1>5. c \in [1..k -> Buffer] /\ DOMAIN c = 1..k
  BY <1>3, <1>4
<1>6. c \in Seq(Buffer) /\ Len(c) = k /\ c # <<>>
  BY ONLY <1>5
<1>7. IsInjective(c)
  <2>1. \A i, j \in 1..k : (n + k + 1) - i = (n + k + 1) - j => i = j
    OBVIOUS
  <2> QED
    BY <1>5, <2>1 DEF IsInjective
<1>8. \A b : b \in ToSet(c) <=> b \in (n + 1)..(n + k)
  <2>1. ASSUME NEW b \in (n + 1)..(n + k) PROVE b \in ToSet(c)
    <3>1. (n + k + 1) - b \in 1..k /\ (n + k + 1) - ((n + k + 1) - b) = b
      OBVIOUS
    <3>2. c[(n + k + 1) - b] = b
      BY <3>1
    <3> QED
      BY <1>5, <3>1, <3>2 DEF ToSet
  <2>2. ASSUME NEW b \in ToSet(c) PROVE b \in (n + 1)..(n + k)
    BY <1>4, <1>5, <2>2 DEF ToSet
  <2> QED
    BY <2>1, <2>2
<1>9. Links(ny, n + k, c)
  <2>1. n + k = c[1]
    OBVIOUS
  <2>2. ASSUME NEW i \in 1..k PROVE ny[c[i]] = IF i = k THEN Null ELSE c[i + 1]
    <3>1. c[i] = (n + k + 1) - i /\ c[i] \in Buffer
      BY <1>5
    <3> HIDE DEF c, ny
    <3>2. CASE i = k
      <4>1. (n + k + 1) - i = n + 1
        BY <3>2
      <4> QED
        BY <1>2, <3>1, <3>2, <4>1 DEF ny
    <3>3. CASE i # k
      <4>1. (n + k + 1) - i \in (n + 2)..(n + k) /\ i + 1 \in 1..k
            /\ ((n + k + 1) - i) - 1 = (n + k + 1) - (i + 1)
        BY <3>3
      <4>2. c[i + 1] = (n + k + 1) - (i + 1)
        BY <4>1 DEF c
      <4>3. ny[c[i]] = c[i] - 1
        BY <1>2, <3>1, <4>1
      <4> QED
        BY <3>1, <3>3, <4>1, <4>2, <4>3
    <3> QED
      BY <3>2, <3>3
  <2> HIDE DEF c, ny
  <2> QED
    BY <1>6, <2>1, <2>2 DEF Links, Leads
<1> HIDE DEF c, ny
<1>10. /\ ch1 \in [Place -> Seq(Buffer)] /\ hd1 \in [Place -> Nat]
       /\ ch1["free"] = c /\ hd1["free"] = n + k
       /\ \A r \in Place : r # "free" => ch1[r] = ch[r] /\ hd1[r] = hd[r]
  BY <1>1, <1>6
<1> HIDE DEF hd1, ch1
<1>11. \A r \in Place : \A b \in ToSet(ch[r]) : b \in 1..n /\ b \in Buffer
  <2>1. 1..n \subseteq 1..(n + k)
    OBVIOUS
  <2>2. \A r \in Place : \A b : b \in ToSet(ch[r]) => b \in 1..n
    BY <1>1
  <2> QED
    BY <1>3, <2>1, <2>2
<1>12. ASSUME NEW r \in Place PROVE Links(ny, hd1[r], ch1[r]) /\ IsInjective(ch1[r])
  <2>1. CASE r = "free"
    BY <1>7, <1>9, <1>10, <2>1
  <2>2. CASE r # "free"
    <3>1. ASSUME NEW b \in ToSet(ch[r]) PROVE ny[b] = nx[b]
      <4>1. b \in Buffer /\ b \in 1..n
        BY <1>11
      <4> QED
        BY <1>2, <4>1
    <3>2. ch[r] \in Seq(Buffer) /\ Links(nx, hd[r], ch[r])
      BY <1>1
    <3>3. Links(ny, hd[r], ch[r])
      BY <3>1, <3>2, LinksSame
    <3> QED
      BY <1>1, <1>10, <2>2, <3>3
  <2> QED
    BY <2>1, <2>2
<1>13. \A r \in Place : ToSet(ch[r]) \cap ToSet(c) = {}
  BY <1>8, <1>11
<1>14. ASSUME NEW r \in Place, NEW s \in Place, r # s PROVE ToSet(ch1[r]) \cap ToSet(ch1[s]) = {}
  BY <1>1, <1>10, <1>13, <1>14
<1>15. ASSUME NEW b PROVE b \in 1..(n + k) <=> \E r \in Place : b \in ToSet(ch1[r])
  <2>1. b \in 1..(n + k) <=> b \in 1..n \/ b \in (n + 1)..(n + k)
    OBVIOUS
  <2>2. ToSet(ch["free"]) = {}
    BY EmptyElements
  <2>3. (\E r \in Place : b \in ToSet(ch1[r])) <=> (\E r \in Place : b \in ToSet(ch[r])) \/ b \in ToSet(c)
    BY <1>1, <1>10, <2>2
  <2> QED
    BY <1>1, <1>8, <2>1, <2>3
<1>16. Owns(ny, hd1, ch1, n + k)
  BY <1>10, <1>12, <1>14, <1>15 DEF Owns
<1> QED
  BY <1>16 DEF ny, hd1, ch1, c

-----------------------------------------------------------------------------
(* The invariant.  The chains ch are no variable of the model: they exist,   *)
(* the pointers lead through them and the batches know their counts, which   *)
(* is what lets a step be described as one on sequences.                     *)

\* Where each chain begins.
Heads == [p \in Place |-> IF p = "free" THEN freeHead ELSE batch[p].head]

\* What each buffer holds: bytes, or the datagrams cut from them.
Cut == [b \in Buffer |-> PacketsOf(b)]
Holds == IF kind = "stream" THEN payload ELSE Cut
Item == IF kind = "stream" THEN Nat ELSE Seq(Nat)

BufferTypes ==
  /\ kind \in {"datagrams", "stream"}
  /\ allocated \in Nat /\ allocated <= MaxBuffers
  /\ freeHead \in Nat
  /\ next \in [Buffer -> Nat]
  /\ payload \in [Buffer -> Seq(Nat)]
  /\ \A b \in Buffer : Len(payload[b]) <= PayloadSize
  /\ packets \in [Buffer -> Seq([offset : Nat, length : Nat])]
  /\ \A b \in Buffer : \A i \in 1..Len(packets[b]) :
       packets[b][i].offset + packets[b][i].length <= Len(payload[b])
  /\ kind = "stream" => \A b \in Buffer : packets[b] = <<>>
  /\ batch \in [Batch -> [head : Nat, tail : Nat, count : Nat, buffers : Nat]]
  /\ remaining \in Nat
  /\ received \in Nat
  /\ sizes \in Seq(Nat)
  /\ consumed \in Seq(Item)

\* The batches know their chains.
Known(ch) ==
  \A w \in Batch :
    /\ batch[w].buffers = Len(ch[w])
    /\ batch[w].tail = IF ch[w] = <<>> THEN Null ELSE Last(ch[w])
    /\ batch[w].count = Len(Content(Holds, ch[w]))

\* What was consumed, and what is on its way, the oldest first.
InLine(c, t, p, f, a) == c \o t \o p \o f \o a
Line(ch) == InLine(consumed, Content(Holds, ch["taken"]), Content(Holds, ch["published"]),
                   Content(Holds, ch["flushing"]), Content(Holds, ch["arriving"]))

Whole(line) ==
  IF kind = "stream" THEN line = [i \in 1..received |-> i]
  ELSE /\ FlattenSeq(line) = [i \in 1..received |-> i]
       /\ [i \in DOMAIN line |-> Len(line[i])] = sizes

Good(ch) ==
  /\ Owns(next, Heads, ch, allocated)
  /\ Known(ch)
  /\ Whole(Line(ch))
  /\ kind = "datagrams" => ch["published"] = <<>> /\ ch["taken"] = <<>> /\ remaining = 0

BufferInv == BufferTypes /\ \E ch : Good(ch)

-----------------------------------------------------------------------------
(* The lines that are handed on.                                             *)

Pieces(S, c, t, p, f, a) ==
  c \in Seq(S) /\ t \in Seq(S) /\ p \in Seq(S) /\ f \in Seq(S) /\ a \in Seq(S)

\* What is handed on from one part of the line to the next keeps its place in it: a
\* batch that is collected anew, one that is joined to what was published, one that is
\* taken, and one that is processed or copied.
LEMMA InLineMoves ==
  ASSUME NEW S, NEW c, NEW t, NEW p, NEW f, NEW a, Pieces(S, c, t, p, f, a)
  PROVE  /\ InLine(c, t, p, f, a) \in Seq(S)
         /\ InLine(c, t, p, a, <<>>) = InLine(c, t, p, <<>>, a)
         /\ InLine(c, t, p \o f, <<>>, a) = InLine(c, t, p, f, a)
         /\ InLine(c, p, <<>>, f, a) = InLine(c, <<>>, p, f, a)
         /\ InLine(c \o f, <<>>, <<>>, <<>>, a) = InLine(c, <<>>, <<>>, f, a)
         /\ InLine(c \o t, <<>>, p, f, a) = InLine(c, t, p, f, a)
<1>0. c \in Seq(S) /\ t \in Seq(S) /\ p \in Seq(S) /\ f \in Seq(S) /\ a \in Seq(S)
  BY DEF Pieces
<1>1. \A x \in Seq(S) : x \o <<>> = x
  BY ConcatEmptySeq
<1> DEFINE ct == c \o t
           ctp == ct \o p
           cp == c \o p
           cf == c \o f
<1>2. ct \in Seq(S) /\ cp \in Seq(S) /\ cf \in Seq(S)
  BY <1>0, ConcatProperties
<1> HIDE DEF ct, cp, cf
<1>3. ctp \in Seq(S)
  BY <1>0, <1>2, ConcatProperties
<1>4. ctp \o f = ct \o (p \o f)
  <2>1. Regroups(ct, p, f)
    BY <1>0, <1>2, Associative
  <2> QED
    BY <2>1 DEF Regroups
<1> HIDE DEF ctp
<1>5. ctp \o f \in Seq(S) /\ ctp \o a \in Seq(S) /\ p \o f \in Seq(S)
  BY <1>0, <1>3, ConcatProperties
<1> DEFINE x == ctp \o f
           y == ctp \o a
           z == ct \o (p \o f)
<1>6. z = x
  BY <1>4
<1>7. x \in Seq(S) /\ y \in Seq(S)
  BY <1>5
<1> HIDE DEF x, y, z
<1>8. x \o a \in Seq(S)
  BY <1>0, <1>7, ConcatProperties
<1>9. InLine(c, t, p, f, a) = x \o a
  BY DEF InLine, x, ctp, ct
<1>10. InLine(c, t, p, a, <<>>) = InLine(c, t, p, <<>>, a)
  <2>1. InLine(c, t, p, a, <<>>) = y \o <<>>
    BY DEF InLine, y, ctp, ct
  <2>2. InLine(c, t, p, <<>>, a) = (ctp \o <<>>) \o a
    BY DEF InLine, ctp, ct
  <2> QED
    BY <1>1, <1>3, <1>7, <2>1, <2>2 DEF y
<1>11. InLine(c, t, p \o f, <<>>, a) = InLine(c, t, p, f, a)
  <2>1. InLine(c, t, p \o f, <<>>, a) = (z \o <<>>) \o a
    BY DEF InLine, z, ct
  <2> QED
    BY <1>1, <1>6, <1>7, <1>9, <2>1
<1>12. InLine(c, p, <<>>, f, a) = InLine(c, <<>>, p, f, a)
  <2>1. InLine(c, p, <<>>, f, a) = (((cp \o <<>>) \o f) \o a)
    BY DEF InLine, cp
  <2>2. InLine(c, <<>>, p, f, a) = ((((c \o <<>>) \o p) \o f) \o a)
    BY DEF InLine
  <2> QED
    BY <1>0, <1>1, <1>2, <2>1, <2>2 DEF cp
<1>13. InLine(c \o f, <<>>, <<>>, <<>>, a) = InLine(c, <<>>, <<>>, f, a)
  <2>1. InLine(c \o f, <<>>, <<>>, <<>>, a) = ((((cf \o <<>>) \o <<>>) \o <<>>) \o a)
    BY DEF InLine, cf
  <2>2. InLine(c, <<>>, <<>>, f, a) = ((((c \o <<>>) \o <<>>) \o f) \o a)
    BY DEF InLine
  <2> QED
    BY <1>0, <1>1, <1>2, <2>1, <2>2 DEF cf
<1>14. InLine(c \o t, <<>>, p, f, a) = InLine(c, t, p, f, a)
  <2>1. InLine(c \o t, <<>>, p, f, a) = ((((ct \o <<>>) \o p) \o f) \o a)
    BY DEF InLine, ct
  <2>2. InLine(c, t, p, f, a) = ((((ct) \o p) \o f) \o a)
    BY DEF InLine, ct
  <2> QED
    BY <1>0, <1>1, <1>2, <2>1, <2>2
<1> QED
  BY <1>8, <1>9, <1>10, <1>11, <1>12, <1>13, <1>14

\* More is put into the last buffer of a chain, or into a new one behind it.
LEMMA ContentLast ==
  ASSUME NEW S, NEW f \in [Buffer -> Seq(S)], NEW c \in Seq(Buffer), IsInjective(c), c # <<>>,
         NEW e \in Seq(S), NEW g, \A b \in ToSet(c) : g[b] = IF b = Last(c) THEN f[b] \o e ELSE f[b]
  PROVE  Content(g, c) = Content(f, c) \o e
<1> DEFINE n == Len(c)
           s == [i \in DOMAIN c |-> f[c[i]]]
           t == [i \in DOMAIN c |-> g[c[i]]]
           q == SubSeq(s, 1, n - 1)
<1>1. /\ n \in Nat \ {0} /\ DOMAIN c = 1..n /\ \A i \in 1..n : c[i] \in Buffer
  BY EmptySeq, ElementOfSeq
<1>2. Last(c) = c[n] /\ \A i \in 1..n : c[i] = Last(c) => i = n
  <2>1. Last(c) = c[n]
    BY DEF Last
  <2> HIDE DEF n
  <2>2. n \in DOMAIN c /\ DOMAIN c = 1..n
    BY <1>1
  <2>3. \A i, j \in DOMAIN c : c[i] = c[j] => i = j
    BY DEF IsInjective
  <2> QED
    BY <2>1, <2>2, <2>3
<1>3. \A i \in 1..n : f[c[i]] \in Seq(S) /\ t[i] = IF i = n THEN f[c[i]] \o e ELSE f[c[i]]
  BY <1>1, <1>2 DEF ToSet
<1> HIDE DEF n
<1>4. s \in Seq(Seq(S)) /\ Len(s) = n /\ \A i \in 1..n : s[i] = f[c[i]]
  <2>1. Len(s) = n /\ s \in Seq(Seq(S))
    BY ContentSeq DEF n
  <2> QED
    BY <1>1, <2>1
<1>5. t \in [1..n -> Seq(S)]
  <2>1. \A i \in 1..n : f[c[i]] \o e \in Seq(S)
    BY <1>3, ConcatProperties
  <2> QED
    BY <1>1, <1>3, <2>1
<1>6. t \in Seq(Seq(S)) /\ Len(t) = n
  BY <1>1, <1>5
<1> HIDE DEF s, t
<1>7. /\ q \in Seq(Seq(S)) /\ Len(q) = n - 1 /\ \A i \in 1..(n - 1) : q[i] = s[i]
  BY <1>1, <1>4, SubSeqProperties
<1> HIDE DEF q
<1> DEFINE x == f[c[n]]
<1>8. x \in Seq(S) /\ x \o e \in Seq(S)
  BY <1>1, <1>3, ConcatProperties
<1>9. s[n] = x /\ t[n] = x \o e
  <2>1. n \in 1..n
    BY <1>1
  <2> QED
    BY <1>3, <1>4, <2>1
<1>10. \A i \in 1..(n - 1) : t[i] = s[i]
  BY <1>1, <1>3, <1>4
<1> HIDE DEF x
<1>11. s = Append(q, x)
  <2>1. Append(q, x) \in Seq(Seq(S)) /\ Len(Append(q, x)) = n
    BY <1>1, <1>7, <1>8, AppendProperties
  <2>2. \A i \in 1..n : Append(q, x)[i] = s[i]
    BY <1>1, <1>4, <1>7, <1>8, <1>9, AppendProperties
  <2> QED
    BY <1>4, <2>1, <2>2, SeqEqual
<1>12. t = Append(q, x \o e)
  <2>1. Append(q, x \o e) \in Seq(Seq(S)) /\ Len(Append(q, x \o e)) = n
    BY <1>1, <1>7, <1>8, AppendProperties
  <2> DEFINE y == x \o e
  <2>3. y \in Seq(S) /\ t[n] = y
    BY <1>8, <1>9
  <2> HIDE DEF y
  <2>4. \A i \in 1..n : Append(q, y)[i] = t[i]
    BY <1>1, <1>7, <1>10, <2>3, AppendProperties
  <2>2. \A i \in 1..n : Append(q, x \o e)[i] = t[i]
    BY <2>4 DEF y
  <2> QED
    BY <1>6, <2>1, <2>2, SeqEqual
<1>13. FlattenSeq(s) = FlattenSeq(q) \o x
  BY <1>7, <1>8, <1>11, FlattenAppend
<1>14. FlattenSeq(t) = FlattenSeq(q) \o (x \o e)
  BY <1>7, <1>8, <1>12, FlattenAppend
<1>15. FlattenSeq(q) \in Seq(S)
  BY <1>7, FlattenType
<1>16. FlattenSeq(q) \o (x \o e) = (FlattenSeq(q) \o x) \o e
  <2> DEFINE r == FlattenSeq(q)
  <2>1. r \in Seq(S) /\ x \in Seq(S) /\ e \in Seq(S)
    BY <1>8, <1>15
  <2> HIDE DEF r
  <2>2. Regroups(r, x, e)
    BY <2>1, Associative
  <2> QED
    BY <2>2 DEF Regroups, r
<1> QED
  BY <1>13, <1>14, <1>16 DEF Content, s, t

-----------------------------------------------------------------------------
(* From the invariant to the property.                                       *)

\* A sequence without repetitions is as long as its set is large.
LEMMA InjectiveLength ==
  ASSUME NEW S, NEW c \in Seq(S), IsInjective(c)
  PROVE  IsFiniteSet(ToSet(c)) /\ Cardinality(ToSet(c)) = Len(c)
<1> DEFINE n == Len(c)
           T == ToSet(c)
<1>1. n \in Nat /\ DOMAIN c = 1..n
  OBVIOUS
<1>2. c \in [1..n -> T] /\ \A t \in T : \E i \in 1..n : c[i] = t
  <2>1. \A i \in 1..n : c[i] \in T
    BY <1>1 DEF ToSet
  <2>2. c = [i \in 1..n |-> c[i]]
    BY <1>1
  <2> QED
    BY <1>1, <2>1, <2>2 DEF ToSet
<1> HIDE DEF n, T
<1>3. c \in Bijection(1..n, T)
  BY <1>2 DEF Bijection, Injection, Surjection
<1>4. ExistsBijection(1..n, T)
  BY <1>3 DEF ExistsBijection
<1>5. 1 \in Int /\ n \in Int
  BY <1>1
<1>6. IsFiniteSet(1..n) /\ Cardinality(1..n) = n
  BY <1>1, <1>5, FS_Interval
<1> QED
  BY <1>4, <1>6, FS_Bijection DEF n, T

\* Where chains begin.
LEMMA HeadsOf ==
  ASSUME NEW nx, NEW hd, NEW ch, NEW n, Owns(nx, hd, ch, n), NEW p \in Place
  PROVE  /\ ch[p] \in Seq(Buffer) /\ IsInjective(ch[p])
         /\ hd[p] = Null <=> ch[p] = <<>>
         /\ ch[p] # <<>> => hd[p] \in ToSet(ch[p]) /\ Last(ch[p]) \in ToSet(ch[p])
         /\ ToSet(ch[p]) \subseteq Buffer
<1> DEFINE c == ch[p]
<1>1. c \in Seq(Buffer) /\ Links(nx, hd[p], c) /\ IsInjective(c)
  BY DEF Owns
<1>2. hd[p] = IF c = <<>> THEN Null ELSE c[1]
  BY <1>1 DEF Links
<1> HIDE DEF c
<1>3. ToSet(c) \subseteq Buffer
  BY <1>1, ElementsIn
<1>4. ASSUME c # <<>> PROVE c[1] \in ToSet(c) /\ Last(c) \in ToSet(c)
  <2>1. Len(c) \in Nat \ {0} /\ DOMAIN c = 1..Len(c)
    BY <1>1, <1>4, EmptySeq
  <2>2. 1 \in DOMAIN c /\ Len(c) \in DOMAIN c
    BY <2>1
  <2> QED
    BY <2>2 DEF Last, ToSet
<1> QED
  BY <1>1, <1>2, <1>3, <1>4, BufferIsReal DEF c

\* The chains together have all buffers.
LEMMA OwnsAll ==
  ASSUME NEW nx, NEW hd, NEW ch, NEW n \in Nat, Owns(nx, hd, ch, n)
  PROVE  LET all == ch["free"] \o ch["arriving"] \o ch["flushing"] \o ch["published"] \o ch["taken"]
         IN Len(all) = n /\ ToSet(all) = 1..n
<1> DEFINE a == ch["free"]
           b == ch["arriving"]
           c == ch["flushing"]
           d == ch["published"]
           e == ch["taken"]
<1>1. Place = {"free", "arriving", "flushing", "published", "taken"}
  BY DEF Place, Batch
<1>2. /\ a \in Seq(Buffer) /\ b \in Seq(Buffer) /\ c \in Seq(Buffer)
      /\ d \in Seq(Buffer) /\ e \in Seq(Buffer)
      /\ IsInjective(a) /\ IsInjective(b) /\ IsInjective(c) /\ IsInjective(d) /\ IsInjective(e)
  BY <1>1 DEF Owns
<1>3. /\ ToSet(a) \cap ToSet(b) = {} /\ ToSet(a) \cap ToSet(c) = {} /\ ToSet(a) \cap ToSet(d) = {}
      /\ ToSet(a) \cap ToSet(e) = {} /\ ToSet(b) \cap ToSet(c) = {} /\ ToSet(b) \cap ToSet(d) = {}
      /\ ToSet(b) \cap ToSet(e) = {} /\ ToSet(c) \cap ToSet(d) = {} /\ ToSet(c) \cap ToSet(e) = {}
      /\ ToSet(d) \cap ToSet(e) = {}
  BY <1>1 DEF Owns
<1>4. ToSet(a) \cup ToSet(b) \cup ToSet(c) \cup ToSet(d) \cup ToSet(e) = 1..n
  BY <1>1 DEF Owns
<1> HIDE DEF a, b, c, d, e
<1> DEFINE ab == a \o b
<1>5. ab \in Seq(Buffer) /\ IsInjective(ab) /\ ToSet(ab) = ToSet(a) \cup ToSet(b)
  BY <1>2, <1>3, InjectiveConcat, ToSetConcat, ConcatProperties
<1> HIDE DEF ab
<1> DEFINE abc == ab \o c
<1>6. ToSet(ab) \cap ToSet(c) = {}
  BY <1>3, <1>5
<1>7. abc \in Seq(Buffer) /\ IsInjective(abc) /\ ToSet(abc) = ToSet(ab) \cup ToSet(c)
  BY <1>2, <1>5, <1>6, InjectiveConcat, ToSetConcat, ConcatProperties
<1> HIDE DEF abc
<1> DEFINE abcd == abc \o d
<1>8. ToSet(abc) \cap ToSet(d) = {}
  BY <1>3, <1>5, <1>7
<1>9. abcd \in Seq(Buffer) /\ IsInjective(abcd) /\ ToSet(abcd) = ToSet(abc) \cup ToSet(d)
  BY <1>2, <1>7, <1>8, InjectiveConcat, ToSetConcat, ConcatProperties
<1> HIDE DEF abcd
<1> DEFINE all == abcd \o e
<1>10. ToSet(abcd) \cap ToSet(e) = {}
  BY <1>3, <1>5, <1>7, <1>9
<1>11. all \in Seq(Buffer) /\ IsInjective(all) /\ ToSet(all) = ToSet(abcd) \cup ToSet(e)
  BY <1>2, <1>9, <1>10, InjectiveConcat, ToSetConcat, ConcatProperties
<1> HIDE DEF all
<1>12. ToSet(all) = 1..n
  BY <1>4, <1>5, <1>7, <1>9, <1>11
<1>13. Cardinality(1..n) = n
  <2>1. 1 \in Int /\ n \in Int
    OBVIOUS
  <2> QED
    BY <2>1, FS_Interval
<1>14. Len(all) = n
  BY <1>11, <1>12, <1>13, InjectiveLength
<1> QED
  BY <1>12, <1>14 DEF all, abcd, abc, ab, a, b, c, d, e

\* A chain has no more buffers than there are.
LEMMA OwnsLength ==
  ASSUME NEW nx, NEW hd, NEW ch, NEW n \in Nat, Owns(nx, hd, ch, n), n <= MaxBuffers,
         NEW p \in Place
  PROVE  Len(ch[p]) <= MaxBuffers
<1>1. ch[p] \in Seq(Buffer) /\ IsInjective(ch[p]) /\ ToSet(ch[p]) \subseteq 1..n
  BY DEF Owns
<1>2. 1 \in Int /\ n \in Int
  OBVIOUS
<1>3. IsFiniteSet(1..n) /\ Cardinality(1..n) = n
  BY <1>2, FS_Interval
<1>4. ToSet(ch[p]) \in SUBSET (1..n)
  BY <1>1
<1>5. Cardinality(ToSet(ch[p])) <= n
  BY <1>3, <1>4, FS_Subset
<1>6. Cardinality(ToSet(ch[p])) = Len(ch[p]) /\ Len(ch[p]) \in Nat
  BY <1>1, InjectiveLength
<1> QED
  BY <1>5, <1>6, BufferAssumption

\* Every buffer holds a sequence: of bytes, or of datagrams.
LEMMA HoldsType ==
  ASSUME BufferTypes
  PROVE  Holds \in [Buffer -> Seq(Item)] /\ Cut \in [Buffer -> Seq(Seq(Nat))]
<1>1. ASSUME NEW b \in Buffer PROVE PacketsOf(b) \in Seq(Seq(Nat))
  <2> DEFINE r == packets[b]
             y == payload[b]
             s(i) == SubSeq(y, r[i].offset + 1, r[i].offset + r[i].length)
  <2>1. /\ r \in Seq([offset : Nat, length : Nat]) /\ y \in Seq(Nat)
        /\ \A i \in 1..Len(r) : r[i].offset + r[i].length <= Len(y)
    BY DEF BufferTypes
  <2> HIDE DEF r, y
  <2>2. ASSUME NEW i \in 1..Len(r) PROVE s(i) \in Seq(Nat)
    <3>1. r[i] \in [offset : Nat, length : Nat]
      BY <2>1, ElementOfSeq
    <3> DEFINE m == r[i].offset
               k == r[i].offset + r[i].length
    <3>2. m \in Nat /\ k \in Nat /\ k <= Len(y)
      BY <2>1, <3>1
    <3> HIDE DEF m, k
    <3>3. m + 1 \in Int /\ k \in Int /\ \A j \in (m + 1)..k : y[j] \in Nat
      <4>1. \A j \in (m + 1)..k : j \in 1..Len(y)
        BY <2>1, <3>2
      <4> QED
        BY <2>1, <3>2, <4>1, ElementOfSeq
    <3>4. SubSeq(y, m + 1, k) \in Seq(Nat)
      BY <3>3, SubSeqProperties
    <3> QED
      BY <3>4 DEF m, k
  <2> HIDE DEF s
  <2>3. [i \in 1..Len(r) |-> s(i)] \in Seq(Seq(Nat))
    BY <2>1, <2>2
  <2>4. DOMAIN r = 1..Len(r)
    BY <2>1
  <2> QED
    BY <2>3, <2>4 DEF PacketsOf, s, r, y
<1>2. Cut \in [Buffer -> Seq(Seq(Nat))]
  BY <1>1 DEF Cut
<1> QED
  BY <1>2 DEF BufferTypes, Holds, Item

\* The chains are what the model walks.
LEMMA ChainIs ==
  ASSUME BufferTypes, NEW ch, Owns(next, Heads, ch, allocated)
  PROVE  /\ Walk(freeHead) = ch["free"]
         /\ \A w \in Batch :
              /\ Chain(w) = ch[w] /\ ch[w] \in Seq(Buffer)
              /\ Bytes(w) = Content(payload, ch[w]) /\ PacketsIn(w) = Content(Cut, ch[w])
<1>3. Owns(next, Heads, ch, allocated)
  OBVIOUS
<1>4. allocated \in Nat /\ allocated <= MaxBuffers
  BY DEF BufferTypes
<1>5. ASSUME NEW p \in Place PROVE Walk(Heads[p]) = ch[p] /\ ch[p] \in Seq(Buffer)
  <2>1. ch[p] \in Seq(Buffer) /\ Links(next, Heads[p], ch[p])
    BY <1>3 DEF Owns
  <2>2. Len(ch[p]) <= MaxBuffers
    BY <1>3, <1>4, OwnsLength
  <2> QED
    BY <2>1, <2>2, WalkIs
<1>6. Walk(freeHead) = ch["free"]
  <2>1. Heads["free"] = freeHead /\ "free" \in Place
    BY DEF Heads, Place
  <2> QED
    BY <1>5, <2>1
<1>7. ASSUME NEW w \in Batch
      PROVE  /\ Chain(w) = ch[w] /\ ch[w] \in Seq(Buffer)
             /\ Bytes(w) = Content(payload, ch[w]) /\ PacketsIn(w) = Content(Cut, ch[w])
  <2>1. Heads[w] = batch[w].head /\ w \in Place
    BY DEF Heads, Place, Batch
  <2>2. Chain(w) = ch[w] /\ ch[w] \in Seq(Buffer)
    BY <1>5, <2>1 DEF Chain
  <2> DEFINE c == ch[w]
  <2> HIDE DEF c
  <2>3. Chain(w) = c /\ c \in Seq(Buffer)
    BY <2>2 DEF c
  <2>4. Bytes(w) = Content(payload, c)
    BY <2>3 DEF Bytes, Content
  <2>5. [i \in DOMAIN c |-> PacketsOf(c[i])] = [i \in DOMAIN c |-> Cut[c[i]]]
    <3>1. \A i \in DOMAIN c : c[i] \in Buffer
      BY <2>3, ElementOfSeq
    <3> QED
      BY <3>1 DEF Cut
  <2>6. PacketsIn(w) = Content(Cut, c)
    BY <2>3, <2>5 DEF PacketsIn, Content
  <2> QED
    BY <2>3, <2>4, <2>6 DEF c
<1> QED
  BY <1>6, <1>7

\* The invariant has the property the runs check.
LEMMA Follows == BufferInv => BatchesAreSequences
<1> SUFFICES ASSUME BufferInv PROVE BatchesAreSequences
  OBVIOUS
<1>1. BufferTypes
  BY DEF BufferInv
<1>2. PICK ch : Good(ch)
  BY DEF BufferInv
<1>3. Owns(next, Heads, ch, allocated)
  BY <1>2 DEF Good
<1>4. allocated \in Nat /\ allocated <= MaxBuffers
  BY <1>1 DEF BufferTypes
<1>7. /\ Walk(freeHead) = ch["free"]
      /\ \A w \in Batch :
           /\ Chain(w) = ch[w] /\ ch[w] \in Seq(Buffer)
           /\ Bytes(w) = Content(payload, ch[w]) /\ PacketsIn(w) = Content(Cut, ch[w])
  BY <1>1, <1>3, ChainIs
<1>8. "arriving" \in Batch /\ "flushing" \in Batch /\ "published" \in Batch /\ "taken" \in Batch
  BY DEF Batch
<1>9. EveryBufferOwnedOnce
  BY <1>3, <1>4, <1>7, <1>8, OwnsAll DEF EveryBufferOwnedOnce
<1>10. CountsMatch
  <2>1. Known(ch)
    BY <1>2 DEF Good
  <2>2. ASSUME NEW w \in Batch
        PROVE  /\ batch[w].buffers = Len(Chain(w))
               /\ batch[w].count = IF kind = "stream" THEN Len(Bytes(w)) ELSE Len(PacketsIn(w))
               /\ batch[w].tail = IF Chain(w) = <<>> THEN Null ELSE Last(Chain(w))
    BY <1>7, <2>1 DEF Known, Holds
  <2> QED
    BY <2>2 DEF CountsMatch
<1>11. InOrder
  <2>1. Whole(Line(ch))
    BY <1>2 DEF Good
  <2>2. CASE kind = "stream"
    <3>1. Line(ch) = consumed \o Bytes("taken") \o Bytes("published") \o Bytes("flushing") \o Bytes("arriving")
      BY <1>7, <1>8, <2>2 DEF Line, InLine, Holds
    <3> QED
      BY <2>1, <2>2, <3>1 DEF Whole, InOrder
  <2>3. CASE kind # "stream"
    <3>1. ch["published"] = <<>> /\ ch["taken"] = <<>>
      BY <1>1, <1>2, <2>3 DEF Good, BufferTypes
    <3>2. Content(Holds, ch["published"]) = <<>> /\ Content(Holds, ch["taken"]) = <<>>
      BY <3>1, ContentEmpty
    <3>3. Line(ch) = consumed \o <<>> \o <<>> \o PacketsIn("flushing") \o PacketsIn("arriving")
      BY <1>7, <1>8, <2>3, <3>2 DEF Line, InLine, Holds
    <3>4. consumed \o <<>> = consumed
      BY <1>1, ConcatEmptySeq DEF BufferTypes
    <3>5. Line(ch) = consumed \o PacketsIn("flushing") \o PacketsIn("arriving")
      BY <3>3, <3>4
    <3> QED
      BY <2>1, <2>3, <3>5 DEF Whole, InOrder
  <2> QED
    BY <2>2, <2>3
<1> QED
  BY <1>9, <1>10, <1>11 DEF BatchesAreSequences

\* A pool begins with its buffers free and its batches empty.
LEMMA Begins == BufferInit => BufferInv
<1> SUFFICES ASSUME BufferInit PROVE BufferInv
  OBVIOUS
<1> DEFINE nx == [b \in Buffer |-> Null]
           hd == [p \in Place |-> Null]
           ch == [p \in Place |-> <<>>]
           k == InitialCount
           f == [i \in 1..k |-> (0 + k + 1) - i]
           d == [ch EXCEPT !["free"] = f]
<1>1. k \in Nat \ {0} /\ k <= MaxBuffers /\ 0 + k = k /\ 0 + 1 = 1
  BY BufferAssumption
<1>2. "free" \in Place /\ Batch \subseteq Place /\ "free" \notin Batch
  BY DEF Place, Batch
<1>3. Owns(nx, hd, ch, 0)
  <2>1. <<>> \in Seq(Buffer) /\ Null \in Nat
    BY DEF Null
  <2>2. \A p \in Place : ch[p] = <<>> /\ hd[p] = Null
    OBVIOUS
  <2>3. ch \in [Place -> Seq(Buffer)] /\ hd \in [Place -> Nat]
    BY <2>1
  <2> HIDE DEF nx, ch, hd
  <2>4. \A p \in Place : Links(nx, hd[p], ch[p]) /\ IsInjective(ch[p]) /\ ToSet(ch[p]) = {}
    BY <2>2, LinksEmpty, EmptyElements
  <2>5. \A b : b \notin 1..0
    OBVIOUS
  <2> QED
    BY <2>3, <2>4, <2>5 DEF Owns
<1>4. ch["free"] = <<>>
  BY <1>2
<1>5. \A w \in Batch : d[w] = <<>>
  BY <1>2
<1> HIDE DEF ch
<1>6. Owns(Slab(0 + 1, k, nx, Null), [hd EXCEPT !["free"] = 0 + k], d, 0 + k)
  <2>1. 0 \in Nat /\ 0 + k <= MaxBuffers
    BY <1>1
  <2> HIDE DEF nx, hd, k
  <2> QED
    BY <1>1, <1>3, <1>4, <2>1, OwnsGrow
<1>7. Heads = [hd EXCEPT !["free"] = k]
  <2>1. ASSUME NEW p \in Place PROVE Heads[p] = IF p = "free" THEN k ELSE Null
    BY DEF Heads, BufferInit, Empty, Place
  <2> QED
    BY <1>2, <2>1 DEF Heads
<1>8. Owns(next, Heads, d, allocated)
  BY <1>1, <1>6, <1>7 DEF BufferInit
<1> HIDE DEF d
<1>9. BufferTypes
  <2>1. next \in [Buffer -> Nat]
    BY BufferIsReal, <1>1 DEF BufferInit, Slab, Null, Buffer
  <2>2. batch \in [Batch -> [head : Nat, tail : Nat, count : Nat, buffers : Nat]]
    BY DEF BufferInit, Empty, Null
  <2>3. PayloadSize \in Nat
    BY BufferAssumption
  <2>4. /\ payload \in [Buffer -> Seq(Nat)] /\ packets \in [Buffer -> Seq([offset : Nat, length : Nat])]
        /\ sizes \in Seq(Nat) /\ consumed \in Seq(Item)
    BY DEF BufferInit
  <2>5. \A b \in Buffer : Len(payload[b]) = 0 /\ packets[b] = <<>> /\ Len(packets[b]) = 0
    BY DEF BufferInit
  <2> QED
    BY <1>1, <2>1, <2>2, <2>3, <2>4, <2>5 DEF BufferTypes, BufferInit
<1>10. \A w \in Batch : Content(Holds, d[w]) = <<>>
  BY <1>5, ContentEmpty
<1>11. Known(d)
  BY <1>5, <1>10 DEF Known, BufferInit, Empty
<1>12. Whole(Line(d))
  <2>1. Line(d) = <<>>
    <3>1. Line(d) = <<>> \o <<>> \o <<>> \o <<>> \o <<>>
      BY <1>10 DEF Line, InLine, BufferInit, Batch
    <3>2. <<>> \in Seq(Nat)
      OBVIOUS
    <3> QED
      BY <3>1, <3>2, ConcatEmptySeq
  <2>2. [i \in 1..0 |-> i] = <<>>
    OBVIOUS
  <2>3. \A z : [i \in DOMAIN z |-> Len(z[i])] = <<>> \/ z # <<>>
    OBVIOUS
  <2> QED
    BY <2>1, <2>2, <2>3, FlattenEmpty DEF Whole, BufferInit
<1>13. d["published"] = <<>> /\ d["taken"] = <<>> /\ remaining = 0
  BY <1>5 DEF Batch, BufferInit
<1> QED
  BY <1>8, <1>9, <1>11, <1>12, <1>13 DEF BufferInv, Good

\* acquire takes a buffer no batch has, from the free ones or from a slab it adds, and
\* puts it behind the batch.
LEMMA TakesBuffer ==
  ASSUME BufferTypes, NEW ch, Owns(next, Heads, ch, allocated), Known(ch),
         NEW w \in Batch, TakeBuffer(w)
  PROVE  /\ allocated' \in Nat /\ allocated' <= MaxBuffers /\ freeHead' \in Nat
         /\ next' \in [Buffer -> Nat] /\ Acquired \in Buffer
         /\ \A q \in Batch : Acquired \notin ToSet(ch[q])
         /\ \E f : Owns(next', [Heads EXCEPT !["free"] = freeHead',
                                             ![w] = IF ch[w] = <<>> THEN Acquired ELSE Heads[w]],
                        [ch EXCEPT !["free"] = f, ![w] = ch[w] \o <<Acquired>>], allocated')
<1> DEFINE n == allocated
           k == GrowCount
           h == IF ch[w] = <<>> THEN Acquired ELSE Heads[w]
           hds(x) == [Heads EXCEPT !["free"] = x, ![w] = h]
           chs(f) == [ch EXCEPT !["free"] = f, ![w] = ch[w] \o <<Acquired>>]
<1>0. "free" \in Place /\ w \in Place /\ w # "free" /\ Batch \subseteq Place /\ "free" \notin Batch
  BY DEF Place, Batch
<1>1. /\ n \in Nat /\ n <= MaxBuffers /\ freeHead \in Nat /\ next \in [Buffer -> Nat]
      /\ Heads["free"] = freeHead /\ Heads[w] = batch[w].head
      /\ k \in Nat \ {0} /\ MaxBuffers \in Nat
  BY <1>0, BufferAssumption DEF BufferTypes, Heads
<1>2. /\ freeHead = Null <=> ch["free"] = <<>>
      /\ batch[w].head = Null <=> ch[w] = <<>>
      /\ ch[w] # <<>> => Tail_(w) = Last(ch[w]) /\ Last(ch[w]) \in Buffer
      /\ freeHead # Null => freeHead \in Buffer
      /\ ch["free"] \in Seq(Buffer)
  <2>1. /\ ToSet(ch["free"]) \subseteq Buffer /\ ToSet(ch[w]) \subseteq Buffer
        /\ freeHead = Null <=> ch["free"] = <<>>
        /\ batch[w].head = Null <=> ch[w] = <<>>
        /\ ch[w] # <<>> => Last(ch[w]) \in ToSet(ch[w])
        /\ ch["free"] # <<>> => freeHead \in ToSet(ch["free"])
        /\ ch["free"] \in Seq(Buffer)
    BY <1>0, <1>1, HeadsOf
  <2> QED
    BY <2>1 DEF Known, Tail_
\* the chains, with grown for the pointers of the free list
<1>3. ASSUME NEW g \in [Buffer -> Nat], Acquired \in Buffer,
             next' = [(IF batch[w].head = Null THEN g ELSE [g EXCEPT ![Tail_(w)] = Acquired])
                        EXCEPT ![Acquired] = Null]
      PROVE  /\ next' \in [Buffer -> Nat]
             /\ Behind(next', g, ch[w], Acquired)
  <2>1. Acquired \in Nat /\ Null \in Nat
    BY <1>3, BufferIsReal DEF Null
  <2>2. CASE ch[w] = <<>>
    BY <1>2, <1>3, <2>1, <2>2 DEF Behind
  <2>3. CASE ch[w] # <<>>
    BY <1>2, <1>3, <2>1, <2>3 DEF Behind
  <2> QED
    BY <2>2, <2>3
<1>4. CASE ~Grows
  <2>1. /\ allocated' = n /\ freeHead' = next[freeHead] /\ Acquired = freeHead
        /\ next' = [(IF batch[w].head = Null THEN next ELSE [next EXCEPT ![Tail_(w)] = Acquired])
                      EXCEPT ![Acquired] = Null]
    BY <1>4 DEF TakeBuffer, FreeAfter, Acquired, ChainsAfter
  <2>2. Acquired \in Buffer /\ ch["free"] # <<>> /\ next[Acquired] \in Nat
    BY <1>1, <1>2, <1>4, <2>1 DEF Grows
  <2>3. /\ next' \in [Buffer -> Nat]
        /\ Behind(next', next, ch[w], Acquired)
    BY <1>1, <1>3, <2>1, <2>2
  <2>4. Acquired = Heads["free"]
    BY <1>1, <2>1
  <2> HIDE DEF h
  <2>5. /\ Owns(next', [Heads EXCEPT !["free"] = next[Acquired], ![w] = IF ch[w] = <<>> THEN Acquired ELSE Heads[w]],
                [ch EXCEPT !["free"] = Tail(ch["free"]), ![w] = ch[w] \o <<Acquired>>], n)
        /\ \A q \in Place : q # "free" => Acquired \notin ToSet(ch[q])
    BY <2>2, <2>3, <2>4, OwnsTake
  <2>6. \A q \in Batch : Acquired \notin ToSet(ch[q])
    BY <1>0, <2>5
  <2> QED
    BY <1>1, <2>1, <2>2, <2>3, <2>5, <2>6
<1>5. CASE Grows
  <2> DEFINE g == Slab(n + 1, k, next, Null)
             f == [i \in 1..k |-> (n + k + 1) - i]
             ch1 == [ch EXCEPT !["free"] = f]
             hd1 == [Heads EXCEPT !["free"] = n + k]
  <2>0. /\ allocated' = n + k /\ Acquired = n + k /\ n + k <= MaxBuffers
        /\ freeHead' = IF k = 1 THEN Null ELSE n + k - 1
    BY <1>5 DEF TakeBuffer, FreeAfter, Acquired, CanAcquire
  <2>1. /\ next' = [(IF batch[w].head = Null THEN g ELSE [g EXCEPT ![Tail_(w)] = Acquired])
                      EXCEPT ![Acquired] = Null]
    BY <1>5 DEF TakeBuffer, ChainsAfter
  <2>2. Acquired \in Buffer
    BY <1>1, <2>0 DEF Buffer
  <2>3. g \in [Buffer -> Nat]
    <3>1. \A b \in Buffer : b - 1 \in Nat /\ next[b] \in Nat /\ Null \in Nat
      BY <1>1 DEF Buffer, Null
    <3> QED
      BY <3>1 DEF Slab
  <2>4. g[Acquired] = freeHead'
    <3>1. k = 1 => Acquired = n + 1
      BY <2>0
    <3>2. k # 1 => Acquired # n + 1 /\ Acquired \in (n + 1 + 1)..(n + 1 + k - 1) /\ Acquired - 1 = n + k - 1
      BY <1>1, <2>0
    <3>3. g[Acquired] = IF Acquired = n + 1 THEN Null
                        ELSE IF Acquired \in (n + 1 + 1)..(n + 1 + k - 1) THEN Acquired - 1
                        ELSE next[Acquired]
      BY <2>2 DEF Slab
    <3> HIDE DEF g
    <3> QED
      BY <2>0, <3>1, <3>2, <3>3
  <2>5. ch["free"] = <<>>
    BY <1>2, <1>5 DEF Grows
  <2> HIDE DEF g, f
  <2>6. Owns(g, hd1, ch1, n + k)
    BY <1>1, <2>0, <2>5, OwnsGrow DEF g, f
  <2>7. /\ next' \in [Buffer -> Nat]
        /\ Behind(next', g, ch[w], Acquired)
    BY <1>3, <2>1, <2>2, <2>3
  <2>8. ch \in [Place -> Seq(Buffer)] /\ DOMAIN Heads = Place
    BY DEF Owns, Heads
  <2>9. /\ ch1["free"] = f /\ ch1[w] = ch[w] /\ hd1["free"] = Acquired /\ hd1[w] = Heads[w]
        /\ \A q \in Batch : ch1[q] = ch[q]
    BY <1>0, <1>1, <2>0, <2>8
  <2>10. f # <<>>
    <3>1. 1 \in DOMAIN f
      BY <1>1 DEF f
    <3> QED
      BY <3>1
  <2>11. freeHead' \in Nat
    BY <2>2, <2>3, <2>4
  <2> DEFINE hd2 == [hd1 EXCEPT !["free"] = g[Acquired], ![w] = IF ch1[w] = <<>> THEN Acquired ELSE hd1[w]]
             ch2 == [ch1 EXCEPT !["free"] = Tail(ch1["free"]), ![w] = ch1[w] \o <<Acquired>>]
  <2>12. hd2 = [Heads EXCEPT !["free"] = freeHead', ![w] = IF ch[w] = <<>> THEN Acquired ELSE Heads[w]]
    BY <1>0, <2>4, <2>8, <2>9
  <2>13. ch2 = [ch EXCEPT !["free"] = Tail(f), ![w] = ch[w] \o <<Acquired>>]
    BY <1>0, <2>8, <2>9
  <2>14. /\ ch1["free"] # <<>> /\ Acquired = hd1["free"] /\ g[Acquired] \in Nat
         /\ Behind(next', g, ch1[w], Acquired)
    BY <2>4, <2>7, <2>9, <2>10, <2>11
  <2> HIDE DEF hd1, ch1
  <2>15. /\ Owns(next', hd2, ch2, n + k)
         /\ \A q \in Place : q # "free" => Acquired \notin ToSet(ch1[q])
    BY <2>6, <2>14, OwnsTake
  <2>16. \A q \in Batch : Acquired \notin ToSet(ch[q])
    BY <1>0, <2>9, <2>15
  <2>17. n + k \in Nat
    BY <1>1
  <2> HIDE DEF hd2, ch2
  <2>18. Owns(next', [Heads EXCEPT !["free"] = freeHead', ![w] = IF ch[w] = <<>> THEN Acquired ELSE Heads[w]],
              [ch EXCEPT !["free"] = Tail(f), ![w] = ch[w] \o <<Acquired>>], allocated')
    BY <2>0, <2>12, <2>13, <2>15
  <2> QED
    BY <1>1, <2>0, <2>2, <2>7, <2>11, <2>16, <2>17, <2>18
<1> QED
  BY <1>4, <1>5

-----------------------------------------------------------------------------
(* Appending.                                                                *)

\* The last buffer of a batch.
LEMMA LastBuffer ==
  ASSUME NEW ch, Owns(next, Heads, ch, allocated), Known(ch), NEW w \in Batch
  PROVE  /\ Tail_(w) = Null <=> ch[w] = <<>>
         /\ batch[w].head = Null <=> ch[w] = <<>>
         /\ ch[w] # <<>> => Tail_(w) = Last(ch[w]) /\ Tail_(w) \in ToSet(ch[w]) /\ Tail_(w) \in Buffer
         /\ ch[w] \in Seq(Buffer) /\ IsInjective(ch[w]) /\ ToSet(ch[w]) \subseteq Buffer
<1>1. w \in Place /\ Heads[w] = batch[w].head
  BY DEF Place, Batch, Heads
<1>2. /\ ch[w] \in Seq(Buffer) /\ IsInjective(ch[w]) /\ ToSet(ch[w]) \subseteq Buffer
      /\ Heads[w] = Null <=> ch[w] = <<>>
      /\ ch[w] # <<>> => Last(ch[w]) \in ToSet(ch[w])
  BY <1>1, HeadsOf
<1>3. Tail_(w) = IF ch[w] = <<>> THEN Null ELSE Last(ch[w])
  BY DEF Known, Tail_
<1> QED
  BY <1>1, <1>2, <1>3, BufferIsReal

\* g is f after buffer b was filled with y.
Puts(S, g, f, b, y) ==
  /\ f \in [Buffer -> Seq(S)] /\ g \in [Buffer -> Seq(S)] /\ b \in Buffer /\ y \in Seq(S)
  /\ \A x \in Buffer : g[x] = IF x = b THEN y ELSE f[x]

\* A chain that grew by one buffer ends with it.
LEMMA LastOf ==
  ASSUME NEW S, NEW c \in Seq(S), NEW b \in S
  PROVE  /\ c \o <<b>> \in Seq(S) /\ c \o <<b>> # <<>>
         /\ Len(c \o <<b>>) = Len(c) + 1 /\ Last(c \o <<b>>) = b
<1> DEFINE z == Append(c, b)
<1>1. c \o <<b>> = z
  BY AppendIsConcat
<1>2. z \in Seq(S) /\ z # <<>> /\ Len(z) = Len(c) + 1 /\ z[Len(c) + 1] = b
  BY AppendProperties
<1> HIDE DEF z
<1>3. Last(z) = b
  BY <1>2 DEF Last
<1> QED
  BY <1>1, <1>2, <1>3

\* A new buffer is put behind chain c.
Unused(c, b) == c \in Seq(Buffer) /\ b \notin ToSet(c)

\* A new buffer adds what was put into it to what the chain holds.
LEMMA ContentNew ==
  ASSUME NEW S, NEW f, NEW g, NEW c, NEW b, NEW e, Puts(S, g, f, b, e), Unused(c, b)
  PROVE  Content(g, Append(c, b)) = Content(f, c) \o e
<1> DEFINE o == <<b>>
<1>0. /\ f \in [Buffer -> Seq(S)] /\ g \in [Buffer -> Seq(S)] /\ b \in Buffer
      /\ c \in Seq(Buffer) /\ b \notin ToSet(c)
  BY DEF Puts, Unused
<1>1. o \in Seq(Buffer)
  BY <1>0
<1>2. Content(g, o) = g[b] /\ g[b] = e
  BY <1>0, ContentOne DEF Puts
<1>3. Append(c, b) = c \o o
  BY <1>0, AppendIsConcat
<1> HIDE DEF o
<1>4. Content(g, c \o o) = Content(g, c) \o Content(g, o)
  BY <1>0, <1>1, ContentConcat
<1>5. ToSet(c) \subseteq Buffer
  BY <1>0, ElementsIn
<1>6. \A x \in ToSet(c) : f[x] = g[x]
  BY <1>0, <1>5 DEF Puts
<1>7. Content(f, c) = Content(g, c)
  BY <1>6, ContentSame
<1> QED
  BY <1>2, <1>3, <1>4, <1>7

\* A batch has grown by e in a new buffer, or in its last one.
InNew(w, e) ==
  /\ TakeBuffer(w) /\ batch' = Counted(w, Len(e), TRUE)
  /\ Puts(Item, Holds', Holds, Acquired, e)
InLast(w, e) ==
  /\ UNCHANGED <<allocated, freeHead, next>> /\ Tail_(w) # Null
  /\ batch' = Counted(w, Len(e), FALSE)
  /\ Puts(Item, Holds', Holds, Tail_(w), Holds[Tail_(w)] \o e)

\* So has what its chain holds; the other chains are as they were.
Grown(ch, d, w, e) ==
  /\ \A q \in Batch : q # w => d[q] = ch[q] /\ Content(Holds', d[q]) = Content(Holds, ch[q])
  /\ Content(Holds', d[w]) = Content(Holds, ch[w]) \o e

\* An append that needs a new buffer: the batch holds what it held and the new data.
LEMMA GrowsInNew ==
  ASSUME BufferTypes, NEW ch, Owns(next, Heads, ch, allocated), Known(ch),
         NEW w \in Batch, NEW e \in Seq(Item), InNew(w, e)
  PROVE  \E d : Owns(next', Heads', d, allocated') /\ Known(d)' /\ Grown(ch, d, w, e)
<1> DEFINE c == ch[w]
           b == Acquired
           o == <<b>>
           z == c \o o
<1>0. w \in Place /\ "free" \in Place /\ w # "free" /\ Place = Batch \cup {"free"} /\ "free" \notin Batch
  BY DEF Place, Batch
<1>1. /\ TakeBuffer(w) /\ Puts(Item, Holds', Holds, b, e)
      /\ Holds \in [Buffer -> Seq(Item)]
  BY HoldsType DEF InNew
<1>2. /\ batch[w].head = Null <=> c = <<>>
      /\ c \in Seq(Buffer)
  BY LastBuffer
<1>3. ch \in [Place -> Seq(Buffer)]
  BY DEF Owns
<1>4. /\ b \in Buffer /\ \A q \in Batch : b \notin ToSet(ch[q])
      /\ \E f : Owns(next', [Heads EXCEPT !["free"] = freeHead', ![w] = IF c = <<>> THEN b ELSE Heads[w]],
                     [ch EXCEPT !["free"] = f, ![w] = z], allocated')
  BY <1>1, TakesBuffer
<1>5. PICK f, d : d = [ch EXCEPT !["free"] = f, ![w] = z]
                  /\ Owns(next', [Heads EXCEPT !["free"] = freeHead',
                                               ![w] = IF c = <<>> THEN b ELSE Heads[w]], d, allocated')
  BY <1>4
\* the batch
<1>6. /\ batch'[w].head = IF batch[w].head = Null THEN b ELSE batch[w].head
      /\ batch'[w].tail = b
      /\ batch'[w].count = batch[w].count + Len(e)
      /\ batch'[w].buffers = batch[w].buffers + 1
      /\ \A q \in Batch : q # w => batch'[q] = batch[q]
  BY DEF InNew, Counted, BufferTypes
<1> HIDE DEF c, b, o, z
<1>7. Heads' = [Heads EXCEPT !["free"] = freeHead', ![w] = IF c = <<>> THEN b ELSE Heads[w]]
  <2>1. \A q \in Place : Heads'[q] = IF q = "free" THEN freeHead' ELSE batch'[q].head
    BY DEF Heads
  <2>2. \A q \in Place : Heads[q] = IF q = "free" THEN freeHead ELSE batch[q].head
    BY DEF Heads
  <2>3. DOMAIN Heads = Place /\ Heads' = [q \in Place |-> Heads'[q]]
    BY DEF Heads
  <2>4. \A q \in Place : Heads'[q] = IF q = "free" THEN freeHead'
                                     ELSE IF q = w THEN IF c = <<>> THEN b ELSE Heads[w]
                                     ELSE Heads[q]
    BY <1>0, <1>2, <1>6, <2>1, <2>2
  <2> QED
    BY <1>0, <2>3, <2>4
<1>8. d[w] = z /\ \A q \in Batch : q # w => d[q] = ch[q]
  BY <1>0, <1>3, <1>5
<1>9. Owns(next', Heads', d, allocated')
  BY <1>5, <1>7
<1>10. Content(Holds', z) = Content(Holds, c) \o e
  <2>1. c \in Seq(Buffer) /\ b \in Buffer /\ Unused(c, b)
    BY <1>2, <1>4 DEF c, Unused
  <2>2. Content(Holds', Append(c, b)) = Content(Holds, c) \o e
    BY <1>1, <2>1, ContentNew
  <2>3. Append(c, b) = z
    BY <2>1, AppendIsConcat DEF z, o
  <2> QED
    BY <2>2, <2>3
<1>11. ASSUME NEW q \in Batch, q # w PROVE Content(Holds', d[q]) = Content(Holds, ch[q])
  <2>1. b \notin ToSet(ch[q]) /\ ToSet(ch[q]) \subseteq Buffer
    BY <1>0, <1>4, HeadsOf
  <2>2. \A x \in ToSet(ch[q]) : Holds'[x] = Holds[x]
    BY <1>1, <2>1 DEF Puts
  <2>3. Content(Holds', ch[q]) = Content(Holds, ch[q])
    BY <2>2, ContentSame
  <2> QED
    BY <1>8, <1>11, <2>3
<1>12. Grown(ch, d, w, e)
  BY <1>8, <1>10, <1>11 DEF Grown, c
<1>13. z # <<>> /\ Len(z) = Len(c) + 1 /\ Last(z) = b
  <2>1. c \in Seq(Buffer) /\ b \in Buffer
    BY <1>2, <1>4
  <2> QED
    BY <2>1, LastOf DEF z, o
<1>14. /\ batch[w].buffers = Len(c) /\ batch[w].count = Len(Content(Holds, c))
       /\ \A q \in Batch : /\ batch[q].buffers = Len(ch[q])
                           /\ batch[q].tail = IF ch[q] = <<>> THEN Null ELSE Last(ch[q])
                           /\ batch[q].count = Len(Content(Holds, ch[q]))
  BY DEF Known, c
<1>15. Len(Content(Holds', z)) = Len(Content(Holds, c)) + Len(e)
  <2>1. Content(Holds, c) \in Seq(Item)
    BY <1>1, <1>2, ContentSeq
  <2> QED
    BY <1>10, <2>1, ConcatProperties
<1>16. Known(d)'
  <2>1. ASSUME NEW q \in Batch
        PROVE  /\ batch'[q].buffers = Len(d[q])
               /\ batch'[q].tail = IF d[q] = <<>> THEN Null ELSE Last(d[q])
               /\ batch'[q].count = Len(Content(Holds', d[q]))
    <3>1. CASE q = w
      BY <1>6, <1>8, <1>13, <1>14, <1>15, <3>1
    <3>2. CASE q # w
      BY <1>6, <1>8, <1>11, <1>14, <3>2
    <3> QED
      BY <3>1, <3>2
  <2> QED
    BY <2>1 DEF Known
<1> QED
  BY <1>9, <1>12, <1>16

\* An append that fits the last buffer: the same, and no pointer changes.
LEMMA GrowsInLast ==
  ASSUME BufferTypes, NEW ch, Owns(next, Heads, ch, allocated), Known(ch),
         NEW w \in Batch, NEW e \in Seq(Item), InLast(w, e)
  PROVE  Owns(next', Heads', ch, allocated') /\ Known(ch)' /\ Grown(ch, ch, w, e)
<1> DEFINE c == ch[w]
           b == Tail_(w)
<1>0. w \in Place /\ Place = Batch \cup {"free"} /\ "free" \notin Batch
  BY DEF Place, Batch
<1>1. /\ Puts(Item, Holds', Holds, b, Holds[b] \o e)
      /\ Holds \in [Buffer -> Seq(Item)]
  BY HoldsType DEF InLast
<1>2. /\ c # <<>> /\ b = Last(c) /\ b \in ToSet(c) /\ b \in Buffer
      /\ c \in Seq(Buffer) /\ IsInjective(c) /\ ToSet(c) \subseteq Buffer
  <2>1. b # Null
    BY DEF InLast
  <2> QED
    BY <2>1, LastBuffer
<1>3. \A q \in Batch : q # w => ToSet(ch[q]) \cap ToSet(c) = {}
  BY <1>0 DEF Owns
<1>4. /\ batch'[w].head = batch[w].head
      /\ batch'[w].tail = batch[w].tail
      /\ batch'[w].count = batch[w].count + Len(e)
      /\ batch'[w].buffers = batch[w].buffers
      /\ \A q \in Batch : q # w => batch'[q] = batch[q]
  BY DEF InLast, Counted, BufferTypes
<1>5. Heads' = Heads
  <2>1. \A q \in Batch : batch'[q].head = batch[q].head
    BY <1>4
  <2>2. freeHead' = freeHead
    BY DEF InLast
  <2> QED
    BY <1>0, <2>1, <2>2 DEF Heads
<1>6. Owns(next', Heads', ch, allocated')
  BY <1>5 DEF InLast
<1> HIDE DEF c, b
<1>7. Content(Holds', c) = Content(Holds, c) \o e
  <2>1. \A x \in ToSet(c) : Holds'[x] = IF x = Last(c) THEN Holds[x] \o e ELSE Holds[x]
    BY <1>1, <1>2 DEF Puts
  <2> QED
    BY <1>1, <1>2, <2>1, ContentLast
<1>8. ASSUME NEW q \in Batch, q # w PROVE Content(Holds', ch[q]) = Content(Holds, ch[q])
  <2>1. b \notin ToSet(ch[q]) /\ ToSet(ch[q]) \subseteq Buffer
    BY <1>0, <1>2, <1>3, <1>8, HeadsOf
  <2>2. \A x \in ToSet(ch[q]) : Holds'[x] = Holds[x]
    BY <1>1, <2>1 DEF Puts
  <2> QED
    BY <2>2, ContentSame
<1>9. Grown(ch, ch, w, e)
  BY <1>7, <1>8 DEF Grown, c
<1>10. \A q \in Batch : /\ batch[q].buffers = Len(ch[q])
                        /\ batch[q].tail = IF ch[q] = <<>> THEN Null ELSE Last(ch[q])
                        /\ batch[q].count = Len(Content(Holds, ch[q]))
  BY DEF Known
<1>11. Len(Content(Holds', c)) = Len(Content(Holds, c)) + Len(e)
  <2>1. Content(Holds, c) \in Seq(Item)
    BY <1>1, <1>2, ContentSeq
  <2> QED
    BY <1>7, <2>1, ConcatProperties
<1>12. Known(ch)'
  <2>1. ASSUME NEW q \in Batch
        PROVE  /\ batch'[q].buffers = Len(ch[q])
               /\ batch'[q].tail = IF ch[q] = <<>> THEN Null ELSE Last(ch[q])
               /\ batch'[q].count = Len(Content(Holds', ch[q]))
    <3>1. CASE q = w
      BY <1>4, <1>10, <1>11, <3>1 DEF c
    <3>2. CASE q # w
      BY <1>4, <1>8, <1>10, <3>2
    <3> QED
      BY <3>1, <3>2
  <2> QED
    BY <2>1 DEF Known
<1> QED
  BY <1>6, <1>9, <1>12

\* What arrives is the last in the line.
LEMMA LineGrows ==
  ASSUME BufferTypes, NEW ch \in [Place -> Seq(Buffer)], NEW d, NEW e \in Seq(Item),
         Grown(ch, d, "arriving", e), consumed' = consumed
  PROVE  Line(d)' = Line(ch) \o e /\ Line(ch) \in Seq(Item)
<1> DEFINE T == Content(Holds, ch["taken"])
           P == Content(Holds, ch["published"])
           F == Content(Holds, ch["flushing"])
           A == Content(Holds, ch["arriving"])
<1>1. /\ "taken" \in Place /\ "published" \in Place /\ "flushing" \in Place /\ "arriving" \in Place
      /\ "taken" \in Batch /\ "published" \in Batch /\ "flushing" \in Batch
  BY DEF Place, Batch
<1>2. T \in Seq(Item) /\ P \in Seq(Item) /\ F \in Seq(Item) /\ A \in Seq(Item) /\ consumed \in Seq(Item)
  BY <1>1, HoldsType, ContentSeq DEF BufferTypes
<1>3. /\ Content(Holds', d["taken"]) = T /\ Content(Holds', d["published"]) = P
      /\ Content(Holds', d["flushing"]) = F /\ Content(Holds', d["arriving"]) = A \o e
  BY <1>1 DEF Grown
<1>4. Line(d)' = InLine(consumed', Content(Holds', d["taken"]), Content(Holds', d["published"]),
                        Content(Holds', d["flushing"]), Content(Holds', d["arriving"]))
  BY DEF Line, InLine
<1>5. Line(ch) = InLine(consumed, T, P, F, A)
  BY DEF Line
<1> HIDE DEF T, P, F, A
<1>6. InLine(consumed, T, P, F, A \o e) = InLine(consumed, T, P, F, A) \o e
  <2> DEFINE x == consumed \o T \o P \o F
  <2>1. x \in Seq(Item)
    BY <1>2, ConcatProperties
  <2> HIDE DEF x
  <2>2. Regroups(x, A, e)
    BY <1>2, <2>1, Associative
  <2> QED
    BY <2>2 DEF Regroups, InLine, x
<1>7. InLine(consumed, T, P, F, A) \in Seq(Item)
  BY <1>2, InLineMoves DEF Pieces
<1> QED
  BY <1>3, <1>4, <1>5, <1>6, <1>7

Entry == [offset : Nat, length : Nat]
CutOf(y, r) == [i \in DOMAIN r |-> SubSeq(y, r[i].offset + 1, r[i].offset + r[i].length)]
Within(y, r) == \A i \in 1..Len(r) : r[i].offset + r[i].length <= Len(y)

\* The n elements of a sequence that come after the first m.
LEMMA Piece ==
  ASSUME NEW S, NEW w, NEW m \in Nat, NEW n \in Nat, \A j \in (m + 1)..(m + n) : w[j] \in S
  PROVE  /\ SubSeq(w, m + 1, m + n) \in Seq(S) /\ Len(SubSeq(w, m + 1, m + n)) = n
         /\ \A i \in 1..n : SubSeq(w, m + 1, m + n)[i] = w[m + i]
<1> DEFINE a == m + 1
           b == m + n
           s == SubSeq(w, a, b)
<1>1. /\ a \in Int /\ b \in Int /\ b - a + 1 = n /\ (a <= b <=> n > 0)
      /\ \A i \in 1..n : a + i - 1 = m + i
  OBVIOUS
<1>2. \A j \in a..b : w[j] \in S
  OBVIOUS
<1> HIDE DEF a, b
<1>3. /\ s \in Seq(S) /\ Len(s) = IF a <= b THEN b - a + 1 ELSE 0
      /\ \A i \in 1..(b - a + 1) : s[i] = w[a + i - 1]
  BY <1>1, <1>2, SubSeqProperties
<1> HIDE DEF s
<1>4. Len(s) = n
  BY <1>1, <1>3
<1>5. \A i \in 1..n : s[i] = w[m + i]
  BY <1>1, <1>3
<1> QED
  BY <1>3, <1>4, <1>5 DEF s, a, b

\* A datagram that is put behind the others leaves them where they are.
LEMMA CutGrows ==
  ASSUME NEW y \in Seq(Nat), NEW z \in Seq(Nat), NEW r \in Seq(Entry), Within(y, r), NEW q,
         q = Append(r, [offset |-> Len(y), length |-> Len(z)])
  PROVE  /\ q \in Seq(Entry) /\ Within(y \o z, q)
         /\ CutOf(y \o z, q) = Append(CutOf(y, r), z) /\ CutOf(y, r) \in Seq(Seq(Nat))
<1> DEFINE x == y \o z
           n == Len(r)
           entry == [offset |-> Len(y), length |-> Len(z)]
<1>1. /\ x \in Seq(Nat) /\ Len(x) = Len(y) + Len(z) /\ Len(y) \in Nat /\ Len(z) \in Nat
      /\ \A i \in 1..Len(y) : x[i] = y[i]
      /\ \A i \in 1..Len(z) : x[Len(y) + i] = z[i]
  BY ConcatElements
<1>2. entry \in Entry
  BY <1>1 DEF Entry
<1> HIDE DEF x, entry
<1>3. /\ q \in Seq(Entry) /\ Len(q) = n + 1 /\ n \in Nat
      /\ \A i \in 1..n : q[i] = r[i]
      /\ q[n + 1] = entry
  BY <1>2, AppendProperties DEF entry
<1>4. \A i \in 1..n : r[i].offset \in Nat /\ r[i].length \in Nat /\ r[i].offset + r[i].length <= Len(y)
  <2>1. \A i \in 1..n : r[i] \in Entry
    BY ElementOfSeq
  <2> QED
    BY <2>1 DEF Entry, Within
<1>5. entry.offset = Len(y) /\ entry.length = Len(z)
  BY DEF entry
<1> HIDE DEF n
<1>6. Within(x, q)
  <2>1. ASSUME NEW i \in 1..Len(q) PROVE q[i].offset + q[i].length <= Len(x)
    <3>1. CASE i = n + 1
      BY <1>1, <1>3, <1>5, <3>1
    <3>2. CASE i # n + 1
      <4>1. i \in 1..n
        BY <1>3, <3>2
      <4> QED
        BY <1>1, <1>3, <1>4, <4>1
    <3> QED
      BY <3>1, <3>2
  <2> QED
    BY <2>1 DEF Within
<1>7. ASSUME NEW o \in Nat, NEW l \in Nat, o + l <= Len(y)
      PROVE  SubSeq(x, o + 1, o + l) = SubSeq(y, o + 1, o + l) /\ SubSeq(y, o + 1, o + l) \in Seq(Nat)
  <2> DEFINE s == SubSeq(x, o + 1, o + l)
             t == SubSeq(y, o + 1, o + l)
  <2>1. \A j \in (o + 1)..(o + l) : j \in 1..Len(y)
    <3> DEFINE m == Len(y)
    <3>1. m \in Nat /\ o + l <= m
      BY <1>1, <1>7
    <3> HIDE DEF m
    <3>2. \A j \in (o + 1)..(o + l) : j \in 1..m
      BY <3>1
    <3> QED
      BY <3>2 DEF m
  <2>2. \A j \in (o + 1)..(o + l) : y[j] \in Nat
    BY <1>1, <2>1, ElementOfSeq
  <2>3. \A j \in (o + 1)..(o + l) : x[j] = y[j]
    BY <1>1, <2>1
  <2>4. \A j \in (o + 1)..(o + l) : x[j] \in Nat
    BY <2>2, <2>3
  <2>5. t \in Seq(Nat) /\ Len(t) = l /\ \A i \in 1..l : t[i] = y[o + i]
    BY <2>2, Piece
  <2>6. s \in Seq(Nat) /\ Len(s) = l /\ \A i \in 1..l : s[i] = x[o + i]
    BY <2>4, Piece
  <2> HIDE DEF s, t
  <2>7. ASSUME NEW i \in 1..Len(s) PROVE s[i] = t[i]
    <3>1. i \in 1..l /\ o + i \in (o + 1)..(o + l)
      BY <2>6
    <3> QED
      BY <2>3, <2>5, <2>6, <3>1
  <2>8. s = t
    BY <2>5, <2>6, <2>7, SeqEqual
  <2> QED
    BY <2>5, <2>8 DEF s, t
<1>8. SubSeq(x, Len(y) + 1, Len(y) + Len(z)) = z
  <2> DEFINE m == Len(y)
             k == Len(z)
             s == SubSeq(x, m + 1, m + k)
  <2>1. m \in Nat /\ k \in Nat /\ Len(x) = m + k /\ m + 1 \in Int /\ m + k \in Int
    BY <1>1
  <2>2. \A j \in (m + 1)..(m + k) : x[j] \in Nat
    <3>1. \A j \in (m + 1)..(m + k) : j \in 1..Len(x)
      BY <2>1
    <3> QED
      BY <1>1, <3>1, ElementOfSeq
  <2>3. \A i \in 1..k : x[m + i] = z[i]
    BY <1>1
  <2> HIDE DEF m, k
  <2>4. s \in Seq(Nat) /\ Len(s) = k /\ \A i \in 1..k : s[i] = x[m + i]
    BY <2>1, <2>2, Piece
  <2> HIDE DEF s
  <2>5. \A i \in 1..Len(s) : s[i] = z[i]
    BY <2>3, <2>4
  <2>6. s = z
    BY <2>4, <2>5, SeqEqual DEF k
  <2> QED
    BY <2>6 DEF s, m, k
<1> DEFINE c == CutOf(y, r)
           d == CutOf(x, q)
<1>9. c \in Seq(Seq(Nat)) /\ Len(c) = n /\ \A i \in 1..n : c[i] = SubSeq(y, r[i].offset + 1, r[i].offset + r[i].length)
  <2>1. DOMAIN r = 1..n
    BY DEF n
  <2>2. \A i \in 1..n : SubSeq(y, r[i].offset + 1, r[i].offset + r[i].length) \in Seq(Nat)
    BY <1>4, <1>7
  <2> DEFINE p(i) == SubSeq(y, r[i].offset + 1, r[i].offset + r[i].length)
  <2>3. c = [i \in 1..n |-> p(i)]
    BY <2>1 DEF CutOf
  <2> HIDE DEF c, p
  <2>4. \A i \in 1..n : p(i) \in Seq(Nat)
    BY <2>2 DEF p
  <2>5. c \in Seq(Seq(Nat)) /\ Len(c) = n /\ \A i \in 1..n : c[i] = p(i)
    BY <1>3, <2>3, <2>4
  <2> QED
    BY <2>5 DEF p
<1>10. ASSUME NEW i \in 1..(n + 1)
       PROVE  SubSeq(x, q[i].offset + 1, q[i].offset + q[i].length) = IF i = n + 1 THEN z ELSE c[i]
  <2>1. CASE i = n + 1
    BY <1>3, <1>5, <1>8, <2>1
  <2>2. CASE i # n + 1
    <3>1. i \in 1..n
      BY <1>3, <2>2
    <3> DEFINE o == r[i].offset
               l == r[i].length
    <3>2. o \in Nat /\ l \in Nat /\ o + l <= Len(y) /\ q[i] = r[i]
      BY <1>3, <1>4, <3>1
    <3>3. c[i] = SubSeq(y, o + 1, o + l)
      BY <1>9, <3>1
    <3> HIDE DEF o, l
    <3>4. SubSeq(x, o + 1, o + l) = SubSeq(y, o + 1, o + l)
      BY <1>7, <3>2
    <3> QED
      BY <2>2, <3>2, <3>3, <3>4 DEF o, l
  <2> QED
    BY <2>1, <2>2
<1> DEFINE a == Append(c, z)
<1> HIDE DEF c
<1>11. a \in Seq(Seq(Nat)) /\ Len(a) = n + 1 /\ \A i \in 1..(n + 1) : a[i] = IF i = n + 1 THEN z ELSE c[i]
  BY <1>3, <1>9, AppendProperties
<1> HIDE DEF a
<1>12. d = a
  <2>1. DOMAIN q = 1..(n + 1)
    BY <1>3
  <2>2. DOMAIN a = 1..(n + 1) /\ a = [i \in 1..(n + 1) |-> a[i]]
    BY <1>11
  <2>3. d = [i \in 1..(n + 1) |-> SubSeq(x, q[i].offset + 1, q[i].offset + q[i].length)]
    BY <2>1 DEF CutOf
  <2> HIDE DEF d
  <2> QED
    BY <1>10, <1>11, <2>2, <2>3
<1> QED
  BY <1>3, <1>6, <1>9, <1>12 DEF x, a, c

\* The first datagram of a buffer is all of its bytes.
LEMMA CutNothing ==
  ASSUME NEW z \in Seq(Nat)
  PROVE  /\ <<>> \in Seq(Entry) /\ Within(<<>>, <<>>) /\ CutOf(<<>>, <<>>) = <<>>
         /\ Append(CutOf(<<>>, <<>>), z) = <<z>> /\ <<>> \o z = z
<1>1. <<>> \in Seq(Entry) /\ Within(<<>>, <<>>)
  BY DEF Within
<1>2. CutOf(<<>>, <<>>) = <<>>
  BY DEF CutOf
<1>3. Append(<<>>, z) = <<z>>
  OBVIOUS
<1>4. <<>> \o z = z
  BY ConcatEmptySeq
<1> QED
  BY <1>1, <1>2, <1>3, <1>4

\* The positions of what arrived.
LEMMA Counting ==
  ASSUME NEW n \in Nat, NEW m \in Nat
  PROVE  /\ [i \in 1..m |-> n + i] \in Seq(Nat) /\ Len([i \in 1..m |-> n + i]) = m
         /\ [i \in 1..n |-> i] \o [i \in 1..m |-> n + i] = [i \in 1..(n + m) |-> i]
<1> DEFINE a == [i \in 1..n |-> i]
           b == [i \in 1..m |-> n + i]
           c == [i \in 1..(n + m) |-> i]
<1>1. a \in Seq(Nat) /\ Len(a) = n /\ \A i \in 1..n : a[i] = i
  OBVIOUS
<1>2. b \in Seq(Nat) /\ Len(b) = m /\ \A i \in 1..m : b[i] = n + i
  OBVIOUS
<1>3. n + m \in Nat
  OBVIOUS
<1>4. c \in Seq(Nat) /\ Len(c) = n + m /\ \A i \in 1..(n + m) : c[i] = i
  BY <1>3
<1> HIDE DEF a, b, c
<1>5. /\ a \o b \in Seq(Nat) /\ Len(a \o b) = n + m
      /\ \A i \in 1..(n + m) : (a \o b)[i] = IF i <= n THEN a[i] ELSE b[i - n]
  BY <1>1, <1>2, ConcatProperties
<1>6. \A i \in 1..(n + m) : (a \o b)[i] = c[i]
  BY <1>1, <1>2, <1>4, <1>5
<1>7. a \o b = c
  BY <1>4, <1>5, <1>6, SeqEqual
<1> QED
  BY <1>2, <1>7 DEF a, b, c

\* The lengths of the datagrams.
LEMMA LengthsAppend ==
  ASSUME NEW s \in Seq(Seq(Nat)), NEW z \in Seq(Nat)
  PROVE  [i \in DOMAIN Append(s, z) |-> Len(Append(s, z)[i])] = Append([i \in DOMAIN s |-> Len(s[i])], Len(z))
<1> DEFINE t == Append(s, z)
           n == Len(s)
           a == [i \in DOMAIN s |-> Len(s[i])]
           b == [i \in DOMAIN t |-> Len(t[i])]
           k == Len(z)
           c == Append(a, k)
<1>0. k \in Nat
  OBVIOUS
<1>1. t \in Seq(Seq(Nat)) /\ Len(t) = n + 1 /\ n \in Nat /\ t[n + 1] = z /\ \A i \in 1..n : t[i] = s[i]
  BY AppendProperties
<1>2. DOMAIN s = 1..n /\ \A i \in 1..n : Len(s[i]) \in Nat
  BY ElementOfSeq
<1> HIDE DEF n, t
<1>3. a \in Seq(Nat) /\ Len(a) = n /\ \A i \in 1..n : a[i] = Len(s[i])
  BY <1>1, <1>2
<1> HIDE DEF a, k
<1>4. c \in Seq(Nat) /\ Len(c) = n + 1 /\ c[n + 1] = k /\ \A i \in 1..n : c[i] = Len(s[i])
  <2>1. /\ c \in Seq(Nat) /\ Len(c) = Len(a) + 1 /\ c[Len(a) + 1] = k
        /\ \A i \in 1..Len(a) : c[i] = a[i]
    BY <1>0, <1>3, AppendProperties
  <2> QED
    BY <1>3, <2>1
<1>5. DOMAIN t = 1..(n + 1) /\ \A i \in 1..(n + 1) : Len(t[i]) \in Nat
  BY <1>1, ElementOfSeq
<1>6. b \in Seq(Nat) /\ Len(b) = n + 1 /\ \A i \in 1..(n + 1) : b[i] = Len(t[i])
  BY <1>1, <1>5
<1> HIDE DEF b, c
<1>7. ASSUME NEW i \in 1..(n + 1) PROVE b[i] = c[i]
  <2>1. CASE i = n + 1
    BY <1>1, <1>4, <1>6, <2>1 DEF k
  <2>2. CASE i # n + 1
    <3>1. i \in 1..n
      BY <1>1, <2>2
    <3> QED
      BY <1>1, <1>4, <1>6, <3>1
  <2> QED
    BY <2>1, <2>2
<1>8. b = c
  BY <1>4, <1>6, <1>7, SeqEqual
<1> QED
  BY <1>8 DEF b, c, a, t, k

\* What arrives goes on where the rest ended.
LEMMA StreamGrows ==
  ASSUME received \in Nat, kind = "stream", kind' = kind, NEW n \in Nat, received' = received + n,
         NEW ch, NEW d, Whole(Line(ch)), Line(d)' = Line(ch) \o Arriving(n)
  PROVE  Whole(Line(d))'
<1>1. Line(ch) = [i \in 1..received |-> i]
  BY DEF Whole
<1>2. [i \in 1..received |-> i] \o [i \in 1..n |-> received + i] = [i \in 1..(received + n) |-> i]
  BY Counting
<1>3. Line(d)' = [i \in 1..(received + n) |-> i]
  BY <1>1, <1>2 DEF Arriving
<1> QED
  BY <1>3 DEF Whole

\* A datagram that arrives is the last in the line, with its size.
LEMMA DatagramsGrow ==
  ASSUME received \in Nat, kind = "datagrams", kind' = kind, NEW n \in Nat, received' = received + n,
         sizes' = Append(sizes, n),
         NEW ch, NEW d, Line(ch) \in Seq(Seq(Nat)), Whole(Line(ch)),
         Line(d)' = Append(Line(ch), Arriving(n))
  PROVE  Whole(Line(d))'
<1> DEFINE z == Arriving(n)
           l == Line(ch)
           k == Append(l, z)
<1>1. /\ z \in Seq(Nat) /\ Len(z) = n
      /\ [i \in 1..received |-> i] \o z = [i \in 1..(received + n) |-> i]
  BY Counting DEF Arriving
<1>2. FlattenSeq(l) = [i \in 1..received |-> i] /\ [i \in DOMAIN l |-> Len(l[i])] = sizes
  BY DEF Whole
<1>3. l \in Seq(Seq(Nat)) /\ Line(d)' = k
  OBVIOUS
<1> HIDE DEF z, l
<1>4. FlattenSeq(k) = FlattenSeq(l) \o z
  <2>1. l \in Seq(Seq(Nat)) /\ z \in Seq(Nat)
    BY <1>1, <1>3
  <2>2. FlattenSeq(Append(l, z)) = FlattenSeq(l) \o z
    BY <2>1, FlattenAppend
  <2> QED
    BY <2>2
<1>5. [i \in DOMAIN k |-> Len(k[i])] = Append([i \in DOMAIN l |-> Len(l[i])], Len(z))
  BY <1>1, <1>3, LengthsAppend
<1> HIDE DEF k
<1>6. FlattenSeq(k) = [i \in 1..(received + n) |-> i] /\ [i \in DOMAIN k |-> Len(k[i])] = Append(sizes, n)
  BY <1>1, <1>2, <1>4, <1>5
<1>7. kind' # "stream"
  OBVIOUS
<1> QED
  BY <1>3, <1>6, <1>7 DEF Whole

\* The counts of a batch stay numbers.
LEMMA BatchTypes ==
  ASSUME BufferTypes, NEW w \in Batch, NEW n \in Nat, NEW new \in BOOLEAN, Acquired \in Nat,
         batch' = Counted(w, n, new)
  PROVE  batch' \in [Batch -> [head : Nat, tail : Nat, count : Nat, buffers : Nat]]
<1>1. batch \in [Batch -> [head : Nat, tail : Nat, count : Nat, buffers : Nat]]
  BY DEF BufferTypes
<1>2. ASSUME NEW q \in Batch PROVE batch'[q] \in [head : Nat, tail : Nat, count : Nat, buffers : Nat]
  <2>1. CASE q # w
    BY <1>1, <2>1 DEF Counted
  <2>2. CASE q = w
    <3>1. batch[w] \in [head : Nat, tail : Nat, count : Nat, buffers : Nat]
      BY <1>1
    <3>2. batch'[w] = [head |-> IF new /\ batch[w].head = Null THEN Acquired ELSE batch[w].head,
                       tail |-> IF new THEN Acquired ELSE batch[w].tail,
                       count |-> batch[w].count + n,
                       buffers |-> IF new THEN batch[w].buffers + 1 ELSE batch[w].buffers]
      BY <1>1, <3>1 DEF Counted
    <3> QED
      BY <2>2, <3>1, <3>2
  <2> QED
    BY <2>1, <2>2
<1>3. batch' = [q \in Batch |-> batch'[q]]
  BY <1>1 DEF Counted
<1> QED
  BY <1>2, <1>3

\* A round of the loop that appends stream data keeps the invariant.
LEMMA AppendStreamDataKeeps == BufferInv /\ AppendStreamData => BufferInv'
<1> SUFFICES ASSUME BufferInv, AppendStreamData PROVE BufferInv'
  OBVIOUS
<1> DEFINE w == "arriving"
           t == Tail_(w)
           new == t = Null \/ Available(t) = 0
           b == IF new THEN Acquired ELSE t
           room == IF new THEN PayloadSize ELSE Available(b)
           copied == IF remaining < room THEN remaining ELSE room
           e == Arriving(copied)
<1>1. BufferTypes
  BY DEF BufferInv
<1>2. PICK ch : Good(ch)
  BY DEF BufferInv
<1>3. Owns(next, Heads, ch, allocated) /\ Known(ch) /\ Whole(Line(ch)) /\ ch \in [Place -> Seq(Buffer)]
  BY <1>2 DEF Good, Owns
<1>4. /\ remaining > 0
      /\ IF new THEN TakeBuffer(w) ELSE UNCHANGED <<allocated, freeHead, next>>
      /\ payload' = [payload EXCEPT ![b] = (IF new THEN <<>> ELSE @) \o e]
      /\ batch' = Counted(w, copied, new)
      /\ received' = received + copied
      /\ remaining' = remaining - copied
      /\ kind' = kind /\ packets' = packets /\ sizes' = sizes /\ consumed' = consumed
  BY DEF AppendStreamData
<1>5. kind = "stream" /\ kind' = "stream"
  BY <1>1, <1>2, <1>4 DEF Good, BufferTypes
<1>6. Holds = payload /\ Holds' = payload' /\ Item = Nat /\ Item' = Nat
  BY <1>5 DEF Holds, Item
<1>7. /\ payload \in [Buffer -> Seq(Nat)] /\ \A x \in Buffer : Len(payload[x]) <= PayloadSize
      /\ packets \in [Buffer -> Seq(Entry)] /\ \A x \in Buffer : packets[x] = <<>>
      /\ remaining \in Nat /\ received \in Nat /\ PayloadSize \in Nat
  BY <1>1, <1>5, BufferAssumption DEF BufferTypes, Entry
<1>8. w \in Batch
  BY DEF Batch
<1>9. t # Null => t \in Buffer
  BY <1>3, <1>8, LastBuffer
<1> HIDE DEF w, t
\* the step, in a new buffer or in the last one
<1>10. /\ copied \in Nat /\ copied <= remaining
       /\ b \in Buffer /\ allocated' \in Nat /\ allocated' <= MaxBuffers /\ freeHead' \in Nat
       /\ next' \in [Buffer -> Nat] /\ Acquired \in Nat
       /\ payload' \in [Buffer -> Seq(Nat)] /\ \A x \in Buffer : Len(payload'[x]) <= PayloadSize
       /\ \E d : Owns(next', Heads', d, allocated') /\ Known(d)' /\ Grown(ch, d, w, e)
  <2>1. CASE new
    <3>1. TakeBuffer(w) /\ b = Acquired /\ room = PayloadSize
      BY <1>4, <2>1
    <3>2. /\ allocated' \in Nat /\ allocated' <= MaxBuffers /\ freeHead' \in Nat
          /\ next' \in [Buffer -> Nat] /\ Acquired \in Buffer
      BY <1>1, <1>3, <1>8, <3>1, TakesBuffer
    <3>3. copied \in Nat /\ copied <= PayloadSize /\ copied <= remaining
      BY <1>7, <3>1
    <3>4. batch' = Counted(w, copied, TRUE)
      BY <1>4, <2>1
    <3>5. payload' = [payload EXCEPT ![Acquired] = <<>> \o e]
      BY <1>4, <2>1, <3>1
    <3> HIDE DEF new, b, room, copied
    <3>6. e \in Seq(Nat) /\ Len(e) = copied
      BY <1>7, <3>3, Counting DEF Arriving
    <3> HIDE DEF e
    <3>7. <<>> \o e = e
      BY <3>6, ConcatEmptySeq
    <3>8. Puts(Nat, payload', payload, Acquired, e)
      BY <1>7, <3>2, <3>5, <3>6, <3>7 DEF Puts
    <3>9. InNew(w, e)
      BY <1>6, <3>1, <3>4, <3>6, <3>8 DEF InNew
    <3>10. \E d : Owns(next', Heads', d, allocated') /\ Known(d)' /\ Grown(ch, d, w, e)
      BY <1>1, <1>3, <1>6, <1>8, <3>6, <3>9, GrowsInNew
    <3>11. payload' \in [Buffer -> Seq(Nat)] /\ \A x \in Buffer : Len(payload'[x]) <= PayloadSize
      BY <1>7, <3>3, <3>6, <3>8 DEF Puts
    <3> QED
      BY <3>1, <3>2, <3>3, <3>10, <3>11, BufferIsReal
  <2>2. CASE ~new
    <3>1. /\ UNCHANGED <<allocated, freeHead, next>> /\ b = t /\ t # Null /\ t \in Buffer
          /\ Available(t) # 0 /\ room = PayloadSize - Len(payload[t])
      BY <1>4, <1>9, <2>2 DEF Available
    <3>2. /\ allocated' \in Nat /\ allocated' <= MaxBuffers /\ freeHead' \in Nat
          /\ next' \in [Buffer -> Nat] /\ Acquired \in Nat
      BY <1>1, <3>1, BufferAssumption DEF BufferTypes, Acquired
    <3>3. Len(payload[t]) \in Nat /\ Len(payload[t]) <= PayloadSize /\ payload[t] \in Seq(Nat)
      BY <1>7, <3>1
    <3>4. room \in Nat
      BY <1>7, <3>1, <3>3
    <3>5. copied \in Nat /\ copied <= room /\ copied <= remaining
      BY <1>7, <3>4
    <3>6. Len(payload[t]) + copied <= PayloadSize
      BY <1>7, <3>1, <3>3, <3>5
    <3>7. batch' = Counted(w, copied, FALSE)
      BY <1>4, <2>2
    <3>8. payload' = [payload EXCEPT ![t] = payload[t] \o e]
      BY <1>4, <2>2, <3>1
    <3> HIDE DEF new, b, room, copied
    <3>9. e \in Seq(Nat) /\ Len(e) = copied
      BY <1>7, <3>5, Counting DEF Arriving
    <3> HIDE DEF e
    <3>10. payload[t] \o e \in Seq(Nat) /\ Len(payload[t] \o e) = Len(payload[t]) + copied
      BY <3>3, <3>9, ConcatProperties
    <3>11. Puts(Nat, payload', payload, t, payload[t] \o e)
      BY <1>7, <3>1, <3>8, <3>10 DEF Puts
    <3>12. InLast(w, e)
      BY <1>6, <3>1, <3>7, <3>9, <3>11 DEF InLast, t
    <3>13. Owns(next', Heads', ch, allocated') /\ Known(ch)' /\ Grown(ch, ch, w, e)
      BY <1>1, <1>3, <1>6, <1>8, <3>9, <3>12, GrowsInLast
    <3>14. payload' \in [Buffer -> Seq(Nat)] /\ \A x \in Buffer : Len(payload'[x]) <= PayloadSize
      BY <1>7, <3>6, <3>10, <3>11 DEF Puts
    <3> QED
      BY <3>1, <3>2, <3>5, <3>13, <3>14
  <2> QED
    BY <2>1, <2>2
<1>11. PICK d : Owns(next', Heads', d, allocated') /\ Known(d)' /\ Grown(ch, d, w, e)
  BY <1>10
<1>12. batch' \in [Batch -> [head : Nat, tail : Nat, count : Nat, buffers : Nat]]
  <2>1. new \in BOOLEAN
    OBVIOUS
  <2> HIDE DEF new, copied
  <2> QED
    BY <1>1, <1>4, <1>8, <1>10, <2>1, BatchTypes
<1> HIDE DEF new, b, room, copied
<1>13. e \in Seq(Nat)
  BY <1>7, <1>10, Counting DEF Arriving
<1>14. Whole(Line(d))'
  <2>1. Line(d)' = Line(ch) \o e
    BY <1>1, <1>3, <1>4, <1>6, <1>11, <1>13, LineGrows DEF w
  <2> QED
    BY <1>3, <1>4, <1>5, <1>7, <1>10, <2>1, StreamGrows
<1>15. BufferTypes'
  <2>1. remaining' \in Nat /\ received' \in Nat
    BY <1>4, <1>7, <1>10
  <2>2. packets' \in [Buffer -> Seq([offset : Nat, length : Nat])] /\ \A x \in Buffer : packets'[x] = <<>> /\ Len(packets'[x]) = 0
    BY <1>4, <1>7 DEF Entry
  <2>3. sizes' \in Seq(Nat) /\ consumed' \in Seq(Item')
    BY <1>1, <1>4, <1>6 DEF BufferTypes
  <2> QED
    BY <1>5, <1>10, <1>12, <2>1, <2>2, <2>3 DEF BufferTypes
<1>16. Good(d)'
  BY <1>5, <1>11, <1>14 DEF Good
<1> QED
  BY <1>15, <1>16 DEF BufferInv

\* A datagram that libjuice hands over keeps the invariant.
LEMMA AppendDatagramKeeps ==
  ASSUME BufferInv, NEW size \in Nat, AppendDatagram(size)
  PROVE  BufferInv'
<1> DEFINE w == "arriving"
           t == Tail_(w)
           new == t = Null \/ ~CanAppend(t, size)
           b == IF new THEN Acquired ELSE t
           z == Arriving(size)
           e == <<z>>
<1>1. BufferTypes
  BY DEF BufferInv
<1>2. PICK ch : Good(ch)
  BY DEF BufferInv
<1>3. Owns(next, Heads, ch, allocated) /\ Known(ch) /\ Whole(Line(ch)) /\ ch \in [Place -> Seq(Buffer)]
  BY <1>2 DEF Good, Owns
<1>4. /\ kind = "datagrams" /\ kind' = kind /\ size <= PayloadSize
      /\ IF new THEN TakeBuffer(w) ELSE UNCHANGED <<allocated, freeHead, next>>
      /\ payload' = [payload EXCEPT ![b] = (IF new THEN <<>> ELSE @) \o z]
      /\ packets' = [packets EXCEPT ![b] =
           Append(IF new THEN <<>> ELSE @, [offset |-> IF new THEN 0 ELSE Len(payload[b]), length |-> size])]
      /\ batch' = Counted(w, 1, new)
      /\ received' = received + size
      /\ sizes' = Append(sizes, size)
      /\ remaining' = remaining /\ consumed' = consumed
  BY DEF AppendDatagram
<1>5. Holds = Cut /\ Holds' = Cut' /\ Item = Seq(Nat) /\ Item' = Seq(Nat)
  BY <1>4 DEF Holds, Item
<1>6. /\ payload \in [Buffer -> Seq(Nat)] /\ \A x \in Buffer : Len(payload[x]) <= PayloadSize
      /\ packets \in [Buffer -> Seq(Entry)] /\ \A x \in Buffer : Within(payload[x], packets[x])
      /\ received \in Nat /\ PayloadSize \in Nat
  BY <1>1, BufferAssumption DEF BufferTypes, Entry, Within
<1>7. w \in Batch
  BY DEF Batch
<1>8. t # Null => t \in Buffer
  BY <1>3, <1>7, LastBuffer
<1>9. z \in Seq(Nat) /\ Len(z) = size
  BY <1>6, Counting DEF Arriving
<1>10. e \in Seq(Item) /\ Len(e) = 1
  BY <1>5, <1>9
<1> HIDE DEF w, t, z
\* the datagrams of a buffer
<1>11. /\ \A x \in Buffer : Cut[x] = CutOf(payload[x], packets[x])
       /\ \A x \in Buffer : Cut'[x] = CutOf(payload'[x], packets'[x])
       /\ Cut \in [Buffer -> Seq(Seq(Nat))] /\ Cut' = [x \in Buffer |-> Cut'[x]]
  BY <1>1, HoldsType DEF Cut, CutOf, PacketsOf
\* the step, in a new buffer or in the last one
<1>12. /\ b \in Buffer /\ allocated' \in Nat /\ allocated' <= MaxBuffers /\ freeHead' \in Nat
       /\ next' \in [Buffer -> Nat] /\ Acquired \in Nat
       /\ payload' \in [Buffer -> Seq(Nat)] /\ packets' \in [Buffer -> Seq(Entry)]
       /\ \A x \in Buffer : Len(payload'[x]) <= PayloadSize /\ Within(payload'[x], packets'[x])
       /\ \E d : Owns(next', Heads', d, allocated') /\ Known(d)' /\ Grown(ch, d, w, e)
  <2>1. CASE new
    <3>1. TakeBuffer(w) /\ b = Acquired
      BY <1>4, <2>1
    <3>2. /\ allocated' \in Nat /\ allocated' <= MaxBuffers /\ freeHead' \in Nat
          /\ next' \in [Buffer -> Nat] /\ Acquired \in Buffer
      BY <1>1, <1>3, <1>7, <3>1, TakesBuffer
    <3>3. batch' = Counted(w, Len(e), TRUE)
      BY <1>4, <1>10, <2>1
    <3>4. /\ payload' = [payload EXCEPT ![Acquired] = <<>> \o z]
          /\ packets' = [packets EXCEPT ![Acquired] = Append(<<>>, [offset |-> 0, length |-> size])]
      BY <1>4, <2>1, <3>1
    <3> DEFINE q == Append(<<>>, [offset |-> 0, length |-> size])
    <3>5. /\ <<>> \in Seq(Entry) /\ Within(<<>>, <<>>) /\ <<>> \o z = z
          /\ Append(CutOf(<<>>, <<>>), z) = <<z>>
      BY <1>9, CutNothing
    <3>6. q \in Seq(Entry) /\ Within(z, q) /\ CutOf(z, q) = e
      <4>1. q = Append(<<>>, [offset |-> Len(<<>>), length |-> Len(z)]) /\ <<>> \in Seq(Nat)
        BY <1>9
      <4> DEFINE n == <<>>
      <4>2. n \in Seq(Nat) /\ n \in Seq(Entry) /\ Within(n, n) /\ z \in Seq(Nat)
        BY <1>9, <3>5, <4>1
      <4>3. q = Append(n, [offset |-> Len(n), length |-> Len(z)])
        BY <4>1
      <4> HIDE DEF n, q, e
      <4>4. q \in Seq(Entry) /\ Within(n \o z, q) /\ CutOf(n \o z, q) = Append(CutOf(n, n), z)
        BY <4>2, <4>3, CutGrows
      <4>5. /\ q \in Seq(Entry) /\ Within(<<>> \o z, q)
            /\ CutOf(<<>> \o z, q) = Append(CutOf(<<>>, <<>>), z)
        BY <4>4 DEF n
      <4> QED
        BY <3>5, <4>5 DEF e
    <3> HIDE DEF q, e, new, b
    <3>7. /\ payload' \in [Buffer -> Seq(Nat)] /\ packets' \in [Buffer -> Seq(Entry)]
          /\ \A x \in Buffer : payload'[x] = IF x = Acquired THEN z ELSE payload[x]
          /\ \A x \in Buffer : packets'[x] = IF x = Acquired THEN q ELSE packets[x]
      <4>1. payload' = [payload EXCEPT ![Acquired] = z] /\ packets' = [packets EXCEPT ![Acquired] = q]
        BY <3>4, <3>5 DEF q
      <4> QED
        BY <1>6, <1>9, <3>6, <4>1
    <3>8. \A x \in Buffer : Len(payload'[x]) <= PayloadSize /\ Within(payload'[x], packets'[x])
      BY <1>4, <1>6, <1>9, <3>6, <3>7
    <3>9. \A x \in Buffer : Cut'[x] = IF x = Acquired THEN e ELSE Cut[x]
      BY <1>11, <3>6, <3>7
    <3>10. Puts(Item, Holds', Holds, Acquired, e)
      <4>1. Cut' \in [Buffer -> Seq(Seq(Nat))]
        BY <1>5, <1>10, <1>11, <3>9
      <4> QED
        BY <1>5, <1>10, <1>11, <3>2, <3>9, <4>1 DEF Puts
    <3>11. InNew(w, e)
      BY <3>1, <3>3, <3>10 DEF InNew
    <3>12. \E d : Owns(next', Heads', d, allocated') /\ Known(d)' /\ Grown(ch, d, w, e)
      BY <1>1, <1>3, <1>7, <1>10, <3>11, GrowsInNew
    <3> QED
      BY <3>1, <3>2, <3>7, <3>8, <3>12, BufferIsReal
  <2>2. CASE ~new
    <3>1. /\ UNCHANGED <<allocated, freeHead, next>> /\ b = t /\ t # Null /\ t \in Buffer
          /\ CanAppend(t, size)
      BY <1>4, <1>8, <2>2
    <3>2. /\ allocated' \in Nat /\ allocated' <= MaxBuffers /\ freeHead' \in Nat
          /\ next' \in [Buffer -> Nat] /\ Acquired \in Nat
      BY <1>1, <3>1, BufferAssumption DEF BufferTypes, Acquired
    <3> DEFINE y == payload[t]
               r == packets[t]
               q == Append(r, [offset |-> Len(y), length |-> size])
    <3>3. /\ y \in Seq(Nat) /\ Len(y) \in Nat /\ r \in Seq(Entry) /\ Within(y, r)
      BY <1>6, <3>1
    <3>4. Len(y) + size <= PayloadSize
      BY <1>6, <3>1, <3>3 DEF CanAppend, Available
    <3>5. batch' = Counted(w, Len(e), FALSE)
      BY <1>4, <1>10, <2>2
    <3>6. payload' = [payload EXCEPT ![t] = y \o z] /\ packets' = [packets EXCEPT ![t] = q]
      BY <1>4, <2>2, <3>1
    <3> HIDE DEF e, new, b, y, r
    <3>7. q = Append(r, [offset |-> Len(y), length |-> Len(z)])
      BY <1>9
    <3> HIDE DEF q
    <3>8. q \in Seq(Entry) /\ Within(y \o z, q) /\ CutOf(y \o z, q) = Append(CutOf(y, r), z)
          /\ CutOf(y, r) \in Seq(Seq(Nat))
      BY <1>9, <3>3, <3>7, CutGrows
    <3>9. y \o z \in Seq(Nat) /\ Len(y \o z) = Len(y) + size
      BY <1>9, <3>3, ConcatProperties
    <3>10. Cut[t] = CutOf(y, r)
      BY <1>11, <3>1 DEF y, r
    <3>11. Append(CutOf(y, r), z) = Cut[t] \o e
      <4>1. Append(CutOf(y, r), z) = CutOf(y, r) \o <<z>>
        BY <1>9, <3>8, AppendIsConcat
      <4> QED
        BY <3>10, <4>1 DEF e
    <3> DEFINE x0 == y \o z
               c0 == Cut[t] \o e
    <3>12. /\ x0 \in Seq(Nat) /\ Len(x0) <= PayloadSize /\ Within(x0, q) /\ CutOf(x0, q) = c0
           /\ c0 \in Seq(Seq(Nat))
      <4>1. c0 \in Seq(Seq(Nat))
        <5> DEFINE u == CutOf(y, r)
        <5>1. u \in Seq(Seq(Nat)) /\ c0 = Append(u, z)
          BY <3>8, <3>11
        <5> HIDE DEF u, c0
        <5> QED
          BY <1>9, <5>1, AppendProperties
      <4> QED
        BY <3>4, <3>8, <3>9, <3>11, <4>1
    <3>13. payload' = [payload EXCEPT ![t] = x0] /\ packets' = [packets EXCEPT ![t] = q]
      BY <3>6
    <3> HIDE DEF x0, c0
    <3>14. /\ payload' \in [Buffer -> Seq(Nat)] /\ packets' \in [Buffer -> Seq(Entry)]
           /\ \A x \in Buffer : payload'[x] = IF x = t THEN x0 ELSE payload[x]
           /\ \A x \in Buffer : packets'[x] = IF x = t THEN q ELSE packets[x]
      BY <1>6, <3>1, <3>8, <3>12, <3>13
    <3>15. \A x \in Buffer : Len(payload'[x]) <= PayloadSize /\ Within(payload'[x], packets'[x])
      BY <1>6, <3>12, <3>14
    <3>16. \A x \in Buffer : Cut'[x] = IF x = t THEN c0 ELSE Cut[x]
      BY <1>11, <3>12, <3>14
    <3>17. Puts(Item, Holds', Holds, t, c0)
      <4>1. Cut' \in [Buffer -> Seq(Seq(Nat))]
        BY <1>11, <3>12, <3>16
      <4> QED
        BY <1>5, <1>11, <3>1, <3>12, <3>16, <4>1 DEF Puts
    <3>18. InLast(w, e)
      BY <1>5, <3>1, <3>5, <3>17 DEF InLast, t, c0
    <3>19. Owns(next', Heads', ch, allocated') /\ Known(ch)' /\ Grown(ch, ch, w, e)
      BY <1>1, <1>3, <1>7, <1>10, <3>18, GrowsInLast
    <3> QED
      BY <3>1, <3>2, <3>14, <3>15, <3>19
  <2> QED
    BY <2>1, <2>2
<1>13. PICK d : Owns(next', Heads', d, allocated') /\ Known(d)' /\ Grown(ch, d, w, e)
  BY <1>12
<1>14. batch' \in [Batch -> [head : Nat, tail : Nat, count : Nat, buffers : Nat]]
  <2>1. new \in BOOLEAN /\ 1 \in Nat
    OBVIOUS
  <2> HIDE DEF new
  <2> QED
    BY <1>1, <1>4, <1>7, <1>12, <2>1, BatchTypes
<1> HIDE DEF new, b, e
<1>15. Whole(Line(d))'
  <2>1. Line(d)' = Line(ch) \o e /\ Line(ch) \in Seq(Seq(Nat))
    BY <1>1, <1>3, <1>4, <1>5, <1>10, <1>13, LineGrows DEF w
  <2>2. Line(d)' = Append(Line(ch), z)
    BY <1>9, <2>1, AppendIsConcat DEF e
  <2> QED
    BY <1>3, <1>4, <1>6, <2>1, <2>2, DatagramsGrow DEF z
<1>16. BufferTypes'
  <2>1. received' \in Nat /\ sizes' \in Seq(Nat) /\ remaining' \in Nat /\ consumed' \in Seq(Item')
    BY <1>1, <1>4, <1>5, AppendProperties DEF BufferTypes
  <2>2. kind' \in {"datagrams", "stream"} /\ kind' # "stream"
    BY <1>4
  <2>3. /\ packets' \in [Buffer -> Seq([offset : Nat, length : Nat])]
        /\ \A x \in Buffer : \A i \in 1..Len(packets'[x]) :
             packets'[x][i].offset + packets'[x][i].length <= Len(payload'[x])
    BY <1>12 DEF Entry, Within
  <2> QED
    BY <1>12, <1>14, <2>1, <2>2, <2>3 DEF BufferTypes
<1>17. d["published"] = <<>> /\ d["taken"] = <<>> /\ remaining' = 0
  <2>1. ch["published"] = <<>> /\ ch["taken"] = <<>> /\ remaining = 0
    BY <1>2, <1>4 DEF Good
  <2> QED
    BY <1>4, <1>13, <2>1 DEF Grown, Batch, w
<1>18. Good(d)'
  BY <1>13, <1>15, <1>17 DEF Good
<1> QED
  BY <1>16, <1>18 DEF BufferInv

\* That an append begins keeps the invariant.
LEMMA ReceiveStreamDataKeeps ==
  ASSUME BufferInv, NEW size \in Nat, ReceiveStreamData(size)
  PROVE  BufferInv'
<1>1. /\ kind = "stream" /\ remaining' = size
      /\ UNCHANGED <<kind, allocated, freeHead, next, payload, packets, batch, received, sizes, consumed>>
  BY DEF ReceiveStreamData, poolVars
<1>2. PICK ch : Good(ch)
  BY DEF BufferInv
<1>3. Holds' = Holds /\ Heads' = Heads /\ Item' = Item
  BY <1>1 DEF Holds, Heads, Item, Cut, PacketsOf
<1>4. Known(ch)' /\ Line(ch)' = Line(ch)
  BY <1>1, <1>2, <1>3 DEF Good, Known, Line
<1>5. Good(ch)'
  BY <1>1, <1>2, <1>3, <1>4 DEF Good, Whole
<1>6. BufferTypes'
  BY <1>1, <1>3 DEF BufferInv, BufferTypes
<1> QED
  BY <1>5, <1>6 DEF BufferInv

-----------------------------------------------------------------------------
(* Moving.                                                                   *)

\* Two batches swap what they hold.
Swapped(ch, d, v, w) ==
  /\ v \in Batch /\ w \in Batch /\ v # w /\ Swap(v, w) /\ UNCHANGED <<kind, poolVars>>
  /\ d = [ch EXCEPT ![v] = ch[w], ![w] = ch[v]]

\* A swap hands over chains with their counts, and touches no buffer.
LEMMA SwapMoves ==
  ASSUME BufferTypes, NEW ch, Owns(next, Heads, ch, allocated), Known(ch),
         NEW v, NEW w, NEW d, Swapped(ch, d, v, w)
  PROVE  /\ Owns(next', Heads', d, allocated') /\ Known(d)'
         /\ batch' \in [Batch -> [head : Nat, tail : Nat, count : Nat, buffers : Nat]]
         /\ Holds' = Holds /\ Item' = Item
         /\ \A q \in Batch : d[q] = IF q = v THEN ch[w] ELSE IF q = w THEN ch[v] ELSE ch[q]
<1>0. /\ v \in Batch /\ w \in Batch /\ v # w /\ Swap(v, w) /\ UNCHANGED <<kind, poolVars>>
      /\ d = [ch EXCEPT ![v] = ch[w], ![w] = ch[v]]
  BY DEF Swapped
<1>1. v \in Place /\ w \in Place /\ v # "free" /\ w # "free" /\ Place = Batch \cup {"free"} /\ "free" \notin Batch
  BY <1>0 DEF Place, Batch
<1>2. UNCHANGED <<kind, allocated, freeHead, next, payload, packets>>
  BY <1>0 DEF poolVars
<1>3. Holds' = Holds /\ Item' = Item
  BY <1>2 DEF Holds, Item, Cut, PacketsOf
<1>4. /\ batch \in [Batch -> [head : Nat, tail : Nat, count : Nat, buffers : Nat]]
      /\ batch' = [batch EXCEPT ![v] = batch[w], ![w] = batch[v]]
      /\ ch \in [Place -> Seq(Buffer)]
  BY <1>0 DEF BufferTypes, Swap, Owns
<1>5. \A q \in Batch : batch'[q] = IF q = v THEN batch[w] ELSE IF q = w THEN batch[v] ELSE batch[q]
  BY <1>0, <1>4
<1>6. \A q \in Batch : d[q] = IF q = v THEN ch[w] ELSE IF q = w THEN ch[v] ELSE ch[q]
  BY <1>0, <1>1, <1>4
<1>7. Heads' = [Heads EXCEPT ![v] = Heads[w], ![w] = Heads[v]]
  <2>1. \A q \in Place : Heads'[q] = IF q = "free" THEN freeHead' ELSE batch'[q].head
    BY DEF Heads
  <2>2. \A q \in Place : Heads[q] = IF q = "free" THEN freeHead ELSE batch[q].head
    BY DEF Heads
  <2>3. DOMAIN Heads = Place /\ Heads' = [q \in Place |-> Heads'[q]]
    BY DEF Heads
  <2>4. \A q \in Place : Heads'[q] = IF q = v THEN Heads[w] ELSE IF q = w THEN Heads[v] ELSE Heads[q]
    BY <1>0, <1>1, <1>2, <1>5, <2>1, <2>2
  <2> QED
    BY <1>1, <2>3, <2>4
<1>8. Owns(next, [Heads EXCEPT ![v] = Heads[w], ![w] = Heads[v]],
           [ch EXCEPT ![v] = ch[w], ![w] = ch[v]], allocated)
  BY <1>0, <1>1, OwnsSwap
<1>9. Owns(next', Heads', d, allocated')
  BY <1>0, <1>2, <1>7, <1>8
<1>10. Known(d)'
  <2> DEFINE K(s, c) == /\ s.buffers = Len(c) /\ s.tail = IF c = <<>> THEN Null ELSE Last(c)
                        /\ s.count = Len(Content(Holds, c))
  <2>2. \A q \in Batch : K(batch[q], ch[q])
    BY DEF Known
  <2> HIDE DEF K
  <2>3. \A q \in Batch : K(batch'[q], d[q])
    BY <1>0, <1>5, <1>6, <2>2
  <2>1. \A q \in Batch : /\ batch'[q].buffers = Len(d[q])
                         /\ batch'[q].tail = IF d[q] = <<>> THEN Null ELSE Last(d[q])
                         /\ batch'[q].count = Len(Content(Holds', d[q]))
    BY <1>3, <2>3 DEF K
  <2> QED
    BY <2>1 DEF Known
<1>11. batch' \in [Batch -> [head : Nat, tail : Nat, count : Nat, buffers : Nat]]
  BY <1>0, <1>4
<1> QED
  BY <1>3, <1>6, <1>9, <1>10, <1>11

\* The parts of the line.
LEMMA LineParts ==
  ASSUME BufferTypes, NEW ch \in [Place -> Seq(Buffer)]
  PROVE  /\ Line(ch) = InLine(consumed, Content(Holds, ch["taken"]), Content(Holds, ch["published"]),
                              Content(Holds, ch["flushing"]), Content(Holds, ch["arriving"]))
         /\ Pieces(Item, consumed, Content(Holds, ch["taken"]), Content(Holds, ch["published"]),
                  Content(Holds, ch["flushing"]), Content(Holds, ch["arriving"]))
<1>1. "taken" \in Place /\ "published" \in Place /\ "flushing" \in Place /\ "arriving" \in Place
  BY DEF Place, Batch
<1>2. \A q \in Place : Content(Holds, ch[q]) \in Seq(Item)
  BY HoldsType, ContentSeq
<1>3. consumed \in Seq(Item)
  BY DEF BufferTypes
<1> QED
  BY <1>1, <1>2, <1>3 DEF Line, Pieces

\* An empty batch has no chain, one that holds something has one.
LEMMA EmptyBatch ==
  ASSUME NEW ch, Owns(next, Heads, ch, allocated), Known(ch), NEW w \in Batch
  PROVE  /\ batch[w] = Empty => ch[w] = <<>> /\ Content(Holds, ch[w]) = <<>>
         /\ batch[w].count > 0 => ch[w] # <<>>
<1>1. batch[w] = Empty => ch[w] = <<>>
  BY LastBuffer DEF Empty
<1>2. Content(Holds, <<>>) = <<>>
  BY ContentEmpty
<1>3. ch[w] = <<>> => batch[w].count = 0
  BY <1>2 DEF Known
<1> QED
  BY <1>1, <1>2, <1>3

\* The Worker taking what arrived keeps the invariant.
LEMMA FlushKeeps == BufferInv /\ Flush => BufferInv'
<1> SUFFICES ASSUME BufferInv, Flush PROVE BufferInv'
  OBVIOUS
<1> DEFINE v == "arriving"
           w == "flushing"
<1>1. BufferTypes
  BY DEF BufferInv
<1>2. PICK ch : Good(ch)
  BY DEF BufferInv
<1>3. Owns(next, Heads, ch, allocated) /\ Known(ch) /\ Whole(Line(ch)) /\ ch \in [Place -> Seq(Buffer)]
  BY <1>2 DEF Good, Owns
<1>4. /\ Swap(v, w) /\ batch[w] = Empty /\ UNCHANGED <<kind, poolVars>>
      /\ UNCHANGED <<kind, allocated, freeHead, next, payload, packets, remaining, received, sizes, consumed>>
  BY DEF Flush, poolVars
<1>5. v \in Batch /\ w \in Batch /\ v # w /\ "published" \in Batch /\ "taken" \in Batch
  BY DEF Batch
<1>6. PICK d : Swapped(ch, d, v, w)
  BY <1>4, <1>5 DEF Swapped
<1>7. /\ Owns(next', Heads', d, allocated') /\ Known(d)'
      /\ batch' \in [Batch -> [head : Nat, tail : Nat, count : Nat, buffers : Nat]]
      /\ Holds' = Holds /\ Item' = Item
      /\ \A q \in Batch : d[q] = IF q = v THEN ch[w] ELSE IF q = w THEN ch[v] ELSE ch[q]
  BY <1>1, <1>3, <1>6, SwapMoves
<1>8. Line(d)' = Line(ch)
  <2> DEFINE T == Content(Holds, ch["taken"])
             P == Content(Holds, ch["published"])
             F == Content(Holds, ch["flushing"])
             A == Content(Holds, ch["arriving"])
  <2>1. Line(ch) = InLine(consumed, T, P, F, A) /\ Pieces(Item, consumed, T, P, F, A)
    BY <1>1, <1>3, LineParts
  <2>2. F = <<>>
    BY <1>3, <1>4, <1>5, EmptyBatch
  <2>3. Line(d)' = InLine(consumed, T, P, A, F)
    BY <1>4, <1>5, <1>7 DEF Line, InLine
  <2> HIDE DEF T, P, F, A
  <2>4. InLine(consumed, T, P, A, <<>>) = InLine(consumed, T, P, <<>>, A)
    BY <2>1, InLineMoves
  <2> QED
    BY <2>1, <2>2, <2>3, <2>4
<1>9. Whole(Line(d))'
  BY <1>3, <1>4, <1>8 DEF Whole
<1>10. BufferTypes'
  BY <1>1, <1>4, <1>7 DEF BufferTypes
<1>11. kind' = "datagrams" => d["published"] = <<>> /\ d["taken"] = <<>> /\ remaining' = 0
  BY <1>2, <1>4, <1>5, <1>7 DEF Good
<1>12. Good(d)'
  BY <1>7, <1>9, <1>11 DEF Good
<1> QED
  BY <1>10, <1>12 DEF BufferInv

\* The program taking what was published keeps the invariant.
LEMMA TakeKeeps == BufferInv /\ Take => BufferInv'
<1> SUFFICES ASSUME BufferInv, Take PROVE BufferInv'
  OBVIOUS
<1> DEFINE v == "published"
           w == "taken"
<1>1. BufferTypes
  BY DEF BufferInv
<1>2. PICK ch : Good(ch)
  BY DEF BufferInv
<1>3. Owns(next, Heads, ch, allocated) /\ Known(ch) /\ Whole(Line(ch)) /\ ch \in [Place -> Seq(Buffer)]
  BY <1>2 DEF Good, Owns
<1>4. /\ Swap(v, w) /\ batch[w] = Empty /\ batch[v].count > 0 /\ UNCHANGED <<kind, poolVars>>
      /\ UNCHANGED <<kind, allocated, freeHead, next, payload, packets, remaining, received, sizes, consumed>>
  BY DEF Take, poolVars
<1>5. v \in Batch /\ w \in Batch /\ v # w /\ "flushing" \in Batch /\ "arriving" \in Batch
  BY DEF Batch
<1>6. PICK d : Swapped(ch, d, v, w)
  BY <1>4, <1>5 DEF Swapped
<1>7. /\ Owns(next', Heads', d, allocated') /\ Known(d)'
      /\ batch' \in [Batch -> [head : Nat, tail : Nat, count : Nat, buffers : Nat]]
      /\ Holds' = Holds /\ Item' = Item
      /\ \A q \in Batch : d[q] = IF q = v THEN ch[w] ELSE IF q = w THEN ch[v] ELSE ch[q]
  BY <1>1, <1>3, <1>6, SwapMoves
<1>8. Line(d)' = Line(ch)
  <2> DEFINE T == Content(Holds, ch["taken"])
             P == Content(Holds, ch["published"])
             F == Content(Holds, ch["flushing"])
             A == Content(Holds, ch["arriving"])
  <2>1. Line(ch) = InLine(consumed, T, P, F, A) /\ Pieces(Item, consumed, T, P, F, A)
    BY <1>1, <1>3, LineParts
  <2>2. T = <<>>
    BY <1>3, <1>4, <1>5, EmptyBatch
  <2>3. Line(d)' = InLine(consumed, P, T, F, A)
    BY <1>4, <1>5, <1>7 DEF Line, InLine
  <2> HIDE DEF T, P, F, A
  <2>4. InLine(consumed, P, <<>>, F, A) = InLine(consumed, <<>>, P, F, A)
    BY <2>1, InLineMoves
  <2> QED
    BY <2>1, <2>2, <2>3, <2>4
<1>9. Whole(Line(d))'
  BY <1>3, <1>4, <1>8 DEF Whole
<1>10. BufferTypes'
  BY <1>1, <1>4, <1>7 DEF BufferTypes
<1>11. kind' # "datagrams"
  <2>1. ch[v] # <<>>
    BY <1>3, <1>4, <1>5, EmptyBatch
  <2> QED
    BY <1>2, <1>4, <2>1 DEF Good
<1>12. Good(d)'
  BY <1>7, <1>9, <1>11 DEF Good
<1> QED
  BY <1>10, <1>12 DEF BufferInv

\* The end of two chains that were joined.
LEMMA LastOfBoth ==
  ASSUME NEW S, NEW c \in Seq(S), NEW d \in Seq(S), d # <<>>
  PROVE  c \o d \in Seq(S) /\ c \o d # <<>> /\ Len(c \o d) = Len(c) + Len(d) /\ Last(c \o d) = Last(d)
<1> DEFINE e == c \o d
           m == Len(c)
           n == Len(d)
<1>1. /\ e \in Seq(S) /\ Len(e) = m + n /\ m \in Nat /\ \A i \in 1..n : e[m + i] = d[i]
  BY ConcatElements
<1>2. n \in Nat \ {0}
  BY EmptySeq
<1> HIDE DEF e, m, n
<1>3. n \in 1..n /\ m + n # 0
  BY <1>1, <1>2
<1>4. e[m + n] = d[n] /\ e # <<>>
  BY <1>1, <1>2, <1>3
<1>5. Last(e) = Last(d)
  BY <1>1, <1>4 DEF Last, n
<1> QED
  BY <1>1, <1>4, <1>5 DEF e, m, n

\* Joining a batch to what was published keeps the invariant: no buffer is in both,
\* because the one that was joined is emptied.
LEMMA PublishKeeps == BufferInv /\ Publish => BufferInv'
<1> SUFFICES ASSUME BufferInv, Publish PROVE BufferInv'
  OBVIOUS
<1>1. BufferTypes
  BY DEF BufferInv
<1>2. PICK ch : Good(ch)
  BY DEF BufferInv
<1>3. Owns(next, Heads, ch, allocated) /\ Known(ch) /\ Whole(Line(ch)) /\ ch \in [Place -> Seq(Buffer)]
  BY <1>2 DEF Good, Owns
<1> DEFINE v == "published"
           w == "flushing"
           c == ch[v]
           f == ch[w]
<1>4. /\ kind = "stream" /\ batch[w].head # Null
      /\ next' = IF batch[v].head = Null THEN next ELSE [next EXCEPT ![Tail_(v)] = batch[w].head]
      /\ batch' = [batch EXCEPT ![v] = Joined(v, w), ![w] = Empty]
      /\ UNCHANGED <<kind, allocated, freeHead, payload, packets, remaining, received, sizes, consumed>>
  BY DEF Publish
<1>5. /\ v \in Batch /\ w \in Batch /\ v # w /\ "taken" \in Batch /\ "arriving" \in Batch
      /\ v \in Place /\ w \in Place /\ v # "free" /\ w # "free" /\ Place = Batch \cup {"free"} /\ "free" \notin Batch
  BY DEF Batch, Place
<1>6. Holds' = Holds /\ Item' = Item /\ Holds \in [Buffer -> Seq(Item)]
  BY <1>1, <1>4, HoldsType DEF Holds, Item, Cut, PacketsOf
<1>7. /\ batch[v].head = Null <=> c = <<>>
      /\ c # <<>> => Tail_(v) = Last(c) /\ Last(c) \in Buffer
      /\ c \in Seq(Buffer)
  BY <1>3, <1>5, LastBuffer
<1>8. f # <<>> /\ f \in Seq(Buffer)
  BY <1>3, <1>4, <1>5, LastBuffer
<1>9. /\ batch \in [Batch -> [head : Nat, tail : Nat, count : Nat, buffers : Nat]]
      /\ next \in [Buffer -> Nat]
  BY <1>1 DEF BufferTypes
<1>10. Heads[v] = batch[v].head /\ Heads[w] = batch[w].head /\ batch[w].head \in Nat
  BY <1>5, <1>9 DEF Heads
<1> HIDE DEF v, w
<1>11. /\ next' \in [Buffer -> Nat]
       /\ \A b \in Buffer : next'[b] = IF c # <<>> /\ b = Last(c) THEN Heads[w] ELSE next[b]
  <2>1. CASE c = <<>>
    BY <1>4, <1>7, <1>9, <2>1
  <2>2. CASE c # <<>>
    <3>1. next' = [next EXCEPT ![Last(c)] = Heads[w]] /\ Last(c) \in Buffer
      BY <1>4, <1>7, <1>10, <2>2
    <3> QED
      BY <1>9, <1>10, <2>2, <3>1
  <2> QED
    BY <2>1, <2>2
<1>12. PICK d : d = [ch EXCEPT ![v] = c \o f, ![w] = <<>>]
  OBVIOUS
<1>13. d[v] = c \o f /\ d[w] = <<>> /\ \A q \in Batch : q # v /\ q # w => d[q] = ch[q]
  BY <1>3, <1>5, <1>12
<1>14. /\ batch' \in [Batch -> [head : Nat, tail : Nat, count : Nat, buffers : Nat]]
       /\ batch'[v] = Joined(v, w) /\ batch'[w] = Empty
       /\ \A q \in Batch : q # v /\ q # w => batch'[q] = batch[q]
  <2>1. Joined(v, w) \in [head : Nat, tail : Nat, count : Nat, buffers : Nat]
    <3>1. /\ batch[v] \in [head : Nat, tail : Nat, count : Nat, buffers : Nat]
          /\ batch[w] \in [head : Nat, tail : Nat, count : Nat, buffers : Nat]
      BY <1>5, <1>9
    <3> QED
      BY <3>1 DEF Joined
  <2>2. Empty \in [head : Nat, tail : Nat, count : Nat, buffers : Nat]
    BY DEF Empty, Null
  <2> QED
    BY <1>4, <1>5, <1>9, <2>1, <2>2
<1>15. Heads' = [Heads EXCEPT ![v] = IF c = <<>> THEN Heads[w] ELSE Heads[v], ![w] = Null]
  <2>1. \A q \in Place : Heads'[q] = IF q = "free" THEN freeHead' ELSE batch'[q].head
    BY DEF Heads
  <2>2. \A q \in Place : Heads[q] = IF q = "free" THEN freeHead ELSE batch[q].head
    BY DEF Heads
  <2>3. DOMAIN Heads = Place /\ Heads' = [q \in Place |-> Heads'[q]]
    BY DEF Heads
  <2>4. batch'[v].head = (IF c = <<>> THEN Heads[w] ELSE Heads[v]) /\ batch'[w].head = Null
    BY <1>7, <1>10, <1>14 DEF Joined, Empty
  <2>5. freeHead' = freeHead
    BY <1>4
  <2>6. \A q \in Place : Heads'[q] = IF q = v THEN IF c = <<>> THEN Heads[w] ELSE Heads[v]
                                     ELSE IF q = w THEN Null ELSE Heads[q]
    <3> TAKE q \in Place
    <3>1. CASE q = v
      BY <1>5, <2>1, <2>4, <3>1
    <3>2. CASE q = w
      BY <1>5, <2>1, <2>4, <3>2
    <3>3. CASE q = "free"
      BY <1>5, <2>1, <2>2, <2>5, <3>3
    <3>4. CASE q # v /\ q # w /\ q # "free"
      <4>1. q \in Batch
        BY <1>5, <3>4
      <4>2. batch'[q] = batch[q]
        BY <1>14, <3>4, <4>1
      <4> QED
        BY <2>1, <2>2, <3>4, <4>2
    <3> QED
      BY <3>1, <3>2, <3>3, <3>4
  <2> HIDE DEF c
  <2> QED
    BY <1>5, <2>3, <2>6
<1>16. Owns(next', Heads', d, allocated')
  <2>1. Owns(next', [Heads EXCEPT ![v] = IF ch[v] = <<>> THEN Heads[w] ELSE Heads[v], ![w] = Null],
             [ch EXCEPT ![v] = ch[v] \o ch[w], ![w] = <<>>], allocated)
    BY <1>3, <1>5, <1>11, OwnsJoin
  <2>2. allocated' = allocated
    BY <1>4
  <2> QED
    BY <1>12, <1>15, <2>1, <2>2
<1> HIDE DEF c, f
<1>17. /\ Content(Holds, c \o f) = Content(Holds, c) \o Content(Holds, f)
       /\ Content(Holds, c) \in Seq(Item) /\ Content(Holds, f) \in Seq(Item)
  BY <1>6, <1>7, <1>8, ContentConcat, ContentSeq
<1>18. Len(Content(Holds, c \o f)) = Len(Content(Holds, c)) + Len(Content(Holds, f))
  BY <1>17, ConcatProperties
<1>19. c \o f # <<>> /\ Len(c \o f) = Len(c) + Len(f) /\ Last(c \o f) = Last(f)
  BY <1>7, <1>8, LastOfBoth
<1>20. Known(d)'
  <2>1. /\ batch[v].buffers = Len(c) /\ batch[v].count = Len(Content(Holds, c))
        /\ batch[w].buffers = Len(f) /\ batch[w].count = Len(Content(Holds, f)) /\ batch[w].tail = Last(f)
    BY <1>3, <1>5, <1>8 DEF Known, c, f
  <2>2. \A q \in Batch : /\ batch[q].buffers = Len(ch[q])
                         /\ batch[q].tail = IF ch[q] = <<>> THEN Null ELSE Last(ch[q])
                         /\ batch[q].count = Len(Content(Holds, ch[q]))
    BY <1>3 DEF Known
  <2>3. ASSUME NEW q \in Batch
        PROVE  /\ batch'[q].buffers = Len(d[q])
               /\ batch'[q].tail = IF d[q] = <<>> THEN Null ELSE Last(d[q])
               /\ batch'[q].count = Len(Content(Holds, d[q]))
    <3>1. CASE q = v
      <4>1. /\ batch'[v].buffers = Len(c \o f) /\ batch'[v].tail = Last(c \o f)
            /\ batch'[v].count = Len(Content(Holds, c \o f))
        BY <1>14, <1>18, <1>19, <2>1 DEF Joined
      <4> QED
        BY <1>13, <1>19, <3>1, <4>1
    <3>2. CASE q = w
      <4>1. Content(Holds, <<>>) = <<>> /\ Len(<<>>) = 0
        BY ContentEmpty
      <4>2. batch'[q] = Empty /\ d[q] = <<>>
        BY <1>13, <1>14, <3>2
      <4> QED
        BY <4>1, <4>2 DEF Empty
    <3>3. CASE q # v /\ q # w
      BY <1>13, <1>14, <2>2, <3>3
    <3> QED
      BY <3>1, <3>2, <3>3
  <2> QED
    BY <1>6, <2>3 DEF Known
<1>21. Line(d)' = Line(ch)
  <2> DEFINE T == Content(Holds, ch["taken"])
             P == Content(Holds, ch["published"])
             F == Content(Holds, ch["flushing"])
             A == Content(Holds, ch["arriving"])
  <2>1. Line(ch) = InLine(consumed, T, P, F, A) /\ Pieces(Item, consumed, T, P, F, A)
    BY <1>1, <1>3, LineParts
  <2>2. /\ d["taken"] = ch["taken"] /\ d["arriving"] = ch["arriving"] /\ d["flushing"] = <<>>
        /\ d["published"] = c \o f
    BY <1>5, <1>13 DEF v, w
  <2>3. /\ Content(Holds, d["published"]) = P \o F /\ Content(Holds, d["flushing"]) = <<>>
    BY <1>17, <2>2, ContentEmpty DEF c, f, v, w
  <2>4. Line(d)' = InLine(consumed', Content(Holds', d["taken"]), Content(Holds', d["published"]),
                          Content(Holds', d["flushing"]), Content(Holds', d["arriving"]))
    BY DEF Line, InLine
  <2>5. Line(d)' = InLine(consumed, T, P \o F, <<>>, A)
    BY <1>4, <1>6, <2>2, <2>3, <2>4
  <2> HIDE DEF T, P, F, A
  <2>6. InLine(consumed, T, P \o F, <<>>, A) = InLine(consumed, T, P, F, A)
    BY <2>1, InLineMoves
  <2> QED
    BY <2>1, <2>5, <2>6
<1>22. Whole(Line(d))'
  BY <1>3, <1>4, <1>21 DEF Whole
<1>23. BufferTypes'
  BY <1>1, <1>4, <1>6, <1>11, <1>14 DEF BufferTypes
<1>24. Good(d)'
  BY <1>4, <1>16, <1>20, <1>22 DEF Good
<1> QED
  BY <1>23, <1>24 DEF BufferInv

-----------------------------------------------------------------------------
(* Releasing.                                                                *)

\* A buffer that is released leads to the one before it, the first one to the
\* buffers that were free.
LEMMA ReleasedIs ==
  ASSUME BufferTypes, NEW w, NEW c \in Seq(Buffer), Chain(w) = c, IsInjective(c)
  PROVE  /\ Released(w) \in [Buffer -> Nat]
         /\ \A x \in Buffer : x \notin ToSet(c) => Released(w)[x] = next[x]
         /\ \A i \in 1..Len(c) : Released(w)[c[i]] = IF i = 1 THEN freeHead ELSE c[i - 1]
<1> DEFINE index(b) == CHOOSE i \in DOMAIN c : c[i] = b
           to(b) == IF b \notin ToSet(c) THEN next[b]
                    ELSE IF index(b) = 1 THEN freeHead ELSE c[index(b) - 1]
<1>1. Released(w) = [b \in Buffer |-> to(b)]
  BY DEF Released
<1>2. DOMAIN c = 1..Len(c) /\ Len(c) \in Nat /\ \A i \in 1..Len(c) : c[i] \in Buffer /\ c[i] \in Nat
  <2>1. \A i \in 1..Len(c) : c[i] \in Buffer
    BY ElementOfSeq
  <2>2. \A b \in Buffer : b \in Nat
    BY BufferIsReal
  <2>3. DOMAIN c = 1..Len(c) /\ Len(c) \in Nat
    OBVIOUS
  <2> QED
    BY <2>1, <2>2, <2>3
<1>3. ASSUME NEW i \in 1..Len(c) PROVE index(c[i]) = i /\ c[i] \in ToSet(c)
  <2>1. \A j \in DOMAIN c : c[j] = c[i] => j = i
    BY <1>2 DEF IsInjective
  <2>2. i \in DOMAIN c
    BY <1>2
  <2> QED
    BY <2>1, <2>2 DEF ToSet
<1>4. \A b \in ToSet(c) : \E i \in 1..Len(c) : c[i] = b
  BY <1>2 DEF ToSet
<1> HIDE DEF index
<1>5. \A i \in 1..Len(c) : to(c[i]) = IF i = 1 THEN freeHead ELSE c[i - 1]
  BY <1>3
<1>6. \A b \in Buffer : b \notin ToSet(c) => to(b) = next[b]
  OBVIOUS
<1>7. next \in [Buffer -> Nat] /\ freeHead \in Nat
  BY DEF BufferTypes
<1>8. ASSUME NEW b \in Buffer PROVE to(b) \in Nat
  <2>1. CASE b \notin ToSet(c)
    BY <1>6, <1>7, <2>1
  <2>2. CASE b \in ToSet(c)
    <3>1. PICK i \in 1..Len(c) : c[i] = b
      BY <1>4, <2>2
    <3>2. i # 1 => c[i - 1] \in Nat
      <4>1. i # 1 => i - 1 \in 1..Len(c)
        BY <1>2
      <4> QED
        BY <1>2, <4>1
    <3> HIDE DEF to
    <3>3. to(b) = IF i = 1 THEN freeHead ELSE c[i - 1]
      BY <1>5, <3>1
    <3> QED
      BY <1>7, <3>2, <3>3
  <2> QED
    BY <2>1, <2>2
<1> HIDE DEF to
<1> QED
  BY <1>1, <1>2, <1>5, <1>6, <1>8

\* Batch w is released.
Emptied(ch, d, w, c) ==
  /\ w \in Batch /\ c = ch[w] /\ c # <<>> /\ Release(w) /\ UNCHANGED kind
  /\ d = [ch EXCEPT !["free"] = Reverse(c) \o ch["free"], ![w] = <<>>]

\* The parts of BufferTypes a release changes.
PoolTypes ==
  /\ allocated \in Nat /\ allocated <= MaxBuffers
  /\ freeHead \in Nat
  /\ next \in [Buffer -> Nat]
  /\ payload \in [Buffer -> Seq(Nat)]
  /\ \A b \in Buffer : Len(payload[b]) <= PayloadSize
  /\ packets \in [Buffer -> Seq([offset : Nat, length : Nat])]
  /\ \A b \in Buffer : \A i \in 1..Len(packets[b]) :
       packets[b][i].offset + packets[b][i].length <= Len(payload[b])
  /\ kind = "stream" => \A b \in Buffer : packets[b] = <<>>
  /\ batch \in [Batch -> [head : Nat, tail : Nat, count : Nat, buffers : Nat]]

\* A batch that is released gives all its buffers back and leaves the others alone.
LEMMA ReleaseMoves ==
  ASSUME BufferTypes, NEW ch, Owns(next, Heads, ch, allocated), Known(ch),
         NEW w, NEW d, NEW c, Emptied(ch, d, w, c)
  PROVE  /\ Owns(next', Heads', d, allocated') /\ Known(d)' /\ PoolTypes'
         /\ d[w] = <<>> /\ Content(Holds', d[w]) = <<>>
         /\ \A q \in Batch : q # w => d[q] = ch[q] /\ Content(Holds', d[q]) = Content(Holds, ch[q])
<1>0. /\ w \in Batch /\ c = ch[w] /\ c # <<>> /\ Release(w) /\ kind' = kind
      /\ d = [ch EXCEPT !["free"] = Reverse(c) \o ch["free"], ![w] = <<>>]
  BY DEF Emptied
<1>1. w \in Place /\ w # "free" /\ "free" \in Place /\ Place = Batch \cup {"free"} /\ "free" \notin Batch
  BY <1>0 DEF Place, Batch
<1>2. c \in Seq(Buffer) /\ IsInjective(c) /\ Chain(w) = c /\ ch \in [Place -> Seq(Buffer)]
  BY <1>0, <1>1, ChainIs DEF Owns
<1>3. /\ next' = Released(w) /\ freeHead' = Last(c)
      /\ payload' = [b \in Buffer |-> IF b \in ToSet(c) THEN <<>> ELSE payload[b]]
      /\ packets' = [b \in Buffer |-> IF b \in ToSet(c) THEN <<>> ELSE packets[b]]
      /\ batch' = [batch EXCEPT ![w] = Empty] /\ allocated' = allocated
  BY <1>0, <1>2 DEF Release
<1>4. /\ next' \in [Buffer -> Nat]
      /\ \A x \in Buffer : x \notin ToSet(c) => next'[x] = next[x]
      /\ \A i \in 1..Len(c) : next'[c[i]] = IF i = 1 THEN freeHead ELSE c[i - 1]
  BY <1>2, <1>3, ReleasedIs
<1>5. Last(c) \in Nat
  <2>1. Last(ch[w]) \in ToSet(ch[w]) /\ ToSet(ch[w]) \subseteq Buffer
    BY <1>0, <1>1, HeadsOf
  <2> QED
    BY <1>0, <2>1, BufferIsReal
<1>6. batch \in [Batch -> [head : Nat, tail : Nat, count : Nat, buffers : Nat]]
  BY DEF BufferTypes
<1>7. Empty \in [head : Nat, tail : Nat, count : Nat, buffers : Nat]
  BY DEF Empty, Null
<1>8. /\ batch' \in [Batch -> [head : Nat, tail : Nat, count : Nat, buffers : Nat]]
      /\ batch'[w] = Empty /\ \A q \in Batch : q # w => batch'[q] = batch[q]
  BY <1>0, <1>3, <1>6, <1>7
<1>9. d[w] = <<>> /\ \A q \in Batch : q # w => d[q] = ch[q]
  BY <1>0, <1>1, <1>2
<1>10. Heads' = [Heads EXCEPT !["free"] = Last(c), ![w] = Null]
  <2>1. \A q \in Place : Heads'[q] = IF q = "free" THEN freeHead' ELSE batch'[q].head
    BY DEF Heads
  <2>2. \A q \in Place : Heads[q] = IF q = "free" THEN freeHead ELSE batch[q].head
    BY DEF Heads
  <2>3. DOMAIN Heads = Place /\ Heads' = [q \in Place |-> Heads'[q]]
    BY DEF Heads
  <2>4. Empty.head = Null
    BY DEF Empty
  <2>5. ASSUME NEW q \in Place
        PROVE  Heads'[q] = IF q = w THEN Null ELSE IF q = "free" THEN Last(c) ELSE Heads[q]
    <3>1. CASE q = w
      BY <1>1, <1>8, <2>1, <2>4, <3>1
    <3>2. CASE q = "free"
      BY <1>1, <1>3, <2>1, <3>2
    <3>3. CASE q # w /\ q # "free"
      <4>1. q \in Batch
        BY <1>1, <3>3
      <4>2. batch'[q] = batch[q]
        BY <1>8, <3>3, <4>1
      <4> QED
        BY <2>1, <2>2, <3>3, <4>2
    <3> QED
      BY <3>1, <3>2, <3>3
  <2> QED
    BY <1>1, <2>3, <2>5
<1>11. Owns(next', Heads', d, allocated')
  <2>1. Heads["free"] = freeHead
    BY <1>1 DEF Heads
  <2>2. \A i \in 1..Len(c) : next'[c[i]] = IF i = 1 THEN Heads["free"] ELSE c[i - 1]
    BY <1>4, <2>1
  <2>3. Owns(next', [Heads EXCEPT !["free"] = Last(c), ![w] = Null],
             [ch EXCEPT !["free"] = Reverse(c) \o ch["free"], ![w] = <<>>], allocated)
    <3> DEFINE ny == next'
    <3>1. \A x \in Buffer : x \notin ToSet(c) => ny[x] = next[x]
      BY <1>4
    <3>2. \A i \in 1..Len(c) : ny[c[i]] = IF i = 1 THEN Heads["free"] ELSE c[i - 1]
      BY <2>2
    <3>3. w \in Batch /\ Freed(ny, next, Heads["free"], ch[w], c)
      BY <1>0, <3>1, <3>2 DEF Freed
    <3> HIDE DEF ny
    <3>4. Owns(ny, [Heads EXCEPT !["free"] = Last(c), ![w] = Null],
               [ch EXCEPT !["free"] = Reverse(c) \o ch["free"], ![w] = <<>>], allocated)
      BY <3>3, OwnsRelease
    <3> QED
      BY <3>4 DEF ny
  <2> QED
    BY <1>0, <1>3, <1>10, <2>3
<1>12. \A b \in Buffer : b \notin ToSet(c) => Holds'[b] = Holds[b]
  <2>1. \A b \in Buffer : b \notin ToSet(c) => payload'[b] = payload[b] /\ packets'[b] = packets[b]
    BY <1>3
  <2>2. \A b \in Buffer : Cut[b] = PacketsOf(b)
    BY DEF Cut
  <2>3. \A b \in Buffer : Cut'[b] = PacketsOf(b)'
    BY DEF Cut
  <2>4. \A b \in Buffer : b \notin ToSet(c) => PacketsOf(b)' = PacketsOf(b)
    BY <2>1 DEF PacketsOf
  <2> QED
    BY <1>0, <2>1, <2>2, <2>3, <2>4 DEF Holds
<1>13. ASSUME NEW q \in Batch, q # w
       PROVE  d[q] = ch[q] /\ Content(Holds', d[q]) = Content(Holds, ch[q])
  <2>1. q \in Place /\ ToSet(ch[q]) \subseteq Buffer
    BY <1>1, HeadsOf
  <2>2. ToSet(ch[q]) \cap ToSet(c) = {}
    BY <1>0, <1>1, <1>13, <2>1 DEF Owns
  <2>3. \A b \in ToSet(ch[q]) : Holds'[b] = Holds[b]
    BY <1>12, <2>1, <2>2
  <2>4. Content(Holds', ch[q]) = Content(Holds, ch[q])
    BY <2>3, ContentSame
  <2> QED
    BY <1>9, <1>13, <2>4
<1>14. Content(Holds', d[w]) = <<>>
  BY <1>9, ContentEmpty
<1>15. Known(d)'
  <2>1. \A q \in Batch : /\ batch[q].buffers = Len(ch[q])
                         /\ batch[q].tail = IF ch[q] = <<>> THEN Null ELSE Last(ch[q])
                         /\ batch[q].count = Len(Content(Holds, ch[q]))
    BY DEF Known
  <2>2. ASSUME NEW q \in Batch
        PROVE  /\ batch'[q].buffers = Len(d[q])
               /\ batch'[q].tail = IF d[q] = <<>> THEN Null ELSE Last(d[q])
               /\ batch'[q].count = Len(Content(Holds', d[q]))
    <3>1. CASE q = w
      BY <1>8, <1>9, <1>14, <3>1 DEF Empty
    <3>2. CASE q # w
      BY <1>8, <1>13, <2>1, <3>2
    <3> QED
      BY <3>1, <3>2
  <2> QED
    BY <2>2 DEF Known
<1>16. /\ payload' \in [Buffer -> Seq(Nat)]
       /\ packets' \in [Buffer -> Seq([offset : Nat, length : Nat])]
  BY <1>3 DEF BufferTypes
<1>17. /\ \A b \in Buffer : Len(payload'[b]) <= PayloadSize
       /\ \A b \in Buffer : \A i \in 1..Len(packets'[b]) :
            packets'[b][i].offset + packets'[b][i].length <= Len(payload'[b])
  <2>1. PayloadSize \in Nat /\ Len(<<>>) = 0
    BY BufferAssumption
  <2>2. ASSUME NEW b \in Buffer
        PROVE  /\ Len(payload'[b]) <= PayloadSize
               /\ \A i \in 1..Len(packets'[b]) :
                    packets'[b][i].offset + packets'[b][i].length <= Len(payload'[b])
    <3>1. CASE b \in ToSet(c)
      <4>1. payload'[b] = <<>> /\ packets'[b] = <<>>
        BY <1>3, <3>1
      <4> QED
        BY <2>1, <4>1
    <3>2. CASE b \notin ToSet(c)
      <4>1. payload'[b] = payload[b] /\ packets'[b] = packets[b]
        BY <1>3, <3>2
      <4> QED
        BY <4>1 DEF BufferTypes
    <3> QED
      BY <3>1, <3>2
  <2> QED
    BY <2>2
<1>18. kind' = "stream" => \A b \in Buffer : packets'[b] = <<>>
  BY <1>0, <1>3 DEF BufferTypes
<1>19. allocated' \in Nat /\ allocated' <= MaxBuffers /\ freeHead' \in Nat
  BY <1>3, <1>5 DEF BufferTypes
<1>20. PoolTypes'
  BY <1>4, <1>8, <1>16, <1>17, <1>18, <1>19 DEF PoolTypes
<1> QED
  BY <1>9, <1>11, <1>13, <1>14, <1>15, <1>20

\* Processing and releasing datagrams keeps the invariant.
LEMMA FeedPacketsKeeps == BufferInv /\ FeedPackets => BufferInv'
<1> SUFFICES ASSUME BufferInv, FeedPackets PROVE BufferInv'
  OBVIOUS
<1> DEFINE w == "flushing"
<1>1. BufferTypes
  BY DEF BufferInv
<1>2. PICK ch : Good(ch)
  BY DEF BufferInv
<1>3. Owns(next, Heads, ch, allocated) /\ Known(ch) /\ Whole(Line(ch)) /\ ch \in [Place -> Seq(Buffer)]
  BY <1>2 DEF Good, Owns
<1>4. /\ kind = "datagrams" /\ batch[w].count > 0 /\ consumed' = consumed \o PacketsIn(w)
      /\ Release(w) /\ UNCHANGED <<kind, remaining, received, sizes>>
  BY DEF FeedPackets
<1>5. w \in Batch /\ "published" \in Batch /\ "taken" \in Batch /\ "arriving" \in Batch
  BY DEF Batch
<1>6. ch[w] # <<>>
  BY <1>3, <1>4, <1>5, EmptyBatch
<1>7. ch["published"] = <<>> /\ ch["taken"] = <<>> /\ remaining = 0
  BY <1>2, <1>4 DEF Good
<1>8. PICK d, c : Emptied(ch, d, w, c)
  BY <1>4, <1>5, <1>6 DEF Emptied
<1>9. /\ Owns(next', Heads', d, allocated') /\ Known(d)' /\ PoolTypes'
      /\ d[w] = <<>> /\ Content(Holds', d[w]) = <<>>
      /\ \A q \in Batch : q # w => d[q] = ch[q] /\ Content(Holds', d[q]) = Content(Holds, ch[q])
  BY <1>1, <1>3, <1>8, ReleaseMoves
<1>10. PacketsIn(w) = Content(Holds, ch[w])
  BY <1>1, <1>3, <1>4, <1>5, ChainIs DEF Holds
<1> DEFINE T == Content(Holds, ch["taken"])
           P == Content(Holds, ch["published"])
           F == Content(Holds, ch["flushing"])
           A == Content(Holds, ch["arriving"])
<1>11. Line(ch) = InLine(consumed, T, P, F, A) /\ Pieces(Item, consumed, T, P, F, A)
  BY <1>1, <1>3, LineParts
<1>12. T = <<>> /\ P = <<>>
  BY <1>7, ContentEmpty
<1>13. Line(d)' = InLine(consumed', Content(Holds', d["taken"]), Content(Holds', d["published"]),
                         Content(Holds', d["flushing"]), Content(Holds', d["arriving"]))
  BY DEF Line, InLine
<1>14. Line(d)' = InLine(consumed \o F, T, P, <<>>, A)
  BY <1>4, <1>5, <1>9, <1>10, <1>13
<1> HIDE DEF T, P, F, A
<1>15. InLine(consumed \o F, <<>>, <<>>, <<>>, A) = InLine(consumed, <<>>, <<>>, F, A)
  BY <1>11, InLineMoves
<1>16. Line(d)' = Line(ch)
  BY <1>11, <1>12, <1>14, <1>15
<1>17. Whole(Line(d))'
  BY <1>3, <1>4, <1>16 DEF Whole
<1>18. consumed' \in Seq(Item')
  <2>1. consumed \in Seq(Item) /\ F \in Seq(Item)
    BY <1>11 DEF Pieces
  <2>2. consumed \o F \in Seq(Item)
    BY <2>1, ConcatProperties
  <2>3. Item' = Item /\ consumed' = consumed \o F
    BY <1>4, <1>10 DEF Item, F
  <2> QED
    BY <2>2, <2>3
<1>19. BufferTypes'
  BY <1>1, <1>4, <1>9, <1>18 DEF BufferTypes, PoolTypes
<1>20. d["published"] = <<>> /\ d["taken"] = <<>> /\ remaining' = 0
  BY <1>4, <1>5, <1>7, <1>9
<1>21. Good(d)'
  BY <1>9, <1>17, <1>20 DEF Good
<1> QED
  BY <1>19, <1>21 DEF BufferInv

\* Copying and releasing stream data keeps the invariant.
LEMMA CopyToKeeps == BufferInv /\ CopyTo => BufferInv'
<1> SUFFICES ASSUME BufferInv, CopyTo PROVE BufferInv'
  OBVIOUS
<1> DEFINE w == "taken"
<1>1. BufferTypes
  BY DEF BufferInv
<1>2. PICK ch : Good(ch)
  BY DEF BufferInv
<1>3. Owns(next, Heads, ch, allocated) /\ Known(ch) /\ Whole(Line(ch)) /\ ch \in [Place -> Seq(Buffer)]
  BY <1>2 DEF Good, Owns
<1>4. /\ batch[w].count > 0 /\ consumed' = consumed \o Bytes(w)
      /\ Release(w) /\ UNCHANGED <<kind, remaining, received, sizes>>
  BY DEF CopyTo
<1>5. w \in Batch /\ "published" \in Batch /\ "flushing" \in Batch /\ "arriving" \in Batch
  BY DEF Batch
<1>6. ch[w] # <<>>
  BY <1>3, <1>4, <1>5, EmptyBatch
<1>7. kind # "datagrams" /\ kind = "stream"
  BY <1>1, <1>2, <1>6 DEF Good, BufferTypes
<1>8. PICK d, c : Emptied(ch, d, w, c)
  BY <1>4, <1>5, <1>6 DEF Emptied
<1>9. /\ Owns(next', Heads', d, allocated') /\ Known(d)' /\ PoolTypes'
      /\ d[w] = <<>> /\ Content(Holds', d[w]) = <<>>
      /\ \A q \in Batch : q # w => d[q] = ch[q] /\ Content(Holds', d[q]) = Content(Holds, ch[q])
  BY <1>1, <1>3, <1>8, ReleaseMoves
<1>10. Bytes(w) = Content(Holds, ch[w])
  BY <1>1, <1>3, <1>5, <1>7, ChainIs DEF Holds
<1> DEFINE T == Content(Holds, ch["taken"])
           P == Content(Holds, ch["published"])
           F == Content(Holds, ch["flushing"])
           A == Content(Holds, ch["arriving"])
<1>11. Line(ch) = InLine(consumed, T, P, F, A) /\ Pieces(Item, consumed, T, P, F, A)
  BY <1>1, <1>3, LineParts
<1>13. Line(d)' = InLine(consumed', Content(Holds', d["taken"]), Content(Holds', d["published"]),
                         Content(Holds', d["flushing"]), Content(Holds', d["arriving"]))
  BY DEF Line, InLine
<1>14. Line(d)' = InLine(consumed \o T, <<>>, P, F, A)
  BY <1>4, <1>5, <1>9, <1>10, <1>13
<1> HIDE DEF T, P, F, A
<1>15. InLine(consumed \o T, <<>>, P, F, A) = InLine(consumed, T, P, F, A)
  BY <1>11, InLineMoves
<1>16. Line(d)' = Line(ch)
  BY <1>11, <1>14, <1>15
<1>17. Whole(Line(d))'
  BY <1>3, <1>4, <1>16 DEF Whole
<1>18. consumed' \in Seq(Item')
  <2>1. consumed \in Seq(Item) /\ T \in Seq(Item)
    BY <1>11 DEF Pieces
  <2>2. consumed \o T \in Seq(Item)
    BY <2>1, ConcatProperties
  <2>3. Item' = Item /\ consumed' = consumed \o T
    BY <1>4, <1>10 DEF Item, T
  <2> QED
    BY <2>2, <2>3
<1>19. BufferTypes'
  BY <1>1, <1>4, <1>9, <1>18 DEF BufferTypes, PoolTypes
<1>20. kind' # "datagrams"
  BY <1>4, <1>7
<1>21. Good(d)'
  BY <1>9, <1>17, <1>20 DEF Good
<1> QED
  BY <1>19, <1>21 DEF BufferInv

\* A step that changes nothing keeps it.
LEMMA NothingKeeps == BufferInv /\ UNCHANGED bufferVars => BufferInv'
<1> SUFFICES ASSUME BufferInv, UNCHANGED bufferVars PROVE BufferInv'
  OBVIOUS
<1>1. UNCHANGED <<kind, allocated, freeHead, next, payload, packets, batch, remaining, received, sizes, consumed>>
  BY DEF bufferVars, poolVars
<1>2. PICK ch : Good(ch)
  BY DEF BufferInv
<1>3. Holds' = Holds /\ Heads' = Heads /\ Item' = Item
  BY <1>1 DEF Holds, Heads, Item, Cut, PacketsOf
<1>4. Known(ch)' /\ Line(ch)' = Line(ch)
  BY <1>1, <1>2, <1>3 DEF Good, Known, Line
<1>5. Good(ch)'
  BY <1>1, <1>2, <1>3, <1>4 DEF Good, Whole
<1>6. BufferTypes'
  BY <1>1, <1>3 DEF BufferInv, BufferTypes
<1> QED
  BY <1>5, <1>6 DEF BufferInv

\* Every step keeps the invariant.
LEMMA BufferInvStep == BufferInv /\ [BufferNext]_bufferVars => BufferInv'
<1> SUFFICES ASSUME BufferInv, [BufferNext]_bufferVars PROVE BufferInv'
  OBVIOUS
<1>1. Sizes \subseteq Nat
  BY BufferAssumption
<1>2. ASSUME NEW size \in Sizes, AppendDatagram(size) PROVE BufferInv'
  BY <1>1, <1>2, AppendDatagramKeeps
<1>3. ASSUME NEW size \in Sizes, ReceiveStreamData(size) PROVE BufferInv'
  BY <1>1, <1>3, ReceiveStreamDataKeeps
<1>4. CASE AppendStreamData
  BY <1>4, AppendStreamDataKeeps
<1>5. CASE Flush
  BY <1>5, FlushKeeps
<1>6. CASE Publish
  BY <1>6, PublishKeeps
<1>7. CASE Take
  BY <1>7, TakeKeeps
<1>8. CASE FeedPackets
  BY <1>8, FeedPacketsKeeps
<1>9. CASE CopyTo
  BY <1>9, CopyToKeeps
<1>10. CASE UNCHANGED bufferVars
  BY <1>10, NothingKeeps
<1> QED
  BY <1>2, <1>3, <1>4, <1>5, <1>6, <1>7, <1>8, <1>9, <1>10 DEF BufferNext

\* BatchesAreSequences of Buffer.h and Buffer.cpp, for every size of a buffer and of a
\* pool: every buffer is in one chain, the counts of a batch are those of its chain, and
\* what arrived is handed on whole and in order.
THEOREM BatchesAreSequencesCorrect == BufferSpec => []BatchesAreSequences
<1>1. BufferInit => BufferInv
  BY Begins
<1>2. BufferInv /\ [BufferNext]_bufferVars => BufferInv'
  BY BufferInvStep
<1>3. BufferInv => BatchesAreSequences
  BY Follows
<1> QED
  BY <1>1, <1>2, <1>3, PTL DEF BufferSpec

-----------------------------------------------------------------------------
(* The arrays of a buffer.                                                   *)

\* No append goes past the payload or the entries of a buffer, and an offset is one
\* of the payload, so that the 16 bits the static_assert of Buffer.h counts on are
\* enough for every offset that is stored.
WithinArrays ==
  \A b \in Buffer :
    /\ Len(payload[b]) <= PayloadSize
    /\ Len(packets[b]) <= PerBuffer
    /\ \A i \in 1..Len(packets[b]) :
         /\ packets[b][i].offset < PayloadSize
         /\ packets[b][i].offset + packets[b][i].length <= Len(payload[b])

\* The part of it that is not in BufferTypes.
EntriesFit(entries) ==
  Len(entries) <= PerBuffer /\ \A i \in 1..Len(entries) : entries[i].offset < PayloadSize

\* An entry more, behind data that leaves room.
LEMMA EntryFits ==
  ASSUME NEW r \in Seq(Entry), EntriesFit(r), Len(r) < PerBuffer,
         NEW o \in Nat, NEW n \in Nat \ {0}, o + n <= PayloadSize
  PROVE  EntriesFit(Append(r, [offset |-> o, length |-> n]))
<1> DEFINE e == [offset |-> o, length |-> n]
           m == Len(r)
           q == Append(r, e)
<1>1. e \in Entry /\ e.offset = o
  BY DEF Entry
<1>2. m \in Nat /\ m + 1 <= PerBuffer /\ o < PayloadSize
  BY BufferAssumption
<1> HIDE DEF e
<1>3. Len(q) = m + 1 /\ q[m + 1] = e /\ \A i \in 1..m : q[i] = r[i]
  BY <1>1, AppendProperties
<1> HIDE DEF q
<1>4. ASSUME NEW i \in 1..Len(q) PROVE q[i].offset < PayloadSize
  <2>1. CASE i = m + 1
    BY <1>1, <1>2, <1>3, <2>1
  <2>2. CASE i # m + 1
    <3>1. i \in 1..m
      BY <1>2, <1>3, <2>2
    <3> QED
      BY <1>3, <3>1 DEF EntriesFit
  <2> QED
    BY <2>1, <2>2
<1>5. EntriesFit(q)
  BY <1>2, <1>3, <1>4 DEF EntriesFit
<1> QED
  BY <1>5 DEF q, e

\* Every step keeps the entries within bounds.
LEMMA EntriesFitNext ==
  ASSUME BufferInv, \A b \in Buffer : EntriesFit(packets[b]), [BufferNext]_bufferVars
  PROVE  \A b \in Buffer : EntriesFit(packets'[b])
<1>1. /\ packets \in [Buffer -> Seq(Entry)] /\ payload \in [Buffer -> Seq(Nat)]
      /\ Sizes \subseteq Nat \ {0} /\ PayloadSize \in Nat \ {0} /\ PerBuffer \in Nat \ {0}
  BY BufferAssumption DEF BufferInv, BufferTypes, Entry
<1>2. EntriesFit(<<>>)
  BY <1>1 DEF EntriesFit
<1>3. ASSUME packets' = packets PROVE \A b \in Buffer : EntriesFit(packets'[b])
  BY <1>3
<1>4. ASSUME NEW size \in Sizes, AppendDatagram(size) PROVE \A b \in Buffer : EntriesFit(packets'[b])
  <2> DEFINE t == Tail_("arriving")
             new == t = Null \/ ~CanAppend(t, size)
             b == IF new THEN Acquired ELSE t
             r == IF new THEN <<>> ELSE packets[b]
             o == IF new THEN 0 ELSE Len(payload[b])
             q == Append(r, [offset |-> o, length |-> size])
  <2>1. size \in Nat \ {0} /\ size <= PayloadSize
    BY <1>1, <1>4 DEF AppendDatagram
  <2>2. packets' = [packets EXCEPT ![b] = Append(IF new THEN <<>> ELSE @, [offset |-> o, length |-> size])]
    BY <1>4 DEF AppendDatagram
  <2>3. ASSUME b \in Buffer PROVE EntriesFit(q)
    <3>1. CASE new
      <4>1. r = <<>> /\ o = 0
        BY <3>1
      <4> DEFINE z == <<>>
      <4>2. z \in Seq(Entry) /\ EntriesFit(z) /\ Len(z) < PerBuffer
        BY <1>1, <1>2
      <4> HIDE DEF z
      <4>3. EntriesFit(Append(z, [offset |-> 0, length |-> size]))
        BY <2>1, <4>2, EntryFits
      <4> QED
        BY <4>1, <4>3 DEF z
    <3>2. CASE ~new
      <4>1. /\ b = t /\ r = packets[t] /\ o = Len(payload[t]) /\ t \in Buffer
            /\ Len(packets[t]) < PerBuffer /\ size <= PayloadSize - Len(payload[t])
        BY <2>3, <3>2 DEF CanAppend, Available
      <4>2. r \in Seq(Entry) /\ EntriesFit(r) /\ Len(r) < PerBuffer /\ o \in Nat
        BY <1>1, <4>1
      <4>3. o + size <= PayloadSize
        BY <1>1, <2>1, <4>1, <4>2
      <4> HIDE DEF r, o
      <4> QED
        BY <2>1, <4>2, <4>3, EntryFits
    <3> QED
      BY <3>1, <3>2
  <2>4. ASSUME NEW x \in Buffer PROVE EntriesFit(packets'[x])
    <3>1. CASE x = b
      <4>1. packets'[x] = q
        BY <1>1, <2>2, <3>1
      <4> HIDE DEF q, b
      <4> QED
        BY <2>3, <3>1, <4>1
    <3>2. CASE x # b
      <4> HIDE DEF b, o, new
      <4>1. packets'[x] = packets[x]
        BY <1>1, <2>2, <3>2
      <4> QED
        BY <4>1
    <3> QED
      BY <3>1, <3>2
  <2> QED
    BY <2>4
<1>5. ASSUME NEW w, Release(w) PROVE \A b \in Buffer : EntriesFit(packets'[b])
  <2>1. \A b \in Buffer : packets'[b] = IF b \in ToSet(Chain(w)) THEN <<>> ELSE packets[b]
    BY <1>5 DEF Release
  <2> QED
    BY <1>2, <2>1
<1>6. ASSUME NEW size \in Sizes, ReceiveStreamData(size) PROVE packets' = packets
  BY <1>6 DEF ReceiveStreamData, poolVars
<1>7. ASSUME AppendStreamData \/ Publish PROVE packets' = packets
  BY <1>7 DEF AppendStreamData, Publish
<1>8. ASSUME Flush \/ Take PROVE packets' = packets
  BY <1>8 DEF Flush, Take, poolVars
<1>9. CASE FeedPackets
  BY <1>5, <1>9 DEF FeedPackets
<1>10. CASE CopyTo
  BY <1>5, <1>10 DEF CopyTo
<1>11. CASE UNCHANGED bufferVars
  BY <1>3, <1>11 DEF bufferVars, poolVars
<1> QED
  BY <1>3, <1>4, <1>6, <1>7, <1>8, <1>9, <1>10, <1>11 DEF BufferNext

\* What is stored stays within the arrays of a buffer, for every size of it and every
\* sequence of appends, joins and releases.
THEOREM WithinArraysCorrect == BufferSpec => []WithinArrays
<1> DEFINE Fit == \A b \in Buffer : EntriesFit(packets[b])
<1>1. BufferInit => BufferInv /\ Fit
  <2> SUFFICES ASSUME BufferInit PROVE BufferInv /\ Fit
    OBVIOUS
  <2>1. \A b \in Buffer : packets[b] = <<>>
    BY DEF BufferInit
  <2>2. EntriesFit(<<>>)
    BY BufferAssumption DEF EntriesFit
  <2> QED
    BY <2>1, <2>2, Begins
<1>2. BufferInv /\ Fit /\ [BufferNext]_bufferVars => BufferInv' /\ Fit'
  BY BufferInvStep, EntriesFitNext
<1>3. BufferInv /\ Fit => WithinArrays
  BY DEF BufferInv, BufferTypes, EntriesFit, WithinArrays
<1> QED
  BY <1>1, <1>2, <1>3, PTL DEF BufferSpec
=============================================================================
