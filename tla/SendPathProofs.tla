---------------------------- MODULE SendPathProofs ----------------------------
(***************************************************************************)
(* Proofs about SendPath, for any packets, budgets, delay and socket: its     *)
(* type, that packets leave once and in order whatever the socket refuses,    *)
(* and that a refused send is always tried again.                            *)
(***************************************************************************)
EXTENDS SendPath, SequenceTheorems, TLAPS

OperationType == {"Offered", "TimerExpired", "FlushSend"}
HasFlush(queue) == \E i \in DOMAIN queue : queue[i] = "FlushSend"
OneFlush(queue) ==
  \A i, j \in DOMAIN queue : queue[i] = "FlushSend" /\ queue[j] = "FlushSend" => i = j

Typed ==
  /\ operations \in Seq(OperationType)
  /\ wpc \in {"idle", "run", "retry", "flush"}
  /\ processed \in 0..OperationBudget
  /\ written \in 0..MaxPacketsPerFlush
  /\ retry \in Deadline /\ wheel \in Deadline /\ expiry \in Deadline
  /\ sendPending \in BOOLEAN /\ stopped \in BOOLEAN
  /\ next \in 1..(Packets + 1)
  /\ backlog \in 0..Packets
  /\ next + backlog <= Packets + 1
  /\ room \in 0..SocketRoom
  /\ wire \in Seq(1..Packets) /\ pending \in Seq(1..Packets)
  /\ dropped \subseteq 1..Packets

\* The flag says whether a flush is queued, and a connection that stopped has
\* nothing queued and nothing in the wheel.
Queueing ==
  /\ OneFlush(operations)
  /\ ~stopped => (sendPending <=> HasFlush(operations))
  /\ stopped => operations = <<>> /\ wheel = Infinite /\ wpc = "idle"

-----------------------------------------------------------------------------
(* Sequences: a queue of operations, and a send that stops in the middle.    *)

LEMMA AppendFlush ==
  ASSUME NEW queue \in Seq(OperationType), NEW op \in OperationType
  PROVE  /\ Append(queue, op) \in Seq(OperationType)
         /\ HasFlush(Append(queue, op)) <=> HasFlush(queue) \/ op = "FlushSend"
         /\ OneFlush(queue) /\ (op = "FlushSend" => ~HasFlush(queue)) => OneFlush(Append(queue, op))
<1>1. /\ Append(queue, op) \in Seq(OperationType)
      /\ DOMAIN Append(queue, op) = 1..(Len(queue) + 1)
      /\ \A i \in 1..Len(queue) : Append(queue, op)[i] = queue[i]
      /\ Append(queue, op)[Len(queue) + 1] = op
      /\ DOMAIN queue = 1..Len(queue) /\ Len(queue) \in Nat
  OBVIOUS
<1>2. \A i \in 1..(Len(queue) + 1) : i \in 1..Len(queue) \/ i = Len(queue) + 1
  BY <1>1
<1> QED
  BY <1>1, <1>2 DEF HasFlush, OneFlush

LEMMA TailFlush ==
  ASSUME NEW queue \in Seq(OperationType), queue # <<>>
  PROVE  /\ Tail(queue) \in Seq(OperationType) /\ Head(queue) \in OperationType
         /\ OneFlush(queue) => OneFlush(Tail(queue))
         /\ Head(queue) # "FlushSend" => (HasFlush(Tail(queue)) <=> HasFlush(queue))
         /\ Head(queue) = "FlushSend" /\ OneFlush(queue) => ~HasFlush(Tail(queue))
<1>1. /\ Tail(queue) \in Seq(OperationType) /\ Head(queue) = queue[1]
      /\ Len(queue) \in Nat \ {0} /\ DOMAIN queue = 1..Len(queue)
      /\ DOMAIN Tail(queue) = 1..(Len(queue) - 1)
      /\ \A i \in 1..(Len(queue) - 1) : Tail(queue)[i] = queue[i + 1]
  OBVIOUS
<1>2. queue[1] \in OperationType
  BY <1>1
<1>3. \A i \in 1..Len(queue) : i = 1 \/ (i - 1 \in 1..(Len(queue) - 1) /\ Tail(queue)[i - 1] = queue[i])
  BY <1>1
<1>4. \A i \in 1..(Len(queue) - 1) : i + 1 \in 1..Len(queue) /\ i + 1 # 1
  BY <1>1
<1>5. OneFlush(queue) => OneFlush(Tail(queue))
  BY <1>1, <1>4 DEF OneFlush
<1>6. Head(queue) # "FlushSend" => (HasFlush(Tail(queue)) <=> HasFlush(queue))
  <2>1. HasFlush(Tail(queue)) => HasFlush(queue)
    BY <1>1, <1>4 DEF HasFlush
  <2>2. Head(queue) # "FlushSend" /\ HasFlush(queue) => HasFlush(Tail(queue))
    BY <1>1, <1>3 DEF HasFlush
  <2> QED
    BY <2>1, <2>2
<1>7. Head(queue) = "FlushSend" /\ OneFlush(queue) => ~HasFlush(Tail(queue))
  BY <1>1, <1>4 DEF HasFlush, OneFlush
<1> QED
  BY <1>1, <1>2, <1>5, <1>6, <1>7

Increasing(s) == \A i, j \in DOMAIN s : i < j => s[i] < s[j]

\* The packets on the wire and a send, split where the socket stopped.
Splits(w, b, k) ==
  /\ w \o SubSeq(b, 1, k) \in Seq(1..Packets)
  /\ Drop(b, k) \in Seq(1..Packets)
  /\ (w \o SubSeq(b, 1, k)) \o Drop(b, k) = w \o b
  /\ Members(w \o b) = Members(w \o SubSeq(b, 1, k)) \cup Members(Drop(b, k))
  /\ Increasing(w \o b) => /\ Increasing(w \o SubSeq(b, 1, k))
                           /\ Members(w \o SubSeq(b, 1, k)) \cap Members(Drop(b, k)) = {}

LEMMA SendSplits ==
  ASSUME NEW w \in Seq(1..Packets), NEW b \in Seq(1..Packets), NEW k \in 0..Len(b)
  PROVE  Splits(w, b, k)
<1> DEFINE all == w \o b
           front == w \o SubSeq(b, 1, k)
           rest == Drop(b, k)
<1>1. Len(w) \in Nat /\ Len(b) \in Nat /\ k \in Nat /\ k <= Len(b)
  OBVIOUS
<1>0. \A i \in 1..Len(b) : b[i] \in 1..Packets
  BY ElementOfSeq
<1>2. /\ SubSeq(b, 1, k) \in Seq(1..Packets) /\ Len(SubSeq(b, 1, k)) = k
      /\ \A i \in 1..k : SubSeq(b, 1, k)[i] = b[i]
  <2>1. \A i \in 1..k : b[i] \in 1..Packets
    BY <1>0, <1>1
  <2>2. /\ SubSeq(b, 1, k) \in Seq(1..Packets)
        /\ Len(SubSeq(b, 1, k)) = IF 1 <= k THEN k - 1 + 1 ELSE 0
        /\ \A i \in 1..(k - 1 + 1) : SubSeq(b, 1, k)[i] = b[1 + i - 1]
    BY <1>1, <2>1, SubSeqProperties
  <2>3. \A i \in 1..k : i \in 1..(k - 1 + 1) /\ 1 + i - 1 = i
    BY <1>1
  <2> QED
    BY <1>1, <2>2, <2>3
<1>3. /\ rest \in Seq(1..Packets) /\ Len(rest) = Len(b) - k
      /\ \A i \in 1..(Len(b) - k) : rest[i] = b[k + i]
  <2>1. \A i \in (k + 1)..Len(b) : b[i] \in 1..Packets
    BY <1>0, <1>1
  <2>2. /\ rest \in Seq(1..Packets)
        /\ Len(rest) = IF k + 1 <= Len(b) THEN Len(b) - (k + 1) + 1 ELSE 0
        /\ \A i \in 1..(Len(b) - (k + 1) + 1) : rest[i] = b[k + 1 + i - 1]
    BY <1>1, <2>1, SubSeqProperties DEF Drop
  <2>3. \A i \in 1..(Len(b) - k) : i \in 1..(Len(b) - (k + 1) + 1) /\ k + 1 + i - 1 = k + i
    BY <1>1
  <2> QED
    BY <1>1, <2>2, <2>3
<1>4. /\ all \in Seq(1..Packets) /\ Len(all) = Len(w) + Len(b)
      /\ \A i \in 1..Len(w) : all[i] = w[i]
      /\ \A i \in 1..Len(b) : all[Len(w) + i] = b[i]
  BY <1>1
<1>5. /\ front \in Seq(1..Packets) /\ Len(front) = Len(w) + k
      /\ \A i \in 1..Len(w) : front[i] = w[i]
      /\ \A i \in 1..k : front[Len(w) + i] = SubSeq(b, 1, k)[i]
  BY <1>1, <1>2
<1> HIDE DEF all, front, rest
<1>6. \A i \in 1..(Len(w) + k) : front[i] = all[i]
  <2> SUFFICES ASSUME NEW i \in 1..(Len(w) + k) PROVE front[i] = all[i]
    OBVIOUS
  <2>1. CASE i <= Len(w)
    BY <1>1, <1>4, <1>5, <2>1
  <2>2. CASE i > Len(w)
    <3>1. i - Len(w) \in 1..k /\ i - Len(w) \in 1..Len(b) /\ Len(w) + (i - Len(w)) = i
      BY <1>1, <2>2
    <3>2. front[Len(w) + (i - Len(w))] = b[i - Len(w)]
      BY <1>2, <1>5, <3>1
    <3>3. all[Len(w) + (i - Len(w))] = b[i - Len(w)]
      BY <1>4, <3>1
    <3> QED
      BY <3>1, <3>2, <3>3
  <2> QED
    BY <1>1, <2>1, <2>2
<1>7. \A i \in 1..(Len(b) - k) : rest[i] = all[Len(w) + k + i]
  <2> SUFFICES ASSUME NEW i \in 1..(Len(b) - k) PROVE rest[i] = all[Len(w) + k + i]
    OBVIOUS
  <2>1. k + i \in 1..Len(b) /\ Len(w) + (k + i) = Len(w) + k + i
    BY <1>1
  <2> QED
    BY <1>3, <1>4, <2>1
<1>8. /\ DOMAIN all = 1..(Len(w) + Len(b)) /\ DOMAIN front = 1..(Len(w) + k)
      /\ DOMAIN rest = 1..(Len(b) - k)
  BY <1>3, <1>4, <1>5
<1>9. \A i \in 1..(Len(w) + Len(b)) :
        \/ i \in 1..(Len(w) + k)
        \/ i - (Len(w) + k) \in 1..(Len(b) - k) /\ Len(w) + k + (i - (Len(w) + k)) = i
  BY <1>1
<1>10. front \o rest = all
  <2>1. SubSeq(b, 1, k) \o Drop(b, k) = b
    <3>1. SubSeq(b, 1, k) \o SubSeq(b, k + 1, Len(b)) = SubSeq(b, 1, Len(b))
      <4>1. 1 \in 1..(Len(b) + 1) /\ k \in (1 - 1)..Len(b) /\ Len(b) \in k..Len(b)
        BY <1>1
      <4> QED
        BY <4>1, ConcatAdjacentSubSeq
    <3> QED
      BY <3>1, SubSeqFull DEF Drop
  <2>2. Drop(b, k) \in Seq(1..Packets)
    BY <1>3 DEF rest
  <2>3. SubSeq(b, 1, k) \in Seq(1..Packets)
    BY <1>2
  <2>4. (w \o SubSeq(b, 1, k)) \o Drop(b, k) = w \o (SubSeq(b, 1, k) \o Drop(b, k))
    <3>1. \A y, z \in Seq(1..Packets) : (w \o y) \o z = w \o (y \o z)
      OBVIOUS
    <3> QED
      BY <2>2, <2>3, <3>1, Zenon
  <2> QED
    BY <2>1, <2>4 DEF front, rest, all
<1>11. Members(all) = Members(front) \cup Members(rest)
  <2>1. ASSUME NEW i \in DOMAIN all PROVE all[i] \in Members(front) \cup Members(rest)
    <3>1. CASE i \in 1..(Len(w) + k)
      BY <1>6, <1>8, <3>1 DEF Members
    <3>2. CASE i - (Len(w) + k) \in 1..(Len(b) - k) /\ Len(w) + k + (i - (Len(w) + k)) = i
      <4>1. all[i] = rest[i - (Len(w) + k)]
        BY <1>7, <3>2
      <4> QED
        BY <1>8, <3>2, <4>1 DEF Members
    <3> QED
      BY <1>8, <1>9, <2>1, <3>1, <3>2
  <2>2. \A i \in DOMAIN front : i \in DOMAIN all
    BY <1>1, <1>8
  <2>3. \A i \in DOMAIN rest : Len(w) + k + i \in DOMAIN all
    BY <1>1, <1>8
  <2>4. \A x \in Members(front) \cup Members(rest) : x \in Members(all)
    BY <1>6, <1>7, <1>8, <2>2, <2>3 DEF Members
  <2> QED
    BY <2>1, <2>4 DEF Members
<1>12. Increasing(all) => Increasing(front)
  <2>1. \A i \in DOMAIN front : i \in DOMAIN all
    BY <1>1, <1>8
  <2> QED
    BY <1>6, <1>8, <2>1 DEF Increasing
<1>13. ASSUME Increasing(all) PROVE Members(front) \cap Members(rest) = {}
  <2> SUFFICES ASSUME NEW i \in DOMAIN front, NEW j \in DOMAIN rest, front[i] = rest[j]
               PROVE  FALSE
    BY DEF Members
  <2>1. i \in DOMAIN all /\ Len(w) + k + j \in DOMAIN all /\ i < Len(w) + k + j
    BY <1>1, <1>8
  <2>2. all[i] \in Int /\ all[Len(w) + k + j] \in Int
    <3>1. \A n \in 1..Len(all) : all[n] \in 1..Packets
      BY <1>4, ElementOfSeq
    <3> QED
      BY <1>4, <1>8, <2>1, <3>1
  <2>3. all[i] < all[Len(w) + k + j]
    BY <1>13, <2>1 DEF Increasing
  <2> QED
    BY <1>6, <1>7, <1>8, <2>2, <2>3
<1> QED
  BY <1>3, <1>5, <1>10, <1>11, <1>12, <1>13 DEF all, front, rest, Splits

\* What ngtcp2 writes next follows the packets it wrote.
LEMMA NumbersFollow ==
  ASSUME NEW w \in Seq(1..Packets), NEW n \in Nat \ {0}, NEW count \in Nat \ {0},
         Packets \in Nat, n + count <= Packets + 1,
         Increasing(w), Members(w) \subseteq 1..(n - 1)
  PROVE  /\ Numbers(n, count) \in Seq(1..Packets)
         /\ Increasing(w \o Numbers(n, count))
         /\ Members(w \o Numbers(n, count)) = Members(w) \cup n..(n + count - 1)
<1> DEFINE b == Numbers(n, count)
           all == w \o b
<1>1. /\ b \in Seq(1..Packets) /\ Len(b) = count
      /\ \A i \in 1..count : b[i] = n + i - 1
  <2>1. \A i \in 1..count : n + i - 1 \in 1..Packets
    OBVIOUS
  <2>2. b \in [1..count -> 1..Packets]
    BY <2>1 DEF Numbers
  <2>3. b \in Seq(1..Packets) /\ Len(b) = count
    BY <2>2
  <2> QED
    BY <2>3 DEF Numbers
<1>2. Len(w) \in Nat /\ DOMAIN w = 1..Len(w) /\ \A i \in 1..Len(w) : w[i] \in 1..(n - 1)
  BY DEF Members
<1> HIDE DEF b
<1>3. /\ Len(all) = Len(w) + count /\ DOMAIN all = 1..(Len(w) + count)
      /\ \A i \in 1..Len(w) : all[i] = w[i]
      /\ \A i \in 1..count : all[Len(w) + i] = n + i - 1
  <2>1. b \in Seq(1..Packets) /\ Len(b) \in Nat /\ Len(w) \in Nat
    BY <1>1, <1>2
  <2>2. /\ all \in Seq(1..Packets) /\ Len(all) = Len(w) + Len(b)
        /\ \A i \in 1..Len(w) : all[i] = w[i]
        /\ \A i \in 1..Len(b) : all[Len(w) + i] = b[i]
    BY <2>1
  <2> HIDE DEF all
  <2>3. DOMAIN all = 1..Len(all)
    BY <2>2
  <2> QED
    BY <1>1, <2>2, <2>3
<1> HIDE DEF all
<1>4. ASSUME NEW i \in 1..(Len(w) + count)
      PROVE  \/ i \in 1..Len(w) /\ all[i] = w[i]
             \/ i - Len(w) \in 1..count /\ all[i] = n + (i - Len(w)) - 1
  <2>1. CASE i <= Len(w)
    BY <1>2, <1>3, <2>1
  <2>2. CASE i > Len(w)
    <3>1. i - Len(w) \in 1..count /\ Len(w) + (i - Len(w)) = i
      BY <1>2, <2>2
    <3> QED
      BY <1>3, <3>1
  <2> QED
    BY <1>2, <2>1, <2>2
<1>5. Increasing(all)
  <2> SUFFICES ASSUME NEW i \in 1..(Len(w) + count), NEW j \in 1..(Len(w) + count), i < j
               PROVE  all[i] < all[j]
    BY <1>3 DEF Increasing
  <2>1. CASE j \in 1..Len(w) /\ all[j] = w[j]
    <3>1. i \in 1..Len(w) /\ all[i] = w[i]
      BY <1>2, <1>3, <2>1
    <3> QED
      BY <1>2, <2>1, <3>1 DEF Increasing
  <2>2. CASE j - Len(w) \in 1..count /\ all[j] = n + (j - Len(w)) - 1
    <3>1. CASE i \in 1..Len(w) /\ all[i] = w[i]
      <4>1. all[i] <= n - 1
        BY <1>2, <3>1
      <4> QED
        BY <2>2, <3>1, <4>1
    <3>2. CASE i - Len(w) \in 1..count /\ all[i] = n + (i - Len(w)) - 1
      BY <1>2, <2>2, <3>2
    <3> QED
      BY <1>4, <3>1, <3>2
  <2> QED
    BY <1>4, <2>1, <2>2
<1>6. Members(all) = Members(w) \cup n..(n + count - 1)
  <2>1. ASSUME NEW i \in 1..(Len(w) + count) PROVE all[i] \in Members(w) \cup n..(n + count - 1)
    <3>1. CASE i \in 1..Len(w) /\ all[i] = w[i]
      BY <1>2, <3>1 DEF Members
    <3>2. CASE i - Len(w) \in 1..count /\ all[i] = n + (i - Len(w)) - 1
      BY <1>2, <3>2
    <3> QED
      BY <1>4, <3>1, <3>2
  <2>2. \A i \in 1..Len(w) : i \in DOMAIN all /\ all[i] = w[i]
    BY <1>2, <1>3
  <2>3. ASSUME NEW x \in n..(n + count - 1) PROVE x \in Members(all)
    <3>1. x - n + 1 \in 1..count /\ Len(w) + (x - n + 1) \in 1..(Len(w) + count) /\ n + (x - n + 1) - 1 = x
      BY <1>2
    <3> QED
      BY <1>3, <3>1 DEF Members
  <2>4. Members(w) \subseteq Members(all)
    BY <1>2, <2>2 DEF Members
  <2>5. Members(all) \subseteq Members(w) \cup n..(n + count - 1)
    BY <1>3, <2>1 DEF Members
  <2> QED
    BY <2>3, <2>4, <2>5
<1> QED
  BY <1>1, <1>5, <1>6 DEF all, b

-----------------------------------------------------------------------------
(* The inductive invariant.                                                  *)

\* The packets of `sent` followed by `left` are in order, and with the ones
\* given up they are the ones ngtcp2 wrote before `n`.
Accounted(sent, left, given, n) ==
  /\ Increasing(sent \o left)
  /\ Members(sent \o left) \cup given = 1..(n - 1)
  /\ Members(sent \o left) \cap given = {}

\* ... and ngtcp2 writes only when nothing is pending.
Order ==
  /\ Accounted(wire, pending, dropped, next)
  /\ wpc = "flush" => pending = <<>>

\* A send that was refused has its deadline, a flush or the Worker, and the wheel
\* knows the deadline unless there is something to run.
Retrying ==
  /\ pending # <<>> /\ ~stopped =>
       retry <= RetryDelay \/ HasFlush(operations) \/ wpc = "retry"
  /\ wpc = "idle" /\ ~stopped => wheel <= retry \/ operations # <<>>

InductiveInv == Typed /\ Queueing /\ Order /\ Retrying

LEMMA Constants ==
  ASSUME SendAssumption
  PROVE  /\ Packets \in Nat /\ MaxBatch \in Nat \ {0} /\ MaxPacketsPerFlush \in Nat \ {0}
         /\ OperationBudget \in Nat \ {0} /\ RetryDelay \in Nat \ {0} /\ SocketRoom \in Nat \ {0}
         /\ Deadline = 0..(RetryDelay + 1) /\ Infinite = RetryDelay + 1
<1>1. \A n \in {MaxBatch, MaxPacketsPerFlush, OperationBudget, RetryDelay, SocketRoom} : n \in Nat \ {0}
  BY DEF SendAssumption
<1> QED
  BY <1>1 DEF SendAssumption, Deadline, Infinite

\* Whatever the socket does with a send, the packets stay accounted for.
LEMMA SendAccounted ==
  ASSUME SendAssumption, room \in 0..SocketRoom, wire \in Seq(1..Packets),
         dropped \subseteq 1..Packets, retry \in Deadline,
         NEW b \in Seq(1..Packets), NEW n \in Nat, Accounted(wire, b, dropped, n),
         NEW outcome \in Outcome(b), Possible(b, outcome),
         Transmit(b, outcome), Settle(b, outcome)
  PROVE  /\ wire' \in Seq(1..Packets) /\ pending' \in Seq(1..Packets)
         /\ dropped' \subseteq 1..Packets /\ room' \in 0..SocketRoom /\ retry' \in Deadline
         /\ Accounted(wire', pending', dropped', n)
         /\ outcome.status = "Blocked" => retry' = RetryDelay
         /\ outcome.status # "Blocked" => pending' = <<>>
<1> DEFINE k == outcome.sent
           front == wire \o SubSeq(b, 1, k)
           rest == Drop(b, k)
<1>1. k \in 0..Earlier(room, Len(b)) /\ Len(b) \in Nat
  BY DEF Outcome
<1>2. k \in 0..Len(b) /\ k \in 0..room
  BY <1>1 DEF Earlier
<1>3. wire' = front /\ room' = room - k
  BY DEF Transmit
<1>4. \/ outcome.status = "Blocked" /\ pending' = rest /\ retry' = RetryDelay /\ dropped' = dropped
      \/ /\ outcome.status # "Blocked" /\ pending' = <<>> /\ retry' = Infinite
         /\ dropped' = dropped \cup Members(rest)
  BY DEF Settle
<1>5. /\ front \in Seq(1..Packets) /\ rest \in Seq(1..Packets) /\ front \o rest = wire \o b
      /\ Members(wire \o b) = Members(front) \cup Members(rest)
      /\ Increasing(wire \o b) => /\ Increasing(front) /\ Members(front) \cap Members(rest) = {}
  <2> HIDE DEF k
  <2>1. Splits(wire, b, k)
    BY <1>2, SendSplits
  <2> QED
    BY <2>1 DEF Splits
<1> HIDE DEF k, front, rest
<1>6. room' \in 0..SocketRoom /\ retry' \in Deadline
  BY <1>2, <1>3, <1>4, Constants
<1>7. /\ Members(rest) \subseteq 1..Packets /\ front \o <<>> = front
  <2>1. DOMAIN rest = 1..Len(rest) /\ \A i \in 1..Len(rest) : rest[i] \in 1..Packets
    BY <1>5, LenProperties, ElementOfSeq
  <2>2. Members(rest) \subseteq 1..Packets
    BY <2>1 DEF Members
  <2>3. front \o <<>> = front
    BY <1>5
  <2> QED
    BY <2>2, <2>3
<1>8. CASE outcome.status = "Blocked" /\ pending' = rest /\ retry' = RetryDelay /\ dropped' = dropped
  BY <1>3, <1>5, <1>6, <1>8 DEF Accounted
<1>9. CASE /\ outcome.status # "Blocked" /\ pending' = <<>> /\ retry' = Infinite
           /\ dropped' = dropped \cup Members(rest)
  <2>1. wire' \o pending' = front
    BY <1>3, <1>7, <1>9
  <2>2. Accounted(wire', pending', dropped', n)
    BY <1>5, <1>9, <2>1 DEF Accounted
  <2>3. wire' \in Seq(1..Packets) /\ dropped' \subseteq 1..Packets
    BY <1>3, <1>5, <1>7, <1>9
  <2>4. pending' \in Seq(1..Packets)
    BY <1>9
  <2> QED
    BY <1>6, <1>9, <2>2, <2>3, <2>4
<1> QED
  BY <1>4, <1>8, <1>9

LEMMA Initially == SendAssumption /\ Init => InductiveInv
<1> SUFFICES ASSUME SendAssumption, Init PROVE InductiveInv
  OBVIOUS
<1>1. Typed
  <2>1. wire \in Seq(1..Packets) /\ pending \in Seq(1..Packets) /\ operations \in Seq(OperationType)
    BY DEF Init
  <2>2. dropped \subseteq 1..Packets /\ next \in 1..(Packets + 1) /\ backlog \in 0..Packets
    BY Constants DEF Init
  <2>3. /\ processed \in 0..OperationBudget /\ written \in 0..MaxPacketsPerFlush
        /\ room \in 0..SocketRoom /\ next + backlog <= Packets + 1
    BY Constants DEF Init
  <2>4. retry \in Deadline /\ wheel \in Deadline /\ expiry \in Deadline
    BY Constants DEF Init
  <2>5. sendPending \in BOOLEAN /\ stopped \in BOOLEAN /\ wpc \in {"idle", "run", "retry", "flush"}
    BY DEF Init
  <2> QED
    BY <2>1, <2>2, <2>3, <2>4, <2>5 DEF Typed
<1>2. Queueing /\ Retrying
  BY DEF Init, Queueing, Retrying, OneFlush, HasFlush, Infinite, SendAssumption
<1>3. Order
  <2>1. wire \o pending = <<>> /\ dropped = {} /\ next = 1 /\ wpc = "idle"
    BY DEF Init
  <2> QED
    BY <2>1 DEF Order, Accounted, Increasing, Members
<1> QED
  BY <1>1, <1>2, <1>3 DEF InductiveInv

-----------------------------------------------------------------------------
(* The steps that send nothing.                                              *)

LEMMA FlushQueued ==
  ASSUME NEW queue \in Seq(OperationType), OneFlush(queue), sendPending \in BOOLEAN,
         sendPending <=> HasFlush(queue), QueueSendFlush(queue)
  PROVE  /\ operations' \in Seq(OperationType) /\ sendPending' = TRUE
         /\ OneFlush(operations') /\ HasFlush(operations')
<1>1. "FlushSend" \in OperationType
  BY DEF OperationType
<1>2. CASE sendPending
  BY <1>2 DEF QueueSendFlush
<1>3. CASE ~sendPending
  <2>1. operations' = Append(queue, "FlushSend") /\ sendPending' = TRUE
    BY <1>3 DEF QueueSendFlush
  <2> QED
    BY <1>1, <1>3, <2>1, AppendFlush
<1> QED
  BY <1>2, <1>3

\* Order is about the packets alone.
LEMMA OrderKept ==
  ASSUME Order, UNCHANGED <<wire, pending, dropped, next>>, wpc' = "flush" => pending = <<>>
  PROVE  Order'
BY DEF Order, Accounted

LEMMA OfferKeeps ==
  ASSUME SendAssumption, InductiveInv, Offer
  PROVE  InductiveInv'
<1>1. operations' = Append(operations, "Offered") /\ operations \in Seq(OperationType) /\ ~stopped
  BY DEF Offer, InductiveInv, Typed
<1>2. "Offered" \in OperationType
  BY DEF OperationType
<1>3. /\ operations' \in Seq(OperationType) /\ operations' # <<>>
      /\ HasFlush(operations') <=> HasFlush(operations)
      /\ OneFlush(operations) => OneFlush(operations')
  <2>1. Append(operations, "Offered") # <<>>
    BY <1>1
  <2> QED
    BY <1>1, <1>2, <2>1, AppendFlush
<1>4. Typed'
  BY <1>3 DEF InductiveInv, Typed, Offer, workerVars, ngtcp2Vars, socketVars
<1>5. Queueing'
  BY <1>1, <1>3 DEF InductiveInv, Queueing, Offer, workerVars
<1>6. Order'
  BY OrderKept DEF InductiveInv, Order, Offer, workerVars, ngtcp2Vars, socketVars
<1>7. Retrying'
  BY <1>3 DEF InductiveInv, Retrying, Offer, workerVars
<1> QED
  BY <1>4, <1>5, <1>6, <1>7 DEF InductiveInv

LEMMA DrainKeeps ==
  ASSUME SendAssumption, InductiveInv, Drain
  PROVE  InductiveInv'
<1>1. room' \in 0..SocketRoom
  BY Constants DEF Drain, InductiveInv, Typed
<1>2. Typed'
  BY <1>1 DEF InductiveInv, Typed, Drain, queueVars, workerVars, ngtcp2Vars
<1>3. Queueing' /\ Retrying'
  BY DEF InductiveInv, Queueing, Retrying, Drain, queueVars, workerVars
<1>4. Order'
  BY OrderKept DEF InductiveInv, Order, Drain, workerVars, ngtcp2Vars
<1> QED
  BY <1>2, <1>3, <1>4 DEF InductiveInv

LEMMA TickKeeps ==
  ASSUME SendAssumption, InductiveInv, Tick
  PROVE  InductiveInv'
<1>1. /\ retry' \in Deadline /\ wheel' \in Deadline /\ expiry' \in Deadline
      /\ retry' <= retry
      /\ wheel <= retry => wheel' <= retry'
      /\ wheel = Infinite => wheel' = Infinite
  <2>1. /\ RetryDelay \in Nat /\ Infinite = RetryDelay + 1 /\ Deadline = 0..(RetryDelay + 1)
        /\ retry \in 0..(RetryDelay + 1) /\ wheel \in 0..(RetryDelay + 1)
        /\ expiry \in 0..(RetryDelay + 1)
    BY Constants DEF InductiveInv, Typed
  <2>2. retry' = Later(retry) /\ wheel' = Later(wheel) /\ expiry' = Later(expiry)
    BY DEF Tick
  <2>3. \A deadline \in 0..(RetryDelay + 1) :
          Later(deadline) = IF deadline = 0 \/ deadline = RetryDelay + 1 THEN deadline ELSE deadline - 1
    BY <2>1 DEF Later
  <2>4. /\ retry' = IF retry = 0 \/ retry = RetryDelay + 1 THEN retry ELSE retry - 1
        /\ wheel' = IF wheel = 0 \/ wheel = RetryDelay + 1 THEN wheel ELSE wheel - 1
        /\ expiry' = IF expiry = 0 \/ expiry = RetryDelay + 1 THEN expiry ELSE expiry - 1
    BY <2>1, <2>2, <2>3
  <2>5. retry' \in Deadline /\ wheel' \in Deadline /\ expiry' \in Deadline
    BY <2>1, <2>4
  <2> QED
    BY <2>1, <2>4, <2>5
<1>2. retry \in Int /\ retry' \in Int /\ RetryDelay \in Int
  BY <1>1, Constants DEF InductiveInv, Typed
<1>3. Typed'
  BY <1>1 DEF InductiveInv, Typed, Tick, queueVars, workerVars, socketVars
<1>4. Queueing'
  BY <1>1 DEF InductiveInv, Queueing, Tick, queueVars, workerVars
<1>5. Order'
  BY OrderKept DEF InductiveInv, Order, Tick, workerVars, socketVars
<1>6. Retrying'
  <2>1. UNCHANGED <<pending, stopped, operations, wpc>>
    BY DEF Tick, queueVars, workerVars
  <2>2. retry <= RetryDelay => retry' <= RetryDelay
    BY <1>1, <1>2
  <2> QED
    BY <1>1, <2>1, <2>2 DEF InductiveInv, Retrying
<1> QED
  BY <1>3, <1>4, <1>5, <1>6 DEF InductiveInv

LEMMA FailKeeps ==
  ASSUME SendAssumption, InductiveInv, Fail
  PROVE  InductiveInv'
<1>1. operations' \in Seq(OperationType)
  BY DEF Fail
<1>2. wheel' \in Deadline /\ stopped' \in BOOLEAN /\ wpc' = "idle"
  BY Constants DEF Fail
<1>3. Typed'
  BY <1>1, <1>2 DEF InductiveInv, Typed, Fail, ngtcp2Vars, socketVars
<1>4. Queueing' /\ Retrying'
  BY DEF Fail, Queueing, Retrying, OneFlush
<1>5. Order'
  BY <1>2, OrderKept DEF InductiveInv, Fail, ngtcp2Vars, socketVars
<1> QED
  BY <1>3, <1>4, <1>5 DEF InductiveInv

LEMMA ExpireTimerKeeps ==
  ASSUME SendAssumption, InductiveInv, ExpireTimer
  PROVE  InductiveInv'
<1>1. /\ operations' = Append(operations, "TimerExpired") /\ operations \in Seq(OperationType)
      /\ wheel' = Infinite /\ wheel # Infinite
  BY Constants DEF ExpireTimer, InductiveInv, Typed
<1>2. "TimerExpired" \in OperationType
  BY DEF OperationType
<1>3. /\ operations' \in Seq(OperationType) /\ operations' # <<>>
      /\ HasFlush(operations') <=> HasFlush(operations)
      /\ OneFlush(operations) => OneFlush(operations')
  <2>1. Append(operations, "TimerExpired") # <<>>
    BY <1>1
  <2> QED
    BY <1>1, <1>2, <2>1, AppendFlush
<1>4. wheel' \in Deadline
  BY <1>1, Constants
<1>5. Typed'
  BY <1>3, <1>4 DEF InductiveInv, Typed, ExpireTimer, workerVars, ngtcp2Vars, socketVars
<1>6. Queueing'
  BY <1>1, <1>3 DEF InductiveInv, Queueing, ExpireTimer, workerVars
<1>7. Order'
  BY OrderKept DEF InductiveInv, Order, ExpireTimer, workerVars, ngtcp2Vars, socketVars
<1>8. Retrying'
  BY <1>3 DEF InductiveInv, Retrying, ExpireTimer, workerVars
<1> QED
  BY <1>5, <1>6, <1>7, <1>8 DEF InductiveInv

LEMMA BeginRunKeeps ==
  ASSUME SendAssumption, InductiveInv, BeginRun
  PROVE  InductiveInv'
<1>1. Typed'
  BY Constants DEF InductiveInv, Typed, BeginRun, queueVars, ngtcp2Vars, socketVars
<1>2. ~stopped
  BY DEF InductiveInv, Queueing, BeginRun
<1>3. Queueing' /\ Retrying'
  BY <1>2 DEF InductiveInv, Queueing, Retrying, BeginRun, queueVars
<1>4. Order'
  BY OrderKept DEF InductiveInv, BeginRun, ngtcp2Vars, socketVars
<1> QED
  BY <1>1, <1>3, <1>4 DEF InductiveInv

\* A connection that runs has not stopped.
LEMMA Running ==
  ASSUME InductiveInv, wpc # "idle"
  PROVE  /\ ~stopped /\ operations \in Seq(OperationType) /\ OneFlush(operations)
         /\ sendPending \in BOOLEAN /\ (sendPending <=> HasFlush(operations))
BY DEF InductiveInv, Typed, Queueing

\* The next operation is taken, and what is behind it is left.
LEMMA OperationTaken ==
  ASSUME SendAssumption, InductiveInv, NEW type, Begin(type)
  PROVE  /\ wpc = "run" /\ ~stopped /\ processed' \in 0..OperationBudget
         /\ Tail(operations) \in Seq(OperationType) /\ OneFlush(Tail(operations))
         /\ sendPending \in BOOLEAN
         /\ type # "FlushSend" => (sendPending <=> HasFlush(Tail(operations)))
         /\ type = "FlushSend" => ~HasFlush(Tail(operations))
<1>1. wpc = "run" /\ operations # <<>> /\ Head(operations) = type
  BY DEF Begin
<1>2. processed' \in 0..OperationBudget
  BY Constants DEF Begin, InductiveInv, Typed
<1> QED
  BY <1>1, <1>2, Running, TailFlush

LEMMA ProcessOfferedKeeps ==
  ASSUME SendAssumption, InductiveInv, ProcessOffered
  PROVE  InductiveInv'
<1>1. Begin("Offered") /\ QueueSendFlush(Tail(operations))
  BY DEF ProcessOffered
<1>2. /\ wpc = "run" /\ ~stopped /\ processed' \in 0..OperationBudget
      /\ operations' \in Seq(OperationType) /\ sendPending' = TRUE
      /\ OneFlush(operations') /\ HasFlush(operations')
  <2>1. /\ Tail(operations) \in Seq(OperationType) /\ OneFlush(Tail(operations))
        /\ sendPending \in BOOLEAN /\ (sendPending <=> HasFlush(Tail(operations)))
    BY <1>1, OperationTaken
  <2>2. wpc = "run" /\ ~stopped /\ processed' \in 0..OperationBudget
    BY <1>1, OperationTaken
  <2> QED
    BY <1>1, <2>1, <2>2, FlushQueued
<1>3. backlog' \in 0..Packets /\ next + backlog' <= Packets + 1
  <2>1. /\ backlog \in Nat /\ next \in 1..(Packets + 1) /\ Packets \in Nat
    BY Constants DEF InductiveInv, Typed
  <2>2. backlog' \in (backlog + 1)..(Packets + 1 - next)
    BY DEF ProcessOffered
  <2>3. backlog' \in Int /\ 0 <= backlog' /\ backlog' <= (Packets + 1) - next
    BY <2>1, <2>2
  <2> QED
    BY <2>1, <2>3
<1>4. Typed'
  BY <1>2, <1>3 DEF InductiveInv, Typed, ProcessOffered, socketVars
<1>5. Queueing' /\ Retrying'
  BY <1>2 DEF InductiveInv, Queueing, Retrying, ProcessOffered
<1>6. Order'
  BY OrderKept DEF InductiveInv, Order, ProcessOffered, socketVars
<1> QED
  BY <1>4, <1>5, <1>6 DEF InductiveInv

LEMMA ProcessTimerKeeps ==
  ASSUME SendAssumption, InductiveInv, ProcessTimer
  PROVE  InductiveInv'
<1>1. Begin("TimerExpired")
  BY DEF ProcessTimer
<1>2. /\ wpc = "run" /\ wpc' = "run" /\ ~stopped /\ stopped' = stopped /\ pending' = pending
      /\ processed' \in 0..OperationBudget /\ retry' \in Deadline
  <2>1. wpc = "run" /\ ~stopped /\ processed' \in 0..OperationBudget
    BY <1>1, OperationTaken
  <2>2. retry' \in Deadline
    <3>1. retry \in Deadline
      BY DEF InductiveInv, Typed
    <3>2. Infinite \in Deadline
      BY Constants
    <3> QED
      BY <3>1, <3>2 DEF ProcessTimer
  <2> QED
    BY <2>1, <2>2 DEF ProcessTimer
<1>3. /\ operations' \in Seq(OperationType) /\ sendPending' \in BOOLEAN
      /\ OneFlush(operations') /\ (sendPending' <=> HasFlush(operations'))
      /\ retry = 0 => HasFlush(operations')
      /\ retry # 0 => retry' = retry
      /\ HasFlush(operations) => HasFlush(operations')
  <2>1. /\ Tail(operations) \in Seq(OperationType) /\ OneFlush(Tail(operations))
        /\ sendPending \in BOOLEAN /\ (sendPending <=> HasFlush(Tail(operations)))
        /\ sendPending <=> HasFlush(operations)
    BY <1>1, <1>2, OperationTaken, Running
  <2>2. CASE retry = 0 \/ expiry = 0
    <3>1. QueueSendFlush(Tail(operations))
      BY <2>2 DEF ProcessTimer
    <3> QED
      BY <2>1, <3>1, FlushQueued DEF ProcessTimer
  <2>3. CASE ~(retry = 0 \/ expiry = 0)
    BY <2>1, <2>3 DEF ProcessTimer
  <2> QED
    BY <2>2, <2>3
<1>4. Typed'
  BY <1>2, <1>3 DEF InductiveInv, Typed, ProcessTimer, ngtcp2Vars, socketVars
<1>5. Queueing' /\ Retrying'
  BY <1>2, <1>3 DEF InductiveInv, Queueing, Retrying
<1>6. Order'
  BY OrderKept DEF InductiveInv, Order, ProcessTimer, ngtcp2Vars, socketVars
<1> QED
  BY <1>4, <1>5, <1>6 DEF InductiveInv

LEMMA ProcessSendFlushKeeps ==
  ASSUME SendAssumption, InductiveInv, ProcessSendFlush
  PROVE  InductiveInv'
<1>1. Begin("FlushSend") /\ operations' = Tail(operations) /\ sendPending' = FALSE
  BY DEF ProcessSendFlush
<1>2. /\ ~stopped /\ processed' \in 0..OperationBudget
      /\ operations' \in Seq(OperationType) /\ OneFlush(operations') /\ ~HasFlush(operations')
  BY <1>1, OperationTaken
<1>3. /\ wpc' = IF pending = <<>> THEN "flush" ELSE "retry"
      /\ written' = 0
  BY DEF ProcessSendFlush
<1>4. written' \in 0..MaxPacketsPerFlush
  BY <1>3, Constants
<1>5. Typed'
  BY <1>1, <1>2, <1>3, <1>4 DEF InductiveInv, Typed, ProcessSendFlush, ngtcp2Vars, socketVars
<1>6. Queueing' /\ Retrying'
  BY <1>1, <1>2, <1>3 DEF InductiveInv, Queueing, Retrying, ProcessSendFlush
<1>7. Order'
  BY <1>3, OrderKept DEF InductiveInv, Order, ProcessSendFlush, ngtcp2Vars, socketVars
<1> QED
  BY <1>5, <1>6, <1>7 DEF InductiveInv

LEMMA EndRunKeeps ==
  ASSUME SendAssumption, InductiveInv, EndRun
  PROVE  InductiveInv'
<1>1. ~stopped /\ wheel' = Earlier(expiry, retry)
  BY Running DEF EndRun
<1>2. wheel' \in Deadline /\ wheel' <= retry
  BY <1>1, Constants DEF Earlier, InductiveInv, Typed
<1>3. Typed'
  BY <1>2 DEF InductiveInv, Typed, EndRun, queueVars, ngtcp2Vars, socketVars
<1>4. Queueing' /\ Retrying'
  BY <1>1, <1>2 DEF InductiveInv, Queueing, Retrying, EndRun, queueVars
<1>5. Order'
  BY OrderKept DEF InductiveInv, EndRun, ngtcp2Vars, socketVars
<1> QED
  BY <1>3, <1>4, <1>5 DEF InductiveInv

-----------------------------------------------------------------------------
(* The steps of a flush.                                                     *)

LEMMA FlushPendingTransportSendKeeps ==
  ASSUME SendAssumption, InductiveInv, FlushPendingTransportSend
  PROVE  InductiveInv'
<1>1. /\ room \in 0..SocketRoom /\ wire \in Seq(1..Packets) /\ pending \in Seq(1..Packets)
      /\ dropped \subseteq 1..Packets /\ retry \in Deadline /\ next \in Nat
      /\ Accounted(wire, pending, dropped, next)
  BY Constants DEF InductiveInv, Typed, Order
<1>2. PICK outcome \in Outcome(pending) :
        /\ Transmit(pending, outcome)
        /\ Settle(pending, outcome)
        /\ wpc' = IF outcome.status = "Blocked" THEN "run" ELSE "flush"
  BY DEF FlushPendingTransportSend
<1>3. Possible(pending, outcome)
  BY <1>2 DEF Transmit
<1>4. /\ wire' \in Seq(1..Packets) /\ pending' \in Seq(1..Packets)
      /\ dropped' \subseteq 1..Packets /\ room' \in 0..SocketRoom /\ retry' \in Deadline
      /\ Accounted(wire', pending', dropped', next)
      /\ outcome.status = "Blocked" => retry' = RetryDelay
      /\ outcome.status # "Blocked" => pending' = <<>>
  BY <1>1, <1>2, <1>3, SendAccounted
<1>5. /\ UNCHANGED <<operations, sendPending, processed, written, wheel, stopped, expiry, next,
                     backlog>>
      /\ ~stopped
  BY Running DEF FlushPendingTransportSend, queueVars, ngtcp2Vars
<1>6. wpc' \in {"run", "flush"} /\ (wpc' = "flush" => pending' = <<>>)
  BY <1>2, <1>4
<1>7. pending' # <<>> => retry' <= RetryDelay
  BY <1>4, Constants
<1>8. Typed'
  BY <1>4, <1>5, <1>6 DEF InductiveInv, Typed
<1>9. Queueing' /\ Retrying'
  BY <1>5, <1>6, <1>7 DEF InductiveInv, Queueing, Retrying
<1>10. Order'
  BY <1>4, <1>5, <1>6 DEF Order, Accounted
<1> QED
  BY <1>8, <1>9, <1>10 DEF InductiveInv

LEMMA WriteBatchKeeps ==
  ASSUME SendAssumption, InductiveInv, WriteBatch
  PROVE  InductiveInv'
<1>1. /\ room \in 0..SocketRoom /\ wire \in Seq(1..Packets) /\ pending = <<>>
      /\ dropped \subseteq 1..Packets /\ retry \in Deadline
      /\ next \in Nat \ {0} /\ backlog \in Nat /\ next + backlog <= Packets + 1
      /\ written \in Nat /\ MaxPacketsPerFlush \in Nat /\ MaxBatch \in Nat /\ Packets \in Nat
      /\ Accounted(wire, pending, dropped, next)
  <2>1. pending = <<>> /\ Accounted(wire, pending, dropped, next)
    BY DEF InductiveInv, Order, WriteBatch
  <2>2. /\ room \in 0..SocketRoom /\ wire \in Seq(1..Packets)
        /\ dropped \subseteq 1..Packets /\ retry \in Deadline
    BY DEF InductiveInv, Typed
  <2>3. /\ next \in 1..(Packets + 1) /\ backlog \in 0..Packets /\ next + backlog <= Packets + 1
        /\ written \in 0..MaxPacketsPerFlush
    BY DEF InductiveInv, Typed
  <2> QED
    BY <2>1, <2>2, <2>3, Constants
<1>2. PICK count \in 1..Earlier(MaxBatch, Earlier(MaxPacketsPerFlush - written, backlog)) :
        LET batch == Numbers(next, count)
        IN /\ next' = next + count
           /\ backlog' = backlog - count
           /\ written' = written + count
           /\ \E outcome \in Outcome(batch) :
                /\ Transmit(batch, outcome)
                /\ Settle(batch, outcome)
                /\ wpc' = IF outcome.status = "Blocked" THEN "run" ELSE "flush"
  BY DEF WriteBatch
<1> DEFINE batch == Numbers(next, count)
<1>3. count \in Nat \ {0} /\ count <= backlog /\ count <= MaxPacketsPerFlush - written
  BY <1>1, <1>2 DEF Earlier
<1>4. /\ next' \in 1..(Packets + 1) /\ backlog' \in 0..Packets /\ next' + backlog' <= Packets + 1
      /\ written' \in 0..MaxPacketsPerFlush
  <2>1. next' = next + count /\ backlog' = backlog - count /\ written' = written + count
    BY <1>2
  <2> QED
    BY <1>1, <1>3, <2>1
<1>5. Increasing(wire) /\ Members(wire) \cup dropped = 1..(next - 1) /\ Members(wire) \cap dropped = {}
  <2>1. wire \o <<>> = wire
    BY <1>1
  <2> QED
    BY <1>1, <2>1 DEF Accounted
<1>6. /\ batch \in Seq(1..Packets)
      /\ Increasing(wire \o batch)
      /\ Members(wire \o batch) = Members(wire) \cup next..(next + count - 1)
  BY <1>1, <1>3, <1>5, NumbersFollow
<1>7. Accounted(wire, batch, dropped, next + count)
  <2>1. 1..(next - 1) \cup next..(next + count - 1) = 1..(next + count - 1)
    BY <1>1, <1>3
  <2>2. next + count - 1 = (next + count) - 1
    BY <1>1, <1>3
  <2>3. \A x \in dropped : x \notin next..(next + count - 1)
    BY <1>1, <1>5
  <2> HIDE DEF batch
  <2> QED
    BY <1>5, <1>6, <2>1, <2>2, <2>3 DEF Accounted
<1>8. PICK outcome \in Outcome(batch) :
        /\ Transmit(batch, outcome)
        /\ Settle(batch, outcome)
        /\ wpc' = IF outcome.status = "Blocked" THEN "run" ELSE "flush"
  BY <1>2
<1>9. Possible(batch, outcome) /\ next + count \in Nat
  BY <1>1, <1>3, <1>8 DEF Transmit
<1> HIDE DEF batch
<1>10. /\ wire' \in Seq(1..Packets) /\ pending' \in Seq(1..Packets)
       /\ dropped' \subseteq 1..Packets /\ room' \in 0..SocketRoom /\ retry' \in Deadline
       /\ Accounted(wire', pending', dropped', next + count)
       /\ outcome.status = "Blocked" => retry' = RetryDelay
       /\ outcome.status # "Blocked" => pending' = <<>>
  BY <1>1, <1>6, <1>7, <1>8, <1>9, SendAccounted
<1>11. /\ UNCHANGED <<operations, sendPending, processed, wheel, stopped>>
       /\ expiry' \in Deadline /\ ~stopped
  BY Running, Constants DEF WriteBatch, queueVars
<1>12. wpc' \in {"run", "flush"} /\ (wpc' = "flush" => pending' = <<>>)
  BY <1>8, <1>10
<1>13. pending' # <<>> => retry' <= RetryDelay
  BY <1>10, Constants
<1>14. Typed'
  BY <1>4, <1>10, <1>11, <1>12 DEF InductiveInv, Typed
<1>15. Queueing' /\ Retrying'
  BY <1>11, <1>12, <1>13 DEF InductiveInv, Queueing, Retrying
<1>16. Order'
  BY <1>2, <1>10, <1>12 DEF Order, Accounted
<1> QED
  BY <1>14, <1>15, <1>16 DEF InductiveInv

LEMMA NothingWrittenKeeps ==
  ASSUME SendAssumption, InductiveInv, NothingWritten
  PROVE  InductiveInv'
<1>1. ~stopped /\ pending = <<>> /\ wpc' = "run"
  BY Running DEF NothingWritten, InductiveInv, Order
<1>2. expiry' \in Deadline
  BY Constants DEF NothingWritten, InductiveInv, Typed
<1>3. Typed'
  BY <1>1, <1>2 DEF InductiveInv, Typed, NothingWritten, queueVars, socketVars
<1>4. Queueing' /\ Retrying'
  BY <1>1 DEF InductiveInv, Queueing, Retrying, NothingWritten, queueVars
<1>5. Order'
  BY <1>1, OrderKept DEF InductiveInv, NothingWritten, socketVars
<1> QED
  BY <1>3, <1>4, <1>5 DEF InductiveInv

LEMMA BudgetExhaustedKeeps ==
  ASSUME SendAssumption, InductiveInv, BudgetExhausted
  PROVE  InductiveInv'
<1>1. ~stopped /\ wpc' = "run"
  BY Running DEF BudgetExhausted
<1>2. /\ operations' \in Seq(OperationType) /\ sendPending' = TRUE
      /\ OneFlush(operations') /\ HasFlush(operations')
  BY Running, FlushQueued DEF BudgetExhausted
<1>3. Typed'
  BY <1>1, <1>2 DEF InductiveInv, Typed, BudgetExhausted, ngtcp2Vars, socketVars
<1>4. Queueing' /\ Retrying'
  BY <1>1, <1>2 DEF InductiveInv, Queueing, Retrying, BudgetExhausted
<1>5. Order'
  BY <1>1, OrderKept DEF InductiveInv, BudgetExhausted, ngtcp2Vars, socketVars
<1> QED
  BY <1>3, <1>4, <1>5 DEF InductiveInv

-----------------------------------------------------------------------------
(* The theorems.                                                             *)

LEMMA StepKeeps ==
  ASSUME SendAssumption, InductiveInv, [Next]_vars
  PROVE  InductiveInv'
<1>1. CASE WorkerStep
  BY <1>1, ExpireTimerKeeps, BeginRunKeeps, ProcessOfferedKeeps, ProcessTimerKeeps,
     ProcessSendFlushKeeps, FlushPendingTransportSendKeeps, WriteBatchKeeps, NothingWrittenKeeps,
     BudgetExhaustedKeeps, EndRunKeeps DEF WorkerStep
<1>2. CASE Offer \/ Drain \/ Tick \/ Fail
  BY <1>2, OfferKeeps, DrainKeeps, TickKeeps, FailKeeps
<1>3. CASE UNCHANGED vars
  BY <1>3 DEF vars, queueVars, workerVars, ngtcp2Vars, socketVars, InductiveInv, Typed, Queueing,
     Order, Accounted, Retrying
<1> QED
  BY <1>1, <1>2, <1>3 DEF Next

LEMMA Inductive == Spec => []InductiveInv
<1>1. Init => InductiveInv
  BY Initially, SendAssumption
<1>2. InductiveInv /\ [Next]_vars => InductiveInv'
  BY StepKeeps, SendAssumption
<1> QED
  BY <1>1, <1>2, PTL DEF Spec

\* The variables have their types, and sendOperationPending_ says whether a flush
\* is queued, of which there is never more than one (queueSendFlush).
THEOREM TypeCorrect == Spec => []TypeOK
<1>1. InductiveInv => TypeOK
  <2> SUFFICES ASSUME InductiveInv PROVE TypeOK
    OBVIOUS
  <2>1. operations \in Seq({"Offered", "TimerExpired", "FlushSend"})
    BY DEF InductiveInv, Typed, OperationType
  <2>2. Members(pending) \cup Members(wire) \cup dropped \subseteq 1..Packets
    <3>1. ASSUME NEW s \in Seq(1..Packets) PROVE Members(s) \subseteq 1..Packets
      <4>1. DOMAIN s = 1..Len(s) /\ \A i \in 1..Len(s) : s[i] \in 1..Packets
        BY LenProperties, ElementOfSeq
      <4> QED
        BY <4>1 DEF Members
    <3> QED
      BY <3>1 DEF InductiveInv, Typed
  <2>3. /\ \A i, j \in Flushes : i = j
        /\ ~stopped => (sendPending <=> Flushes # {})
    BY DEF InductiveInv, Queueing, OneFlush, HasFlush, Flushes
  <2> QED
    BY <2>1, <2>2, <2>3 DEF InductiveInv, Typed, TypeOK
<1> QED
  BY <1>1, Inductive, PTL

\* Whatever the socket takes of a send and whenever it refuses (sendTransportOnce,
\* flushPendingTransportSend), the packets ngtcp2 wrote are on the wire, pending or
\* given up, each once, and the first two in the order in which they were written.
THEOREM PacketOrderCorrect == Spec => []PacketOrder
<1>1. InductiveInv => PacketOrder
  BY DEF InductiveInv, Order, Accounted, Increasing, PacketOrder
<1> QED
  BY <1>1, Inductive, PTL

\* A send the socket refused is never forgotten: an idle connection with a
\* pending send has its timer set, and not later than the retry (processTimer,
\* scheduleSendRetry, and the entry of the wheel when a run ends).
THEOREM RetryCorrect == Spec => []PendingRetried
<1>1. InductiveInv => PendingRetried
  <2> SUFFICES ASSUME InductiveInv, ~stopped, wpc = "idle", operations = <<>>, pending # <<>>
               PROVE  retry <= RetryDelay /\ wheel <= retry
    BY DEF PendingRetried
  <2>1. ~HasFlush(operations)
    BY DEF HasFlush
  <2> QED
    BY <2>1 DEF InductiveInv, Retrying
<1> QED
  BY <1>1, Inductive, PTL
=============================================================================
